---------------------------- MODULE MCShortInode ----------------------------
(***************************************************************************)
(* An instance of ShortInode with the program's own hash function for a    *)
(* 3 bit u_short.                                                          *)
(***************************************************************************)
EXTENDS ShortInode, ShortInodeHash

CONSTANT Width

MCMax == MaxSlots(Width)
MCHashVal ==
    [i \in {n \in Inodes : n > UNMAPPED} |-> short_inode_hashval(Width, i)]
=============================================================================
