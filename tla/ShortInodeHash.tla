--------------------------- MODULE ShortInodeHash ---------------------------
(***************************************************************************)
(* short_inode_hashval of ibcs/short-inode.c for a w bit u_short.  The     *)
(* program has w = 16; the widths checked are small enough that several    *)
(* inodes share a hash slot.                                               *)
(***************************************************************************)
EXTENDS Integers, Bitwise

UNMAPPED == 2                       \* SHORT_INODE_UNMAPPED
MaxSlots(w) == 2^w - (UNMAPPED + 1) \* SHORT_INODE_MAX

short_inode_hashval(w, ino) ==
    LET low == ino % 2^w
        h == IF ino > MaxSlots(w) THEN low ^^ ((ino \div 2^w) % 2^w) ELSE low
    IN  (h + MaxSlots(w) - UNMAPPED - 1) % MaxSlots(w)
=============================================================================
