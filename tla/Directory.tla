------------------------------ MODULE Directory ------------------------------
(***************************************************************************)
(* Reading a directory: read() on one (abi_read_dir), SVR4's, SCO's and    *)
(* Solaris's getdents, and the seeks that go with them.                    *)
(*                                                                         *)
(* One program lists one directory in one of the four ways, in calls whose *)
(* buffers it chooses.  An entry is the length of its name and the inode   *)
(* number stat() reports for the file.  The loops of abi_read_dir and      *)
(* vfs_readdir take a step for every entry: each is a system call of its   *)
(* own that moves the position.                                            *)
(***************************************************************************)
EXTENDS Integers, Sequences

CONSTANTS
    NameLens,       \* lengths of names
    Inos,           \* inode numbers, in 16 bits
    MaxEntries,     \* entries of the directory
    Counts,         \* sizes of the buffers
    PerChunk,       \* entries that fit in the buffer of vfs_readdir
    Stale           \* bytes the program's buffer may hold beforehand

USHRT_MAX == 65535

ASSUME DirectoryAssumption ==
    /\ NameLens \subseteq Nat \ {0} /\ Inos \subseteq 1 .. USHRT_MAX
    /\ MaxEntries \in Nat /\ Counts \subseteq Nat /\ PerChunk \in Nat \ {0}
    /\ Stale \subseteq 0 .. 255

Methods == {"read", "svr4", "sco", "solaris"}
Whole == UNION {[1 .. n -> [len : NameLens, ino : Inos]] : n \in 0 .. MaxEntries}

VARIABLES
    method,     \* how the program lists
    dir,        \* the entries
    pos,        \* the position of the open directory: entries before it
    listing,    \* the call in progress, or NoListing
    got,        \* entries told since the last rewind: [at, ino]
    skipped,    \* entries passed over because they fit in no such buffer
    answer      \* what the last call returned: bytes, or -1 for an error

directoryVars == <<method, dir, pos, listing, got, skipped, answer>>

NoListing == [posn |-> 0, reclen |-> 0, count |-> 0, filled |-> <<>>]
Listing(count) == [NoListing EXCEPT !.count = count]
Idle == listing = NoListing
Return(n) == answer' = n /\ listing' = NoListing
-----------------------------------------------------------------------------
(* A record of read() is made of pieces of 14 characters; those of SVR4,   *)
(* SCO and Linux have a header and are rounded up to a word.               *)
ReadSize(len) == 16 * ((len + 13) \div 14)
FilldirSize(len) == ((19 + len + 1 + 3) \div 4) * 4
ScoSize(len) == ((10 + len + 2 + 3) \div 4) * 4

(* put_user() stores one byte of the inode number, as buf is a char *.     *)
InoStored(ino, stale) == (ino % 256) + 256 * stale

(* abi_read and abi_read_dir: a call begins ...                            *)
AbiRead(count) ==
    /\ method = "read" /\ Idle /\ count > 0
    /\ listing' = Listing(count)
    /\ UNCHANGED <<method, dir, pos, got, skipped, answer>>

Looping == method = "read" /\ ~Idle
               /\ listing.posn + listing.reclen < listing.count
NextEntry == dir[pos + 1]               \* what readdir() returns

(* ... stores an entry ...                                                 *)
ReadStore(stale) ==
    LET reclen == ReadSize(NextEntry.len)
    IN  /\ Looping /\ pos < Len(dir)
        /\ listing.posn + reclen <= listing.count
        /\ pos' = pos + 1
        /\ listing' = [listing EXCEPT !.posn = @ + reclen, !.reclen = reclen]
        /\ got' = Append(got, [at |-> pos + 1, ino |-> InoStored(NextEntry.ino, stale)])
        /\ UNCHANGED <<method, dir, skipped, answer>>

(* Mutant: the directory is not set back to the entry.                     *)
ReadBackOffForgets ==
    LET reclen == ReadSize(NextEntry.len)
    IN  /\ Looping /\ pos < Len(dir)
        /\ listing.posn > 0 /\ listing.posn + reclen > listing.count
        /\ pos' = pos + 1
        /\ listing' = [listing EXCEPT !.reclen = reclen]
        /\ UNCHANGED <<method, dir, got, skipped, answer>>

(* ... leaves one that does not fit for the next call: the position is     *)
(* set back to where it was ...                                            *)
ReadBackOff ==
    LET reclen == ReadSize(NextEntry.len)
    IN  /\ Looping /\ pos < Len(dir)
        /\ listing.posn > 0 /\ listing.posn + reclen > listing.count
        /\ listing' = [listing EXCEPT !.reclen = reclen]
        /\ UNCHANGED <<method, dir, pos, got, skipped, answer>>

(* ... or passes over one that would not fit in the empty buffer ...       *)
ReadSkip ==
    /\ Looping /\ pos < Len(dir)
    /\ listing.posn = 0 /\ ReadSize(NextEntry.len) > listing.count
    /\ pos' = pos + 1 /\ skipped' = skipped \cup {pos + 1}
    /\ listing' = [listing EXCEPT !.reclen = 0]
    /\ UNCHANGED <<method, dir, got, answer>>

(* ... and returns, at the end or when the buffer is full.                 *)
ReadReturn ==
    /\ method = "read" /\ ~Idle
    /\ ~Looping \/ pos = Len(dir)
    /\ Return(listing.posn)
    /\ UNCHANGED <<method, dir, pos, got, skipped>>
-----------------------------------------------------------------------------
(* svr4_getdents: a call begins ...                                        *)
Svr4Getdents(count) ==
    /\ method = "svr4" /\ Idle /\ count > 0
    /\ listing' = Listing(count)
    /\ UNCHANGED <<method, dir, pos, got, skipped, answer>>

(* ... vfs_readdir gets as many entries as its own buffer holds and gives  *)
(* the first to svr4_filldir, which stores it if there is room ...         *)
Chunk == LET left == Len(dir) - pos IN IF left < PerChunk THEN left ELSE PerChunk
Svr4Filldir ==
    LET reclen == FilldirSize(NextEntry.len)
    IN  /\ method = "svr4" /\ ~Idle /\ pos < Len(dir)
        /\ listing.posn + reclen <= listing.count
        /\ pos' = pos + Chunk
        /\ listing' = [listing EXCEPT !.posn = @ + reclen,
                                      !.filled = Append(@, [at |-> pos + 1,
                                                            ino |-> NextEntry.ino])]
        /\ UNCHANGED <<method, dir, got, skipped, answer>>

(* ... or else fails, and so does the call, whatever has been stored ...   *)
Svr4FilldirFull ==
    /\ method = "svr4" /\ ~Idle /\ pos < Len(dir)
    /\ listing.posn + FilldirSize(NextEntry.len) > listing.count
    /\ pos' = pos + Chunk /\ Return(-1)
    /\ UNCHANGED <<method, dir, got, skipped>>

(* ... until there are no more.                                            *)
Svr4GetdentsReturn ==
    /\ method = "svr4" /\ ~Idle /\ pos = Len(dir)
    /\ got' = got \o listing.filled
    /\ Return(listing.posn)
    /\ UNCHANGED <<method, dir, pos, skipped>>
-----------------------------------------------------------------------------
(* Linux's getdents: as many entries as fit, at least one or an error.     *)
LinuxFill(count) ==
    LET size[n \in 0 .. Len(dir) - pos] ==
            IF n = 0 THEN 0 ELSE size[n - 1] + ScoSize(dir[pos + n].len)
        fit == {n \in 0 .. Len(dir) - pos : size[n] <= count}
        n == CHOOSE m \in fit : \A k \in fit : k <= m
    IN  [n |-> n, bytes |-> IF n = 0 /\ pos < Len(dir) THEN -1 ELSE size[n]]

(* sco_getdents: Linux's, with every inode number mapped in place.         *)
ScoGetdents(count) ==
    LET fill == LinuxFill(count)
    IN  /\ method = "sco" /\ Idle
        /\ pos' = pos + fill.n
        /\ got' = got \o [i \in 1 .. fill.n |->
                            [at |-> pos + i, ino |-> dir[pos + i].ino]]
        /\ answer' = fill.bytes
        /\ UNCHANGED <<method, dir, listing, skipped>>

(* sol_getdents64 asks Linux's getdents to fill one byte.                  *)
SolGetdents64(count) ==
    /\ method = "solaris" /\ Idle
    /\ answer' = IF count > 0 THEN LinuxFill(1).bytes ELSE 0
    /\ UNCHANGED <<method, dir, pos, listing, got, skipped>>

(* sco_lseek with 0x40000000, or lseek to 0.                               *)
Rewind ==
    /\ Idle /\ pos > 0
    /\ pos' = 0 /\ got' = <<>> /\ skipped' = {} /\ answer' = 0
    /\ UNCHANGED <<method, dir, listing>>
-----------------------------------------------------------------------------
DirectoryInit ==
    /\ method \in Methods /\ dir \in Whole
    /\ pos = 0 /\ listing = NoListing
    /\ got = <<>> /\ skipped = {} /\ answer = 1

DirectoryNext ==
    \/ \E count \in Counts : \/ AbiRead(count) \/ Svr4Getdents(count)
                             \/ ScoGetdents(count) \/ SolGetdents64(count)
    \/ \E stale \in Stale : ReadStore(stale)
    \/ ReadBackOff \/ ReadSkip \/ ReadReturn
    \/ Svr4Filldir \/ Svr4FilldirFull \/ Svr4GetdentsReturn
    \/ Rewind

DirectorySpec == DirectoryInit /\ [][DirectoryNext]_directoryVars
-----------------------------------------------------------------------------
Told == {got[i].at : i \in DOMAIN got}

(* Between the calls of a program that lists with read() or SCO's getdents *)
(* every entry before the position has been told once, in order, but for   *)
(* those that would not have fit in the buffer alone; a call that put an   *)
(* entry back told something, and one that tells nothing has come to the   *)
(* end, so that a program that reads until then has seen them all.         *)
ListedOnce ==
    (method \in {"read", "sco"} /\ Idle) =>
        /\ Told \cup skipped = 1 .. pos /\ Told \cap skipped = {}
        /\ \A i \in 1 .. Len(got) - 1 : got[i].at < got[i + 1].at
        /\ answer = 0 /\ pos > 0 => pos = Len(dir)

(* vfs_readdir passes on "a list of the directory contents": between the   *)
(* calls of a program that lists with SVR4's getdents every entry before   *)
(* the position has been told.                                             *)
GetdentsLists == (method = "svr4" /\ Idle) => Told = 1 .. pos

(* "The folding used here must match that used in stat()": the inode       *)
(* number read() tells for an entry is the one stat() does.                *)
FoldedAsStat ==
    method = "read" => \A i \in DOMAIN got : got[i].ino = dir[got[i].at].ino
=============================================================================
