------------------------------- MODULE InodeMap -------------------------------
(***************************************************************************)
(* What InodeForFileId promises its callers, without LevelDB, the          *)
(* checkpoint, singleflight or the applier: a file id that has no inode    *)
(* gets one that was never handed out before, and keeps it until its       *)
(* mapping is deleted; an inode, once handed out, names the same file id   *)
(* for good (the i2f: entry is never deleted).                             *)
(***************************************************************************)
EXTENDS TLC

CONSTANTS
    FileIds,   \* remote file ids
    Inodes,    \* the inodes that may be handed out
    None       \* no current inode

VARIABLES
    owner,     \* inode -> the file id it was handed to (i2f:)
    cur        \* file id -> its current inode, or None (f2i:)

vars == <<owner, cur>>

TypeOK ==
    /\ DOMAIN owner \subseteq Inodes /\ owner \in [DOMAIN owner -> FileIds]
    /\ cur \in [FileIds -> Inodes \cup {None}]

Init ==
    /\ owner = [n \in {} |-> None]
    /\ cur = [x \in FileIds |-> None]

\* x, without an inode, gets a fresh one.
Assign(x, n) ==
    /\ cur[x] = None /\ n \notin DOMAIN owner
    /\ owner' = (n :> x) @@ owner
    /\ cur' = [cur EXCEPT ![x] = n]

\* x's mapping is deleted; its inode stays taken.
Forget(x) ==
    /\ cur[x] # None
    /\ cur' = [cur EXCEPT ![x] = None]
    /\ UNCHANGED owner

Next == \E x \in FileIds : Forget(x) \/ \E n \in Inodes : Assign(x, n)

Spec == Init /\ [][Next]_vars
=============================================================================
