----------------------------- MODULE MC_DriveDB -----------------------------
(***************************************************************************)
(* Instantiates DriveDB for TLC: two files, a root parent, small change    *)
(* logs, pages of two changes.                                             *)
(***************************************************************************)
EXTENDS DriveDB

CONSTANTS fa, fb, fc

\* fa is created at the root, fb inside fa, then fb is trashed.
HistCreateTrash ==
    << [file |-> fa, del |-> FALSE, parent |-> Root],
       [file |-> fb, del |-> FALSE, parent |-> fa],
       [file |-> fb, del |-> TRUE,  parent |-> fa] >>

\* As above, then fb is restored from the trash into fa.
HistTrashRestore ==
    HistCreateTrash \o << [file |-> fb, del |-> FALSE, parent |-> fa] >>

\* fa and fb are created at the root, then fb is moved into fa.
HistMove ==
    << [file |-> fa, del |-> FALSE, parent |-> Root],
       [file |-> fb, del |-> FALSE, parent |-> Root],
       [file |-> fb, del |-> FALSE, parent |-> fa] >>
\* fa is created at the root and trashed, then fb is created at the root.
HistDeleteThenCreate ==
    << [file |-> fa, del |-> FALSE, parent |-> Root],
       [file |-> fa, del |-> TRUE,  parent |-> Root],
       [file |-> fb, del |-> FALSE, parent |-> Root] >>
\* fa is created at the root and trashed, then fb and fc are created.
HistDeleteThenCreateTwo ==
    HistDeleteThenCreate \o << [file |-> fc, del |-> FALSE, parent |-> Root] >>
=============================================================================
