---------------------------- MODULE MC_LegacySync ----------------------------
(***************************************************************************)
(* Instantiates LegacySync for TLC: two files, a root parent, pages of two *)
(* changes.                                                                *)
(***************************************************************************)
EXTENDS LegacySync

CONSTANTS fa, fb

\* fa is created at the root, fb inside fa, then fb is trashed.
LegacyCreateTrash ==
    << [file |-> fa, del |-> FALSE, parent |-> Root],
       [file |-> fb, del |-> FALSE, parent |-> fa],
       [file |-> fb, del |-> TRUE,  parent |-> fa] >>

\* As above, then fb is restored from the trash into fa.
LegacyTrashRestore ==
    LegacyCreateTrash \o << [file |-> fb, del |-> FALSE, parent |-> fa] >>
=============================================================================
