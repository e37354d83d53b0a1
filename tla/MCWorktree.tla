------------------------------ MODULE MCWorktree ------------------------------
(***************************************************************************)
(* A tracked file in a directory and a file that does not exist yet, which *)
(* is also an allowed output of the tests.  One plan edits and adds, one   *)
(* deletes the directory and adds, one deletes the file alone, one renames *)
(* it.                                                                     *)
(***************************************************************************)
EXTENDS Worktree

CONSTANTS old, new, dir, a, b

Item(op, path, from) == [op |-> op, path |-> path, from |-> from]

BelowDir == [x \in {old, new, dir} |-> IF x = dir THEN {old} ELSE {x}]
StartTree == [p \in {old, new} |-> IF p = old THEN a ELSE Absent]
Plans == {{Item("modify", old, NoPath), Item("add", new, NoPath)},
          {Item("delete", dir, NoPath), Item("add", new, NoPath)},
          {Item("delete", old, NoPath)},
          {Item("rename", new, old)}}
=============================================================================
