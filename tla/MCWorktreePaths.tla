--------------------------- MODULE MCWorktreePaths ---------------------------
(***************************************************************************)
(* Three paths and two contents: a file can be renamed in the index and    *)
(* again in the worktree, and can meet a second one of its content.        *)
(***************************************************************************)
EXTENDS WorktreePaths

ThreePaths == 1..3
=============================================================================
