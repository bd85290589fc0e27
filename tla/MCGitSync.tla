------------------------------ MODULE MCGitSync ------------------------------
(* Model checking GitSync with small numbers: two turns, an edit of the    *)
(* user and an added file, told apart by their digits.                     *)
EXTENDS GitSync

(* Bounds of the exploration: commits made, and commands not yet handled.  *)
MaxCommits  == 7
MaxCommands == 2
InBounds == Len(commits) <= MaxCommits /\ Len(todo) <= MaxCommands
=============================================================================
