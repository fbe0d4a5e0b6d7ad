--------------------------- MODULE MCProgressTasks ---------------------------
(* Small instances of ProgressTasks: two contexts, one after the other; the    *)
(* epoll descriptor of the second may get the number that of the first had.   *)
EXTENDS ProgressTasks, TLC

CONSTANTS a1, a2, f1, f2

MCFdFor == (a1 :> {f1}) @@ (a2 :> {f1, f2})
=============================================================================
