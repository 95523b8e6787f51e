------------------------------ MODULE MCProfiler ------------------------------
(***************************************************************************)
(* A program and its threads under the profiler: one call that is printed  *)
(* whatever its arguments are, one that may still be under way, an execve. *)
(***************************************************************************)
EXTENDS Profiler, TLC

MCCalls == {"execve", "connect", "read", "fork", "thread", "exit"}
MCRetvals == {-2, -1, 0}
MinusTwo == -2

===============================================================================
