------------------------------- MODULE MCTracer -------------------------------
(***************************************************************************)
(* The loop and the engine without rules: who is tracked, which calls are  *)
(* judged and which flags are set do not depend on them.                   *)
(***************************************************************************)
EXTENDS Tracer, TLC

NoRules == [r \in {} |-> 0]
NoStep(r, k, d, e) == [next |-> -1, data |-> d]

\* The rule of README.md's example: an execve, then an open.
TwoSteps == 0 :> 2
OneUnit == 0 :> 1
ZeroUnits == 0 :> 0
NoInherit == 0 :> FALSE
SequenceCalls == {"sh", "php", "open", "fork"}
SequenceStep(r, k, d, e) ==
  [next |-> IF e.retval = 0 /\ k = 0 /\ e.call = "php" THEN 1
            ELSE IF e.retval = 0 /\ k = 1 /\ e.call = "open" THEN 2 ELSE -1,
   data |-> d]

MCCalls == {"sh", "php", "fork", "thread", "exit"}
MCExecPath == "sh" :> "/bin/sh" @@ "php" :> "/usr/bin/php"
MCRetvals == {-1, 0}

Interchangeable == Permutations(Pids \ {Root, ZeroPid})

\* The outputs of the last call, and the parts of a recorded
\* event that are overwritten before use, make no difference.
Remembered(e) ==
  [e EXCEPT !.retval = IF @ = NoRet THEN @ ELSE 0, !.from_shell = FALSE,
            !.timestamp_ns = 0]

MCView ==
  <<[p \in Pids |-> IF has_event(p) THEN Remembered(tracked_pids[p])
                    ELSE tracked_pids[p]],
    from_shell_pids, allow_pids, tables, now, kernel, loop>>

===============================================================================
