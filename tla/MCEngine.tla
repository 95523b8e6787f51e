------------------------------- MODULE MCEngine -------------------------------
(***************************************************************************)
(* Two small rules for the engine: one that stays in its first state until *)
(* an open from a shell ends it, single-active and with a cooldown (as     *)
(* gen_path_openat_count makes them), and a sequence of two calls that is  *)
(* inherited on fork.                                                      *)
(***************************************************************************)
EXTENDS EngineMonitor, TLC

MCLength == 0 :> 1 @@ 1 :> 2
MCTimeout == 0 :> 1 @@ 1 :> 1
MCCooldown == 0 :> 2 @@ 1 :> 0
MCInherit == 0 :> FALSE @@ 1 :> TRUE
MCSingle == 0 :> TRUE @@ 1 :> FALSE

MCCalls == {"listen", "sh", "php", "open"}
MCExecves == {"sh", "php"}
MCExecPath == "sh" :> "/bin/sh" @@ "php" :> "/usr/bin/php"
MCRetvals == {-1, 0}
MCData == 0 .. 1

\* States that differ only in the outputs of the last call, or in a part of a
\* recorded event that is overwritten before use or that no rule here looks
\* at, behave alike.
Remembered(e) ==
  [e EXCEPT !.timestamp_ns = 0, !.retval = IF @ = NoRet THEN @ ELSE 0,
            !.from_shell = @ /\ e.call = "open"]

MCView ==
  <<[p \in Pids |-> IF has_event(p) THEN Remembered(tracked_pids[p])
                    ELSE tracked_pids[p]],
    from_shell_pids, allow_pids, tables, now>>

Interchangeable == Permutations(Pids)

Goto(n, d) == [next |-> n, data |-> d]
NoMatch(d) == Goto(-1, d)

\* Rule 0: a shell or an open begins it, an open from a shell ends it, or is
\* the whole of it.  Rule 1: an execve, then an open.
MCStep(r, k, d, e) ==
  IF e.retval # 0 THEN NoMatch(d)
  ELSE CASE r = 0 /\ e.call = "open" /\ e.from_shell -> Goto(1, d)
         [] r = 0 /\ e.call = "open" /\ ~e.from_shell -> Goto(0, 1)
         [] r = 0 /\ e.call = "sh" -> Goto(0, 1)
         [] r = 1 /\ k = 0 /\ e.call \in MCExecves -> Goto(1, d)
         [] r = 1 /\ k = 1 /\ e.call = "open" -> Goto(2, d)
         [] OTHER -> NoMatch(d)

===============================================================================
