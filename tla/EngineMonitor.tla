----------------------------- MODULE EngineMonitor -----------------------------
(***************************************************************************)
(* The engine keeps a Monitor of every single-active rule at every pid.    *)
(***************************************************************************)
EXTENDS Engine

Single == {r \in Rules : single_active_per_pid[r]}

\* No match: not a time.
NoStart == -1

StatesOf(A, p, r) == {s \in A : s.pid = p /\ s.rule_index = r}

\* The start of the pid's only match of the rule.
Since(A, p, r) ==
  IF StatesOf(A, p, r) = {} THEN NoStart
  ELSE (CHOOSE s \in StatesOf(A, p, r) : TRUE).start_time_ns

\* An entry that is over means nothing, whether it is erased yet or not.
Until(C, p, r, t) == IF C[p][r] <= t THEN 0 ELSE C[p][r]

Reported(D, p, r) == \E d \in D : d.pid = p /\ d.rule_index = r

M(p, r) == INSTANCE Monitor WITH
  Window <- timeout_ns[r], Cooldown <- cooldown_ns[r], Never <- NoStart,
  since <- Since(active_detection_states, p, r),
  until <- Until(cooldown_until, p, r, now),
  reported <- Reported(detected, p, r)

\* A single-active rule is at every pid idle, matching or silent, and goes from
\* one to the other as Monitor says, whatever else process_event does at the
\* same time for other rules and pids, over fork, removal and remapping
\* (engine.cc:416-510).
KeepsMonitors ==
  [][ \A p \in Pids, r \in Single :
        [M(p, r)!MonitorNext]_(M(p, r)!monitor) ]_vars

===============================================================================
