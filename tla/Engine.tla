-------------------------------- MODULE Engine --------------------------------
(***************************************************************************)
(* The detection engine (src/src/engine.cc, engine.h): the pids it tracks, *)
(* their shell and allow flags, the partial matches of the rules, the      *)
(* cooldowns and the handlers the ptrace loop calls.  One action is one    *)
(* call of a public handler with everything it calls.  The calls may come  *)
(* in any order here; module Tracer restricts them to those of main.cc.    *)
(***************************************************************************)
EXTENDS Integers, FiniteSets

CONSTANTS
  Pids,                 \* thread ids the kernel may hand out
  Root,                 \* the child main() starts
  NumRules,             \* rules.size()
  Length,               \* Length[r]: transitions.size() of rule r
  timeout_ns,           \* the other members of DetectionRule, per rule
  cooldown_ns,
  inherit_on_fork,
  single_active_per_pid,
  Step(_, _, _, _),     \* transitions[index](data, event) of a rule
  Data, NoData,         \* values of DetectionState::data; std::any()
  Calls,                \* a syscall with its arguments, as parsed at entry
  Execves, Listens,     \* those whose number is SYS_execve, SYS_listen
  ExecPath, NoPath,     \* get_exec_path of an execve; std::nullopt
  allow_execve_paths,
  Retvals,              \* return values that make a difference
  NoRet,                \* retval before the call returned: std::nullopt
  Untracked, NoEvent,   \* pid not in tracked_pids; in it with std::nullopt
  RequireListen,        \* DETECTION_REQUIRE_LISTEN
  MaxTime, MaxIds       \* bounds of the clock and of detection_state_count

Rules == 0 .. NumRules - 1
Time == 0 .. MaxTime
ShellPaths == {"/bin/sh", "/usr/bin/sh", "/bin/bash", "/usr/bin/bash"}

SyscallEvent ==
  [call : Calls, pid : Pids, retval : Retvals \cup {NoRet},
   from_shell : BOOLEAN, timestamp_ns : Time]

DetectionState ==
  [id : Nat, pid : Pids, rule_index : Rules, current_state_index : Nat,
   data : Data, start_time_ns : Time]

ASSUME RulesAssumption ==
  /\ NumRules \in Nat
  /\ Length \in [Rules -> Nat \ {0}]
  /\ timeout_ns \in [Rules -> Int]
  /\ cooldown_ns \in [Rules -> Int]
  /\ inherit_on_fork \in [Rules -> BOOLEAN]
  /\ single_active_per_pid \in [Rules -> BOOLEAN]

(* The rules gen_rule_def (src/rule_codegen.py) and register_rules make:   *)
(* no rule that is single-active is inherited on fork, and every rule with *)
(* a cooldown is single-active.                                            *)
ASSUME SingleNotInherited ==
  \A r \in Rules : single_active_per_pid[r] => ~inherit_on_fork[r]

ASSUME CooldownIsSingle ==
  \A r \in Rules : cooldown_ns[r] > 0 => single_active_per_pid[r]

ASSUME CallsAssumption ==
  /\ Root \in Pids
  /\ Execves \subseteq Calls /\ Listens \subseteq Calls
  /\ Retvals \subseteq Int /\ 0 \in Retvals /\ NoRet \notin Int
  /\ Untracked \notin SyscallEvent /\ NoEvent \notin SyscallEvent
  /\ Untracked # NoEvent
  /\ RequireListen \in BOOLEAN
  /\ MaxTime \in Nat /\ MaxIds \in Nat
  /\ NoData \in Data

ASSUME StepAssumption ==
  \A r \in Rules, d \in Data, e \in SyscallEvent : \A k \in 0 .. Length[r] - 1 :
    Step(r, k, d, e) \in [next : Int, data : Data]

VARIABLES
  tracked_pids,             \* pid -> the syscall it is in, or was in last
  from_shell_pids,
  allow_pids,
  active_detection_states,  \* the values of the map, each with its id
  cooldown_until,           \* pid -> rule -> end of the cooldown, 0: none
  detection_state_count,
  detection_started,
  now,                      \* monotonic_time_ns()
  seen,                     \* the event the last call gave process_event
  detected                  \* what the last call reported

vars == <<tracked_pids, from_shell_pids, allow_pids, active_detection_states,
          cooldown_until, detection_state_count, detection_started, now,
          seen, detected>>

tables == <<active_detection_states, cooldown_until, detection_state_count,
            detection_started>>

NoCooldown == [r \in Rules |-> 0]

-----------------------------------------------------------------------------
(* Partial matches.                                                        *)

\* Mutant: the window is not checked.
TimedOutNever(s, ts) == FALSE

TimedOut(s, ts) ==
  /\ timeout_ns[s.rule_index] >= 0
  /\ \/ ts < s.start_time_ns
     \/ ts - s.start_time_ns > timeout_ns[s.rule_index]

Result(s, ev) == Step(s.rule_index, s.current_state_index, s.data, ev)

\* The state's transition function runs.
Runs(s, ev) == s.pid = ev.pid /\ ~TimedOut(s, ev.timestamp_ns)

Completes(s, ev) == Runs(s, ev) /\ Result(s, ev).next = Length[s.rule_index]

\* The function may change data whatever it returns; NO_MATCH (-1) and an
\* index beyond the last state leave current_state_index alone.
Advance(s, ev) ==
  IF ~Runs(s, ev) THEN s
  ELSE [s EXCEPT !.data = Result(s, ev).data,
                 !.current_state_index =
                    IF Result(s, ev).next \in 0 .. Length[s.rule_index] - 1
                    THEN Result(s, ev).next ELSE @]

\* Mutant: the state that reported is not erased.
SurvivesReport(s, ev) == ~TimedOut(s, ev.timestamp_ns)

Survives(s, ev) == ~TimedOut(s, ev.timestamp_ns) /\ ~Completes(s, ev)

\* process_transition: what is left of the states in A.
process_transition(A, ev) ==
  {Advance(s, ev) : s \in {t \in A : Survives(t, ev)}}

Report(id, pid, r, start) ==
  [id |-> id, pid |-> pid, rule_index |-> r, start_time_ns |-> start]

Completed(A, ev) ==
  {Report(s.id, s.pid, s.rule_index, s.start_time_ns) :
     s \in {t \in A : Completes(t, ev)}}

has_active_state(A, pid, r) ==
  \E s \in A : s.pid = pid /\ s.rule_index = r

\* Mutant: the cooldown is not looked up.
in_cooldown_never(C, pid, r, ts) == FALSE

in_cooldown(C, pid, r, ts) == ts < C[pid][r]

\* set_cooldown for every report of one event.
set_cooldown(C, reports, pid, ts) ==
  [C EXCEPT ![pid] =
     [r \in Rules |-> IF cooldown_ns[r] > 0 /\ \E d \in reports : d.rule_index = r
                      THEN ts + cooldown_ns[r] ELSE C[pid][r]]]

\* Mutant: the entry is erased when it is found.
erase_found(C, pid, R, ts) ==
  [C EXCEPT ![pid] = [r \in Rules |-> IF r \in R THEN 0 ELSE C[pid][r]]]

\* in_cooldown erases the entry it finds expired.
erase_expired(C, pid, R, ts) ==
  [C EXCEPT ![pid] = [r \in Rules |-> IF r \in R /\ C[pid][r] <= ts
                                      THEN 0 ELSE C[pid][r]]]

\* Mutant: detection_state_count is read for each new state and not advanced.
NextIdSame(n, k, K) == n

\* The ids detection_state_count++ gives to the members of K in order.
NextId(n, k, K) == n + Cardinality({j \in K : j < k})

-----------------------------------------------------------------------------
(* process_first_transition, on the states A and cooldowns C that          *)
(* process_transition left: the rules whose first transition runs, the     *)
(* reports of those with one transition, and the states of the others.     *)

\* Mutant: single_active_per_pid is ignored.
NotSuppressedEver(A, pid) == Rules

NotSuppressed(A, pid) ==
  {r \in Rules : ~(single_active_per_pid[r] /\ has_active_state(A, pid, r))}

Started(A, C, ev) ==
  {r \in NotSuppressed(A, ev.pid) : ~in_cooldown(C, ev.pid, r, ev.timestamp_ns)}

First(r, ev) == Step(r, 0, NoData, ev)

\* Mutant: the index one past the last transition is stored as well.
StoredFinal(A, C, ev) ==
  {r \in Started(A, C, ev) : First(r, ev).next \in 0 .. Length[r]}

Stored(A, C, ev) ==
  {r \in Started(A, C, ev) : First(r, ev).next \in 0 .. Length[r] - 1}

NewStates(A, C, ev, n) ==
  {[id |-> NextId(n, r, Stored(A, C, ev)), pid |-> ev.pid, rule_index |-> r,
    current_state_index |-> First(r, ev).next, data |-> First(r, ev).data,
    start_time_ns |-> ev.timestamp_ns] : r \in Stored(A, C, ev)}

\* A report uses the next id without taking it.
Immediate(A, C, ev, n) ==
  {Report(NextId(n, r, Stored(A, C, ev)), ev.pid, r, ev.timestamp_ns) :
     r \in {q \in Started(A, C, ev) : First(q, ev).next = Length[q]}}

process_first_transition(A, C, ev, n, reports) ==
  LET immediate == Immediate(A, C, ev, n)
  IN  /\ active_detection_states' = A \cup NewStates(A, C, ev, n)
      /\ detection_state_count' = n + Cardinality(Stored(A, C, ev))
      /\ cooldown_until' =
           set_cooldown(erase_expired(C, ev.pid, NotSuppressed(A, ev.pid), ev.timestamp_ns),
                        immediate, ev.pid, ev.timestamp_ns)
      /\ detected' = reports \cup immediate

-----------------------------------------------------------------------------
(* process_event.  shell, allow and C are the flags and cooldowns the      *)
(* handler has when it calls it.                                           *)

Succeeded(ev) == ev.retval = 0

ProgramRun(ev) ==
  IF ev.call \in Execves /\ Succeeded(ev) THEN ExecPath[ev.call] ELSE NoPath

\* process_allow_list and process_from_shell: the pids they add.
AllowListed(ev) ==
  IF ProgramRun(ev) # NoPath /\ ProgramRun(ev) \in allow_execve_paths
  THEN {ev.pid} ELSE {}

ShellStarted(ev) ==
  IF ProgramRun(ev) # NoPath /\ ProgramRun(ev) \in ShellPaths
  THEN {ev.pid} ELSE {}

ListenSucceeded(ev) == ev.call \in Listens /\ Succeeded(ev)

\* The gate that opens at the first successful listen and stays open.
StartsDetection(ev) == detection_started \/ ListenSucceeded(ev)

match(ev, C) ==
  LET A == process_transition(active_detection_states, ev)
      done == Completed(active_detection_states, ev)
  IN  process_first_transition(A, set_cooldown(C, done, ev.pid, ev.timestamp_ns),
                               ev, detection_state_count, done)

skip_match(C) ==
  /\ cooldown_until' = C
  /\ detected' = {}
  /\ UNCHANGED <<active_detection_states, detection_state_count>>

MarkShell(ev) == [ev EXCEPT !.from_shell = @ \/ ShellStarted(ev) # {}]

\* Mutants: the gate, or the allow flag, is not consulted.
InspectedEarly(ev, allow) == ev.pid \notin allow
InspectedAllowed(ev, allow) == RequireListen => StartsDetection(ev)

Inspected(ev, allow) ==
  (RequireListen => StartsDetection(ev)) /\ ev.pid \notin allow

process_event(ev, shell, allow, C) ==
  LET marked == MarkShell(ev)
      allowed == allow \cup AllowListed(ev)
  IN  /\ from_shell_pids' = shell \cup ShellStarted(ev)
      /\ allow_pids' = allowed
      /\ detection_started' = (RequireListen /\ StartsDetection(ev))
      /\ seen' = marked
      /\ \/ Inspected(ev, allowed) /\ match(marked, C)
         \/ ~Inspected(ev, allowed) /\ skip_match(C)
      /\ detection_state_count' <= MaxIds    \* bound

no_event == seen' = NoEvent /\ detected' = {}

-----------------------------------------------------------------------------
(* The public handlers.                                                    *)

\* copy_detection_states.  The map's iteration order is unspecified; ids in
\* the order of the originals is one of the orders it may have.
Inherited(parent) ==
  {s \in active_detection_states :
     s.pid = parent /\ inherit_on_fork[s.rule_index]}

Copies(parent, child) ==
  LET ids == {s.id : s \in Inherited(parent)}
  IN  {[s EXCEPT !.id = NextId(detection_state_count, s.id, ids), !.pid = child] :
         s \in Inherited(parent)}

Heirs(S, parent, child) == IF parent \in S THEN S \cup {child} ELSE S

add_tracked_pid(pid, parent) ==
  /\ tracked_pids' = [tracked_pids EXCEPT ![pid] = NoEvent]
  /\ from_shell_pids' = Heirs(from_shell_pids, parent, pid)
  /\ allow_pids' = Heirs(allow_pids, parent, pid)
  /\ active_detection_states' = active_detection_states \cup Copies(parent, pid)
  /\ detection_state_count' =
       detection_state_count + Cardinality(Copies(parent, pid))
  /\ detection_state_count' <= MaxIds    \* bound
  /\ UNCHANGED <<cooldown_until, detection_started, now>>
  /\ no_event

\* Mutant: the shell flag is not erased.
remove_tracked_pid_shell(pid) ==
  /\ tracked_pids' = [tracked_pids EXCEPT ![pid] = Untracked]
  /\ allow_pids' = allow_pids \ {pid}
  /\ cooldown_until' = [cooldown_until EXCEPT ![pid] = NoCooldown]
  /\ UNCHANGED <<from_shell_pids, active_detection_states, detection_state_count,
                 detection_started, now>>
  /\ no_event

remove_tracked_pid(pid) ==
  /\ tracked_pids' = [tracked_pids EXCEPT ![pid] = Untracked]
  /\ from_shell_pids' = from_shell_pids \ {pid}
  /\ allow_pids' = allow_pids \ {pid}
  /\ cooldown_until' = [cooldown_until EXCEPT ![pid] = NoCooldown]
  /\ UNCHANGED <<active_detection_states, detection_state_count,
                 detection_started, now>>
  /\ no_event

is_tracked(pid) == tracked_pids[pid] # Untracked
has_event(pid) == tracked_pids[pid] \notin {Untracked, NoEvent}

nothing == UNCHANGED <<tracked_pids, from_shell_pids, allow_pids, now>>
           /\ UNCHANGED tables /\ no_event

handle_syscall_entry(pid, call) ==
  \/ /\ is_tracked(pid)
     /\ tracked_pids' = [tracked_pids EXCEPT ![pid] =
          [call |-> call, pid |-> pid, retval |-> NoRet,
           from_shell |-> pid \in from_shell_pids, timestamp_ns |-> now]]
     /\ UNCHANGED <<from_shell_pids, allow_pids, now>>
     /\ UNCHANGED tables
     /\ no_event
  \/ ~is_tracked(pid) /\ nothing

\* The finished event stays in tracked_pids.
handle_syscall_exit(pid, ret) ==
  \/ /\ has_event(pid)
     /\ LET ev == [tracked_pids[pid] EXCEPT !.retval = ret, !.timestamp_ns = now]
        IN  /\ process_event(ev, from_shell_pids, allow_pids, cooldown_until)
            /\ tracked_pids' = [tracked_pids EXCEPT ![pid] = MarkShell(ev)]
     /\ UNCHANGED now
  \/ ~has_event(pid) /\ nothing

in_execve(pid) ==
  /\ has_event(pid)
  /\ tracked_pids[pid].retval = NoRet
  /\ tracked_pids[pid].call \in Execves

ExecEvent(pid, owner) ==
  [tracked_pids[owner] EXCEPT !.pid = pid, !.retval = 0, !.timestamp_ns = now]

\* Mutant: the record is not reset, so the exit stop judges it again.
exec_in_place_kept(pid) ==
  /\ process_event(ExecEvent(pid, pid), from_shell_pids, allow_pids, cooldown_until)
  /\ tracked_pids' = [tracked_pids EXCEPT ![pid] = MarkShell(ExecEvent(pid, pid))]
  /\ UNCHANGED now

exec_in_place(pid) ==
  /\ process_event(ExecEvent(pid, pid), from_shell_pids, allow_pids, cooldown_until)
  /\ tracked_pids' = [tracked_pids EXCEPT ![pid] = NoEvent]
  /\ UNCHANGED now

Renamed(S, old, new) == Heirs(S, old, new) \ {old}

\* execve of a thread other than the leader: the kernel gives it the leader's
\* pid, and the engine moves its record there.
\* Mutants: the leader keeps the record of the call it was in; the old pid
\* keeps its cooldowns; the leader's pid is not tracked again.
exec_remapped_stale(pid, old_pid) ==
  /\ process_event(ExecEvent(pid, old_pid),
                   Renamed(from_shell_pids, old_pid, pid),
                   Renamed(allow_pids, old_pid, pid),
                   [cooldown_until EXCEPT ![old_pid] = NoCooldown])
  /\ tracked_pids' = [tracked_pids EXCEPT ![old_pid] = Untracked]
  /\ UNCHANGED now

exec_remapped_cooling(pid, old_pid) ==
  /\ process_event(ExecEvent(pid, old_pid),
                   Renamed(from_shell_pids, old_pid, pid),
                   Renamed(allow_pids, old_pid, pid), cooldown_until)
  /\ tracked_pids' = [tracked_pids EXCEPT ![pid] = NoEvent, ![old_pid] = Untracked]
  /\ UNCHANGED now

exec_remapped_gone(pid, old_pid) ==
  /\ process_event(ExecEvent(pid, old_pid),
                   Renamed(from_shell_pids, old_pid, pid),
                   Renamed(allow_pids, old_pid, pid),
                   [cooldown_until EXCEPT ![old_pid] = NoCooldown])
  /\ tracked_pids' = [tracked_pids EXCEPT ![pid] = Untracked, ![old_pid] = Untracked]
  /\ UNCHANGED now

exec_remapped(pid, old_pid) ==
  /\ process_event(ExecEvent(pid, old_pid),
                   Renamed(from_shell_pids, old_pid, pid),
                   Renamed(allow_pids, old_pid, pid),
                   [cooldown_until EXCEPT ![old_pid] = NoCooldown])
  /\ tracked_pids' = [tracked_pids EXCEPT ![pid] = NoEvent, ![old_pid] = Untracked]
  /\ UNCHANGED now

handle_exec_stop(pid, old_pid) ==
  \/ in_execve(pid) /\ exec_in_place(pid)
  \/ ~in_execve(pid) /\ old_pid # pid /\ in_execve(old_pid)
     /\ exec_remapped(pid, old_pid)
  \/ ~in_execve(pid) /\ (old_pid # pid => ~in_execve(old_pid)) /\ nothing

\* is_tracked and tracked: main() asks, and nothing changes.
query == nothing

\* The monotonic clock.
Tick ==
  /\ now < MaxTime
  /\ now' = now + 1
  /\ UNCHANGED <<tracked_pids, from_shell_pids, allow_pids>>
  /\ UNCHANGED tables
  /\ no_event

-----------------------------------------------------------------------------
\* register_rules has taken one id per rule; main() has added the child.
Init ==
  /\ tracked_pids = [p \in Pids |-> IF p = Root THEN NoEvent ELSE Untracked]
  /\ from_shell_pids = {} /\ allow_pids = {}
  /\ active_detection_states = {}
  /\ cooldown_until = [p \in Pids |-> NoCooldown]
  /\ detection_state_count = NumRules
  /\ detection_started = FALSE
  /\ now = 0
  /\ seen = NoEvent /\ detected = {}

Next ==
  \/ Tick
  \/ \E p, q \in Pids : p # q /\ add_tracked_pid(p, q)
  \/ \E p \in Pids : remove_tracked_pid(p)
  \/ \E p \in Pids, c \in Calls : handle_syscall_entry(p, c)
  \/ \E p \in Pids, ret \in Retvals : handle_syscall_exit(p, ret)
  \/ \E p, old \in Pids : handle_exec_stop(p, old)
  \/ query

Spec == Init /\ [][Next]_vars

-----------------------------------------------------------------------------
(* Properties.                                                             *)

\* Every table holds what its declaration says, and the state index of a
\* partial match always selects one of its rule's transitions
\* (transitions[state.current_state_index], engine.cc:434).
TypeOK ==
  /\ tracked_pids \in [Pids -> SyscallEvent \cup {Untracked, NoEvent}]
  /\ from_shell_pids \subseteq Pids
  /\ allow_pids \subseteq Pids
  /\ active_detection_states \subseteq DetectionState
  /\ \A s \in active_detection_states :
       s.current_state_index < Length[s.rule_index]
  /\ cooldown_until \in [Pids -> [Rules -> Nat]]
  /\ detection_state_count \in Nat
  /\ detection_started \in BOOLEAN
  /\ now \in Time

\* No two partial matches share an id, and every id is one the counter has
\* passed: storing a state (engine.cc:328 and 494) never overwrites another.
FreshIds ==
  \A s \in active_detection_states :
    /\ s.id < detection_state_count
    /\ \A t \in active_detection_states : s.id = t.id => s = t

\* A single_active_per_pid rule has one partial match per pid at most, over
\* fork, exec remapping, expiry and the events that start and end matches.
SingleActive ==
  \A s, t \in active_detection_states :
    /\ s.pid = t.pid /\ s.rule_index = t.rule_index
    /\ single_active_per_pid[s.rule_index]
    => s = t

\* Until a tracked process listens, nothing is matched and nothing reported
\* (the gate of process_event), whatever the allow and shell lists record.
QuietUntilListen ==
  RequireListen /\ ~detection_started =>
    /\ active_detection_states = {}
    /\ cooldown_until = [p \in Pids |-> NoCooldown]
    /\ detected = {}

\* A pid that is on the allow list after the call has no report in it, and
\* its partial matches, or those it inherits, are frozen as they were.
AllowedSilent ==
  [][ /\ \A d \in detected' : d.pid \notin allow_pids'
      /\ \A s \in active_detection_states' : s.pid \in allow_pids' =>
           \E t \in active_detection_states :
             [t EXCEPT !.id = s.id, !.pid = s.pid] = s ]_vars

\* Every report of a rule with a window comes within timeout_ns of the event
\* that began the match, however many events and pids come between.
ReportInWindow ==
  [][ \A d \in detected' :
        timeout_ns[d.rule_index] >= 0 =>
          now' - d.start_time_ns \in 0 .. timeout_ns[d.rule_index] ]_vars

\* A rule never reports for a pid while that pid's cooldown for it runs: not
\* from a match that was under way, nor from one that starts.
CooldownRespected ==
  [][ \A d \in detected' : now' >= cooldown_until[d.pid][d.rule_index] ]_vars

\* A cooldown lasts to its end for as long as the pid is tracked, over the
\* events that look it up and the execve that takes a leader's pid; and it ends
\* with the tracking (engine.cc:336 and 588): the next process that gets the pid
\* is not silenced by it.
CooldownKept ==
  [][ \A p \in Pids, r \in Rules :
        /\ is_tracked(p)' /\ cooldown_until[p][r] > now'
             => cooldown_until'[p][r] >= cooldown_until[p][r]
        /\ ~is_tracked(p)' => cooldown_until'[p][r] = 0 ]_vars

\* A match that reported is gone: it cannot report again.
ReportedOnce ==
  [][ \A d \in detected', s \in active_detection_states' :
        ~(s.id = d.id /\ s.rule_index = d.rule_index) ]_vars

===============================================================================
