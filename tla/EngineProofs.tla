----------------------------- MODULE EngineProofs -----------------------------
(***************************************************************************)
(* Theorems of module Engine, for every set of pids, every list of rules   *)
(* and every order of calls: its types, then its safety properties.  A     *)
(* step either leaves the tables alone, or adds a pid, or removes one, or  *)
(* judges one event (StepCases); each theorem is proved along these cases. *)
(***************************************************************************)
EXTENDS Engine, FunctionTheorems, FiniteSetTheorems, TLAPS

\* A partial match whose index selects a transition.
Indexed(s) == s \in DetectionState /\ s.current_state_index < Length[s.rule_index]

Cooldowns == [Pids -> [Rules -> Nat]]

-----------------------------------------------------------------------------
(* Finite sets.                                                            *)

LEMMA ImageFinite ==
  ASSUME NEW S, IsFiniteSet(S), NEW f, f \in [S -> {f[x] : x \in S}]
  PROVE  IsFiniteSet({f[x] : x \in S})
<1> DEFINE T == {f[x] : x \in S}
<1>1. f \in Surjection(S, T)
  BY DEF Surjection
<1> QED
  BY <1>1, FS_Surjection

LEMMA RulesFinite ==
  ASSUME NEW R, R \subseteq Rules
  PROVE  IsFiniteSet(R) /\ Cardinality(R) \in Nat
<1>1. IsFiniteSet(Rules)
  BY FS_Interval, RulesAssumption DEF Rules
<1> QED
  BY <1>1, FS_Subset, FS_CardinalityType

\* The ids handed out to a finite set of naturals are naturals, are at least
\* the counter, are less than the counter advanced by their number, and differ.
LEMMA NextIdProperties ==
  ASSUME NEW n \in Nat, NEW K, IsFiniteSet(K), K \subseteq Nat, NEW k \in K
  PROVE  /\ NextId(n, k, K) \in Nat
         /\ n <= NextId(n, k, K)
         /\ NextId(n, k, K) < n + Cardinality(K)
         /\ \A j \in K : j # k => NextId(n, j, K) # NextId(n, k, K)
<1> DEFINE Below(j) == {i \in K : i < j}
<1>1. \A j \in K : IsFiniteSet(Below(j)) /\ Cardinality(Below(j)) \in Nat
  BY FS_Subset, FS_CardinalityType
<1>2. Cardinality(K) \in Nat
  BY FS_CardinalityType
<1>3. Cardinality(Below(k)) < Cardinality(K)
  <2>1. Below(k) \in SUBSET K /\ Below(k) # K
    OBVIOUS
  <2> QED
    BY <2>1, <1>1, <1>2, FS_Subset
<1>4. ASSUME NEW i \in K, NEW j \in K, i < j
      PROVE  Cardinality(Below(i)) < Cardinality(Below(j))
  <2>1. Below(i) \in SUBSET Below(j)
    <3>1. ASSUME NEW m \in K, m < i PROVE m < j
      <4>1. m \in Nat /\ i \in Nat /\ j \in Nat
        OBVIOUS
      <4> QED
        BY <4>1, <3>1, <1>4
    <3> QED
      BY <3>1
  <2>2. i \in Below(j) /\ i \notin Below(i)
    BY <1>4
  <2> HIDE DEF Below
  <2> QED
    BY <2>1, <2>2, <1>1, FS_Subset
<1>5. \A j \in K : NextId(n, j, K) = n + Cardinality(Below(j))
  BY DEF NextId
<1>6. ASSUME NEW j \in K, j # k
      PROVE  NextId(n, j, K) # NextId(n, k, K)
  <2>1. j < k \/ k < j
    BY <1>6
  <2> HIDE DEF Below
  <2> QED
    BY <2>1, <1>1, <1>4, <1>5
<1> HIDE DEF Below
<1> QED
  BY <1>1, <1>2, <1>3, <1>5, <1>6

-----------------------------------------------------------------------------
(* The operators the handlers are built from.                              *)

\* A transition that runs from a state of its rule gives an index and data.
LEMMA ResultType ==
  ASSUME NEW s, Indexed(s), NEW ev \in SyscallEvent
  PROVE  Result(s, ev) \in [next : Int, data : Data]
<1>1. /\ s.rule_index \in Rules /\ s.data \in Data
      /\ s.current_state_index \in Nat
      /\ s.current_state_index < Length[s.rule_index]
  BY DEF Indexed, DetectionState
<1>2. Length[s.rule_index] \in Nat
  BY <1>1, RulesAssumption
<1>3. s.current_state_index \in 0 .. Length[s.rule_index] - 1
  BY <1>1, <1>2
<1> QED
  BY <1>1, <1>3, StepAssumption DEF Result

\* Advancing keeps a partial match well formed and changes neither its id, nor
\* its pid, rule and start.
LEMMA AdvanceType ==
  ASSUME NEW s, Indexed(s), NEW ev \in SyscallEvent
  PROVE  /\ Indexed(Advance(s, ev))
         /\ Advance(s, ev).id = s.id
         /\ Advance(s, ev).pid = s.pid
         /\ Advance(s, ev).rule_index = s.rule_index
         /\ Advance(s, ev).start_time_ns = s.start_time_ns
<1>1. Result(s, ev) \in [next : Int, data : Data]
  BY ResultType
<1>2. /\ s \in DetectionState /\ s.rule_index \in Rules
      /\ s.current_state_index \in Nat
      /\ s.current_state_index < Length[s.rule_index]
  BY DEF Indexed, DetectionState
<1>3. Length[s.rule_index] \in Nat
  BY <1>2, RulesAssumption
<1>4. CASE ~Runs(s, ev)
  BY <1>4 DEF Advance
<1>5. CASE Runs(s, ev)
  <2> DEFINE i == IF Result(s, ev).next \in 0 .. Length[s.rule_index] - 1
                  THEN Result(s, ev).next ELSE s.current_state_index
  <2>1. i \in Nat /\ i < Length[s.rule_index]
    BY <1>1, <1>2, <1>3
  <2>2. Advance(s, ev) =
          [s EXCEPT !.data = Result(s, ev).data, !.current_state_index = i]
    BY <1>5 DEF Advance
  <2>3. Result(s, ev).data \in Data
    BY <1>1
  <2> HIDE DEF i
  <2> QED
    BY <1>2, <2>1, <2>2, <2>3 DEF Indexed, DetectionState
<1> QED
  BY <1>4, <1>5

LEMMA TransitionType ==
  ASSUME NEW A, \A s \in A : Indexed(s), IsFiniteSet(A), NEW ev \in SyscallEvent
  PROVE  /\ \A s \in process_transition(A, ev) : Indexed(s)
         /\ IsFiniteSet(process_transition(A, ev))
<1> DEFINE kept == {s \in A : Survives(s, ev)}
           f == [s \in kept |-> Advance(s, ev)]
<1>1. process_transition(A, ev) = {f[s] : s \in kept}
  BY DEF process_transition
<1>2. IsFiniteSet(kept)
  BY FS_Subset
<1>3. IsFiniteSet({f[s] : s \in kept})
  <2>1. f \in [kept -> {f[s] : s \in kept}]
    OBVIOUS
  <2> HIDE DEF f, kept
  <2> QED
    BY <1>2, <2>1, ImageFinite
<1>4. \A s \in process_transition(A, ev) : Indexed(s)
  BY AdvanceType DEF process_transition
<1> QED
  BY <1>1, <1>3, <1>4

LEMMA CooldownType ==
  ASSUME NEW C \in Cooldowns, NEW pid \in Pids, NEW ts \in Nat, NEW reports, NEW R
  PROVE  /\ set_cooldown(C, reports, pid, ts) \in Cooldowns
         /\ erase_expired(C, pid, R, ts) \in Cooldowns
<1>1. \A r \in Rules : cooldown_ns[r] \in Int /\ C[pid][r] \in Nat
  BY RulesAssumption DEF Cooldowns
<1>2. \A r \in Rules : cooldown_ns[r] > 0 => ts + cooldown_ns[r] \in Nat
  BY <1>1
<1>3. [r \in Rules |-> IF cooldown_ns[r] > 0 /\ \E d \in reports : d.rule_index = r
                       THEN ts + cooldown_ns[r] ELSE C[pid][r]] \in [Rules -> Nat]
  BY <1>1, <1>2
<1>4. [r \in Rules |-> IF r \in R /\ C[pid][r] <= ts THEN 0 ELSE C[pid][r]]
        \in [Rules -> Nat]
  BY <1>1
<1> QED
  BY <1>3, <1>4 DEF set_cooldown, erase_expired, Cooldowns

LEMMA NewStatesType ==
  ASSUME NEW A, NEW C, NEW ev \in SyscallEvent, NEW n \in Nat
  PROVE  /\ \A s \in NewStates(A, C, ev, n) : Indexed(s)
         /\ IsFiniteSet(NewStates(A, C, ev, n))
         /\ Cardinality(Stored(A, C, ev)) \in Nat
<1>1. Stored(A, C, ev) \subseteq Rules
  BY DEF Stored, Started, NotSuppressed
<1>2. IsFiniteSet(Stored(A, C, ev)) /\ Cardinality(Stored(A, C, ev)) \in Nat
  BY <1>1, RulesFinite
<1>3. ASSUME NEW r \in Stored(A, C, ev)
      PROVE  Indexed([id |-> NextId(n, r, Stored(A, C, ev)), pid |-> ev.pid,
                      rule_index |-> r, current_state_index |-> First(r, ev).next,
                      data |-> First(r, ev).data, start_time_ns |-> ev.timestamp_ns])
  <2>1. r \in Rules /\ Length[r] \in Nat \ {0}
    BY <1>1, RulesAssumption
  <2>2. First(r, ev) \in [next : Int, data : Data]
    BY <2>1, StepAssumption, CallsAssumption DEF First
  <2>3. First(r, ev).next \in 0 .. Length[r] - 1
    BY DEF Stored
  <2>4. NextId(n, r, Stored(A, C, ev)) \in Nat
    BY <1>1, <1>2, NextIdProperties DEF Rules
  <2> QED
    BY <2>1, <2>2, <2>3, <2>4 DEF Indexed, DetectionState, SyscallEvent
<1> DEFINE f == [r \in Stored(A, C, ev) |->
                   [id |-> NextId(n, r, Stored(A, C, ev)), pid |-> ev.pid,
                    rule_index |-> r, current_state_index |-> First(r, ev).next,
                    data |-> First(r, ev).data, start_time_ns |-> ev.timestamp_ns]]
<1>4. NewStates(A, C, ev, n) = {f[r] : r \in Stored(A, C, ev)}
  BY DEF NewStates
<1>5. f \in [Stored(A, C, ev) -> {f[r] : r \in Stored(A, C, ev)}]
  OBVIOUS
<1>6. \A s \in NewStates(A, C, ev, n) : Indexed(s)
  BY <1>3 DEF NewStates
<1> HIDE DEF f
<1> QED
  BY <1>2, <1>4, <1>5, <1>6, ImageFinite

-----------------------------------------------------------------------------
(* Type correctness.                                                       *)

TypeInv == TypeOK /\ IsFiniteSet(active_detection_states)

TypedTables ==
  /\ \A s \in active_detection_states : Indexed(s)
  /\ IsFiniteSet(active_detection_states)
  /\ cooldown_until \in Cooldowns
  /\ detection_state_count \in Nat
  /\ detection_started \in BOOLEAN

LEMMA TypedTablesType == TypeInv => TypedTables
BY DEF TypeInv, TypeOK, TypedTables, Indexed, Cooldowns

LEMMA MarkShellType ==
  ASSUME NEW ev \in SyscallEvent
  PROVE  /\ MarkShell(ev) \in SyscallEvent
         /\ MarkShell(ev).pid = ev.pid
         /\ MarkShell(ev).timestamp_ns = ev.timestamp_ns
BY DEF MarkShell, SyscallEvent

LEMMA MatchType ==
  ASSUME TypedTables, NEW ev \in SyscallEvent, NEW C \in Cooldowns, match(ev, C)
  PROVE  /\ \A s \in active_detection_states' : Indexed(s)
         /\ IsFiniteSet(active_detection_states')
         /\ cooldown_until' \in Cooldowns
         /\ detection_state_count' \in Nat
<1> DEFINE A == process_transition(active_detection_states, ev)
           D == set_cooldown(C, Completed(active_detection_states, ev), ev.pid,
                             ev.timestamp_ns)
           n == detection_state_count
<1>1. ev.pid \in Pids /\ ev.timestamp_ns \in Nat
  BY CallsAssumption DEF SyscallEvent, Time
<1>2. \A s \in A : Indexed(s)
  BY TransitionType DEF TypedTables
<1>3. IsFiniteSet(A)
  BY TransitionType DEF TypedTables
<1>4. D \in Cooldowns
  BY <1>1, CooldownType
<1>5. n \in Nat
  BY DEF TypedTables
<1>6. process_first_transition(A, D, ev, n, Completed(active_detection_states, ev))
  BY DEF match
<1> HIDE DEF A, D, n
<1>7. /\ active_detection_states' = A \cup NewStates(A, D, ev, n)
      /\ detection_state_count' = n + Cardinality(Stored(A, D, ev))
      /\ cooldown_until' =
           set_cooldown(erase_expired(D, ev.pid, NotSuppressed(A, ev.pid), ev.timestamp_ns),
                        Immediate(A, D, ev, n), ev.pid, ev.timestamp_ns)
  BY <1>6 DEF process_first_transition
<1>8. /\ \A s \in NewStates(A, D, ev, n) : Indexed(s)
      /\ IsFiniteSet(NewStates(A, D, ev, n))
      /\ Cardinality(Stored(A, D, ev)) \in Nat
  BY <1>5, NewStatesType
<1>9. \A s \in active_detection_states' : Indexed(s)
  BY <1>2, <1>7, <1>8
<1>10. IsFiniteSet(active_detection_states')
  BY <1>3, <1>7, <1>8, FS_Union
<1>11. cooldown_until' \in Cooldowns
  BY <1>1, <1>4, <1>7, CooldownType
<1>12. detection_state_count' \in Nat
  BY <1>5, <1>7, <1>8
<1> QED
  BY <1>9, <1>10, <1>11, <1>12

LEMMA ProcessEventType ==
  ASSUME TypedTables, NEW ev \in SyscallEvent, NEW C \in Cooldowns,
         NEW shell, shell \subseteq Pids, NEW allow, allow \subseteq Pids,
         process_event(ev, shell, allow, C)
  PROVE  TypedTables' /\ from_shell_pids' \subseteq Pids /\ allow_pids' \subseteq Pids
<1>1. ev.pid \in Pids
  BY DEF SyscallEvent
<1>2. from_shell_pids' \subseteq Pids /\ allow_pids' \subseteq Pids
  BY <1>1 DEF process_event, ShellStarted, AllowListed
<1>3. detection_started' \in BOOLEAN
  BY DEF process_event
<1>4. \/ match(MarkShell(ev), C)
      \/ skip_match(C)
  BY DEF process_event
<1>5. CASE match(MarkShell(ev), C)
  BY <1>2, <1>3, <1>5, MarkShellType, MatchType DEF TypedTables
<1>6. CASE skip_match(C)
  BY <1>2, <1>3, <1>6 DEF TypedTables, skip_match
<1> QED
  BY <1>4, <1>5, <1>6

LEMMA InitType == Init => TypeInv
<1> SUFFICES ASSUME Init PROVE TypeInv
  OBVIOUS
<1>1. NumRules \in Nat /\ 0 \in Time
  BY RulesAssumption, CallsAssumption DEF Time
<1>2. cooldown_until \in [Pids -> [Rules -> Nat]]
  BY DEF Init, NoCooldown
<1> QED
  BY <1>1, <1>2, FS_EmptySet, CallsAssumption DEF Init, TypeInv, TypeOK

LEMMA InheritedIds ==
  ASSUME TypedTables, NEW parent
  PROVE  /\ IsFiniteSet({s.id : s \in Inherited(parent)})
         /\ {s.id : s \in Inherited(parent)} \subseteq Nat
<1> DEFINE S == Inherited(parent)
           g == [s \in S |-> s.id]
<1>1. S \subseteq active_detection_states
  BY DEF Inherited
<1>2. IsFiniteSet(S)
  BY <1>1, FS_Subset DEF TypedTables
<1>3. \A s \in S : s.id \in Nat
  BY <1>1 DEF TypedTables, Indexed, DetectionState
<1>4. g \in [S -> {g[x] : x \in S}] /\ {s.id : s \in S} = {g[x] : x \in S}
  OBVIOUS
<1>5. {s.id : s \in S} \subseteq Nat
  BY <1>3
<1> HIDE DEF g, S
<1>6. IsFiniteSet({s.id : s \in S})
  BY <1>2, <1>4, ImageFinite
<1> QED
  BY <1>5, <1>6 DEF S

LEMMA CopiesType ==
  ASSUME TypedTables, NEW parent \in Pids, NEW child \in Pids
  PROVE  /\ \A s \in Copies(parent, child) : Indexed(s)
         /\ IsFiniteSet(Copies(parent, child))
         /\ Cardinality(Copies(parent, child)) \in Nat
<1> DEFINE S == Inherited(parent)
           ids == {s.id : s \in S}
           copy(s) == [s EXCEPT !.id = NextId(detection_state_count, s.id, ids),
                                !.pid = child]
           f == [s \in S |-> copy(s)]
<1>1. S \subseteq active_detection_states
  BY DEF Inherited
<1>2. IsFiniteSet(S)
  BY <1>1, FS_Subset DEF TypedTables
<1>3. \A s \in S : Indexed(s) /\ s.id \in Nat
  BY <1>1 DEF TypedTables, Indexed, DetectionState
<1>4. IsFiniteSet(ids) /\ ids \subseteq Nat
  BY InheritedIds
<1>5. Copies(parent, child) = {f[s] : s \in S}
  BY DEF Copies
<1>6. ASSUME NEW s \in S PROVE Indexed(copy(s))
  <2>1. s.id \in ids
    OBVIOUS
  <2>2. NextId(detection_state_count, s.id, ids) \in Nat
    <3> HIDE DEF ids
    <3> QED
      BY <1>4, <2>1, NextIdProperties DEF TypedTables
  <2>3. s \in DetectionState /\ s.current_state_index < Length[s.rule_index]
    BY <1>3 DEF Indexed
  <2> HIDE DEF S, ids
  <2> QED
    BY <2>2, <2>3 DEF Indexed, DetectionState
<1>7. IsFiniteSet({f[s] : s \in S})
  <2>1. f \in [S -> {f[s] : s \in S}]
    OBVIOUS
  <2> HIDE DEF f, S
  <2> QED
    BY <1>2, <2>1, ImageFinite
<1>8. \A s \in Copies(parent, child) : Indexed(s)
  BY <1>6 DEF Copies
<1> HIDE DEF S, f
<1> QED
  BY <1>5, <1>7, <1>8, FS_CardinalityType

LEMMA EventType ==
  ASSUME TypeOK, NEW pid \in Pids, has_event(pid)
  PROVE  tracked_pids[pid] \in SyscallEvent
BY DEF TypeOK, has_event

LEMMA TypeStep == TypeInv /\ [Next]_vars => TypeInv'
<1> SUFFICES ASSUME TypeInv, [Next]_vars PROVE TypeInv'
  OBVIOUS
<1> USE DEF TypeInv
<1>t. TypedTables
  BY TypedTablesType
<1>c. ASSUME TypedTables',
             tracked_pids' \in [Pids -> SyscallEvent \cup {Untracked, NoEvent}],
             from_shell_pids' \subseteq Pids, allow_pids' \subseteq Pids, now' \in Time
      PROVE  TypeInv'
  BY <1>c DEF TypedTables, TypeOK, Indexed, Cooldowns
<1>1. CASE Tick
  <2>1. now' \in Time
    BY <1>1, CallsAssumption DEF Tick, TypeOK, Time
  <2> QED
    BY <1>1, <1>t, <1>c, <2>1 DEF Tick, TypeOK, TypedTables, tables
<1>2. ASSUME NEW p \in Pids, NEW q \in Pids, add_tracked_pid(p, q)
      PROVE  TypeInv'
  <2>1. /\ \A s \in Copies(q, p) : Indexed(s)
        /\ IsFiniteSet(Copies(q, p))
        /\ Cardinality(Copies(q, p)) \in Nat
    BY <1>t, CopiesType
  <2>2. /\ \A s \in active_detection_states' : Indexed(s)
        /\ IsFiniteSet(active_detection_states')
        /\ detection_state_count' \in Nat
    <3>1. /\ active_detection_states' = active_detection_states \cup Copies(q, p)
          /\ detection_state_count' = detection_state_count + Cardinality(Copies(q, p))
      BY <1>2 DEF add_tracked_pid
    <3>2. \A s \in active_detection_states' : Indexed(s)
      BY <3>1, <1>t, <2>1 DEF TypedTables
    <3>3. IsFiniteSet(active_detection_states')
      BY <3>1, <1>t, <2>1, FS_Union DEF TypedTables
    <3>4. detection_state_count' \in Nat
      BY <3>1, <1>t, <2>1 DEF TypedTables
    <3> QED
      BY <3>2, <3>3, <3>4
  <2>3. TypedTables'
    BY <1>2, <1>t, <2>2 DEF add_tracked_pid, TypedTables
  <2>4. from_shell_pids' \subseteq Pids /\ allow_pids' \subseteq Pids
    BY <1>2 DEF add_tracked_pid, Heirs, TypeOK
  <2> QED
    BY <1>2, <1>c, <2>3, <2>4 DEF add_tracked_pid, TypeOK
<1>3. ASSUME NEW p \in Pids, remove_tracked_pid(p)
      PROVE  TypeInv'
  <2>1. NoCooldown \in [Rules -> Nat]
    BY DEF NoCooldown
  <2>2. TypedTables'
    BY <1>3, <1>t, <2>1 DEF remove_tracked_pid, TypedTables, Cooldowns
  <2> QED
    BY <1>3, <1>c, <2>2 DEF remove_tracked_pid, TypeOK
<1>4. ASSUME NEW p \in Pids, NEW c \in Calls, handle_syscall_entry(p, c)
      PROVE  TypeInv'
  <2>1. TypedTables'
    BY <1>4, <1>t DEF handle_syscall_entry, nothing, tables, TypedTables
  <2>2. [call |-> c, pid |-> p, retval |-> NoRet,
         from_shell |-> p \in from_shell_pids, timestamp_ns |-> now] \in SyscallEvent
    BY DEF SyscallEvent, TypeOK
  <2>3. /\ from_shell_pids' = from_shell_pids /\ allow_pids' = allow_pids
        /\ now' = now
    BY <1>4 DEF handle_syscall_entry, nothing
  <2>4. tracked_pids' \in [Pids -> SyscallEvent \cup {Untracked, NoEvent}]
    BY <1>4, <2>2 DEF handle_syscall_entry, nothing, TypeOK
  <2> QED
    BY <1>c, <2>1, <2>3, <2>4 DEF TypeOK
<1>5. ASSUME NEW p \in Pids, NEW ret \in Retvals, handle_syscall_exit(p, ret)
      PROVE  TypeInv'
  <2> DEFINE ev == [tracked_pids[p] EXCEPT !.retval = ret, !.timestamp_ns = now]
  <2>1. CASE has_event(p) /\ process_event(ev, from_shell_pids, allow_pids, cooldown_until)
             /\ tracked_pids' = [tracked_pids EXCEPT ![p] = MarkShell(ev)]
             /\ now' = now
    <3>1. ev \in SyscallEvent
      BY <2>1, EventType DEF SyscallEvent, TypeOK
    <3>2. MarkShell(ev) \in SyscallEvent
      BY <3>1, MarkShellType
    <3> HIDE DEF ev
    <3>3. TypedTables' /\ from_shell_pids' \subseteq Pids /\ allow_pids' \subseteq Pids
      BY <1>t, <2>1, <3>1, ProcessEventType DEF TypeOK, Cooldowns
    <3> QED
      BY <1>c, <2>1, <3>2, <3>3 DEF TypeOK
  <2>2. CASE nothing
    BY <1>t, <1>c, <2>2 DEF nothing, tables, TypedTables, TypeOK
  <2> QED
    BY <1>5, <2>1, <2>2 DEF handle_syscall_exit
<1>6. ASSUME NEW p \in Pids, NEW old \in Pids, handle_exec_stop(p, old)
      PROVE  TypeInv'
  <2>1. ASSUME NEW q \in Pids, in_execve(q)
        PROVE  ExecEvent(p, q) \in SyscallEvent
    BY <2>1, EventType, CallsAssumption DEF in_execve, ExecEvent, SyscallEvent, TypeOK
  <2>2. CASE in_execve(p) /\ exec_in_place(p)
    <3>1. TypedTables' /\ from_shell_pids' \subseteq Pids /\ allow_pids' \subseteq Pids
      BY <1>t, <2>1, <2>2, ProcessEventType DEF exec_in_place, TypeOK, Cooldowns
    <3> QED
      BY <1>c, <2>2, <3>1 DEF exec_in_place, TypeOK
  <2>3. CASE in_execve(old) /\ exec_remapped(p, old)
    <3>1. /\ Renamed(from_shell_pids, old, p) \subseteq Pids
          /\ Renamed(allow_pids, old, p) \subseteq Pids
      BY DEF Renamed, Heirs, TypeOK
    <3>2. [cooldown_until EXCEPT ![old] = NoCooldown] \in Cooldowns
      BY DEF NoCooldown, Cooldowns, TypeOK
    <3>3. TypedTables' /\ from_shell_pids' \subseteq Pids /\ allow_pids' \subseteq Pids
      BY <1>t, <2>1, <2>3, <3>1, <3>2, ProcessEventType DEF exec_remapped
    <3> QED
      BY <1>c, <2>3, <3>3 DEF exec_remapped, TypeOK
  <2>4. CASE nothing
    BY <1>t, <1>c, <2>4 DEF nothing, tables, TypedTables, TypeOK
  <2> QED
    BY <1>6, <2>2, <2>3, <2>4 DEF handle_exec_stop
<1>7. CASE query
  BY <1>t, <1>c, <1>7 DEF query, nothing, tables, TypedTables, TypeOK
<1>8. CASE UNCHANGED vars
  BY <1>t, <1>c, <1>8 DEF vars, TypedTables, TypeOK
<1> QED
  BY <1>1, <1>2, <1>3, <1>4, <1>5, <1>6, <1>7, <1>8 DEF Next

(* The tables keep their types, and every partial match selects one of its *)
(* rule's transitions, in every behaviour of the engine.                   *)
THEOREM TypeCorrect == Spec => []TypeOK
<1>1. Init => TypeInv
  BY InitType
<1>2. TypeInv /\ [Next]_vars => TypeInv'
  BY TypeStep
<1>3. TypeInv => TypeOK
  BY DEF TypeInv
<1> QED
  BY <1>1, <1>2, <1>3, PTL DEF Spec

-----------------------------------------------------------------------------
(* The shape of a step.                                                    *)

\* The cooldowns a handler passes to process_event: those of the pid as they
\* were, those of the others as they were or dropped.
Carried(C, pid) ==
  /\ C \in Cooldowns
  /\ C[pid] = cooldown_until[pid]
  /\ \A p \in Pids : C[p] = cooldown_until[p] \/ C[p] = NoCooldown

Idle ==
  /\ UNCHANGED <<active_detection_states, cooldown_until, detection_state_count,
                 detection_started>>
  /\ detected' = {}
  /\ now' \in Nat /\ now <= now'

Judges(ev, C) ==
  /\ Carried(C, ev.pid)
  /\ ev.timestamp_ns = now /\ now' = now
  /\ RequireListen /\ detection_started => detection_started'
  /\ \/ match(ev, C) /\ ev.pid \notin allow_pids'
        /\ (RequireListen => detection_started')
     \/ skip_match(C)

LEMMA EventCases ==
  ASSUME NEW ev \in SyscallEvent, NEW shell, NEW allow, NEW C, Carried(C, ev.pid),
         ev.timestamp_ns = now, now' = now, process_event(ev, shell, allow, C)
  PROVE  \E e \in SyscallEvent : Judges(e, C)
<1> DEFINE e == MarkShell(ev)
<1>1. e \in SyscallEvent /\ e.pid = ev.pid /\ e.timestamp_ns = ev.timestamp_ns
  BY MarkShellType
<1>2. RequireListen /\ detection_started => detection_started'
  BY DEF process_event, StartsDetection
<1>3. \/ match(e, C) /\ ev.pid \notin allow_pids' /\ (RequireListen => detection_started')
      \/ skip_match(C)
  BY DEF process_event, Inspected
<1> HIDE DEF e
<1> QED
  BY <1>1, <1>2, <1>3 DEF Judges

LEMMA StepCases ==
  ASSUME TypeInv, [Next]_vars
  PROVE  \/ UNCHANGED vars
         \/ Idle
         \/ \E p, q \in Pids : p # q /\ add_tracked_pid(p, q)
         \/ \E p \in Pids : remove_tracked_pid(p)
         \/ \E ev \in SyscallEvent, C \in Cooldowns : Judges(ev, C)
<1>t. /\ TypeOK /\ now \in Nat /\ cooldown_until \in Cooldowns
      /\ \A p \in Pids : Carried(cooldown_until, p)
  BY CallsAssumption DEF TypeInv, TypeOK, Time, Cooldowns, Carried
<1>n. nothing => Idle
  BY <1>t DEF nothing, tables, no_event, Idle
<1>1. CASE Tick
  BY <1>1, <1>t DEF Tick, tables, no_event, Idle
<1>2. ASSUME NEW p \in Pids, NEW c \in Calls, handle_syscall_entry(p, c)
      PROVE  Idle
  BY <1>2, <1>t, <1>n DEF handle_syscall_entry, tables, no_event, Idle
<1>3. ASSUME NEW p \in Pids, NEW ret \in Retvals, handle_syscall_exit(p, ret), ~nothing
      PROVE  \E ev \in SyscallEvent, C \in Cooldowns : Judges(ev, C)
  <2> DEFINE ev == [tracked_pids[p] EXCEPT !.retval = ret, !.timestamp_ns = now]
  <2>1. /\ has_event(p) /\ now' = now
        /\ process_event(ev, from_shell_pids, allow_pids, cooldown_until)
    BY <1>3 DEF handle_syscall_exit
  <2>2. ev \in SyscallEvent /\ ev.timestamp_ns = now
    BY <1>t, <2>1, EventType DEF SyscallEvent, TypeOK
  <2>3. Carried(cooldown_until, ev.pid)
    BY <1>t, <2>2 DEF SyscallEvent
  <2> HIDE DEF ev
  <2> QED
    BY <1>t, <2>1, <2>2, <2>3, EventCases
<1>4. ASSUME NEW p \in Pids, NEW old \in Pids, handle_exec_stop(p, old), ~nothing
      PROVE  \E ev \in SyscallEvent, C \in Cooldowns : Judges(ev, C)
  <2>1. ASSUME NEW q \in Pids, in_execve(q)
        PROVE  /\ ExecEvent(p, q) \in SyscallEvent
               /\ ExecEvent(p, q).pid = p
               /\ ExecEvent(p, q).timestamp_ns = now
    BY <2>1, <1>t, EventType, CallsAssumption
    DEF in_execve, ExecEvent, SyscallEvent, TypeOK
  <2>2. CASE in_execve(p) /\ exec_in_place(p)
    BY <1>t, <2>1, <2>2, EventCases DEF exec_in_place
  <2>3. CASE old # p /\ in_execve(old) /\ exec_remapped(p, old)
    <3> DEFINE C == [cooldown_until EXCEPT ![old] = NoCooldown]
    <3>1. NoCooldown \in [Rules -> Nat]
      BY DEF NoCooldown
    <3>2. C \in Cooldowns /\ Carried(C, p)
      BY <1>t, <2>3, <3>1 DEF Cooldowns, Carried
    <3> QED
      BY <1>t, <2>1, <2>3, <3>2, EventCases DEF exec_remapped
  <2> QED
    BY <1>4, <2>2, <2>3 DEF handle_exec_stop
<1> QED
  BY <1>n, <1>1, <1>2, <1>3, <1>4 DEF Next, query

-----------------------------------------------------------------------------
(* The parts of a match.                                                   *)

Left(ev) == process_transition(active_detection_states, ev)
Done(ev) == Completed(active_detection_states, ev)
After(ev, C) == set_cooldown(C, Done(ev), ev.pid, ev.timestamp_ns)

LEMMA MatchParts ==
  ASSUME NEW ev, NEW C, match(ev, C)
  PROVE  /\ active_detection_states' =
              Left(ev) \cup NewStates(Left(ev), After(ev, C), ev, detection_state_count)
         /\ detection_state_count' =
              detection_state_count + Cardinality(Stored(Left(ev), After(ev, C), ev))
         /\ cooldown_until' =
              set_cooldown(
                erase_expired(After(ev, C), ev.pid, NotSuppressed(Left(ev), ev.pid),
                              ev.timestamp_ns),
                Immediate(Left(ev), After(ev, C), ev, detection_state_count),
                ev.pid, ev.timestamp_ns)
         /\ detected' =
              Done(ev) \cup Immediate(Left(ev), After(ev, C), ev, detection_state_count)
BY DEF match, process_first_transition, Left, Done, After

\* What survives an event is a partial match of before, advanced.
LEMMA LeftFrom ==
  ASSUME TypedTables, NEW ev \in SyscallEvent, NEW s \in Left(ev)
  PROVE  \E t \in active_detection_states :
           /\ Survives(t, ev)
           /\ s = Advance(t, ev)
           /\ s.id = t.id /\ s.pid = t.pid /\ s.rule_index = t.rule_index
           /\ s.start_time_ns = t.start_time_ns
BY AdvanceType DEF Left, process_transition, TypedTables

\* A match that begins is of the event's pid, for a rule that was free to.
LEMMA NewFrom ==
  ASSUME NEW A, NEW C, NEW ev \in SyscallEvent, NEW n \in Nat,
         NEW s \in NewStates(A, C, ev, n)
  PROVE  /\ s.rule_index \in Stored(A, C, ev) /\ s.rule_index \in Rules
         /\ s.id = NextId(n, s.rule_index, Stored(A, C, ev))
         /\ s.pid = ev.pid
         /\ s.start_time_ns = ev.timestamp_ns
         /\ n <= s.id /\ s.id < n + Cardinality(Stored(A, C, ev))
         /\ \A t \in NewStates(A, C, ev, n) :
              s.id = t.id \/ s.rule_index = t.rule_index => s = t
<1> DEFINE K == Stored(A, C, ev)
           new(r) == [id |-> NextId(n, r, K), pid |-> ev.pid, rule_index |-> r,
                      current_state_index |-> First(r, ev).next,
                      data |-> First(r, ev).data, start_time_ns |-> ev.timestamp_ns]
<1>1. K \subseteq Rules /\ K \subseteq Nat
  BY DEF Stored, Started, NotSuppressed, Rules
<1>2. IsFiniteSet(K)
  BY <1>1, RulesFinite
<1>3. NewStates(A, C, ev, n) = {new(r) : r \in K}
  BY DEF NewStates
<1>4. \A r \in K : /\ n <= NextId(n, r, K)
                   /\ NextId(n, r, K) < n + Cardinality(K)
                   /\ \A q \in K : NextId(n, r, K) = NextId(n, q, K) => q = r
  BY <1>1, <1>2, NextIdProperties
<1>5. \A r \in K : new(r).id = NextId(n, r, K) /\ new(r).rule_index = r
                   /\ new(r).pid = ev.pid /\ new(r).start_time_ns = ev.timestamp_ns
  OBVIOUS
<1> HIDE DEF K, new
<1>6. PICK r \in K : s = new(r)
  BY <1>3
<1>7. \A t \in NewStates(A, C, ev, n) :
        s.id = t.id \/ s.rule_index = t.rule_index => s = t
  BY <1>3, <1>4, <1>5, <1>6
<1> QED
  BY <1>1, <1>4, <1>5, <1>6, <1>7 DEF K

\* A report is of the event's pid: either of a partial match that is erased,
\* or of a rule with one transition.
LEMMA ReportFrom ==
  ASSUME TypedTables, NEW ev \in SyscallEvent, NEW C, match(ev, C), NEW d \in detected'
  PROVE  /\ d.pid = ev.pid
         /\ \/ \E s \in active_detection_states :
                 /\ Completes(s, ev)
                 /\ d.id = s.id /\ s.pid = ev.pid /\ d.rule_index = s.rule_index
                 /\ d.start_time_ns = s.start_time_ns
            \/ /\ d.rule_index \in Started(Left(ev), After(ev, C), ev)
               /\ d.rule_index \notin Stored(Left(ev), After(ev, C), ev)
               /\ d.id = NextId(detection_state_count, d.rule_index,
                                Stored(Left(ev), After(ev, C), ev))
               /\ d.start_time_ns = ev.timestamp_ns
<1>1. CASE d \in Done(ev)
  BY <1>1 DEF Done, Completed, Completes, Runs, Report
<1>2. CASE d \in Immediate(Left(ev), After(ev, C), ev, detection_state_count)
  <2>1. PICK r \in Started(Left(ev), After(ev, C), ev) :
          /\ First(r, ev).next = Length[r]
          /\ d = Report(NextId(detection_state_count, r, Stored(Left(ev), After(ev, C), ev)),
                        ev.pid, r, ev.timestamp_ns)
    BY <1>2 DEF Immediate
  <2>2. r \in Rules /\ Length[r] \in Nat
    BY <2>1, RulesAssumption DEF Started, NotSuppressed
  <2>3. r \notin Stored(Left(ev), After(ev, C), ev)
    BY <2>1, <2>2 DEF Stored
  <2> QED
    BY <2>1, <2>3 DEF Report
<1> QED
  BY <1>1, <1>2, MatchParts

-----------------------------------------------------------------------------
(* QuietUntilListen.                                                       *)

\* The set of copies of no states is empty.
LEMMA QuietStep == TypeInv /\ QuietUntilListen /\ [Next]_vars => QuietUntilListen'
<1> SUFFICES ASSUME TypeInv, QuietUntilListen, [Next]_vars,
                    RequireListen, ~detection_started'
             PROVE  /\ active_detection_states' = {}
                    /\ cooldown_until' = [p \in Pids |-> NoCooldown]
                    /\ detected' = {}
  BY DEF QuietUntilListen
<1> DEFINE Empty == /\ active_detection_states = {}
                    /\ cooldown_until = [p \in Pids |-> NoCooldown]
                    /\ detected = {}
<1>0. ~detection_started => Empty
  BY DEF QuietUntilListen
<1>1. CASE UNCHANGED vars
  BY <1>0, <1>1 DEF vars
<1>2. CASE Idle
  BY <1>0, <1>2 DEF Idle
<1>3. ASSUME NEW p \in Pids, NEW q \in Pids, add_tracked_pid(p, q)
      PROVE  Empty'
  <2>1. Empty
    BY <1>0, <1>3 DEF add_tracked_pid
  <2>2. Copies(q, p) = {}
    BY <2>1 DEF Copies, Inherited
  <2> QED
    BY <1>3, <2>1, <2>2 DEF add_tracked_pid, no_event
<1>4. ASSUME NEW p \in Pids, remove_tracked_pid(p)
      PROVE  Empty'
  BY <1>0, <1>4 DEF remove_tracked_pid, no_event
<1>5. ASSUME NEW ev \in SyscallEvent, NEW C \in Cooldowns, Judges(ev, C)
      PROVE  Empty'
  <2>1. ~detection_started /\ skip_match(C)
    BY <1>5 DEF Judges
  <2>2. C = [p \in Pids |-> NoCooldown]
    BY <1>0, <1>5, <2>1 DEF Judges, Carried, Cooldowns
  <2> QED
    BY <1>0, <2>1, <2>2 DEF skip_match
<1> QED
  BY <1>1, <1>2, <1>3, <1>4, <1>5, StepCases

(* Until a tracked process listens, the engine matches and reports nothing *)
(* (the gate of process_event, engine.cc:612-620).                         *)
THEOREM NothingBeforeListen == Spec => []QuietUntilListen
<1>1. Init => TypeInv /\ QuietUntilListen
  BY InitType DEF Init, QuietUntilListen
<1>2. TypeInv /\ QuietUntilListen /\ [Next]_vars => (TypeInv /\ QuietUntilListen)'
  BY TypeStep, QuietStep
<1> QED
  BY <1>1, <1>2, PTL DEF Spec

-----------------------------------------------------------------------------
(* FreshIds.                                                               *)

LEMMA CopyFrom ==
  ASSUME TypedTables, NEW p \in Pids, NEW q \in Pids, NEW s \in Copies(q, p)
  PROVE  /\ s.pid = p
         /\ \E t \in active_detection_states :
              /\ t.pid = q /\ inherit_on_fork[t.rule_index]
              /\ s.rule_index = t.rule_index /\ s.start_time_ns = t.start_time_ns
<1>1. PICK t \in Inherited(q) :
        s = [t EXCEPT !.id = NextId(detection_state_count, t.id,
                                    {u.id : u \in Inherited(q)}), !.pid = p]
  BY DEF Copies
<1>2. /\ t \in active_detection_states /\ t.pid = q
      /\ inherit_on_fork[t.rule_index] /\ t \in DetectionState
  BY DEF Inherited, TypedTables, Indexed
<1> QED
  BY <1>1, <1>2 DEF DetectionState

\* Copies get ids that the counter has not passed, and passes with them.
LEMMA CopyIds ==
  ASSUME TypedTables, FreshIds, NEW p \in Pids, NEW q \in Pids, NEW s \in Copies(q, p)
  PROVE  /\ detection_state_count <= s.id
         /\ s.id < detection_state_count + Cardinality(Copies(q, p))
         /\ \A t \in Copies(q, p) : s.id = t.id => s = t
<1> DEFINE S == Inherited(q)
           ids == {u.id : u \in S}
           n == detection_state_count
           copy(u) == [u EXCEPT !.id = NextId(n, u.id, ids), !.pid = p]
           origin(i) == CHOOSE u \in S : u.id = i
           f == [i \in ids |-> copy(origin(i))]
<1>1. S \subseteq active_detection_states /\ n \in Nat /\ \A u \in S : u \in DetectionState
  BY DEF Inherited, TypedTables, Indexed
<1>2. IsFiniteSet(ids) /\ ids \subseteq Nat
  BY InheritedIds
<1>3. Copies(q, p) = {copy(u) : u \in S}
  BY DEF Copies
<1>4. \A u \in S : copy(u).id = NextId(n, u.id, ids) /\ u.id \in ids
  BY <1>1 DEF DetectionState
<1>5. \A u, v \in S : u.id = v.id => u = v
  BY <1>1 DEF FreshIds
<1> HIDE DEF ids, n
<1>6. \A i \in ids : /\ n <= NextId(n, i, ids)
                     /\ NextId(n, i, ids) < n + Cardinality(ids)
                     /\ \A j \in ids : NextId(n, i, ids) = NextId(n, j, ids) => i = j
  BY <1>1, <1>2, NextIdProperties
<1>7. \A i \in ids : origin(i) \in S /\ origin(i).id = i
  BY DEF ids
<1>8. IsFiniteSet(Copies(q, p)) /\ Cardinality(Copies(q, p)) \in Nat
  BY CopiesType
<1> HIDE DEF S, copy, origin
<1>9. f \in Injection(ids, Copies(q, p))
  <2>1. f \in [ids -> Copies(q, p)]
    BY <1>3, <1>7
  <2>2. \A i, j \in ids : f[i] = f[j] => i = j
    BY <1>4, <1>6, <1>7
  <2> QED
    BY <2>1, <2>2 DEF Injection, IsInjective
<1> HIDE DEF f
<1>10. Cardinality(ids) <= Cardinality(Copies(q, p))
  BY <1>8, <1>9, FS_Injection
<1>11. PICK u \in S : s = copy(u)
  BY <1>3
<1>12. n <= s.id /\ s.id < n + Cardinality(Copies(q, p))
  <2>1. s.id = NextId(n, u.id, ids) /\ u.id \in ids
    BY <1>4, <1>11
  <2>2. NextId(n, u.id, ids) \in Nat /\ Cardinality(ids) \in Nat
    BY <1>1, <1>2, <2>1, NextIdProperties, FS_CardinalityType
  <2> QED
    BY <1>1, <1>6, <1>8, <1>10, <2>1, <2>2
<1>13. \A t \in Copies(q, p) : s.id = t.id => s = t
  BY <1>3, <1>4, <1>5, <1>6, <1>11
<1> QED
  BY <1>12, <1>13 DEF n

LEMMA FreshStep == TypeInv /\ FreshIds /\ [Next]_vars => FreshIds'
<1> SUFFICES ASSUME TypeInv, FreshIds, [Next]_vars PROVE FreshIds'
  OBVIOUS
<1>t. /\ TypedTables /\ detection_state_count \in Nat
      /\ \A s \in active_detection_states : s.id \in Nat
  BY TypedTablesType DEF TypedTables, Indexed, DetectionState
<1>1. CASE UNCHANGED vars
  BY <1>1 DEF vars, FreshIds
<1>2. CASE Idle
  BY <1>2 DEF Idle, FreshIds
<1>3. ASSUME NEW p \in Pids, NEW q \in Pids, add_tracked_pid(p, q)
      PROVE  FreshIds'
  <2>1. /\ active_detection_states' = active_detection_states \cup Copies(q, p)
        /\ detection_state_count' = detection_state_count + Cardinality(Copies(q, p))
    BY <1>3 DEF add_tracked_pid
  <2>2. Cardinality(Copies(q, p)) \in Nat /\ \A s \in Copies(q, p) : s.id \in Nat
    BY <1>t, CopiesType DEF Indexed, DetectionState
  <2> QED
    BY <1>t, <2>1, <2>2, CopyIds DEF FreshIds
<1>4. ASSUME NEW p \in Pids, remove_tracked_pid(p)
      PROVE  FreshIds'
  BY <1>4 DEF remove_tracked_pid, FreshIds
<1>5. ASSUME NEW ev \in SyscallEvent, NEW C \in Cooldowns, Judges(ev, C)
      PROVE  FreshIds'
  <2>1. CASE skip_match(C)
    BY <2>1 DEF skip_match, FreshIds
  <2>2. CASE match(ev, C)
    <3> DEFINE K == Stored(Left(ev), After(ev, C), ev)
               N == NewStates(Left(ev), After(ev, C), ev, detection_state_count)
    <3>1. /\ active_detection_states' = Left(ev) \cup N
          /\ detection_state_count' = detection_state_count + Cardinality(K)
      BY <2>2, MatchParts
    <3>2. Cardinality(K) \in Nat /\ \A s \in N : s.id \in Nat
      BY <1>t, NewStatesType DEF Indexed, DetectionState
    <3>3. \A s \in N : /\ detection_state_count <= s.id
                       /\ s.id < detection_state_count + Cardinality(K)
                       /\ \A t \in N : s.id = t.id => s = t
      BY <1>t, NewFrom
    <3>4. \A s \in Left(ev) : /\ s.id \in Nat /\ s.id < detection_state_count
                              /\ \A t \in Left(ev) : s.id = t.id => s = t
      BY <1>t, LeftFrom DEF FreshIds
    <3> HIDE DEF K, N
    <3> QED
      BY <1>t, <3>1, <3>2, <3>3, <3>4 DEF FreshIds
  <2> QED
    BY <1>5, <2>1, <2>2 DEF Judges
<1> QED
  BY <1>1, <1>2, <1>3, <1>4, <1>5, StepCases

(* No two partial matches ever have the same id, so that storing a new one *)
(* or an inherited one in active_detection_states (engine.cc:328 and 494)  *)
(* overwrites none.                                                        *)
THEOREM NoStateOverwritten == Spec => []FreshIds
<1>1. Init => TypeInv /\ FreshIds
  BY InitType DEF Init, FreshIds
<1>2. TypeInv /\ FreshIds /\ [Next]_vars => (TypeInv /\ FreshIds)'
  BY TypeStep, FreshStep
<1> QED
  BY <1>1, <1>2, PTL DEF Spec

-----------------------------------------------------------------------------
(* SingleActive.                                                           *)

\* Inherited states are of other rules (SingleNotInherited), and a rule with a
\* state that survives the event starts no second one.
LEMMA SingleStep == TypeInv /\ SingleActive /\ [Next]_vars => SingleActive'
<1> SUFFICES ASSUME TypeInv, SingleActive, [Next]_vars PROVE SingleActive'
  OBVIOUS
<1>t. TypedTables /\ \A s \in active_detection_states : s.rule_index \in Rules
  BY TypedTablesType DEF TypedTables, Indexed, DetectionState
<1>1. CASE UNCHANGED vars
  BY <1>1 DEF vars, SingleActive
<1>2. CASE Idle
  BY <1>2 DEF Idle, SingleActive
<1>3. ASSUME NEW p \in Pids, NEW q \in Pids, add_tracked_pid(p, q)
      PROVE  SingleActive'
  <2>1. active_detection_states' = active_detection_states \cup Copies(q, p)
    BY <1>3 DEF add_tracked_pid
  <2>2. \A s \in Copies(q, p) : ~single_active_per_pid[s.rule_index]
    <3>1. \A s \in Copies(q, p) : \E t \in active_detection_states :
            inherit_on_fork[t.rule_index] /\ s.rule_index = t.rule_index
      <4>1. TypedTables
        BY <1>t
      <4> QED
        BY <4>1, CopyFrom
    <3>2. \A s \in Copies(q, p) : s.rule_index \in Rules /\ inherit_on_fork[s.rule_index]
      BY <1>t, <3>1
    <3> QED
      BY <3>2, SingleNotInherited
  <2> QED
    BY <2>1, <2>2 DEF SingleActive
<1>4. ASSUME NEW p \in Pids, remove_tracked_pid(p)
      PROVE  SingleActive'
  BY <1>4 DEF remove_tracked_pid, SingleActive
<1>5. ASSUME NEW ev \in SyscallEvent, NEW C \in Cooldowns, Judges(ev, C)
      PROVE  SingleActive'
  <2>1. CASE skip_match(C)
    BY <2>1 DEF skip_match, SingleActive
  <2>2. CASE match(ev, C)
    <3> DEFINE N == NewStates(Left(ev), After(ev, C), ev, detection_state_count)
    <3>1. active_detection_states' = Left(ev) \cup N
      BY <2>2, MatchParts
    <3>2. detection_state_count \in Nat
      BY <1>t DEF TypedTables
    <3>3. \A s \in N : /\ s.pid = ev.pid
                       /\ s.rule_index \in Stored(Left(ev), After(ev, C), ev)
                       /\ \A t \in N : s.rule_index = t.rule_index => s = t
      BY <3>2, NewFrom
    <3>4. \A s \in N : single_active_per_pid[s.rule_index] =>
            ~has_active_state(Left(ev), ev.pid, s.rule_index)
      BY <3>3 DEF Stored, Started, NotSuppressed
    <3>5. \A s, t \in Left(ev) :
            /\ s.pid = t.pid /\ s.rule_index = t.rule_index
            /\ single_active_per_pid[s.rule_index]
            => s = t
      BY <1>t, LeftFrom DEF SingleActive
    <3> HIDE DEF N
    <3> QED
      BY <3>1, <3>3, <3>4, <3>5 DEF SingleActive, has_active_state
  <2> QED
    BY <1>5, <2>1, <2>2 DEF Judges
<1> QED
  BY <1>1, <1>2, <1>3, <1>4, <1>5, StepCases

(* A single_active_per_pid rule never has two partial matches of one pid   *)
(* (has_active_state, engine.cc:363-370 and 463-465).                      *)
THEOREM OneMatchPerPid == Spec => []SingleActive
<1>1. Init => TypeInv /\ SingleActive
  BY InitType DEF Init, SingleActive
<1>2. TypeInv /\ SingleActive /\ [Next]_vars => (TypeInv /\ SingleActive)'
  BY TypeStep, SingleStep
<1> QED
  BY <1>1, <1>2, PTL DEF Spec

-----------------------------------------------------------------------------
(* Action properties.  Only an event that is matched reports.              *)

LEMMA ReportsMatch ==
  ASSUME TypeInv, [Next]_vars, ~UNCHANGED vars, NEW d \in detected'
  PROVE  \E ev \in SyscallEvent, C \in Cooldowns : Judges(ev, C) /\ match(ev, C)
<1>1. ~Idle
  BY DEF Idle
<1>2. \A p, q \in Pids : ~add_tracked_pid(p, q)
  BY DEF add_tracked_pid, no_event
<1>3. \A p \in Pids : ~remove_tracked_pid(p)
  BY DEF remove_tracked_pid, no_event
<1>4. \A C \in Cooldowns : ~skip_match(C)
  BY DEF skip_match
<1> QED
  BY <1>1, <1>2, <1>3, <1>4, StepCases DEF Judges

(* Every report of a rule with a window comes within timeout_ns of the     *)
(* event that began the match (engine.cc:422-427).                         *)
THEOREM WindowHolds == Spec => ReportInWindow
<1> DEFINE InWindow ==
      \A d \in detected' :
        timeout_ns[d.rule_index] >= 0 =>
          now' - d.start_time_ns \in 0 .. timeout_ns[d.rule_index]
<1>1. TypeInv /\ [Next]_vars => [InWindow]_vars
  <2> SUFFICES ASSUME TypeInv, [Next]_vars, ~UNCHANGED vars, NEW d \in detected',
                      timeout_ns[d.rule_index] >= 0
               PROVE  now' - d.start_time_ns \in 0 .. timeout_ns[d.rule_index]
    OBVIOUS
  <2>1. PICK ev \in SyscallEvent, C \in Cooldowns : Judges(ev, C) /\ match(ev, C)
    BY ReportsMatch
  <2>2. now' = ev.timestamp_ns /\ ev.timestamp_ns \in Nat
    BY <2>1, CallsAssumption DEF Judges, SyscallEvent, Time
  <2>t. TypedTables
    BY TypedTablesType
  <2>3. CASE \E s \in active_detection_states :
               Completes(s, ev) /\ d.rule_index = s.rule_index
               /\ d.start_time_ns = s.start_time_ns
    <3>1. PICK s \in active_detection_states :
            /\ Completes(s, ev) /\ d.rule_index = s.rule_index
            /\ d.start_time_ns = s.start_time_ns
      BY <2>3
    <3>2. s.start_time_ns \in Nat /\ timeout_ns[s.rule_index] \in Int
      BY <2>t, RulesAssumption, CallsAssumption
      DEF TypedTables, Indexed, DetectionState, Time
    <3>3. ~TimedOut(s, ev.timestamp_ns)
      BY <3>1 DEF Completes, Runs
    <3> QED
      BY <2>2, <3>1, <3>2, <3>3 DEF TimedOut
  <2>4. CASE d.start_time_ns = ev.timestamp_ns /\ d.rule_index \in Rules
    BY <2>2, <2>4, RulesAssumption
  <2> QED
    BY <2>t, <2>1, <2>3, <2>4, ReportFrom DEF Started, NotSuppressed
<1>2. Init => TypeInv
  BY InitType
<1>3. TypeInv /\ [Next]_vars => TypeInv'
  BY TypeStep
<1> QED
  BY <1>1, <1>2, <1>3, PTL DEF Spec, ReportInWindow

(* A match that reported is erased (engine.cc:444, 453-455), and no match  *)
(* that begins with the same event takes its place.                        *)
THEOREM ReportsOnce == Spec => ReportedOnce
<1> DEFINE Gone ==
      \A d \in detected', s \in active_detection_states' :
        ~(s.id = d.id /\ s.rule_index = d.rule_index)
<1>1. TypeInv /\ FreshIds /\ [Next]_vars => [Gone]_vars
  <2> SUFFICES ASSUME TypeInv, FreshIds, [Next]_vars, ~UNCHANGED vars,
                      NEW d \in detected', NEW s \in active_detection_states',
                      s.id = d.id, s.rule_index = d.rule_index
               PROVE  FALSE
    OBVIOUS
  <2>1. PICK ev \in SyscallEvent, C \in Cooldowns : Judges(ev, C) /\ match(ev, C)
    BY ReportsMatch
  <2> DEFINE K == Stored(Left(ev), After(ev, C), ev)
             N == NewStates(Left(ev), After(ev, C), ev, detection_state_count)
  <2>t. TypedTables /\ detection_state_count \in Nat
        /\ \A u \in active_detection_states : u.id \in Nat
    BY TypedTablesType DEF TypedTables, Indexed, DetectionState
  <2>2. s \in Left(ev) \cup N
    BY <2>1, MatchParts
  <2>3. \A u \in Left(ev) : \E v \in active_detection_states :
          Survives(v, ev) /\ u.id = v.id
    BY <2>t, LeftFrom
  <2>4. CASE \E u \in active_detection_states : Completes(u, ev) /\ d.id = u.id
    <3>1. PICK u \in active_detection_states : Completes(u, ev) /\ d.id = u.id
      BY <2>4
    <3>2. u.id \in Nat /\ u.id < detection_state_count
      BY <2>t DEF FreshIds
    <3>3. s \notin N
      <4>1. \A w \in N : detection_state_count <= w.id
        BY <2>t, NewFrom
      <4> HIDE DEF N
      <4> QED
        BY <2>t, <3>1, <3>2, <4>1
    <3>4. PICK v \in active_detection_states : Survives(v, ev) /\ s.id = v.id
      BY <2>2, <2>3, <3>3
    <3>5. v = u
      BY <3>1, <3>4 DEF FreshIds
    <3> QED
      BY <3>1, <3>4, <3>5 DEF Survives
  <2>5. CASE d.rule_index \notin K /\ d.id = NextId(detection_state_count, d.rule_index, K)
    <3>1. \A u \in N : u.rule_index \in K
      BY <2>t, NewFrom
    <3>2. s \notin N
      <4> HIDE DEF K, N
      <4> QED
        BY <2>5, <3>1
    <3>3. PICK v \in active_detection_states : s.id = v.id
      BY <2>2, <2>3, <3>2
    <3>4. {j \in K : j < d.rule_index} \subseteq Rules
      BY DEF Stored, Started, NotSuppressed
    <3>5. Cardinality({j \in K : j < d.rule_index}) \in Nat
      BY <3>4, RulesFinite
    <3> HIDE DEF K
    <3> QED
      BY <2>t, <2>5, <3>3, <3>5 DEF FreshIds, NextId
  <2> QED
    BY <2>t, <2>1, <2>4, <2>5, ReportFrom
<1>2. Init => TypeInv /\ FreshIds
  BY InitType DEF Init, FreshIds
<1>3. TypeInv /\ FreshIds /\ [Next]_vars => (TypeInv /\ FreshIds)'
  BY TypeStep, FreshStep
<1> QED
  BY <1>1, <1>2, <1>3, PTL DEF Spec, ReportedOnce

(* No rule reports for a pid on the allow list, nor does one of its partial *)
(* matches advance, begin or expire (engine.cc:622-624).                    *)
THEOREM AllowedAreSilent == Spec => AllowedSilent
<1> DEFINE Frozen(s) == \E t \in active_detection_states :
                          [t EXCEPT !.id = s.id, !.pid = s.pid] = s
           Silent == /\ \A d \in detected' : d.pid \notin allow_pids'
                     /\ \A s \in active_detection_states' :
                          s.pid \in allow_pids' => Frozen(s)
<1>1. TypeInv /\ [Next]_vars => [Silent]_vars
  <2> SUFFICES ASSUME TypeInv, [Next]_vars, ~UNCHANGED vars
               PROVE  Silent
    OBVIOUS
  <2>t. TypedTables
    BY TypedTablesType
  <2>0. \A s \in active_detection_states : Frozen(s)
    <3> SUFFICES ASSUME NEW s \in active_detection_states
                 PROVE  [s EXCEPT !.id = s.id, !.pid = s.pid] = s
      OBVIOUS
    <3> QED
      BY <2>t DEF TypedTables, Indexed, DetectionState
  <2>1. CASE Idle
    BY <2>0, <2>1 DEF Idle
  <2>2. ASSUME NEW p \in Pids, NEW q \in Pids, add_tracked_pid(p, q)
        PROVE  Silent
    <3>1. ASSUME NEW s \in Copies(q, p) PROVE Frozen(s)
      <4>1. PICK t \in Inherited(q) :
              s = [t EXCEPT !.id = NextId(detection_state_count, t.id,
                                          {u.id : u \in Inherited(q)}), !.pid = p]
        BY DEF Copies
      <4>2. t \in active_detection_states /\ t \in DetectionState
        BY <2>t DEF Inherited, TypedTables, Indexed
      <4>3. [t EXCEPT !.id = s.id, !.pid = s.pid] = s
        BY <4>1, <4>2 DEF DetectionState
      <4> QED
        BY <4>2, <4>3
    <3>2. active_detection_states' = active_detection_states \cup Copies(q, p)
      BY <2>2 DEF add_tracked_pid
    <3>3. detected' = {}
      BY <2>2 DEF add_tracked_pid, no_event
    <3> HIDE DEF Frozen
    <3> QED
      BY <2>0, <3>1, <3>2, <3>3
  <2>3. ASSUME NEW p \in Pids, remove_tracked_pid(p)
        PROVE  Silent
    BY <2>0, <2>3 DEF remove_tracked_pid, no_event
  <2>4. ASSUME NEW ev \in SyscallEvent, NEW C \in Cooldowns, Judges(ev, C)
        PROVE  Silent
    <3>1. CASE skip_match(C)
      BY <2>0, <3>1 DEF skip_match
    <3>2. CASE match(ev, C) /\ ev.pid \notin allow_pids'
      <4> DEFINE N == NewStates(Left(ev), After(ev, C), ev, detection_state_count)
      <4>1. active_detection_states' = Left(ev) \cup N
        BY <3>2, MatchParts
      <4>2. \A d \in detected' : d.pid = ev.pid
        BY <2>t, <3>2, ReportFrom
      <4>3. \A s \in N : s.pid = ev.pid
        BY <2>t, NewFrom DEF TypedTables
      <4>4. ASSUME NEW s \in Left(ev), s.pid # ev.pid
            PROVE  Frozen(s)
        <5>1. PICK t \in active_detection_states : s = Advance(t, ev) /\ s.pid = t.pid
          BY <2>t, LeftFrom
        <5>2. s = t
          BY <4>4, <5>1 DEF Advance, Runs
        <5> HIDE DEF Frozen
        <5> QED
          BY <2>0, <5>2
      <4> HIDE DEF N, Frozen
      <4> QED
        BY <3>2, <4>1, <4>2, <4>3, <4>4
    <3> QED
      BY <2>4, <3>1, <3>2 DEF Judges
  <2> HIDE DEF Frozen
  <2> QED
    BY <2>1, <2>2, <2>3, <2>4, StepCases
<1>2. Init => TypeInv
  BY InitType
<1>3. TypeInv /\ [Next]_vars => TypeInv'
  BY TypeStep
<1> QED
  BY <1>1, <1>2, <1>3, PTL DEF Spec, AllowedSilent

-----------------------------------------------------------------------------
(* CooldownRespected.                                                      *)

\* A partial match of a rule began when its pid's cooldown for it was over,
\* and none was set since: only a report sets one, and the rule has no other
\* match of that pid that could report (SingleActive).  A rule without a
\* cooldown has no entry.
CooldownOver ==
  /\ \A s \in active_detection_states :
       /\ cooldown_until[s.pid][s.rule_index] <= s.start_time_ns
       /\ s.start_time_ns <= now
  /\ \A p \in Pids, r \in Rules : cooldown_ns[r] <= 0 => cooldown_until[p][r] = 0

CooldownInv == TypeInv /\ SingleActive /\ CooldownOver

Reports(reports, r) == \E d \in reports : d.rule_index = r

LEMMA SetValue ==
  ASSUME NEW C \in Cooldowns, NEW pid \in Pids, NEW ts \in Nat, NEW reports,
         NEW p \in Pids, NEW r \in Rules
  PROVE  set_cooldown(C, reports, pid, ts)[p][r] =
           IF p = pid /\ cooldown_ns[r] > 0 /\ Reports(reports, r)
           THEN ts + cooldown_ns[r] ELSE C[p][r]
BY DEF set_cooldown, Cooldowns, Reports

LEMMA ErasedValue ==
  ASSUME NEW C \in Cooldowns, NEW pid \in Pids, NEW ts \in Nat, NEW R,
         NEW p \in Pids, NEW r \in Rules
  PROVE  /\ erase_expired(C, pid, R, ts)[p][r] <= C[p][r]
         /\ C[p][r] = 0 => erase_expired(C, pid, R, ts)[p][r] = 0
         /\ p # pid \/ C[p][r] > ts => erase_expired(C, pid, R, ts)[p][r] = C[p][r]
<1>1. C[p][r] \in Nat
  BY DEF Cooldowns
<1>2. erase_expired(C, pid, R, ts)[p][r] =
        IF p = pid /\ r \in R /\ C[p][r] <= ts THEN 0 ELSE C[p][r]
  BY DEF erase_expired, Cooldowns
<1> QED
  BY <1>1, <1>2

\* The cooldowns a match leaves, from those the handler passed to it.
LEMMA CooldownsOfMatch ==
  ASSUME TypedTables, NEW ev \in SyscallEvent, NEW C \in Cooldowns, match(ev, C),
         NEW p \in Pids, NEW r \in Rules
  PROVE  /\ \/ cooldown_until'[p][r] <= C[p][r]
            \/ /\ p = ev.pid /\ cooldown_ns[r] > 0
               /\ Reports(detected', r)
         /\ cooldown_ns[r] <= 0 /\ C[p][r] = 0 => cooldown_until'[p][r] = 0
         /\ ~Reports(Immediate(Left(ev), After(ev, C), ev, detection_state_count), r)
            => cooldown_until'[p][r] <= After(ev, C)[p][r]
         /\ \/ p # ev.pid
            \/ C[p][r] > ev.timestamp_ns /\ ~Reports(detected', r)
            => cooldown_until'[p][r] = C[p][r]
<1> DEFINE I == Immediate(Left(ev), After(ev, C), ev, detection_state_count)
           ts == ev.timestamp_ns
           R == NotSuppressed(Left(ev), ev.pid)
           D == After(ev, C)
           E == erase_expired(D, ev.pid, R, ts)
<1>1. ev.pid \in Pids /\ ts \in Nat /\ cooldown_ns[r] \in Int
  BY CallsAssumption, RulesAssumption DEF SyscallEvent, Time
<1>2. D \in Cooldowns /\ E \in Cooldowns
  BY <1>1, CooldownType DEF After
<1>3. D[p][r] = IF p = ev.pid /\ cooldown_ns[r] > 0 /\ Reports(Done(ev), r)
                THEN ts + cooldown_ns[r] ELSE C[p][r]
  BY <1>1, SetValue DEF After
<1>4. /\ E[p][r] <= D[p][r] /\ (D[p][r] = 0 => E[p][r] = 0)
      /\ p # ev.pid \/ D[p][r] > ts => E[p][r] = D[p][r]
  <2> HIDE DEF ts, D, R
  <2> QED
    BY <1>1, <1>2, ErasedValue
<1>5. cooldown_until' = set_cooldown(E, I, ev.pid, ts)
  BY MatchParts
<1>6. cooldown_until'[p][r] = IF p = ev.pid /\ cooldown_ns[r] > 0 /\ Reports(I, r)
                              THEN ts + cooldown_ns[r] ELSE E[p][r]
  <2> HIDE DEF ts, E, I
  <2> QED
    BY <1>1, <1>2, <1>5, SetValue
<1>7. detected' = Done(ev) \cup I
  BY MatchParts
<1>8. C[p][r] \in Nat /\ D[p][r] \in Nat /\ E[p][r] \in Nat
  BY <1>2 DEF Cooldowns
<1>9. Reports(Done(ev), r) \/ Reports(I, r) => Reports(detected', r)
  BY <1>7 DEF Reports
<1> HIDE DEF I, ts, D, E
<1> QED
  BY <1>1, <1>3, <1>4, <1>6, <1>8, <1>9 DEF I, D, ts

LEMMA CooldownInit == Init => CooldownInv
<1> SUFFICES ASSUME Init PROVE CooldownInv
  OBVIOUS
<1>1. CooldownOver
  BY DEF Init, CooldownOver, NoCooldown
<1> QED
  BY <1>1, InitType DEF CooldownInv, Init, SingleActive

\* A partial match with a cooldown is the only one of its pid and rule.
LEMMA OnlyMatch ==
  ASSUME TypedTables, SingleActive, NEW s \in active_detection_states,
         NEW t \in active_detection_states, s.pid = t.pid, s.rule_index = t.rule_index,
         cooldown_ns[s.rule_index] > 0
  PROVE  s = t
<1>1. s.rule_index \in Rules
  BY DEF TypedTables, Indexed, DetectionState
<1> QED
  BY <1>1, CooldownIsSingle DEF SingleActive

\* A surviving match of the event's pid keeps the rule from reporting.
LEMMA SurvivorsSilent ==
  ASSUME TypedTables, SingleActive, NEW ev \in SyscallEvent, NEW C, match(ev, C),
         NEW s \in Left(ev), s.pid = ev.pid, cooldown_ns[s.rule_index] > 0
  PROVE  ~Reports(detected', s.rule_index)
<1> SUFFICES ASSUME NEW d \in detected', d.rule_index = s.rule_index
             PROVE  FALSE
  BY DEF Reports
<1>1. PICK t \in active_detection_states :
        Survives(t, ev) /\ s.pid = t.pid /\ s.rule_index = t.rule_index
  BY LeftFrom
<1>2. s.rule_index \in Rules
  BY <1>1 DEF TypedTables, Indexed, DetectionState
<1>3. CASE \E u \in active_detection_states :
             Completes(u, ev) /\ u.pid = ev.pid /\ d.rule_index = u.rule_index
  <2>1. PICK u \in active_detection_states :
          Completes(u, ev) /\ u.pid = ev.pid /\ d.rule_index = u.rule_index
    BY <1>3
  <2>2. u = t
    BY <1>1, <2>1, OnlyMatch
  <2> QED
    BY <1>1, <2>1, <2>2 DEF Survives
<1>4. CASE d.rule_index \in Started(Left(ev), After(ev, C), ev)
  <2>1. ~has_active_state(Left(ev), ev.pid, s.rule_index)
    BY <1>2, <1>4, CooldownIsSingle DEF Started, NotSuppressed
  <2> QED
    BY <2>1 DEF has_active_state
<1> QED
  BY <1>3, <1>4, ReportFrom

LEMMA CooldownStep == CooldownInv /\ [Next]_vars => CooldownInv'
<1> SUFFICES ASSUME CooldownInv, [Next]_vars PROVE CooldownOver'
  BY TypeStep, SingleStep DEF CooldownInv
<1>t. /\ TypeInv /\ TypedTables /\ SingleActive /\ CooldownOver /\ now \in Nat
      /\ cooldown_until \in Cooldowns /\ detection_state_count \in Nat
      /\ \A s \in active_detection_states :
           s.start_time_ns \in Nat /\ s.rule_index \in Rules /\ s.pid \in Pids
  BY TypedTablesType, CallsAssumption
  DEF CooldownInv, TypeInv, TypeOK, TypedTables, Indexed, DetectionState, Time
<1>v. \A p \in Pids, r \in Rules : cooldown_until[p][r] \in Nat
  BY <1>t DEF Cooldowns
<1>n. \A r \in Rules : NoCooldown[r] = 0
  BY DEF NoCooldown
<1>1. CASE UNCHANGED vars
  BY <1>t, <1>1 DEF vars, CooldownOver
<1>2. CASE Idle
  BY <1>t, <1>2 DEF Idle, CooldownOver
<1>3. ASSUME NEW p \in Pids, NEW q \in Pids, add_tracked_pid(p, q)
      PROVE  CooldownOver'
  <2>1. /\ active_detection_states' = active_detection_states \cup Copies(q, p)
        /\ cooldown_until' = cooldown_until /\ now' = now
    BY <1>3 DEF add_tracked_pid
  <2>2. ASSUME NEW s \in Copies(q, p)
        PROVE  /\ cooldown_until[s.pid][s.rule_index] <= s.start_time_ns
               /\ s.start_time_ns <= now
    <3>1. s.pid = p
      BY <1>t, CopyFrom
    <3>2. PICK t \in active_detection_states :
            /\ inherit_on_fork[t.rule_index]
            /\ s.rule_index = t.rule_index /\ s.start_time_ns = t.start_time_ns
      BY <1>t, CopyFrom
    <3>3. s.rule_index \in Rules /\ cooldown_ns[s.rule_index] \in Int
      BY <1>t, <3>2, RulesAssumption
    <3>4. cooldown_ns[s.rule_index] <= 0
      BY <3>2, <3>3, SingleNotInherited, CooldownIsSingle
    <3>5. cooldown_until[s.pid][s.rule_index] = 0
      BY <1>t, <3>1, <3>3, <3>4 DEF CooldownOver
    <3> QED
      BY <1>t, <3>2, <3>5 DEF CooldownOver
  <2> QED
    BY <1>t, <2>1, <2>2 DEF CooldownOver
<1>4. ASSUME NEW p \in Pids, remove_tracked_pid(p)
      PROVE  CooldownOver'
  <2>1. \A o \in Pids, r \in Rules :
          cooldown_until'[o][r] = IF o = p THEN 0 ELSE cooldown_until[o][r]
    BY <1>4, <1>n, <1>t DEF remove_tracked_pid, Cooldowns
  <2>2. active_detection_states' = active_detection_states /\ now' = now
    BY <1>4 DEF remove_tracked_pid
  <2> QED
    BY <1>t, <2>1, <2>2 DEF CooldownOver
<1>5. ASSUME NEW ev \in SyscallEvent, NEW C \in Cooldowns, Judges(ev, C)
      PROVE  CooldownOver'
  <2>1. \A p \in Pids, r \in Rules :
          C[p][r] \in Nat /\ C[p][r] <= cooldown_until[p][r]
    BY <1>5, <1>n, <1>v DEF Judges, Carried
  <2>2. now' = now /\ ev.timestamp_ns = now /\ ev.pid \in Pids
    BY <1>5 DEF Judges, SyscallEvent
  <2>3. CASE skip_match(C)
    BY <1>t, <1>v, <2>1, <2>2, <2>3 DEF skip_match, CooldownOver
  <2>4. CASE match(ev, C)
    <3> DEFINE N == NewStates(Left(ev), After(ev, C), ev, detection_state_count)
               I == Immediate(Left(ev), After(ev, C), ev, detection_state_count)
    <3>0. /\ active_detection_states' = Left(ev) \cup N
          /\ cooldown_until' \in Cooldowns
      BY <1>t, <2>4, MatchParts, MatchType
    <3>1. ASSUME NEW s \in Left(ev)
          PROVE  /\ cooldown_until'[s.pid][s.rule_index] <= s.start_time_ns
                 /\ s.start_time_ns <= now
      <4>1. PICK t \in active_detection_states :
              s.pid = t.pid /\ s.rule_index = t.rule_index
              /\ s.start_time_ns = t.start_time_ns
        BY <1>t, LeftFrom
      <4>2. /\ cooldown_until[s.pid][s.rule_index] <= s.start_time_ns
            /\ s.start_time_ns <= now /\ s.start_time_ns \in Nat
            /\ s.pid \in Pids /\ s.rule_index \in Rules
        BY <1>t, <4>1 DEF CooldownOver
      <4>3. cooldown_until'[s.pid][s.rule_index] <= C[s.pid][s.rule_index]
        BY <1>t, <2>4, <4>2, CooldownsOfMatch, SurvivorsSilent
      <4>4. cooldown_until'[s.pid][s.rule_index] \in Nat
        BY <3>0, <4>2 DEF Cooldowns
      <4> QED
        BY <1>v, <2>1, <4>2, <4>3, <4>4
    <3>2. ASSUME NEW s \in N
          PROVE  /\ cooldown_until'[s.pid][s.rule_index] <= s.start_time_ns
                 /\ s.start_time_ns <= now
      <4>1. /\ s.pid = ev.pid /\ s.start_time_ns = ev.timestamp_ns
            /\ s.rule_index \in Rules
            /\ s.rule_index \in Stored(Left(ev), After(ev, C), ev)
        BY <1>t, NewFrom
      <4>2. After(ev, C) \in Cooldowns
        BY <1>t, <2>2, CooldownType DEF After
      <4>3. After(ev, C)[s.pid][s.rule_index] <= now
        BY <1>t, <2>2, <4>1, <4>2 DEF Stored, Started, in_cooldown, Cooldowns
      <4>4. ~Reports(I, s.rule_index)
        <5>1. First(s.rule_index, ev).next # Length[s.rule_index]
          BY <4>1, RulesAssumption DEF Stored
        <5> QED
          BY <5>1 DEF Reports, Immediate, Report
      <4>5. cooldown_until'[s.pid][s.rule_index] <= After(ev, C)[s.pid][s.rule_index]
        BY <1>t, <2>2, <2>4, <4>1, <4>4, CooldownsOfMatch
      <4>6. /\ cooldown_until'[s.pid][s.rule_index] \in Nat
            /\ After(ev, C)[s.pid][s.rule_index] \in Nat
        BY <2>2, <3>0, <4>1, <4>2 DEF Cooldowns
      <4> QED
        BY <1>t, <2>2, <4>1, <4>3, <4>5, <4>6
    <3>3. ASSUME NEW p \in Pids, NEW r \in Rules, cooldown_ns[r] <= 0
          PROVE  cooldown_until'[p][r] = 0
      <4>1. C[p][r] = 0
        BY <1>t, <2>1, <3>3 DEF CooldownOver
      <4> QED
        BY <1>t, <2>4, <3>3, <4>1, CooldownsOfMatch
    <3> HIDE DEF N
    <3> QED
      BY <2>2, <3>0, <3>1, <3>2, <3>3 DEF CooldownOver
  <2> QED
    BY <1>5, <2>3, <2>4 DEF Judges
<1> QED
  BY <1>1, <1>2, <1>3, <1>4, <1>5, <1>t, StepCases

\* A report comes when the cooldown of before the event is over.
LEMMA ReportAfterCooldown ==
  ASSUME CooldownInv, NEW ev \in SyscallEvent, NEW C \in Cooldowns, Judges(ev, C),
         match(ev, C), NEW d \in detected'
  PROVE  d.pid = ev.pid /\ now >= cooldown_until[d.pid][d.rule_index]
<1>t. /\ TypedTables /\ CooldownOver /\ now \in Nat
      /\ \A p \in Pids, r \in Rules : cooldown_until[p][r] \in Nat
      /\ \A s \in active_detection_states :
           s.start_time_ns \in Nat /\ s.rule_index \in Rules /\ s.pid \in Pids
  BY TypedTablesType, CallsAssumption
  DEF CooldownInv, TypeInv, TypeOK, TypedTables, Indexed, DetectionState, Time
<1>1. /\ ev.timestamp_ns = now /\ ev.pid \in Pids
      /\ C[ev.pid] = cooldown_until[ev.pid]
  BY DEF Judges, Carried, SyscallEvent
<1>2. d.pid = ev.pid
  BY <1>t, ReportFrom
<1>3. CASE \E s \in active_detection_states :
             s.pid = ev.pid /\ d.rule_index = s.rule_index
  <2>1. PICK s \in active_detection_states :
          s.pid = ev.pid /\ d.rule_index = s.rule_index
    BY <1>3
  <2>2. /\ cooldown_until[s.pid][s.rule_index] <= s.start_time_ns
        /\ s.start_time_ns <= now
    BY <1>t DEF CooldownOver
  <2> QED
    BY <1>t, <1>2, <2>1, <2>2
<1>4. CASE d.rule_index \in Started(Left(ev), After(ev, C), ev)
  <2>1. d.rule_index \in Rules
    BY <1>4 DEF Started, NotSuppressed
  <2>2. ~(now < After(ev, C)[ev.pid][d.rule_index])
    BY <1>1, <1>4 DEF Started, in_cooldown
  <2>3. After(ev, C)[ev.pid][d.rule_index] =
          IF cooldown_ns[d.rule_index] > 0 /\ Reports(Done(ev), d.rule_index)
          THEN now + cooldown_ns[d.rule_index] ELSE C[ev.pid][d.rule_index]
    BY <1>t, <1>1, <2>1, SetValue DEF After
  <2>4. Reports(Done(ev), d.rule_index) =>
          \E s \in active_detection_states :
            s.pid = ev.pid /\ d.rule_index = s.rule_index
    BY DEF Reports, Done, Completed, Completes, Runs, Report
  <2> QED
    BY <1>t, <1>1, <1>2, <1>3, <2>1, <2>2, <2>3, <2>4
<1> QED
  BY <1>t, <1>2, <1>3, <1>4, ReportFrom

(* The rule does not report for a pid while its cooldown runs, neither from *)
(* a match under way nor from a new one (in_cooldown, engine.cc:372-389).   *)
THEOREM CooldownHolds == Spec => CooldownRespected
<1> DEFINE Respected ==
      \A d \in detected' : now' >= cooldown_until[d.pid][d.rule_index]
<1>1. CooldownInv /\ [Next]_vars => [Respected]_vars
  <2> SUFFICES ASSUME CooldownInv, [Next]_vars, ~UNCHANGED vars, NEW d \in detected'
               PROVE  now' >= cooldown_until[d.pid][d.rule_index]
    OBVIOUS
  <2>1. PICK ev \in SyscallEvent, C \in Cooldowns : Judges(ev, C) /\ match(ev, C)
    BY ReportsMatch DEF CooldownInv
  <2>2. now' = now
    BY <2>1 DEF Judges
  <2> QED
    BY <2>1, <2>2, ReportAfterCooldown
<1>2. Init => CooldownInv
  BY CooldownInit
<1>3. CooldownInv /\ [Next]_vars => CooldownInv'
  BY CooldownStep
<1> QED
  BY <1>1, <1>2, <1>3, PTL DEF Spec, CooldownRespected

-----------------------------------------------------------------------------
(* CooldownKept.                                                           *)

\* A pid has cooldowns only while it is tracked, and the event in its record
\* is its own: what an event sets is of a tracked pid.
OwnCooldowns ==
  \A p \in Pids :
    /\ tracked_pids[p] = Untracked => \A r \in Rules : cooldown_until[p][r] = 0
    /\ has_event(p) => tracked_pids[p].pid = p

Kept(p, r) ==
  /\ tracked_pids'[p] # Untracked /\ cooldown_until[p][r] > now'
       => cooldown_until'[p][r] >= cooldown_until[p][r]
  /\ tracked_pids'[p] = Untracked => cooldown_until'[p][r] = 0

\* process_event changes no other pid's cooldowns, and of its own those only
\* that are over.
LEMMA EventKeeps ==
  ASSUME CooldownInv, NEW ev \in SyscallEvent, NEW shell, NEW allow, NEW C,
         Carried(C, ev.pid), ev.timestamp_ns = now, now' = now,
         process_event(ev, shell, allow, C), NEW p \in Pids, NEW r \in Rules,
         p # ev.pid \/ cooldown_until[p][r] > now
  PROVE  cooldown_until'[p][r] = C[p][r]
<1> DEFINE e == MarkShell(ev)
<1>1. e \in SyscallEvent /\ e.pid = ev.pid /\ e.timestamp_ns = now
  BY MarkShellType
<1>2. match(e, C) \/ skip_match(C)
  BY DEF process_event
<1>3. C \in Cooldowns /\ C[ev.pid] = cooldown_until[ev.pid] /\ TypedTables
  BY TypedTablesType DEF Carried, CooldownInv
<1>4. CASE match(e, C)
  <2>1. Judges(e, C)
    <3>1. /\ RequireListen /\ detection_started => detection_started'
          /\ \/ /\ ev.pid \notin allow_pids'
                /\ RequireListen => detection_started'
             \/ skip_match(C)
      BY DEF process_event, StartsDetection, Inspected
    <3> HIDE DEF e
    <3> QED
      BY <1>1, <1>4, <3>1 DEF Judges
  <2>2. ASSUME p = ev.pid, cooldown_until[p][r] > now
        PROVE  ~Reports(detected', r)
    <3>1. \A d \in detected' : d.pid = p /\ now >= cooldown_until[d.pid][d.rule_index]
      <4> HIDE DEF e
      <4> QED
        BY <1>1, <1>3, <1>4, <2>1, <2>2, ReportAfterCooldown
    <3>2. now \in Nat /\ cooldown_until[p][r] \in Nat
      BY CallsAssumption DEF CooldownInv, TypeInv, TypeOK, Time
    <3> QED
      BY <2>2, <3>1, <3>2 DEF Reports
  <2> HIDE DEF e
  <2>3. \/ p # e.pid
        \/ C[p][r] > e.timestamp_ns /\ ~Reports(detected', r)
        => cooldown_until'[p][r] = C[p][r]
    BY <1>1, <1>3, <1>4, CooldownsOfMatch
  <2> QED
    BY <1>1, <1>3, <2>2, <2>3
<1>5. CASE skip_match(C)
  BY <1>5 DEF skip_match
<1> QED
  BY <1>2, <1>4, <1>5

LEMMA KeptStep ==
  ASSUME CooldownInv, OwnCooldowns, [Next]_vars
  PROVE  OwnCooldowns' /\ \A p \in Pids, r \in Rules : Kept(p, r)
<1>t. /\ TypeOK /\ now \in Nat /\ cooldown_until \in Cooldowns
      /\ \A p \in Pids : Carried(cooldown_until, p)
      /\ \A p \in Pids, r \in Rules : cooldown_until[p][r] \in Nat
      /\ tracked_pids \in [Pids -> SyscallEvent \cup {Untracked, NoEvent}]
  BY CallsAssumption DEF CooldownInv, TypeInv, TypeOK, Time, Cooldowns, Carried
<1>u. Untracked # NoEvent /\ Untracked \notin SyscallEvent /\ NoEvent \notin SyscallEvent
  BY CallsAssumption
<1>n. NoCooldown \in [Rules -> Nat] /\ \A r \in Rules : NoCooldown[r] = 0
  BY DEF NoCooldown
<1>0. ASSUME tracked_pids' = tracked_pids, cooldown_until' = cooldown_until
      PROVE  OwnCooldowns' /\ \A p \in Pids, r \in Rules : Kept(p, r)
  BY <1>0, <1>t DEF OwnCooldowns, Kept, has_event
<1>1. CASE UNCHANGED vars
  BY <1>0, <1>1 DEF vars
<1>2. CASE nothing
  BY <1>0, <1>2 DEF nothing, tables
<1>3. CASE Tick
  BY <1>0, <1>3 DEF Tick, tables
<1>4. ASSUME NEW q \in Pids, NEW o \in Pids, add_tracked_pid(q, o)
      PROVE  OwnCooldowns' /\ \A p \in Pids, r \in Rules : Kept(p, r)
  BY <1>4, <1>t, <1>u DEF add_tracked_pid, OwnCooldowns, Kept, has_event
<1>5. ASSUME NEW q \in Pids, remove_tracked_pid(q)
      PROVE  OwnCooldowns' /\ \A p \in Pids, r \in Rules : Kept(p, r)
  <2>1. /\ \A p \in Pids : tracked_pids'[p] = IF p = q THEN Untracked ELSE tracked_pids[p]
        /\ \A p \in Pids, r \in Rules :
             cooldown_until'[p][r] = IF p = q THEN 0 ELSE cooldown_until[p][r]
    BY <1>5, <1>t, <1>n DEF remove_tracked_pid, Cooldowns
  <2> QED
    BY <1>t, <2>1 DEF OwnCooldowns, Kept, has_event
<1>6. ASSUME NEW q \in Pids, NEW c \in Calls, handle_syscall_entry(q, c), ~nothing
      PROVE  OwnCooldowns' /\ \A p \in Pids, r \in Rules : Kept(p, r)
  <2> DEFINE ev == [call |-> c, pid |-> q, retval |-> NoRet,
                    from_shell |-> q \in from_shell_pids, timestamp_ns |-> now]
  <2>1. /\ tracked_pids[q] # Untracked /\ cooldown_until' = cooldown_until
        /\ tracked_pids' = [tracked_pids EXCEPT ![q] = ev]
    BY <1>6 DEF handle_syscall_entry, is_tracked, tables
  <2>2. ev \in SyscallEvent /\ ev.pid = q
    BY <1>t DEF SyscallEvent, TypeOK
  <2> HIDE DEF ev
  <2> QED
    BY <1>t, <1>u, <2>1, <2>2 DEF OwnCooldowns, Kept, has_event
<1>7. ASSUME NEW q \in Pids, NEW ret \in Retvals, handle_syscall_exit(q, ret), ~nothing
      PROVE  OwnCooldowns' /\ \A p \in Pids, r \in Rules : Kept(p, r)
  <2> DEFINE ev == [tracked_pids[q] EXCEPT !.retval = ret, !.timestamp_ns = now]
             e == MarkShell(ev)
  <2>1. /\ has_event(q) /\ now' = now
        /\ process_event(ev, from_shell_pids, allow_pids, cooldown_until)
        /\ tracked_pids' = [tracked_pids EXCEPT ![q] = e]
    BY <1>7 DEF handle_syscall_exit
  <2>2. ev \in SyscallEvent /\ ev.timestamp_ns = now /\ ev.pid = tracked_pids[q].pid
    BY <1>t, <2>1, EventType DEF SyscallEvent, TypeOK
  <2>3. ev.pid = q
    BY <2>1, <2>2 DEF OwnCooldowns
  <2>4. e \in SyscallEvent /\ e.pid = q
    BY <2>2, <2>3, MarkShellType
  <2> HIDE DEF ev, e
  <2>5. \A p \in Pids, r \in Rules :
          p # q \/ cooldown_until[p][r] > now => cooldown_until'[p][r] = cooldown_until[p][r]
    BY <1>t, <2>1, <2>2, <2>3, EventKeeps
  <2> QED
    BY <1>t, <1>u, <2>1, <2>4, <2>5 DEF OwnCooldowns, Kept, has_event
<1>8. ASSUME NEW q \in Pids, NEW old \in Pids, handle_exec_stop(q, old), ~nothing
      PROVE  OwnCooldowns' /\ \A p \in Pids, r \in Rules : Kept(p, r)
  <2>1. ASSUME NEW o \in Pids, in_execve(o)
        PROVE  /\ ExecEvent(q, o) \in SyscallEvent
               /\ ExecEvent(q, o).pid = q
               /\ ExecEvent(q, o).timestamp_ns = now
    BY <2>1, <1>t, EventType, CallsAssumption
    DEF in_execve, ExecEvent, SyscallEvent, TypeOK
  <2>2. CASE in_execve(q) /\ exec_in_place(q)
    <3>1. /\ now' = now /\ tracked_pids' = [tracked_pids EXCEPT ![q] = NoEvent]
          /\ process_event(ExecEvent(q, q), from_shell_pids, allow_pids, cooldown_until)
      BY <2>2 DEF exec_in_place
    <3>2. \A p \in Pids, r \in Rules :
            p # q \/ cooldown_until[p][r] > now
              => cooldown_until'[p][r] = cooldown_until[p][r]
      BY <1>t, <2>1, <2>2, <3>1, EventKeeps
    <3> QED
      BY <1>t, <1>u, <3>1, <3>2 DEF OwnCooldowns, Kept, has_event
  <2>3. CASE old # q /\ in_execve(old) /\ exec_remapped(q, old)
    <3> DEFINE C == [cooldown_until EXCEPT ![old] = NoCooldown]
    <3>1. /\ now' = now
          /\ tracked_pids' = [tracked_pids EXCEPT ![q] = NoEvent, ![old] = Untracked]
          /\ process_event(ExecEvent(q, old), Renamed(from_shell_pids, old, q),
                           Renamed(allow_pids, old, q), C)
      BY <2>3 DEF exec_remapped
    <3>2. /\ C \in Cooldowns /\ Carried(C, q)
          /\ \A p \in Pids, r \in Rules :
               C[p][r] = IF p = old THEN 0 ELSE cooldown_until[p][r]
      BY <1>t, <1>n, <2>3 DEF Cooldowns, Carried
    <3> HIDE DEF C
    <3>3. \A p \in Pids, r \in Rules :
            p # q \/ cooldown_until[p][r] > now => cooldown_until'[p][r] = C[p][r]
      BY <2>1, <2>3, <3>1, <3>2, EventKeeps
    <3>4. \A p \in Pids : tracked_pids'[p] =
            IF p = old THEN Untracked ELSE IF p = q THEN NoEvent ELSE tracked_pids[p]
      BY <1>t, <2>3, <3>1
    <3> QED
      BY <1>t, <1>u, <2>3, <3>1, <3>2, <3>3, <3>4 DEF OwnCooldowns, Kept, has_event
  <2> QED
    BY <1>8, <2>2, <2>3 DEF handle_exec_stop
<1> QED
  BY <1>1, <1>2, <1>3, <1>4, <1>5, <1>6, <1>7, <1>8 DEF Next, query

(* A cooldown that a report set lasts to its end while its pid is tracked,  *)
(* and goes with the tracking (remove_tracked_pid and the execve that moves *)
(* a pid, engine.cc:336 and 588).                                           *)
THEOREM CooldownsLast == Spec => CooldownKept
<1> DEFINE KeptInv == CooldownInv /\ OwnCooldowns
           AllKept == \A p \in Pids, r \in Rules :
             /\ is_tracked(p)' /\ cooldown_until[p][r] > now'
                  => cooldown_until'[p][r] >= cooldown_until[p][r]
             /\ ~is_tracked(p)' => cooldown_until'[p][r] = 0
<1>1. Init => KeptInv
  BY CooldownInit, CallsAssumption DEF Init, OwnCooldowns, NoCooldown, has_event
<1>2. KeptInv /\ [Next]_vars => KeptInv'
  BY CooldownStep, KeptStep
<1>3. KeptInv /\ [Next]_vars => [AllKept]_vars
  BY KeptStep DEF Kept, is_tracked
<1> QED
  BY <1>1, <1>2, <1>3, PTL DEF Spec, CooldownKept

===============================================================================
