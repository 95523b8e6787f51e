----------------------------- MODULE MonitorProofs -----------------------------
(***************************************************************************)
(* The engine implements a Monitor of every single-active rule at every    *)
(* pid, for every set of pids and every list of rules.  The proof follows  *)
(* StepCases; an event of the pid ends the match there is, leaves it, or   *)
(* finds none and may begin one.                                           *)
(***************************************************************************)
EXTENDS EngineProofs, EngineMonitor

-----------------------------------------------------------------------------
(* The match of one pid and rule.                                          *)

LEMMA SinceOf ==
  ASSUME NEW A, NEW p, NEW r, NEW s \in StatesOf(A, p, r),
         \A t \in StatesOf(A, p, r) : t = s
  PROVE  Since(A, p, r) = s.start_time_ns
BY DEF Since

LEMMA SinceNone ==
  ASSUME NEW A, NEW p, NEW r, StatesOf(A, p, r) = {}
  PROVE  Since(A, p, r) = NoStart
BY DEF Since

\* What CooldownInv says of one single-active rule at one pid.
OneMatch(A, C, p, r, t) ==
  /\ C[p][r] \in Nat /\ t \in Nat
  /\ \A s, u \in StatesOf(A, p, r) : s = u
  /\ \A s \in StatesOf(A, p, r) :
       s.start_time_ns \in Nat /\ C[p][r] <= s.start_time_ns /\ s.start_time_ns <= t
  /\ cooldown_ns[r] <= 0 => C[p][r] = 0

LEMMA OneMatchHolds ==
  ASSUME CooldownInv, NEW p \in Pids, NEW r \in Single
  PROVE  OneMatch(active_detection_states, cooldown_until, p, r, now)
<1>1. /\ r \in Rules /\ single_active_per_pid[r]
      /\ cooldown_until[p][r] \in Nat /\ now \in Nat
      /\ \A s \in active_detection_states : s.start_time_ns \in Nat
  BY TypedTablesType, CallsAssumption
  DEF CooldownInv, TypeInv, TypeOK, TypedTables, Indexed, DetectionState, Time,
      Single, Cooldowns
<1>2. \A s, u \in StatesOf(active_detection_states, p, r) : s = u
  BY <1>1 DEF CooldownInv, SingleActive, StatesOf
<1>3. \A s \in StatesOf(active_detection_states, p, r) :
        s.start_time_ns \in Nat /\ cooldown_until[p][r] <= s.start_time_ns
        /\ s.start_time_ns <= now
  BY <1>1 DEF CooldownInv, CooldownOver, StatesOf
<1> QED
  BY <1>1, <1>2, <1>3 DEF OneMatch, CooldownInv, CooldownOver

-----------------------------------------------------------------------------
(* An event that is matched.                                               *)

\* The states of a pid and rule after it: those that survive, and a new one.
LEMMA StatesAfter ==
  ASSUME TypedTables, NEW ev \in SyscallEvent, NEW C, match(ev, C),
         NEW p \in Pids, NEW r \in Rules
  PROVE  StatesOf(active_detection_states', p, r) =
           StatesOf(Left(ev), p, r)
           \cup StatesOf(NewStates(Left(ev), After(ev, C), ev, detection_state_count), p, r)
BY MatchParts DEF StatesOf

\* A state that survives keeps its start.
LEMMA StatesLeft ==
  ASSUME TypedTables, NEW ev \in SyscallEvent, NEW p \in Pids, NEW r \in Rules
  PROVE  /\ \A s \in StatesOf(Left(ev), p, r) :
              \E t \in StatesOf(active_detection_states, p, r) :
                Survives(t, ev) /\ s = Advance(t, ev)
                /\ s.start_time_ns = t.start_time_ns
         /\ \A t \in StatesOf(active_detection_states, p, r) :
              Survives(t, ev) => Advance(t, ev) \in StatesOf(Left(ev), p, r)
<1>1. ASSUME NEW s \in StatesOf(Left(ev), p, r)
      PROVE  \E t \in StatesOf(active_detection_states, p, r) :
               Survives(t, ev) /\ s = Advance(t, ev)
               /\ s.start_time_ns = t.start_time_ns
  <2>1. s \in Left(ev) /\ s.pid = p /\ s.rule_index = r
    BY DEF StatesOf
  <2>2. PICK t \in active_detection_states :
          /\ Survives(t, ev) /\ s = Advance(t, ev)
          /\ s.pid = t.pid /\ s.rule_index = t.rule_index
          /\ s.start_time_ns = t.start_time_ns
    BY <2>1, LeftFrom
  <2> QED
    BY <2>1, <2>2 DEF StatesOf
<1>2. ASSUME NEW t \in StatesOf(active_detection_states, p, r), Survives(t, ev)
      PROVE  Advance(t, ev) \in StatesOf(Left(ev), p, r)
  <2>1. t \in active_detection_states /\ t.pid = p /\ t.rule_index = r
    BY DEF StatesOf
  <2>2. Advance(t, ev).pid = t.pid /\ Advance(t, ev).rule_index = t.rule_index
    BY <2>1, AdvanceType DEF TypedTables
  <2>3. Advance(t, ev) \in Left(ev)
    BY <1>2, <2>1 DEF Left, process_transition
  <2> QED
    BY <2>1, <2>2, <2>3 DEF StatesOf
<1> QED
  BY <1>1, <1>2

\* A new state of the rule is there exactly if the rule stored one.
LEMMA StatesNew ==
  ASSUME NEW A, NEW C, NEW ev \in SyscallEvent, NEW n \in Nat, NEW p \in Pids, NEW r \in Rules
  PROVE  LET N == StatesOf(NewStates(A, C, ev, n), p, r)
         IN  /\ \A s \in N : s.start_time_ns = ev.timestamp_ns
                             /\ \A t \in N : t = s
             /\ N = {} <=> ~(p = ev.pid /\ r \in Stored(A, C, ev))
<1> DEFINE new(q) == [id |-> NextId(n, q, Stored(A, C, ev)), pid |-> ev.pid, rule_index |-> q,
                      current_state_index |-> First(q, ev).next,
                      data |-> First(q, ev).data, start_time_ns |-> ev.timestamp_ns]
<1>1. NewStates(A, C, ev, n) = {new(q) : q \in Stored(A, C, ev)}
  BY DEF NewStates
<1>2. \A q : new(q).pid = ev.pid /\ new(q).rule_index = q
             /\ new(q).start_time_ns = ev.timestamp_ns
  OBVIOUS
<1> HIDE DEF new
<1> QED
  BY <1>1, <1>2 DEF StatesOf

\* The reports of a pid and rule.
LEMMA ReportsAfter ==
  ASSUME TypedTables, NEW ev \in SyscallEvent, NEW C, match(ev, C),
         NEW p \in Pids, NEW r \in Rules
  PROVE  /\ p # ev.pid => ~Reported(detected', p, r)
         /\ Reported(detected', ev.pid, r) <=>
              \/ \E s \in StatesOf(active_detection_states, ev.pid, r) : Completes(s, ev)
              \/ r \in Started(Left(ev), After(ev, C), ev) /\ First(r, ev).next = Length[r]
         /\ Reports(Done(ev), r) <=>
              \E s \in StatesOf(active_detection_states, ev.pid, r) : Completes(s, ev)
         /\ Reports(Immediate(Left(ev), After(ev, C), ev, detection_state_count), r) <=>
              r \in Started(Left(ev), After(ev, C), ev) /\ First(r, ev).next = Length[r]
<1> DEFINE I == Immediate(Left(ev), After(ev, C), ev, detection_state_count)
           S == Started(Left(ev), After(ev, C), ev)
<1>1. detected' = Done(ev) \cup I
  BY MatchParts
<1>2. \A d \in Done(ev) : d.pid = ev.pid
  BY DEF Done, Completed, Completes, Runs, Report
<1>3. \A d \in I : d.pid = ev.pid
  BY DEF Immediate, Report
<1>4. Reports(Done(ev), r) <=>
        \E s \in StatesOf(active_detection_states, ev.pid, r) : Completes(s, ev)
  <2>1. \A s : Completes(s, ev) => s.pid = ev.pid
    BY DEF Completes, Runs
  <2>2. \A d : d \in Done(ev) <=>
          \E s \in active_detection_states :
            Completes(s, ev) /\ d = Report(s.id, s.pid, s.rule_index, s.start_time_ns)
    BY DEF Done, Completed
  <2>3. \A s : Report(s.id, s.pid, s.rule_index, s.start_time_ns).rule_index = s.rule_index
    BY DEF Report
  <2> QED
    BY <2>1, <2>2, <2>3 DEF Reports, StatesOf
<1>5. Reports(I, r) <=> r \in S /\ First(r, ev).next = Length[r]
  <2> DEFINE report(q) ==
        Report(NextId(detection_state_count, q, Stored(Left(ev), After(ev, C), ev)),
               ev.pid, q, ev.timestamp_ns)
  <2>1. \A d : d \in I <=> \E q \in S : First(q, ev).next = Length[q] /\ d = report(q)
    BY DEF Immediate
  <2>2. \A q : report(q).rule_index = q
    BY DEF Report
  <2> HIDE DEF I, S, report
  <2> QED
    BY <2>1, <2>2 DEF Reports
<1>6. Reported(detected', ev.pid, r) <=> Reports(Done(ev), r) \/ Reports(I, r)
  BY <1>1, <1>2, <1>3 DEF Reported, Reports
<1> HIDE DEF I, S
<1>7. p # ev.pid => ~Reported(detected', p, r)
  BY <1>1, <1>2, <1>3 DEF Reported
<1> QED
  BY <1>4, <1>5, <1>6, <1>7 DEF I, S

\* The cooldown of a pid and rule.
LEMMA CooldownAfter ==
  ASSUME TypedTables, NEW ev \in SyscallEvent, NEW C \in Cooldowns, match(ev, C),
         NEW p \in Pids, NEW r \in Rules
  PROVE  /\ After(ev, C)[p][r] =
              IF p = ev.pid /\ cooldown_ns[r] > 0 /\ Reports(Done(ev), r)
              THEN ev.timestamp_ns + cooldown_ns[r] ELSE C[p][r]
         /\ cooldown_until'[p][r] =
              IF p = ev.pid /\ cooldown_ns[r] > 0
                 /\ Reports(Immediate(Left(ev), After(ev, C), ev, detection_state_count), r)
              THEN ev.timestamp_ns + cooldown_ns[r]
              ELSE IF p = ev.pid /\ r \in NotSuppressed(Left(ev), ev.pid)
                      /\ After(ev, C)[p][r] <= ev.timestamp_ns
              THEN 0 ELSE After(ev, C)[p][r]
<1> DEFINE ts == ev.timestamp_ns
           R == NotSuppressed(Left(ev), ev.pid)
           A == After(ev, C)
           E == erase_expired(A, ev.pid, R, ts)
           I == Immediate(Left(ev), A, ev, detection_state_count)
<1>1. ev.pid \in Pids /\ ts \in Nat
  BY CallsAssumption DEF SyscallEvent, Time
<1>2. A \in Cooldowns /\ E \in Cooldowns
  BY <1>1, CooldownType DEF After
<1>3. A[p][r] = IF p = ev.pid /\ cooldown_ns[r] > 0 /\ Reports(Done(ev), r)
                THEN ts + cooldown_ns[r] ELSE C[p][r]
  BY <1>1, SetValue DEF After
<1>4. cooldown_until' = set_cooldown(E, I, ev.pid, ts)
  BY MatchParts
<1> HIDE DEF ts, R, A, I
<1>5. E[p][r] = IF p = ev.pid /\ r \in R /\ A[p][r] <= ts THEN 0 ELSE A[p][r]
  BY <1>2 DEF erase_expired, Cooldowns
<1> HIDE DEF E
<1>6. cooldown_until'[p][r] = IF p = ev.pid /\ cooldown_ns[r] > 0 /\ Reports(I, r)
                              THEN ts + cooldown_ns[r] ELSE E[p][r]
  BY <1>1, <1>2, <1>4, SetValue
<1> QED
  BY <1>3, <1>5, <1>6 DEF ts, R, A, I

-----------------------------------------------------------------------------
(* A step, one pid and rule at a time.                                     *)

\* An event of another pid, or one that is not matched: the match may expire,
\* and the pid's cooldowns may go with an exec of its leader.
LEMMA OthersIgnore ==
  ASSUME NEW p \in Pids, NEW r \in Single,
         \/ Since(active_detection_states, p, r)' = Since(active_detection_states, p, r)
         \/ /\ M(p, r)!Expired
            /\ Since(active_detection_states, p, r)' = NoStart,
         ~Reported(detected', p, r), now' = now,
         \/ cooldown_until'[p][r] = cooldown_until[p][r]
         \/ cooldown_until'[p][r] = 0, now \in Nat
  PROVE  M(p, r)!MonitorNext
<1>1. M(p, r)!MayExpire
  BY DEF M!MayExpire
<1>2. Reported(detected, p, r)' = FALSE
  BY DEF Reported
<1>3. CASE cooldown_until'[p][r] = cooldown_until[p][r]
  <2>1. Until(cooldown_until, p, r, now)' = Until(cooldown_until, p, r, now)
    BY <1>3 DEF Until
  <2> QED
    BY <1>1, <1>2, <2>1 DEF M!MonitorNext, M!Ignore
<1>4. CASE cooldown_until'[p][r] = 0
  <2>1. Until(cooldown_until, p, r, now)' = 0
    BY <1>4 DEF Until
  <2> QED
    BY <1>1, <1>2, <2>1 DEF M!MonitorNext, M!Forget
<1> QED
  BY <1>3, <1>4

\* The rule may begin at the event exactly if no match of the pid survived it
\* and its cooldown is over.
LEMMA MayBegin ==
  ASSUME NEW ev \in SyscallEvent, NEW C, NEW r \in Single
  PROVE  /\ r \in NotSuppressed(Left(ev), ev.pid) <=> StatesOf(Left(ev), ev.pid, r) = {}
         /\ r \in Started(Left(ev), C, ev) <=>
              /\ StatesOf(Left(ev), ev.pid, r) = {}
              /\ ~(ev.timestamp_ns < C[ev.pid][r])
<1>1. r \in Rules /\ single_active_per_pid[r]
  BY DEF Single
<1>2. r \in NotSuppressed(Left(ev), ev.pid) <=> StatesOf(Left(ev), ev.pid, r) = {}
  BY <1>1 DEF NotSuppressed, has_active_state, StatesOf
<1> QED
  BY <1>1, <1>2 DEF Started, in_cooldown

\* What is left of the pid's match of the rule, if it has one.
LEMMA MatchLeft ==
  ASSUME CooldownInv, NEW ev \in SyscallEvent, ev.timestamp_ns = now,
         NEW p \in Pids, NEW r \in Single,
         NEW s \in StatesOf(active_detection_states, p, r)
  PROVE  /\ Since(active_detection_states, p, r) = s.start_time_ns
         /\ s.start_time_ns \in Nat
         /\ TimedOut(s, ev.timestamp_ns) <=> M(p, r)!Expired
         /\ Survives(s, ev) =>
              /\ StatesOf(Left(ev), p, r) = {Advance(s, ev)}
              /\ Advance(s, ev).start_time_ns = s.start_time_ns
         /\ ~Survives(s, ev) => StatesOf(Left(ev), p, r) = {}
<1>1. OneMatch(active_detection_states, cooldown_until, p, r, now)
  BY OneMatchHolds
<1>2. \A t \in StatesOf(active_detection_states, p, r) : t = s
  BY <1>1 DEF OneMatch
<1>3. Since(active_detection_states, p, r) = s.start_time_ns
  BY <1>2, SinceOf
<1>4. s.start_time_ns \in Nat /\ s.start_time_ns <= now /\ now \in Nat
  BY <1>1 DEF OneMatch
<1>5. s.rule_index = r /\ r \in Rules /\ TypedTables /\ timeout_ns[r] \in Int
  BY TypedTablesType, RulesAssumption DEF StatesOf, Single, CooldownInv
<1>6. TimedOut(s, ev.timestamp_ns) <=> M(p, r)!Expired
  BY <1>3, <1>4, <1>5 DEF TimedOut, M!Expired, NoStart
<1>7. /\ \A u \in StatesOf(Left(ev), p, r) : Survives(s, ev) /\ u = Advance(s, ev)
                                             /\ u.start_time_ns = s.start_time_ns
      /\ Survives(s, ev) => Advance(s, ev) \in StatesOf(Left(ev), p, r)
  <2>1. \A u \in StatesOf(Left(ev), p, r) :
          \E t \in StatesOf(active_detection_states, p, r) :
            Survives(t, ev) /\ u = Advance(t, ev) /\ u.start_time_ns = t.start_time_ns
    BY <1>5, StatesLeft
  <2>2. Survives(s, ev) => Advance(s, ev) \in StatesOf(Left(ev), p, r)
    BY <1>5, StatesLeft
  <2> QED
    BY <1>2, <2>1, <2>2
<1> QED
  BY <1>3, <1>4, <1>6, <1>7

LEMMA NothingLeft ==
  ASSUME TypedTables, NEW ev \in SyscallEvent, NEW p \in Pids, NEW r \in Rules,
         StatesOf(active_detection_states, p, r) = {}
  PROVE  StatesOf(Left(ev), p, r) = {}
BY StatesLeft

\* The match after the event: the one left, or a new one, or none.
LEMMA SinceAfter ==
  ASSUME TypedTables, NEW ev \in SyscallEvent, NEW C, match(ev, C),
         NEW p \in Pids, NEW r \in Single
  PROVE  LET L == StatesOf(Left(ev), p, r)
             begins == p = ev.pid /\ r \in Stored(Left(ev), After(ev, C), ev)
         IN  /\ begins => L = {}
             /\ L = {} => Since(active_detection_states, p, r)' =
                            IF begins THEN ev.timestamp_ns ELSE NoStart
             /\ \A s : L = {s} => Since(active_detection_states, p, r)' = s.start_time_ns
<1> DEFINE L == StatesOf(Left(ev), p, r)
           begins == p = ev.pid /\ r \in Stored(Left(ev), After(ev, C), ev)
           N == StatesOf(NewStates(Left(ev), After(ev, C), ev, detection_state_count), p, r)
           S == StatesOf(active_detection_states', p, r)
<1>1. r \in Rules /\ detection_state_count \in Nat
  BY DEF Single, TypedTables
<1>2. S = L \cup N
  BY <1>1, StatesAfter
<1>3. /\ \A s \in N : s.start_time_ns = ev.timestamp_ns /\ \A t \in N : t = s
      /\ N = {} <=> ~begins
  BY <1>1, StatesNew
<1>4. begins => L = {}
  BY MayBegin DEF Stored
<1>5. Since(active_detection_states, p, r)' = Since(active_detection_states', p, r)
  BY DEF Since, StatesOf
<1>6. /\ S = {} => Since(active_detection_states', p, r) = NoStart
      /\ \A s : s \in S /\ (\A t \in S : t = s) =>
           Since(active_detection_states', p, r) = s.start_time_ns
  BY SinceNone, SinceOf
<1> HIDE DEF L, N, S, begins
<1> QED
  BY <1>2, <1>3, <1>4, <1>5, <1>6 DEF L, begins

\* An event of another pid: the pid's match may have expired.
LEMMA OtherEvent ==
  ASSUME CooldownInv, NEW ev \in SyscallEvent, NEW C \in Cooldowns,
         Judges(ev, C), match(ev, C), NEW p \in Pids, NEW r \in Single, p # ev.pid
  PROVE  M(p, r)!MonitorNext
<1> DEFINE S == StatesOf(active_detection_states, p, r)
<1>t. /\ TypedTables /\ r \in Rules /\ now \in Nat
      /\ ev.timestamp_ns = now /\ now' = now
  BY TypedTablesType, CallsAssumption
  DEF CooldownInv, TypeInv, TypeOK, Time, Single, Judges
<1>1. ~Reported(detected', p, r)
  BY <1>t, ReportsAfter
<1>2. cooldown_until'[p][r] = C[p][r]
  <2>1. After(ev, C)[p][r] = C[p][r]
    BY <1>t, CooldownAfter
  <2> QED
    BY <1>t, <2>1, CooldownAfter
<1>3. C[p][r] = cooldown_until[p][r] \/ C[p][r] = 0
  BY <1>t DEF Judges, Carried, NoCooldown
<1>4. CASE S = {}
  <2>1. StatesOf(Left(ev), p, r) = {} /\ Since(active_detection_states, p, r) = NoStart
    BY <1>t, <1>4, NothingLeft, SinceNone
  <2>2. Since(active_detection_states, p, r)' = NoStart
    BY <1>t, <2>1, SinceAfter
  <2> QED
    BY <1>t, <1>1, <1>2, <1>3, <2>1, <2>2, OthersIgnore
<1>5. ASSUME NEW s \in S
      PROVE  M(p, r)!MonitorNext
  <2>1. ~Completes(s, ev)
    BY DEF StatesOf, Completes, Runs
  <2>2. Survives(s, ev) <=> ~M(p, r)!Expired
    BY <1>t, <2>1, MatchLeft DEF Survives
  <2>3. CASE Survives(s, ev)
    <3>1. Since(active_detection_states, p, r)' = Since(active_detection_states, p, r)
      <4>1. /\ StatesOf(Left(ev), p, r) = {Advance(s, ev)}
            /\ Advance(s, ev).start_time_ns = Since(active_detection_states, p, r)
        BY <1>t, <2>3, MatchLeft
      <4> QED
        BY <1>t, <4>1, SinceAfter
    <3> QED
      BY <1>t, <1>1, <1>2, <1>3, <3>1, OthersIgnore
  <2>4. CASE ~Survives(s, ev)
    <3>1. Since(active_detection_states, p, r)' = NoStart
      <4>1. StatesOf(Left(ev), p, r) = {}
        BY <1>t, <2>4, MatchLeft
      <4> QED
        BY <1>t, <4>1, SinceAfter
    <3> QED
      BY <1>t, <1>1, <1>2, <1>3, <2>2, <2>4, <3>1, OthersIgnore
  <2> QED
    BY <2>3, <2>4
<1> QED
  BY <1>4, <1>5

\* An event of the pid itself, by what it finds.
LEMMA OwnEvent ==
  ASSUME CooldownInv, NEW ev \in SyscallEvent, NEW C \in Cooldowns,
         Judges(ev, C), match(ev, C), NEW r \in Single
  PROVE  M(ev.pid, r)!MonitorNext
<1> DEFINE p == ev.pid
           D == After(ev, C)
           S == StatesOf(active_detection_states, p, r)
           L == StatesOf(Left(ev), p, r)
           I == Immediate(Left(ev), D, ev, detection_state_count)
           cd == cooldown_ns[r]
           starts == r \in Started(Left(ev), D, ev)
           stored == r \in Stored(Left(ev), D, ev)
           whole == starts /\ First(r, ev).next = Length[r]
           ended == \E s \in S : Completes(s, ev)
           since == Since(active_detection_states, p, r)
           until == Until(cooldown_until, p, r, now)
<1>t. /\ TypedTables /\ r \in Rules /\ now \in Nat /\ p \in Pids
      /\ ev.timestamp_ns = now /\ now' = now
      /\ cd \in Int /\ Length[r] \in Nat
  BY TypedTablesType, CallsAssumption, RulesAssumption
  DEF CooldownInv, TypeInv, TypeOK, Time, Single, Judges, SyscallEvent
<1>1. /\ C[p][r] = cooldown_until[p][r] /\ C[p][r] \in Nat
      /\ cd <= 0 => C[p][r] = 0
      /\ \A s \in S : C[p][r] <= s.start_time_ns /\ s.start_time_ns <= now
                      /\ s.start_time_ns \in Nat
  BY <1>t, OneMatchHolds DEF Judges, Carried, OneMatch
<1>2. Reported(detected', p, r) <=> ended \/ whole
  BY <1>t, ReportsAfter
<1>3. D[p][r] = IF cd > 0 /\ ended THEN now + cd ELSE C[p][r]
  <2>1. Reports(Done(ev), r) <=> ended
    BY <1>t, ReportsAfter
  <2> HIDE DEF ended
  <2> QED
    BY <1>t, <2>1, CooldownAfter
<1>4. cooldown_until'[p][r] =
        IF cd > 0 /\ whole THEN now + cd
        ELSE IF L = {} /\ D[p][r] <= now THEN 0 ELSE D[p][r]
  <2>1. Reports(I, r) <=> whole
    BY <1>t, ReportsAfter
  <2>2. r \in NotSuppressed(Left(ev), p) <=> L = {}
    BY MayBegin
  <2>3. cooldown_until'[p][r] =
          IF cd > 0 /\ Reports(I, r) THEN now + cd
          ELSE IF r \in NotSuppressed(Left(ev), p) /\ D[p][r] <= now
          THEN 0 ELSE D[p][r]
    BY <1>t, CooldownAfter
  <2> HIDE DEF whole, L, D, I
  <2> QED
    BY <2>1, <2>2, <2>3
<1>5. starts <=> L = {} /\ ~(now < D[p][r])
  BY <1>t, MayBegin
<1>6. stored => starts /\ ~whole
  BY <1>t DEF Stored
<1>7. /\ L = {} => since' = IF stored THEN now ELSE NoStart
      /\ \A s : L = {s} => since' = s.start_time_ns
  BY <1>t, SinceAfter
<1>8. until' = IF cooldown_until'[p][r] <= now THEN 0 ELSE cooldown_until'[p][r]
  BY <1>t DEF Until
<1>9. until = IF C[p][r] <= now THEN 0 ELSE C[p][r]
  BY <1>1 DEF Until
<1>r. Reported(detected, p, r)' = (ended \/ whole)
  BY <1>2 DEF Reported
<1>m. \A s \in S : /\ since = s.start_time_ns /\ s.start_time_ns \in Nat
                   /\ TimedOut(s, now) <=> M(p, r)!Expired
                   /\ Survives(s, ev) =>
                        L = {Advance(s, ev)} /\ Advance(s, ev).start_time_ns = s.start_time_ns
                   /\ ~Survives(s, ev) => L = {}
  BY <1>t, MatchLeft
<1>10. CASE ended
  <2>1. PICK s \in S : Completes(s, ev)
    BY <1>10
  <2>2. L = {} /\ M(p, r)!Matching
    <3>1. ~TimedOut(s, now) /\ ~Survives(s, ev)
      BY <1>t, <2>1 DEF Completes, Runs, Survives
    <3> QED
      BY <1>m, <2>1, <3>1 DEF M!Matching, NoStart
  <2>3. C[p][r] <= now /\ until = 0
    BY <1>t, <1>1, <1>9, <2>1
  <2>4. CASE cd > 0
    <3>1. D[p][r] = now + cd /\ ~starts
      BY <1>t, <1>3, <1>5, <1>10, <2>4
    <3>2. cooldown_until'[p][r] = now + cd
      BY <1>t, <1>4, <2>4, <3>1
    <3>3. until' = now + cd /\ since' = NoStart
      BY <1>t, <1>6, <1>7, <1>8, <2>2, <2>4, <3>1, <3>2
    <3> QED
      BY <1>t, <1>r, <1>10, <2>2, <2>4, <3>3
      DEF M!MonitorNext, M!Finish, M!Silence
  <2>5. CASE cd <= 0
    <3>1. cooldown_until'[p][r] = 0 /\ until' = 0
      BY <1>t, <1>1, <1>3, <1>4, <1>8, <2>5
    <3>2. since' = NoStart \/ since' = now
      BY <1>7, <2>2
    <3>3. M(p, r)!Silence
      <4>1. ~(cd > 0) /\ until' = until
        BY <1>t, <2>3, <2>5, <3>1
      <4> QED
        BY <4>1 DEF M!Silence
    <3>4. M(p, r)!Finish
      BY <1>t, <1>r, <1>10, <2>2, <2>3, <2>5, <3>2, <3>3 DEF M!Finish
    <3> QED
      BY <3>4 DEF M!MonitorNext
  <2> QED
    BY <1>t, <2>4, <2>5
<1>11. CASE ~ended /\ L # {}
  <2>1. PICK s \in S : Survives(s, ev)
    BY <1>t, <1>11, <1>m, NothingLeft
  <2>2. since' = since
    BY <1>7, <1>m, <2>1
  <2>3. ~whole /\ cooldown_until'[p][r] = C[p][r]
    BY <1>3, <1>4, <1>5, <1>11
  <2>4. until' = until
    BY <1>8, <1>9, <2>3
  <2> QED
    BY <1>t, <1>r, <1>11, <2>2, <2>3, <2>4
    DEF M!MonitorNext, M!Ignore, M!MayExpire
<1>12. CASE ~ended /\ L = {}
  <2>1. D[p][r] = C[p][r]
    BY <1>3, <1>12
  <2>2. ~M(p, r)!Matching /\ (since = NoStart \/ M(p, r)!Expired)
    <3>1. CASE S = {}
      BY <3>1, SinceNone DEF M!Matching
    <3>2. CASE S # {}
      <4>1. PICK s \in S : ~Survives(s, ev)
        BY <1>12, <1>m, <3>2
      <4>2. TimedOut(s, now)
        BY <1>t, <1>12, <4>1 DEF Survives
      <4> QED
        BY <1>m, <4>2 DEF M!Matching
    <3> QED
      BY <3>1, <3>2
  <2>3. starts <=> until = 0
    BY <1>t, <1>1, <1>5, <1>9, <1>12, <2>1
  <2>4. CASE stored
    <3>1. until = 0 /\ ~whole /\ since' = now
      BY <1>6, <1>7, <1>12, <2>3, <2>4
    <3>2. until' = 0
      BY <1>t, <1>1, <1>4, <1>5, <1>6, <1>8, <2>1, <2>4, <3>1
    <3> QED
      BY <1>t, <1>r, <1>12, <2>2, <3>1, <3>2 DEF M!MonitorNext, M!Begin
  <2>5. CASE whole
    <3>1. until = 0 /\ since' = NoStart
      BY <1>6, <1>7, <1>12, <2>3, <2>5
    <3>2. until' = IF cd > 0 THEN now + cd ELSE until
      BY <1>t, <1>1, <1>4, <1>5, <1>8, <2>1, <2>5, <3>1
    <3> QED
      BY <1>t, <1>r, <2>2, <2>5, <3>1, <3>2
      DEF M!MonitorNext, M!AtOnce, M!Silence
  <2>6. CASE ~stored /\ ~whole
    <3>1. since' = NoStart
      BY <1>7, <1>12, <2>6
    <3>2. until' = until
      BY <1>t, <1>1, <1>4, <1>8, <1>9, <2>1, <2>6
    <3> QED
      BY <1>t, <1>r, <1>12, <2>2, <2>6, <3>1, <3>2
      DEF M!MonitorNext, M!Ignore, M!MayExpire
  <2> QED
    BY <2>4, <2>5, <2>6
<1> QED
  BY <1>10, <1>11, <1>12

-----------------------------------------------------------------------------
(* Every step.                                                             *)

\* Since is of the states alone: the same states, the same match.
LEMMA SinceSame ==
  ASSUME NEW p, NEW r,
         StatesOf(active_detection_states', p, r) = StatesOf(active_detection_states, p, r)
  PROVE  Since(active_detection_states, p, r)' = Since(active_detection_states, p, r)
<1>1. Since(active_detection_states, p, r)' = Since(active_detection_states', p, r)
  BY DEF Since, StatesOf
<1> HIDE DEF StatesOf
<1> QED
  BY <1>1 DEF Since

LEMMA MonitorStep ==
  ASSUME CooldownInv, [Next]_vars, NEW p \in Pids, NEW r \in Single
  PROVE  [M(p, r)!MonitorNext]_(M(p, r)!monitor)
<1>t. /\ TypedTables /\ TypeInv /\ r \in Rules /\ ~inherit_on_fork[r]
      /\ now \in Nat /\ cooldown_until \in [Pids -> [Rules -> Nat]]
  BY TypedTablesType, CallsAssumption, SingleNotInherited
  DEF CooldownInv, TypeInv, TypeOK, Time, Single, Cooldowns
<1>0. CASE UNCHANGED vars
  <2>1. Since(active_detection_states, p, r)' = Since(active_detection_states, p, r)
    BY <1>0, SinceSame DEF vars
  <2>2. /\ Until(cooldown_until, p, r, now)' = Until(cooldown_until, p, r, now)
        /\ Reported(detected, p, r)' = Reported(detected, p, r)
        /\ now' = now
    BY <1>0 DEF vars, Until, Reported
  <2> QED
    BY <2>1, <2>2 DEF M!monitor
<1>1. CASE Idle
  <2>1. Since(active_detection_states, p, r)' = Since(active_detection_states, p, r)
    BY <1>1, SinceSame DEF Idle
  <2>2. Reported(detected, p, r)' = FALSE
    BY <1>1 DEF Idle, Reported
  <2>3. now' \in Nat /\ now <= now' /\ cooldown_until' = cooldown_until
    BY <1>1 DEF Idle
  <2>4. Until(cooldown_until, p, r, now)' =
          IF Until(cooldown_until, p, r, now) <= now' THEN 0
          ELSE Until(cooldown_until, p, r, now)
    <3>1. cooldown_until[p][r] \in Nat
      BY <1>t
    <3> QED
      BY <1>t, <2>3, <3>1 DEF Until
  <2> QED
    BY <1>t, <2>1, <2>2, <2>3, <2>4 DEF M!MonitorNext, M!Wait
<1>2. ASSUME NEW c \in Pids, NEW q \in Pids, add_tracked_pid(c, q)
      PROVE  M(p, r)!MonitorNext
  <2>1. \A s \in Copies(q, c) : s.rule_index # r
    BY <1>t, CopyFrom
  <2>2. active_detection_states' = active_detection_states \cup Copies(q, c)
    BY <1>2 DEF add_tracked_pid
  <2>3. Since(active_detection_states, p, r)' = Since(active_detection_states, p, r)
    BY <2>1, <2>2, SinceSame DEF StatesOf
  <2>4. /\ ~Reported(detected', p, r) /\ now' = now
        /\ cooldown_until'[p][r] = cooldown_until[p][r]
    BY <1>2 DEF add_tracked_pid, no_event, Reported
  <2> QED
    BY <1>t, <2>3, <2>4, OthersIgnore
<1>3. ASSUME NEW c \in Pids, remove_tracked_pid(c)
      PROVE  M(p, r)!MonitorNext
  <2>1. Since(active_detection_states, p, r)' = Since(active_detection_states, p, r)
    BY <1>3, SinceSame DEF remove_tracked_pid
  <2>2. ~Reported(detected', p, r) /\ now' = now
    BY <1>3 DEF remove_tracked_pid, no_event, Reported
  <2>3. \/ cooldown_until'[p][r] = cooldown_until[p][r]
        \/ cooldown_until'[p][r] = 0
    BY <1>t, <1>3 DEF remove_tracked_pid, NoCooldown
  <2> QED
    BY <1>t, <2>1, <2>2, <2>3, OthersIgnore
<1>4. ASSUME NEW ev \in SyscallEvent, NEW C \in Cooldowns, Judges(ev, C)
      PROVE  M(p, r)!MonitorNext
  <2>1. CASE skip_match(C)
    <3>1. Since(active_detection_states, p, r)' = Since(active_detection_states, p, r)
      BY <2>1, SinceSame DEF skip_match
    <3>2. ~Reported(detected', p, r) /\ now' = now
      BY <1>4, <2>1 DEF skip_match, Reported, Judges
    <3>3. \/ cooldown_until'[p][r] = cooldown_until[p][r]
          \/ cooldown_until'[p][r] = 0
      BY <1>t, <1>4, <2>1 DEF Judges, Carried, NoCooldown, skip_match
    <3> QED
      BY <1>t, <3>1, <3>2, <3>3, OthersIgnore
  <2>2. CASE match(ev, C) /\ p # ev.pid
    BY <1>4, <2>2, OtherEvent
  <2>3. CASE match(ev, C) /\ p = ev.pid
    BY <1>4, <2>3, OwnEvent
  <2> QED
    BY <1>4, <2>1, <2>2, <2>3 DEF Judges
<1> QED
  BY <1>t, <1>0, <1>1, <1>2, <1>3, <1>4, StepCases

(* Every step of the engine is, of each single-active rule at each pid, a  *)
(* step of its Monitor or none: at most one match at a time, reports only  *)
(* from a match whose window is open or from one event, silence for the    *)
(* cooldown after that (process_transition, process_first_transition,      *)
(* in_cooldown, set_cooldown, engine.cc:416-510).                          *)
THEOREM EngineKeepsMonitors == Spec => KeepsMonitors
<1>1. Init => CooldownInv
  BY CooldownInit
<1>2. CooldownInv /\ [Next]_vars => CooldownInv'
  BY CooldownStep
<1>3. CooldownInv /\ [Next]_vars =>
        [ \A p \in Pids, r \in Single :
            [M(p, r)!MonitorNext]_(M(p, r)!monitor) ]_vars
  BY MonitorStep
<1> QED
  BY <1>1, <1>2, <1>3, PTL DEF Spec, KeepsMonitors

(* The engine implements the Monitor of each single-active rule at each    *)
(* pid, under the mapping of EngineMonitor.                                *)
THEOREM EngineImplementsMonitor ==
  ASSUME NEW p \in Pids, NEW r \in Single
  PROVE  Spec => M(p, r)!MonitorSpec
<1>1. Init => CooldownInv /\ M(p, r)!MonitorInit
  <2>1. Init => Since(active_detection_states, p, r) = NoStart
    BY DEF Init, Since, StatesOf
  <2>2. Init => Until(cooldown_until, p, r, now) = 0
    BY DEF Init, Until, NoCooldown, Single
  <2>3. Init => now = 0 /\ Reported(detected, p, r) = FALSE
    BY DEF Init, Reported
  <2> QED
    BY <2>1, <2>2, <2>3, CooldownInit DEF M!MonitorInit
<1>2. CooldownInv /\ [Next]_vars => CooldownInv'
  BY CooldownStep
<1>3. CooldownInv /\ [Next]_vars => [M(p, r)!MonitorNext]_(M(p, r)!monitor)
  BY MonitorStep
<1> QED
  BY <1>1, <1>2, <1>3, PTL DEF Spec, M!MonitorSpec

===============================================================================
