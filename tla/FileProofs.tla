------------------------------ MODULE FileProofs ------------------------------
(***************************************************************************)
(* Theorems of module FileProcess: the accounts that the rules over files  *)
(* keep, for every number of paths, descriptors, calls and bytes.          *)
(***************************************************************************)
EXTENDS FileProcess, WellFoundedInduction, FiniteSetTheorems, TLAPS

-----------------------------------------------------------------------------
(* The invariant.                                                          *)

matches == active_detection_states

\* The state and the data of a match are those its rule's functions expect.
MatchOK(s) ==
  /\ s \in Engine!DetectionState /\ s.start_time_ns <= now /\ s.id < detection_state_count
  /\ s.rule_index \in ReadDb =>
       s.current_state_index \in {1, 2} /\ s.data \in [fd : Fds, bytes : 0 .. Large - 1]
  /\ s.rule_index \in Traversal =>
       /\ s.current_state_index \in {0, 1} /\ s.data \in [fd : Fds, paths : SUBSET Paths]
       /\ Cardinality(s.data.paths) < Threshold
  /\ s.rule_index \in Count =>
       /\ s.current_state_index = 0 /\ s.data \in [paths : SUBSET Paths]
       /\ Cardinality(s.data.paths) < Threshold

Event ==
  [call : Calls, pid : {Pid}, retval : (-1 .. MaxFd + Chunk) \cup {NoRet},
   from_shell : BOOLEAN, timestamp_ns : 0 .. MaxTime]

TablesOK ==
  /\ tracked_pids \in [{Pid} -> Event \cup {NoEvent}]
  /\ from_shell_pids = {} /\ allow_pids = {} /\ detection_started = FALSE
  /\ cooldown_until \in [{Pid} -> [Rules -> Nat]]
  /\ detection_state_count \in Nat /\ Cardinality(Rules) <= detection_state_count
  /\ now \in 0 .. MaxTime
  /\ \A s \in matches : MatchOK(s)
  /\ file \in [Fds -> [path : Paths, open : Nat] \cup {Closed}]

\* A single-active rule has one match at most.
OneMatch ==
  \A s, t \in matches : s.rule_index = t.rule_index /\ s.rule_index \notin ReadDb => s = t

Open == [latest : Fds, start : 0 .. now, bytes : Nat, duplicated : BOOLEAN, followed : BOOLEAN]

OpensOK ==
  /\ \A n \in DOMAIN opened : n \in Nat \ {0} /\ n < detection_state_count /\ opened[n] \in Open
  /\ \A n \in DOMAIN opened :
       opened[n].followed => Through(opened[n].latest) = n

Account(o, s) ==
  /\ s.data = [fd |-> o.latest, bytes |-> o.bytes]
  /\ s.current_state_index = IF o.duplicated THEN 2 ELSE 1

Accounted ==
  \A n \in DOMAIN opened, r \in ReadDb :
    LET o == opened[n]
    IN  o.followed /\ o.bytes < Large /\ InTime(r, o.start) =>
          \E s \in matches :
            s.id = n /\ s.rule_index = r /\ s.start_time_ns = o.start /\ Account(o, s)

Accounts ==
  \A s \in matches : s.rule_index \in ReadDb =>
    /\ s.id \in DOMAIN opened
    /\ opened[s.id].followed => Account(opened[s.id], s)

HistoryOK ==
  /\ IsFiniteSet(scans) /\ scans \subseteq [path : Paths, at : 0 .. now]
  /\ IsFiniteSet(visits) /\ visits \subseteq [path : Paths, at : 0 .. now, began : -1 .. now]
  /\ fresh \in [fd : Fds, at : 0 .. now] \cup {NoneFresh}
  /\ told \in [Rules -> -1 .. now]
  /\ \A r \in Rules : cooldown_until[Pid][r] # 0 =>
       cooldown_ns[r] > 0 /\ told[r] # -1 /\ cooldown_until[Pid][r] = told[r] + cooldown_ns[r]

\* What a match counts did happen since it began.
Since(S, s) == {v.path : v \in {w \in S : w.at >= s.start_time_ns}}

Counted ==
  \A s \in matches :
    /\ s.rule_index \in Count => s.data.paths \subseteq Since(scans, s)
    /\ s.rule_index \in Traversal => s.data.paths \subseteq Since(visits, s)

\* After the last report and its cooldown.
Watching(r, at) == told[r] = -1 \/ (at > told[r] /\ at >= told[r] + cooldown_ns[r])

Relevant(r, at) == at >= now - timeout_ns[r] /\ Watching(r, at)

Of(r) == {s \in matches : s.rule_index = r}

Few(P, n) == P \subseteq Paths /\ IsFiniteSet(P) /\ Cardinality(P) < n

\* What the match under way has not counted was counted by the last one.
Scanned(r, P) ==
  \A v \in scans : Relevant(r, v.at) =>
    \/ \E s \in Of(r) : v.path \in s.data.paths
    \/ v.path \in P /\ \A s \in Of(r) : v.at <= s.start_time_ns

ScansCounted == \A r \in Count : \E P \in SUBSET Paths : Few(P, Threshold) /\ Scanned(r, P)

Visited(r, P) ==
  \A v \in visits : v.began # -1 /\ Relevant(r, v.began) =>
    \/ \E s \in Of(r) : v.path \in s.data.paths
    \/ v.path \in P /\ \A s \in Of(r) : v.began <= s.start_time_ns

Awaited(r) ==
  fresh # NoneFresh => \A s \in Of(r) :
    s.current_state_index = 1 /\ s.data.fd = fresh.fd /\ s.start_time_ns <= fresh.at

VisitsCounted ==
  \A r \in Traversal :
    /\ Awaited(r)
    /\ \E P \in SUBSET Paths :
         /\ Few(P, Threshold + 1) /\ Visited(r, P)
         /\ fresh # NoneFresh /\ Relevant(r, fresh.at) /\ Of(r) = {} => Few(P, Threshold)

\* What is left of the matches after event e, and those it completes.
Last(r) == Transitions[Kind[r]]
Expired(s) == now - s.start_time_ns > timeout_ns[s.rule_index]
Outcome(s, e) == Step(s.rule_index, s.current_state_index, s.data, e)
First(r, e) == Step(r, 0, NoData, e)

Stays(s, e) == ~Expired(s) /\ Outcome(s, e).next # Last(s.rule_index)
Finishes(s, e) == ~Expired(s) /\ Outcome(s, e).next = Last(s.rule_index)

Moved(s, e) ==
  [s EXCEPT !.data = Outcome(s, e).data,
            !.current_state_index = IF Outcome(s, e).next \in 0 .. Last(s.rule_index) - 1
                                    THEN Outcome(s, e).next ELSE @]

\* t began with event e.
Began(t, e) ==
  /\ t.rule_index \in Rules /\ t.id \in Nat
  /\ t = [id |-> t.id, pid |-> Pid, rule_index |-> t.rule_index,
          current_state_index |-> First(t.rule_index, e).next,
          data |-> First(t.rule_index, e).data, start_time_ns |-> now]
  /\ First(t.rule_index, e).next \in 0 .. Last(t.rule_index) - 1
  /\ t.rule_index \in ReadDb => t.id = detection_state_count
  /\ t.rule_index \notin ReadDb =>
       /\ \A s \in matches : Stays(s, e) => s.rule_index # t.rule_index
       /\ now >= cooldown_until[Pid][t.rule_index]

Reporting(r) == \E d \in detected' : d.rule_index = r

\* What event e does to the matches.
Judged(e) ==
  /\ \A t \in matches' : (\E s \in matches : Stays(s, e) /\ t = Moved(s, e)) \/ Began(t, e)
  /\ \A s \in matches : Stays(s, e) => Moved(s, e) \in matches'
  /\ \A t, u \in matches' : Began(t, e) /\ Began(u, e) /\ t.rule_index = u.rule_index => t = u
  /\ \A r \in Rules :
       /\ First(r, e).next \in 0 .. Last(r) - 1
       /\ r \in ReadDb \/ \A s \in matches : Stays(s, e) => s.rule_index # r
       /\ now >= cooldown_until[Pid][r] /\ (cooldown_ns[r] <= 0 \/ ~Reporting(r))
       => \E t \in matches' : t.rule_index = r /\ Began(t, e)

\* What it makes the rules report.
Reports(e) ==
  /\ \A d \in detected' :
       \/ \E s \in matches : /\ Finishes(s, e) /\ d.id = s.id /\ d.rule_index = s.rule_index
                             /\ d.start_time_ns = s.start_time_ns
       \/ /\ d.rule_index \in Rules /\ d.start_time_ns = now
          /\ First(d.rule_index, e).next = Last(d.rule_index)
  /\ \A s \in matches : Finishes(s, e) =>
       \E d \in detected' : d.id = s.id /\ d.rule_index = s.rule_index
  /\ \A r \in Rules :
       /\ First(r, e).next = Last(r)
       /\ \A s \in matches : Stays(s, e) => s.rule_index # r
       /\ now >= cooldown_until[Pid][r]
       => Reporting(r)

\* What it does to the cooldowns and to the counter of ids.
Counts(e) ==
  /\ cooldown_until' \in [{Pid} -> [Rules -> Nat]]
  /\ \A r \in Rules :
       \/ /\ Reporting(r) /\ cooldown_ns[r] > 0
          /\ cooldown_until'[Pid][r] = now + cooldown_ns[r]
       \/ /\ ~(Reporting(r) /\ cooldown_ns[r] > 0)
          /\ cooldown_until'[Pid][r] \in {0, cooldown_until[Pid][r]}
  /\ detection_state_count' \in Nat /\ detection_state_count' >= detection_state_count
  /\ \A t \in matches' : Began(t, e) => t.id < detection_state_count'

\* The exit of a call that was recorded.
Exit(e) ==
  /\ e \in Event /\ e.pid = Pid /\ e.timestamp_ns = now /\ e.call = current
  /\ Judged(e) /\ Reports(e) /\ Counts(e)
  /\ tracked_pids' = [tracked_pids EXCEPT ![Pid] = e]
  /\ from_shell_pids' = {} /\ allow_pids' = {} /\ detection_started' = FALSE
  /\ now' = now /\ told' = Reported
  /\ \/ e.retval = -1 /\ UNCHANGED <<file, opened, scans, visits, fresh>>
     \/ /\ e.retval \in Results(e.call)
        /\ file' = file_after(e.call, e.retval) /\ note(e.call, e.retval)

\* Everything else: an entry is recorded, time passes, or nothing happens.
Idle ==
  /\ UNCHANGED <<from_shell_pids, allow_pids, active_detection_states, cooldown_until,
                 detection_state_count, detection_started, file, opened, scans, visits,
                 fresh, told>>
  /\ \/ /\ now' = now
        /\ \E c \in Calls, e \in Event :
             /\ e.call = c /\ e.retval = NoRet
             /\ tracked_pids' = [tracked_pids EXCEPT ![Pid] = e]
     \/ now' = now + 1 /\ now < MaxTime /\ UNCHANGED tracked_pids
     \/ UNCHANGED <<now, tracked_pids>>

-----------------------------------------------------------------------------
(* The constants.                                                          *)

LEMMA Sizes ==
  /\ MaxFd \in Nat /\ Chunk \in Nat /\ MaxTime \in Nat
  /\ Large \in Nat /\ Large > 0 /\ Threshold \in Nat /\ Threshold > 0
  BY ProcessAssumption, PathsAssumption

LEMMA RulesAre ==
  /\ Cardinality(Rules) \in Nat /\ Engine!Rules = Rules /\ Rules \subseteq Nat
  /\ \A r \in Rules : /\ timeout_ns[r] \in Nat /\ cooldown_ns[r] \in Int
                      /\ Last(r) \in 1 .. 3
                      /\ r \in ReadDb => r = 0 /\ cooldown_ns[r] <= 0 /\ Last(r) = 3
                      /\ r \in Traversal => Last(r) = 2
                      /\ r \in Count => Last(r) = 1
                      /\ r \in ReadDb \/ r \in Traversal \/ r \in Count
  /\ ReadDb \subseteq Rules /\ Traversal \subseteq Rules /\ Count \subseteq Rules
  /\ ReadDb \cap Traversal = {} /\ ReadDb \cap Count = {} /\ Traversal \cap Count = {}
<1>1. Cardinality(Rules) \in Nat
  BY FS_CardinalityType, KindAssumption
<1>2. Engine!Rules = Rules
  BY KindAssumption DEF Engine!Rules
<1>3. Rules \subseteq Nat
  BY <1>1, KindAssumption
<1>4. \A r \in Rules : Kind[r] \in {"read_db_large", "recursive_traversal", "path_openat_count"}
  BY KindAssumption DEF Transitions
<1>5. \A r \in Rules : /\ Kind[r] = "read_db_large" => Last(r) = 3
                       /\ Kind[r] = "recursive_traversal" => Last(r) = 2
                       /\ Kind[r] = "path_openat_count" => Last(r) = 1
  BY DEF Last, Transitions
<1>6. \A r \in Rules : timeout_ns[r] \in Nat /\ cooldown_ns[r] \in Int
  BY KindAssumption
<1>7. \A r \in ReadDb : r = 0 /\ cooldown_ns[r] <= 0
  BY KindAssumption DEF ReadDb
<1>8. \A r \in Rules : Last(r) \in 1 .. 3
  BY <1>4, <1>5
<1> QED
  BY <1>1, <1>2, <1>3, <1>4, <1>5, <1>6, <1>7, <1>8 DEF ReadDb, Traversal, Count

LEMMA CallIs ==
  ASSUME NEW c \in Calls
  PROVE  /\ c.op \in {"openat", "read", "copy_file_range", "close", "dup2", "getdents64"}
         /\ c.op = "openat" => c.path \in Paths /\ c.mode \in OpenModes
         /\ c.op \in {"read", "copy_file_range", "close", "dup2", "getdents64"} => c.fd \in Fds
         /\ c.op = "dup2" => c.newfd \in Fds
         /\ c.op = "getdents64" => c.path \in Paths
<1>1. CASE c \in [op : {"openat"}, path : Paths, mode : OpenModes]
  BY <1>1
<1>2. CASE c \in [op : Reads \cup {"close"}, fd : Fds]
  BY <1>2 DEF Reads
<1>3. CASE c \in [op : {"dup2"}, fd : Fds, newfd : Fds]
  BY <1>3
<1>4. CASE c \in [op : {"getdents64"}, fd : Fds, path : Paths]
  BY <1>4
<1> QED
  BY <1>1, <1>2, <1>3, <1>4 DEF Calls

LEMMA EventIs ==
  ASSUME NEW e \in Event
  PROVE  /\ e.call \in Calls /\ e.pid = Pid /\ e.timestamp_ns \in 0 .. MaxTime
         /\ e.retval \in Int \/ e.retval = NoRet
         /\ e \in Records /\ e # Untracked /\ e # NoEvent
<1>1. e \in Records
  BY Sizes DEF Event, Records
<1> QED
  BY <1>1, Sizes, ProcessAssumption DEF Event

LEMMA NatMin ==
  ASSUME NEW T, T \subseteq Nat, T # {}
  PROVE  \E x \in T : \A y \in T : x <= y
<1> DEFINE R == OpToRel(<, Nat)
<1>1. IsWellFoundedOn(R, Nat)
  BY NatLessThanWellFounded
<1>2. \A x, y \in Nat : y < x => <<y, x>> \in R
  BY DEF OpToRel
<1> HIDE DEF R
<1>3. PICK x \in T : \A y \in T : ~(<<y, x>> \in R)
  BY <1>1, WFMin
<1>4. ASSUME NEW y \in T PROVE x <= y
  <2>1. ~(y < x)
    BY <1>2, <1>3
  <2> QED
    BY <2>1
<1> QED
  BY <1>4

LEMMA LowestIs ==
  ASSUME NEW F, F \subseteq Fds, F # {}
  PROVE  Lowest(F) \in F
<1>1. F \subseteq Nat
  BY DEF Fds
<1>2. \E m \in F : \A other \in F : m <= other
  BY <1>1, NatMin
<1> QED
  BY <1>2 DEF Lowest

-----------------------------------------------------------------------------
(* What the engine does at an exit.                                        *)

\* Every event is inspected: no program is run, and detection needs no listen.
LEMMA ExitMatches ==
  ASSUME TablesOK, NEW ret \in -1 .. MaxFd + Chunk, Engine!has_event(Pid),
         Engine!handle_syscall_exit(Pid, ret)
  PROVE  \E e \in Event :
           /\ e.pid = Pid /\ e.timestamp_ns = now /\ e.call = current /\ e.retval = ret
           /\ Engine!match(e, cooldown_until)
           /\ tracked_pids' = [tracked_pids EXCEPT ![Pid] = e]
           /\ from_shell_pids' = {} /\ allow_pids' = {} /\ detection_started' = FALSE
           /\ now' = now
<1> DEFINE ev == [tracked_pids[Pid] EXCEPT !.retval = ret, !.timestamp_ns = now]
<1>1. tracked_pids[Pid] \in Event /\ now \in 0 .. MaxTime
  BY DEF TablesOK, Engine!has_event
<1>2. /\ ev \in Event /\ ev.pid = Pid /\ ev.timestamp_ns = now /\ ev.call = current
      /\ ev.retval = ret
  BY <1>1 DEF Event, current
<1>3. /\ Engine!process_event(ev, from_shell_pids, allow_pids, cooldown_until)
      /\ tracked_pids' = [tracked_pids EXCEPT ![Pid] = Engine!MarkShell(ev)]
      /\ now' = now
  BY DEF Engine!handle_syscall_exit
<1> HIDE DEF ev
<1>4. /\ Engine!ShellStarted(ev) = {} /\ Engine!AllowListed(ev) = {}
  BY DEF Engine!ShellStarted, Engine!AllowListed, Engine!ProgramRun
<1>5. Engine!MarkShell(ev) = ev
  <2>1. Engine!MarkShell(ev) = [ev EXCEPT !.from_shell = @ \/ FALSE]
    BY <1>4 DEF Engine!MarkShell
  <2>2. ev.from_shell \in BOOLEAN
    BY <1>2 DEF Event
  <2> QED
    BY <1>2, <2>1, <2>2 DEF Event
<1>6. Engine!Inspected(ev, allow_pids \cup Engine!AllowListed(ev))
  BY <1>4 DEF Engine!Inspected, TablesOK
<1>7. /\ Engine!match(ev, cooldown_until)
      /\ from_shell_pids' = {} /\ allow_pids' = {} /\ detection_started' = FALSE
  BY <1>3, <1>4, <1>5, <1>6 DEF Engine!process_event, TablesOK
<1> QED
  BY <1>2, <1>3, <1>5, <1>7

\* The engine's operators in the terms used here.
Left(e) == Engine!process_transition(matches, e)
Done(e) == Engine!Completed(matches, e)
After(e) == Engine!set_cooldown(cooldown_until, Done(e), Pid, now)

Judges(e) ==
  /\ e \in Event /\ e.pid = Pid /\ e.timestamp_ns = now
  /\ Engine!match(e, cooldown_until)

LEMMA MatchIs ==
  ASSUME TablesOK, NEW s \in matches
  PROVE  /\ s \in Engine!DetectionState /\ s.id \in Nat /\ s.pid = Pid /\ s.rule_index \in Rules
         /\ s.current_state_index \in Nat /\ s.start_time_ns \in Nat /\ s.start_time_ns <= now
         /\ s.current_state_index < Last(s.rule_index)
         /\ now \in Nat /\ s.id < detection_state_count
<1>1. MatchOK(s) /\ now \in 0 .. MaxTime
  BY DEF TablesOK
<1>2. s \in Engine!DetectionState /\ s.start_time_ns <= now /\ s.id < detection_state_count
  BY <1>1 DEF MatchOK
<1>3. /\ s.id \in Nat /\ s.pid = Pid /\ s.rule_index \in Rules
      /\ s.current_state_index \in Nat /\ s.start_time_ns \in Nat
  BY <1>2, RulesAre, Sizes DEF Engine!DetectionState, Engine!Time
<1>4. s.current_state_index < Last(s.rule_index)
  BY <1>1, <1>3, RulesAre DEF MatchOK
<1> QED
  BY <1>1, <1>2, <1>3, <1>4, Sizes

LEMMA RunsIs ==
  ASSUME TablesOK, NEW s \in matches, NEW e, e.pid = Pid, e.timestamp_ns = now
  PROVE  /\ Engine!Survives(s, e) <=> Stays(s, e)
         /\ Engine!Completes(s, e) <=> Finishes(s, e)
         /\ Stays(s, e) => Engine!Advance(s, e) = Moved(s, e)
<1>1. /\ s.rule_index \in Rules /\ s.pid = Pid /\ s.start_time_ns \in Nat
      /\ s.start_time_ns <= now /\ now \in Nat
  BY MatchIs
<1>2. timeout_ns[s.rule_index] \in Nat
  BY <1>1, RulesAre
<1>3. Engine!TimedOut(s, now) <=> Expired(s)
  BY <1>1, <1>2 DEF Engine!TimedOut, Expired
<1>4. [r \in Rules |-> Transitions[Kind[r]]][s.rule_index] = Last(s.rule_index)
  BY <1>1 DEF Last
<1>5. Engine!Result(s, e) = Outcome(s, e)
  BY DEF Engine!Result, Outcome
<1>6. Engine!Runs(s, e) <=> ~Expired(s)
  BY <1>1, <1>3 DEF Engine!Runs
<1>7. Engine!Completes(s, e) <=> Finishes(s, e)
  BY <1>4, <1>5, <1>6 DEF Engine!Completes, Finishes
<1>8. Engine!Survives(s, e) <=> Stays(s, e)
  BY <1>3, <1>7 DEF Engine!Survives, Stays, Finishes
<1>9. Stays(s, e) => Engine!Advance(s, e) = Moved(s, e)
  BY <1>4, <1>5, <1>6 DEF Stays, Moved, Engine!Advance
<1> QED
  BY <1>7, <1>8, <1>9

LEMMA LeftIs ==
  ASSUME TablesOK, NEW e, e.pid = Pid, e.timestamp_ns = now
  PROVE  /\ \A t : t \in Left(e) <=> \E s \in matches : Stays(s, e) /\ t = Moved(s, e)
         /\ \A s \in matches : /\ Moved(s, e).rule_index = s.rule_index
                               /\ Moved(s, e).pid = s.pid /\ Moved(s, e).id = s.id
                               /\ Moved(s, e).start_time_ns = s.start_time_ns
<1>1. ASSUME NEW s \in matches
      PROVE  /\ Moved(s, e).rule_index = s.rule_index
             /\ Moved(s, e).pid = s.pid /\ Moved(s, e).id = s.id
             /\ Moved(s, e).start_time_ns = s.start_time_ns
  BY MatchIs DEF Moved, Engine!DetectionState
<1>2. \A t : t \in Left(e) <=>
        \E s \in matches : Engine!Survives(s, e) /\ t = Engine!Advance(s, e)
  BY DEF Left, Engine!process_transition
<1> QED
  BY <1>1, <1>2, RunsIs

\* Rule r begins a match with event e, if its first transition says so.
Begins(r, e) ==
  /\ r \in ReadDb \/ \A s \in matches : Stays(s, e) => s.rule_index # r
  /\ now >= After(e)[Pid][r]

LEMMA AfterIs ==
  ASSUME TablesOK, NEW e
  PROVE  /\ \A r \in Rules : After(e)[Pid][r] =
              IF cooldown_ns[r] > 0 /\ \E d \in Done(e) : d.rule_index = r
              THEN now + cooldown_ns[r] ELSE cooldown_until[Pid][r]
         /\ After(e) \in [{Pid} -> [Rules -> Nat]]
<1>1. cooldown_until \in [{Pid} -> [Rules -> Nat]] /\ now \in Nat
  BY Sizes DEF TablesOK
<1>2. Engine!Rules = Rules /\ \A q \in Rules : cooldown_ns[q] \in Int
  BY RulesAre
<1> DEFINE row == [q \in Rules |-> IF cooldown_ns[q] > 0 /\ \E d \in Done(e) : d.rule_index = q
                                   THEN now + cooldown_ns[q] ELSE cooldown_until[Pid][q]]
<1>3. After(e) = [cooldown_until EXCEPT ![Pid] = row]
  BY <1>2 DEF After, Engine!set_cooldown
<1>4. row \in [Rules -> Nat]
  BY <1>1, <1>2
<1>5. \A r \in Rules : row[r] = IF cooldown_ns[r] > 0 /\ \E d \in Done(e) : d.rule_index = r
                                THEN now + cooldown_ns[r] ELSE cooldown_until[Pid][r]
  OBVIOUS
<1> HIDE DEF row
<1>6. After(e)[Pid] = row /\ After(e) \in [{Pid} -> [Rules -> Nat]]
  BY <1>1, <1>3, <1>4
<1> QED
  BY <1>5, <1>6

LEMMA StartedIs ==
  ASSUME TablesOK, NEW e, e.pid = Pid, e.timestamp_ns = now, NEW r \in Rules
  PROVE  /\ r \in Engine!Started(Left(e), After(e), e) <=> Begins(r, e)
         /\ r \in Engine!Stored(Left(e), After(e), e) <=>
              Begins(r, e) /\ First(r, e).next \in 0 .. Last(r) - 1
<1>1. Engine!has_active_state(Left(e), Pid, r) <=>
        \E s \in matches : Stays(s, e) /\ s.rule_index = r
  BY LeftIs, MatchIs DEF Engine!has_active_state
<1>2. Engine!in_cooldown(After(e), Pid, r, now) <=> ~(now >= After(e)[Pid][r])
  <2>1. now \in Nat /\ After(e)[Pid][r] \in Nat
    <3>1. After(e) \in [{Pid} -> [Rules -> Nat]]
      BY AfterIs
    <3>2. now \in 0 .. MaxTime
      BY DEF TablesOK
    <3> QED
      BY <3>1, <3>2, Sizes
  <2> QED
    BY <2>1 DEF Engine!in_cooldown
<1>3. [q \in Rules |-> Kind[q] # "read_db_large"][r] <=> r \notin ReadDb
  BY DEF ReadDb
<1>4. Engine!Rules = Rules /\ [q \in Rules |-> Transitions[Kind[q]]][r] = Last(r)
  BY RulesAre DEF Last
<1>5. r \in Engine!NotSuppressed(Left(e), Pid) <=>
        (r \in ReadDb \/ \A s \in matches : Stays(s, e) => s.rule_index # r)
  BY <1>1, <1>3, <1>4 DEF Engine!NotSuppressed
<1>6. r \in Engine!Started(Left(e), After(e), e) <=> Begins(r, e)
  BY <1>2, <1>5 DEF Engine!Started, Begins
<1>7. Engine!First(r, e) = First(r, e)
  BY DEF Engine!First, First
<1> QED
  BY <1>4, <1>6, <1>7 DEF Engine!Stored

LEMMA StoredRules ==
  ASSUME NEW e
  PROVE  LET K == Engine!Stored(Left(e), After(e), e)
         IN  K \subseteq Rules /\ IsFiniteSet(K) /\ Cardinality(K) \in Nat
<1> DEFINE K == Engine!Stored(Left(e), After(e), e)
<1>1. K \subseteq Rules
  BY RulesAre DEF Engine!Stored, Engine!Started, Engine!NotSuppressed
<1> HIDE DEF K
<1>2. IsFiniteSet(K) /\ Cardinality(K) \in Nat
  BY <1>1, FS_Subset, FS_CardinalityType, KindAssumption
<1> QED
  BY <1>1, <1>2 DEF K

LEMMA EngineCardinality ==
  ASSUME NEW S
  PROVE  Engine!Cardinality(S) = Cardinality(S)
  BY DEF Engine!Cardinality, Cardinality

\* The ids of a new match.
LEMMA NewIds ==
  ASSUME NEW n \in Nat, NEW K, K \subseteq Nat, IsFiniteSet(K), NEW r \in K
  PROVE  /\ Engine!NextId(n, r, K) \in Nat /\ Engine!NextId(n, r, K) < n + Cardinality(K)
         /\ r = 0 => Engine!NextId(n, r, K) = n
<1> DEFINE L == {j \in K : j < r}
<1>1. /\ IsFiniteSet(L) /\ L \subseteq K \ {r}
      /\ IsFiniteSet(K \ {r}) /\ Cardinality(K \ {r}) = Cardinality(K) - 1
  BY FS_Subset, FS_RemoveElement
<1>2. Cardinality(L) <= Cardinality(K \ {r}) /\ Cardinality(L) \in Nat /\ Cardinality(K) \in Nat
  BY <1>1, FS_Subset, FS_CardinalityType
<1>3. r = 0 => L = {}
  <2>1. \A j \in K : ~(j < 0)
    OBVIOUS
  <2> QED
    BY <2>1
<1>4. r = 0 => Cardinality(L) = 0
  BY <1>3, FS_EmptySet
<1>5. Engine!NextId(n, r, K) = n + Cardinality(L)
  BY EngineCardinality DEF Engine!NextId
<1> HIDE DEF L
<1> QED
  BY <1>1, <1>2, <1>4, <1>5

\* The parts of a match of event e with the rules.
LEMMA MatchParts ==
  ASSUME NEW e, Judges(e)
  PROVE  LET n == detection_state_count
             K == Engine!Stored(Left(e), After(e), e)
             immediate == Engine!Immediate(Left(e), After(e), e, n)
         IN  /\ matches' = Left(e) \cup Engine!NewStates(Left(e), After(e), e, n)
             /\ detection_state_count' = n + Cardinality(K)
             /\ detected' = Done(e) \cup immediate
             /\ cooldown_until' =
                  Engine!set_cooldown(
                    Engine!erase_expired(After(e), Pid, Engine!NotSuppressed(Left(e), Pid), now),
                    immediate, Pid, now)
  BY EngineCardinality
     DEF Judges, Engine!match, Engine!process_first_transition, Left, Done, After, matches

LEMMA ReportsFrom ==
  ASSUME TablesOK, NEW e, Judges(e)
  PROVE  /\ \A d \in Done(e) : \E s \in matches :
              /\ Finishes(s, e) /\ d.id = s.id /\ d.rule_index = s.rule_index
              /\ d.start_time_ns = s.start_time_ns
         /\ \A s \in matches : Finishes(s, e) =>
              \E d \in Done(e) : d.id = s.id /\ d.rule_index = s.rule_index
         /\ \A d \in Engine!Immediate(Left(e), After(e), e, detection_state_count) :
              /\ d.rule_index \in Rules /\ d.start_time_ns = now
              /\ Begins(d.rule_index, e) /\ First(d.rule_index, e).next = Last(d.rule_index)
         /\ \A r \in Rules : Begins(r, e) /\ First(r, e).next = Last(r) =>
              \E d \in Engine!Immediate(Left(e), After(e), e, detection_state_count) :
                d.rule_index = r
<1>1. e.pid = Pid /\ e.timestamp_ns = now
  BY DEF Judges
<1>2. ASSUME NEW d \in Done(e)
      PROVE  \E s \in matches :
               /\ Finishes(s, e) /\ d.id = s.id /\ d.rule_index = s.rule_index
               /\ d.start_time_ns = s.start_time_ns
  <2>1. PICK s \in matches : Engine!Completes(s, e) /\ d = Engine!Report(s.id, s.pid, s.rule_index, s.start_time_ns)
    BY <1>2 DEF Done, Engine!Completed
  <2> QED
    BY <1>1, <2>1, RunsIs DEF Engine!Report
<1>3. ASSUME NEW s \in matches, Finishes(s, e)
      PROVE  \E d \in Done(e) : d.id = s.id /\ d.rule_index = s.rule_index
  <2>1. Engine!Completes(s, e)
    BY <1>1, <1>3, RunsIs
  <2>2. Engine!Report(s.id, s.pid, s.rule_index, s.start_time_ns) \in Done(e)
    BY <2>1 DEF Done, Engine!Completed
  <2> QED
    BY <2>2 DEF Engine!Report
<1> DEFINE n == detection_state_count
           K == Engine!Stored(Left(e), After(e), e)
           report(q) == Engine!Report(Engine!NextId(n, q, K), Pid, q, now)
<1>4. \A d : d \in Engine!Immediate(Left(e), After(e), e, n) <=>
        \E q \in Rules : /\ q \in Engine!Started(Left(e), After(e), e)
                         /\ First(q, e).next = Last(q) /\ d = report(q)
  <2>1. \A q \in Rules : [r \in Rules |-> Transitions[Kind[r]]][q] = Last(q)
    BY DEF Last
  <2>2. Engine!Started(Left(e), After(e), e) \subseteq Rules
    BY RulesAre DEF Engine!Started, Engine!NotSuppressed
  <2>3. \A q : Engine!First(q, e) = First(q, e)
    BY DEF Engine!First, First
  <2> QED
    BY <1>1, <2>1, <2>2, <2>3 DEF Engine!Immediate
<1>5. \A q : report(q).rule_index = q /\ report(q).start_time_ns = now
  BY DEF Engine!Report
<1> HIDE DEF report, n
<1>6. \A q \in Rules : q \in Engine!Started(Left(e), After(e), e) <=> Begins(q, e)
  BY <1>1, StartedIs
<1>7. \A d \in Engine!Immediate(Left(e), After(e), e, n) :
        /\ d.rule_index \in Rules /\ d.start_time_ns = now
        /\ Begins(d.rule_index, e) /\ First(d.rule_index, e).next = Last(d.rule_index)
  BY <1>4, <1>5, <1>6
<1>8. \A r \in Rules : Begins(r, e) /\ First(r, e).next = Last(r) =>
        \E d \in Engine!Immediate(Left(e), After(e), e, n) : d.rule_index = r
  BY <1>4, <1>5, <1>6
<1> QED
  BY <1>2, <1>3, <1>7, <1>8 DEF n

LEMMA NewFrom ==
  ASSUME TablesOK, NEW e, Judges(e)
  PROVE  LET new == Engine!NewStates(Left(e), After(e), e, detection_state_count)
         IN  /\ \A t \in new : Began(t, e) /\ t.id < detection_state_count'
             /\ \A t, u \in new : t.rule_index = u.rule_index => t = u
             /\ \A r \in Rules : Begins(r, e) /\ First(r, e).next \in 0 .. Last(r) - 1 =>
                  \E t \in new : t.rule_index = r
<1>1. e.pid = Pid /\ e.timestamp_ns = now
  BY DEF Judges
<1> DEFINE n == detection_state_count
           K == Engine!Stored(Left(e), After(e), e)
           new == Engine!NewStates(Left(e), After(e), e, n)
           state(q) == [id |-> Engine!NextId(n, q, K), pid |-> Pid, rule_index |-> q,
                        current_state_index |-> First(q, e).next,
                        data |-> First(q, e).data, start_time_ns |-> now]
<1>2. new = {state(q) : q \in K}
  BY <1>1 DEF Engine!NewStates, Engine!First, First
<1>3. K \subseteq Rules /\ IsFiniteSet(K) /\ detection_state_count' = n + Cardinality(K)
  BY StoredRules, MatchParts
<1>4. n \in Nat /\ now \in Nat
  BY Sizes DEF TablesOK
<1>5. \A q \in K : Begins(q, e) /\ First(q, e).next \in 0 .. Last(q) - 1
  BY <1>1, <1>3, StartedIs
<1>6. \A q \in K : /\ Engine!NextId(n, q, K) \in Nat
                   /\ Engine!NextId(n, q, K) < detection_state_count'
                   /\ q \in ReadDb => Engine!NextId(n, q, K) = n
  <2> TAKE q \in K
  <2>1. K \subseteq Nat /\ (q \in ReadDb => q = 0)
    BY <1>3, RulesAre
  <2> HIDE DEF K
  <2> QED
    BY <1>3, <1>4, <2>1, NewIds
<1> HIDE DEF n, K
<1>7. \A q \in K : now >= cooldown_until[Pid][q]
  <2> TAKE q \in K
  <2>1. q \in Rules /\ now >= After(e)[Pid][q] /\ cooldown_ns[q] \in Int
    BY <1>3, <1>5, RulesAre DEF Begins
  <2>2. After(e)[Pid][q] = IF cooldown_ns[q] > 0 /\ \E d \in Done(e) : d.rule_index = q
                           THEN now + cooldown_ns[q] ELSE cooldown_until[Pid][q]
    BY <2>1, AfterIs
  <2> QED
    BY <1>4, <2>1, <2>2
<1>8. ASSUME NEW q \in K
      PROVE  Began(state(q), e) /\ state(q).id < detection_state_count' /\ state(q).rule_index = q
  <2>1. /\ state(q).rule_index = q /\ state(q).id = Engine!NextId(n, q, K)
        /\ state(q) = [id |-> state(q).id, pid |-> Pid, rule_index |-> q,
                       current_state_index |-> First(q, e).next,
                       data |-> First(q, e).data, start_time_ns |-> now]
    OBVIOUS
  <2> HIDE DEF state
  <2>2. q \in Rules /\ Begins(q, e) /\ First(q, e).next \in 0 .. Last(q) - 1
    BY <1>3, <1>5
  <2>3. q \notin ReadDb => \A s \in matches : Stays(s, e) => s.rule_index # q
    BY <2>2 DEF Begins
  <2> QED
    BY <1>6, <1>7, <2>1, <2>2, <2>3 DEF Began, n
<1> HIDE DEF state, new
<1>9. \A t \in new : Began(t, e) /\ t.id < detection_state_count'
  BY <1>2, <1>8
<1>10. \A t, u \in new : t.rule_index = u.rule_index => t = u
  BY <1>2, <1>8
<1>11. \A r \in Rules : Begins(r, e) /\ First(r, e).next \in 0 .. Last(r) - 1 =>
         \E t \in new : t.rule_index = r
  <2> TAKE r \in Rules
  <2> HAVE Begins(r, e) /\ First(r, e).next \in 0 .. Last(r) - 1
  <2>1. r \in K
    BY <1>1, StartedIs DEF K
  <2> QED
    BY <1>2, <1>8, <2>1
<1> QED
  BY <1>9, <1>10, <1>11 DEF new, n

LEMMA Judging ==
  ASSUME TablesOK, NEW e, Judges(e)
  PROVE  Judged(e) /\ Reports(e)
<1> DEFINE new == Engine!NewStates(Left(e), After(e), e, detection_state_count)
           immediate == Engine!Immediate(Left(e), After(e), e, detection_state_count)
<1>1. e.pid = Pid /\ e.timestamp_ns = now
  BY DEF Judges
<1>2. matches' = Left(e) \cup new /\ detected' = Done(e) \cup immediate
  BY MatchParts
<1>3. /\ \A t \in new : Began(t, e)
      /\ \A t, u \in new : t.rule_index = u.rule_index => t = u
      /\ \A r \in Rules : Begins(r, e) /\ First(r, e).next \in 0 .. Last(r) - 1 =>
           \E t \in new : t.rule_index = r
  BY NewFrom
<1>4. \A t : t \in Left(e) <=> \E s \in matches : Stays(s, e) /\ t = Moved(s, e)
  BY <1>1, LeftIs
<1>5. /\ \A d \in Done(e) : \E s \in matches :
           /\ Finishes(s, e) /\ d.id = s.id /\ d.rule_index = s.rule_index
           /\ d.start_time_ns = s.start_time_ns
      /\ \A s \in matches : Finishes(s, e) =>
           \E d \in Done(e) : d.id = s.id /\ d.rule_index = s.rule_index
      /\ \A d \in immediate :
           /\ d.rule_index \in Rules /\ d.start_time_ns = now
           /\ Begins(d.rule_index, e) /\ First(d.rule_index, e).next = Last(d.rule_index)
      /\ \A r \in Rules : Begins(r, e) /\ First(r, e).next = Last(r) =>
           \E d \in immediate : d.rule_index = r
  BY ReportsFrom
<1> HIDE DEF new, immediate
<1>6. ASSUME NEW r \in Rules, now >= cooldown_until[Pid][r], cooldown_ns[r] <= 0 \/ ~\E d \in Done(e) : d.rule_index = r
      PROVE  now >= After(e)[Pid][r]
  <2>1. cooldown_ns[r] \in Int
    BY RulesAre
  <2> QED
    BY <1>6, <2>1, AfterIs
<1>7. ASSUME NEW t \in matches', NEW u \in matches', Began(t, e), Began(u, e),
             t.rule_index = u.rule_index
      PROVE  t = u
  <2>1. CASE t.rule_index \in ReadDb
    <3>1. t.id = u.id
      BY <1>7, <2>1 DEF Began
    <3> QED
      BY <1>7, <3>1 DEF Began
  <2>2. CASE t.rule_index \notin ReadDb
    <3>1. \A s \in matches : Stays(s, e) => Moved(s, e).rule_index # t.rule_index
      BY <1>1, <1>7, <2>2, LeftIs DEF Began
    <3>2. t \in new /\ u \in new
      BY <1>2, <1>4, <1>7, <3>1
    <3> QED
      BY <1>3, <1>7, <3>2
  <2> QED
    BY <2>1, <2>2
<1>8. ASSUME NEW r \in Rules, First(r, e).next \in 0 .. Last(r) - 1,
             r \in ReadDb \/ \A s \in matches : Stays(s, e) => s.rule_index # r,
             now >= cooldown_until[Pid][r], cooldown_ns[r] <= 0 \/ ~Reporting(r)
      PROVE  \E t \in matches' : t.rule_index = r /\ Began(t, e)
  <2>1. Begins(r, e)
    BY <1>2, <1>6, <1>8 DEF Begins, Reporting
  <2> QED
    BY <1>2, <1>3, <1>8, <2>1
<1>9. Judged(e)
  BY <1>2, <1>3, <1>4, <1>7, <1>8 DEF Judged
<1>10. ASSUME NEW r \in Rules, First(r, e).next = Last(r),
              \A s \in matches : Stays(s, e) => s.rule_index # r,
              now >= cooldown_until[Pid][r], ~Reporting(r)
       PROVE  FALSE
  <2>1. Begins(r, e)
    BY <1>2, <1>6, <1>10 DEF Begins, Reporting
  <2> QED
    BY <1>2, <1>5, <1>10, <2>1 DEF Reporting
<1>11. Reports(e)
  BY <1>2, <1>5, <1>10 DEF Reports
<1> QED
  BY <1>9, <1>11


LEMMA CooldownParts ==
  ASSUME TablesOK, NEW e, Judges(e)
  PROVE  /\ cooldown_until' \in [{Pid} -> [Rules -> Nat]]
         /\ \A r \in Rules :
            IF cooldown_ns[r] > 0 /\ \E d \in Engine!Immediate(Left(e), After(e), e, detection_state_count) : d.rule_index = r
            THEN cooldown_until'[Pid][r] = now + cooldown_ns[r]
            ELSE \/ cooldown_until'[Pid][r] = After(e)[Pid][r]
                 \/ After(e)[Pid][r] <= now /\ cooldown_until'[Pid][r] = 0
<1> DEFINE immediate == Engine!Immediate(Left(e), After(e), e, detection_state_count)
           kept == Engine!NotSuppressed(Left(e), Pid)
           old == After(e)
           line == [q \in Rules |-> IF q \in kept /\ old[Pid][q] <= now THEN 0 ELSE old[Pid][q]]
           mid == [old EXCEPT ![Pid] = line]
           row == [q \in Rules |-> IF cooldown_ns[q] > 0 /\ \E d \in immediate : d.rule_index = q
                                   THEN now + cooldown_ns[q] ELSE mid[Pid][q]]
<1>1. Engine!Rules = Rules /\ \A q \in Rules : cooldown_ns[q] \in Int
  BY RulesAre
<1>2. now \in Nat
  BY Sizes DEF TablesOK
<1>3. old \in [{Pid} -> [Rules -> Nat]]
  BY AfterIs
<1>4. mid = Engine!erase_expired(old, Pid, kept, now)
  BY <1>1 DEF Engine!erase_expired
<1>5. cooldown_until' = Engine!set_cooldown(mid, immediate, Pid, now)
  BY <1>4, MatchParts
<1> HIDE DEF immediate, kept, old
<1>6. line \in [Rules -> Nat]
  BY <1>3
<1>7. \A r \in Rules : line[r] = old[Pid][r] \/ (old[Pid][r] <= now /\ line[r] = 0)
  BY <1>3
<1> HIDE DEF line
<1>8. mid[Pid] = line /\ mid \in [{Pid} -> [Rules -> Nat]]
  BY <1>3, <1>6
<1> HIDE DEF mid
<1>9. cooldown_until' = [mid EXCEPT ![Pid] = row]
  BY <1>1, <1>5 DEF Engine!set_cooldown
<1>10. row \in [Rules -> Nat]
  BY <1>1, <1>2, <1>8
<1>11. \A r \in Rules : row[r] = IF cooldown_ns[r] > 0 /\ \E d \in immediate : d.rule_index = r
                                 THEN now + cooldown_ns[r] ELSE line[r]
  BY <1>8
<1> HIDE DEF row
<1>12. cooldown_until'[Pid] = row /\ cooldown_until' \in [{Pid} -> [Rules -> Nat]]
  BY <1>8, <1>9, <1>10
<1> QED
  BY <1>7, <1>11, <1>12 DEF immediate, old

LEMMA Counting ==
  ASSUME TablesOK, NEW e, Judges(e), Judged(e)
  PROVE  Counts(e)
<1> DEFINE n == detection_state_count
           new == Engine!NewStates(Left(e), After(e), e, n)
           immediate == Engine!Immediate(Left(e), After(e), e, n)
<1>1. e.pid = Pid /\ e.timestamp_ns = now
  BY DEF Judges
<1>2. /\ matches' = Left(e) \cup new /\ detected' = Done(e) \cup immediate
      /\ detection_state_count' = n + Cardinality(Engine!Stored(Left(e), After(e), e))
  BY MatchParts
<1>3. n \in Nat /\ now \in Nat
  BY Sizes DEF TablesOK
<1>4. detection_state_count' \in Nat /\ detection_state_count' >= detection_state_count
  BY <1>2, <1>3, StoredRules
<1>5. \A t \in new : t.id < detection_state_count'
  BY NewFrom
<1> HIDE DEF new, immediate
<1>6. ASSUME NEW t \in Left(e) PROVE t.id < detection_state_count'
  <2>1. PICK s \in matches : t = Moved(s, e)
    BY <1>1, LeftIs
  <2>2. t.id = s.id /\ s.id \in Nat /\ s.id < n
    BY <1>1, <2>1, LeftIs, MatchIs DEF n
  <2> QED
    BY <1>3, <1>4, <2>2
<1>7. \A t \in matches' : t.id < detection_state_count'
  BY <1>2, <1>5, <1>6
<1>8. ASSUME NEW r \in Rules
      PROVE  \/ /\ Reporting(r) /\ cooldown_ns[r] > 0
                /\ cooldown_until'[Pid][r] = now + cooldown_ns[r]
             \/ /\ ~(Reporting(r) /\ cooldown_ns[r] > 0)
                /\ cooldown_until'[Pid][r] \in {0, cooldown_until[Pid][r]}
  <2>1. cooldown_ns[r] \in Int
    BY RulesAre
  <2>2. Reporting(r) <=> (\E d \in Done(e) : d.rule_index = r) \/ (\E d \in immediate : d.rule_index = r)
    BY <1>2 DEF Reporting
  <2>3. IF cooldown_ns[r] > 0 /\ \E d \in immediate : d.rule_index = r
        THEN cooldown_until'[Pid][r] = now + cooldown_ns[r]
        ELSE \/ cooldown_until'[Pid][r] = After(e)[Pid][r]
             \/ After(e)[Pid][r] <= now /\ cooldown_until'[Pid][r] = 0
    BY CooldownParts DEF immediate, n
  <2>4. After(e)[Pid][r] = IF cooldown_ns[r] > 0 /\ \E d \in Done(e) : d.rule_index = r
                           THEN now + cooldown_ns[r] ELSE cooldown_until[Pid][r]
    BY AfterIs
  <2>5. CASE \E d \in immediate : d.rule_index = r
    BY <2>1, <2>2, <2>3, <2>4, <2>5
  <2>6. CASE (\E d \in Done(e) : d.rule_index = r) /\ ~(\E d \in immediate : d.rule_index = r)
    <3>1. CASE cooldown_ns[r] > 0
      <4>1. After(e)[Pid][r] = now + cooldown_ns[r] /\ ~(now + cooldown_ns[r] <= now)
        BY <1>3, <2>1, <2>4, <2>6, <3>1
      <4> QED
        BY <2>2, <2>3, <2>6, <3>1, <4>1
    <3>2. CASE ~(cooldown_ns[r] > 0)
      BY <2>3, <2>4, <3>2
    <3> QED
      BY <3>1, <3>2
  <2>7. CASE ~(\E d \in Done(e) : d.rule_index = r) /\ ~(\E d \in immediate : d.rule_index = r)
    BY <2>2, <2>3, <2>4, <2>7
  <2> QED
    BY <2>5, <2>6, <2>7
<1>9. cooldown_until' \in [{Pid} -> [Rules -> Nat]]
  BY CooldownParts
<1> QED
  BY <1>4, <1>7, <1>8, <1>9 DEF Counts


LEMMA Exiting ==
  ASSUME TablesOK, NEW ret \in -1 .. MaxFd + Chunk, Engine!has_event(Pid),
         Engine!handle_syscall_exit(Pid, ret)
  PROVE  \E e \in Event :
           /\ e.pid = Pid /\ e.timestamp_ns = now /\ e.call = current /\ e.retval = ret
           /\ Judged(e) /\ Reports(e) /\ Counts(e)
           /\ tracked_pids' = [tracked_pids EXCEPT ![Pid] = e]
           /\ from_shell_pids' = {} /\ allow_pids' = {} /\ detection_started' = FALSE
           /\ now' = now
<1>1. PICK e \in Event :
        /\ e.pid = Pid /\ e.timestamp_ns = now /\ e.call = current /\ e.retval = ret
        /\ Engine!match(e, cooldown_until)
        /\ tracked_pids' = [tracked_pids EXCEPT ![Pid] = e]
        /\ from_shell_pids' = {} /\ allow_pids' = {} /\ detection_started' = FALSE
        /\ now' = now
  BY ExitMatches
<1>2. Judges(e)
  BY <1>1 DEF Judges
<1>3. Judged(e) /\ Reports(e)
  BY <1>2, Judging
<1>4. Counts(e)
  BY <1>2, <1>3, Counting
<1> QED
  BY <1>1, <1>3, <1>4

\* Every step is the exit of a recorded call or leaves the matches alone.
LEMMA Steps ==
  ASSUME TablesOK, FileNext
  PROVE  (Idle /\ detected' = {}) \/ \E e : Exit(e)
<1>1. /\ tracked_pids[Pid] \in Event \cup {NoEvent} /\ now \in 0 .. MaxTime
      /\ from_shell_pids = {}
  BY DEF TablesOK
<1>2. tracked_pids[Pid] # Untracked
  <2>1. \A e \in Event : e # Untracked
    BY EventIs
  <2> QED
    BY <1>1, <2>1, ProcessAssumption
<1>3. ASSUME NEW c \in Calls, Enter(c) PROVE Idle /\ detected' = {}
  <2>1. Engine!handle_syscall_entry(Pid, c) /\ UNCHANGED <<file, opened, scans, visits, fresh, told>>
    BY <1>3 DEF Enter
  <2> DEFINE ev == [call |-> c, pid |-> Pid, retval |-> NoRet,
                    from_shell |-> Pid \in from_shell_pids, timestamp_ns |-> now]
  <2>2. /\ tracked_pids' = [tracked_pids EXCEPT ![Pid] = ev]
        /\ UNCHANGED <<from_shell_pids, allow_pids, now>> /\ UNCHANGED Engine!tables
        /\ detected' = {}
    BY <1>2, <2>1 DEF Engine!handle_syscall_entry, Engine!is_tracked, Engine!no_event
  <2>3. (Pid \in from_shell_pids) = FALSE
    BY <1>1
  <2>4. ev \in Event /\ ev.call = c /\ ev.retval = NoRet
    BY <1>1, <2>3 DEF Event
  <2> HIDE DEF ev
  <2> QED
    BY <2>1, <2>2, <2>4 DEF Idle, Engine!tables
<1>4. ASSUME NEW ret \in 0 .. MaxFd + Chunk, Succeed(ret) PROVE \E e : Exit(e)
  <2>1. /\ Engine!has_event(Pid) /\ ret \in Results(current)
        /\ Engine!handle_syscall_exit(Pid, ret)
        /\ file' = file_after(current, ret) /\ note(current, ret) /\ told' = Reported
    BY <1>4 DEF Succeed, in_call
  <2>2. ret \in -1 .. MaxFd + Chunk
    BY Sizes
  <2>3. PICK e \in Event :
           /\ e.pid = Pid /\ e.timestamp_ns = now /\ e.call = current /\ e.retval = ret
           /\ Judged(e) /\ Reports(e) /\ Counts(e)
           /\ tracked_pids' = [tracked_pids EXCEPT ![Pid] = e]
           /\ from_shell_pids' = {} /\ allow_pids' = {} /\ detection_started' = FALSE
           /\ now' = now
    BY <2>1, <2>2, Exiting
  <2> QED
    BY <2>1, <2>3 DEF Exit
<1>5. ASSUME Fail PROVE \E e : Exit(e)
  <2>1. /\ Engine!has_event(Pid) /\ Engine!handle_syscall_exit(Pid, -1) /\ told' = Reported
        /\ UNCHANGED <<file, opened, scans, visits, fresh>>
    BY <1>5 DEF Fail, in_call
  <2>2. -1 \in -1 .. MaxFd + Chunk
    BY Sizes
  <2>3. PICK e \in Event :
           /\ e.pid = Pid /\ e.timestamp_ns = now /\ e.call = current /\ e.retval = -1
           /\ Judged(e) /\ Reports(e) /\ Counts(e)
           /\ tracked_pids' = [tracked_pids EXCEPT ![Pid] = e]
           /\ from_shell_pids' = {} /\ allow_pids' = {} /\ detection_started' = FALSE
           /\ now' = now
    BY <2>1, <2>2, Exiting
  <2> QED
    BY <2>1, <2>3 DEF Exit
<1>6. ASSUME Clock PROVE Idle /\ detected' = {}
  BY <1>6 DEF Clock, Engine!Tick, Engine!tables, Engine!no_event, history, Idle
<1> QED
  BY <1>3, <1>4, <1>5, <1>6 DEF FileNext

\* What a call that succeeded returned.
LEMMA ResultIs ==
  ASSUME TablesOK, NEW c \in Calls, NEW ret \in Results(c)
  PROVE  /\ ret \in Nat
         /\ c.op = "openat" => ret \in Fds /\ ~IsOpen(ret)
         /\ c.op = "dup2" => ret = c.newfd /\ IsOpen(c.fd)
         /\ c.op = "close" => ret = 0 /\ IsOpen(c.fd)
         /\ c.op \in Reads => IsOpen(c.fd)
<1>1. /\ c.op \in {"openat", "read", "copy_file_range", "close", "dup2", "getdents64"}
      /\ c.op = "dup2" => c.newfd \in Fds
  BY CallIs
<1>2. Fds \subseteq Nat /\ 0 .. Chunk \subseteq Nat
  BY DEF Fds
<1>3. CASE c.op = "openat"
  <2>1. Free # {} /\ ret = Lowest(Free)
    BY <1>3 DEF Results, Reads
  <2>2. Lowest(Free) \in Free
    BY <2>1, LowestIs DEF Free
  <2> QED
    BY <1>2, <1>3, <2>1, <2>2 DEF Free, Reads
<1>4. CASE c.op \in {"read", "copy_file_range"}
  BY <1>2, <1>4 DEF Results, Reads
<1>5. CASE c.op = "dup2"
  BY <1>1, <1>2, <1>5 DEF Results, Reads
<1>6. CASE c.op = "close"
  BY <1>6 DEF Results, Reads
<1>7. CASE c.op = "getdents64"
  BY <1>7 DEF Results, Reads
<1> QED
  BY <1>1, <1>3, <1>4, <1>5, <1>6, <1>7


-----------------------------------------------------------------------------
(* The transition functions.                                               *)

Opens(e) == e.call.op = "openat" /\ e.retval >= 0 /\ e.call.mode # "write" /\ e.call.path \in Db

Uses(s, e) == e.call.op \in Reads /\ e.retval > 0 /\ e.call.fd = s.data.fd

Duplicates(s, e) == e.call.op = "dup2" /\ e.retval >= 0 /\ e.call.fd = s.data.fd

Goes(s, e, k, d) == Outcome(s, e).next = k /\ Outcome(s, e).data = d

LEMMA DbStep ==
  ASSUME TablesOK, NEW s \in matches, s.rule_index \in ReadDb, NEW e \in Event, e.retval \in Int
  PROVE  /\ s.current_state_index \in {1, 2} /\ s.data.fd \in Fds /\ s.data.bytes \in 0 .. Large - 1
         /\ s.data = [fd |-> s.data.fd, bytes |-> s.data.bytes]
         /\ s.current_state_index = 1 /\ Duplicates(s, e) =>
              Goes(s, e, 2, [fd |-> e.call.newfd, bytes |-> s.data.bytes])
         /\ Uses(s, e) =>
              Goes(s, e, IF s.data.bytes + e.retval < Large THEN s.current_state_index ELSE 3,
                   [fd |-> s.data.fd, bytes |-> s.data.bytes + e.retval])
         /\ ~(s.current_state_index = 1 /\ Duplicates(s, e)) /\ ~Uses(s, e) =>
              Goes(s, e, -1, s.data)
<1>1. s.rule_index \in Rules /\ Kind[s.rule_index] = "read_db_large"
  BY MatchIs DEF ReadDb
<1>2. s.current_state_index \in {1, 2} /\ s.data \in [fd : Fds, bytes : 0 .. Large - 1]
  BY DEF TablesOK, MatchOK
<1>3. Outcome(s, e) = read_db_large(s.current_state_index, s.data, e)
  BY <1>1 DEF Outcome, Step
<1>4. s.current_state_index = 1 => Outcome(s, e) = step_read_db_large(1, s.data, e)
  BY <1>3 DEF read_db_large
<1>5. s.current_state_index = 2 => Outcome(s, e) = step_read_db_large_dup2(2, s.data, e)
  BY <1>3 DEF read_db_large
<1>6. Duplicates(s, e) => ~Uses(s, e)
  BY DEF Duplicates, Uses, Reads
<1>7. CASE s.current_state_index = 1
  <2>1. CASE Duplicates(s, e)
    BY <1>2, <1>4, <1>6, <1>7, <2>1 DEF step_read_db_large, Duplicates, Goes, Goto
  <2>2. CASE ~Duplicates(s, e) /\ Uses(s, e)
    BY <1>2, <1>4, <1>7, <2>2 DEF step_read_db_large, count_bytes, Duplicates, Uses, Goes, Goto
  <2>3. CASE ~Duplicates(s, e) /\ ~Uses(s, e)
    BY <1>2, <1>4, <1>7, <2>3
       DEF step_read_db_large, count_bytes, Duplicates, Uses, Goes, Goto, NO_MATCH
  <2> QED
    BY <2>1, <2>2, <2>3
<1>8. CASE s.current_state_index = 2
  <2>1. CASE Uses(s, e)
    BY <1>2, <1>5, <1>8, <2>1 DEF step_read_db_large_dup2, count_bytes, Uses, Goes, Goto
  <2>2. CASE ~Uses(s, e)
    BY <1>2, <1>5, <1>8, <2>2 DEF step_read_db_large_dup2, count_bytes, Uses, Goes, Goto, NO_MATCH
  <2> QED
    BY <1>8, <2>1, <2>2
<1> QED
  BY <1>2, <1>7, <1>8

LEMMA DbFirst ==
  ASSUME NEW r \in ReadDb, NEW e
  PROVE  /\ Opens(e) => First(r, e) = [next |-> 1, data |-> [fd |-> e.retval, bytes |-> 0]]
         /\ ~Opens(e) => First(r, e) = [next |-> -1, data |-> NoData]
<1>1. First(r, e) = step_openat_db(0, NoData, e)
  BY DEF ReadDb, First, Step, read_db_large
<1> QED
  BY <1>1 DEF step_openat_db, Opens, Opened, Goto, NO_MATCH

Sees(e) == Watched(e) /\ e.call.mode # "directory"

LEMMA ScanStep ==
  ASSUME TablesOK, NEW s \in matches, s.rule_index \in Count, NEW e \in Event
  PROVE  /\ s.current_state_index = 0 /\ s.data.paths \in SUBSET Paths
         /\ s.data = [paths |-> s.data.paths]
         /\ Sees(e) =>
              Goes(s, e, IF Cardinality(s.data.paths \cup {e.call.path}) < Threshold THEN 0 ELSE 1,
                   [paths |-> s.data.paths \cup {e.call.path}])
         /\ ~Sees(e) => Goes(s, e, -1, s.data)
<1>1. s.rule_index \in Rules /\ Kind[s.rule_index] = "path_openat_count"
  BY MatchIs DEF Count
<1>2. s.current_state_index = 0 /\ s.data \in [paths : SUBSET Paths]
  BY DEF TablesOK, MatchOK
<1>3. Outcome(s, e) = path_openat_count(0, s.data, e)
  BY <1>1, <1>2 DEF Outcome, Step
<1>4. s.data # NoData
  BY <1>2, ProcessAssumption
<1>5. Paths_of(s.data) = s.data.paths
  BY <1>4 DEF Paths_of
<1> QED
  BY <1>2, <1>3, <1>5 DEF path_openat_count, Sees, Goes, Goto, NO_MATCH

LEMMA ScanFirst ==
  ASSUME NEW r \in Count, NEW e
  PROVE  /\ Sees(e) => /\ First(r, e).next = IF Threshold = 1 THEN 1 ELSE 0
                       /\ First(r, e).data = [paths |-> {e.call.path}]
         /\ ~Sees(e) => First(r, e).next = -1
<1>1. First(r, e) = path_openat_count(0, NoData, e)
  BY DEF Count, First, Step
<1>2. Paths_of(NoData) \cup {e.call.path} = {e.call.path}
  BY DEF Paths_of
<1>3. Cardinality({e.call.path}) = 1
  BY FS_Singleton
<1>4. 1 < Threshold <=> ~(Threshold = 1)
  BY Sizes
<1> QED
  BY <1>1, <1>2, <1>3, <1>4 DEF path_openat_count, Sees, Goto, NO_MATCH

Lists(s, e) == e.call.op = "getdents64" /\ e.retval > 0 /\ e.call.fd = s.data.fd

Closes(e) == e.call.op = "close" /\ e.retval = 0

LEMMA WalkStep ==
  ASSUME TablesOK, NEW s \in matches, s.rule_index \in Traversal, NEW e \in Event
  PROVE  /\ s.current_state_index \in {0, 1} /\ s.data.paths \in SUBSET Paths /\ s.data.fd \in Fds
         /\ s.data = [fd |-> s.data.fd, paths |-> s.data.paths]
         /\ Watched(e) => Goes(s, e, 1, [fd |-> e.retval, paths |-> s.data.paths])
         /\ s.current_state_index = 0 /\ ~Watched(e) => Goes(s, e, -1, s.data)
         /\ s.current_state_index = 1 /\ Closes(e) =>
              Goes(s, e, IF e.call.fd = s.data.fd THEN 0 ELSE 1, s.data)
         /\ s.current_state_index = 1 /\ Lists(s, e) =>
              Goes(s, e, IF Cardinality(s.data.paths \cup {e.call.path}) < Threshold THEN 0 ELSE 2,
                   [fd |-> s.data.fd, paths |-> s.data.paths \cup {e.call.path}])
         /\ s.current_state_index = 1 /\ ~Watched(e) /\ ~Closes(e) /\ ~Lists(s, e) =>
              Goes(s, e, -1, s.data)
<1>1. s.rule_index \in Rules /\ Kind[s.rule_index] = "recursive_traversal"
  BY MatchIs DEF Traversal
<1>2. s.current_state_index \in {0, 1} /\ s.data \in [fd : Fds, paths : SUBSET Paths]
  <2>1. s.rule_index \in Traversal => s.current_state_index \in {0, 1} /\ s.data \in [fd : Fds, paths : SUBSET Paths]
    BY DEF TablesOK, MatchOK
  <2> QED
    BY <2>1
<1>3. Outcome(s, e) = recursive_traversal(s.current_state_index, s.data, e)
  BY <1>1 DEF Outcome, Step
<1>4. s.data # NoData
  BY <1>2, ProcessAssumption
<1>5. Paths_of(s.data) = s.data.paths
  BY <1>4 DEF Paths_of
<1>6. Watched(e) => e.call.op = "openat"
  BY DEF Watched, Opened
<1>7. CASE s.current_state_index = 0
  <2>1. Outcome(s, e) = traversal_0(0, s.data, e)
    BY <1>3, <1>7 DEF recursive_traversal
  <2> QED
    BY <1>2, <1>5, <1>7, <2>1 DEF traversal_0, Goes, Goto, NO_MATCH
<1>8. CASE s.current_state_index = 1
  <2>1. Outcome(s, e) = traversal_1(1, s.data, e)
    BY <1>3, <1>8 DEF recursive_traversal
  <2>2. CASE Watched(e)
    <3>1. e.call.op = "openat"
      BY <1>6, <2>2
    <3>2. ~Closes(e) /\ ~Lists(s, e) /\ ~ReadsEntries(s.data, e) /\ ~(e.call.op = "close" /\ e.retval = 0)
      BY <3>1 DEF Closes, Lists, ReadsEntries
    <3>3. Outcome(s, e) = Goto(1, [s.data EXCEPT !.fd = e.retval])
      BY <2>1, <2>2, <3>2 DEF traversal_1
    <3> QED
      BY <1>2, <1>8, <2>2, <3>2, <3>3 DEF Goes, Goto
  <2>3. CASE Closes(e)
    <3>1. ~Watched(e) /\ ~Lists(s, e) /\ ~ReadsEntries(s.data, e) /\ (e.call.op = "close" /\ e.retval = 0)
      BY <1>6, <2>3 DEF Closes, Lists, ReadsEntries
    <3>2. Outcome(s, e) = Goto(IF e.call.fd = s.data.fd THEN 0 ELSE 1, s.data)
      BY <2>1, <3>1 DEF traversal_1
    <3> QED
      BY <1>2, <1>8, <2>3, <3>1, <3>2 DEF Goes, Goto
  <2>4. CASE Lists(s, e)
    <3>1. ~Watched(e) /\ ~Closes(e) /\ ReadsEntries(s.data, e) /\ ~(e.call.op = "close" /\ e.retval = 0)
      BY <1>6, <2>4 DEF Closes, Lists, ReadsEntries
    <3>2. Outcome(s, e) = Goto(IF Cardinality(s.data.paths \cup {e.call.path}) < Threshold THEN 0 ELSE 2,
                               [s.data EXCEPT !.paths = s.data.paths \cup {e.call.path}])
      BY <2>1, <3>1 DEF traversal_1
    <3>3. [s.data EXCEPT !.paths = s.data.paths \cup {e.call.path}] =
            [fd |-> s.data.fd, paths |-> s.data.paths \cup {e.call.path}]
      BY <1>2
    <3> QED
      BY <1>2, <1>8, <2>4, <3>1, <3>2, <3>3 DEF Goes, Goto
  <2>5. CASE ~Watched(e) /\ ~Closes(e) /\ ~Lists(s, e)
    <3>1. ~ReadsEntries(s.data, e) /\ ~(e.call.op = "close" /\ e.retval = 0)
      BY <2>5 DEF Closes, Lists, ReadsEntries
    <3>2. Outcome(s, e) = NO_MATCH(s.data)
      BY <2>1, <2>5, <3>1 DEF traversal_1
    <3> QED
      BY <1>2, <1>8, <2>5, <3>2 DEF Goes, Goto, NO_MATCH
  <2> QED
    BY <2>2, <2>3, <2>4, <2>5
<1> QED
  BY <1>2, <1>7, <1>8

LEMMA WalkFirst ==
  ASSUME NEW r \in Traversal, NEW e
  PROVE  /\ Watched(e) => First(r, e) = [next |-> 1, data |-> [fd |-> e.retval, paths |-> {}]]
         /\ ~Watched(e) => First(r, e).next = -1
<1>1. First(r, e) = traversal_0(0, NoData, e)
  BY DEF Traversal, First, Step, recursive_traversal
<1>2. Paths_of(NoData) = {}
  BY DEF Paths_of
<1> QED
  BY <1>1, <1>2 DEF traversal_0, Goto, NO_MATCH


-----------------------------------------------------------------------------
(* Types.                                                                  *)

LEMMA ExitIs ==
  ASSUME TablesOK, NEW e, Exit(e)
  PROVE  /\ e \in Event /\ e.call \in Calls /\ e.retval \in Int /\ now \in Nat /\ now' = now
         /\ e.retval = -1 \/ (e.retval \in Nat /\ e.retval \in Results(e.call))
         /\ Opened(e) => e.retval \in Fds /\ ~IsOpen(e.retval)
         /\ Opened(e) => e.call.path \in Paths /\ e.call.mode \in OpenModes
         /\ e.call.op = "dup2" => e.call.newfd \in Fds
         /\ e.call.op \in Reads \cup {"dup2", "close", "getdents64"} => e.call.fd \in Fds
<1>1. e \in Event /\ e.call \in Calls
  BY EventIs DEF Exit
<1>2. now \in Nat /\ now' = now
  BY Sizes DEF TablesOK, Exit
<1>3. e.retval = -1 \/ e.retval \in Results(e.call)
  BY DEF Exit
<1>4. e.retval \in Results(e.call) =>
        /\ e.retval \in Nat
        /\ e.call.op = "openat" => e.retval \in Fds /\ ~IsOpen(e.retval)
  BY <1>1, ResultIs
<1>5. /\ e.call.op = "openat" => e.call.path \in Paths /\ e.call.mode \in OpenModes
      /\ e.call.op = "dup2" => e.call.newfd \in Fds
      /\ e.call.op \in Reads \cup {"dup2", "close", "getdents64"} => e.call.fd \in Fds
  BY <1>1, CallIs DEF Reads
<1> QED
  BY <1>1, <1>2, <1>3, <1>4, <1>5 DEF Opened

\* Moved sets two fields.
LEMMA MovedIs ==
  ASSUME TablesOK, NEW s \in matches, NEW e \in Event, NEW k, NEW d, Goes(s, e, k, d)
  PROVE  /\ Moved(s, e) = [id |-> s.id, pid |-> Pid, rule_index |-> s.rule_index,
                           current_state_index |-> Moved(s, e).current_state_index,
                           data |-> d, start_time_ns |-> s.start_time_ns]
         /\ Moved(s, e).data = d
         /\ Moved(s, e).current_state_index =
              IF k \in 0 .. Last(s.rule_index) - 1 THEN k ELSE s.current_state_index
         /\ Moved(s, e).rule_index = s.rule_index /\ Moved(s, e).id = s.id
         /\ Moved(s, e).start_time_ns = s.start_time_ns
<1>1. s \in Engine!DetectionState /\ s.pid = Pid
  BY MatchIs
<1> DEFINE i == IF k \in 0 .. Last(s.rule_index) - 1 THEN k ELSE s.current_state_index
<1>2. Moved(s, e) = [s EXCEPT !.data = d, !.current_state_index = i]
  BY DEF Moved, Goes
<1> HIDE DEF i
<1>3. Moved(s, e) = [id |-> s.id, pid |-> Pid, rule_index |-> s.rule_index,
                     current_state_index |-> i, data |-> d, start_time_ns |-> s.start_time_ns]
  BY <1>1, <1>2 DEF Engine!DetectionState
<1> QED
  BY <1>3 DEF i

LEMMA MovedType ==
  ASSUME TablesOK, NEW e, Exit(e), NEW s \in matches, Stays(s, e)
  PROVE  MatchOK(Moved(s, e))'
<1>1. /\ e \in Event /\ e.retval \in Int /\ now \in Nat /\ now' = now
      /\ Opened(e) => e.retval \in Fds
      /\ e.call.op = "dup2" => e.call.newfd \in Fds
      /\ Opened(e) => e.call.path \in Paths
  BY ExitIs
<1>2. /\ s \in Engine!DetectionState /\ s.id \in Nat /\ s.rule_index \in Rules
      /\ s.start_time_ns \in Nat /\ s.start_time_ns <= now /\ s.id < detection_state_count
  BY MatchIs
<1>3. detection_state_count \in Nat /\ detection_state_count' \in Nat /\ detection_state_count <= detection_state_count'
  BY DEF TablesOK, Exit, Counts
<1>4. Outcome(s, e).next # Last(s.rule_index)
  BY DEF Stays
<1>5. PICK m : m = Moved(s, e)
  OBVIOUS
<1>6. ASSUME NEW k, NEW d, Goes(s, e, k, d), d \in Data, k \in -1 .. 3
      PROVE  /\ m \in Engine!DetectionState /\ m.start_time_ns <= now' /\ m.id < detection_state_count'
             /\ m.rule_index = s.rule_index /\ m.data = d /\ k # Last(s.rule_index)
             /\ m.current_state_index =
                  IF k \in 0 .. Last(s.rule_index) - 1 THEN k ELSE s.current_state_index
  <2>1. /\ m = [id |-> s.id, pid |-> Pid, rule_index |-> s.rule_index,
                current_state_index |-> m.current_state_index,
                data |-> d, start_time_ns |-> s.start_time_ns]
        /\ m.current_state_index =
             IF k \in 0 .. Last(s.rule_index) - 1 THEN k ELSE s.current_state_index
        /\ m.data = d /\ m.rule_index = s.rule_index /\ m.id = s.id /\ m.start_time_ns = s.start_time_ns
    BY <1>1, <1>5, <1>6, MovedIs
  <2>2. m.current_state_index \in Nat
    BY <1>2, <1>6, <2>1, MatchIs
  <2>3. m \in Engine!DetectionState
    BY <1>2, <1>6, <2>1, <2>2 DEF Engine!DetectionState
  <2>4. k # Last(s.rule_index)
    BY <1>4, <1>6 DEF Goes
  <2> QED
    BY <1>1, <1>2, <1>3, <2>1, <2>3, <2>4
<1>7. CASE s.rule_index \in ReadDb
  <2>1. /\ s.current_state_index \in {1, 2} /\ s.data.fd \in Fds /\ s.data.bytes \in 0 .. Large - 1
        /\ s.data = [fd |-> s.data.fd, bytes |-> s.data.bytes]
    BY <1>1, <1>7, DbStep
  <2>2. Last(s.rule_index) = 3 /\ s.rule_index \notin Traversal /\ s.rule_index \notin Count
    BY <1>2, <1>7, RulesAre
  <2> SUFFICES ASSUME NEW k, NEW d, Goes(s, e, k, d), k \in -1 .. 3,
                      k \in {-1, 1, 2, 3}, k # 3 => d \in [fd : Fds, bytes : 0 .. Large - 1],
                      d \in Data
               PROVE  MatchOK(m)'
    <3>1. CASE s.current_state_index = 1 /\ Duplicates(s, e)
      <4> DEFINE d == [fd |-> e.call.newfd, bytes |-> s.data.bytes]
      <4>1. Goes(s, e, 2, d)
        BY <1>1, <1>7, <3>1, DbStep
      <4>2. e.call.newfd \in Fds
        BY <1>1, <3>1 DEF Duplicates
      <4>3. d \in [fd : Fds, bytes : 0 .. Large - 1] /\ d \in Data
        BY <2>1, <4>2, Sizes DEF Data
      <4> HIDE DEF d
      <4> QED
        BY <1>5, <4>1, <4>3
    <3>2. CASE Uses(s, e)
      <4> DEFINE b == s.data.bytes + e.retval
                 d == [fd |-> s.data.fd, bytes |-> b]
                 k == IF b < Large THEN s.current_state_index ELSE 3
      <4>1. Goes(s, e, k, d)
        BY <1>1, <1>7, <3>2, DbStep
      <4>2. b \in Nat /\ k \in {1, 2, 3} /\ (k # 3 => b \in 0 .. Large - 1)
        BY <1>1, <2>1, <3>2, Sizes DEF Uses
      <4> HIDE DEF b, k
      <4>3. d \in Data /\ (k # 3 => d \in [fd : Fds, bytes : 0 .. Large - 1])
        BY <2>1, <4>2 DEF Data
      <4> HIDE DEF d
      <4> QED
        BY <1>5, <4>1, <4>2, <4>3
    <3>3. CASE ~(s.current_state_index = 1 /\ Duplicates(s, e)) /\ ~Uses(s, e)
      <4>1. Goes(s, e, -1, s.data)
        BY <1>1, <1>7, <3>3, DbStep
      <4>2. s.data \in [fd : Fds, bytes : 0 .. Large - 1] /\ s.data \in Data
        BY <2>1, Sizes DEF Data
      <4> QED
        BY <1>5, <4>1, <4>2
    <3> QED
      BY <1>5, <3>1, <3>2, <3>3
  <2>3. /\ m \in Engine!DetectionState /\ m.start_time_ns <= now' /\ m.id < detection_state_count'
        /\ m.rule_index = s.rule_index /\ m.data = d /\ k # Last(s.rule_index)
        /\ m.current_state_index =
             IF k \in 0 .. Last(s.rule_index) - 1 THEN k ELSE s.current_state_index
    BY <1>6
  <2>4. m.current_state_index \in {1, 2} /\ k # 3
    BY <2>1, <2>2, <2>3
  <2> QED
    BY <2>2, <2>3, <2>4 DEF MatchOK
<1>8. CASE s.rule_index \in Count
  <2>1. /\ s.current_state_index = 0 /\ s.data.paths \in SUBSET Paths
        /\ s.data = [paths |-> s.data.paths] /\ Cardinality(s.data.paths) < Threshold
    BY <1>1, <1>8, ScanStep DEF TablesOK, MatchOK
  <2>2. Last(s.rule_index) = 1 /\ s.rule_index \notin Traversal /\ s.rule_index \notin ReadDb
    BY <1>2, <1>8, RulesAre
  <2>3. \E k, d : /\ Goes(s, e, k, d) /\ k \in {-1, 0, 1} /\ d \in [paths : SUBSET Paths]
                  /\ k # 1 => Cardinality(d.paths) < Threshold
    <3>1. CASE Sees(e)
      <4>1. s.data.paths \cup {e.call.path} \in SUBSET Paths
        BY <1>1, <2>1, <3>1 DEF Sees, Watched
      <4>2. Goes(s, e, IF Cardinality(s.data.paths \cup {e.call.path}) < Threshold THEN 0 ELSE 1,
                 [paths |-> s.data.paths \cup {e.call.path}])
        BY <1>1, <1>8, <3>1, ScanStep
      <4> QED
        BY <4>1, <4>2
    <3>2. CASE ~Sees(e)
      <4>1. Goes(s, e, -1, s.data)
        BY <1>1, <1>8, <3>2, ScanStep
      <4>2. s.data \in [paths : SUBSET Paths]
        BY <2>1
      <4> QED
        BY <2>1, <4>1, <4>2
    <3> QED
      BY <3>1, <3>2
  <2>4. PICK k, d : /\ Goes(s, e, k, d) /\ k \in {-1, 0, 1} /\ d \in [paths : SUBSET Paths]
                    /\ k # 1 => Cardinality(d.paths) < Threshold
    BY <2>3
  <2>5. d \in Data /\ k \in -1 .. 3
    BY <2>4 DEF Data
  <2>6. /\ m \in Engine!DetectionState /\ m.start_time_ns <= now' /\ m.id < detection_state_count'
        /\ m.rule_index = s.rule_index /\ m.data = d /\ k # Last(s.rule_index)
        /\ m.current_state_index =
             IF k \in 0 .. Last(s.rule_index) - 1 THEN k ELSE s.current_state_index
    BY <1>6, <2>4, <2>5
  <2>7. m.current_state_index = 0 /\ k # 1
    BY <2>1, <2>2, <2>4, <2>6
  <2> QED
    BY <1>5, <2>2, <2>4, <2>6, <2>7, <1>8 DEF MatchOK
<1>9. CASE s.rule_index \in Traversal
  <2>1. /\ s.current_state_index \in {0, 1} /\ s.data.paths \in SUBSET Paths /\ s.data.fd \in Fds
        /\ s.data = [fd |-> s.data.fd, paths |-> s.data.paths] /\ Cardinality(s.data.paths) < Threshold
    BY <1>1, <1>9, WalkStep DEF TablesOK, MatchOK
  <2>2. Last(s.rule_index) = 2 /\ s.rule_index \notin Count /\ s.rule_index \notin ReadDb
    BY <1>2, <1>9, RulesAre
  <2>3. \E k, d : /\ Goes(s, e, k, d) /\ k \in {-1, 0, 1, 2} /\ d \in [fd : Fds, paths : SUBSET Paths]
                  /\ k # 2 => Cardinality(d.paths) < Threshold
    <3>1. CASE Watched(e)
      <4> DEFINE d == [fd |-> e.retval, paths |-> s.data.paths]
      <4>1. d \in [fd : Fds, paths : SUBSET Paths] /\ d.paths = s.data.paths
        BY <1>1, <2>1, <3>1 DEF Watched
      <4>2. Goes(s, e, 1, d)
        BY <1>1, <1>9, <3>1, WalkStep
      <4> HIDE DEF d
      <4> QED
        BY <2>1, <4>1, <4>2
    <3>2. CASE s.current_state_index = 1 /\ Lists(s, e)
      <4> DEFINE d == [fd |-> s.data.fd, paths |-> s.data.paths \cup {e.call.path}]
      <4>1. e.call.path \in Paths
        BY ExitIs, CallIs, <3>2 DEF Lists
      <4>2. d \in [fd : Fds, paths : SUBSET Paths] /\ d.paths = s.data.paths \cup {e.call.path}
        BY <2>1, <4>1
      <4>3. Goes(s, e, IF Cardinality(d.paths) < Threshold THEN 0 ELSE 2, d)
        BY <1>1, <1>9, <3>2, WalkStep
      <4> HIDE DEF d
      <4> QED
        BY <4>2, <4>3
    <3>3. CASE ~Watched(e) /\ ~(s.current_state_index = 1 /\ Lists(s, e))
      <4>1. s.data \in [fd : Fds, paths : SUBSET Paths]
        BY <2>1
      <4>2. \E k \in {-1, 0, 1} : Goes(s, e, k, s.data)
        <5>1. CASE s.current_state_index = 0
          BY <1>1, <1>9, <3>3, <5>1, WalkStep
        <5>2. CASE s.current_state_index = 1 /\ Closes(e)
          BY <1>1, <1>9, <3>3, <5>2, WalkStep
        <5>3. CASE s.current_state_index = 1 /\ ~Closes(e)
          BY <1>1, <1>9, <3>3, <5>3, WalkStep
        <5> QED
          BY <2>1, <5>1, <5>2, <5>3
      <4> QED
        BY <2>1, <4>1, <4>2
    <3> QED
      BY <3>1, <3>2, <3>3
  <2>4. PICK k, d : /\ Goes(s, e, k, d) /\ k \in {-1, 0, 1, 2} /\ d \in [fd : Fds, paths : SUBSET Paths]
                    /\ k # 2 => Cardinality(d.paths) < Threshold
    BY <2>3
  <2>5. d \in Data /\ k \in -1 .. 3
    BY <2>4 DEF Data
  <2>6. /\ m \in Engine!DetectionState /\ m.start_time_ns <= now' /\ m.id < detection_state_count'
        /\ m.rule_index = s.rule_index /\ m.data = d /\ k # Last(s.rule_index)
        /\ m.current_state_index =
             IF k \in 0 .. Last(s.rule_index) - 1 THEN k ELSE s.current_state_index
    BY <1>6, <2>4, <2>5
  <2>7. m.current_state_index \in {0, 1} /\ k # 2
    BY <2>1, <2>2, <2>4, <2>6
  <2> QED
    BY <1>5, <2>2, <2>4, <2>6, <2>7, <1>9 DEF MatchOK
<1> QED
  BY <1>2, <1>5, <1>7, <1>8, <1>9, RulesAre


\* A match that begins is at its first open.
LEMMA BeganIs ==
  ASSUME TablesOK, NEW e, Exit(e), NEW t, Began(t, e)
  PROVE  /\ t.rule_index \in Rules /\ t.id \in Nat /\ t.start_time_ns = now /\ t.pid = Pid
         /\ t.rule_index \in ReadDb =>
              /\ Opens(e) /\ t.id = detection_state_count /\ t.current_state_index = 1
              /\ t.data = [fd |-> e.retval, bytes |-> 0]
         /\ t.rule_index \in Traversal =>
              /\ Watched(e) /\ t.current_state_index = 1
              /\ t.data = [fd |-> e.retval, paths |-> {}]
         /\ t.rule_index \in Count =>
              /\ Sees(e) /\ Threshold # 1 /\ t.current_state_index = 0
              /\ t.data = [paths |-> {e.call.path}]
         /\ t = [id |-> t.id, pid |-> Pid, rule_index |-> t.rule_index,
                 current_state_index |-> t.current_state_index, data |-> t.data,
                 start_time_ns |-> now]
<1>1. /\ t.rule_index \in Rules /\ t.id \in Nat
      /\ t = [id |-> t.id, pid |-> Pid, rule_index |-> t.rule_index,
              current_state_index |-> First(t.rule_index, e).next,
              data |-> First(t.rule_index, e).data, start_time_ns |-> now]
      /\ First(t.rule_index, e).next \in 0 .. Last(t.rule_index) - 1
      /\ t.rule_index \in ReadDb => t.id = detection_state_count
  BY DEF Began
<1>2. PICK r, d, k : r = t.rule_index /\ d = First(r, e).data /\ k = First(r, e).next
  OBVIOUS
<1>3. /\ t.start_time_ns = now /\ t.pid = Pid /\ t.current_state_index = k /\ t.data = d
      /\ k \in 0 .. Last(r) - 1
      /\ t = [id |-> t.id, pid |-> Pid, rule_index |-> t.rule_index,
              current_state_index |-> t.current_state_index, data |-> t.data,
              start_time_ns |-> now]
  BY <1>1, <1>2
<1>4. CASE r \in ReadDb
  <2>1. Opens(e) /\ k = 1 /\ d = [fd |-> e.retval, bytes |-> 0]
    BY <1>2, <1>3, <1>4, DbFirst
  <2> QED
    BY <1>1, <1>2, <1>3, <1>4, <2>1, RulesAre
<1>5. CASE r \in Traversal
  <2>1. Watched(e) /\ k = 1 /\ d = [fd |-> e.retval, paths |-> {}]
    <3>1. /\ Watched(e) => First(r, e) = [next |-> 1, data |-> [fd |-> e.retval, paths |-> {}]]
          /\ ~Watched(e) => First(r, e).next = -1
      BY <1>5, WalkFirst
    <3>2. k # -1
      BY <1>3
    <3>3. Watched(e)
      BY <1>2, <3>1, <3>2
    <3>4. First(r, e) = [next |-> 1, data |-> [fd |-> e.retval, paths |-> {}]]
      BY <3>1, <3>3
    <3> QED
      BY <1>2, <3>3, <3>4
  <2> QED
    BY <1>1, <1>2, <1>3, <1>5, <2>1, RulesAre
<1>6. CASE r \in Count
  <2>1. Last(r) = 1
    BY <1>6, RulesAre
  <2>2. Sees(e) /\ Threshold # 1 /\ k = 0 /\ d = [paths |-> {e.call.path}]
    BY <1>2, <1>3, <1>6, <2>1, ScanFirst
  <2> QED
    BY <1>1, <1>2, <1>3, <1>6, <2>2, RulesAre
<1> QED
  BY <1>1, <1>2, <1>4, <1>5, <1>6, RulesAre

LEMMA BeganType ==
  ASSUME TablesOK, NEW e, Exit(e), NEW t, Began(t, e), t.id < detection_state_count'
  PROVE  MatchOK(t)'
<1>1. /\ e \in Event /\ now \in Nat /\ now' = now
      /\ Opened(e) => e.retval \in Fds
      /\ Opened(e) => e.call.path \in Paths
  BY ExitIs
<1>2. /\ t.rule_index \in Rules /\ t.id \in Nat /\ t.start_time_ns = now
      /\ t = [id |-> t.id, pid |-> Pid, rule_index |-> t.rule_index,
              current_state_index |-> t.current_state_index, data |-> t.data,
              start_time_ns |-> now]
  BY BeganIs
<1>3. now \in Engine!Time
  BY DEF TablesOK, Engine!Time
<1>4. ASSUME t.current_state_index \in Nat, t.data \in Data
      PROVE  t \in Engine!DetectionState
  BY <1>2, <1>3, <1>4, RulesAre DEF Engine!DetectionState
<1>5. CASE t.rule_index \in ReadDb
  <2>1. /\ t.current_state_index = 1 /\ t.data = [fd |-> e.retval, bytes |-> 0] /\ Opened(e)
    BY <1>5, BeganIs DEF Opens, Opened
  <2>2. t.data \in [fd : Fds, bytes : 0 .. Large - 1] /\ t.data \in Data
    BY <1>1, <2>1, Sizes DEF Data
  <2> QED
    BY <1>1, <1>2, <1>4, <1>5, <2>1, <2>2, RulesAre DEF MatchOK
<1>6. CASE t.rule_index \in Traversal
  <2>1. /\ t.current_state_index = 1 /\ t.data = [fd |-> e.retval, paths |-> {}] /\ Opened(e)
    BY <1>6, BeganIs DEF Watched
  <2>2. t.data \in [fd : Fds, paths : SUBSET Paths] /\ t.data \in Data /\ t.data.paths = {}
    BY <1>1, <2>1 DEF Data
  <2>3. Cardinality(t.data.paths) < Threshold
    BY <2>2, FS_EmptySet, Sizes
  <2>4. t \in Engine!DetectionState
    BY <1>4, <2>1, <2>2
  <2>5. t.rule_index \notin ReadDb /\ t.rule_index \notin Count
    BY <1>6, RulesAre
  <2> QED
    BY <1>1, <1>2, <2>1, <2>2, <2>3, <2>4, <2>5 DEF MatchOK
<1>7. CASE t.rule_index \in Count
  <2>1. /\ Sees(e) /\ Threshold # 1 /\ t.current_state_index = 0
        /\ t.data = [paths |-> {e.call.path}] /\ Opened(e)
    BY <1>7, BeganIs DEF Sees, Watched
  <2>2. t.data \in [paths : SUBSET Paths] /\ t.data \in Data /\ t.data.paths = {e.call.path}
    BY <1>1, <2>1 DEF Data
  <2>3. Cardinality(t.data.paths) < Threshold
    <3>1. Cardinality({e.call.path}) = 1
      BY FS_Singleton
    <3> QED
      BY <2>1, <2>2, <3>1, Sizes
  <2>4. t \in Engine!DetectionState
    BY <1>4, <2>1, <2>2
  <2>5. t.rule_index \notin ReadDb /\ t.rule_index \notin Traversal
    BY <1>7, RulesAre
  <2> QED
    BY <1>1, <1>2, <2>1, <2>2, <2>3, <2>4, <2>5 DEF MatchOK
<1> QED
  BY <1>2, <1>5, <1>6, <1>7, RulesAre

LEMMA FileType ==
  ASSUME TablesOK, NEW e, Exit(e)
  PROVE  file' \in [Fds -> [path : Paths, open : Nat] \cup {Closed}]
<1>1. file \in [Fds -> [path : Paths, open : Nat] \cup {Closed}] /\ detection_state_count \in Nat
  BY DEF TablesOK
<1>2. CASE UNCHANGED file
  BY <1>1, <1>2
<1>3. CASE e.retval \in Results(e.call) /\ file' = file_after(e.call, e.retval)
  <2>1. CASE e.call.op = "openat"
    <3>1. e.retval \in Fds /\ e.call.path \in Paths
      BY <1>3, <2>1, ExitIs, ResultIs, CallIs
    <3>2. Number(e.call) \in Nat
      BY <1>1 DEF Number
    <3>3. file' = [file EXCEPT ![e.retval] = [path |-> e.call.path, open |-> Number(e.call)]]
      BY <1>3, <2>1 DEF file_after
    <3> QED
      BY <1>1, <3>1, <3>2, <3>3
  <2>2. CASE e.call.op = "dup2"
    <3>1. file' = [file EXCEPT ![e.call.newfd] = file[e.call.fd]]
      BY <1>3, <2>2 DEF file_after
    <3>2. e.call.fd \in Fds
      BY <2>2, ExitIs
    <3> QED
      BY <1>1, <3>1, <3>2
  <2>3. CASE e.call.op = "close"
    <3>1. file' = [file EXCEPT ![e.call.fd] = Closed]
      BY <1>3, <2>3 DEF file_after
    <3> QED
      BY <1>1, <3>1
  <2>4. CASE e.call.op \notin {"openat", "dup2", "close"}
    BY <1>1, <1>3, <2>4 DEF file_after
  <2> QED
    BY <2>1, <2>2, <2>3, <2>4
<1> QED
  BY <1>2, <1>3 DEF Exit

LEMMA TablesStay ==
  ASSUME TablesOK, Idle \/ \E e : Exit(e)
  PROVE  TablesOK'
<1>1. CASE Idle
  <2>1. now' \in 0 .. MaxTime /\ now <= now'
    <3>1. now \in 0 .. MaxTime
      BY DEF TablesOK
    <3>2. now' = now \/ (now' = now + 1 /\ now < MaxTime)
      BY <1>1 DEF Idle
    <3> QED
      BY <3>1, <3>2, Sizes
  <2>2. \A s \in matches' : MatchOK(s)'
    <3> TAKE s \in matches'
    <3>1. s \in matches /\ detection_state_count' = detection_state_count
      BY <1>1 DEF Idle, matches
    <3>2. MatchOK(s)
      BY <3>1 DEF TablesOK
    <3>3. s.start_time_ns \in Nat /\ now \in Nat /\ now' \in Nat
      BY <2>1, <3>1, MatchIs, Sizes
    <3>4. s.start_time_ns <= now'
      BY <2>1, <3>1, <3>3, MatchIs
    <3> QED
      BY <3>1, <3>2, <3>4 DEF MatchOK
  <2>3. tracked_pids' \in [{Pid} -> Event \cup {NoEvent}]
    <3>1. tracked_pids \in [{Pid} -> Event \cup {NoEvent}]
      BY DEF TablesOK
    <3>2. tracked_pids' = tracked_pids \/ \E e \in Event : tracked_pids' = [tracked_pids EXCEPT ![Pid] = e]
      BY <1>1 DEF Idle
    <3> QED
      BY <3>1, <3>2
  <2> QED
    BY <1>1, <2>1, <2>2, <2>3 DEF TablesOK, Idle
<1>2. ASSUME NEW e, Exit(e) PROVE TablesOK'
  <2>1. \A s \in matches' : MatchOK(s)'
    <3> TAKE t \in matches'
    <3>1. CASE \E s \in matches : Stays(s, e) /\ t = Moved(s, e)
      BY <1>2, <3>1, MovedType
    <3>2. CASE Began(t, e)
      <4>1. t.id < detection_state_count'
        BY <1>2, <3>2 DEF Exit, Counts
      <4> QED
        BY <1>2, <3>2, <4>1, BeganType
    <3> QED
      BY <1>2, <3>1, <3>2 DEF Exit, Judged
  <2>2. file' \in [Fds -> [path : Paths, open : Nat] \cup {Closed}]
    BY <1>2, FileType
  <2>3. tracked_pids' \in [{Pid} -> Event \cup {NoEvent}]
    BY <1>2 DEF TablesOK, Exit
  <2>4. /\ cooldown_until' \in [{Pid} -> [Rules -> Nat]]
        /\ detection_state_count' \in Nat /\ detection_state_count' >= detection_state_count
    BY <1>2 DEF Exit, Counts
  <2>5. Cardinality(Rules) <= detection_state_count'
    BY <2>4, RulesAre DEF TablesOK
  <2>6. now' \in 0 .. MaxTime
    BY <1>2 DEF TablesOK, Exit
  <2> QED
    BY <1>2, <2>1, <2>2, <2>3, <2>4, <2>5, <2>6 DEF TablesOK, Exit
<1> QED
  BY <1>1, <1>2


LEMMA OneMatchStays ==
  ASSUME TablesOK, OneMatch, Idle \/ \E e : Exit(e)
  PROVE  OneMatch'
<1>1. CASE Idle
  BY <1>1 DEF Idle, OneMatch, matches
<1>2. ASSUME NEW e, Exit(e) PROVE OneMatch'
  <2>1. Judged(e) /\ e \in Event /\ e.pid = Pid /\ e.timestamp_ns = now
    BY <1>2 DEF Exit
  <2> SUFFICES ASSUME NEW t \in matches', NEW u \in matches',
                      t.rule_index = u.rule_index, t.rule_index \notin ReadDb
               PROVE  t = u
    BY DEF OneMatch
  <2>2. ASSUME NEW s \in matches, NEW v, Stays(s, e), Began(v, e),
               v.rule_index \notin ReadDb, Moved(s, e).rule_index = v.rule_index
        PROVE  FALSE
    <3>1. s.rule_index = v.rule_index
      BY <2>1, <2>2, LeftIs
    <3> QED
      BY <2>2, <3>1 DEF Began
  <2>3. CASE Began(t, e) /\ Began(u, e)
    BY <2>1, <2>3 DEF Judged
  <2>4. CASE ~Began(t, e)
    <3>1. PICK s \in matches : Stays(s, e) /\ t = Moved(s, e)
      BY <2>1, <2>4 DEF Judged
    <3>2. ~Began(u, e)
      BY <2>2, <3>1
    <3>3. PICK v \in matches : Stays(v, e) /\ u = Moved(v, e)
      BY <2>1, <3>2 DEF Judged
    <3>4. s.rule_index = t.rule_index /\ v.rule_index = u.rule_index
      BY <2>1, <3>1, <3>3, LeftIs
    <3>5. s = v
      BY <3>4 DEF OneMatch
    <3> QED
      BY <3>1, <3>3, <3>5
  <2>5. CASE ~Began(u, e)
    <3>1. PICK s \in matches : Stays(s, e) /\ u = Moved(s, e)
      BY <2>1, <2>5 DEF Judged
    <3>2. ~Began(t, e)
      BY <2>2, <3>1
    <3> QED
      BY <2>4, <3>2
  <2> QED
    BY <2>3, <2>4, <2>5
<1> QED
  BY <1>1, <1>2

-----------------------------------------------------------------------------
(* The opens of databases and their matches.                               *)

LEMMA UsedIs ==
  ASSUME TablesOK, OpensOK, NEW e, Exit(e), NEW n \in DOMAIN opened
  PROVE  /\ n \in DOMAIN opened'
         /\ n \in Nat \ {0} /\ n < detection_state_count /\ opened[n] \in Open
         /\ \/ e.retval = -1 /\ opened'[n] = opened[n] /\ file' = file
            \/ /\ e.retval \in Results(e.call) /\ e.retval \in Nat
               /\ opened'[n] = Used(e.call, e.retval, n)
               /\ file' = file_after(e.call, e.retval)
<1>1. n \in Nat \ {0} /\ n < detection_state_count /\ opened[n] \in Open
  BY DEF OpensOK
<1>2. CASE e.retval = -1 /\ UNCHANGED <<file, opened>>
  BY <1>1, <1>2
<1>3. CASE /\ e.retval \in Results(e.call) /\ e.retval \in Nat
           /\ file' = file_after(e.call, e.retval) /\ opened' = opened_after(e.call, e.retval)
  <2> DEFINE new == IF e.call.op = "openat" /\ Number(e.call) # 0 THEN {Number(e.call)} ELSE {}
  <2>1. n \notin new
    <3>1. detection_state_count \in Nat
      BY DEF TablesOK
    <3> QED
      BY <1>1, <3>1 DEF Number
  <2>2. opened' = [m \in DOMAIN opened \cup new |->
                     IF m \in new
                     THEN [latest |-> e.retval, start |-> now, bytes |-> 0,
                           duplicated |-> FALSE, followed |-> TRUE]
                     ELSE Used(e.call, e.retval, m)]
    BY <1>3 DEF opened_after
  <2> HIDE DEF new
  <2>3. n \in DOMAIN opened' /\ opened'[n] = Used(e.call, e.retval, n)
    BY <2>1, <2>2
  <2> QED
    BY <1>1, <1>3, <2>3
<1>4. e.retval \in Results(e.call) => e.retval \in Nat
  BY ExitIs, ResultIs
<1> QED
  BY <1>2, <1>3, <1>4 DEF Exit, note

\* What an exit makes of an open.
LEMMA UsedType ==
  ASSUME TablesOK, OpensOK, NEW e, Exit(e), NEW n \in DOMAIN opened
  PROVE  /\ opened'[n] \in Open /\ opened'[n].start = opened[n].start
         /\ opened'[n].bytes >= opened[n].bytes
         /\ opened'[n].followed => opened[n].followed /\ Through(opened[n].latest)' = n
<1>0. PICK o, p, c : o = opened[n] /\ p = opened'[n] /\ c = e.call
  OBVIOUS
<1> SUFFICES /\ p \in Open /\ p.start = o.start /\ p.bytes >= o.bytes
             /\ p.followed => o.followed /\ Through(p.latest)' = n
  BY <1>0 DEF Through, IsOpen
<1>1. /\ n \in Nat \ {0} /\ opened[n] \in Open
      /\ \/ e.retval = -1 /\ opened'[n] = opened[n] /\ file' = file
         \/ /\ e.retval \in Results(e.call) /\ e.retval \in Nat
            /\ opened'[n] = Used(e.call, e.retval, n)
            /\ file' = file_after(e.call, e.retval)
  BY UsedIs
<1>2. o.followed => Through(o.latest) = n
  BY <1>0 DEF OpensOK
<1>3. o.followed => IsOpen(o.latest) /\ file[o.latest].open = n
  BY <1>1, <1>2 DEF Through
<1>4. file \in [Fds -> [path : Paths, open : Nat] \cup {Closed}]
  BY DEF TablesOK
<1>5. /\ o.latest \in Fds /\ o.bytes \in Nat /\ o.followed \in BOOLEAN /\ o.duplicated \in BOOLEAN
      /\ o = [latest |-> o.latest, start |-> o.start, bytes |-> o.bytes,
              duplicated |-> o.duplicated, followed |-> o.followed]
  BY <1>0, <1>1 DEF Open
<1>6. /\ c.op \in {"openat", "read", "copy_file_range", "close", "dup2", "getdents64"}
      /\ c.op = "dup2" => c.newfd \in Fds
      /\ c.op \in Reads \cup {"dup2", "close", "getdents64"} => c.fd \in Fds
  BY <1>0, ExitIs, CallIs
<1>7. CASE e.retval = -1 /\ p = o /\ file' = file
  BY <1>0, <1>1, <1>2, <1>5, <1>7 DEF Through, IsOpen
<1>8. CASE /\ e.retval \in Results(c) /\ e.retval \in Nat /\ p = Used(c, e.retval, n)
           /\ file' = file_after(c, e.retval)
  <2>1. CASE LeftBehind(c, n)
    <3>1. p = [o EXCEPT !.followed = FALSE]
      BY <1>0, <1>8, <2>1 DEF Used
    <3>2. p \in Open
      BY <1>0, <1>1, <3>1 DEF Open
    <3>3. p.start = o.start /\ p.bytes = o.bytes /\ p.followed = FALSE
      BY <1>5, <3>1
    <3> QED
      BY <1>0, <1>5, <3>2, <3>3
  <2>2. CASE ~LeftBehind(c, n) /\ c.op \in Reads /\ Through(c.fd) = n
    <3>1. p = [o EXCEPT !.bytes = @ + e.retval] /\ file' = file
      BY <1>0, <1>8, <2>2 DEF Used, file_after, Reads
    <3>2. p \in Open
      BY <1>0, <1>1, <1>8, <3>1 DEF Open
    <3>3. p.start = o.start /\ p.bytes = o.bytes + e.retval /\ p.followed = o.followed /\ p.latest = o.latest
      BY <1>5, <3>1
    <3>4. Through(p.latest)' = Through(o.latest)
      BY <3>1, <3>3 DEF Through, IsOpen
    <3> QED
      BY <1>0, <1>2, <1>5, <1>8, <3>2, <3>3, <3>4
  <2>3. CASE ~LeftBehind(c, n) /\ c.op = "dup2" /\ Through(c.fd) = n
    <3>1. p = [o EXCEPT !.latest = c.newfd, !.duplicated = TRUE] /\ file' = [file EXCEPT ![c.newfd] = file[c.fd]]
      BY <1>0, <1>8, <2>3 DEF Used, file_after, Reads
    <3>2. p \in Open
      BY <1>0, <1>1, <1>6, <2>3, <3>1 DEF Open
    <3>3. p.start = o.start /\ p.bytes = o.bytes /\ p.followed = o.followed /\ p.latest = c.newfd
      BY <1>5, <3>1
    <3>4. file'[c.newfd] = file[c.fd]
      BY <1>4, <1>6, <2>3, <3>1
    <3>5. Through(p.latest)' = Through(c.fd)
      BY <3>3, <3>4 DEF Through, IsOpen
    <3> QED
      BY <1>0, <1>5, <2>3, <3>2, <3>3, <3>5
  <2>4. CASE ~LeftBehind(c, n) /\ ~(c.op \in Reads /\ Through(c.fd) = n)
             /\ ~(c.op = "dup2" /\ Through(c.fd) = n)
    <3>1. p = o
      BY <1>0, <1>8, <2>4 DEF Used
    <3>2. ASSUME o.followed PROVE file'[o.latest] = file[o.latest]
      <4>1. CASE c.op = "openat"
        <5>1. ~IsOpen(e.retval) /\ e.retval \in Fds
          BY <1>8, <4>1, ExitIs, ResultIs, <1>0
        <5>2. e.retval # o.latest
          BY <1>3, <3>2, <5>1
        <5>3. file' = [file EXCEPT ![e.retval] = [path |-> c.path, open |-> Number(c)]]
          BY <1>8, <4>1 DEF file_after
        <5> QED
          BY <1>4, <1>5, <5>2, <5>3
      <4>2. CASE c.op = "dup2"
        <5>1. c.newfd # o.latest
          BY <1>0, <2>4, <4>2 DEF LeftBehind
        <5>2. file' = [file EXCEPT ![c.newfd] = file[c.fd]]
          BY <1>8, <4>2 DEF file_after
        <5> QED
          BY <1>4, <1>5, <5>1, <5>2
      <4>3. CASE c.op = "close"
        <5>1. c.fd # o.latest
          BY <1>0, <2>4, <4>3 DEF LeftBehind
        <5>2. file' = [file EXCEPT ![c.fd] = Closed]
          BY <1>8, <4>3 DEF file_after
        <5> QED
          BY <1>4, <1>5, <5>1, <5>2
      <4>4. CASE c.op \notin {"openat", "dup2", "close"}
        BY <1>8, <4>4 DEF file_after
      <4> QED
        BY <4>1, <4>2, <4>3, <4>4
    <3>3. o.followed => Through(o.latest)' = Through(o.latest)
      BY <3>2 DEF Through, IsOpen
    <3>4. o \in Open
      BY <1>0, <1>1
    <3> QED
      BY <1>0, <1>2, <1>5, <3>1, <3>3, <3>4
  <2> QED
    BY <2>1, <2>2, <2>3, <2>4
<1> QED
  BY <1>0, <1>1, <1>7, <1>8


\* A match goes the way of its open, as long as that is followed.
LEMMA Follows ==
  ASSUME TablesOK, OpensOK, NEW e, Exit(e), NEW s \in matches, s.rule_index \in ReadDb,
         s.id \in DOMAIN opened, Account(opened[s.id], s), opened'[s.id].followed
  PROVE  IF opened'[s.id].bytes < Large
         THEN Outcome(s, e).next # 3 /\ Account(opened'[s.id], Moved(s, e))
         ELSE Outcome(s, e).next = 3
<1>0. PICK o, p, c, n : o = opened[n] /\ p = opened'[n] /\ c = e.call /\ n = s.id
  OBVIOUS
<1> SUFFICES IF p.bytes < Large THEN Outcome(s, e).next # 3 /\ Account(p, Moved(s, e))
             ELSE Outcome(s, e).next = 3
  BY <1>0
<1>1. /\ n \in Nat \ {0} /\ o \in Open
      /\ \/ e.retval = -1 /\ p = o
         \/ e.retval \in Results(c) /\ e.retval \in Nat /\ p = Used(c, e.retval, n)
  BY <1>0, UsedIs
<1>2. o.followed /\ Through(o.latest) = n
  BY <1>0, UsedType DEF OpensOK
<1>3. /\ o.latest \in Fds /\ o.bytes \in Nat /\ o.duplicated \in BOOLEAN
      /\ o = [latest |-> o.latest, start |-> o.start, bytes |-> o.bytes,
              duplicated |-> o.duplicated, followed |-> o.followed]
  BY <1>1 DEF Open
<1>4. e \in Event /\ e.retval \in Int
  BY ExitIs
<1>5. /\ s.data = [fd |-> o.latest, bytes |-> o.bytes]
      /\ s.current_state_index = IF o.duplicated THEN 2 ELSE 1
  BY <1>0 DEF Account
<1>6. /\ s.data.fd = o.latest /\ s.data.bytes = o.bytes /\ o.bytes < Large
  <2>1. s.data.bytes \in 0 .. Large - 1
    BY <1>4, DbStep
  <2> QED
    BY <1>5, <2>1, Sizes
<1>7. Last(s.rule_index) = 3
  BY RulesAre, MatchIs
<1>8. ASSUME NEW k \in {-1, 1, 2}, NEW d, Goes(s, e, k, d),
             d = [fd |-> p.latest, bytes |-> p.bytes], p.bytes < Large,
             (IF k = -1 THEN s.current_state_index ELSE k) = IF p.duplicated THEN 2 ELSE 1
      PROVE  IF p.bytes < Large THEN Outcome(s, e).next # 3 /\ Account(p, Moved(s, e))
             ELSE Outcome(s, e).next = 3
  <2>1. Moved(s, e).data = d /\ Moved(s, e).current_state_index = IF k = -1 THEN s.current_state_index ELSE k
    BY <1>4, <1>7, <1>8, MovedIs
  <2>2. Outcome(s, e).next # 3
    BY <1>8 DEF Goes
  <2> QED
    BY <1>8, <2>1, <2>2 DEF Account
<1>9. CASE Uses(s, e)
  <2>1. /\ c.op \in Reads /\ e.retval > 0 /\ c.fd = o.latest
    BY <1>0, <1>6, <1>9 DEF Uses
  <2>2. Through(c.fd) = n /\ p = Used(c, e.retval, n)
    BY <1>1, <1>2, <1>4, <2>1
  <2>3. p = [o EXCEPT !.bytes = @ + e.retval]
    <3>1. c.op # "dup2" /\ c.op # "close"
      BY <2>1 DEF Reads
    <3>2. ~LeftBehind(c, n)
      BY <1>0, <2>1, <3>1 DEF LeftBehind
    <3> QED
      BY <1>0, <2>1, <2>2, <3>2 DEF Used, Reads
  <2>4. p.latest = o.latest /\ p.bytes = o.bytes + e.retval /\ p.duplicated = o.duplicated
    BY <1>3, <2>3
  <2>5. Goes(s, e, IF p.bytes < Large THEN s.current_state_index ELSE 3,
             [fd |-> p.latest, bytes |-> p.bytes])
    BY <1>4, <1>6, <1>9, <2>4, DbStep
  <2>6. CASE p.bytes < Large
    <3>1. s.current_state_index \in {1, 2}
      BY <1>5
    <3> QED
      BY <1>5, <1>8, <2>4, <2>5, <2>6, <3>1
  <2>7. CASE ~(p.bytes < Large)
    BY <2>5, <2>7 DEF Goes
  <2> QED
    BY <2>6, <2>7
<1>10. CASE s.current_state_index = 1 /\ Duplicates(s, e)
  <2>1. c.op = "dup2" /\ e.retval >= 0 /\ c.fd = o.latest
    BY <1>0, <1>6, <1>10 DEF Duplicates
  <2>2. Through(c.fd) = n /\ p = Used(c, e.retval, n) /\ ~o.duplicated
    BY <1>1, <1>2, <1>3, <1>4, <1>5, <1>10, <2>1
  <2>3. p = [o EXCEPT !.latest = c.newfd, !.duplicated = TRUE]
    <3>1. ~LeftBehind(c, n)
      BY <1>0, <2>1, <2>2 DEF LeftBehind, Reads
    <3> QED
      BY <1>0, <2>1, <2>2, <3>1 DEF Used, Reads
  <2>4. p.latest = c.newfd /\ p.bytes = o.bytes /\ p.duplicated = TRUE
    BY <1>3, <2>3
  <2>5. Goes(s, e, 2, [fd |-> c.newfd, bytes |-> o.bytes])
    BY <1>0, <1>4, <1>6, <1>10, DbStep
  <2> QED
    BY <1>6, <1>8, <2>4, <2>5
<1>11. CASE ~Uses(s, e) /\ ~(s.current_state_index = 1 /\ Duplicates(s, e))
  <2>1. Goes(s, e, -1, s.data)
    BY <1>4, <1>11, DbStep
  <2>2. p.latest = o.latest /\ p.bytes = o.bytes /\ p.duplicated = o.duplicated
    <3>1. CASE e.retval = -1 /\ p = o
      BY <3>1
    <3>2. CASE e.retval \in Nat /\ p = Used(c, e.retval, n)
      <4>1. ~LeftBehind(c, n)
        <5>1. CASE LeftBehind(c, n)
          <6>1. p = [o EXCEPT !.followed = FALSE]
            BY <1>0, <3>2, <5>1 DEF Used
          <6> QED
            BY <1>0, <1>3, <6>1
        <5> QED
          BY <5>1
      <4>2. CASE c.op \in Reads /\ Through(c.fd) = n
        <5>1. c.fd = o.latest
          BY <1>0, <4>1, <4>2 DEF LeftBehind
        <5>2. e.retval = 0
          BY <1>0, <1>6, <1>11, <3>2, <4>2, <5>1 DEF Uses
        <5>3. p = [o EXCEPT !.bytes = @ + 0]
          BY <1>0, <3>2, <4>1, <4>2, <5>2 DEF Used, Reads
        <5> QED
          BY <1>3, <5>3
      <4>3. CASE c.op = "dup2" /\ Through(c.fd) = n
        <5>1. c.fd = o.latest /\ ~o.duplicated
          BY <1>0, <4>1, <4>3 DEF LeftBehind
        <5>2. s.current_state_index = 1 /\ Duplicates(s, e)
          BY <1>0, <1>5, <1>6, <3>2, <4>3, <5>1 DEF Duplicates
        <5> QED
          BY <1>11, <5>2
      <4>4. CASE ~(c.op \in Reads /\ Through(c.fd) = n) /\ ~(c.op = "dup2" /\ Through(c.fd) = n)
        <5>1. p = o
          BY <1>0, <3>2, <4>1, <4>4 DEF Used
        <5> QED
          BY <5>1
      <4> QED
        BY <4>2, <4>3, <4>4
    <3> QED
      BY <1>1, <3>1, <3>2
  <2> QED
    BY <1>5, <1>6, <1>8, <2>1, <2>2
<1> QED
  BY <1>9, <1>10, <1>11


\* The account of an open that begins.
Fresh(e) ==
  [latest |-> e.retval, start |-> now, bytes |-> 0, duplicated |-> FALSE, followed |-> TRUE]

LEMMA NewOpen ==
  ASSUME TablesOK, OpensOK, NEW e, Exit(e)
  PROVE  /\ \A n \in DOMAIN opened' : n \in DOMAIN opened \/ (Opens(e) /\ ReadDb # {} /\ n = detection_state_count)
         /\ Opens(e) /\ ReadDb # {} =>
              /\ detection_state_count \in DOMAIN opened' /\ detection_state_count \in Nat \ {0}
              /\ opened'[detection_state_count] = Fresh(e)
              /\ e.retval \in Fds
              /\ file'[e.retval] = [path |-> e.call.path, open |-> detection_state_count]
<1>1. detection_state_count \in Nat /\ Cardinality(Rules) <= detection_state_count
  BY DEF TablesOK
<1>2. ReadDb # {} => detection_state_count # 0
  <2>1. ReadDb # {} => Rules # {} /\ IsFiniteSet(Rules) /\ Cardinality(Rules) \in Nat
    BY RulesAre, KindAssumption
  <2>2. ReadDb # {} => Cardinality(Rules) # 0
    BY <2>1, FS_EmptySet
  <2> QED
    BY <1>1, <2>1, <2>2
<1>3. PICK c : c = e.call
  OBVIOUS
<1>4. Opens(e) /\ ReadDb # {} <=> c.op = "openat" /\ e.retval >= 0 /\ Number(c) # 0
  BY <1>2, <1>3 DEF Opens, Number
<1>5. Opens(e) /\ ReadDb # {} => Number(c) = detection_state_count
  BY <1>3 DEF Opens, Number
<1>6. CASE e.retval = -1 /\ UNCHANGED opened
  <2>1. ~Opens(e)
    BY <1>6 DEF Opens
  <2> QED
    BY <1>6, <2>1
<1>7. CASE e.retval \in Results(c) /\ file' = file_after(c, e.retval) /\ opened' = opened_after(c, e.retval)
  <2>1. e.retval \in Nat /\ (c.op = "openat" => e.retval \in Fds)
    BY <1>3, <1>7, ExitIs, ResultIs
  <2> DEFINE new == IF c.op = "openat" /\ Number(c) # 0 THEN {Number(c)} ELSE {}
  <2>2. opened' = [m \in DOMAIN opened \cup new |->
                     IF m \in new
                     THEN [latest |-> e.retval, start |-> now, bytes |-> 0,
                           duplicated |-> FALSE, followed |-> TRUE]
                     ELSE Used(c, e.retval, m)]
    BY <1>7 DEF opened_after
  <2>3. new = IF Opens(e) /\ ReadDb # {} THEN {detection_state_count} ELSE {}
    BY <1>4, <1>5, <2>1
  <2> HIDE DEF new
  <2>4. \A n \in DOMAIN opened' : n \in DOMAIN opened \/ (Opens(e) /\ ReadDb # {} /\ n = detection_state_count)
    BY <2>2, <2>3
  <2>5. ASSUME Opens(e), ReadDb # {}
        PROVE  /\ detection_state_count \in DOMAIN opened'
               /\ opened'[detection_state_count] = Fresh(e)
    BY <2>2, <2>3, <2>5 DEF Fresh
  <2>6. ASSUME Opens(e), ReadDb # {}
        PROVE  e.retval \in Fds /\ file'[e.retval] = [path |-> c.path, open |-> detection_state_count]
    <3>1. c.op = "openat"
      BY <1>3, <2>6 DEF Opens
    <3>2. file' = [file EXCEPT ![e.retval] = [path |-> c.path, open |-> Number(c)]]
      BY <1>7, <3>1 DEF file_after
    <3>3. file \in [Fds -> [path : Paths, open : Nat] \cup {Closed}]
      BY DEF TablesOK
    <3> QED
      BY <1>5, <2>1, <2>6, <3>1, <3>2, <3>3
  <2> QED
    BY <1>1, <1>2, <1>3, <2>4, <2>5, <2>6
<1> QED
  BY <1>3, <1>6, <1>7 DEF Exit, note

\* The match of such an open.
LEMMA NewMatch ==
  ASSUME TablesOK, HistoryOK, NEW e, Exit(e), Opens(e), NEW r \in ReadDb
  PROVE  /\ detection_state_count < detection_state_count'
         /\ \E t \in matches' :
              /\ t.id = detection_state_count /\ t.rule_index = r /\ t.start_time_ns = now
              /\ t.data = [fd |-> e.retval, bytes |-> 0] /\ t.current_state_index = 1
<1>1. r \in Rules /\ cooldown_ns[r] <= 0 /\ Last(r) = 3 /\ cooldown_ns[r] \in Int
  BY RulesAre
<1>2. First(r, e).next = 1
  BY DbFirst
<1>3. now >= cooldown_until[Pid][r]
  <2>1. cooldown_until[Pid][r] = 0
    BY <1>1 DEF HistoryOK
  <2> QED
    BY <2>1, ExitIs
<1>4. PICK t \in matches' : t.rule_index = r /\ Began(t, e)
  BY <1>1, <1>2, <1>3 DEF Exit, Judged
<1>5. t.id < detection_state_count'
  BY <1>4 DEF Exit, Counts
<1> QED
  BY <1>4, <1>5, BeganIs

LEMMA OpensStay ==
  ASSUME TablesOK, OpensOK, HistoryOK, Idle \/ \E e : Exit(e)
  PROVE  OpensOK'
<1>1. CASE Idle
  <2>1. /\ opened' = opened /\ file' = file /\ detection_state_count' = detection_state_count
        /\ now \in Nat /\ now' \in Nat /\ now <= now'
    BY <1>1, Sizes DEF Idle, TablesOK
  <2>2. \A fd : Through(fd)' = Through(fd)
    BY <2>1 DEF Through, IsOpen
  <2>3. 0 .. now \subseteq 0 .. now'
    BY <2>1
  <2>4. \A o \in Open : o \in Open'
    BY <2>3 DEF Open
  <2>5. \A n \in DOMAIN opened : opened'[n].followed => Through(opened[n].latest)' = n
    <3> TAKE n \in DOMAIN opened
    <3> HAVE opened'[n].followed
    <3>1. Through(opened[n].latest)' = Through(opened[n].latest)
      BY <2>1 DEF Through, IsOpen
    <3> QED
      BY <2>1, <3>1 DEF OpensOK
  <2> QED
    BY <2>1, <2>4, <2>5 DEF OpensOK
<1>2. ASSUME NEW e, Exit(e) PROVE OpensOK'
  <2>1. detection_state_count \in Nat /\ detection_state_count' \in Nat /\ detection_state_count' >= detection_state_count
    BY <1>2 DEF TablesOK, Exit, Counts
  <2>2. Open' = Open
    BY <1>2, ExitIs DEF Open
  <2>3. ASSUME NEW n \in DOMAIN opened
        PROVE  /\ n \in Nat \ {0} /\ n < detection_state_count' /\ opened'[n] \in Open'
               /\ opened'[n].followed => Through(opened[n].latest)' = n
    BY <1>2, <2>1, <2>2, UsedIs, UsedType
  <2>4. ASSUME NEW n, n = detection_state_count, Opens(e), ReadDb # {}
        PROVE  /\ n \in Nat \ {0} /\ n < detection_state_count' /\ opened'[n] \in Open'
               /\ Through(opened[n].latest)' = n
    <3>2. /\ n \in Nat \ {0} /\ opened'[n] = Fresh(e) /\ e.retval \in Fds
          /\ file'[e.retval] = [path |-> e.call.path, open |-> n]
      BY <1>2, <2>4, NewOpen
    <3>3. n < detection_state_count'
      <4>1. PICK r : r \in ReadDb
        BY <2>4
      <4> QED
        BY <1>2, <2>4, <4>1, NewMatch
    <3>4. Fresh(e) \in Open /\ Fresh(e).latest = e.retval
      <4>1. now \in 0 .. now
        BY <1>2, ExitIs
      <4> QED
        BY <3>2, <4>1 DEF Fresh, Open
    <3>5. file'[e.retval] # Closed
      <4>1. e.call.path \in Paths
        BY <1>2, <2>4, ExitIs DEF Opens, Opened
      <4> QED
        BY <3>2, <4>1, ProcessAssumption
    <3>6. Through(opened[n].latest)' = n
      BY <3>2, <3>4, <3>5 DEF Through, IsOpen
    <3> QED
      BY <2>2, <3>2, <3>3, <3>4, <3>6
  <2>5. \A n \in DOMAIN opened' : n \in DOMAIN opened \/ (Opens(e) /\ ReadDb # {} /\ n = detection_state_count)
    BY <1>2, NewOpen
  <2> QED
    BY <2>3, <2>4, <2>5 DEF OpensOK
<1> QED
  BY <1>1, <1>2


LEMMA AccountedStays ==
  ASSUME TablesOK, OpensOK, HistoryOK, Accounted, Idle \/ \E e : Exit(e)
  PROVE  Accounted'
<1>1. CASE Idle
  <2>1. opened' = opened /\ matches' = matches /\ now \in Nat /\ now' \in Nat /\ now <= now'
    BY <1>1, Sizes DEF Idle, TablesOK, matches
  <2> SUFFICES ASSUME NEW n \in DOMAIN opened, NEW r \in ReadDb,
                      opened[n].followed, opened[n].bytes < Large, InTime(r, opened[n].start)'
               PROVE  \E s \in matches : s.id = n /\ s.rule_index = r
                        /\ s.start_time_ns = opened[n].start /\ Account(opened[n], s)
    BY <2>1 DEF Accounted, Account
  <2>2. opened[n].start \in Nat /\ timeout_ns[r] \in Nat
    BY <2>1, RulesAre DEF OpensOK, Open
  <2>3. now' - opened[n].start <= timeout_ns[r]
    BY <2>1 DEF InTime
  <2>4. InTime(r, opened[n].start)
    BY <2>1, <2>2, <2>3 DEF InTime
  <2> QED
    BY <2>4 DEF Accounted
<1>2. ASSUME NEW e, Exit(e) PROVE Accounted'
  <2>1. now' = now /\ now \in Nat /\ e \in Event
    BY <1>2, ExitIs
  <2> SUFFICES ASSUME NEW n, n \in DOMAIN opened', NEW r \in ReadDb, NEW p, p = opened'[n],
                      p.followed, p.bytes < Large, now - p.start <= timeout_ns[r]
               PROVE  \E t \in matches' : t.id = n /\ t.rule_index = r
                        /\ t.start_time_ns = p.start /\ Account(p, t)
    BY <2>1 DEF Accounted, InTime
  <2>2. CASE n \in DOMAIN opened
    <3>1. PICK o : o = opened[n]
      OBVIOUS
    <3>2. /\ o \in Open /\ p \in Open /\ p.start = o.start /\ p.bytes >= o.bytes /\ o.followed
      BY <1>2, <2>2, <3>1, UsedIs, UsedType
    <3>3. o.bytes < Large /\ InTime(r, o.start)
      BY <3>2, Sizes DEF Open, InTime
    <3>4. PICK s \in matches : s.id = n /\ s.rule_index = r /\ s.start_time_ns = o.start /\ Account(o, s)
      BY <2>2, <3>1, <3>2, <3>3 DEF Accounted
    <3>5. Outcome(s, e).next # 3 /\ Account(p, Moved(s, e))
      <4>1. IF opened'[s.id].bytes < Large
            THEN Outcome(s, e).next # 3 /\ Account(opened'[s.id], Moved(s, e))
            ELSE Outcome(s, e).next = 3
        BY <1>2, <2>2, <3>1, <3>4, Follows
      <4> QED
        BY <3>4, <4>1
    <3>6. Stays(s, e)
      <4>1. ~Expired(s)
        BY <3>3, <3>4, MatchIs, RulesAre DEF InTime, Expired
      <4> QED
        BY <3>4, <3>5, <4>1, RulesAre DEF Stays
    <3>7. Moved(s, e) \in matches'
      BY <1>2, <3>6 DEF Exit, Judged
    <3>8. Moved(s, e).id = n /\ Moved(s, e).rule_index = r /\ Moved(s, e).start_time_ns = p.start
      BY <1>2, <3>2, <3>4, LeftIs DEF Exit
    <3> QED
      BY <3>5, <3>7, <3>8
  <2>3. CASE n \notin DOMAIN opened
    <3>1. Opens(e) /\ n = detection_state_count /\ p = Fresh(e)
      BY <1>2, <2>3, NewOpen
    <3>2. PICK t \in matches' : t.id = n /\ t.rule_index = r /\ t.start_time_ns = now
            /\ t.data = [fd |-> e.retval, bytes |-> 0] /\ t.current_state_index = 1
      BY <1>2, <3>1, NewMatch
    <3>3. Account(p, t) /\ p.start = now
      BY <3>1, <3>2 DEF Account, Fresh
    <3> QED
      BY <3>2, <3>3
  <2> QED
    BY <2>2, <2>3
<1> QED
  BY <1>1, <1>2

LEMMA AccountsStay ==
  ASSUME TablesOK, OpensOK, Accounts, Idle \/ \E e : Exit(e)
  PROVE  Accounts'
<1>1. CASE Idle
  BY <1>1 DEF Idle, Accounts, Account, matches
<1>2. ASSUME NEW e, Exit(e) PROVE Accounts'
  <2>1. e \in Event /\ e.pid = Pid /\ e.timestamp_ns = now
    BY <1>2 DEF Exit
  <2> SUFFICES ASSUME NEW t \in matches', t.rule_index \in ReadDb
               PROVE  /\ t.id \in DOMAIN opened'
                      /\ opened'[t.id].followed => Account(opened'[t.id], t)
    BY DEF Accounts, Account
  <2>2. CASE \E s \in matches : Stays(s, e) /\ t = Moved(s, e)
    <3>1. PICK s \in matches : Stays(s, e) /\ t = Moved(s, e)
      BY <2>2
    <3>2. s.rule_index \in ReadDb /\ t.id = s.id
      BY <2>1, <3>1, LeftIs
    <3>3. s.id \in DOMAIN opened /\ (opened[s.id].followed => Account(opened[s.id], s))
      BY <3>2 DEF Accounts
    <3>4. s.id \in DOMAIN opened' /\ (opened'[s.id].followed => opened[s.id].followed)
      BY <1>2, <3>3, UsedIs, UsedType
    <3>5. Outcome(s, e).next # 3
      BY <3>1, <3>2, RulesAre DEF Stays
    <3>6. ASSUME opened'[s.id].followed PROVE Account(opened'[s.id], t)
      <4>1. Account(opened[s.id], s)
        BY <3>3, <3>4, <3>6
      <4>2. IF opened'[s.id].bytes < Large
            THEN Outcome(s, e).next # 3 /\ Account(opened'[s.id], Moved(s, e))
            ELSE Outcome(s, e).next = 3
        BY <1>2, <3>2, <3>3, <3>6, <4>1, Follows
      <4> QED
        BY <3>1, <3>5, <4>2
    <3> QED
      BY <3>2, <3>4, <3>6
  <2>3. CASE Began(t, e)
    <3>1. /\ Opens(e) /\ t.id = detection_state_count /\ t.current_state_index = 1
          /\ t.data = [fd |-> e.retval, bytes |-> 0]
      BY <1>2, <2>3, BeganIs
    <3>2. t.id \in DOMAIN opened' /\ opened'[t.id] = Fresh(e)
      BY <1>2, <3>1, NewOpen
    <3> QED
      BY <3>1, <3>2 DEF Account, Fresh
  <2> QED
    BY <1>2, <2>2, <2>3 DEF Exit, Judged
<1> QED
  BY <1>1, <1>2

\* The read that makes an open's total large, while its window lasts.
LEMMA LargeReported ==
  ASSUME TablesOK, OpensOK, Accounted, NEW e, Exit(e),
         NEW n \in DOMAIN opened, NEW r \in ReadDb, opened'[n].followed,
         opened[n].bytes < Large, opened'[n].bytes >= Large, InTime(r, opened[n].start)
  PROVE  \E d \in detected' : d.id = n /\ d.rule_index = r
<1>1. opened[n].followed /\ opened'[n] \in Open
  BY UsedType
<1>2. PICK s \in matches : /\ s.id = n /\ s.rule_index = r /\ s.start_time_ns = opened[n].start
                           /\ Account(opened[n], s)
  BY <1>1 DEF Accounted
<1>3. Outcome(s, e).next = 3
  <2>1. IF opened'[s.id].bytes < Large
        THEN Outcome(s, e).next # 3 /\ Account(opened'[s.id], Moved(s, e))
        ELSE Outcome(s, e).next = 3
    BY <1>2, Follows
  <2>2. ~(opened'[n].bytes < Large)
    BY <1>1, Sizes DEF Open
  <2> QED
    BY <1>2, <2>1, <2>2
<1>4. ~Expired(s)
  BY <1>2, MatchIs, RulesAre DEF InTime, Expired
<1>5. Finishes(s, e)
  BY <1>2, <1>3, <1>4, RulesAre DEF Finishes
<1> QED
  BY <1>2, <1>5 DEF Exit, Reports

LEMMA ReportedLarge ==
  ASSUME TablesOK, OpensOK, Accounts, NEW e, Exit(e),
         NEW d \in detected', d.rule_index \in ReadDb
  PROVE  /\ d.id \in DOMAIN opened'
         /\ opened'[d.id].followed => opened'[d.id].bytes >= Large
<1>1. CASE \E s \in matches : Finishes(s, e) /\ d.id = s.id /\ d.rule_index = s.rule_index
  <2>1. PICK s \in matches : Finishes(s, e) /\ d.id = s.id /\ d.rule_index = s.rule_index
    BY <1>1
  <2>2. s.id \in DOMAIN opened /\ (opened[s.id].followed => Account(opened[s.id], s))
    BY <2>1 DEF Accounts
  <2>3. /\ s.id \in DOMAIN opened' /\ opened'[s.id] \in Open
        /\ opened'[s.id].followed => opened[s.id].followed
    BY <2>2, UsedIs, UsedType
  <2>4. ASSUME opened'[s.id].followed PROVE opened'[s.id].bytes >= Large
    <3>1. IF opened'[s.id].bytes < Large
          THEN Outcome(s, e).next # 3 /\ Account(opened'[s.id], Moved(s, e))
          ELSE Outcome(s, e).next = 3
      BY <2>1, <2>2, <2>3, <2>4, Follows
    <3>2. Outcome(s, e).next = 3
      BY <2>1, RulesAre DEF Finishes
    <3>3. ~(opened'[s.id].bytes < Large)
      BY <3>1, <3>2
    <3> QED
      BY <2>3, <3>3, Sizes DEF Open
  <2> QED
    BY <2>1, <2>3, <2>4
<1>2. CASE d.rule_index \in Rules /\ First(d.rule_index, e).next = Last(d.rule_index)
  <2>1. PICK r \in ReadDb : r = d.rule_index
    OBVIOUS
  <2>2. First(r, e).next # 3
    BY DbFirst
  <2> QED
    BY <1>2, <2>1, <2>2, RulesAre
<1> QED
  BY <1>1, <1>2 DEF Exit, Reports


-----------------------------------------------------------------------------
(* The history of scans and visits.                                        *)

LEMMA KeptIs ==
  ASSUME NEW S
  PROVE  /\ Kept(S) \subseteq S
         /\ \A r \in Count \cup Traversal, v \in S : v.at >= now - timeout_ns[r] => v \in Kept(S)
  BY DEF Kept, Recent

NewestScan(e) == [path |-> e.call.path, at |-> now]

LEMMA ScansGrow ==
  ASSUME TablesOK, HistoryOK, NEW e, Exit(e)
  PROVE  /\ \A r \in Count, v \in scans : v.at >= now - timeout_ns[r] => v \in scans'
         /\ Sees(e) /\ Count # {} => NewestScan(e) \in scans'
         /\ \A v \in scans' : v \in scans \/ (Sees(e) /\ v = NewestScan(e))
         /\ Sees(e) => NewestScan(e) \in [path : Paths, at : 0 .. now]
<1>0. PICK c : c = e.call
  OBVIOUS
<1>1. now \in Nat
  BY ExitIs
<1>2. CASE e.retval = -1 /\ UNCHANGED scans
  <2>1. ~Sees(e)
    BY <1>2 DEF Sees, Watched, Opened
  <2> QED
    BY <1>2, <2>1
<1>3. CASE e.retval \in Results(c) /\ scans' = Kept(scans \cup NewScan(c))
  <2>1. e.retval \in Nat
    BY <1>0, <1>3, ExitIs, ResultIs
  <2>2. Sees(e) => NewScan(c) = {NewestScan(e)}
    BY <1>0 DEF Sees, Watched, Opened, NewScan, NewestScan
  <2>3. ~Sees(e) => NewScan(c) = {}
    BY <1>0, <2>1 DEF Sees, Watched, Opened, NewScan
  <2>4. \A r \in Count, v \in scans : v.at >= now - timeout_ns[r] => v \in scans'
    BY <1>3, KeptIs
  <2>5. \A v \in scans' : v \in scans \/ (Sees(e) /\ v = NewestScan(e))
    BY <1>3, <2>2, <2>3, KeptIs
  <2>6. ASSUME Sees(e), NEW r \in Count PROVE NewestScan(e) \in scans'
    <3>1. timeout_ns[r] \in Nat
      BY RulesAre
    <3>2. NewestScan(e).at >= now - timeout_ns[r]
      BY <1>1, <3>1 DEF NewestScan
    <3>3. NewestScan(e) \in scans \cup NewScan(c)
      BY <2>2, <2>6
    <3> QED
      BY <1>3, <3>2, <3>3, KeptIs
  <2>7. Sees(e) => NewestScan(e) \in [path : Paths, at : 0 .. now]
    <3>1. Sees(e) => e.call.path \in Paths
      BY ExitIs DEF Sees, Watched
    <3> QED
      BY <1>1, <3>1 DEF NewestScan
  <2> QED
    BY <2>4, <2>5, <2>6, <2>7
<1> QED
  BY <1>0, <1>2, <1>3 DEF Exit, note

Reading(e) == e.call.op = "getdents64" /\ e.retval > 0

NewestVisit(e) ==
  [path |-> e.call.path, at |-> now, began |-> IF fresh.fd = e.call.fd THEN fresh.at ELSE -1]

LEMMA VisitsGrow ==
  ASSUME TablesOK, HistoryOK, NEW e, Exit(e)
  PROVE  /\ \A r \in Traversal, v \in visits : v.at >= now - timeout_ns[r] => v \in visits'
         /\ Reading(e) /\ Traversal # {} => NewestVisit(e) \in visits'
         /\ \A v \in visits' : v \in visits \/ (Reading(e) /\ v = NewestVisit(e))
         /\ Reading(e) => NewestVisit(e) \in [path : Paths, at : 0 .. now, began : -1 .. now]
<1>0. PICK c : c = e.call
  OBVIOUS
<1>1. now \in Nat
  BY ExitIs
<1>2. CASE e.retval = -1 /\ UNCHANGED visits
  <2>1. ~Reading(e)
    BY <1>2 DEF Reading
  <2> QED
    BY <1>2, <2>1
<1>3. CASE e.retval \in Results(c) /\ visits' = Kept(visits \cup NewVisit(c, e.retval))
  <2>2. Reading(e) => NewVisit(c, e.retval) = {NewestVisit(e)}
    BY <1>0 DEF Reading, NewVisit, NewestVisit
  <2>3. ~Reading(e) => NewVisit(c, e.retval) = {}
    BY <1>0 DEF Reading, NewVisit
  <2>4. \A r \in Traversal, v \in visits : v.at >= now - timeout_ns[r] => v \in visits'
    BY <1>3, KeptIs
  <2>5. \A v \in visits' : v \in visits \/ (Reading(e) /\ v = NewestVisit(e))
    BY <1>3, <2>2, <2>3, KeptIs
  <2>6. ASSUME Reading(e), NEW r \in Traversal PROVE NewestVisit(e) \in visits'
    <3>1. timeout_ns[r] \in Nat
      BY RulesAre
    <3>2. NewestVisit(e).at >= now - timeout_ns[r]
      BY <1>1, <3>1 DEF NewestVisit
    <3>3. NewestVisit(e) \in visits \cup NewVisit(c, e.retval)
      BY <2>2, <2>6
    <3> QED
      BY <1>3, <3>2, <3>3, KeptIs
  <2>7. Reading(e) => NewestVisit(e) \in [path : Paths, at : 0 .. now, began : -1 .. now]
    <3>1. Reading(e) => e.call.path \in Paths
      BY ExitIs, CallIs DEF Reading
    <3>2. fresh.at \in -1 .. now
      BY <1>1 DEF HistoryOK, NoneFresh
    <3> QED
      BY <1>1, <3>1, <3>2 DEF NewestVisit
  <2> QED
    BY <2>4, <2>5, <2>6, <2>7
<1> QED
  BY <1>0, <1>2, <1>3 DEF Exit, note

LEMMA HistoryStays ==
  ASSUME TablesOK, HistoryOK, Idle \/ \E e : Exit(e)
  PROVE  HistoryOK'
<1>1. CASE Idle
  <2>1. /\ scans' = scans /\ visits' = visits /\ fresh' = fresh /\ told' = told
        /\ cooldown_until' = cooldown_until
    BY <1>1 DEF Idle
  <2>2. 0 .. now \subseteq 0 .. now' /\ -1 .. now \subseteq -1 .. now'
    <3>1. now \in Nat /\ now' \in Nat /\ now <= now'
      BY <1>1, Sizes DEF Idle, TablesOK
    <3> QED
      BY <3>1
  <2> QED
    BY <2>1, <2>2 DEF HistoryOK
<1>2. ASSUME NEW e, Exit(e) PROVE HistoryOK'
  <2>1. now' = now /\ now \in Nat
    BY <1>2, ExitIs
  <2>2. IsFiniteSet(scans') /\ scans' \subseteq [path : Paths, at : 0 .. now]
    <3>1. scans' \subseteq scans \cup {NewestScan(e)}
      BY <1>2, ScansGrow
    <3>2. IsFiniteSet(scans \cup {NewestScan(e)})
      BY FS_AddElement DEF HistoryOK
    <3>3. IsFiniteSet(scans')
      BY <3>1, <3>2, FS_Subset
    <3> QED
      BY <1>2, <3>3, ScansGrow DEF HistoryOK
  <2>3. IsFiniteSet(visits') /\ visits' \subseteq [path : Paths, at : 0 .. now, began : -1 .. now]
    <3>1. visits' \subseteq visits \cup {NewestVisit(e)}
      BY <1>2, VisitsGrow
    <3>2. IsFiniteSet(visits \cup {NewestVisit(e)})
      BY FS_AddElement DEF HistoryOK
    <3>3. IsFiniteSet(visits')
      BY <3>1, <3>2, FS_Subset
    <3> QED
      BY <1>2, <3>3, VisitsGrow DEF HistoryOK
  <2>4. fresh' \in [fd : Fds, at : 0 .. now] \cup {NoneFresh}
    <3>1. CASE UNCHANGED fresh
      BY <3>1 DEF HistoryOK
    <3>2. CASE e.retval \in Results(e.call) /\ fresh' = fresh_after(e.call, e.retval)
      <4>1. CASE e.call.op = "openat" /\ ~path_skip(e.call.path)
        <5>1. fresh' = [fd |-> e.retval, at |-> now]
          BY <3>2, <4>1 DEF fresh_after
        <5>2. e.retval \in Fds
          BY <1>2, <3>2, <4>1, ExitIs, ResultIs
        <5> QED
          BY <2>1, <5>1, <5>2
      <4>2. CASE ~(e.call.op = "openat" /\ ~path_skip(e.call.path))
        <5>1. fresh' = NoneFresh \/ fresh' = fresh
          BY <3>2, <4>2 DEF fresh_after
        <5> QED
          BY <5>1 DEF HistoryOK
      <4> QED
        BY <4>1, <4>2
    <3> QED
      BY <1>2, <3>1, <3>2 DEF Exit, note
  <2>5. told' = [r \in Rules |-> IF Reporting(r) THEN now ELSE told[r]]
    BY <1>2 DEF Exit, Reported, Reporting
  <2>6. told' \in [Rules -> -1 .. now]
    <3>1. told \in [Rules -> -1 .. now] /\ now \in -1 .. now
      BY <2>1 DEF HistoryOK
    <3> QED
      BY <2>5, <3>1
  <2>7. ASSUME NEW r \in Rules, cooldown_until'[Pid][r] # 0
        PROVE  /\ cooldown_ns[r] > 0 /\ told'[r] # -1
               /\ cooldown_until'[Pid][r] = told'[r] + cooldown_ns[r]
    <3>1. told'[r] = IF Reporting(r) THEN now ELSE told[r]
      BY <2>5
    <3>2. CASE /\ Reporting(r) /\ cooldown_ns[r] > 0
               /\ cooldown_until'[Pid][r] = now + cooldown_ns[r]
      BY <2>1, <3>1, <3>2
    <3>3. CASE /\ ~(Reporting(r) /\ cooldown_ns[r] > 0)
               /\ cooldown_until'[Pid][r] \in {0, cooldown_until[Pid][r]}
      <4>1. /\ cooldown_until'[Pid][r] = cooldown_until[Pid][r] /\ cooldown_ns[r] > 0
            /\ told[r] # -1 /\ cooldown_until[Pid][r] = told[r] + cooldown_ns[r]
        BY <2>7, <3>3 DEF HistoryOK
      <4> QED
        BY <3>1, <3>3, <4>1
    <3> QED
      BY <1>2, <3>2, <3>3 DEF Exit, Counts
  <2> QED
    BY <2>1, <2>2, <2>3, <2>4, <2>6, <2>7 DEF HistoryOK
<1> QED
  BY <1>1, <1>2


LEMMA PathsFinite ==
  ASSUME NEW S, IsFiniteSet(S)
  PROVE  IsFiniteSet({v.path : v \in S})
<1> DEFINE T == {v.path : v \in S}
           f == [v \in S |-> v.path]
<1>1. f \in [S -> T] /\ \A t \in T : \E v \in S : f[v] = t
  OBVIOUS
<1>2. f \in Surjection(S, T)
  BY <1>1 DEF Surjection
<1> QED
  BY <1>2, FS_Surjection

LEMMA SinceFinite ==
  ASSUME HistoryOK, NEW s
  PROVE  IsFiniteSet(Since(scans, s)) /\ IsFiniteSet(Since(visits, s))
<1>1. IsFiniteSet({w \in scans : w.at >= s.start_time_ns}) /\ IsFiniteSet({w \in visits : w.at >= s.start_time_ns})
  BY FS_Subset DEF HistoryOK
<1> QED
  BY <1>1, PathsFinite DEF Since

\* The paths of a match are finitely many, and few.
LEMMA PathsFew ==
  ASSUME TablesOK, HistoryOK, Counted, NEW s \in matches, s.rule_index \in Count \cup Traversal
  PROVE  Few(s.data.paths, Threshold)
<1>1. s.data.paths \subseteq Since(scans, s) \/ s.data.paths \subseteq Since(visits, s)
  BY DEF Counted
<1>2. IsFiniteSet(s.data.paths)
  BY <1>1, SinceFinite, FS_Subset
<1>3. MatchOK(s)
  BY DEF TablesOK
<1>4. s.data.paths \subseteq Paths /\ Cardinality(s.data.paths) < Threshold
  <2>1. CASE s.rule_index \in Count
    BY <1>3, <2>1 DEF MatchOK
  <2>2. CASE s.rule_index \in Traversal
    BY <1>3, <2>2 DEF MatchOK
  <2> QED
    BY <2>1, <2>2
<1> QED
  BY <1>2, <1>4 DEF Few

\* What a match has counted at the end of event e.
LEMMA ScanKeeps ==
  ASSUME TablesOK, HistoryOK, Counted, NEW e, Exit(e), NEW s \in matches,
         s.rule_index \in Count, ~Expired(s)
  PROVE  /\ s.data.paths \subseteq Since(scans', s)
         /\ Sees(e) => e.call.path \in Since(scans', s)
<1>1. now \in Nat /\ s.start_time_ns \in Nat /\ s.start_time_ns <= now
  BY ExitIs, MatchIs
<1>2. timeout_ns[s.rule_index] \in Nat
  BY RulesAre
<1>3. ASSUME NEW p \in s.data.paths PROVE p \in Since(scans', s)
  <2>1. PICK v \in scans : v.at >= s.start_time_ns /\ v.path = p
    BY <1>3 DEF Counted, Since
  <2>2. v.at \in Nat
    BY <1>1 DEF HistoryOK
  <2>3. v.at >= now - timeout_ns[s.rule_index]
    BY <1>1, <1>2, <2>1, <2>2 DEF Expired
  <2>4. v \in scans'
    BY <2>3, ScansGrow
  <2> QED
    BY <2>1, <2>4 DEF Since
<1>4. ASSUME Sees(e) PROVE e.call.path \in Since(scans', s)
  <2>1. NewestScan(e) \in scans' /\ NewestScan(e).at = now /\ NewestScan(e).path = e.call.path
    BY <1>4, ScansGrow DEF NewestScan
  <2>2. NewestScan(e).at >= s.start_time_ns
    BY <1>1, <2>1
  <2> QED
    BY <2>1, <2>2 DEF Since
<1> QED
  BY <1>3, <1>4

LEMMA WalkKeeps ==
  ASSUME TablesOK, HistoryOK, Counted, NEW e, Exit(e), NEW s \in matches,
         s.rule_index \in Traversal, ~Expired(s)
  PROVE  /\ s.data.paths \subseteq Since(visits', s)
         /\ Reading(e) => e.call.path \in Since(visits', s)
<1>1. now \in Nat /\ s.start_time_ns \in Nat /\ s.start_time_ns <= now
  BY ExitIs, MatchIs
<1>2. timeout_ns[s.rule_index] \in Nat
  BY RulesAre
<1>3. ASSUME NEW p \in s.data.paths PROVE p \in Since(visits', s)
  <2>1. PICK v \in visits : v.at >= s.start_time_ns /\ v.path = p
    BY <1>3 DEF Counted, Since
  <2>2. v.at \in Nat
    BY <1>1 DEF HistoryOK
  <2>3. v.at >= now - timeout_ns[s.rule_index]
    BY <1>1, <1>2, <2>1, <2>2 DEF Expired
  <2>4. v \in visits'
    BY <2>3, VisitsGrow
  <2> QED
    BY <2>1, <2>4 DEF Since
<1>4. ASSUME Reading(e) PROVE e.call.path \in Since(visits', s)
  <2>1. NewestVisit(e) \in visits' /\ NewestVisit(e).at = now /\ NewestVisit(e).path = e.call.path
    BY <1>4, VisitsGrow DEF NewestVisit
  <2>2. NewestVisit(e).at >= s.start_time_ns
    BY <1>1, <2>1
  <2> QED
    BY <2>1, <2>2 DEF Since
<1> QED
  BY <1>3, <1>4

\* What survives has counted the paths it had, and the one of the event.
LEMMA ScanStays ==
  ASSUME TablesOK, NEW s \in matches, s.rule_index \in Count, NEW e \in Event, Stays(s, e)
  PROVE  Moved(s, e).data.paths = IF Sees(e) THEN s.data.paths \cup {e.call.path} ELSE s.data.paths
<1>1. CASE Sees(e)
  <2>1. Goes(s, e, IF Cardinality(s.data.paths \cup {e.call.path}) < Threshold THEN 0 ELSE 1,
             [paths |-> s.data.paths \cup {e.call.path}])
    BY <1>1, ScanStep
  <2>2. Moved(s, e).data = [paths |-> s.data.paths \cup {e.call.path}]
    BY <2>1, MovedIs
  <2> QED
    BY <1>1, <2>2
<1>2. CASE ~Sees(e)
  <2>1. Goes(s, e, -1, s.data)
    BY <1>2, ScanStep
  <2> QED
    BY <1>2, <2>1, MovedIs
<1> QED
  BY <1>1, <1>2

LEMMA WalkStays ==
  ASSUME TablesOK, NEW s \in matches, s.rule_index \in Traversal, NEW e \in Event, Stays(s, e)
  PROVE  LET m == Moved(s, e)
         IN  /\ Watched(e) => /\ m.current_state_index = 1 /\ m.data.fd = e.retval
                              /\ m.data.paths = s.data.paths
             /\ s.current_state_index = 0 /\ ~Watched(e) =>
                  m.current_state_index = 0 /\ m.data = s.data
             /\ s.current_state_index = 1 /\ Closes(e) =>
                  /\ m.current_state_index = IF e.call.fd = s.data.fd THEN 0 ELSE 1
                  /\ m.data = s.data
             /\ s.current_state_index = 1 /\ Lists(s, e) =>
                  /\ m.current_state_index = 0 /\ m.data.fd = s.data.fd
                  /\ m.data.paths = s.data.paths \cup {e.call.path}
             /\ s.current_state_index = 1 /\ ~Watched(e) /\ ~Closes(e) /\ ~Lists(s, e) =>
                  m.current_state_index = 1 /\ m.data = s.data
<1>1. Last(s.rule_index) = 2
  BY RulesAre, MatchIs
<1>2. ASSUME NEW k \in {-1, 0, 1, 2}, NEW d, Goes(s, e, k, d)
      PROVE  /\ k # 2 /\ Moved(s, e).data = d
             /\ Moved(s, e).current_state_index = IF k = -1 THEN s.current_state_index ELSE k
  <2>1. k # 2
    BY <1>1, <1>2 DEF Goes, Stays
  <2> QED
    BY <1>1, <1>2, <2>1, MovedIs
<1>3. CASE Watched(e)
  <2>1. Goes(s, e, 1, [fd |-> e.retval, paths |-> s.data.paths])
    BY <1>3, WalkStep
  <2>2. /\ Moved(s, e).data = [fd |-> e.retval, paths |-> s.data.paths]
        /\ Moved(s, e).current_state_index = 1
    BY <1>2, <2>1
  <2>3. ~Closes(e) /\ ~Lists(s, e)
    BY <1>3 DEF Watched, Opened, Closes, Lists
  <2> QED
    BY <1>3, <2>2, <2>3
<1>4. CASE s.current_state_index = 0 /\ ~Watched(e)
  <2>1. Goes(s, e, -1, s.data)
    BY <1>4, WalkStep
  <2> QED
    BY <1>2, <1>4, <2>1
<1>5. CASE s.current_state_index = 1 /\ Closes(e)
  <2>1. Goes(s, e, IF e.call.fd = s.data.fd THEN 0 ELSE 1, s.data)
    BY <1>5, WalkStep
  <2>2. ~Watched(e) /\ ~Lists(s, e)
    BY <1>5 DEF Watched, Opened, Closes, Lists
  <2> QED
    BY <1>2, <1>5, <2>1, <2>2
<1>6. CASE s.current_state_index = 1 /\ Lists(s, e)
  <2>1. Goes(s, e, IF Cardinality(s.data.paths \cup {e.call.path}) < Threshold THEN 0 ELSE 2,
             [fd |-> s.data.fd, paths |-> s.data.paths \cup {e.call.path}])
    BY <1>6, WalkStep
  <2>2. ~Watched(e) /\ ~Closes(e)
    BY <1>6 DEF Watched, Opened, Closes, Lists
  <2>3. /\ Moved(s, e).data = [fd |-> s.data.fd, paths |-> s.data.paths \cup {e.call.path}]
        /\ Moved(s, e).current_state_index = 0
    BY <1>2, <2>1
  <2> QED
    BY <1>6, <2>2, <2>3
<1>7. CASE s.current_state_index = 1 /\ ~Watched(e) /\ ~Closes(e) /\ ~Lists(s, e)
  <2>1. Goes(s, e, -1, s.data)
    BY <1>7, WalkStep
  <2> QED
    BY <1>2, <1>7, <2>1
<1> QED
  BY <1>3, <1>4, <1>5, <1>6, <1>7, WalkStep


LEMMA CountedStays ==
  ASSUME TablesOK, HistoryOK, Counted, Idle \/ \E e : Exit(e)
  PROVE  Counted'
<1>1. CASE Idle
  BY <1>1 DEF Idle, Counted, matches, Since
<1>2. ASSUME NEW e, Exit(e) PROVE Counted'
  <2>1. e \in Event /\ e.pid = Pid /\ e.timestamp_ns = now
    BY <1>2 DEF Exit
  <2> SUFFICES ASSUME NEW t \in matches'
               PROVE  /\ t.rule_index \in Count => t.data.paths \subseteq Since(scans', t)
                      /\ t.rule_index \in Traversal => t.data.paths \subseteq Since(visits', t)
    BY DEF Counted, Since
  <2>2. CASE \E s \in matches : Stays(s, e) /\ t = Moved(s, e)
    <3>1. PICK s \in matches : Stays(s, e) /\ t = Moved(s, e)
      BY <2>2
    <3>2. t.rule_index = s.rule_index /\ t.start_time_ns = s.start_time_ns /\ ~Expired(s)
      BY <2>1, <3>1, LeftIs DEF Stays
    <3>3. Since(scans', t) = Since(scans', s) /\ Since(visits', t) = Since(visits', s)
      BY <3>2 DEF Since
    <3>4. ASSUME s.rule_index \in Count PROVE t.data.paths \subseteq Since(scans', t)
      <4>1. t.data.paths = IF Sees(e) THEN s.data.paths \cup {e.call.path} ELSE s.data.paths
        BY <2>1, <3>1, <3>4, ScanStays
      <4>2. /\ s.data.paths \subseteq Since(scans', s)
            /\ Sees(e) => e.call.path \in Since(scans', s)
        BY <1>2, <3>2, <3>4, ScanKeeps
      <4> QED
        BY <3>3, <4>1, <4>2
    <3>5. ASSUME s.rule_index \in Traversal PROVE t.data.paths \subseteq Since(visits', t)
      <4>1. \/ t.data.paths = s.data.paths
            \/ Lists(s, e) /\ t.data.paths = s.data.paths \cup {e.call.path}
        <5>1. s.current_state_index \in {0, 1}
          BY <2>1, <3>5, WalkStep
        <5> QED
          BY <2>1, <3>1, <3>5, <5>1, WalkStays
      <4>2. /\ s.data.paths \subseteq Since(visits', s)
            /\ Reading(e) => e.call.path \in Since(visits', s)
        BY <1>2, <3>2, <3>5, WalkKeeps
      <4>3. Lists(s, e) => Reading(e)
        BY DEF Lists, Reading
      <4> QED
        BY <3>3, <4>1, <4>2, <4>3
    <3> QED
      BY <3>2, <3>4, <3>5
  <2>3. CASE Began(t, e)
    <3>1. t.start_time_ns = now /\ now \in Nat
      BY <1>2, <2>3, BeganIs, ExitIs
    <3>2. ASSUME t.rule_index \in Count PROVE t.data.paths \subseteq Since(scans', t)
      <4>0. Sees(e) /\ t.data = [paths |-> {e.call.path}]
        BY <1>2, <2>3, <3>2, BeganIs
      <4>1. Sees(e) /\ t.data.paths = {e.call.path}
        BY <4>0
      <4>2. NewestScan(e) \in scans' /\ NewestScan(e).at = now /\ NewestScan(e).path = e.call.path
        BY <1>2, <3>2, <4>1, ScansGrow DEF NewestScan
      <4>3. NewestScan(e).at >= t.start_time_ns
        BY <3>1, <4>2
      <4>4. e.call.path \in Since(scans', t)
        BY <4>2, <4>3 DEF Since
      <4> QED
        BY <4>1, <4>4
    <3>3. t.rule_index \in Traversal => t.data.paths = {}
      <4>1. t.rule_index \in Traversal => t.data = [fd |-> e.retval, paths |-> {}]
        BY <1>2, <2>3, BeganIs
      <4> QED
        BY <4>1
    <3> QED
      BY <3>2, <3>3
  <2> QED
    BY <1>2, <2>2, <2>3 DEF Exit, Judged
<1> QED
  BY <1>1, <1>2

\* Enough paths in a finite set.
LEMMA Enough ==
  ASSUME NEW S, IsFiniteSet(S), NEW P, P \subseteq S, ~(Cardinality(P) < Threshold)
  PROVE  Cardinality(S) >= Threshold
<1>1. IsFiniteSet(P) /\ Cardinality(P) <= Cardinality(S)
  BY FS_Subset
<1>2. Cardinality(P) \in Nat /\ Cardinality(S) \in Nat
  BY <1>1, FS_CardinalityType
<1> QED
  BY <1>1, <1>2, Sizes

LEMMA ReportedScan ==
  ASSUME TablesOK, HistoryOK, HistoryOK', Counted, NEW e, Exit(e),
         NEW d \in detected', d.rule_index \in Count
  PROVE  Cardinality(Since(scans', d)) >= Threshold
<1>1. e \in Event
  BY ExitIs
<1>2. IsFiniteSet(Since(scans', d))
  <2>1. IsFiniteSet(scans')
    BY DEF HistoryOK
  <2>2. IsFiniteSet({w \in scans' : w.at >= d.start_time_ns})
    BY <2>1, FS_Subset
  <2> QED
    BY <2>2, PathsFinite DEF Since
<1>3. CASE \E s \in matches : /\ Finishes(s, e) /\ d.rule_index = s.rule_index
                              /\ d.start_time_ns = s.start_time_ns
  <2>1. PICK s \in matches : /\ Finishes(s, e) /\ d.rule_index = s.rule_index
                             /\ d.start_time_ns = s.start_time_ns
    BY <1>3
  <2>2. ~Expired(s) /\ Outcome(s, e).next = 1 /\ s.rule_index \in Count
    BY <2>1, RulesAre DEF Finishes
  <2>3. Sees(e)
    <3>1. ~Sees(e) => Goes(s, e, -1, s.data)
      BY <1>1, <2>2, ScanStep
    <3> QED
      BY <2>2, <3>1 DEF Goes
  <2>4. Goes(s, e, IF Cardinality(s.data.paths \cup {e.call.path}) < Threshold THEN 0 ELSE 1,
             [paths |-> s.data.paths \cup {e.call.path}])
    BY <1>1, <2>2, <2>3, ScanStep
  <2>5. ~(Cardinality(s.data.paths \cup {e.call.path}) < Threshold)
    BY <2>2, <2>4 DEF Goes
  <2>6. s.data.paths \cup {e.call.path} \subseteq Since(scans', d)
    <3>1. s.data.paths \subseteq Since(scans', s) /\ e.call.path \in Since(scans', s)
      BY <2>2, <2>3, ScanKeeps
    <3> QED
      BY <2>1, <3>1 DEF Since
  <2> QED
    BY <1>2, <2>5, <2>6, Enough
<1>4. CASE /\ d.rule_index \in Rules /\ d.start_time_ns = now
           /\ First(d.rule_index, e).next = Last(d.rule_index)
  <2>1. First(d.rule_index, e).next = 1
    BY <1>4, RulesAre
  <2>2. Sees(e) /\ Threshold = 1
    <3>1. /\ Sees(e) => First(d.rule_index, e).next = IF Threshold = 1 THEN 1 ELSE 0
          /\ ~Sees(e) => First(d.rule_index, e).next = -1
      BY ScanFirst
    <3> QED
      BY <2>1, <3>1
  <2>3. NewestScan(e) \in scans' /\ NewestScan(e).at = now /\ NewestScan(e).path = e.call.path
    BY <2>2, ScansGrow DEF NewestScan
  <2>4. NewestScan(e).at >= d.start_time_ns
    BY <1>4, <2>3, ExitIs
  <2>5. {e.call.path} \subseteq Since(scans', d)
    BY <2>3, <2>4 DEF Since
  <2>6. ~(Cardinality({e.call.path}) < Threshold)
    <3>1. Cardinality({e.call.path}) = 1
      BY FS_Singleton
    <3> QED
      BY <2>2, <3>1
  <2> QED
    BY <1>2, <2>5, <2>6, Enough
<1> QED
  BY <1>3, <1>4 DEF Exit, Reports

LEMMA ReportedWalk ==
  ASSUME TablesOK, HistoryOK, HistoryOK', Counted, NEW e, Exit(e),
         NEW d \in detected', d.rule_index \in Traversal
  PROVE  Cardinality(Since(visits', d)) >= Threshold
<1>1. e \in Event
  BY ExitIs
<1>2. IsFiniteSet(Since(visits', d))
  <2>1. IsFiniteSet(visits')
    BY DEF HistoryOK
  <2>2. IsFiniteSet({w \in visits' : w.at >= d.start_time_ns})
    BY <2>1, FS_Subset
  <2> QED
    BY <2>2, PathsFinite DEF Since
<1>3. CASE \E s \in matches : /\ Finishes(s, e) /\ d.rule_index = s.rule_index
                              /\ d.start_time_ns = s.start_time_ns
  <2>1. PICK s \in matches : /\ Finishes(s, e) /\ d.rule_index = s.rule_index
                             /\ d.start_time_ns = s.start_time_ns
    BY <1>3
  <2>2. ~Expired(s) /\ Outcome(s, e).next = 2 /\ s.rule_index \in Traversal
    BY <2>1, RulesAre DEF Finishes
  <2>3. s.current_state_index = 1 /\ Lists(s, e)
    <3>1. \A k, data : Goes(s, e, k, data) => k = 2
      BY <2>2 DEF Goes
    <3>2. ~Watched(e)
      <4>1. Watched(e) => Goes(s, e, 1, [fd |-> e.retval, paths |-> s.data.paths])
        BY <1>1, <2>2, WalkStep
      <4> QED
        BY <3>1, <4>1
    <3>3. s.current_state_index = 1
      <4>1. /\ s.current_state_index \in {0, 1}
            /\ s.current_state_index = 0 => Goes(s, e, -1, s.data)
        BY <1>1, <2>2, <3>2, WalkStep
      <4> QED
        BY <3>1, <4>1
    <3>4. ~Closes(e)
      <4>1. Closes(e) => Goes(s, e, IF e.call.fd = s.data.fd THEN 0 ELSE 1, s.data)
        BY <1>1, <2>2, <3>3, WalkStep
      <4>2. (IF e.call.fd = s.data.fd THEN 0 ELSE 1) # 2
        OBVIOUS
      <4> QED
        BY <3>1, <4>1, <4>2
    <3>5. ~Lists(s, e) => Goes(s, e, -1, s.data)
      BY <1>1, <2>2, <3>2, <3>3, <3>4, WalkStep
    <3> QED
      BY <3>1, <3>3, <3>5
  <2>4. Goes(s, e, IF Cardinality(s.data.paths \cup {e.call.path}) < Threshold THEN 0 ELSE 2,
             [fd |-> s.data.fd, paths |-> s.data.paths \cup {e.call.path}])
    BY <1>1, <2>2, <2>3, WalkStep
  <2>5. ~(Cardinality(s.data.paths \cup {e.call.path}) < Threshold)
    BY <2>2, <2>4 DEF Goes
  <2>6. s.data.paths \cup {e.call.path} \subseteq Since(visits', d)
    <3>1. Reading(e)
      BY <2>3 DEF Lists, Reading
    <3>2. s.data.paths \subseteq Since(visits', s) /\ e.call.path \in Since(visits', s)
      BY <2>2, <3>1, WalkKeeps
    <3> QED
      BY <2>1, <3>2 DEF Since
  <2> QED
    BY <1>2, <2>5, <2>6, Enough
<1>4. CASE /\ d.rule_index \in Rules /\ d.start_time_ns = now
           /\ First(d.rule_index, e).next = Last(d.rule_index)
  <2>1. First(d.rule_index, e).next = 2
    BY <1>4, RulesAre
  <2>2. First(d.rule_index, e).next \in {1, -1}
    BY WalkFirst
  <2> QED
    BY <2>1, <2>2
<1> QED
  BY <1>3, <1>4 DEF Exit, Reports


-----------------------------------------------------------------------------
(* The paths of the window and the matches.                                *)

LEMMA RelevantIs ==
  ASSUME TablesOK, HistoryOK, NEW e, Exit(e), NEW r \in Rules
  PROVE  /\ ~Reporting(r) => \A at : Relevant(r, at)' <=> Relevant(r, at)
         /\ Reporting(r) => \A at \in -1 .. now : ~Relevant(r, at)'
<1>1. now' = now /\ now \in Nat
  BY ExitIs
<1>2. told' = [q \in Rules |-> IF Reporting(q) THEN now ELSE told[q]]
  BY DEF Exit, Reported, Reporting
<1>3. told'[r] = IF Reporting(r) THEN now ELSE told[r]
  BY <1>2
<1>4. ~Reporting(r) => \A at : Relevant(r, at)' <=> Relevant(r, at)
  BY <1>1, <1>3 DEF Relevant, Watching
<1>5. ASSUME Reporting(r), NEW at \in -1 .. now PROVE ~Relevant(r, at)'
  BY <1>1, <1>3, <1>5 DEF Relevant, Watching
<1> QED
  BY <1>4, <1>5

\* When time passes, the window only moves on.
LEMMA RelevantLater ==
  ASSUME TablesOK, Idle, NEW r \in Rules, NEW at \in Int, Relevant(r, at)'
  PROVE  Relevant(r, at)
<1>1. now \in Nat /\ now' \in Nat /\ now <= now' /\ told' = told
  BY Sizes DEF Idle, TablesOK
<1>2. timeout_ns[r] \in Nat
  BY RulesAre
<1> QED
  BY <1>1, <1>2 DEF Relevant, Watching

LEMMA Cooled ==
  ASSUME TablesOK, HistoryOK, NEW r \in Rules, Watching(r, now)
  PROVE  now >= cooldown_until[Pid][r]
<1>1. now \in Nat
  BY Sizes DEF TablesOK
<1>2. CASE cooldown_until[Pid][r] = 0
  BY <1>1, <1>2
<1>3. CASE cooldown_until[Pid][r] # 0
  BY <1>3 DEF HistoryOK, Watching
<1> QED
  BY <1>2, <1>3

\* The matches of a single-active rule after event e.
LEMMA OfAfter ==
  ASSUME TablesOK, OneMatch, NEW e, Exit(e), NEW r \in Rules \ ReadDb
  PROVE  /\ \A s \in Of(r) : Stays(s, e) =>
              \A t : t \in Of(r)' <=> t = Moved(s, e)
         /\ (\A s \in Of(r) : ~Stays(s, e)) => \A t \in Of(r)' : Began(t, e)
         /\ \A s \in Of(r) : ~Stays(s, e) => \A u \in matches : Stays(u, e) => u.rule_index # r
<1>1. Judged(e) /\ e \in Event /\ e.pid = Pid /\ e.timestamp_ns = now
  BY DEF Exit
<1>2. \A t : t \in Of(r)' <=> t \in matches' /\ t.rule_index = r
  BY DEF Of
<1>3. \A t : t \in Of(r) <=> t \in matches /\ t.rule_index = r
  BY DEF Of
<1>4. \A s, u \in Of(r) : s = u
  BY <1>3 DEF OneMatch
<1>5. ASSUME NEW s \in Of(r), Stays(s, e), NEW t
      PROVE  t \in Of(r)' <=> t = Moved(s, e)
  <2>1. Moved(s, e) \in matches' /\ Moved(s, e).rule_index = r
    BY <1>1, <1>3, <1>5, LeftIs DEF Judged
  <2>2. ASSUME t \in Of(r)' PROVE t = Moved(s, e)
    <3>1. ~Began(t, e)
      BY <1>2, <1>3, <1>5, <2>2 DEF Began
    <3>2. PICK u \in matches : Stays(u, e) /\ t = Moved(u, e)
      BY <1>1, <1>2, <2>2, <3>1 DEF Judged
    <3>3. u \in Of(r)
      BY <1>1, <1>2, <1>3, <2>2, <3>2, LeftIs
    <3> QED
      BY <1>4, <3>2, <3>3
  <2> QED
    BY <1>2, <2>1, <2>2
<1>6. ASSUME \A s \in Of(r) : ~Stays(s, e), NEW t \in Of(r)' PROVE Began(t, e)
  <2>1. CASE \E u \in matches : Stays(u, e) /\ t = Moved(u, e)
    <3>1. PICK u \in matches : Stays(u, e) /\ t = Moved(u, e)
      BY <2>1
    <3>2. u \in Of(r)
      BY <1>1, <1>2, <1>3, <1>6, <3>1, LeftIs
    <3> QED
      BY <1>6, <3>1, <3>2
  <2> QED
    BY <1>1, <1>2, <1>6, <2>1 DEF Judged
<1>7. \A s \in Of(r) : ~Stays(s, e) => \A u \in matches : Stays(u, e) => u.rule_index # r
  BY <1>3, <1>4
<1> QED
  BY <1>5, <1>6, <1>7

LEMMA ScanBegins ==
  ASSUME TablesOK, HistoryOK, NEW e, Exit(e), NEW r \in Count, ~Reporting(r),
         \A s \in matches : Stays(s, e) => s.rule_index # r, Sees(e), Watching(r, now)
  PROVE  \E t \in Of(r)' : e.call.path \in t.data.paths
<1>1. r \in Rules /\ Last(r) = 1
  BY RulesAre
<1>2. now >= cooldown_until[Pid][r]
  BY <1>1, Cooled
<1>3. First(r, e).next = IF Threshold = 1 THEN 1 ELSE 0
  BY ScanFirst
<1>4. Threshold # 1
  <2>1. First(r, e).next # Last(r)
    BY <1>1, <1>2 DEF Exit, Reports
  <2> QED
    BY <1>1, <1>3, <2>1
<1>5. PICK t \in matches' : t.rule_index = r /\ Began(t, e)
  BY <1>1, <1>2, <1>3, <1>4 DEF Exit, Judged
<1>6. t.data = [paths |-> {e.call.path}]
  BY <1>5, BeganIs
<1>7. t \in Of(r)'
  BY <1>5 DEF Of
<1> QED
  BY <1>6, <1>7

LEMMA ScansStay ==
  ASSUME TablesOK, OneMatch, HistoryOK, HistoryOK', Counted, ScansCounted, Idle \/ \E e : Exit(e)
  PROVE  ScansCounted'
<1>1. CASE Idle
  <2> SUFFICES ASSUME NEW r \in Count
               PROVE  \E P \in SUBSET Paths : Few(P, Threshold) /\ Scanned(r, P)'
    BY DEF ScansCounted, Few
  <2>1. scans' = scans /\ matches' = matches
    BY <1>1 DEF Idle, matches
  <2>2. PICK P \in SUBSET Paths : Few(P, Threshold) /\ Scanned(r, P)
    BY DEF ScansCounted
  <2>3. \A v \in scans : Relevant(r, v.at)' => Relevant(r, v.at)
    <3> TAKE v \in scans
    <3>1. v.at \in Int
      BY DEF HistoryOK
    <3> QED
      BY <1>1, <3>1, RelevantLater, RulesAre
  <2>4. Scanned(r, P)'
    <3> SUFFICES ASSUME NEW v \in scans, Relevant(r, v.at)'
                 PROVE  \/ \E s \in Of(r) : v.path \in s.data.paths
                        \/ v.path \in P /\ \A s \in Of(r) : v.at <= s.start_time_ns
      BY <2>1 DEF Scanned, Of
    <3> QED
      BY <2>2, <2>3 DEF Scanned
  <2> QED
    BY <2>2, <2>4
<1>2. ASSUME NEW e, Exit(e) PROVE ScansCounted'
  <2> SUFFICES ASSUME NEW r \in Count
               PROVE  \E P \in SUBSET Paths : Few(P, Threshold) /\ Scanned(r, P)'
    BY DEF ScansCounted, Few
  <2>1. r \in Rules \ ReadDb /\ timeout_ns[r] \in Nat
    BY RulesAre
  <2>2. now \in Nat /\ now' = now /\ e \in Event
    BY <1>2, ExitIs
  <2>3. \A v \in scans' : v \in scans \/ (Sees(e) /\ v = NewestScan(e))
    BY <1>2, ScansGrow
  <2>4. \A v \in scans' : v.at \in 0 .. now
    BY <2>2 DEF HistoryOK
  <2>5. Few({}, Threshold)
    BY FS_EmptySet, Sizes DEF Few
  <2>6. CASE Reporting(r)
    <3>1. \A v \in scans' : ~Relevant(r, v.at)'
      BY <1>2, <2>1, <2>4, <2>6, RelevantIs
    <3>2. Scanned(r, {})'
      BY <3>1 DEF Scanned
    <3> QED
      BY <2>5, <3>2
  <2>7. CASE ~Reporting(r)
    <3>1. \A at : Relevant(r, at)' <=> Relevant(r, at)
      BY <1>2, <2>1, <2>7, RelevantIs
    <3>2. PICK P \in SUBSET Paths : Few(P, Threshold) /\ Scanned(r, P)
      BY DEF ScansCounted
    <3>3. CASE \E s \in Of(r) : Stays(s, e)
      <4>1. PICK s \in Of(r) : Stays(s, e)
        BY <3>3
      <4>2. PICK m : m = Moved(s, e)
        OBVIOUS
      <4>3. s \in matches /\ s.rule_index = r
        BY DEF Of
      <4>4. \A t : t \in Of(r)' <=> t = m
        BY <1>2, <2>1, <4>1, <4>2, OfAfter
      <4>5. m.data.paths = IF Sees(e) THEN s.data.paths \cup {e.call.path} ELSE s.data.paths
        BY <2>2, <4>1, <4>2, <4>3, ScanStays
      <4>6. m.start_time_ns = s.start_time_ns
        BY <1>2, <4>2, <4>3, LeftIs DEF Exit
      <4>7. \A u \in Of(r) : u = s
        BY <2>1, <4>3 DEF Of, OneMatch
      <4>8. ASSUME NEW v \in scans', Relevant(r, v.at)'
            PROVE  \/ v.path \in m.data.paths
                   \/ v.path \in P /\ v.at <= m.start_time_ns
        <5>1. CASE v \in scans
          <6>1. \/ \E u \in Of(r) : v.path \in u.data.paths
                \/ v.path \in P /\ \A u \in Of(r) : v.at <= u.start_time_ns
            BY <3>1, <3>2, <4>8, <5>1 DEF Scanned
          <6> QED
            BY <4>1, <4>5, <4>6, <4>7, <6>1
        <5>2. CASE Sees(e) /\ v = NewestScan(e)
          <6>1. v.path = e.call.path
            BY <5>2 DEF NewestScan
          <6> QED
            BY <4>5, <5>2, <6>1
        <5> QED
          BY <2>3, <5>1, <5>2
      <4>9. Scanned(r, P)'
        BY <4>4, <4>8 DEF Scanned
      <4> QED
        BY <3>2, <4>9
    <3>4. CASE \A s \in Of(r) : ~Stays(s, e)
      <4>1. \A t \in Of(r)' : t.start_time_ns = now
        BY <1>2, <2>1, <3>4, OfAfter, BeganIs
      <4>2. \A s \in matches : Stays(s, e) => s.rule_index # r
        BY <3>4 DEF Of
      <4>3. ASSUME NEW v \in scans', v \notin scans, Relevant(r, v.at)'
            PROVE  \E t \in Of(r)' : v.path \in t.data.paths
        <5>1. Sees(e) /\ v.path = e.call.path /\ v.at = now
          BY <2>3, <4>3 DEF NewestScan
        <5>2. Watching(r, now)
          BY <3>1, <4>3, <5>1 DEF Relevant
        <5>3. \E t \in Of(r)' : e.call.path \in t.data.paths
          BY <1>2, <2>7, <4>2, <5>1, <5>2, ScanBegins
        <5> QED
          BY <5>1, <5>3
      <4>4. ASSUME NEW Q \in SUBSET Paths, Few(Q, Threshold),
                   \A v \in scans : Relevant(r, v.at) => v.path \in Q
            PROVE  \E R \in SUBSET Paths : Few(R, Threshold) /\ Scanned(r, R)'
        <5>1. \A v \in scans' : Relevant(r, v.at)' =>
                \/ \E t \in Of(r)' : v.path \in t.data.paths
                \/ v.path \in Q /\ \A t \in Of(r)' : v.at <= t.start_time_ns
          <6> TAKE v \in scans'
          <6> HAVE Relevant(r, v.at)'
          <6>1. \A t \in Of(r)' : v.at <= t.start_time_ns
            BY <2>2, <2>4, <4>1
          <6>2. v \in scans => v.path \in Q
            BY <3>1, <4>4
          <6> QED
            BY <4>3, <6>1, <6>2
        <5>2. Scanned(r, Q)'
          BY <5>1 DEF Scanned
        <5> QED
          BY <4>4, <5>2
      <4>5. CASE Of(r) = {}
        <5>1. \A v \in scans : Relevant(r, v.at) => v.path \in P
          BY <3>2, <4>5 DEF Scanned
        <5> QED
          BY <3>2, <4>4, <5>1
      <4>6. CASE Of(r) # {}
        <5>1. PICK s : s \in Of(r)
          BY <4>6
        <5>2. s \in matches /\ s.rule_index = r /\ \A u \in Of(r) : u = s
          BY <2>1, <5>1 DEF Of, OneMatch
        <5>3. ~Finishes(s, e)
          <6>1. Finishes(s, e) => \E d \in detected' : d.rule_index = r
            BY <1>2, <5>2 DEF Exit, Reports
          <6> QED
            BY <2>7, <6>1 DEF Reporting
        <5>4. Expired(s)
          BY <3>4, <5>1, <5>3 DEF Stays, Finishes
        <5>5. Few(s.data.paths, Threshold)
          BY <5>2, PathsFew
        <5>6. \A v \in scans : Relevant(r, v.at) => v.path \in s.data.paths
          <6> TAKE v \in scans
          <6> HAVE Relevant(r, v.at)
          <6>1. v.at \in Nat /\ s.start_time_ns \in Nat
            BY <2>2, <5>2, MatchIs DEF HistoryOK
          <6>2. ~(v.at <= s.start_time_ns)
            <7>1. v.at >= now - timeout_ns[r] /\ now - s.start_time_ns > timeout_ns[r]
              BY <5>2, <5>4 DEF Relevant, Expired
            <7> QED
              BY <2>1, <2>2, <6>1, <7>1
          <6>3. \/ \E u \in Of(r) : v.path \in u.data.paths
                \/ v.path \in P /\ \A u \in Of(r) : v.at <= u.start_time_ns
            BY <3>2 DEF Scanned
          <6> QED
            BY <5>1, <5>2, <6>2, <6>3
        <5>7. s.data.paths \in SUBSET Paths
          BY <5>5 DEF Few
        <5> QED
          BY <4>4, <5>5, <5>6, <5>7
      <4> QED
        BY <4>5, <4>6
    <3> QED
      BY <3>3, <3>4
  <2> QED
    BY <2>6, <2>7
<1> QED
  BY <1>1, <1>2


LEMMA WalkBegins ==
  ASSUME TablesOK, HistoryOK, NEW e, Exit(e), NEW r \in Traversal, ~Reporting(r),
         \A s \in matches : Stays(s, e) => s.rule_index # r, Watched(e), Watching(r, now)
  PROVE  Of(r)' # {}
<1>1. r \in Rules /\ Last(r) = 2
  BY RulesAre
<1>2. now >= cooldown_until[Pid][r]
  BY <1>1, Cooled
<1>3. First(r, e).next = 1
  <2>1. First(r, e) = [next |-> 1, data |-> [fd |-> e.retval, paths |-> {}]]
    BY WalkFirst
  <2> QED
    BY <2>1
<1>4. PICK t \in matches' : t.rule_index = r /\ Began(t, e)
  BY <1>1, <1>2, <1>3 DEF Exit, Judged
<1>5. t \in Of(r)'
  BY <1>4 DEF Of
<1> QED
  BY <1>5

\* The directory waited for.
LEMMA FreshIs ==
  ASSUME TablesOK, NEW e, Exit(e)
  PROVE  /\ Watched(e) => fresh' = [fd |-> e.retval, at |-> now]
         /\ ~Watched(e) => fresh' \in {fresh, NoneFresh}
         /\ (Closes(e) \/ Reading(e)) /\ e.call.fd = fresh.fd => fresh' = NoneFresh
<1>0. PICK c : c = e.call
  OBVIOUS
<1>1. CASE e.retval = -1 /\ fresh' = fresh
  BY <1>1 DEF Watched, Opened, Closes, Reading
<1>2. CASE e.retval \in Results(c) /\ fresh' = fresh_after(c, e.retval)
  <2>1. e.retval \in Nat
    BY <1>0, <1>2, ExitIs, ResultIs
  <2>2. Watched(e) <=> c.op = "openat" /\ ~path_skip(c.path)
    BY <1>0, <2>1 DEF Watched, Opened
  <2>3. Watched(e) => fresh' = [fd |-> e.retval, at |-> now]
    BY <1>2, <2>2 DEF fresh_after
  <2>4. ~Watched(e) => fresh' \in {fresh, NoneFresh}
    BY <1>2, <2>2 DEF fresh_after
  <2>5. ASSUME Closes(e), c.fd = fresh.fd PROVE fresh' = NoneFresh
    <3>1. c.op = "close"
      BY <1>0, <2>5 DEF Closes
    <3> QED
      BY <1>2, <2>5, <3>1 DEF fresh_after
  <2>6. ASSUME Reading(e), c.fd = fresh.fd PROVE fresh' = NoneFresh
    <3>1. c.op = "getdents64" /\ e.retval > 0
      BY <1>0, <2>6 DEF Reading
    <3> QED
      BY <1>2, <2>6, <3>1 DEF fresh_after
  <2> QED
    BY <1>0, <2>3, <2>4, <2>5, <2>6
<1> QED
  BY <1>0, <1>1, <1>2 DEF Exit, note

LEMMA AwaitedStays ==
  ASSUME TablesOK, OneMatch, HistoryOK, NEW e, Exit(e), NEW r \in Traversal, Awaited(r)
  PROVE  Awaited(r)'
<1>1. r \in Rules \ ReadDb /\ now \in Nat /\ e \in Event
  BY RulesAre, ExitIs
<1> SUFFICES ASSUME fresh' # NoneFresh, NEW t, t \in Of(r)'
             PROVE  /\ t.current_state_index = 1 /\ t.data.fd = fresh'.fd
                    /\ t.start_time_ns <= fresh'.at
  BY DEF Awaited, NoneFresh
<1>2. CASE \E s \in Of(r) : Stays(s, e)
  <2>1. PICK s \in Of(r) : Stays(s, e)
    BY <1>2
  <2>2. t = Moved(s, e)
    BY <1>1, <2>1, OfAfter
  <2>3. s \in matches /\ s.rule_index = r
    BY DEF Of
  <2>4. t.start_time_ns = s.start_time_ns /\ s.start_time_ns <= now
    BY <1>1, <2>2, <2>3, LeftIs, MatchIs DEF Exit
  <2>5. CASE Watched(e)
    <3>1. t.current_state_index = 1 /\ t.data.fd = e.retval
      BY <1>1, <2>1, <2>2, <2>3, <2>5, WalkStays
    <3>2. fresh' = [fd |-> e.retval, at |-> now]
      BY <2>5, FreshIs
    <3> QED
      BY <2>4, <3>1, <3>2
  <2>6. CASE ~Watched(e)
    <3>1. fresh' = fresh /\ ~((Closes(e) \/ Reading(e)) /\ e.call.fd = fresh.fd)
      BY <2>6, FreshIs
    <3>2. s.current_state_index = 1 /\ s.data.fd = fresh.fd /\ s.start_time_ns <= fresh.at
      BY <3>1 DEF Awaited
    <3>3. ~Lists(s, e)
      BY <3>1, <3>2 DEF Lists, Reading
    <3>4. t.current_state_index = 1 /\ t.data = s.data
      <4>1. CASE Closes(e)
        BY <1>1, <2>1, <2>2, <2>3, <3>1, <3>2, <4>1, WalkStays
      <4>2. CASE ~Closes(e)
        BY <1>1, <2>1, <2>2, <2>3, <2>6, <3>2, <3>3, <4>2, WalkStays
      <4> QED
        BY <4>1, <4>2
    <3> QED
      BY <2>4, <3>1, <3>2, <3>4
  <2> QED
    BY <2>5, <2>6
<1>3. CASE \A s \in Of(r) : ~Stays(s, e)
  <2>1. Began(t, e) /\ t.rule_index = r
    BY <1>1, <1>3, OfAfter DEF Of
  <2>2. Watched(e) /\ t.current_state_index = 1 /\ t.data = [fd |-> e.retval, paths |-> {}] /\ t.start_time_ns = now
    BY <2>1, BeganIs
  <2>3. fresh' = [fd |-> e.retval, at |-> now]
    BY <2>2, FreshIs
  <2> QED
    BY <1>1, <2>2, <2>3
<1> QED
  BY <1>2, <1>3

LEMMA FewMore ==
  ASSUME NEW P, Few(P, Threshold)
  PROVE  /\ Few(P, Threshold + 1)
         /\ \A p \in Paths : Few(P \cup {p}, Threshold + 1)
<1>1. P \subseteq Paths /\ IsFiniteSet(P) /\ Cardinality(P) < Threshold /\ Cardinality(P) \in Nat
  BY FS_CardinalityType DEF Few
<1>2. Few(P, Threshold + 1)
  BY <1>1, Sizes DEF Few
<1>3. ASSUME NEW p \in Paths PROVE Few(P \cup {p}, Threshold + 1)
  <2>1. IsFiniteSet(P \cup {p}) /\ Cardinality(P \cup {p}) = IF p \in P THEN Cardinality(P) ELSE Cardinality(P) + 1
    BY <1>1, FS_AddElement
  <2>2. Cardinality(P \cup {p}) < Threshold + 1
    BY <1>1, <2>1, Sizes
  <2> QED
    BY <1>1, <2>1, <2>2 DEF Few
<1> QED
  BY <1>2, <1>3

\* The part of VisitsCounted about one rule and set.
Walked(r, P) ==
  /\ Few(P, Threshold + 1) /\ Visited(r, P)
  /\ fresh # NoneFresh /\ Relevant(r, fresh.at) /\ Of(r) = {} => Few(P, Threshold)

LEMMA VisitsStay ==
  ASSUME TablesOK, OneMatch, HistoryOK, HistoryOK', Counted, VisitsCounted, Idle \/ \E e : Exit(e)
  PROVE  VisitsCounted'
<1>0. \A r \in Traversal : Awaited(r) /\ \E P \in SUBSET Paths : Walked(r, P)
  BY DEF VisitsCounted, Walked
<1>1. CASE Idle
  <2> SUFFICES ASSUME NEW r \in Traversal
               PROVE  Awaited(r)' /\ \E P \in SUBSET Paths : Walked(r, P)'
    BY DEF VisitsCounted, Walked, Few
  <2>1. visits' = visits /\ fresh' = fresh /\ matches' = matches
    BY <1>1 DEF Idle, matches
  <2>2. PICK P \in SUBSET Paths : Walked(r, P)
    BY <1>0
  <2>3. \A at \in Int : Relevant(r, at)' => Relevant(r, at)
    BY <1>1, RelevantLater, RulesAre
  <2>4. \A v \in visits : v.began \in Int
    BY DEF HistoryOK
  <2>5. fresh # NoneFresh => fresh.at \in Int
    BY DEF HistoryOK
  <2>6. Of(r)' = Of(r)
    BY <2>1 DEF Of
  <2>7. Visited(r, P)'
    <3> SUFFICES ASSUME NEW v \in visits, v.began # -1, Relevant(r, v.began)'
                 PROVE  \/ \E s \in Of(r) : v.path \in s.data.paths
                        \/ v.path \in P /\ \A s \in Of(r) : v.began <= s.start_time_ns
      BY <2>1, <2>6 DEF Visited
    <3> QED
      BY <2>2, <2>3, <2>4 DEF Walked, Visited
  <2>8. Relevant(r, fresh.at)' /\ fresh # NoneFresh => Relevant(r, fresh.at)
    <3>1. PICK at : at = fresh.at
      OBVIOUS
    <3>2. Relevant(r, fresh.at)' <=> Relevant(r, at)'
      BY <2>1, <3>1 DEF Relevant, Watching
    <3> QED
      BY <2>3, <2>5, <3>1, <3>2
  <2>9. Walked(r, P)'
    BY <2>1, <2>2, <2>6, <2>7, <2>8 DEF Walked, Few, NoneFresh
  <2>10. Awaited(r)'
    BY <1>0, <2>1, <2>6 DEF Awaited, NoneFresh
  <2> QED
    BY <2>9, <2>10
<1>2. ASSUME NEW e, Exit(e) PROVE VisitsCounted'
  <2> SUFFICES ASSUME NEW r \in Traversal
               PROVE  \E P \in SUBSET Paths : Walked(r, P)'
    BY <1>0, <1>2, AwaitedStays DEF VisitsCounted, Walked, Few
  <2>1. r \in Rules \ ReadDb /\ timeout_ns[r] \in Nat
    BY RulesAre
  <2>2. now \in Nat /\ now' = now /\ e \in Event
    BY <1>2, ExitIs
  <2>3. \A v \in visits' : v \in visits \/ (Reading(e) /\ v = NewestVisit(e))
    BY <1>2, VisitsGrow
  <2>4. \A v \in visits' : v.began \in -1 .. now
    BY <2>2 DEF HistoryOK
  <2>5. fresh' # NoneFresh => fresh'.at \in -1 .. now
    <3>1. fresh' \in [fd : Fds, at : 0 .. now'] \cup {NoneFresh}
      BY DEF HistoryOK, NoneFresh
    <3> QED
      BY <2>2, <3>1
  <2>6. CASE Reporting(r)
    <3>1. \A at \in -1 .. now : ~Relevant(r, at)'
      BY <1>2, <2>1, <2>6, RelevantIs
    <3>2. Visited(r, {})'
      BY <2>4, <3>1 DEF Visited
    <3>3. Few({}, Threshold)
      BY FS_EmptySet, Sizes DEF Few
    <3>4. Walked(r, {})'
      BY <3>2, <3>3, FewMore DEF Walked, Few
    <3> QED
      BY <3>4
  <2>7. CASE ~Reporting(r)
    <3>1. \A at : Relevant(r, at)' <=> Relevant(r, at)
      BY <1>2, <2>1, <2>7, RelevantIs
    <3>2. PICK P \in SUBSET Paths : Walked(r, P)
      BY <1>0
    <3>3. CASE \E s \in Of(r) : Stays(s, e)
      <4>1. PICK s \in Of(r) : Stays(s, e)
        BY <3>3
      <4>2. PICK m : m = Moved(s, e)
        OBVIOUS
      <4>3. s \in matches /\ s.rule_index = r
        BY DEF Of
      <4>4. \A t : t \in Of(r)' <=> t = m
        BY <1>2, <2>1, <4>1, <4>2, OfAfter
      <4>5. m.start_time_ns = s.start_time_ns
        BY <1>2, <4>2, <4>3, LeftIs DEF Exit
      <4>6. \A u \in Of(r) : u = s
        BY <2>1, <4>3 DEF Of, OneMatch
      <4>7. s.data.paths \subseteq m.data.paths
        <5>1. s.current_state_index \in {0, 1}
          BY <2>2, <4>3, WalkStep
        <5> QED
          BY <2>2, <4>1, <4>2, <4>3, <5>1, WalkStays
      <4>8. ASSUME NEW v \in visits', v.began # -1, Relevant(r, v.began)'
            PROVE  \/ v.path \in m.data.paths
                   \/ v.path \in P /\ v.began <= m.start_time_ns
        <5>1. CASE v \in visits
          <6>1. \/ \E u \in Of(r) : v.path \in u.data.paths
                \/ v.path \in P /\ \A u \in Of(r) : v.began <= u.start_time_ns
            BY <3>1, <3>2, <4>8, <5>1 DEF Walked, Visited
          <6> QED
            BY <4>1, <4>5, <4>6, <4>7, <6>1
        <5>2. CASE Reading(e) /\ v = NewestVisit(e)
          <6>1. v.path = e.call.path /\ fresh.fd = e.call.fd /\ fresh.at # -1
            BY <4>8, <5>2 DEF NewestVisit
          <6>2. fresh # NoneFresh
            BY <6>1 DEF NoneFresh
          <6>3. s.current_state_index = 1 /\ s.data.fd = fresh.fd
            BY <1>0, <6>2 DEF Awaited
          <6>4. Lists(s, e)
            BY <5>2, <6>1, <6>3 DEF Lists, Reading
          <6>5. m.data.paths = s.data.paths \cup {e.call.path}
            BY <2>2, <4>1, <4>2, <4>3, <6>3, <6>4, WalkStays
          <6> QED
            BY <6>1, <6>5
        <5> QED
          BY <2>3, <5>1, <5>2
      <4>9. Visited(r, P)' /\ Of(r)' # {}
        BY <4>4, <4>8 DEF Visited
      <4>10. Walked(r, P)'
        BY <3>2, <4>9 DEF Walked, Few
      <4> QED
        BY <4>10
    <3>4. CASE \A s \in Of(r) : ~Stays(s, e)
      <4>1. \A t \in Of(r)' : t.start_time_ns = now /\ Watched(e)
        <5> TAKE t \in Of(r)'
        <5>1. Began(t, e) /\ t.rule_index = r
          BY <1>2, <2>1, <3>4, OfAfter DEF Of
        <5> QED
          BY <1>2, <5>1, BeganIs
      <4>2. \A s \in matches : Stays(s, e) => s.rule_index # r
        BY <3>4 DEF Of
      <4>3. Reading(e) => ~Watched(e)
        BY DEF Reading, Watched, Opened
      <4>4. ASSUME NEW Q, Few(Q, Threshold + 1),
                   fresh # NoneFresh /\ Relevant(r, fresh.at) => Few(Q, Threshold),
                   \A v \in visits : v.began # -1 /\ Relevant(r, v.began) => v.path \in Q
            PROVE  \E R \in SUBSET Paths : Walked(r, R)'
        <5>1. CASE /\ Reading(e) /\ NewestVisit(e).began # -1
                   /\ Relevant(r, NewestVisit(e).began)
          <6>1. fresh.fd = e.call.fd /\ NewestVisit(e).began = fresh.at /\ fresh # NoneFresh
            BY <5>1 DEF NewestVisit, NoneFresh
          <6>2. PICK R : R = Q \cup {e.call.path}
            OBVIOUS
          <6>3. Few(R, Threshold + 1)
            <7>1. e.call.path \in Paths
              BY <5>1, ExitIs, CallIs, <1>2 DEF Reading
            <7>2. Few(Q, Threshold)
              BY <4>4, <5>1, <6>1
            <7> QED
              BY <6>2, <7>1, <7>2, FewMore
          <6>4. fresh' = NoneFresh
            BY <1>2, <5>1, <6>1, FreshIs
          <6>5. Of(r)' = {}
            BY <4>1, <4>3, <5>1
          <6>6. \A v \in visits' : v.began # -1 /\ Relevant(r, v.began)' => v.path \in R
            BY <2>3, <3>1, <4>4, <6>2 DEF NewestVisit
          <6>7. Visited(r, R)'
            BY <6>5, <6>6 DEF Visited
          <6>8. Walked(r, R)'
            BY <6>3, <6>4, <6>7 DEF Walked, Few, NoneFresh
          <6>9. R \in SUBSET Paths
            BY <6>3 DEF Few
          <6> QED
            BY <6>8, <6>9
        <5>2. CASE ~(/\ Reading(e) /\ NewestVisit(e).began # -1
                     /\ Relevant(r, NewestVisit(e).began))
          <6>1. \A v \in visits' : v.began # -1 /\ Relevant(r, v.began)' => v.path \in Q
            BY <2>3, <3>1, <4>4, <5>2
          <6>2. \A v \in visits', t \in Of(r)' : v.began <= t.start_time_ns
            BY <2>2, <2>4, <4>1
          <6>3. Visited(r, Q)'
            BY <6>1, <6>2 DEF Visited
          <6>4. ASSUME fresh' # NoneFresh, NEW at, at = fresh'.at, Relevant(r, at), Of(r)' = {}
                PROVE  Few(Q, Threshold)
            <7>1. CASE Watched(e)
              <8>1. at = now
                BY <1>2, <6>4, <7>1, FreshIs
              <8>2. Watching(r, now)
                BY <6>4, <8>1 DEF Relevant
              <8> QED
                BY <1>2, <2>7, <4>2, <6>4, <7>1, <8>2, WalkBegins
            <7>2. CASE ~Watched(e)
              <8>1. fresh' = fresh
                BY <1>2, <6>4, <7>2, FreshIs
              <8> QED
                BY <4>4, <6>4, <8>1
            <7> QED
              BY <7>1, <7>2
          <6>5. Relevant(r, fresh.at)' => Relevant(r, fresh'.at)
            <7>1. PICK at : at = fresh'.at
              OBVIOUS
            <7>2. Relevant(r, fresh.at)' <=> Relevant(r, at)'
              BY <7>1 DEF Relevant, Watching
            <7> QED
              BY <3>1, <7>1, <7>2
          <6>6. Walked(r, Q)'
            BY <4>4, <6>3, <6>4, <6>5 DEF Walked, Few, NoneFresh
          <6>7. Q \in SUBSET Paths
            BY <4>4 DEF Few
          <6> QED
            BY <6>6, <6>7
        <5> QED
          BY <5>1, <5>2
      <4>5. CASE Of(r) = {}
        <5>1. \A v \in visits : v.began # -1 /\ Relevant(r, v.began) => v.path \in P
          BY <3>2, <4>5 DEF Walked, Visited
        <5> QED
          BY <3>2, <4>4, <4>5, <5>1 DEF Walked
      <4>6. CASE Of(r) # {}
        <5>1. PICK s : s \in Of(r)
          BY <4>6
        <5>2. s \in matches /\ s.rule_index = r /\ \A u \in Of(r) : u = s
          BY <2>1, <5>1 DEF Of, OneMatch
        <5>3. ~Finishes(s, e)
          <6>1. Finishes(s, e) => \E d \in detected' : d.rule_index = r
            BY <1>2, <5>2 DEF Exit, Reports
          <6> QED
            BY <2>7, <6>1 DEF Reporting
        <5>4. Expired(s)
          BY <3>4, <5>1, <5>3 DEF Stays, Finishes
        <5>5. Few(s.data.paths, Threshold)
          BY <5>2, PathsFew
        <5>6. \A v \in visits : v.began # -1 /\ Relevant(r, v.began) => v.path \in s.data.paths
          <6> TAKE v \in visits
          <6> HAVE v.began # -1 /\ Relevant(r, v.began)
          <6>1. v.began \in Int /\ s.start_time_ns \in Nat
            BY <2>2, <5>2, MatchIs DEF HistoryOK
          <6>2. ~(v.began <= s.start_time_ns)
            <7>1. v.began >= now - timeout_ns[r] /\ now - s.start_time_ns > timeout_ns[r]
              BY <5>2, <5>4 DEF Relevant, Expired
            <7> QED
              BY <2>1, <2>2, <6>1, <7>1
          <6>3. \/ \E u \in Of(r) : v.path \in u.data.paths
                \/ v.path \in P /\ \A u \in Of(r) : v.began <= u.start_time_ns
            BY <3>2 DEF Walked, Visited
          <6> QED
            BY <5>1, <5>2, <6>2, <6>3
        <5>7. Few(s.data.paths, Threshold + 1)
          BY <5>5, FewMore
        <5> QED
          BY <4>4, <5>5, <5>6, <5>7
      <4> QED
        BY <4>5, <4>6
    <3> QED
      BY <3>3, <3>4
  <2> QED
    BY <2>6, <2>7
<1> QED
  BY <1>1, <1>2


-----------------------------------------------------------------------------
(* The inductive invariant.                                                *)

FileInv ==
  /\ TablesOK /\ OneMatch /\ HistoryOK
  /\ OpensOK /\ Accounted /\ Accounts
  /\ Counted /\ ScansCounted /\ VisitsCounted

LEMMA FileInvInit ==
  ASSUME FileInit
  PROVE  FileInv
<1>1. /\ tracked_pids = [p \in {Pid} |-> IF p = Pid THEN NoEvent ELSE Untracked]
      /\ from_shell_pids = {} /\ allow_pids = {} /\ matches = {}
      /\ cooldown_until = [p \in {Pid} |-> Engine!NoCooldown]
      /\ detection_state_count = Cardinality(Rules) /\ detection_started = FALSE /\ now = 0
  BY DEF FileInit, Engine!Init, matches
<1>2. /\ file = [fd \in Fds |-> Closed] /\ opened = [n \in {} |-> n] /\ scans = {} /\ visits = {}
      /\ fresh = NoneFresh /\ told = [r \in Rules |-> -1]
  BY DEF FileInit
<1>3. cooldown_until[Pid] = [r \in Rules |-> 0] /\ cooldown_until = [p \in {Pid} |-> [r \in Rules |-> 0]]
  BY <1>1, RulesAre DEF Engine!NoCooldown
<1>4. TablesOK
  <2>1. tracked_pids \in [{Pid} -> Event \cup {NoEvent}]
    BY <1>1
  <2>2. Cardinality(Rules) \in Nat /\ now \in 0 .. MaxTime
    BY <1>1, RulesAre, Sizes
  <2> QED
    BY <1>1, <1>2, <1>3, <2>1, <2>2 DEF TablesOK
<1>5. HistoryOK
  <2>1. IsFiniteSet({})
    BY FS_EmptySet
  <2>2. told \in [Rules -> -1 .. now]
    BY <1>1, <1>2
  <2>3. \A r \in Rules : cooldown_until[Pid][r] = 0
    BY <1>3
  <2> QED
    BY <1>2, <2>1, <2>2, <2>3 DEF HistoryOK
<1>6. DOMAIN opened = {}
  BY <1>2
<1>7. OpensOK /\ Accounted
  BY <1>6 DEF OpensOK, Accounted
<1>8. OneMatch /\ Accounts /\ Counted
  BY <1>1 DEF OneMatch, Accounts, Counted
<1>9. Few({}, Threshold) /\ Few({}, Threshold + 1)
  <2>1. Few({}, Threshold)
    BY FS_EmptySet, Sizes DEF Few
  <2> QED
    BY <2>1, FewMore
<1>10. ScansCounted
  <2>1. \A r : Scanned(r, {})
    BY <1>2 DEF Scanned
  <2> QED
    BY <1>9, <2>1 DEF ScansCounted
<1>11. VisitsCounted
  <2>1. \A r : Visited(r, {}) /\ Awaited(r)
    BY <1>2 DEF Visited, Awaited
  <2> QED
    BY <1>9, <2>1 DEF VisitsCounted
<1> QED
  BY <1>4, <1>5, <1>7, <1>8, <1>10, <1>11 DEF FileInv

LEMMA FileInvStep ==
  ASSUME FileInv, [FileNext]_fileVars
  PROVE  FileInv'
<1>1. /\ TablesOK /\ OneMatch /\ HistoryOK /\ OpensOK /\ Accounted /\ Accounts
      /\ Counted /\ ScansCounted /\ VisitsCounted
  BY DEF FileInv
<1>2. Idle \/ \E e : Exit(e)
  <2>1. UNCHANGED fileVars => Idle
    BY DEF fileVars, Engine!vars, history, Idle
  <2> QED
    BY <1>1, <2>1, Steps
<1>3. TablesOK' /\ OneMatch' /\ HistoryOK'
  BY <1>1, <1>2, TablesStay, OneMatchStays, HistoryStays
<1>4. OpensOK' /\ Accounted' /\ Accounts'
  BY <1>1, <1>2, OpensStay, AccountedStays, AccountsStay
<1>5. Counted' /\ ScansCounted' /\ VisitsCounted'
  BY <1>1, <1>2, <1>3, CountedStays, ScansStay, VisitsStay
<1> QED
  BY <1>3, <1>4, <1>5 DEF FileInv

LEMMA FileInvHolds == FileSpec => []FileInv
<1>1. FileInit => FileInv
  BY FileInvInit
<1>2. FileInv /\ [FileNext]_fileVars => FileInv'
  BY FileInvStep
<1> QED
  BY <1>1, <1>2, PTL DEF FileSpec


-----------------------------------------------------------------------------
(* The theorems.                                                           *)

\* The engine's tables have their types, the data of a match is of its rule's
\* own kind whatever the calls before, so that no any_cast fails, and a match
\* that has enough to be reported is not stored.
THEOREM FileTypesHold == FileSpec => []FileTypeOK
<1>1. FileInv => FileTypeOK
  <2> SUFFICES ASSUME FileInv PROVE FileTypeOK
    OBVIOUS
  <2>1. TablesOK
    BY DEF FileInv
  <2>2. \A s \in active_detection_states :
          /\ s \in Engine!DetectionState /\ s.rule_index \in Rules
          /\ s.current_state_index < Last(s.rule_index) /\ MatchOK(s)
    BY <2>1, MatchIs DEF matches, TablesOK
  <2>3. Engine!TypeOK
    <3>1. Event \subseteq Engine!SyscallEvent
      BY DEF Event, Engine!SyscallEvent, Engine!Time
    <3>2. tracked_pids \in [{Pid} -> Engine!SyscallEvent \cup {Untracked, NoEvent}]
      BY <2>1, <3>1 DEF TablesOK
    <3>3. \A s \in active_detection_states :
            /\ s \in Engine!DetectionState
            /\ s.current_state_index < [r \in Rules |-> Transitions[Kind[r]]][s.rule_index]
      BY <2>2 DEF Last
    <3> QED
      BY <2>1, <3>2, <3>3, RulesAre DEF TablesOK, Engine!TypeOK, Engine!Time
  <2>4. \A s \in active_detection_states :
          \/ s.rule_index \in ReadDb /\ s.data \in [fd : Fds, bytes : 0 .. Large - 1]
          \/ /\ s.rule_index \in Traversal
             /\ s.data \in [fd : Fds, paths : SUBSET Paths]
             /\ Cardinality(s.data.paths) < Threshold
          \/ /\ s.rule_index \in Count
             /\ s.data \in [paths : SUBSET Paths]
             /\ Cardinality(s.data.paths) < Threshold
    BY <2>2, RulesAre DEF MatchOK
  <2>5. \A fd \in Fds : IsOpen(fd) => file[fd].path \in Paths
    BY <2>1 DEF TablesOK, IsOpen
  <2> QED
    BY <2>3, <2>4, <2>5 DEF FileTypeOK
<1> QED
  BY <1>1, FileInvHolds, PTL

\* read_db_large: while an open of a database is used through one descriptor
\* at a time, its match has that descriptor and the bytes really read.
THEOREM AccountsHold == FileSpec => []AccountsAgree
<1>1. FileInv => AccountsAgree
  BY DEF FileInv, Accounted, Account, AccountsAgree, matches
<1> QED
  BY <1>1, FileInvHolds, PTL

LEMMA TwoSets ==
  ASSUME NEW m \in Nat, NEW n \in Nat, NEW P, NEW Q, Few(P, m), Few(Q, n),
         NEW S, S \subseteq P \cup Q
  PROVE  Cardinality(S) <= m + n - 2
<1>1. /\ IsFiniteSet(P) /\ IsFiniteSet(Q) /\ Cardinality(P) < m /\ Cardinality(Q) < n
      /\ Cardinality(P) \in Nat /\ Cardinality(Q) \in Nat
  BY FS_CardinalityType DEF Few
<1>2. /\ IsFiniteSet(P \cup Q) /\ IsFiniteSet(P \cap Q)
      /\ Cardinality(P \cup Q) = Cardinality(P) + Cardinality(Q) - Cardinality(P \cap Q)
  BY <1>1, FS_Union, FS_Intersection
<1>3. /\ Cardinality(P \cap Q) \in Nat
      /\ Cardinality(S) <= Cardinality(P \cup Q) /\ IsFiniteSet(S) /\ Cardinality(S) \in Nat
  BY <1>2, FS_Subset, FS_CardinalityType
<1> QED
  BY <1>1, <1>2, <1>3

\* The paths of a rule's only match, if it has one.
LEMMA OnlyMatch ==
  ASSUME FileInv, NEW r \in Count \cup Traversal
  PROVE  \E Q : Few(Q, Threshold) /\ \A s \in Of(r) : s.data.paths = Q
<1>1. TablesOK /\ OneMatch /\ HistoryOK /\ Counted /\ r \notin ReadDb
  BY RulesAre DEF FileInv
<1>2. CASE Of(r) = {}
  <2>1. Few({}, Threshold)
    BY FS_EmptySet, Sizes DEF Few
  <2> QED
    BY <1>2, <2>1
<1>3. CASE Of(r) # {}
  <2>1. PICK s \in Of(r) : TRUE
    BY <1>3
  <2>2. s \in matches /\ s.rule_index = r /\ \A u \in Of(r) : u = s
    BY <1>1 DEF Of, OneMatch
  <2>3. Few(s.data.paths, Threshold)
    BY <1>1, <2>2, PathsFew
  <2> QED
    BY <2>2, <2>3
<1> QED
  BY <1>2, <1>3

LEMMA QuietIs ==
  ASSUME FileInv, NEW r \in Rules, Quiet(r), NEW at \in Int, at >= now - timeout_ns[r]
  PROVE  Relevant(r, at)
<1>1. now \in Nat /\ told[r] \in -1 .. now
  BY Sizes DEF FileInv, TablesOK, HistoryOK
<1>2. timeout_ns[r] \in Nat /\ cooldown_ns[r] \in Int
  BY RulesAre
<1> QED
  BY <1>1, <1>2 DEF Quiet, Relevant, Watching

\* path_openat_count: 2 * Threshold - 1 different files within a window's
\* length cannot pass unreported, except in an earlier report's cooldown.
THEOREM ScansNoticed == FileSpec => []ScanNoticed
<1>1. FileInv => ScanNoticed
  <2> SUFFICES ASSUME FileInv, NEW r \in Count, Quiet(r)
               PROVE  ~(Cardinality({v.path : v \in Recent(scans, r)}) >= 2 * Threshold - 1)
    BY DEF ScanNoticed
  <2>1. r \in Rules /\ HistoryOK /\ now \in Nat
    BY RulesAre, Sizes DEF FileInv, TablesOK
  <2>2. PICK P : Few(P, Threshold) /\ Scanned(r, P)
    BY DEF FileInv, ScansCounted
  <2>3. PICK Q : Few(Q, Threshold) /\ \A s \in Of(r) : s.data.paths = Q
    BY OnlyMatch
  <2> DEFINE S == {v.path : v \in Recent(scans, r)}
  <2>4. S \subseteq P \cup Q
    <3> SUFFICES ASSUME NEW v \in Recent(scans, r) PROVE v.path \in P \cup Q
      OBVIOUS
    <3>1. v \in scans /\ v.at >= now - timeout_ns[r] /\ v.at \in Int
      BY <2>1 DEF Recent, HistoryOK
    <3>2. Relevant(r, v.at)
      BY <2>1, <3>1, QuietIs
    <3>3. (\E s \in Of(r) : v.path \in s.data.paths) \/ v.path \in P
      BY <2>2, <3>1, <3>2 DEF Scanned
    <3> QED
      BY <2>3, <3>3
  <2> HIDE DEF S
  <2>5. Cardinality(S) <= Threshold + Threshold - 2
    BY <2>2, <2>3, <2>4, Sizes, TwoSets
  <2>6. IsFiniteSet(S) /\ Cardinality(S) \in Nat
    <3>1. IsFiniteSet(P \cup Q)
      BY <2>2, <2>3, FS_Union DEF Few
    <3> QED
      BY <2>4, <3>1, FS_Subset, FS_CardinalityType
  <2>7. ~(Cardinality(S) >= 2 * Threshold - 1)
    BY <2>5, <2>6, Sizes
  <2> QED
    BY <2>7 DEF S
<1> QED
  BY <1>1, FileInvHolds, PTL

\* recursive_traversal: nor can 2 * Threshold directories, each opened and
\* read before the next is opened.
THEOREM TraversalsNoticed == FileSpec => []TraversalNoticed
<1>1. FileInv => TraversalNoticed
  <2> SUFFICES ASSUME FileInv, NEW r \in Traversal, Quiet(r), NEW W,
                      W = {v \in visits : v.began # -1 /\ v.began >= now - timeout_ns[r]}
               PROVE  ~(Cardinality({v.path : v \in W}) >= 2 * Threshold)
    BY DEF TraversalNoticed
  <2>1. r \in Rules /\ HistoryOK /\ now \in Nat
    BY RulesAre, Sizes DEF FileInv, TablesOK
  <2>2. PICK P : Few(P, Threshold + 1) /\ Visited(r, P)
    BY DEF FileInv, VisitsCounted
  <2>3. PICK Q : Few(Q, Threshold) /\ \A s \in Of(r) : s.data.paths = Q
    BY OnlyMatch
  <2> DEFINE S == {v.path : v \in W}
  <2>4. S \subseteq P \cup Q
    <3> SUFFICES ASSUME NEW v \in W PROVE v.path \in P \cup Q
      OBVIOUS
    <3>1. v \in visits /\ v.began # -1 /\ v.began >= now - timeout_ns[r] /\ v.began \in Int
      BY <2>1 DEF HistoryOK
    <3>2. Relevant(r, v.began)
      BY <2>1, <3>1, QuietIs
    <3>3. (\E s \in Of(r) : v.path \in s.data.paths) \/ v.path \in P
      BY <2>2, <3>1, <3>2 DEF Visited
    <3> QED
      BY <2>3, <3>3
  <2> HIDE DEF S
  <2>5. Cardinality(S) <= Threshold + 1 + Threshold - 2
    <3>1. Threshold + 1 \in Nat /\ Threshold \in Nat
      BY Sizes
    <3> QED
      BY <2>2, <2>3, <2>4, <3>1, TwoSets
  <2>6. IsFiniteSet(S) /\ Cardinality(S) \in Nat
    <3>1. IsFiniteSet(P \cup Q)
      BY <2>2, <2>3, FS_Union DEF Few
    <3> QED
      BY <2>4, <3>1, FS_Subset, FS_CardinalityType
  <2>7. ~(Cardinality(S) >= 2 * Threshold)
    BY <2>5, <2>6, Sizes
  <2> QED
    BY <2>7 DEF S
<1> QED
  BY <1>1, FileInvHolds, PTL

\* read_db_large: the read that makes an open's total large is reported, if
\* the open is followed and its window is not over.
THEOREM LargeReadsReported == FileSpec => LargeReadReported
<1> DEFINE A == \A n \in DOMAIN opened, r \in ReadDb :
                  /\ opened'[n].followed
                  /\ opened[n].bytes < Large /\ opened'[n].bytes >= Large
                  /\ InTime(r, opened[n].start)
                  => \E d \in detected' : d.id = n /\ d.rule_index = r
<1>1. FileInv /\ [FileNext]_fileVars => [A]_fileVars
  <2> SUFFICES ASSUME FileInv, FileNext PROVE A
    OBVIOUS
  <2>1. TablesOK /\ OpensOK /\ Accounted
    BY DEF FileInv
  <2>2. CASE Idle
    BY <2>1, <2>2, Sizes DEF Idle, OpensOK, Open
  <2>3. CASE \E e : Exit(e)
    BY <2>1, <2>3, LargeReported
  <2> QED
    BY <2>1, <2>2, <2>3, Steps
<1> QED
  BY <1>1, FileInvHolds, PTL DEF FileSpec, LargeReadReported

\* read_db_large: a report is of an open that had that much read through it,
\* or of one whose descriptor was since closed, replaced or duplicated again.
THEOREM ReportsAreLarge == FileSpec => ReportIsLarge
<1> DEFINE A == \A d \in detected' : d.rule_index \in ReadDb =>
                  /\ d.id \in DOMAIN opened'
                  /\ opened'[d.id].followed => opened'[d.id].bytes >= Large
<1>1. FileInv /\ [FileNext]_fileVars => [A]_fileVars
  <2> SUFFICES ASSUME FileInv, FileNext PROVE A
    OBVIOUS
  <2>1. TablesOK /\ OpensOK /\ Accounts
    BY DEF FileInv
  <2>2. CASE \E e : Exit(e)
    BY <2>1, <2>2, ReportedLarge
  <2> QED
    BY <2>1, <2>2, Steps
<1> QED
  BY <1>1, FileInvHolds, PTL DEF FileSpec, ReportIsLarge

\* path_openat_count reports only that many different files, opened since the
\* match began.
THEOREM ReportsAreScans == FileSpec => ReportIsScan
<1> DEFINE A == \A d \in detected' : d.rule_index \in Count =>
                  Cardinality({v.path : v \in {w \in scans' : w.at >= d.start_time_ns}}) >= Threshold
<1>1. FileInv /\ [FileNext]_fileVars => [A]_fileVars
  <2> SUFFICES ASSUME FileInv, FileNext PROVE A
    OBVIOUS
  <2>1. TablesOK /\ HistoryOK /\ Counted /\ HistoryOK'
    BY FileInvStep DEF FileInv
  <2>2. CASE \E e : Exit(e)
    BY <2>1, <2>2, ReportedScan DEF Since
  <2> QED
    BY <2>1, <2>2, Steps
<1> QED
  BY <1>1, FileInvHolds, PTL DEF FileSpec, ReportIsScan

\* recursive_traversal reports only that many different directories, read
\* since the match began.
THEOREM ReportsAreTraversals == FileSpec => ReportIsTraversal
<1> DEFINE A == \A d \in detected' : d.rule_index \in Traversal =>
                  Cardinality({v.path : v \in {w \in visits' : w.at >= d.start_time_ns}}) >= Threshold
<1>1. FileInv /\ [FileNext]_fileVars => [A]_fileVars
  <2> SUFFICES ASSUME FileInv, FileNext PROVE A
    OBVIOUS
  <2>1. TablesOK /\ HistoryOK /\ Counted /\ HistoryOK'
    BY FileInvStep DEF FileInv
  <2>2. CASE \E e : Exit(e)
    BY <2>1, <2>2, ReportedWalk DEF Since
  <2> QED
    BY <2>1, <2>2, Steps
<1> QED
  BY <1>1, FileInvHolds, PTL DEF FileSpec, ReportIsTraversal

===============================================================================
