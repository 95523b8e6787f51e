----------------------------- MODULE FileProcess -----------------------------
(***************************************************************************)
(* A process with one thread and its descriptors, under the engine with    *)
(* the rules of FileRules.  What the kernel does with a call is modelled   *)
(* beside what the engine makes of it, so that the rules' accounts can be  *)
(* compared with what was really read and opened.                          *)
(***************************************************************************)
EXTENDS FileRules

CONSTANTS
  Pid,
  Kind,                     \* rule index -> which of the functions above
  timeout_ns, cooldown_ns,
  Ops, OpenModes,           \* the calls this process makes
  Dirs,                     \* the paths that are directories
  MaxFd, Chunk,             \* bounds of descriptors and of one read
  Closed, NoEvent, NoRet, Untracked,
  MaxTime, MaxIds, MaxCalls \* bounds

Fds == 0 .. MaxFd
Rules == DOMAIN Kind

VARIABLES
  tracked_pids, from_shell_pids, allow_pids, active_detection_states,
  cooldown_until, detection_state_count, detection_started, now, seen, detected,
  file,                     \* descriptor -> path and number of its open
  opened,                   \* open of a database -> what was read through it
  scans, visits,            \* recent opens of files, readings of directories
  fresh,                    \* the directory opened last and not read since
  told,                     \* rule -> time of its last report
  calls                     \* bound

history == <<opened, scans, visits, fresh, told, calls>>

Calls ==
  [op : {"openat"}, path : Paths, mode : OpenModes] \cup [op : Reads \cup {"close"}, fd : Fds]
  \cup [op : {"dup2"}, fd : Fds, newfd : Fds]
  \cup [op : {"getdents64"}, fd : Fds, path : Paths]

Data ==
  {NoData} \cup [fd : Fds, bytes : Nat] \cup [fd : Fds, paths : SUBSET Paths]
  \cup [paths : SUBSET Paths]

\* The values of a SyscallEvent.
Records ==
  [call : Calls, pid : {Pid}, retval : Int \cup {NoRet}, from_shell : BOOLEAN,
   timestamp_ns : Nat]

Step(r, k, d, e) ==
  CASE Kind[r] = "read_db_large" -> read_db_large(k, d, e)
    [] Kind[r] = "recursive_traversal" -> recursive_traversal(k, d, e)
    [] Kind[r] = "path_openat_count" -> path_openat_count(k, d, e)

Transitions ==
  [read_db_large |-> 3, recursive_traversal |-> 2, path_openat_count |-> 1]

\* register_rules adds read_db_large, which has no cooldown, before the
\* generated rules.
ASSUME KindAssumption ==
  /\ IsFiniteSet(Rules) /\ Rules = 0 .. Cardinality(Rules) - 1
  /\ \A r \in Rules : Kind[r] \in DOMAIN Transitions
  /\ timeout_ns \in [Rules -> Nat] /\ cooldown_ns \in [Rules -> Int]
  /\ \A r \in Rules : Kind[r] = "read_db_large" => r = 0 /\ cooldown_ns[r] <= 0

ASSUME ProcessAssumption ==
  /\ OpenModes \subseteq Modes /\ Dirs \subseteq Paths
  /\ {MaxFd, Chunk, MaxTime, MaxIds, MaxCalls} \subseteq Nat
  /\ NoRet \notin Int /\ Untracked # NoEvent /\ {Untracked, NoEvent} \cap Records = {}
  /\ Closed \notin [path : Paths, open : Nat]
  /\ NoData \notin [fd : Fds, paths : SUBSET Paths] \cup [paths : SUBSET Paths]

\* gen_rule_def: the counting rules are single-active, no rule is inherited.
Engine == INSTANCE Engine WITH
  Pids <- {Pid}, Root <- Pid, NumRules <- Cardinality(Rules),
  Length <- [r \in Rules |-> Transitions[Kind[r]]],
  inherit_on_fork <- [r \in Rules |-> FALSE],
  single_active_per_pid <- [r \in Rules |-> Kind[r] # "read_db_large"],
  Execves <- {}, Listens <- {}, ExecPath <- [c \in {} |-> c], NoPath <- NoRet,
  allow_execve_paths <- {}, Retvals <- -1 .. MaxFd + Chunk,
  RequireListen <- FALSE

ReadDb == {r \in Rules : Kind[r] = "read_db_large"}
Traversal == {r \in Rules : Kind[r] = "recursive_traversal"}
Count == {r \in Rules : Kind[r] = "path_openat_count"}

-----------------------------------------------------------------------------
(* The kernel.                                                             *)

IsOpen(fd) == file[fd] # Closed
Free == {fd \in Fds : ~IsOpen(fd)}
Lowest(F) == CHOOSE fd \in F : \A other \in F : fd <= other

current == tracked_pids[Pid].call
in_call == Engine!has_event(Pid) /\ tracked_pids[Pid].retval = NoRet

\* What a call may return, besides an error.
Results(c) ==
  CASE c.op = "openat" -> IF Free = {} THEN {} ELSE {Lowest(Free)}
    [] c.op \in Reads -> IF IsOpen(c.fd) THEN 0 .. Chunk ELSE {}
    [] c.op = "dup2" -> IF IsOpen(c.fd) THEN {c.newfd} ELSE {}
    [] c.op = "close" -> IF IsOpen(c.fd) THEN {0} ELSE {}
    [] c.op = "getdents64" -> IF IsOpen(c.fd) /\ c.path \in Dirs THEN {0, 1} ELSE {}

\* Only an open of a database for reading has a number: the id its match gets.
Number(c) ==
  IF ReadDb # {} /\ c.mode # "write" /\ c.path \in Db
  THEN detection_state_count ELSE 0

file_after(c, ret) ==
  CASE c.op = "openat" -> [file EXCEPT ![ret] = [path |-> c.path, open |-> Number(c)]]
    [] c.op = "dup2" -> [file EXCEPT ![c.newfd] = file[c.fd]]
    [] c.op = "close" -> [file EXCEPT ![c.fd] = Closed]
    [] OTHER -> file

-----------------------------------------------------------------------------
(* History.  An open is followed while it is used the way the rule's three *)
(* states are made for: through the descriptor it got, then, after at most *)
(* one dup2, through the duplicate.                                        *)

Through(fd) == IF IsOpen(fd) THEN file[fd].open ELSE 0

LeftBehind(c, n) ==
  LET o == opened[n]
  IN  \/ c.op \in Reads /\ Through(c.fd) = n /\ c.fd # o.latest
      \/ c.op = "dup2" /\ Through(c.fd) = n /\ (o.duplicated \/ c.fd # o.latest)
      \/ c.op = "dup2" /\ c.newfd = o.latest /\ Through(c.fd) # n
      \/ c.op = "close" /\ c.fd = o.latest

Used(c, ret, n) ==
  LET o == opened[n]
  IN  IF LeftBehind(c, n) THEN [o EXCEPT !.followed = FALSE]
      ELSE CASE c.op \in Reads /\ Through(c.fd) = n -> [o EXCEPT !.bytes = @ + ret]
             [] c.op = "dup2" /\ Through(c.fd) = n ->
                  [o EXCEPT !.latest = c.newfd, !.duplicated = TRUE]
             [] OTHER -> o

opened_after(c, ret) ==
  LET new == IF c.op = "openat" /\ Number(c) # 0 THEN {Number(c)} ELSE {}
  IN  [n \in DOMAIN opened \cup new |->
         IF n \in new
         THEN [latest |-> ret, start |-> now, bytes |-> 0,
               duplicated |-> FALSE, followed |-> TRUE]
         ELSE Used(c, ret, n)]

\* What happened within the window of rule r.
Recent(S, r) == {v \in S : v.at >= now - timeout_ns[r]}

Kept(S) == UNION {Recent(S, r) : r \in Count \cup Traversal}

NewScan(c) ==
  IF c.op = "openat" /\ c.mode # "directory" /\ ~path_skip(c.path)
  THEN {[path |-> c.path, at |-> now]} ELSE {}

\* began: when the directory was opened, if it was the last one opened and is
\* read for the first time; else -1.
NewVisit(c, ret) ==
  IF c.op = "getdents64" /\ ret > 0
  THEN {[path |-> c.path, at |-> now,
         began |-> IF fresh.fd = c.fd THEN fresh.at ELSE -1]}
  ELSE {}

NoneFresh == [fd |-> -1, at |-> -1]

fresh_after(c, ret) ==
  CASE c.op = "openat" /\ ~path_skip(c.path) -> [fd |-> ret, at |-> now]
    [] c.op = "close" /\ c.fd = fresh.fd -> NoneFresh
    [] c.op = "dup2" /\ c.newfd = fresh.fd -> NoneFresh
    [] c.op = "getdents64" /\ ret > 0 /\ c.fd = fresh.fd -> NoneFresh
    [] OTHER -> fresh

note(c, ret) ==
  /\ opened' = opened_after(c, ret)
  /\ scans' = Kept(scans \cup NewScan(c))
  /\ visits' = Kept(visits \cup NewVisit(c, ret))
  /\ fresh' = fresh_after(c, ret)

-----------------------------------------------------------------------------
Enter(c) ==
  /\ ~in_call /\ calls < MaxCalls        \* bound
  /\ c.op \in Ops
  /\ c.op = "getdents64" => IsOpen(c.fd) /\ file[c.fd].path = c.path
  /\ Engine!handle_syscall_entry(Pid, c)
  /\ calls' = calls + 1
  /\ UNCHANGED <<file, opened, scans, visits, fresh, told>>

Reported == [r \in Rules |-> IF \E d \in detected' : d.rule_index = r
                             THEN now ELSE told[r]]

Succeed(ret) ==
  /\ in_call /\ ret \in Results(current)
  /\ Engine!handle_syscall_exit(Pid, ret)
  /\ file' = file_after(current, ret)
  /\ note(current, ret)
  /\ told' = Reported
  /\ UNCHANGED calls

Fail ==
  /\ in_call
  /\ Engine!handle_syscall_exit(Pid, -1)
  /\ told' = Reported
  /\ UNCHANGED <<file, opened, scans, visits, fresh, calls>>

Clock == Engine!Tick /\ UNCHANGED <<file>> /\ UNCHANGED history

FileInit ==
  /\ Engine!Init
  /\ file = [fd \in Fds |-> Closed]
  /\ opened = [n \in {} |-> n]
  /\ scans = {} /\ visits = {} /\ fresh = NoneFresh
  /\ told = [r \in Rules |-> -1]
  /\ calls = 0

FileNext ==
  \/ \E c \in Calls : Enter(c)
  \/ \E ret \in 0 .. MaxFd + Chunk : Succeed(ret)
  \/ Fail
  \/ Clock

fileVars == <<Engine!vars, file, history>>

FileSpec == FileInit /\ [][FileNext]_fileVars

-----------------------------------------------------------------------------
(* Properties.                                                             *)

\* The engine's types hold, every match's data is of its rule's own kind (the
\* any_cast in every function succeeds), and a match that has enough bytes or
\* paths to be reported is never stored.
FileTypeOK ==
  /\ Engine!TypeOK
  /\ \A s \in active_detection_states :
       \/ s.rule_index \in ReadDb /\ s.data \in [fd : Fds, bytes : 0 .. Large - 1]
       \/ /\ s.rule_index \in Traversal
          /\ s.data \in [fd : Fds, paths : SUBSET Paths]
          /\ Cardinality(s.data.paths) < Threshold
       \/ /\ s.rule_index \in Count
          /\ s.data \in [paths : SUBSET Paths]
          /\ Cardinality(s.data.paths) < Threshold
  /\ \A fd \in Fds : IsOpen(fd) => file[fd].path \in Paths

InTime(r, start) == now - start <= timeout_ns[r]

\* read_db_large: while an open of a database is used through one descriptor
\* at a time, its match has that descriptor and the bytes really read.
AccountsAgree ==
  \A n \in DOMAIN opened, r \in ReadDb :
    LET o == opened[n]
    IN  o.followed /\ o.bytes < Large /\ InTime(r, o.start) =>
          \E s \in active_detection_states :
            /\ s.id = n /\ s.rule_index = r /\ s.start_time_ns = o.start
            /\ s.data = [fd |-> o.latest, bytes |-> o.bytes]

\* read_db_large: the read that makes such an open's total large is reported,
\* if the window is not over.
LargeReadReported ==
  [][ \A n \in DOMAIN opened, r \in ReadDb :
        /\ opened'[n].followed
        /\ opened[n].bytes < Large /\ opened'[n].bytes >= Large
        /\ InTime(r, opened[n].start)
        => \E d \in detected' : d.id = n /\ d.rule_index = r ]_fileVars

\* read_db_large: a report is of an open that had that much read through it,
\* or of one whose descriptor was since closed, replaced or duplicated again.
ReportIsLarge ==
  [][ \A d \in detected' : d.rule_index \in ReadDb =>
        /\ d.id \in DOMAIN opened'
        /\ opened'[d.id].followed => opened'[d.id].bytes >= Large ]_fileVars

\* The counting rules report only what happened since the match began: that
\* many different files opened, or directories read.
ReportIsScan ==
  [][ \A d \in detected' : d.rule_index \in Count =>
        Cardinality({v.path : v \in {w \in scans' : w.at >= d.start_time_ns}})
          >= Threshold ]_fileVars

ReportIsTraversal ==
  [][ \A d \in detected' : d.rule_index \in Traversal =>
        Cardinality({v.path : v \in {w \in visits' : w.at >= d.start_time_ns}})
          >= Threshold ]_fileVars

\* A window is not sliding: it begins with a match, and a match forgets when
\* it expires.  Still 2 * Threshold - 1 different files within a window's
\* length cannot pass, except in the cooldown of an earlier report.
Quiet(r) ==
  \/ told[r] = -1
  \/ /\ told[r] < now - timeout_ns[r]
     /\ told[r] + cooldown_ns[r] <= now - timeout_ns[r]

ScanNoticed ==
  \A r \in Count :
    Cardinality({v.path : v \in Recent(scans, r)}) >= 2 * Threshold - 1 => ~Quiet(r)

\* Of directories each opened and read before the next is opened, one more
\* may be lost: the one under way when a match expires.
TraversalNoticed ==
  \A r \in Traversal :
    LET walked == {v \in visits : v.began # -1 /\ v.began >= now - timeout_ns[r]}
    IN  Cardinality({v.path : v \in walked}) >= 2 * Threshold => ~Quiet(r)

===============================================================================
