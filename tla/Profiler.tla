------------------------------- MODULE Profiler -------------------------------
(***************************************************************************)
(* The profiler (profiler/syscall_tracer.cc): a second ptrace loop, which  *)
(* prints every followed call that succeeds.  It has its own tables, and   *)
(* does not ask for PTRACE_EVENT_EXEC: when a thread other than the leader *)
(* executes a program, nothing tells it that the thread's pid has changed. *)
(***************************************************************************)
EXTENDS Integers, FiniteSets

CONSTANTS
  Pids, Root,
  ZeroPid,         \* pid 0: the event message when PTRACE_GETEVENTMSG fails
  ReusePids,       \* whether a pid may be handed out a second time
  Calls, Execves, Forks, Threads, Exits,  \* what tracees call, by its effect
  Connects,        \* connect
  Followed,        \* the numbers parse_profile_syscall has a case for
  ReadsMemory,     \* those of them with an argument in the tracee's memory
  Retvals, InProgress,  \* results, and -EINPROGRESS
  NoCall, NoTask, Absent, Nullopt, NoRecord,
  MaxCalls         \* bound: the system calls all tracees make

ASSUME ProfilerAssumption ==
  /\ Root \in Pids /\ ZeroPid \in Pids \ {Root}
  /\ Execves \cup Forks \cup Threads \cup Exits \subseteq Calls
  /\ Connects \cup Followed \subseteq Calls
  /\ ReadsMemory \subseteq Followed
  /\ Retvals \subseteq Int /\ 0 \in Retvals
  /\ InProgress \in Int /\ InProgress < 0
  /\ {Absent, Nullopt} \cap Calls = {} /\ Absent # Nullopt /\ NoCall \notin Calls
  /\ MaxCalls \in Nat

VARIABLES
  tracked_pids,      \* std::unordered_set<pid_t>
  pending_syscalls,  \* Absent, or Nullopt, or the call the pid was last seen to enter
  printed,           \* the record the last step wrote, or NoRecord
  task,              \* the kernel's tasks
  loop,              \* "waiting" in the while loop, or "left" it
  used, calls,       \* the pids handed out, the number of calls made
  lost,              \* tasks whose creator was killed before its event was reported
  renamed            \* the pids that threads had before their execve

kernel == <<task, used, calls, lost, renamed>>
profilerVars == <<tracked_pids, pending_syscalls, printed, kernel, loop>>

Places == {"user", "kernel", "execing", "returning", "trapping"}
Stops == {"none", "sigstop", "entry", "exit", "fork", "trap", "exited"}

(* Task's last three fields are history: the entry of the call was parsed, *)
(* it is an execve that changed the pid, how often the call was printed.   *)
Task ==
  [tgid : Pids, call : Calls \cup {NoCall}, at : Places, stop : Stops,
   msg : Pids, ret : Retvals, parsed : BOOLEAN, remapped : BOOLEAN, records : Nat]

Record == [pid : Pids, call : Calls, retval : Retvals]

ASSUME NamesAssumption == NoTask \notin Task /\ NoRecord \notin Record

NewTask(group, stop) ==
  [tgid |-> group, call |-> NoCall, at |-> "user", stop |-> stop, msg |-> ZeroPid,
   ret |-> 0, parsed |-> FALSE, remapped |-> FALSE, records |-> 0]

exists(p) == task[p] # NoTask
Running(p) == exists(p) /\ task[p].stop = "none"
Group(g) == {p \in Pids : exists(p) /\ task[p].tgid = g}

-----------------------------------------------------------------------------
(* The kernel.                                                             *)

Syscall(p, c) ==
  /\ Running(p) /\ task[p].at = "user"
  /\ calls < MaxCalls    \* bound
  /\ calls' = calls + 1
  /\ task' = [task EXCEPT ![p] = [NewTask(@.tgid, "entry") EXCEPT !.call = c, !.at = "kernel"]]
  /\ UNCHANGED <<used, lost, renamed>>

Return(p, ret) ==
  /\ Running(p)
  /\ \/ /\ task[p].at = "kernel" /\ task[p].call \notin Exits
        /\ task[p].call \in Execves \cup Forks \cup Threads => ret < 0
     \/ task[p].at = "returning" /\ ret = 0
  /\ task' = [task EXCEPT ![p].at = "user", ![p].stop = "exit", ![p].ret = ret]
  /\ UNCHANGED <<used, calls, lost, renamed>>

Spawn(p, q) ==
  /\ Running(p) /\ task[p].at = "kernel" /\ task[p].call \in Forks \cup Threads
  /\ ~exists(q) /\ q # ZeroPid /\ (ReusePids \/ q \notin used)
  /\ task' = [task EXCEPT
       ![p].at = "returning", ![p].stop = "fork", ![p].msg = q,
       ![q] = NewTask(IF task[p].call \in Threads THEN task[p].tgid ELSE q, "sigstop")]
  /\ used' = used \cup {q}
  /\ UNCHANGED <<calls, lost, renamed>>

\* The tasks of S die; a stop that was not reported gives way to their end.
Kill(S) ==
  /\ task' = [p \in Pids |-> IF p \in S THEN NewTask(task[p].tgid, "exited") ELSE task[p]]
  /\ lost' = lost \cup {task[p].msg : p \in {q \in S : task[q].stop = "fork"}}
  /\ UNCHANGED renamed

ThreadExit(p) ==
  /\ Running(p) /\ task[p].at = "kernel" /\ task[p].call \in Exits
  /\ Kill({p})
  /\ UNCHANGED <<used, calls>>

GroupExit(g) ==
  /\ \E p \in Group(g) : task[p].stop # "exited"
  /\ Kill(Group(g))
  /\ UNCHANGED <<used, calls>>

ExecBegin(p) ==
  /\ Running(p) /\ task[p].at = "kernel" /\ task[p].call \in Execves
  /\ LET others == Group(task[p].tgid) \ {p}
     IN  /\ task' = [q \in Pids |->
              IF q \in others THEN NewTask(task[q].tgid, "exited")
              ELSE IF q = p THEN [task[p] EXCEPT !.at = "execing"] ELSE task[q]]
         /\ lost' = lost \cup {task[q].msg : q \in {t \in others : task[t].stop = "fork"}}
  /\ UNCHANGED <<used, calls, renamed>>

\* The thread takes the pid of its leader, whose end is not reported, and
\* stops at the exit of the call; a plain SIGTRAP follows it.
ExecDone(p) ==
  /\ Running(p) /\ task[p].at = "execing"
  /\ LET leader == task[p].tgid
     IN  /\ Group(leader) \subseteq {p, leader}
         /\ task' = [q \in Pids |->
              IF q = leader THEN [task[p] EXCEPT !.at = "trapping", !.stop = "exit",
                                                 !.remapped = (p # leader)]
              ELSE IF q = p THEN NoTask ELSE task[q]]
         /\ renamed' = renamed \cup ({p} \ {leader})
  /\ UNCHANGED <<used, calls, lost>>

Trap(p) ==
  /\ Running(p) /\ task[p].at = "trapping"
  /\ task' = [task EXCEPT ![p].at = "user", ![p].stop = "trap"]
  /\ UNCHANGED <<used, calls, lost, renamed>>

-----------------------------------------------------------------------------
(* The loop of main().                                                     *)

AnyTracked == tracked_pids # {}

\* waitpid(-1, __WALL) may return p.
Waitable(p) ==
  /\ exists(p) /\ task[p].stop # "none"
  /\ task[p].stop = "exited" /\ task[p].tgid = p => Group(p) = {p}

Wait(p, stops) ==
  /\ loop = "waiting" /\ AnyTracked
  /\ Waitable(p) /\ task[p].stop \in stops
  /\ UNCHANGED <<loop, used, calls, renamed>>

Resume(p) == [task EXCEPT ![p].stop = "none", ![p].msg = ZeroPid]

silent == printed' = NoRecord

\* Mutant: the pending call of an ended pid is kept.
wait_exited_kept(p) ==
  /\ Wait(p, {"exited"})
  /\ tracked_pids' = tracked_pids \ {p}
  /\ task' = [task EXCEPT ![p] = NoTask]
  /\ UNCHANGED <<pending_syscalls, lost>> /\ silent

wait_exited(p) ==
  /\ Wait(p, {"exited"})
  /\ tracked_pids' = tracked_pids \ {p}
  /\ pending_syscalls' = [pending_syscalls EXCEPT ![p] = Absent]
  /\ task' = [task EXCEPT ![p] = NoTask]
  /\ UNCHANGED lost /\ silent

\* A failing PTRACE_GET_SYSCALL_INFO is a tracee killed before its stop.
wait_untracked(p) ==
  /\ Wait(p, {"entry", "exit"}) /\ p \notin tracked_pids
  /\ task' = Resume(p)
  /\ UNCHANGED <<tracked_pids, pending_syscalls, lost>> /\ silent

\* A string that cannot be read leaves std::nullopt, as a number without a
\* case does.
parse_profile_syscall(c) ==
  (IF c \in Followed THEN {c} ELSE {Nullopt})
    \cup (IF c \in ReadsMemory THEN {Nullopt} ELSE {})

wait_entry(p) ==
  /\ Wait(p, {"entry"}) /\ p \in tracked_pids
  /\ \E parsed \in parse_profile_syscall(task[p].call) :
       /\ pending_syscalls' = [pending_syscalls EXCEPT ![p] = parsed]
       /\ task' = [Resume(p) EXCEPT ![p].parsed = (parsed # Nullopt)]
  /\ UNCHANGED <<tracked_pids, lost>> /\ silent

has_call(p) == pending_syscalls[p] \notin {Absent, Nullopt}

\* Mutant: -EINPROGRESS is a failure like another.
should_print_success(p, ret) == ret >= 0

should_print(p, ret) ==
  \/ ret >= 0
  \/ has_call(p) /\ pending_syscalls[p] \in Connects /\ ret = InProgress

\* One line of output for the call, its pid and its result.
print_syscall(p, call, ret) == [pid |-> p, call |-> call, retval |-> ret]

\* Mutant: the call stays pending after its exit.
wait_exit_kept(p) ==
  /\ Wait(p, {"exit"}) /\ p \in tracked_pids
  /\ LET ret == task[p].ret
     IN  \/ /\ has_call(p) /\ should_print(p, ret)
            /\ printed' = print_syscall(p, pending_syscalls[p], ret)
            /\ task' = [Resume(p) EXCEPT ![p].records = @ + 1]
         \/ /\ ~(has_call(p) /\ should_print(p, ret))
            /\ silent /\ task' = Resume(p)
  /\ UNCHANGED <<tracked_pids, pending_syscalls, lost>>

wait_exit(p) ==
  /\ Wait(p, {"exit"}) /\ p \in tracked_pids
  /\ LET ret == task[p].ret
     IN  \/ /\ has_call(p) /\ should_print(p, ret)
            /\ printed' = print_syscall(p, pending_syscalls[p], ret)
            /\ task' = [Resume(p) EXCEPT ![p].records = @ + 1]
         \/ /\ ~(has_call(p) /\ should_print(p, ret))
            /\ silent /\ task' = Resume(p)
  /\ pending_syscalls' = [pending_syscalls EXCEPT ![p] = Nullopt]
  /\ UNCHANGED <<tracked_pids, lost>>

\* Mutant: the creator is inserted.
wait_fork_parent(p) ==
  /\ Wait(p, {"fork"})
  /\ tracked_pids' = tracked_pids \cup {p}
  /\ task' = Resume(p)
  /\ UNCHANGED <<pending_syscalls, lost>> /\ silent

\* The child may have ended, and been waited for, by now.
wait_fork(p) ==
  /\ Wait(p, {"fork"})
  /\ tracked_pids' = tracked_pids \cup {task[p].msg}
  /\ task' = Resume(p)
  /\ UNCHANGED <<pending_syscalls, lost>> /\ silent

\* SIGSTOP of a new task, SIGTRAP after an execve: resumed without a signal.
wait_signal(p) ==
  /\ Wait(p, {"sigstop", "trap"})
  /\ task' = Resume(p)
  /\ UNCHANGED <<tracked_pids, pending_syscalls, lost>> /\ silent

\* The tracee is killed between waitpid and PTRACE_GETEVENTMSG.
wait_killed(p) ==
  /\ loop = "waiting" /\ AnyTracked
  /\ Waitable(p) /\ task[p].stop = "fork"
  /\ tracked_pids' = tracked_pids \cup {ZeroPid}
  /\ Kill(Group(task[p].tgid))
  /\ UNCHANGED <<pending_syscalls, used, calls, loop>> /\ silent

\* Mutant: a failing waitpid does not end the loop.
leave_loop_untracked ==
  /\ loop = "waiting" /\ ~AnyTracked
  /\ loop' = "left"
  /\ UNCHANGED <<tracked_pids, pending_syscalls, kernel>> /\ silent

\* Nothing is tracked, or waitpid fails: no child is left.
leave_loop ==
  /\ loop = "waiting"
  /\ ~AnyTracked \/ \A p \in Pids : ~exists(p)
  /\ loop' = "left"
  /\ UNCHANGED <<tracked_pids, pending_syscalls, kernel>> /\ silent

-----------------------------------------------------------------------------
ProfilerInit ==
  /\ tracked_pids = {Root}
  /\ pending_syscalls = [p \in Pids |-> Absent]
  /\ printed = NoRecord
  /\ task = [p \in Pids |-> IF p = Root THEN NewTask(Root, "none") ELSE NoTask]
  /\ loop = "waiting"
  /\ used = {Root} /\ calls = 0 /\ lost = {} /\ renamed = {}

Kernel ==
  /\ loop = "waiting"
  /\ \/ \E p \in Pids, c \in Calls : Syscall(p, c)
     \/ \E p \in Pids, ret \in Retvals : Return(p, ret)
     \/ \E p, q \in Pids : Spawn(p, q)
     \/ \E p \in Pids : ThreadExit(p) \/ GroupExit(p)
     \/ \E p \in Pids : ExecBegin(p) \/ ExecDone(p) \/ Trap(p)
  /\ UNCHANGED <<tracked_pids, pending_syscalls, loop>> /\ silent

Round(p) ==
  \/ wait_exited(p) \/ wait_untracked(p) \/ wait_entry(p) \/ wait_exit(p)
  \/ wait_fork(p) \/ wait_signal(p) \/ wait_killed(p)

MainLoop == (\E p \in Pids : Round(p)) \/ leave_loop

Terminated == loop = "left" /\ UNCHANGED profilerVars

ProfilerNext == Kernel \/ MainLoop \/ Terminated

\* The profiler is never descheduled for ever.
ProfilerSpec ==
  ProfilerInit /\ [][ProfilerNext]_profilerVars /\ WF_profilerVars(MainLoop)

-----------------------------------------------------------------------------
(* Properties.                                                             *)

\* The tables hold what their declarations say, and only a tracked pid has an
\* entry in pending_syscalls.
ProfilerTypeOK ==
  /\ tracked_pids \subseteq Pids
  /\ pending_syscalls \in [Pids -> Calls \cup {Absent, Nullopt}]
  /\ \A p \in Pids : pending_syscalls[p] # Absent => p \in tracked_pids
  /\ printed \in Record \cup {NoRecord}
  /\ task \in [Pids -> Task \cup {NoTask}]
  /\ loop \in {"waiting", "left"}
  /\ used \subseteq Pids /\ lost \subseteq Pids /\ renamed \subseteq Pids
  /\ calls \in Nat

\* A record is of the call that its pid returns from, with the result of that
\* call, through kills, late fork events and pids handed out again; but not of
\* the execve of a thread, which returns under the leader's pid and is taken
\* for the call the leader was in (syscall_tracer.cc:1054).
PrintedOwnCall ==
  [][ printed' # NoRecord =>
        LET p == printed'.pid
        IN  \/ task[p].remapped
            \/ /\ task[p].parsed
               /\ printed'.call = task[p].call
               /\ printed'.retval = task[p].ret ]_profilerVars

Printable(t) ==
  t.parsed /\ (t.ret >= 0 \/ (t.call \in Connects /\ t.ret = InProgress))

\* By the time a task goes on, the call it returned from was printed once if it
\* was parsed at its entry and succeeded, or is a connect under way, and never
\* otherwise.
PrintedOnce ==
  \A p \in Pids :
    Running(p) /\ task[p].at \in {"user", "trapping"} /\ ~task[p].remapped =>
      task[p].records = IF Printable(task[p]) THEN 1 ELSE 0

\* A pending call is the one its task is in, or died in and was not waited for
\* yet.  The only others are those that a thread's execve leaves behind: at
\* the leader's pid until the call's exit stop, and at the thread's for ever.
PendingIsOwn ==
  \A p \in Pids : has_call(p) =>
    \/ p \in renamed
    \/ /\ exists(p)
       /\ \/ task[p].stop = "exited"
          \/ task[p].stop = "exit" /\ task[p].remapped
          \/ /\ task[p].call = pending_syscalls[p] /\ task[p].parsed
             /\ \/ task[p].at \in {"kernel", "execing", "returning"}
                \/ task[p].stop = "exit"

\* The profiler does not leave, and so have PTRACE_O_EXITKILL end what it
\* follows, while a task is alive whose creator was not killed first.
ProfilerLeavesLast ==
  loop = "left" /\ lost = {} => \A p \in Pids : ~exists(p)

\* When no task is left the profiler ends, though pids that no task has any
\* more stay in tracked_pids after an execve of a thread or a late fork event.
ProfilerEnds == (\A p \in Pids : ~exists(p)) ~> loop = "left"

===============================================================================
