-------------------------------- MODULE Tracer --------------------------------
(***************************************************************************)
(* The ptrace loop of src/src/main.cc driving the engine, against a kernel *)
(* that runs the tracees: they make system calls, fork, create threads,    *)
(* execute programs, exit and are killed, and each stop waits until        *)
(* waitpid(-1) happens to return it.  The tracer is one thread, and a      *)
(* tracee it handles is stopped, so one round of the loop is one action.   *)
(***************************************************************************)
EXTENDS Engine

CONSTANTS
  Forks, Threads,  \* calls that create a process, a thread
  Exits,           \* calls that end the calling thread
  NoCall, NoTask,
  ZeroPid,         \* pid 0: the event message when PTRACE_GETEVENTMSG fails
  ReuseNamed,      \* whether a pid may be handed out again while a stop that
                   \* names it is still to be reported
  MaxCalls         \* bound: the system calls all tracees make

ASSUME TracerAssumption ==
  /\ ZeroPid \in Pids \ {Root}
  /\ Forks \cup Threads \cup Exits \subseteq Calls \ Execves
  /\ NoPath \notin ShellPaths \cup allow_execve_paths
  /\ MaxCalls \in Nat

VARIABLES
  task,   \* the kernel's tasks
  loop,   \* "waiting" in the while loop, or "left" it
  calls,  \* the number of calls made so far
  lost    \* tasks whose creator was killed before its event was reported

kernel == <<task, calls, lost>>
allVars == <<vars, kernel, loop>>

Places == {"user", "kernel", "execing", "returning"}
Stops == {"none", "sigstop", "entry", "exit", "fork", "exec", "exited"}

(* tgid: the thread group.  call, at: the system call and how far it is.   *)
(* stop, msg, ret: the stop to report, its event message and its result.   *)
(* born: when the pid was handed out.  The rest is history: the engine     *)
(* recorded the entry of the call; how often it judged the call; whether   *)
(* the program descends from a shell, or from an allowed program; whether  *)
(* the engine was told of every execve and fork this depends on, and no    *)
(* longer tracked the pid when it was handed out.                          *)
Task ==
  [tgid : Pids, call : Calls \cup {NoCall}, at : Places, stop : Stops,
   msg : Pids, ret : Retvals, born : Time, recorded : BOOLEAN, judged : Nat,
   shell : BOOLEAN, allowed : BOOLEAN, told : BOOLEAN]

ASSUME TaskAssumption == NoTask \notin Task

NewTask(group, stop) ==
  [tgid |-> group, call |-> NoCall, at |-> "user", stop |-> stop,
   msg |-> ZeroPid, ret |-> 0, born |-> now, recorded |-> FALSE, judged |-> 0,
   shell |-> FALSE, allowed |-> FALSE, told |-> TRUE]

exists(p) == task[p] # NoTask
Running(p) == exists(p) /\ task[p].stop = "none"
Group(g) == {p \in Pids : exists(p) /\ task[p].tgid = g}

-----------------------------------------------------------------------------
(* The kernel.                                                             *)

Syscall(p, c) ==
  /\ Running(p) /\ task[p].at = "user"
  /\ calls < MaxCalls    \* bound
  /\ calls' = calls + 1
  /\ task' = [task EXCEPT ![p].call = c, ![p].at = "kernel", ![p].stop = "entry",
                          ![p].recorded = FALSE, ![p].judged = 0]
  /\ UNCHANGED lost

\* A call that does not return at all, or not before its event stop.
Succeeds(c) == c \in Execves \cup Forks \cup Threads

Return(p, ret) ==
  /\ Running(p)
  /\ \/ /\ task[p].at = "kernel"
        /\ task[p].call \notin Exits
        /\ Succeeds(task[p].call) => ret # 0
     \/ task[p].at = "returning" /\ ret = 0
  /\ task' = [task EXCEPT ![p].at = "user", ![p].stop = "exit", ![p].ret = ret]
  /\ UNCHANGED <<calls, lost>>

\* fork, vfork, clone: the child starts with a SIGSTOP, the parent stops with
\* PTRACE_EVENT_FORK, VFORK or CLONE.  Either may be reported first.
Spawn(p, q) ==
  /\ Running(p) /\ task[p].at = "kernel"
  /\ task[p].call \in Forks \cup Threads
  /\ ~exists(q) /\ q # ZeroPid
  /\ ReuseNamed \/ \A t \in Pids : exists(t) /\ task[t].stop \in {"fork", "exec"}
                                  => task[t].msg # q
  /\ LET group == IF task[p].call \in Threads THEN task[p].tgid ELSE q
         child == [NewTask(group, "sigstop") EXCEPT
                     !.shell = task[p].shell, !.allowed = task[p].allowed,
                     !.told = task[p].told /\ ~is_tracked(q)]
     IN  task' = [task EXCEPT ![p].at = "returning", ![p].stop = "fork",
                              ![p].msg = q, ![q] = child]
  /\ lost' = lost \ {q}
  /\ UNCHANGED calls

\* What is left of a dead task until it is waited for.
Corpse(p) ==
  [NewTask(task[p].tgid, "exited") EXCEPT !.born = task[p].born]

\* SIGKILL wipes a stop that has not been reported.
Kill(S) ==
  /\ task' = [p \in Pids |-> IF p \in S THEN Corpse(p) ELSE task[p]]
  /\ lost' = lost \cup {task[p].msg : p \in {q \in S : task[q].stop = "fork"}}

ThreadExit(p) ==
  /\ Running(p) /\ task[p].at = "kernel" /\ task[p].call \in Exits
  /\ Kill({p})
  /\ UNCHANGED calls

GroupExit(g) ==
  /\ \E p \in Group(g) : task[p].stop # "exited"
  /\ Kill(Group(g))
  /\ UNCHANGED calls

\* A successful execve first ends the other threads of the group ...
ExecBegin(p) ==
  /\ Running(p) /\ task[p].at = "kernel" /\ task[p].call \in Execves
  /\ LET others == Group(task[p].tgid) \ {p}
     IN  /\ task' = [q \in Pids |-> IF q \in others THEN Corpse(q)
                                    ELSE IF q = p THEN [task[p] EXCEPT !.at = "execing"]
                                    ELSE task[q]]
         /\ lost' = lost \cup {task[q].msg : q \in {t \in others : task[t].stop = "fork"}}
  /\ UNCHANGED calls

\* ... and, when they have been waited for, the thread takes the pid of its
\* leader, whose end is never reported, and stops with PTRACE_EVENT_EXEC.
ExecDone(p) ==
  /\ Running(p) /\ task[p].at = "execing"
  /\ LET leader == task[p].tgid
         path == ExecPath[task[p].call]
         program == [task[p] EXCEPT
           !.at = "returning", !.stop = "exec", !.msg = p,
           !.born = task[leader].born,
           !.shell = @ \/ path \in ShellPaths,
           !.allowed = @ \/ path \in allow_execve_paths,
           !.told = @ /\ task[p].recorded /\ (leader = p \/ ~in_execve(leader))]
     IN  /\ Group(leader) \subseteq {p, leader}
         /\ task' = [q \in Pids |-> IF q = leader THEN program
                                    ELSE IF q = p THEN NoTask ELSE task[q]]
  /\ UNCHANGED <<calls, lost>>

-----------------------------------------------------------------------------
(* The loop of main().                                                     *)

\* waitpid(-1, __WALL) may return p.  The end of a leader is held back while
\* other threads of its group exist.
Waitable(p) ==
  /\ exists(p) /\ task[p].stop # "none"
  /\ task[p].stop = "exited" /\ task[p].tgid = p => Group(p) = {p}

AnyTracked == \E p \in Pids : is_tracked(p)

Wait(p, stops) ==
  /\ loop = "waiting" /\ AnyTracked
  /\ Waitable(p) /\ task[p].stop \in stops
  /\ UNCHANGED <<loop, calls>>

\* PTRACE_SYSCALL, with the history the round leaves.
Resume(p) ==
  [task[p] EXCEPT !.stop = "none", !.msg = ZeroPid, !.ret = 0,
                  !.call = IF task[p].stop = "exit" THEN NoCall ELSE @]
Judge(p) == [Resume(p) EXCEPT !.judged = IF seen' = NoEvent THEN @ ELSE @ + 1]

wait_exited(p) ==
  /\ Wait(p, {"exited"})
  /\ remove_tracked_pid(p)
  /\ task' = [task EXCEPT ![p] = NoTask]
  /\ UNCHANGED lost

\* Mutant: no PTRACE_SYSCALL for a pid the engine does not track.
wait_untracked_held(p) ==
  /\ Wait(p, {"entry", "exit"})
  /\ ~is_tracked(p)
  /\ nothing
  /\ UNCHANGED <<task, lost>>

wait_untracked(p) ==
  /\ Wait(p, {"entry", "exit"})
  /\ ~is_tracked(p)
  /\ nothing
  /\ task' = [task EXCEPT ![p] = Resume(p)]
  /\ UNCHANGED lost

wait_entry(p) ==
  /\ Wait(p, {"entry"})
  /\ is_tracked(p)
  /\ handle_syscall_entry(p, task[p].call)
  /\ task' = [task EXCEPT ![p] = [Resume(p) EXCEPT !.recorded = TRUE]]
  /\ UNCHANGED lost

wait_exit(p) ==
  /\ Wait(p, {"exit"})
  /\ is_tracked(p)
  /\ handle_syscall_exit(p, task[p].ret)
  /\ task' = [task EXCEPT ![p] = Judge(p)]
  /\ UNCHANGED lost

wait_exec(p) ==
  /\ Wait(p, {"exec"})
  /\ handle_exec_stop(p, task[p].msg)
  /\ task' = [task EXCEPT ![p] = Judge(p)]
  /\ UNCHANGED lost

\* Mutant: PTRACE_EVENT_CLONE is not handled.
wait_fork_only(p) ==
  /\ Wait(p, {"fork"})
  /\ LET child == task[p].msg
     IN  /\ \/ task[p].call \in Forks /\ add_tracked_pid(child, p)
            \/ task[p].call \in Threads /\ nothing
         /\ task' = [task EXCEPT ![p] = Resume(p)]
  /\ UNCHANGED lost

\* The child may have exited, and even been waited for, by now; if it has run
\* on under the pid of its leader the engine has a record of it, and drops it.
wait_fork(p) ==
  /\ Wait(p, {"fork"})
  /\ LET child == task[p].msg
     IN  /\ add_tracked_pid(child, p)
         /\ task' = [q \in Pids |->
              IF q = p THEN Resume(p)
              ELSE IF q = child /\ exists(q)
              THEN [task[q] EXCEPT !.told = @ /\ task[p].told /\ is_tracked(p),
                                   !.recorded = FALSE]
              ELSE task[q]]
  /\ UNCHANGED lost

wait_sigstop(p) ==
  /\ Wait(p, {"sigstop"})
  /\ nothing
  /\ task' = [task EXCEPT ![p] = Resume(p)]
  /\ UNCHANGED lost

\* The tracee is killed between waitpid and PTRACE_GETEVENTMSG, which fails
\* and leaves the message 0.
wait_killed(p) ==
  /\ Wait(p, {"fork", "exec"})
  /\ \/ task[p].stop = "fork" /\ add_tracked_pid(ZeroPid, p)
     \/ task[p].stop = "exec" /\ handle_exec_stop(p, ZeroPid)
  /\ Kill(Group(task[p].tgid))

\* Mutant: a failing waitpid does not end the loop.
leave_loop_untracked ==
  /\ loop = "waiting" /\ ~AnyTracked
  /\ loop' = "left"
  /\ UNCHANGED <<vars, kernel>>

\* engine.tracked() is 0, or waitpid fails: no child is left.
leave_loop ==
  /\ loop = "waiting"
  /\ ~AnyTracked \/ \A p \in Pids : ~exists(p)
  /\ loop' = "left"
  /\ UNCHANGED <<vars, kernel>>

-----------------------------------------------------------------------------
TracerInit ==
  /\ Init
  /\ task = [p \in Pids |-> IF p = Root THEN NewTask(Root, "none") ELSE NoTask]
  /\ loop = "waiting"
  /\ calls = 0
  /\ lost = {}

\* Once the tracer has left, PTRACE_O_EXITKILL ends what is left.
Kernel ==
  /\ loop = "waiting"
  /\ \/ \E p \in Pids, c \in Calls : Syscall(p, c)
     \/ \E p \in Pids, ret \in Retvals : Return(p, ret)
     \/ \E p, q \in Pids : Spawn(p, q)
     \/ \E p \in Pids : ThreadExit(p)
     \/ \E g \in Pids : GroupExit(g)
     \/ \E p \in Pids : ExecBegin(p)
     \/ \E p \in Pids : ExecDone(p)
  /\ UNCHANGED <<vars, loop>>

Round(p) ==
  \/ wait_exited(p) \/ wait_untracked(p) \/ wait_entry(p) \/ wait_exit(p)
  \/ wait_exec(p) \/ wait_fork(p) \/ wait_sigstop(p) \/ wait_killed(p)

MainLoop == (\E p \in Pids : Round(p)) \/ leave_loop

Clock == loop = "waiting" /\ Tick /\ UNCHANGED <<kernel, loop>>

Terminated == loop = "left" /\ UNCHANGED allVars

TracerNext == Kernel \/ MainLoop \/ Clock \/ Terminated

TracerSpec == TracerInit /\ [][TracerNext]_allVars

\* The tracer is never descheduled for ever.
FairTracerSpec == TracerSpec /\ WF_allVars(MainLoop)

-----------------------------------------------------------------------------
(* Properties.                                                             *)

\* A task the engine does not track is one whose creation is still to be
\* reported, or whose creator was killed before it was: nothing else escapes
\* add_tracked_pid (main.cc:96-103).
TrackedOrPending ==
  \A q \in Pids :
    exists(q) /\ ~is_tracked(q) =>
      \/ q \in lost
      \/ \E p \in Pids : exists(p) /\ task[p].stop = "fork" /\ task[p].msg = q

\* A call is given to process_event once at most, though an execve stops
\* twice on its way out (PTRACE_EVENT_EXEC and the exit); and exactly once, by
\* the time the tracee goes on, if the engine recorded its entry.
JudgedOnce ==
  \A p \in Pids : exists(p) =>
    /\ task[p].judged <= 1
    /\ Running(p) /\ task[p].at = "user" /\ task[p].recorded => task[p].judged = 1

\* The leader of a group has an execve of its own pending when another thread
\* completes one, and handle_exec_stop takes the leader's record for it.
WrongExec(p) == task[p].stop = "exec" /\ task[p].msg # p /\ in_execve(p)

\* A round that gives the call p returns from to process_event.
Judged(p) ==
  /\ exists(p) /\ task[p].stop \in {"exit", "exec"}
  /\ task'[p].stop = "none" /\ seen' # NoEvent

OwnCall(p) ==
  /\ seen'.pid = p
  /\ seen'.call = task[p].call
  /\ seen'.retval = IF task[p].stop = "exec" THEN 0 ELSE task[p].ret

\* The rules judge the call that is returning, with its own result, whatever
\* stale record the pid has: through remapped pids, dead threads and kills.
OwnCallJudged ==
  [][ \A p \in Pids :
        Judged(p) /\ task[p].recorded /\ ~WrongExec(p) => OwnCall(p) ]_allVars

\* Where the engine was told of every execve and every fork, a tracked task is
\* flagged as run from a shell (as allowed) exactly if it, or a task it
\* descends from before the fork, executed a shell (an allowed program), also
\* when its pid was another's before.  It is not so for a pid that was still
\* tracked when it was handed out, nor for what such a task starts: a fork
\* event handled after the child was waited for (engine.cc:296), or a tracee
\* killed before its exec stop was handled, leaves flags that nobody takes back.
FlagsExact ==
  \A p \in Pids :
    exists(p) /\ is_tracked(p) /\ task[p].told /\ task[p].stop \notin {"exec", "exited"} =>
      /\ p \in from_shell_pids <=> task[p].shell
      /\ p \in allow_pids <=> task[p].allowed

\* The tracer does not leave, and so have the kernel kill what it traces
\* (PTRACE_O_EXITKILL), while a tracee is alive; except after a creation was
\* lost with its creator.
LeavesLast ==
  loop = "left" /\ lost = {} => \A p \in Pids : ~exists(p)

\* Every stop is waited for, while the loop runs: no tracee stays stopped for
\* ever, also those the engine does not track.
StopsHandled ==
  \A p \in Pids : Waitable(p) ~> ~Waitable(p) \/ loop = "left"

\* When no tracee is left, the tracer ends, whatever pids the engine still
\* tracks (a child that was waited for before its creation was reported).
LoopEnds == (\A p \in Pids : ~exists(p)) ~> loop = "left"

-----------------------------------------------------------------------------
(* What README.md says of the tracer, as it says it; runs that expect a    *)
(* violation refute these.                                                 *)

\* "New processes from fork, clone and so on are included in detection"
\* (README.md:40): no task is resumed from its entry stop, and goes on to make
\* the call, without the engine having recorded it.
NewProcessSeen ==
  [][ \A p \in Pids :
        exists(p) /\ task[p].stop = "entry" /\ task'[p] # NoTask /\ task'[p].stop = "none"
        => task'[p].recorded ]_allVars

\* An argument rule looks at the arguments of the call that took place
\* (README.md:46).
OwnArguments ==
  [][ \A p \in Pids :
        Judged(p) /\ task[p].recorded => OwnCall(p) ]_allVars

\* A sequence rule matches calls of one process (README.md:49): none of them
\* is from before the process began.
SameProcess ==
  [][ \A d \in detected' :
        exists(d.pid) => d.start_time_ns >= task[d.pid].born ]_allVars

===============================================================================
