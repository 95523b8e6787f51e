----------------------------- MODULE TracerSafety -----------------------------
(***************************************************************************)
(* Theorems of module Tracer for every set of pids and number of calls,    *)
(* also when pids are handed out again, as long as none is that a waiting  *)
(* stop names: who is tracked, which call is judged, which flags a task    *)
(* has, and when the loop may end.  Without this they fail: a pid that an  *)
(* execve left behind may be a new task when its stop is handled, and      *)
(* handle_exec_stop takes the record of that task.                         *)
(***************************************************************************)
EXTENDS TracerProofs

-----------------------------------------------------------------------------
(* The invariant.                                                          *)

\* The creation of q by p is still to be reported.
Creates(p, q) == exists(p) /\ task[p].stop = "fork" /\ task[p].msg = q

Pending(q) == \E p \in Pids : Creates(p, q)

\* The engine's record of m is of a call c that did not return.
OpenRecord(m, c) ==
  has_event(m) /\ tracked_pids[m].retval = NoRet /\ tracked_pids[m].call = c

InCall(t) == t.at # "user" \/ t.stop = "exit"

\* Between PTRACE_EVENT_EXEC and the exit stop of an execve.
AfterExec(t) ==
  /\ t.call \in Execves
  /\ \/ t.at = "returning" /\ t.stop = "none"
     \/ t.stop = "exit" /\ t.ret = 0

\* The pid that p had when it made its call.
Caller(p) == IF task[p].stop = "exec" THEN task[p].msg ELSE p

\* Where in a call a task can stop.
Placed(t, q) ==
  /\ t.stop = "entry" => t.at = "kernel" /\ ~t.recorded
  /\ t.stop = "fork" => t.at = "returning" /\ t.call \in Forks \cup Threads
  /\ t.stop = "exec" => t.at = "returning" /\ t.call \in Execves /\ t.tgid = q
  /\ t.stop \in {"exit", "sigstop", "exited"} => t.at = "user"
  /\ t.stop \in {"sigstop", "exited"} => t.judged = 0 /\ ~t.recorded
  /\ t.at = "execing" => t.call \in Execves /\ t.stop = "none"
  /\ t.at = "returning" => t.call \in Execves \cup Forks \cup Threads

PlacedTasks == \A q \in Pids : exists(q) => Placed(task[q], q)

\* The record of a pid is of that pid.
OwnRecords == \A q \in Pids : has_event(q) => tracked_pids[q].pid = q

\* A call is not judged before it returns; if its entry was recorded the
\* engine has the record until it is judged, and an execve that was judged at
\* its first stop leaves none for the second.
CallInv(p) ==
  /\ InCall(task[p]) /\ ~AfterExec(task[p]) =>
       /\ task[p].judged = 0
       /\ task[p].recorded => OpenRecord(Caller(p), task[p].call)
  /\ AfterExec(task[p]) =>
       /\ task[p].judged <= 1
       /\ task[p].recorded => task[p].judged = 1
       /\ task[p].judged = 1 => ~has_event(p)
  /\ ~InCall(task[p]) =>
       /\ task[p].judged <= 1
       /\ task[p].recorded /\ task[p].stop = "none" => task[p].judged = 1

JudgedCalls == \A q \in Pids : exists(q) => CallInv(q)

\* The pid that a thread had before it took its leader's is gone, and no
\* other thread had it.
GonePids ==
  \A p \in Pids : exists(p) /\ task[p].stop = "exec" /\ task[p].msg # p =>
    /\ task[p].msg # ZeroPid /\ ~exists(task[p].msg)
    /\ \A q \in Pids : exists(q) /\ task[q].stop = "exec" /\ task[q].msg = task[p].msg
                       => q = p

\* A new task has one creator, and is in its group if it does not lead one of
\* its own; no execve left the pid it has.
NewPids ==
  \A p, q \in Pids : Creates(p, q) =>
    /\ q # ZeroPid
    /\ \A o \in Pids : Creates(o, q) => o = p
    /\ exists(q) => task[q].tgid \in {q, task[p].tgid}
    /\ \A o \in Pids : exists(o) /\ task[o].stop = "exec" /\ task[o].msg = q => o = q

CallsInv == PlacedTasks /\ OwnRecords /\ JudgedCalls /\ GonePids /\ NewPids

\* A thread executes a program when the others of its group are dead, and the
\* stop it then has is that of the only one left.
ExecAlone ==
  \A p, q \in Pids :
    exists(p) /\ exists(q) /\ p # q /\ task[p].tgid = task[q].tgid =>
      /\ task[p].at = "execing" => task[q].stop = "exited"
      /\ task[p].stop # "exec"

\* Creations have an order: in any set of tasks, one was created by none of
\* the others.
Ordered ==
  \A X \in SUBSET Pids : X # {} => \E q \in X : \A p \in X : ~Creates(p, q)

GroupInv == ExecAlone /\ TrackedOrPending /\ Ordered

-----------------------------------------------------------------------------
(* What the handlers do to the records and the flags.                      *)

LEMMA JudgeEffect ==
  ASSUME NEW ev \in SyscallEvent, NEW shell, NEW allow, NEW C,
         process_event(ev, shell, allow, C)
  PROVE  /\ seen' = MarkShell(ev) /\ seen' \in SyscallEvent /\ seen' # NoEvent
         /\ seen'.pid = ev.pid /\ seen'.call = ev.call /\ seen'.retval = ev.retval
         /\ from_shell_pids' = shell \cup ShellStarted(ev)
         /\ allow_pids' = allow \cup AllowListed(ev)
<1>1. /\ MarkShell(ev) \in SyscallEvent
      /\ MarkShell(ev).pid = ev.pid /\ MarkShell(ev).call = ev.call
      /\ MarkShell(ev).retval = ev.retval
  BY DEF MarkShell, SyscallEvent
<1> QED
  BY <1>1, CallsAssumption DEF process_event

LEMMA EntryEffect ==
  ASSUME TypeInv, NEW p \in Pids, NEW c \in Calls, is_tracked(p), handle_syscall_entry(p, c)
  PROVE  /\ tracked_pids' = [tracked_pids EXCEPT ![p] = tracked_pids'[p]]
         /\ tracked_pids'[p] \in SyscallEvent
         /\ tracked_pids'[p].pid = p /\ tracked_pids'[p].call = c
         /\ tracked_pids'[p].retval = NoRet
         /\ UNCHANGED <<from_shell_pids, allow_pids>>
<1> DEFINE e == [call |-> c, pid |-> p, retval |-> NoRet,
                 from_shell |-> p \in from_shell_pids, timestamp_ns |-> now]
<1>1. tracked_pids' = [tracked_pids EXCEPT ![p] = e]
      /\ UNCHANGED <<from_shell_pids, allow_pids>>
  BY DEF handle_syscall_entry
<1>2. e \in SyscallEvent
  BY DEF SyscallEvent, TypeInv, TypeOK
<1>3. tracked_pids \in [Pids -> SyscallEvent \cup {Untracked, NoEvent}]
  BY DEF TypeInv, TypeOK
<1>4. e.pid = p /\ e.call = c /\ e.retval = NoRet
  OBVIOUS
<1> HIDE DEF e
<1>5. tracked_pids'[p] = e
  BY <1>1, <1>3
<1> QED
  BY <1>1, <1>2, <1>4, <1>5

\* What process_event adds to the flags when pid p returns from call c.
Shells(p, c, ret) ==
  IF c \in Execves /\ ret = 0 /\ ExecPath[c] \in ShellPaths THEN {p} ELSE {}
Allows(p, c, ret) ==
  IF c \in Execves /\ ret = 0 /\ ExecPath[c] \in allow_execve_paths THEN {p} ELSE {}

LEMMA FlagsAdded ==
  ASSUME NEW ev \in SyscallEvent
  PROVE  /\ ShellStarted(ev) = Shells(ev.pid, ev.call, ev.retval)
         /\ AllowListed(ev) = Allows(ev.pid, ev.call, ev.retval)
BY TracerAssumption DEF ShellStarted, AllowListed, ProgramRun, Succeeded, Shells, Allows

LEMMA ExitEffect ==
  ASSUME TypeInv, NEW p \in Pids, NEW ret \in Retvals, handle_syscall_exit(p, ret)
  PROVE  \/ /\ has_event(p)
            /\ tracked_pids' = [tracked_pids EXCEPT ![p] = seen']
            /\ seen' \in SyscallEvent /\ seen' # NoEvent
            /\ seen'.pid = tracked_pids[p].pid
            /\ seen'.call = tracked_pids[p].call /\ seen'.retval = ret
            /\ from_shell_pids' = from_shell_pids
                 \cup Shells(tracked_pids[p].pid, tracked_pids[p].call, ret)
            /\ allow_pids' = allow_pids
                 \cup Allows(tracked_pids[p].pid, tracked_pids[p].call, ret)
         \/ /\ ~has_event(p) /\ seen' = NoEvent
            /\ UNCHANGED <<tracked_pids, from_shell_pids, allow_pids>>
<1>1. CASE has_event(p)
  <2> DEFINE ev == [tracked_pids[p] EXCEPT !.retval = ret, !.timestamp_ns = now]
  <2>1. tracked_pids[p] \in SyscallEvent
    BY <1>1, EventType DEF TypeInv
  <2>2. ev \in SyscallEvent /\ ev.pid = tracked_pids[p].pid
        /\ ev.call = tracked_pids[p].call /\ ev.retval = ret
    BY <2>1 DEF SyscallEvent, TypeInv, TypeOK
  <2>3. /\ process_event(ev, from_shell_pids, allow_pids, cooldown_until)
        /\ tracked_pids' = [tracked_pids EXCEPT ![p] = MarkShell(ev)]
    BY <1>1 DEF handle_syscall_exit
  <2> HIDE DEF ev
  <2>4. /\ seen' = MarkShell(ev) /\ seen' \in SyscallEvent /\ seen' # NoEvent
        /\ seen'.pid = ev.pid /\ seen'.call = ev.call /\ seen'.retval = ev.retval
        /\ from_shell_pids' = from_shell_pids \cup ShellStarted(ev)
        /\ allow_pids' = allow_pids \cup AllowListed(ev)
    BY <2>2, <2>3, JudgeEffect
  <2>5. /\ ShellStarted(ev) = Shells(ev.pid, ev.call, ev.retval)
        /\ AllowListed(ev) = Allows(ev.pid, ev.call, ev.retval)
    BY <2>2, FlagsAdded
  <2> QED
    BY <1>1, <2>2, <2>3, <2>4, <2>5
<1>2. CASE ~has_event(p)
  BY <1>2 DEF handle_syscall_exit, nothing, no_event
<1> QED
  BY <1>1, <1>2

LEMMA ExecEffect ==
  ASSUME TypeInv, NEW p \in Pids, NEW old \in Pids, handle_exec_stop(p, old)
  PROVE  \/ /\ in_execve(p)
            /\ tracked_pids' = [tracked_pids EXCEPT ![p] = NoEvent]
            /\ seen' # NoEvent /\ seen'.pid = p
            /\ seen'.call = tracked_pids[p].call /\ seen'.retval = 0
            /\ from_shell_pids' = from_shell_pids \cup Shells(p, tracked_pids[p].call, 0)
            /\ allow_pids' = allow_pids \cup Allows(p, tracked_pids[p].call, 0)
         \/ /\ ~in_execve(p) /\ old # p /\ in_execve(old)
            /\ tracked_pids' = [tracked_pids EXCEPT ![p] = NoEvent, ![old] = Untracked]
            /\ seen' # NoEvent /\ seen'.pid = p
            /\ seen'.call = tracked_pids[old].call /\ seen'.retval = 0
            /\ from_shell_pids' = Renamed(from_shell_pids, old, p)
                                    \cup Shells(p, tracked_pids[old].call, 0)
            /\ allow_pids' = Renamed(allow_pids, old, p)
                               \cup Allows(p, tracked_pids[old].call, 0)
         \/ /\ ~in_execve(p) /\ (old # p => ~in_execve(old)) /\ seen' = NoEvent
            /\ UNCHANGED <<tracked_pids, from_shell_pids, allow_pids>>
<1>e. ASSUME NEW o \in Pids, in_execve(o)
      PROVE  /\ ExecEvent(p, o) \in SyscallEvent /\ ExecEvent(p, o).pid = p
             /\ ExecEvent(p, o).call = tracked_pids[o].call /\ ExecEvent(p, o).retval = 0
  <2>1. tracked_pids[o] \in SyscallEvent
    BY <1>e, EventType DEF in_execve, TypeInv
  <2> QED
    BY <2>1, CallsAssumption DEF ExecEvent, SyscallEvent, TypeInv, TypeOK
<1>1. CASE in_execve(p)
  <2>1. /\ process_event(ExecEvent(p, p), from_shell_pids, allow_pids, cooldown_until)
        /\ tracked_pids' = [tracked_pids EXCEPT ![p] = NoEvent]
    BY <1>1 DEF handle_exec_stop, exec_in_place
  <2> QED
    BY <1>1, <1>e, <2>1, JudgeEffect, FlagsAdded
<1>2. CASE ~in_execve(p) /\ old # p /\ in_execve(old)
  <2>1. /\ process_event(ExecEvent(p, old), Renamed(from_shell_pids, old, p),
                         Renamed(allow_pids, old, p),
                         [cooldown_until EXCEPT ![old] = NoCooldown])
        /\ tracked_pids' = [tracked_pids EXCEPT ![p] = NoEvent, ![old] = Untracked]
    BY <1>2 DEF handle_exec_stop, exec_remapped
  <2> QED
    BY <1>2, <1>e, <2>1, JudgeEffect, FlagsAdded
<1>3. CASE ~in_execve(p) /\ (old # p => ~in_execve(old))
  BY <1>3 DEF handle_exec_stop, nothing, no_event
<1> QED
  BY <1>1, <1>2, <1>3

-----------------------------------------------------------------------------
(* What most steps leave alone.                                            *)

\* No step but Spawn and ExecDone makes a stop for an event; S are the tasks
\* another step changes, and T the pids whose records it changes.
Changes(S, T) ==
  /\ \A q \in Pids \ S : task'[q] = task[q]
  /\ \A q \in S : q \in Pids /\ exists(q) /\
       (exists(q)' =>
          /\ Placed(task'[q], q) /\ CallInv(q)'
          /\ task'[q].tgid = task[q].tgid
          /\ task'[q].stop \in {"fork", "exec"} =>
               task'[q].stop = task[q].stop /\ task'[q].msg = task[q].msg)
  /\ \A q \in Pids \ T : tracked_pids'[q] = tracked_pids[q]
  /\ \A q \in T : has_event(q)' => tracked_pids'[q].pid = q
  /\ \A q \in Pids \ S : exists(q) =>
       /\ q \notin T
       /\ task[q].stop = "exec" /\ task[q].recorded => task[q].msg \notin T

LEMMA CallsFrame ==
  ASSUME TracerInv, CallsInv, NEW S, NEW T, Changes(S, T)
  PROVE  CallsInv'
<1> USE DEF Changes
<1>1. \A q \in Pids : exists(q)' => exists(q) /\ task'[q].tgid = task[q].tgid
  BY DEF exists
<1>2. \A q \in Pids \ S : exists(q)' <=> exists(q)
  BY DEF exists
<1>m. \A q \in Pids : exists(q) => task[q].msg \in Pids
  BY DEF TracerInv, KernelInv, Tasks, Fit, Task
<1>g. GonePids /\ NewPids
  BY DEF CallsInv
<1>3. PlacedTasks'
  BY <1>2 DEF CallsInv, PlacedTasks
<1>4. OwnRecords'
  BY DEF CallsInv, OwnRecords, has_event
<1>5. JudgedCalls'
  <2> SUFFICES ASSUME NEW q \in Pids \ S, exists(q) PROVE CallInv(q)'
    BY <1>2 DEF JudgedCalls
  <2>1. task'[q] = task[q] /\ tracked_pids'[q] = tracked_pids[q] /\ CallInv(q)
    BY DEF CallsInv, JudgedCalls
  <2>2. task[q].recorded => tracked_pids'[Caller(q)] = tracked_pids[Caller(q)]
    BY <1>m, <2>1 DEF Caller
  <2> QED
    BY <2>1, <2>2 DEF CallInv, Caller, OpenRecord, has_event
<1>6. GonePids'
  <2>1. \A q \in Pids : exists(q)' /\ task'[q].stop = "exec" =>
          exists(q) /\ task[q].stop = "exec" /\ task'[q].msg = task[q].msg
    BY <1>2
  <2> SUFFICES ASSUME NEW p \in Pids, exists(p)', task'[p].stop = "exec",
                      task'[p].msg # p
               PROVE  /\ task'[p].msg # ZeroPid /\ ~exists(task[p].msg)'
                      /\ \A q \in Pids : exists(q)' /\ task'[q].stop = "exec"
                                         /\ task'[q].msg = task'[p].msg => q = p
    BY <1>g DEF GonePids
  <2>2. /\ exists(p) /\ task'[p].msg = task[p].msg
        /\ task[p].msg # ZeroPid /\ ~exists(task[p].msg)
        /\ \A q \in Pids : exists(q) /\ task[q].stop = "exec"
                           /\ task[q].msg = task[p].msg => q = p
    BY <1>g, <2>1 DEF GonePids
  <2>3. ~exists(task[p].msg)'
    BY <1>1, <1>m, <2>2
  <2> QED
    BY <2>1, <2>2, <2>3
<1>7. NewPids'
  <2> SUFFICES ASSUME NEW o \in Pids, NEW q \in Pids, Creates(o, q)'
               PROVE  /\ q # ZeroPid
                      /\ \A n \in Pids : Creates(n, q)' => n = o
                      /\ exists(q)' => task'[q].tgid \in {q, task'[o].tgid}
                      /\ \A n \in Pids : exists(n)' /\ task'[n].stop = "exec"
                                         /\ task'[n].msg = q => n = q
    BY DEF NewPids
  <2>1. \A n \in Pids : Creates(n, q)' => Creates(n, q)
    BY <1>2 DEF Creates
  <2>2. /\ q # ZeroPid
        /\ \A n \in Pids : Creates(n, q) => n = o
        /\ exists(q) => task[q].tgid \in {q, task[o].tgid}
        /\ \A n \in Pids : exists(n) /\ task[n].stop = "exec" /\ task[n].msg = q => n = q
    BY <1>g, <2>1 DEF NewPids
  <2>3. task'[o].tgid = task[o].tgid
    BY <1>1 DEF Creates
  <2>4. \A n \in Pids : exists(n)' /\ task'[n].stop = "exec" =>
          exists(n) /\ task[n].stop = "exec" /\ task'[n].msg = task[n].msg
    BY <1>2
  <2> QED
    BY <1>1, <2>1, <2>2, <2>3, <2>4
<1> QED
  BY <1>3, <1>4, <1>5, <1>6, <1>7 DEF CallsInv

LEMMA CorpseCalls ==
  ASSUME NEW p \in Pids, exists(p), task'[p] = Corpse(p)
  PROVE  /\ Placed(task'[p], p) /\ CallInv(p)'
         /\ task'[p].stop = "exited" /\ task'[p].tgid = task[p].tgid
BY DEF Corpse, NewTask, Placed, CallInv, InCall, AfterExec

\* A step of the kernel that changes the tasks in S, and lets none of them
\* stop for an event.
LEMMA CallsKernel ==
  ASSUME TracerInv, CallsInv, NEW S, tracked_pids' = tracked_pids,
         \A q \in Pids \ S : task'[q] = task[q],
         \A q \in S : q \in Pids /\ exists(q) /\ exists(q)' /\ Placed(task'[q], q)
                      /\ CallInv(q)' /\ task'[q].stop \notin {"fork", "exec"}
                      /\ task'[q].tgid = task[q].tgid
  PROVE  CallsInv'
<1>1. Changes(S, {})
  BY DEF Changes
<1> QED
  BY <1>1, CallsFrame

\* SIGKILL, which leaves no record of a call behind.
LEMMA CallsKill ==
  ASSUME TracerInv, CallsInv, NEW S, \A q \in S : q \in Pids /\ exists(q), Kill(S),
         tracked_pids' = tracked_pids
  PROVE  CallsInv'
<1>1. \A q \in Pids : task'[q] = IF q \in S THEN Corpse(q) ELSE task[q]
  BY DEF Kill
<1>2. \A q \in S : exists(q)'
  <2> SUFFICES ASSUME NEW q \in S PROVE exists(q)'
    OBVIOUS
  <2>1. Fit(q, Corpse(q))
    BY CorpseFit
  <2> QED
    BY <1>1, <2>1, TaskAssumption DEF exists, Fit
<1>3. \A q \in S : /\ Placed(task'[q], q) /\ CallInv(q)'
                   /\ task'[q].stop = "exited" /\ task'[q].tgid = task[q].tgid
  BY <1>1, CorpseCalls
<1> QED
  BY <1>1, <1>2, <1>3, CallsKernel

-----------------------------------------------------------------------------
(* The kernel's steps and the records.                                     *)

LEMMA CallsSyscall ==
  ASSUME TracerInv, CallsInv, tracked_pids' = tracked_pids,
         NEW p \in Pids, NEW c \in Calls, Syscall(p, c)
  PROVE  CallsInv'
<1>1. /\ exists(p) /\ task[p] \in Task /\ Placed(task[p], p)
      /\ task \in [Pids -> Task \cup {NoTask}]
      /\ task' = [task EXCEPT ![p].call = c, ![p].at = "kernel", ![p].stop = "entry",
                              ![p].recorded = FALSE, ![p].judged = 0]
  BY DEF Syscall, Running, TracerInv, KernelInv, Tasks, Fit, CallsInv, PlacedTasks
<1>2. /\ task'[p] \in Task /\ task'[p].tgid = task[p].tgid
      /\ task'[p].call = c /\ task'[p].at = "kernel" /\ task'[p].stop = "entry"
      /\ ~task'[p].recorded /\ task'[p].judged = 0
  BY <1>1 DEF Task, Places, Stops
<1>3. exists(p)' /\ \A q \in Pids \ {p} : task'[q] = task[q]
  BY <1>1, <1>2, TaskAssumption DEF exists
<1>4. Placed(task'[p], p) /\ CallInv(p)'
  BY <1>2 DEF Placed, CallInv, InCall, AfterExec
<1>5. Changes({p}, {})
  BY <1>1, <1>2, <1>3, <1>4 DEF Changes
<1> QED
  BY <1>5, CallsFrame

LEMMA CallsReturn ==
  ASSUME TracerInv, CallsInv, tracked_pids' = tracked_pids,
         NEW p \in Pids, NEW ret \in Retvals, Return(p, ret)
  PROVE  CallsInv'
<1>1. /\ exists(p) /\ task[p] \in Task /\ task[p].stop = "none"
      /\ Placed(task[p], p) /\ CallInv(p)
      /\ task \in [Pids -> Task \cup {NoTask}]
      /\ task' = [task EXCEPT ![p].at = "user", ![p].stop = "exit", ![p].ret = ret]
  BY DEF Return, Running, TracerInv, KernelInv, Tasks, Fit, CallsInv, PlacedTasks, JudgedCalls
<1>2. /\ task'[p] \in Task /\ task'[p].tgid = task[p].tgid
      /\ task'[p].call = task[p].call /\ task'[p].at = "user"
      /\ task'[p].stop = "exit" /\ task'[p].ret = ret
      /\ task'[p].recorded = task[p].recorded /\ task'[p].judged = task[p].judged
  BY <1>1 DEF Task, Places, Stops
<1>3. exists(p)' /\ \A q \in Pids \ {p} : task'[q] = task[q]
  BY <1>1, <1>2, TaskAssumption DEF exists
<1>4. Placed(task'[p], p)
  BY <1>1, <1>2 DEF Placed
<1>5. CallInv(p)'
  <2>1. AfterExec(task'[p]) <=> AfterExec(task[p])
    BY <1>1, <1>2, TracerAssumption DEF Return, AfterExec, Succeeds
  <2>2. InCall(task[p]) /\ InCall(task'[p]) /\ Caller(p)' = p /\ Caller(p) = p
    BY <1>1, <1>2 DEF Return, InCall, Caller
  <2> QED
    BY <1>1, <1>2, <2>1, <2>2 DEF CallInv, OpenRecord, has_event
<1>6. Changes({p}, {})
  BY <1>1, <1>2, <1>3, <1>4, <1>5 DEF Changes
<1> QED
  BY <1>6, CallsFrame

LEMMA CallsExecBegin ==
  ASSUME TracerInv, CallsInv, tracked_pids' = tracked_pids,
         NEW p \in Pids, ExecBegin(p)
  PROVE  CallsInv'
<1> DEFINE others == Group(task[p].tgid) \ {p}
<1>1. /\ exists(p) /\ task[p] \in Task /\ task[p].stop = "none"
      /\ task[p].at = "kernel" /\ task[p].call \in Execves
      /\ Placed(task[p], p) /\ CallInv(p)
      /\ \A q \in Pids : task'[q] = IF q \in others THEN Corpse(q)
                                    ELSE IF q = p THEN [task[p] EXCEPT !.at = "execing"]
                                    ELSE task[q]
  BY DEF ExecBegin, Running, TracerInv, KernelInv, Tasks, Fit, CallsInv, PlacedTasks, JudgedCalls
<1>2. /\ task'[p] \in Task /\ task'[p].tgid = task[p].tgid
      /\ task'[p].call = task[p].call /\ task'[p].at = "execing"
      /\ task'[p].stop = "none" /\ task'[p].ret = task[p].ret
      /\ task'[p].recorded = task[p].recorded /\ task'[p].judged = task[p].judged
  BY <1>1 DEF Task, Places, Stops
<1>3. /\ exists(p)' /\ Placed(task'[p], p)
      /\ CallInv(p)'
  <2>1. ~AfterExec(task'[p]) /\ ~AfterExec(task[p]) /\ InCall(task[p]) /\ InCall(task'[p])
    BY <1>1, <1>2 DEF AfterExec, InCall
  <2>2. Caller(p)' = p /\ Caller(p) = p
    BY <1>1, <1>2 DEF Caller
  <2> QED
    BY <1>1, <1>2, <2>1, <2>2, TaskAssumption
    DEF CallInv, OpenRecord, has_event, exists, Placed
<1>4. ASSUME NEW q \in others
      PROVE  /\ q \in Pids /\ exists(q) /\ exists(q)' /\ Placed(task'[q], q) /\ CallInv(q)'
             /\ task'[q].stop = "exited" /\ task'[q].tgid = task[q].tgid
  <2>1. q \in Pids /\ exists(q) /\ task'[q] = Corpse(q)
    BY <1>1 DEF Group
  <2>2. Fit(q, Corpse(q))
    BY <2>1, CorpseFit
  <2> QED
    BY <2>1, <2>2, CorpseCalls, TaskAssumption DEF exists, Fit
<1> HIDE DEF others
<1>5. Changes(others \cup {p}, {})
  BY <1>1, <1>2, <1>3, <1>4 DEF Changes
<1> QED
  BY <1>5, CallsFrame

\* What the two steps that move tasks about leave.
Spawned(p, q) ==
  /\ exists(p) /\ task[p] \in Task /\ task[p].stop = "none" /\ task[p].at = "kernel"
  /\ task[p].call \in Forks \cup Threads
  /\ ~exists(q) /\ q # p /\ q # ZeroPid /\ lost' = lost \ {q}
  /\ ~ReuseNamed => \A o \in Pids : exists(o) /\ task[o].stop \in {"fork", "exec"}
                                    => task[o].msg # q
  /\ task'[p] = [task[p] EXCEPT !.at = "returning", !.stop = "fork", !.msg = q]
  /\ task'[q].tgid = (IF task[p].call \in Threads THEN task[p].tgid ELSE q)
  /\ task'[q].at = "user" /\ task'[q].stop = "sigstop" /\ task'[q].msg = ZeroPid
  /\ task'[q].recorded = FALSE /\ task'[q].judged = 0
  /\ task'[q].shell = task[p].shell /\ task'[q].allowed = task[p].allowed
  /\ task'[q].told = (task[p].told /\ ~is_tracked(q))
  /\ \A o \in Pids \ {p, q} : task'[o] = task[o]
  /\ \A o \in Pids : exists(o)' <=> exists(o) \/ o = q

LEMMA SpawnShape ==
  ASSUME TracerInv, NEW p \in Pids, NEW q \in Pids, Spawn(p, q)
  PROVE  Spawned(p, q)
<1> DEFINE group == IF task[p].call \in Threads THEN task[p].tgid ELSE q
           parent == [task[p] EXCEPT !.at = "returning", !.stop = "fork", !.msg = q]
           child == [NewTask(group, "sigstop") EXCEPT
                       !.shell = task[p].shell, !.allowed = task[p].allowed,
                       !.told = task[p].told /\ ~is_tracked(q)]
<1>1. /\ exists(p) /\ task[p] \in Task /\ task[p].stop = "none" /\ task[p].at = "kernel"
      /\ task[p].call \in Forks \cup Threads
      /\ ~exists(q) /\ q # p /\ q # ZeroPid /\ lost' = lost \ {q}
      /\ ~ReuseNamed => \A o \in Pids : exists(o) /\ task[o].stop \in {"fork", "exec"}
                                        => task[o].msg # q
      /\ task \in [Pids -> Task \cup {NoTask}] /\ now \in Time
      /\ task' = [task EXCEPT ![p] = parent, ![q] = child]
  BY DEF Spawn, Running, TracerInv, KernelInv, Tasks, Fit, TypeInv, TypeOK
<1>2. child \in Task
  <2> DEFINE told == task[p].told /\ ~is_tracked(q)
  <2>1. told \in BOOLEAN /\ task[p].shell \in BOOLEAN /\ task[p].allowed \in BOOLEAN
    BY <1>1 DEF Task
  <2>2. child = [NewTask(group, "sigstop") EXCEPT
                   !.shell = task[p].shell, !.allowed = task[p].allowed, !.told = told]
    OBVIOUS
  <2>3. group \in Pids
    BY <1>1 DEF Task
  <2> HIDE DEF told, child, group
  <2> QED
    BY <1>1, <2>1, <2>2, <2>3, TracerAssumption, CallsAssumption
    DEF NewTask, Task, Places, Stops
<1>3. /\ child.tgid = group /\ child.at = "user" /\ child.stop = "sigstop"
      /\ child.msg = ZeroPid /\ child.recorded = FALSE /\ child.judged = 0
      /\ child.shell = task[p].shell /\ child.allowed = task[p].allowed
      /\ child.told = (task[p].told /\ ~is_tracked(q))
  BY DEF NewTask
<1>4. parent \in Task
  BY <1>1 DEF Task, Places, Stops
<1> HIDE DEF parent, child
<1>5. /\ task'[p] = parent /\ task'[q] = child
      /\ \A o \in Pids \ {p, q} : task'[o] = task[o]
  BY <1>1
<1>6. \A o \in Pids : exists(o)' <=> exists(o) \/ o = q
  BY <1>1, <1>2, <1>4, <1>5, TaskAssumption DEF exists
<1> QED
  BY <1>1, <1>3, <1>5, <1>6 DEF parent, group, Spawned

Executed(p, leader) ==
  /\ exists(p) /\ task[p] \in Task /\ task[p].stop = "none" /\ task[p].at = "execing"
  /\ leader \in Pids /\ exists(leader) /\ task[leader] \in Task
  /\ task[leader].tgid = leader /\ Group(leader) \subseteq {p, leader}
  /\ lost' = lost
  /\ task'[leader].tgid = leader /\ task'[leader].call = task[p].call
  /\ task'[leader].at = "returning" /\ task'[leader].stop = "exec"
  /\ task'[leader].msg = p /\ task'[leader].ret = task[p].ret
  /\ task'[leader].recorded = task[p].recorded
  /\ task'[leader].judged = task[p].judged
  /\ task'[leader].shell = (task[p].shell \/ ExecPath[task[p].call] \in ShellPaths)
  /\ task'[leader].allowed =
       (task[p].allowed \/ ExecPath[task[p].call] \in allow_execve_paths)
  /\ task'[leader].told =
       (task[p].told /\ task[p].recorded /\ (leader = p \/ ~in_execve(leader)))
  /\ \A o \in Pids \ {p, leader} : task'[o] = task[o]
  /\ \A o \in Pids : exists(o)' <=> exists(o) /\ (o = leader \/ o # p)

LEMMA ExecShape ==
  ASSUME TracerInv, NEW p \in Pids, ExecDone(p), NEW leader, leader = task[p].tgid
  PROVE  Executed(p, leader)
<1>1. /\ exists(p) /\ task[p] \in Task /\ task[p].stop = "none" /\ task[p].at = "execing"
      /\ leader \in Pids /\ exists(leader) /\ task[leader] \in Task
      /\ task[leader].tgid = leader /\ Group(leader) \subseteq {p, leader}
      /\ lost' = lost
  BY DEF ExecDone, Running, TracerInv, KernelInv, Tasks, Leaders, Fit, Task
<1>2. \A o \in Pids : o # leader => task'[o] = IF o = p THEN NoTask ELSE task[o]
  BY DEF ExecDone
<1>3. task'[leader] = [task[p] EXCEPT
        !.at = "returning", !.stop = "exec", !.msg = p, !.born = task[leader].born,
        !.shell = @ \/ ExecPath[task[p].call] \in ShellPaths,
        !.allowed = @ \/ ExecPath[task[p].call] \in allow_execve_paths,
        !.told = @ /\ task[p].recorded /\ (leader = p \/ ~in_execve(leader))]
  BY <1>1 DEF ExecDone
<1>4. /\ task'[leader].tgid = leader /\ task'[leader].call = task[p].call
      /\ task'[leader].at = "returning" /\ task'[leader].stop = "exec"
      /\ task'[leader].msg = p /\ task'[leader].ret = task[p].ret
      /\ task'[leader].recorded = task[p].recorded
      /\ task'[leader].judged = task[p].judged
      /\ task'[leader].shell = (task[p].shell \/ ExecPath[task[p].call] \in ShellPaths)
      /\ task'[leader].allowed =
           (task[p].allowed \/ ExecPath[task[p].call] \in allow_execve_paths)
      /\ task'[leader].told =
           (task[p].told /\ task[p].recorded /\ (leader = p \/ ~in_execve(leader)))
  BY <1>1, <1>3 DEF Task
<1>5. exists(leader)'
  <2>1. /\ task'[leader].shell \in BOOLEAN /\ task'[leader].allowed \in BOOLEAN
        /\ task'[leader].told \in BOOLEAN
    BY <1>1, <1>4 DEF Task
  <2>2. task'[leader] = [task[p] EXCEPT
          !.at = "returning", !.stop = "exec", !.msg = p, !.born = task[leader].born,
          !.shell = task'[leader].shell, !.allowed = task'[leader].allowed,
          !.told = task'[leader].told]
    BY <1>1, <1>3 DEF Task
  <2> DEFINE program == task'[leader]
  <2> HIDE DEF program
  <2>3. program \in Task
    <3>1. task[p] \in Task /\ task[leader].born \in Time
      BY <1>1 DEF Task
    <3>2. /\ program.shell \in BOOLEAN /\ program.allowed \in BOOLEAN
          /\ program.told \in BOOLEAN
      BY <2>1 DEF program
    <3>3. program = [task[p] EXCEPT
            !.at = "returning", !.stop = "exec", !.msg = p, !.born = task[leader].born,
            !.shell = program.shell, !.allowed = program.allowed, !.told = program.told]
      BY <2>2 DEF program
    <3> QED
      BY <3>1, <3>2, <3>3 DEF Task, Places, Stops
  <2> QED
    BY <2>3, TaskAssumption DEF exists, program
<1>6. \A o \in Pids : exists(o)' <=> exists(o) /\ (o = leader \/ o # p)
  BY <1>1, <1>2, <1>5 DEF exists
<1> QED
  BY <1>1, <1>2, <1>4, <1>6 DEF Executed

LEMMA CallsSpawn ==
  ASSUME ~ReuseNamed, TracerInv, CallsInv, tracked_pids' = tracked_pids,
         NEW p \in Pids, NEW q \in Pids, Spawn(p, q)
  PROVE  CallsInv'
<1>0. Spawned(p, q)
  BY SpawnShape
<1>1. /\ exists(p) /\ task[p] \in Task /\ task[p].stop = "none" /\ task[p].at = "kernel"
      /\ task[p].call \in Forks \cup Threads
      /\ ~exists(q) /\ q # p /\ q # ZeroPid
      /\ \A o \in Pids : exists(o) /\ task[o].stop \in {"fork", "exec"} => task[o].msg # q
      /\ task'[q].tgid = (IF task[p].call \in Threads THEN task[p].tgid ELSE q)
      /\ task'[q].at = "user" /\ task'[q].stop = "sigstop"
      /\ task'[q].recorded = FALSE /\ task'[q].judged = 0
      /\ \A o \in Pids \ {p, q} : task'[o] = task[o]
      /\ \A o \in Pids : exists(o)' <=> exists(o) \/ o = q
  BY <1>0 DEF Spawned
<1>2. /\ task'[p].tgid = task[p].tgid /\ task'[p].call = task[p].call
      /\ task'[p].at = "returning" /\ task'[p].stop = "fork" /\ task'[p].msg = q
      /\ task'[p].recorded = task[p].recorded /\ task'[p].judged = task[p].judged
  <2>1. task'[p] = [task[p] EXCEPT !.at = "returning", !.stop = "fork", !.msg = q]
    BY <1>0 DEF Spawned
  <2> QED
    BY <1>1, <2>1 DEF Task
<1>g. GonePids /\ NewPids
  BY DEF CallsInv
<1>m. \A o \in Pids : exists(o) => task[o].msg \in Pids /\ task[o].tgid \in Pids
  BY DEF TracerInv, KernelInv, Tasks, Fit, Task
<1>3. PlacedTasks'
  <2>1. Placed(task'[p], p) /\ Placed(task'[q], q)
    BY <1>1, <1>2 DEF Placed
  <2> QED
    BY <1>1, <2>1 DEF CallsInv, PlacedTasks
<1>4. OwnRecords'
  BY DEF CallsInv, OwnRecords, has_event
<1>5. JudgedCalls'
  <2>1. CallInv(p)'
    <3>1. CallInv(p)
      BY <1>1 DEF CallsInv, JudgedCalls
    <3>2. ~AfterExec(task[p]) /\ ~AfterExec(task'[p]) /\ InCall(task[p]) /\ InCall(task'[p])
      BY <1>1, <1>2, TracerAssumption DEF AfterExec, InCall
    <3>3. Caller(p) = p /\ Caller(p)' = p
      BY <1>1, <1>2 DEF Caller
    <3> QED
      BY <1>2, <3>1, <3>2, <3>3 DEF CallInv, OpenRecord, has_event
  <2>2. CallInv(q)'
    BY <1>1 DEF CallInv, AfterExec, InCall
  <2>3. ASSUME NEW o \in Pids \ {p, q}, exists(o)
        PROVE  CallInv(o)'
    <3>1. CallInv(o) /\ task'[o] = task[o]
      BY <1>1, <2>3 DEF CallsInv, JudgedCalls
    <3> QED
      BY <3>1 DEF CallInv, Caller, OpenRecord, has_event
  <2> QED
    BY <1>1, <2>1, <2>2, <2>3 DEF JudgedCalls
<1>6. GonePids'
  <2>1. \A o \in Pids : exists(o)' /\ task'[o].stop = "exec" =>
          exists(o) /\ task'[o] = task[o]
    BY <1>1, <1>2
  <2> SUFFICES ASSUME NEW o \in Pids, exists(o)', task'[o].stop = "exec",
                      task'[o].msg # o
               PROVE  /\ task'[o].msg # ZeroPid /\ ~exists(task[o].msg)'
                      /\ \A n \in Pids : exists(n)' /\ task'[n].stop = "exec"
                                         /\ task'[n].msg = task'[o].msg => n = o
    BY <1>1, <1>g, <2>1 DEF GonePids
  <2>2. /\ exists(o) /\ task'[o] = task[o]
        /\ task[o].msg # ZeroPid /\ ~exists(task[o].msg)
        /\ \A n \in Pids : exists(n) /\ task[n].stop = "exec"
                           /\ task[n].msg = task[o].msg => n = o
    BY <1>g, <2>1 DEF GonePids
  <2>3. ~exists(task[o].msg)'
    BY <1>1, <1>m, <2>2
  <2> QED
    BY <1>1, <2>1, <2>2, <2>3
<1>7. NewPids'
  <2> SUFFICES ASSUME NEW o \in Pids, NEW n \in Pids, Creates(o, n)'
               PROVE  /\ n # ZeroPid
                      /\ \A l \in Pids : Creates(l, n)' => l = o
                      /\ exists(n)' => task'[n].tgid \in {n, task'[o].tgid}
                      /\ \A l \in Pids : exists(l)' /\ task'[l].stop = "exec"
                                         /\ task'[l].msg = n => l = n
    BY DEF NewPids
  <2>1. \A l, k \in Pids : Creates(l, k)' <=> Creates(l, k) \/ (l = p /\ k = q)
    BY <1>1, <1>2 DEF Creates
  <2>2. \A l \in Pids : ~Creates(l, q)
    BY <1>1 DEF Creates
  <2>3. \A l \in Pids : exists(l)' /\ task'[l].stop = "exec" =>
          exists(l) /\ task[l].stop = "exec" /\ task'[l].msg = task[l].msg
    BY <1>1, <1>2
  <2>4. CASE n = q
    BY <1>1, <1>2, <2>1, <2>2, <2>3, <2>4
  <2>5. CASE n # q
    <3>1. Creates(o, n) /\ exists(o)
      BY <2>1, <2>5 DEF Creates
    <3>2. /\ n # ZeroPid /\ \A l \in Pids : Creates(l, n) => l = o
          /\ exists(n) => task[n].tgid \in {n, task[o].tgid}
          /\ \A l \in Pids : exists(l) /\ task[l].stop = "exec" /\ task[l].msg = n => l = n
      BY <1>g, <3>1 DEF NewPids
    <3>3. task'[o].tgid = task[o].tgid /\ (exists(n)' => exists(n))
          /\ (exists(n) => task'[n].tgid = task[n].tgid)
      BY <1>1, <1>2, <2>5, <3>1
    <3> QED
      BY <2>1, <2>3, <2>5, <3>2, <3>3
  <2> QED
    BY <2>4, <2>5
<1> QED
  BY <1>3, <1>4, <1>5, <1>6, <1>7 DEF CallsInv

LEMMA CallsExecDone ==
  ASSUME TracerInv, CallsInv, tracked_pids' = tracked_pids, NEW p \in Pids, ExecDone(p)
  PROVE  CallsInv'
<1>0. PICK leader : leader = task[p].tgid /\ Executed(p, leader)
  BY ExecShape
<1>1. /\ exists(p) /\ task[p] \in Task /\ task[p].stop = "none" /\ task[p].at = "execing"
      /\ leader \in Pids /\ exists(leader) /\ task[leader].tgid = leader
     
      /\ \A o \in Pids \ {p, leader} : task'[o] = task[o]
      /\ \A o \in Pids : exists(o)' <=> exists(o) /\ (o = leader \/ o # p)
  BY <1>0 DEF Executed
<1>2. /\ task'[leader].tgid = leader /\ task'[leader].call = task[p].call
      /\ task'[leader].at = "returning" /\ task'[leader].stop = "exec"
      /\ task'[leader].msg = p
      /\ task'[leader].recorded = task[p].recorded
      /\ task'[leader].judged = task[p].judged
  BY <1>0 DEF Executed
<1>g. GonePids /\ NewPids
  BY DEF CallsInv
<1>m. \A o \in Pids : exists(o) => task[o].msg \in Pids /\ task[o].tgid \in Pids
  BY DEF TracerInv, KernelInv, Tasks, Fit, Task
<1>l. leader = task[p].tgid
  BY <1>0
<1>3. PlacedTasks'
  <2>1. Placed(task'[leader], leader)
    BY <1>1, <1>2 DEF Placed, CallsInv, PlacedTasks
  <2> QED
    BY <1>1, <2>1 DEF CallsInv, PlacedTasks
<1>4. OwnRecords'
  BY DEF CallsInv, OwnRecords, has_event
<1>5. JudgedCalls'
  <2>1. CallInv(leader)'
    <3>1. CallInv(p)
      BY <1>1 DEF CallsInv, JudgedCalls
    <3>2. ~AfterExec(task[p]) /\ ~AfterExec(task'[leader])
          /\ InCall(task[p]) /\ InCall(task'[leader])
      BY <1>1, <1>2 DEF AfterExec, InCall
    <3>3. Caller(p) = p /\ Caller(leader)' = p
      BY <1>1, <1>2 DEF Caller
    <3> QED
      BY <1>2, <3>1, <3>2, <3>3 DEF CallInv, OpenRecord, has_event
  <2>2. ASSUME NEW o \in Pids \ {p, leader}, exists(o)
        PROVE  CallInv(o)'
    <3>1. CallInv(o) /\ task'[o] = task[o]
      BY <1>1, <2>2 DEF CallsInv, JudgedCalls
    <3> QED
      BY <3>1 DEF CallInv, Caller, OpenRecord, has_event
  <2> QED
    BY <1>1, <2>1, <2>2 DEF JudgedCalls
<1>6. GonePids'
  <2>1. ASSUME NEW n \in Pids, NEW o \in Pids, exists(o), task[o].stop = "exec",
               task[o].msg = n, exists(n)
        PROVE  o = n
    BY <1>g, <2>1 DEF GonePids
  <2> SUFFICES ASSUME NEW o \in Pids, exists(o)', task'[o].stop = "exec",
                      task'[o].msg # o
               PROVE  /\ task'[o].msg # ZeroPid /\ ~exists(task[o].msg)'
                      /\ \A n \in Pids : exists(n)' /\ task'[n].stop = "exec"
                                         /\ task'[n].msg = task'[o].msg => n = o
    BY <1>1, <1>g DEF GonePids
  <2>2. CASE o = leader
    <3>1. task'[o].msg = p /\ p # leader /\ ~exists(p)' /\ p # ZeroPid
      BY <1>1, <1>2, <2>2 DEF TracerInv, KernelInv, RealPids
    <3>2. \A n \in Pids : exists(n)' /\ task'[n].stop = "exec" /\ task'[n].msg = p => n = o
      BY <1>1, <2>1, <2>2, <3>1
    <3> QED
      BY <1>1, <3>1, <3>2
  <2>3. CASE o # leader
    <3>1. /\ exists(o) /\ o # p /\ task'[o] = task[o]
          /\ task[o].msg # ZeroPid /\ task[o].msg \in Pids /\ ~exists(task[o].msg)
          /\ \A n \in Pids : exists(n) /\ task[n].stop = "exec"
                             /\ task[n].msg = task[o].msg => n = o
      BY <1>1, <1>g, <1>m, <2>3 DEF GonePids
    <3>2. ~exists(task[o].msg)' /\ task[o].msg # p
      BY <1>1, <3>1
    <3>3. \A n \in Pids : exists(n)' /\ task'[n].stop = "exec" /\ task'[n].msg = task[o].msg
                          => n = o
      BY <1>1, <1>2, <3>1, <3>2
    <3> QED
      BY <1>1, <3>1, <3>2, <3>3
  <2> QED
    BY <2>2, <2>3
<1>7. NewPids'
  <2> SUFFICES ASSUME NEW o \in Pids, NEW n \in Pids, Creates(o, n)'
               PROVE  /\ n # ZeroPid
                      /\ \A l \in Pids : Creates(l, n)' => l = o
                      /\ exists(n)' => task'[n].tgid \in {n, task'[o].tgid}
                      /\ \A l \in Pids : exists(l)' /\ task'[l].stop = "exec"
                                         /\ task'[l].msg = n => l = n
    BY DEF NewPids
  <2>1. \A l, k \in Pids : Creates(l, k)' => Creates(l, k) /\ l # leader /\ l # p
    BY <1>1, <1>2 DEF Creates
  <2>2. /\ n # ZeroPid /\ \A l \in Pids : Creates(l, n) => l = o
        /\ exists(n) => task[n].tgid \in {n, task[o].tgid}
        /\ \A l \in Pids : exists(l) /\ task[l].stop = "exec" /\ task[l].msg = n => l = n
    BY <1>g, <2>1 DEF NewPids
  <2>3. exists(o) /\ o # leader /\ o # p /\ task'[o] = task[o]
    BY <1>1, <2>1 DEF Creates
  <2>4. exists(n)' => task'[n].tgid \in {n, task'[o].tgid}
    BY <1>1, <1>2, <2>2, <2>3
  <2>5. p # leader => n # p
    <3>1. task[o].tgid # leader
      <4>1. Group(leader) \subseteq {p, leader}
        BY <1>0 DEF Executed
      <4> QED
        BY <2>3, <4>1 DEF Group
    <3> QED
      BY <1>1, <1>l, <2>2, <3>1
  <2>6. ASSUME NEW l \in Pids, exists(l)', task'[l].stop = "exec", task'[l].msg = n
        PROVE  l = n
    <3>1. CASE l = leader
      BY <1>2, <2>5, <2>6, <3>1
    <3>2. CASE l # leader
      <4>1. exists(l) /\ task'[l] = task[l]
        BY <1>1, <2>6, <3>2
      <4> QED
        BY <2>2, <2>6, <4>1
    <3> QED
      BY <3>1, <3>2
  <2> QED
    BY <2>1, <2>2, <2>4, <2>6
<1> QED
  BY <1>3, <1>4, <1>5, <1>6, <1>7 DEF CallsInv

LEMMA CallsKernelStep ==
  ASSUME ~ReuseNamed, TracerInv, CallsInv, Kernel
  PROVE  CallsInv'
<1>t. tracked_pids' = tracked_pids
  BY DEF Kernel, vars
<1>1. ASSUME NEW p \in Pids, ThreadExit(p) PROVE CallsInv'
  BY <1>1, <1>t, CallsKill DEF ThreadExit, Running
<1>2. ASSUME NEW g \in Pids, GroupExit(g) PROVE CallsInv'
  BY <1>2, <1>t, CallsKill DEF GroupExit, Group
<1> QED
  BY <1>t, <1>1, <1>2, CallsSyscall, CallsReturn, CallsSpawn, CallsExecBegin, CallsExecDone
  DEF Kernel

-----------------------------------------------------------------------------
(* The rounds of the loop and the records.                                 *)

LEMMA ResumeFields ==
  ASSUME TracerInv, NEW p \in Pids, exists(p), NEW t, t \in {Resume(p), Judge(p)}
  PROVE  /\ t \in Task /\ t.tgid = task[p].tgid /\ t.stop = "none" /\ t.at = task[p].at
         /\ t.call = (IF task[p].stop = "exit" THEN NoCall ELSE task[p].call)
         /\ t.recorded = task[p].recorded /\ t.shell = task[p].shell
         /\ t.allowed = task[p].allowed /\ t.told = task[p].told
         /\ t.judged = (IF t = Resume(p) \/ seen' = NoEvent
                        THEN task[p].judged ELSE task[p].judged + 1)
<1>1. task[p] \in Task
  BY DEF TracerInv, KernelInv, Tasks, Fit
<1>2. Resume(p) \in Task
  BY <1>1, ResumeFit DEF Fit
<1>3. /\ Resume(p).tgid = task[p].tgid /\ Resume(p).stop = "none"
      /\ Resume(p).at = task[p].at
      /\ Resume(p).call = (IF task[p].stop = "exit" THEN NoCall ELSE task[p].call)
      /\ Resume(p).recorded = task[p].recorded /\ Resume(p).shell = task[p].shell
      /\ Resume(p).allowed = task[p].allowed /\ Resume(p).told = task[p].told
      /\ Resume(p).judged = task[p].judged
  BY <1>1 DEF Resume, Task
<1>4. Judge(p) = [Resume(p) EXCEPT !.judged = IF seen' = NoEvent THEN task[p].judged
                                              ELSE task[p].judged + 1]
  BY <1>2, <1>3 DEF Judge, Task
<1>5. task[p].judged \in Nat
  BY <1>1 DEF Task
<1>6. Judge(p) \in Task
  BY <1>2, <1>4, <1>5 DEF Task
<1> HIDE DEF Resume
<1>7. /\ Judge(p).tgid = task[p].tgid /\ Judge(p).stop = "none"
      /\ Judge(p).at = task[p].at
      /\ Judge(p).call = (IF task[p].stop = "exit" THEN NoCall ELSE task[p].call)
      /\ Judge(p).recorded = task[p].recorded /\ Judge(p).shell = task[p].shell
      /\ Judge(p).allowed = task[p].allowed /\ Judge(p).told = task[p].told
      /\ Judge(p).judged = (IF seen' = NoEvent THEN task[p].judged ELSE task[p].judged + 1)
  BY <1>2, <1>3, <1>4 DEF Task
<1>8. CASE t = Resume(p)
  BY <1>2, <1>3, <1>8
<1>9. CASE t = Judge(p) /\ t # Resume(p)
  BY <1>6, <1>7, <1>9
<1> QED
  BY <1>8, <1>9

\* A task that waitpid returned.
Waited(p) ==
  /\ exists(p) /\ task[p] \in Task /\ task[p].stop # "none"
  /\ Placed(task[p], p) /\ CallInv(p) /\ p # ZeroPid
  /\ task \in [Pids -> Task \cup {NoTask}]
  /\ task[p].msg \in Pids /\ task[p].ret \in Retvals
  /\ tracked_pids \in [Pids -> SyscallEvent \cup {Untracked, NoEvent}]

LEMMA WaitShape ==
  ASSUME TracerInv, CallsInv, NEW p \in Pids, NEW stops, Wait(p, stops)
  PROVE  Waited(p) /\ task[p].stop \in stops
BY DEF Wait, Waitable, Waited, TracerInv, KernelInv, Tasks, RealPids, Fit, Task,
       CallsInv, PlacedTasks, JudgedCalls, TypeInv, TypeOK

\* An execve refers to no record of a task that exists, but its own.
LEMMA ForeignRecords ==
  ASSUME TracerInv, CallsInv, NEW q \in Pids, exists(q), task[q].stop = "exec"
  PROVE  /\ task[q].msg # ZeroPid
         /\ \A o \in Pids : exists(o) /\ o # q => task[q].msg # o
         /\ \A o \in Pids : exists(o) /\ o # q /\ task[o].stop = "exec"
                            /\ task[o].msg # o => task[q].msg # task[o].msg
<1>1. GonePids /\ ~exists(ZeroPid)
  BY DEF CallsInv, TracerInv, KernelInv, RealPids
<1>2. CASE task[q].msg = q
  <2>1. \A o \in Pids : exists(o) /\ task[o].stop = "exec" /\ task[o].msg # o
                        => ~exists(task[o].msg)
    BY <1>1 DEF GonePids
  <2> QED
    BY <1>1, <1>2, <2>1
<1>3. CASE task[q].msg # q
  BY <1>1, <1>3 DEF GonePids
<1> QED
  BY <1>2, <1>3

\* A round that changes the task p, and the record of p only.
ChangesOne(p) ==
  /\ exists(p)
  /\ \A q \in Pids \ {p} : task'[q] = task[q]
  /\ exists(p)' => /\ Placed(task'[p], p) /\ CallInv(p)'
                   /\ task'[p].tgid = task[p].tgid /\ task'[p].stop = "none"
  /\ \A q \in Pids \ {p} : tracked_pids'[q] = tracked_pids[q]
  /\ has_event(p)' => tracked_pids'[p].pid = p

LEMMA CallsRound ==
  ASSUME TracerInv, CallsInv, NEW p \in Pids, ChangesOne(p)
  PROVE  CallsInv'
<1> USE DEF ChangesOne
<1>1. Changes({p}, {p})
  <2>1. \A q \in Pids \ {p} : exists(q) /\ task[q].stop = "exec" => task[q].msg # p
    BY ForeignRecords
  <2> QED
    BY <2>1 DEF Changes
<1> QED
  BY <1>1, CallsFrame

LEMMA CallsExited ==
  ASSUME TracerInv, CallsInv, NEW p \in Pids, wait_exited(p)
  PROVE  CallsInv'
<1>1. Waited(p)
  BY WaitShape DEF wait_exited
<1>2. /\ exists(p) /\ task \in [Pids -> Task \cup {NoTask}]
      /\ task' = [task EXCEPT ![p] = NoTask]
      /\ tracked_pids' = [tracked_pids EXCEPT ![p] = Untracked]
      /\ tracked_pids \in [Pids -> SyscallEvent \cup {Untracked, NoEvent}]
  BY <1>1 DEF Waited, wait_exited, remove_tracked_pid
<1>3. ChangesOne(p)
  BY <1>2 DEF ChangesOne, exists, is_tracked, has_event
<1> QED
  BY <1>3, CallsRound

LEMMA CallsUntracked ==
  ASSUME TracerInv, CallsInv, NEW p \in Pids, wait_untracked(p) \/ wait_sigstop(p)
  PROVE  CallsInv'
<1>0. Waited(p) /\ task[p].stop \in {"entry", "exit", "sigstop"}
  <2>1. CASE wait_untracked(p)
    <3>1. Wait(p, {"entry", "exit"})
      BY <2>1 DEF wait_untracked
    <3> QED
      BY <3>1, WaitShape
  <2>2. CASE wait_sigstop(p)
    <3>1. Wait(p, {"sigstop"})
      BY <2>2 DEF wait_sigstop
    <3> QED
      BY <3>1, WaitShape
  <2> QED
    BY <2>1, <2>2
<1>1. /\ exists(p) /\ Placed(task[p], p) /\ CallInv(p)
      /\ task[p].stop \in {"entry", "exit", "sigstop"}
      /\ task[p].stop \in {"entry", "exit"} => ~is_tracked(p)
      /\ task \in [Pids -> Task \cup {NoTask}]
      /\ task' = [task EXCEPT ![p] = Resume(p)]
      /\ tracked_pids' = tracked_pids
  BY <1>0 DEF Waited, wait_untracked, wait_sigstop, Wait, nothing
<1> DEFINE t == task'[p]
<1>2. t = Resume(p) /\ \A q \in Pids \ {p} : task'[q] = task[q]
  BY <1>1
<1>3. /\ t \in Task /\ t.tgid = task[p].tgid /\ t.stop = "none" /\ t.at = task[p].at
      /\ t.recorded = task[p].recorded /\ t.judged = task[p].judged
      /\ t.call = (IF task[p].stop = "exit" THEN NoCall ELSE task[p].call)
  BY <1>1, <1>2, ResumeFields
<1> HIDE DEF t
<1>4. Placed(t, p)
  BY <1>1, <1>3 DEF Placed
<1>5. CallInv(p)'
  <2>1. CASE task[p].stop = "entry"
    <3>1. /\ InCall(task[p]) /\ ~AfterExec(task[p]) /\ InCall(t) /\ ~AfterExec(t)
          /\ ~t.recorded
      BY <1>1, <1>3, <2>1 DEF InCall, AfterExec, Placed
    <3> QED
      BY <1>1, <1>3, <3>1 DEF CallInv, t
  <2>2. CASE task[p].stop \in {"exit", "sigstop"}
    <3>1. /\ ~InCall(t) /\ ~AfterExec(t)
      BY <1>1, <1>3, <2>2 DEF InCall, AfterExec, Placed
    <3>2. task[p].judged <= 1 /\ (task[p].recorded => task[p].judged = 1)
      <4>1. CASE task[p].stop = "sigstop"
        BY <1>1, <4>1 DEF Placed
      <4>2. CASE task[p].stop = "exit"
        BY <1>1, <4>2 DEF CallInv, InCall, Caller, OpenRecord, is_tracked, has_event
      <4> QED
        BY <2>2, <4>1, <4>2
    <3> QED
      BY <1>3, <3>1, <3>2 DEF CallInv, t
  <2> QED
    BY <1>1, <2>1, <2>2
<1>6. ChangesOne(p)
  <2>1. has_event(p) => tracked_pids[p].pid = p
    BY DEF CallsInv, OwnRecords
  <2>2. exists(p)'
    BY <1>3, TaskAssumption DEF exists, t
  <2> QED
    BY <1>1, <1>2, <1>3, <1>4, <1>5, <2>1, <2>2
    DEF ChangesOne, t, is_tracked, has_event
<1> QED
  BY <1>6, CallsRound

LEMMA CallsEntry ==
  ASSUME TracerInv, CallsInv, NEW p \in Pids, wait_entry(p)
  PROVE  CallsInv'
<1>0. Waited(p) /\ task[p].stop = "entry"
  BY WaitShape DEF wait_entry
<1>1. /\ exists(p) /\ Placed(task[p], p) /\ CallInv(p)
      /\ task[p].stop = "entry" /\ is_tracked(p)
      /\ task \in [Pids -> Task \cup {NoTask}]
      /\ task' = [task EXCEPT ![p] = [Resume(p) EXCEPT !.recorded = TRUE]]
  BY <1>0 DEF Waited, wait_entry
<1>2. task[p].call \in Calls
  BY <1>1 DEF TracerInv, KernelInv, Tasks, Fit
<1>3. /\ tracked_pids' = [tracked_pids EXCEPT ![p] = tracked_pids'[p]]
      /\ tracked_pids'[p] \in SyscallEvent
      /\ tracked_pids'[p].pid = p /\ tracked_pids'[p].call = task[p].call
      /\ tracked_pids'[p].retval = NoRet
  BY <1>1, <1>2, EntryEffect DEF wait_entry, TracerInv
<1> DEFINE r == Resume(p)
<1>4. /\ r \in Task /\ r.tgid = task[p].tgid /\ r.stop = "none" /\ r.at = task[p].at
      /\ r.judged = task[p].judged /\ r.call = task[p].call
  BY <1>1, ResumeFields
<1> HIDE DEF r
<1> DEFINE t == task'[p]
<1>5. t = [r EXCEPT !.recorded = TRUE] /\ \A q \in Pids \ {p} : task'[q] = task[q]
  BY <1>1 DEF r
<1>6. /\ t.tgid = task[p].tgid /\ t.stop = "none" /\ t.at = "kernel"
      /\ t.judged = task[p].judged /\ t.call = task[p].call /\ task[p].at = "kernel"
  BY <1>1, <1>4, <1>5 DEF Task, Placed
<1> HIDE DEF t
<1>7. Placed(t, p)
  BY <1>1, <1>6 DEF Placed
<1>8. CallInv(p)'
  <2>1. task[p].judged = 0
    BY <1>1, <1>6 DEF CallInv, InCall, AfterExec
  <2>2. InCall(t) /\ ~AfterExec(t) /\ Caller(p)' = p
    BY <1>6 DEF InCall, AfterExec, Caller, t
  <2>3. OpenRecord(p, task[p].call)'
    BY <1>3, <1>6, CallsAssumption DEF OpenRecord, has_event, t
  <2> QED
    BY <1>6, <2>1, <2>2, <2>3 DEF CallInv, t
<1>9. /\ \A q \in Pids \ {p} : tracked_pids'[q] = tracked_pids[q]
      /\ has_event(p)' => tracked_pids'[p].pid = p
  BY <1>3 DEF TracerInv, TypeInv, TypeOK
<1>10. ChangesOne(p)
  <2>1. exists(p)'
    BY <1>4, <1>5, TaskAssumption DEF exists, Task, t
  <2> QED
    BY <1>1, <1>5, <1>6, <1>7, <1>8, <1>9, <2>1 DEF ChangesOne, t
<1> QED
  BY <1>10, CallsRound

LEMMA CallsExit ==
  ASSUME TracerInv, CallsInv, NEW p \in Pids, wait_exit(p)
  PROVE  CallsInv'
<1>0. Waited(p) /\ task[p].stop = "exit"
  BY WaitShape DEF wait_exit
<1>1. /\ exists(p) /\ Placed(task[p], p) /\ CallInv(p)
      /\ task[p].judged \in Nat
      /\ task \in [Pids -> Task \cup {NoTask}]
      /\ task' = [task EXCEPT ![p] = Judge(p)]
      /\ tracked_pids \in [Pids -> SyscallEvent \cup {Untracked, NoEvent}]
  BY <1>0 DEF Waited, wait_exit, Task
<1>2. \/ /\ has_event(p)
         /\ tracked_pids' = [tracked_pids EXCEPT ![p] = seen']
         /\ seen' # NoEvent /\ seen'.pid = tracked_pids[p].pid
      \/ /\ ~has_event(p) /\ seen' = NoEvent /\ tracked_pids' = tracked_pids
  <2>1. handle_syscall_exit(p, task[p].ret) /\ task[p].ret \in Retvals
    BY <1>0 DEF wait_exit, Waited
  <2> QED
    BY <2>1, ExitEffect DEF TracerInv
<1> DEFINE t == task'[p]
<1>3. t = Judge(p) /\ \A q \in Pids \ {p} : task'[q] = task[q]
  BY <1>1
<1>4. /\ t \in Task /\ t.tgid = task[p].tgid /\ t.stop = "none" /\ t.at = task[p].at
      /\ t.recorded = task[p].recorded
      /\ t.judged = task[p].judged \/ t.judged = task[p].judged + 1
      /\ seen' # NoEvent => t.judged = task[p].judged + 1
      /\ seen' = NoEvent => t.judged = task[p].judged
  <2>1. /\ t \in Task /\ t.tgid = task[p].tgid /\ t.stop = "none" /\ t.at = task[p].at
        /\ t.recorded = task[p].recorded
    BY <1>1, <1>3, ResumeFields
  <2>2. t.judged = IF seen' = NoEvent THEN task[p].judged ELSE task[p].judged + 1
    <3>1. Resume(p) \in Task /\ Resume(p).judged = task[p].judged
      BY <1>1, ResumeFields
    <3> QED
      BY <1>3, <3>1 DEF Judge, Task
  <2> QED
    BY <2>1, <2>2
<1> HIDE DEF t
<1>5. Placed(t, p)
  BY <1>0, <1>1, <1>4 DEF Placed
<1>6. CallInv(p)'
  <2>1. ~InCall(t) /\ ~AfterExec(t) /\ InCall(task[p]) /\ Caller(p) = p
    BY <1>0, <1>1, <1>4 DEF InCall, AfterExec, Placed, Caller
  <2>2. t.judged <= 1 /\ (t.recorded => t.judged = 1)
    <3>1. CASE AfterExec(task[p])
      BY <1>1, <1>2, <1>4, <3>1 DEF CallInv
    <3>2. CASE ~AfterExec(task[p])
      BY <1>1, <1>2, <1>4, <2>1, <3>2 DEF CallInv, OpenRecord
    <3> QED
      BY <3>1, <3>2
  <2> QED
    BY <2>1, <2>2 DEF CallInv, t
<1>7. ChangesOne(p)
  <2>1. has_event(p) => tracked_pids[p].pid = p
    BY DEF CallsInv, OwnRecords
  <2>2. exists(p)'
    BY <1>4, TaskAssumption DEF exists, t
  <2>3. /\ \A q \in Pids \ {p} : tracked_pids'[q] = tracked_pids[q]
        /\ has_event(p)' => tracked_pids'[p].pid = p
        /\ is_tracked(p)' => is_tracked(p)
    BY <1>1, <1>2, <2>1 DEF has_event, is_tracked
  <2> QED
    BY <1>1, <1>3, <1>4, <1>5, <1>6, <2>2, <2>3 DEF ChangesOne, t
<1> QED
  BY <1>7, CallsRound

LEMMA CallsExec ==
  ASSUME TracerInv, CallsInv, NEW p \in Pids, wait_exec(p)
  PROVE  CallsInv'
<1>0. Waited(p) /\ task[p].stop = "exec"
  BY WaitShape DEF wait_exec
<1>o. PICK old \in Pids : old = task[p].msg
  BY <1>0 DEF Waited
<1>1. /\ exists(p) /\ Placed(task[p], p) /\ CallInv(p)
      /\ task[p].judged \in Nat /\ old \in Pids /\ task[p].tgid = p
      /\ task[p].at = "returning" /\ task[p].call \in Execves
      /\ task \in [Pids -> Task \cup {NoTask}]
      /\ task' = [task EXCEPT ![p] = Judge(p)]
      /\ tracked_pids \in [Pids -> SyscallEvent \cup {Untracked, NoEvent}]
  BY <1>0, <1>o DEF Waited, wait_exec, Task, Placed
<1>2. \/ /\ in_execve(p) /\ seen' # NoEvent
         /\ tracked_pids' = [tracked_pids EXCEPT ![p] = NoEvent]
      \/ /\ old # p /\ in_execve(old) /\ seen' # NoEvent
         /\ tracked_pids' = [tracked_pids EXCEPT ![p] = NoEvent, ![old] = Untracked]
      \/ /\ ~in_execve(p) /\ (old # p => ~in_execve(old)) /\ seen' = NoEvent
         /\ tracked_pids' = tracked_pids
  <2>1. handle_exec_stop(p, old) /\ old \in Pids
    BY <1>o, <1>1 DEF wait_exec
  <2> QED
    BY <2>1, ExecEffect DEF TracerInv
<1>g. /\ ~exists(old) \/ old = p
      /\ \A q \in Pids : exists(q) /\ q # p /\ task[q].stop = "exec" =>
           task[q].msg # p /\ (old # p => task[q].msg # old)
  <2>1. ~exists(old) \/ old = p
    BY <1>0, <1>o, <1>1 DEF CallsInv, GonePids
  <2> QED
    BY <1>0, <1>o, <1>1, <2>1, ForeignRecords
<1> DEFINE t == task'[p]
<1>3. t = Judge(p) /\ \A q \in Pids \ {p} : task'[q] = task[q]
  BY <1>1
<1>4. /\ t \in Task /\ t.tgid = task[p].tgid /\ t.stop = "none" /\ t.at = task[p].at
      /\ t.recorded = task[p].recorded /\ t.call = task[p].call
      /\ seen' # NoEvent => t.judged = task[p].judged + 1
      /\ seen' = NoEvent => t.judged = task[p].judged
  <2>1. /\ t \in Task /\ t.tgid = task[p].tgid /\ t.stop = "none" /\ t.at = task[p].at
        /\ t.recorded = task[p].recorded
        /\ t.call = (IF task[p].stop = "exit" THEN NoCall ELSE task[p].call)
    BY <1>1, <1>3, ResumeFields
  <2>2. t.judged = IF seen' = NoEvent THEN task[p].judged ELSE task[p].judged + 1
    <3>1. Resume(p) \in Task /\ Resume(p).judged = task[p].judged
      BY <1>1, ResumeFields
    <3> QED
      BY <1>3, <3>1 DEF Judge, Task
  <2> QED
    BY <1>0, <2>1, <2>2
<1> HIDE DEF t
<1>5. Placed(t, p)
  BY <1>1, <1>4 DEF Placed
<1>6. CallInv(p)'
  <2>1. InCall(t) /\ AfterExec(t) /\ InCall(task[p]) /\ ~AfterExec(task[p])
    BY <1>0, <1>1, <1>4 DEF InCall, AfterExec
  <2>2. Caller(p) = old
    BY <1>0, <1>o DEF Caller
  <2>3. task[p].judged = 0 /\ (task[p].recorded => OpenRecord(old, task[p].call))
    BY <1>1, <2>1, <2>2 DEF CallInv
  <2>4. OpenRecord(old, task[p].call) => in_execve(old)
    BY <1>1 DEF OpenRecord, in_execve
  <2>5. t.judged <= 1 /\ (t.recorded => t.judged = 1)
    BY <1>2, <1>4, <2>3, <2>4
  <2>6. t.judged = 1 => ~has_event(p)'
    <3>1. t.judged = 1 => seen' # NoEvent
      BY <1>4, <2>3
    <3> QED
      BY <1>1, <1>2, <3>1 DEF has_event
  <2> QED
    BY <2>1, <2>5, <2>6 DEF CallInv, t
<1>7. Changes({p}, {p, old})
  <2>1. exists(p)'
    BY <1>4, TaskAssumption DEF exists, t
  <2>2. \A q \in Pids \ {p, old} : tracked_pids'[q] = tracked_pids[q]
    BY <1>1, <1>2
  <2>3. \A q \in {p, old} : has_event(q)' => tracked_pids'[q].pid = q
    BY <1>1, <1>2 DEF CallsInv, OwnRecords, has_event
  <2>5. \A q \in Pids \ {p} : exists(q) =>
          /\ q \notin {p, old}
          /\ task[q].stop = "exec" => task[q].msg \notin {p, old}
    BY <1>g
  <2> QED
    BY <1>1, <1>3, <1>4, <1>5, <1>6, <2>1, <2>2, <2>3, <2>5 DEF Changes, t
<1> QED
  BY <1>7, CallsFrame

LEMMA CallsFork ==
  ASSUME TracerInv, CallsInv, NEW p \in Pids, wait_fork(p)
  PROVE  CallsInv'
<1>0. Waited(p) /\ task[p].stop = "fork"
  <2>1. Wait(p, {"fork"})
    BY DEF wait_fork
  <2> QED
    BY <2>1, WaitShape
<1>o. PICK child \in Pids : child = task[p].msg
  BY <1>0 DEF Waited
<1>1. /\ exists(p) /\ Placed(task[p], p) /\ CallInv(p)
      /\ task[p].at = "returning" /\ task[p].call \in Forks \cup Threads
      /\ tracked_pids \in [Pids -> SyscallEvent \cup {Untracked, NoEvent}]
      /\ tracked_pids' = [tracked_pids EXCEPT ![child] = NoEvent]
      /\ \A q \in Pids \ {p, child} : task'[q] = task[q]
      /\ ~exists(child) /\ child # p => task'[child] = task[child]
      /\ task'[p] = Resume(p)
  BY <1>0, <1>o DEF Waited, wait_fork, add_tracked_pid, Placed
<1>2. child # p /\ Creates(p, child)
  BY <1>0, <1>o, <1>1 DEF Creates, TracerInv, KernelInv, Tasks, Fit
<1> DEFINE t == task'[p]
<1>4. /\ t \in Task /\ t.tgid = task[p].tgid /\ t.stop = "none" /\ t.at = task[p].at
      /\ t.recorded = task[p].recorded /\ t.judged = task[p].judged
      /\ t.call = task[p].call
  BY <1>0, <1>1, ResumeFields
<1> HIDE DEF t
<1>5. exists(p)' /\ Placed(t, p) /\ CallInv(p)'
  <2>1. ~AfterExec(task[p]) /\ InCall(task[p]) /\ ~AfterExec(t) /\ InCall(t)
    BY <1>1, <1>4, TracerAssumption DEF AfterExec, InCall
  <2>2. Caller(p) = p /\ Caller(p)' = p
    BY <1>0, <1>4 DEF Caller, t
  <2>3. tracked_pids'[p] = tracked_pids[p]
    BY <1>1, <1>2
  <2>4. CallInv(p)'
    BY <1>1, <1>4, <2>1, <2>2, <2>3 DEF CallInv, OpenRecord, has_event, t
  <2> QED
    BY <1>1, <1>4, <2>4, TaskAssumption DEF Placed, exists, t
<1> DEFINE u == task'[child]
<1>6. ASSUME exists(child)
      PROVE  /\ exists(child)' /\ Placed(u, child) /\ CallInv(child)'
             /\ u.tgid = task[child].tgid
             /\ u.stop = task[child].stop /\ u.msg = task[child].msg
  <2>1. task[child] \in Task /\ Placed(task[child], child) /\ CallInv(child)
    BY <1>6 DEF TracerInv, KernelInv, Tasks, Fit, CallsInv, PlacedTasks, JudgedCalls
  <2>2. u = [task[child] EXCEPT !.told = @ /\ task[p].told /\ is_tracked(p), !.recorded = FALSE]
    BY <1>2, <1>6, <1>o DEF wait_fork
  <2>3. /\ u.tgid = task[child].tgid /\ u.stop = task[child].stop /\ u.at = task[child].at
        /\ u.msg = task[child].msg /\ u.call = task[child].call /\ u.ret = task[child].ret
        /\ u.judged = task[child].judged /\ ~u.recorded
    BY <2>1, <2>2 DEF Task
  <2>4. KernelInv'
    BY RoundInv DEF Round
  <2>5. exists(child)'
    <3>1. task[p].told \in BOOLEAN
      BY <1>0 DEF Waited, Task
    <3>2. u \in Task
      BY <2>1, <2>2 DEF Task
    <3> QED
      BY <3>2, TaskAssumption DEF exists
  <2> HIDE DEF u
  <2>6. Placed(u, child)
    BY <2>1, <2>3 DEF Placed
  <2>7. CallInv(child)'
    <3>1. ~has_event(child)'
      BY <1>1 DEF has_event
    <3>2. (InCall(u) <=> InCall(task[child])) /\ (AfterExec(u) <=> AfterExec(task[child]))
      BY <2>3 DEF InCall, AfterExec
    <3> QED
      BY <2>1, <2>3, <3>1, <3>2 DEF CallInv, u
  <2> QED
    BY <2>3, <2>5, <2>6, <2>7
<1> HIDE DEF u
<1>7. PICK S : S = {p} \cup {q \in {child} : exists(q)}
  OBVIOUS
<1>8. Changes(S, {child})
  <2>1. \A q \in Pids \ S : task'[q] = task[q]
    BY <1>1, <1>2, <1>7
  <2>3. ASSUME NEW q \in Pids \ S, exists(q), task[q].stop = "exec"
        PROVE  task[q].msg # child
    BY <1>2, <1>7, <2>3 DEF CallsInv, NewPids
  <2>4. /\ \A q \in Pids \ {child} : tracked_pids'[q] = tracked_pids[q]
        /\ ~has_event(child)'
    BY <1>1 DEF has_event
  <2>5. \A q \in S : q = p \/ (q = child /\ exists(child))
    BY <1>7
  <2>6. \A q \in S : q \in Pids /\ exists(q) /\ exists(q)' /\ Placed(task'[q], q)
                     /\ CallInv(q)' /\ task'[q].tgid = task[q].tgid
                     /\ (task'[q].stop \in {"fork", "exec"} =>
                           task'[q].stop = task[q].stop /\ task'[q].msg = task[q].msg)
    BY <1>1, <1>4, <1>5, <1>6, <2>5 DEF t, u
  <2>7. \A q \in Pids \ S : exists(q) => q # child
    BY <1>7
  <2> QED
    BY <1>1, <2>1, <2>3, <2>4, <2>6, <2>7 DEF Changes
<1> QED
  BY <1>8, CallsFrame

LEMMA CallsKilled ==
  ASSUME TracerInv, CallsInv, NEW p \in Pids, wait_killed(p)
  PROVE  CallsInv'
<1>0. Waited(p) /\ task[p].stop \in {"fork", "exec"} /\ ZeroPid \in Pids
  BY WaitShape, TracerAssumption DEF wait_killed
<1>s. PICK S : S = Group(task[p].tgid) /\ Kill(S)
  BY DEF wait_killed
<1>1. /\ exists(p) /\ Placed(task[p], p) /\ p # ZeroPid
      /\ tracked_pids \in [Pids -> SyscallEvent \cup {Untracked, NoEvent}]
      /\ p \in S /\ \A q \in S : q \in Pids /\ exists(q)
      /\ \A q \in Pids : task'[q] = IF q \in S THEN Corpse(q) ELSE task[q]
  BY <1>0, <1>s DEF Waited, Group, Kill
<1>2. ASSUME NEW q \in S
      PROVE  /\ exists(q)' /\ Placed(task'[q], q) /\ CallInv(q)'
             /\ task'[q].stop = "exited" /\ task'[q].tgid = task[q].tgid
  <2>1. Fit(q, Corpse(q)) /\ task'[q] = Corpse(q)
    BY <1>1, <1>2, CorpseFit
  <2>2. exists(q)'
    BY <2>1, TaskAssumption DEF exists, Fit
  <2> QED
    BY <1>1, <1>2, <2>1, <2>2, CorpseCalls
<1>3. /\ \A q \in Pids \ {p, ZeroPid} : tracked_pids'[q] = tracked_pids[q]
      /\ ~has_event(ZeroPid)' \/ tracked_pids'[ZeroPid] = tracked_pids[ZeroPid]
      /\ ~has_event(p)' \/ tracked_pids'[p] = tracked_pids[p]
      /\ task[p].stop = "fork" => tracked_pids'[p] = tracked_pids[p]
  <2>1. CASE task[p].stop = "fork" /\ add_tracked_pid(ZeroPid, p)
    BY <1>0, <1>1, <2>1 DEF add_tracked_pid, has_event
  <2>2. CASE task[p].stop = "exec" /\ handle_exec_stop(p, ZeroPid)
    <3>1. \/ tracked_pids' = [tracked_pids EXCEPT ![p] = NoEvent]
          \/ tracked_pids' = [tracked_pids EXCEPT ![p] = NoEvent, ![ZeroPid] = Untracked]
          \/ tracked_pids' = tracked_pids
      BY <1>0, <2>2, ExecEffect DEF TracerInv
    <3> QED
      BY <1>0, <1>1, <2>2, <3>1 DEF has_event
  <2> QED
    BY <2>1, <2>2 DEF wait_killed
<1>4. Changes(S, {p, ZeroPid})
  <2>1. \A q \in Pids \ S : exists(q) =>
          /\ q \notin {p, ZeroPid}
          /\ task[q].stop = "exec" => task[q].msg \notin {p, ZeroPid}
    <3>1. \A q \in Pids : exists(q) => q # ZeroPid
      BY DEF TracerInv, KernelInv, RealPids
    <3> QED
      BY <1>1, <3>1, ForeignRecords
  <2>3. \A q \in {p, ZeroPid} : has_event(q)' => tracked_pids'[q].pid = q
    BY <1>0, <1>3 DEF CallsInv, OwnRecords, has_event
  <2> QED
    BY <1>1, <1>2, <1>3, <2>1, <2>3 DEF Changes
<1> QED
  BY <1>4, CallsFrame

LEMMA CallsStep ==
  ASSUME ~ReuseNamed, TracerInv, CallsInv, [TracerNext]_allVars
  PROVE  CallsInv'
<1>1. CASE Kernel
  BY <1>1, CallsKernelStep
<1>2. ASSUME NEW p \in Pids, Round(p)
      PROVE  CallsInv'
  BY <1>2, CallsExited, CallsUntracked, CallsEntry, CallsExit, CallsExec, CallsFork,
     CallsKilled DEF Round
<1>3. ASSUME UNCHANGED <<task, tracked_pids>>
      PROVE  CallsInv'
  BY <1>3 DEF CallsInv, PlacedTasks, OwnRecords, JudgedCalls, GonePids, NewPids, CallInv,
              Caller, OpenRecord, has_event, is_tracked, exists, Creates
<1>4. CASE leave_loop \/ Clock \/ UNCHANGED allVars
  BY <1>3, <1>4 DEF leave_loop, Clock, Tick, kernel, vars, allVars
<1> QED
  BY <1>1, <1>2, <1>4 DEF TracerNext, MainLoop, Terminated

-----------------------------------------------------------------------------
(* Which call is judged.                                                   *)

LEMMA CallsInit == TracerInit => CallsInv
<1> SUFFICES ASSUME TracerInit PROVE CallsInv
  OBVIOUS
<1>1. /\ task[Root] = NewTask(Root, "none") 
      /\ \A q \in Pids : exists(q) => q = Root
      /\ \A q \in Pids : ~has_event(q) /\ (is_tracked(q) => q = Root)
  BY CallsAssumption, TracerAssumption DEF TracerInit, Init, exists, has_event, is_tracked
<1>2. /\ task[Root].at = "user" /\ task[Root].stop = "none" /\ task[Root].judged = 0
      /\ ~task[Root].recorded
  BY <1>1 DEF NewTask
<1>3. Placed(task[Root], Root) /\ CallInv(Root)
  BY <1>2 DEF Placed, CallInv, InCall, AfterExec
<1>4. \A p, q \in Pids : ~Creates(p, q)
  BY <1>1, <1>2 DEF Creates
<1>5. GonePids
  BY <1>1, <1>2 DEF GonePids
<1> QED
  BY <1>1, <1>3, <1>4, <1>5
  DEF CallsInv, PlacedTasks, OwnRecords, JudgedCalls, NewPids

LEMMA CallsJudgedOnce == TracerInv /\ CallsInv => JudgedOnce
<1> SUFFICES ASSUME TracerInv, CallsInv, NEW p \in Pids, exists(p)
             PROVE  /\ task[p].judged <= 1
                    /\ Running(p) /\ task[p].at = "user" /\ task[p].recorded
                       => task[p].judged = 1
  BY DEF JudgedOnce
<1>1. CallInv(p)
  BY DEF CallsInv, JudgedCalls
<1>2. CASE InCall(task[p])
  BY <1>1, <1>2 DEF CallInv, InCall, Running
<1>3. CASE ~InCall(task[p])
  BY <1>1, <1>3 DEF CallInv, Running
<1> QED
  BY <1>2, <1>3

(* A call is judged once at most, and once exactly by the time it is over  *)
(* if its entry was recorded, though an execve stops twice on its way out, *)
(* and whatever is killed, remapped or waited for in between (main.cc:70-  *)
(* 94, handle_exec_stop and handle_syscall_exit).                          *)
THEOREM EveryCallJudgedOnce == ~ReuseNamed => (TracerSpec => []JudgedOnce)
<1> SUFFICES ASSUME ~ReuseNamed PROVE TracerSpec => []JudgedOnce
  OBVIOUS
<1>1. TracerInit => TracerInv /\ CallsInv
  BY TracerInitInv, CallsInit
<1>2. TracerInv /\ CallsInv /\ [TracerNext]_allVars => (TracerInv /\ CallsInv)'
  BY TracerStep, TypeStep, CallsStep DEF TracerInv
<1>3. TracerInv /\ CallsInv => JudgedOnce
  BY CallsJudgedOnce
<1> QED
  BY <1>1, <1>2, <1>3, PTL DEF TracerSpec

\* No step but the round of a stop ends it.
LEMMA KernelKeepsStops ==
  ASSUME TracerInv, Kernel, NEW p \in Pids, exists(p), task[p].stop \in {"exit", "exec"}
  PROVE  task'[p].stop # "none"
<1>t. task \in [Pids -> Task \cup {NoTask}] /\ task[p] \in Task
  BY DEF TracerInv, KernelInv, Tasks, Fit
<1>c. Corpse(p).stop = "exited"
  BY DEF Corpse, NewTask
<1>1. ASSUME NEW o \in Pids, Running(o)
      PROVE  o # p
  BY <1>1 DEF Running
<1>2. ASSUME NEW o \in Pids, NEW c \in Calls, Syscall(o, c)
      PROVE  task'[p] = task[p]
  BY <1>1, <1>2, <1>t DEF Syscall
<1>3. ASSUME NEW o \in Pids, NEW ret \in Retvals, Return(o, ret)
      PROVE  task'[p] = task[p]
  BY <1>1, <1>3, <1>t DEF Return
<1>4. ASSUME NEW o \in Pids, NEW q \in Pids, Spawn(o, q)
      PROVE  task'[p] = task[p]
  <2>1. o # p /\ q # p
    BY <1>1, <1>4 DEF Spawn
  <2>2. Spawned(o, q)
    BY <1>4, SpawnShape
  <2> QED
    BY <2>1, <2>2 DEF Spawned
<1>5. ASSUME NEW S, Kill(S)
      PROVE  task'[p].stop # "none"
  BY <1>5, <1>c DEF Kill
<1>6. ASSUME NEW o \in Pids, ExecBegin(o)
      PROVE  task'[p].stop # "none"
  BY <1>1, <1>6, <1>c DEF ExecBegin
<1>7. ASSUME NEW o \in Pids, ExecDone(o)
      PROVE  task'[p].stop # "none"
  <2>1. PICK leader : leader = task[o].tgid /\ Executed(o, leader)
    BY <1>7, ExecShape
  <2> QED
    BY <1>1, <1>7, <2>1 DEF Executed, ExecDone
<1> QED
  BY <1>2, <1>3, <1>4, <1>5, <1>6, <1>7 DEF Kernel, ThreadExit, GroupExit

LEMMA RoundKeepsStops ==
  ASSUME TracerInv, NEW o \in Pids, Round(o), NEW p \in Pids, p # o,
         exists(p), task[p].stop \in {"exit", "exec"}
  PROVE  task'[p].stop # "none"
<1>t. task \in [Pids -> Task \cup {NoTask}] /\ task[p] \in Task
  BY DEF TracerInv, KernelInv, Tasks, Fit
<1>1. CASE wait_fork(o)
  <2>1. task'[p].stop = task[p].stop
    BY <1>1, <1>t DEF wait_fork, Task
  <2> QED
    BY <2>1
<1>2. CASE wait_killed(o)
  BY <1>2 DEF wait_killed, Kill, Corpse, NewTask
<1>3. CASE wait_exited(o) \/ wait_untracked(o) \/ wait_entry(o) \/ wait_exit(o)
           \/ wait_exec(o) \/ wait_sigstop(o)
  BY <1>3, <1>t
  DEF wait_exited, wait_untracked, wait_entry, wait_exit, wait_exec, wait_sigstop
<1> QED
  BY <1>1, <1>2, <1>3 DEF Round

LEMMA JudgesOwnCall ==
  ASSUME TracerInv, CallsInv, [TracerNext]_allVars, NEW p \in Pids, Judged(p),
         task[p].recorded, ~WrongExec(p)
  PROVE  OwnCall(p)
<1>1. exists(p) /\ task[p].stop \in {"exit", "exec"} /\ task'[p].stop = "none"
      /\ seen' # NoEvent
  BY DEF Judged
<1>2. ~Kernel
  BY <1>1, KernelKeepsStops
<1>3. task' # task
  BY <1>1
<1>4. PICK o \in Pids : Round(o)
  BY <1>2, <1>3 DEF TracerNext, MainLoop, leave_loop, Clock, Terminated, kernel, allVars
<1>5. o = p
  BY <1>1, <1>4, RoundKeepsStops
<1>6. CASE wait_exit(p)
  <2>0. Waited(p) /\ task[p].stop = "exit"
    BY <1>6, WaitShape DEF wait_exit
  <2>1. handle_syscall_exit(p, task[p].ret) /\ task[p].ret \in Retvals
    BY <1>6, <2>0 DEF wait_exit, Waited
  <2>2. /\ has_event(p) /\ seen'.pid = tracked_pids[p].pid
        /\ seen'.call = tracked_pids[p].call /\ seen'.retval = task[p].ret
    BY <1>1, <2>1, ExitEffect DEF TracerInv
  <2>3. ~AfterExec(task[p])
    BY <2>0, <2>2 DEF Waited, CallInv
  <2>4. tracked_pids[p].call = task[p].call
    BY <2>0, <2>3 DEF Waited, CallInv, InCall, Caller, OpenRecord
  <2>5. tracked_pids[p].pid = p
    BY <2>2 DEF CallsInv, OwnRecords
  <2> QED
    BY <2>0, <2>2, <2>4, <2>5 DEF OwnCall
<1>7. CASE wait_exec(p)
  <2>0. Waited(p) /\ task[p].stop = "exec"
    BY <1>7, WaitShape DEF wait_exec
  <2>1. handle_exec_stop(p, task[p].msg) /\ task[p].msg \in Pids
    BY <1>7, <2>0 DEF wait_exec, Waited
  <2>2. OpenRecord(task[p].msg, task[p].call)
    BY <2>0 DEF Waited, CallInv, Placed, InCall, AfterExec, Caller
  <2>3. \/ in_execve(p) /\ seen'.pid = p /\ seen'.call = tracked_pids[p].call
           /\ seen'.retval = 0
        \/ ~in_execve(p) /\ seen'.pid = p /\ seen'.retval = 0
           /\ seen'.call = tracked_pids[task[p].msg].call
    BY <1>1, <2>1, ExecEffect DEF TracerInv
  <2>4. in_execve(p) => task[p].msg = p
    BY <2>0 DEF WrongExec
  <2> QED
    BY <2>0, <2>2, <2>3, <2>4 DEF OwnCall, OpenRecord
<1>8. ~wait_entry(p) /\ ~wait_untracked(p) /\ ~wait_sigstop(p) /\ ~wait_exited(p)
      /\ ~wait_fork(p)
  BY <1>1 DEF wait_entry, wait_untracked, wait_sigstop, wait_exited, wait_fork, Wait, nothing,
              no_event
<1>9. ~wait_killed(p)
  <2>1. exists(p) /\ p \in Group(task[p].tgid)
    BY <1>1 DEF Group
  <2>2. Corpse(p).stop = "exited"
    BY DEF Corpse, NewTask
  <2>3. wait_killed(p) => task'[p] = Corpse(p)
    BY <2>1 DEF wait_killed, Kill
  <2> QED
    BY <1>1, <2>2, <2>3
<1> QED
  BY <1>4, <1>5, <1>6, <1>7, <1>8, <1>9 DEF Round

(* What the rules judge when a recorded call returns is this call, with    *)
(* its own result, and not a stale record under the same pid; but for the  *)
(* execve that handle_exec_stop takes for the leader's (engine.cc:559).    *)
THEOREM OwnCallsJudged == ~ReuseNamed => (TracerSpec => OwnCallJudged)
<1> SUFFICES ASSUME ~ReuseNamed PROVE TracerSpec => OwnCallJudged
  OBVIOUS
<1> DEFINE Own == \A p \in Pids :
                    Judged(p) /\ task[p].recorded /\ ~WrongExec(p) => OwnCall(p)
<1>1. TracerInit => TracerInv /\ CallsInv
  BY TracerInitInv, CallsInit
<1>2. TracerInv /\ CallsInv /\ [TracerNext]_allVars => (TracerInv /\ CallsInv)'
  BY TracerStep, TypeStep, CallsStep DEF TracerInv
<1>3. TracerInv /\ CallsInv /\ [TracerNext]_allVars => [Own]_allVars
  BY JudgesOwnCall
<1> QED
  BY <1>1, <1>2, <1>3, PTL DEF TracerSpec, OwnCallJudged

-----------------------------------------------------------------------------
(* Who is tracked.                                                         *)

\* A step that makes no task and no event, and takes no creation back: it is
\* reported or lost.
Settles ==
  /\ \A q \in Pids : exists(q)' =>
       /\ exists(q) /\ task'[q].tgid = task[q].tgid
       /\ task'[q].at = "execing" => task[q].at = "execing"
       /\ task'[q].stop = "exec" => task[q].stop = "exec"
       /\ task[q].stop = "exited" => task'[q].stop = "exited"
       /\ is_tracked(q) => is_tracked(q)'
  /\ \A p, q \in Pids : Creates(p, q)' => Creates(p, q)
  /\ \A p, q \in Pids : Creates(p, q) => Creates(p, q)' \/ is_tracked(q)' \/ q \in lost'
  /\ lost \subseteq lost'

LEMMA OrderedFrame ==
  ASSUME Ordered, \A p, q \in Pids : Creates(p, q)' => Creates(p, q)
  PROVE  Ordered'
BY DEF Ordered

LEMMA GroupFrame ==
  ASSUME GroupInv, Settles
  PROVE  GroupInv'
<1>1. ExecAlone'
  BY DEF GroupInv, Settles, ExecAlone
<1>2. TrackedOrPending'
  <2> SUFFICES ASSUME NEW q \in Pids, exists(q)', ~is_tracked(q)'
               PROVE  q \in lost' \/ \E p \in Pids : Creates(p, q)'
    BY DEF TrackedOrPending, Creates
  <2>1. exists(q) /\ ~is_tracked(q)
    BY DEF Settles
  <2>2. q \in lost \/ \E p \in Pids : Creates(p, q)
    BY <2>1 DEF GroupInv, TrackedOrPending, Creates
  <2> QED
    BY <2>2 DEF Settles
<1>3. Ordered'
  BY OrderedFrame DEF GroupInv, Settles
<1> QED
  BY <1>1, <1>2, <1>3 DEF GroupInv

\* The same of a step that changes one task.
SettlesOne(p) ==
  /\ exists(p) /\ lost' = lost
  /\ \A q \in Pids \ {p} : task'[q] = task[q]
  /\ exists(p)' => /\ task'[p].tgid = task[p].tgid /\ task[p].stop # "exited"
                   /\ task'[p].at = "execing" => task[p].at = "execing"
                   /\ task'[p].stop \notin {"fork", "exec"}
  /\ task[p].stop # "fork"
  /\ \A q \in Pids : exists(q)' /\ is_tracked(q) => is_tracked(q)'

LEMMA GroupOne ==
  ASSUME GroupInv, NEW p \in Pids, SettlesOne(p)
  PROVE  GroupInv'
<1>1. \A q \in Pids \ {p} : exists(q)' <=> exists(q)
  BY DEF SettlesOne, exists
<1>2. \A o, q \in Pids : Creates(o, q)' <=> Creates(o, q)
  BY <1>1 DEF SettlesOne, Creates
<1>3. Settles
  BY <1>1, <1>2 DEF SettlesOne, Settles
<1> QED
  BY <1>3, GroupFrame

LEMMA GroupKill ==
  ASSUME TracerInv, GroupInv, NEW S, \A q \in S : q \in Pids /\ exists(q), Kill(S),
         \A q \in Pids : exists(q) /\ is_tracked(q) => is_tracked(q)'
  PROVE  GroupInv'
<1>1. \A q \in Pids : task'[q] = IF q \in S THEN Corpse(q) ELSE task[q]
  BY DEF Kill
<1>2. \A q \in Pids : Corpse(q).at = "user" /\ Corpse(q).stop = "exited"
                      /\ Corpse(q).tgid = task[q].tgid
  BY DEF Corpse, NewTask
<1>3. \A q \in Pids : exists(q)' => exists(q)
  BY <1>1 DEF exists
<1>4. \A p, q \in Pids : Creates(p, q)' <=> Creates(p, q) /\ p \notin S
  BY <1>1, <1>2 DEF Creates, exists
<1>5. /\ lost \subseteq lost'
      /\ \A p, q \in Pids : Creates(p, q) /\ p \in S => q \in lost'
  BY DEF Kill, Creates
<1>6. Settles
  BY <1>1, <1>2, <1>3, <1>4, <1>5 DEF Settles
<1> QED
  BY <1>6, GroupFrame

LEMMA GroupSpawn ==
  ASSUME TracerInv, CallsInv, GroupInv, tracked_pids' = tracked_pids,
         NEW p \in Pids, NEW q \in Pids, Spawn(p, q)
  PROVE  GroupInv'
<1>0. Spawned(p, q)
  BY SpawnShape
<1>1. /\ exists(p) /\ task[p].stop = "none" /\ ~exists(q) /\ q # p /\ lost' = lost \ {q}
      /\ task'[q].tgid = (IF task[p].call \in Threads THEN task[p].tgid ELSE q)
      /\ task'[q].at = "user" /\ task'[q].stop = "sigstop"
      /\ \A o \in Pids \ {p, q} : task'[o] = task[o]
      /\ \A o \in Pids : exists(o)' <=> exists(o) \/ o = q
  BY <1>0 DEF Spawned
<1>2. /\ task'[p].tgid = task[p].tgid /\ task'[p].at = "returning"
      /\ task'[p].stop = "fork" /\ task'[p].msg = q
  BY <1>0 DEF Spawned, Task
<1>3. \A o, n \in Pids : Creates(o, n)' <=> Creates(o, n) \/ (o = p /\ n = q)
  BY <1>1, <1>2 DEF Creates
<1>4. \A o \in Pids : exists(o) => task[o].tgid \in Pids /\ exists(task[o].tgid)
  BY DEF TracerInv, KernelInv, Tasks, Leaders, Fit, Task
<1>5. ExecAlone'
  <2> SUFFICES ASSUME NEW o \in Pids, NEW n \in Pids, exists(o)', exists(n)', o # n,
                      task'[o].tgid = task'[n].tgid
               PROVE  /\ task'[o].at = "execing" => task'[n].stop = "exited"
                      /\ task'[o].stop # "exec"
    BY DEF ExecAlone
  <2>1. CASE o \in {p, q}
    BY <1>1, <1>2, <2>1
  <2>2. CASE o \notin {p, q} /\ n # q
    <3>1. /\ exists(o) /\ task'[o] = task[o] /\ exists(n)
          /\ task[o].tgid = task[n].tgid /\ (n # p => task'[n] = task[n])
      BY <1>1, <1>2, <2>2
    <3>2. /\ task[o].at = "execing" => task[n].stop = "exited"
          /\ task[o].stop # "exec"
      BY <3>1 DEF GroupInv, ExecAlone
    <3> QED
      BY <1>1, <3>1, <3>2
  <2>3. CASE o \notin {p, q} /\ n = q
    <3>1. exists(o) /\ task'[o] = task[o]
      BY <1>1, <2>3
    <3>2. task[o].tgid = task[p].tgid
      BY <1>1, <1>4, <2>3, <3>1
    <3> QED
      BY <1>1, <2>3, <3>1, <3>2 DEF GroupInv, ExecAlone
  <2> QED
    BY <2>1, <2>2, <2>3
<1>6. TrackedOrPending'
  <2> SUFFICES ASSUME NEW n \in Pids, exists(n)', ~is_tracked(n)'
               PROVE  n \in lost' \/ \E o \in Pids : Creates(o, n)'
    BY DEF TrackedOrPending, Creates
  <2>1. CASE n = q
    BY <1>3, <2>1
  <2>2. CASE n # q
    <3>1. n \in lost \/ \E o \in Pids : Creates(o, n)
      BY <1>1, <2>2 DEF GroupInv, TrackedOrPending, Creates, is_tracked
    <3> QED
      BY <1>1, <1>3, <3>1
  <2> QED
    BY <2>1, <2>2
<1>7. Ordered'
  <2> SUFFICES ASSUME NEW X \in SUBSET Pids, X # {}
               PROVE  \E n \in X : \A o \in X : ~Creates(o, n)'
    BY DEF Ordered
  <2>1. \A n \in Pids : ~Creates(q, n)'
    BY <1>1 DEF Creates
  <2>2. CASE X = {q}
    BY <2>1, <2>2
  <2>3. CASE X # {q}
    <3>1. X \ {q} # {} /\ X \ {q} \in SUBSET Pids
      BY <2>3
    <3>2. PICK n \in X \ {q} : \A o \in X \ {q} : ~Creates(o, n)
      BY <3>1 DEF GroupInv, Ordered
    <3> QED
      BY <1>3, <2>1, <3>2
  <2> QED
    BY <2>2, <2>3
<1> QED
  BY <1>5, <1>6, <1>7 DEF GroupInv

LEMMA GroupExecBegin ==
  ASSUME TracerInv, GroupInv, tracked_pids' = tracked_pids, NEW p \in Pids, ExecBegin(p)
  PROVE  GroupInv'
<1>0. PICK others : others = Group(task[p].tgid) \ {p}
  OBVIOUS
<1>1. /\ exists(p) /\ task[p] \in Task /\ task[p].stop = "none" /\ task[p].at = "kernel"
      /\ \A q \in Pids : task'[q] = IF q \in others THEN Corpse(q)
                                    ELSE IF q = p THEN [task[p] EXCEPT !.at = "execing"]
                                    ELSE task[q]
      /\ lost' = lost \cup {task[q].msg : q \in {t \in others : task[t].stop = "fork"}}
      /\ p \notin others
      /\ \A q \in others : q \in Pids /\ exists(q) /\ task[q].tgid = task[p].tgid
      /\ \A q \in Pids \ others : exists(q) /\ task[q].tgid = task[p].tgid => q = p
  BY <1>0 DEF ExecBegin, Running, TracerInv, KernelInv, Tasks, Fit, Group
<1>2. \A q \in Pids : Corpse(q).at = "user" /\ Corpse(q).stop = "exited"
                      /\ Corpse(q).tgid = task[q].tgid
  BY DEF Corpse, NewTask
<1>3. task'[p].tgid = task[p].tgid /\ task'[p].at = "execing" /\ task'[p].stop = "none"
  BY <1>1 DEF Task
<1>4. \A q \in Pids : exists(q)' => exists(q) /\ task'[q].tgid = task[q].tgid
  BY <1>1, <1>2, <1>3 DEF exists
<1>5. \A o, q \in Pids : Creates(o, q)' <=> Creates(o, q) /\ o \notin others
  BY <1>1, <1>2, <1>3, <1>4 DEF Creates, exists
<1>6. ExecAlone'
  <2> SUFFICES ASSUME NEW o \in Pids, NEW n \in Pids, exists(o)', exists(n)', o # n,
                      task'[o].tgid = task'[n].tgid
               PROVE  /\ task'[o].at = "execing" => task'[n].stop = "exited"
                      /\ task'[o].stop # "exec"
    BY DEF ExecAlone
  <2>1. exists(o) /\ exists(n) /\ task[o].tgid = task[n].tgid
    BY <1>4
  <2>2. /\ task[o].at = "execing" => task[n].stop = "exited"
        /\ task[o].stop # "exec"
    BY <2>1 DEF GroupInv, ExecAlone
  <2>3. CASE n \in others
    BY <1>1, <1>2, <1>3, <2>1, <2>2, <2>3
  <2>4. CASE n \notin others /\ n # p
    BY <1>1, <1>2, <2>1, <2>2, <2>4
  <2>5. CASE n = p
    BY <1>1, <1>2, <2>1, <2>2, <2>5
  <2> QED
    BY <2>3, <2>4, <2>5
<1>7. TrackedOrPending'
  <2> SUFFICES ASSUME NEW q \in Pids, exists(q)', ~is_tracked(q)'
               PROVE  q \in lost' \/ \E o \in Pids : Creates(o, q)'
    BY DEF TrackedOrPending, Creates
  <2>1. q \in lost \/ \E o \in Pids : Creates(o, q)
    BY <1>4 DEF GroupInv, TrackedOrPending, Creates, is_tracked
  <2>2. \A o \in Pids : Creates(o, q) /\ o \in others => q \in lost'
    BY <1>1 DEF Creates
  <2> QED
    BY <1>1, <1>5, <2>1, <2>2
<1>8. Ordered'
  BY <1>5, OrderedFrame DEF GroupInv
<1> QED
  BY <1>6, <1>7, <1>8 DEF GroupInv

LEMMA GroupExecDone ==
  ASSUME TracerInv, GroupInv, tracked_pids' = tracked_pids, NEW p \in Pids, ExecDone(p)
  PROVE  GroupInv'
<1>0. PICK leader : leader = task[p].tgid /\ Executed(p, leader)
  BY ExecShape
<1>1. /\ exists(p) /\ task[p].stop = "none" /\ task[p].at = "execing"
      /\ leader \in Pids /\ exists(leader) /\ task[leader].tgid = leader
      /\ lost' = lost
      /\ task'[leader].tgid = leader /\ task'[leader].stop = "exec"
      /\ task'[leader].at = "returning"
      /\ \A o \in Pids \ {p, leader} : task'[o] = task[o]
      /\ \A o \in Pids : exists(o)' <=> exists(o) /\ (o = leader \/ o # p)
  BY <1>0 DEF Executed
<1>2. \A o \in Pids : exists(o) /\ task[o].tgid = leader => o \in {p, leader}
  <2>1. Group(leader) \subseteq {p, leader}
    BY <1>0 DEF Executed
  <2> QED
    BY <2>1 DEF Group
<1>3. leader # p => task[leader].stop = "exited"
  BY <1>0, <1>1 DEF GroupInv, ExecAlone
<1>4. \A o, q \in Pids : Creates(o, q)' <=> Creates(o, q)
  BY <1>1, <1>3 DEF Creates
<1>5. ExecAlone'
  <2> SUFFICES ASSUME NEW o \in Pids, NEW n \in Pids, exists(o)', exists(n)', o # n,
                      task'[o].tgid = task'[n].tgid
               PROVE  /\ task'[o].at = "execing" => task'[n].stop = "exited"
                      /\ task'[o].stop # "exec"
    BY DEF ExecAlone
  <2>1. o # leader /\ n # leader
    BY <1>1, <1>2
  <2>2. o # p /\ n # p
    BY <1>1, <2>1
  <2>3. exists(o) /\ exists(n) /\ task'[o] = task[o] /\ task'[n] = task[n]
    BY <1>1, <2>1, <2>2
  <2> QED
    BY <2>3 DEF GroupInv, ExecAlone
<1>6. TrackedOrPending'
  <2> SUFFICES ASSUME NEW q \in Pids, exists(q)', ~is_tracked(q)'
               PROVE  q \in lost' \/ \E o \in Pids : Creates(o, q)'
    BY DEF TrackedOrPending, Creates
  <2>1. q \in lost \/ \E o \in Pids : Creates(o, q)
    BY <1>1 DEF GroupInv, TrackedOrPending, Creates, is_tracked
  <2> QED
    BY <1>1, <1>4, <2>1
<1>7. Ordered'
  BY <1>4, OrderedFrame DEF GroupInv
<1> QED
  BY <1>5, <1>6, <1>7 DEF GroupInv

LEMMA GroupKernelStep ==
  ASSUME TracerInv, CallsInv, GroupInv, Kernel
  PROVE  GroupInv'
<1>t. /\ tracked_pids' = tracked_pids /\ \A q \in Pids : is_tracked(q)' <=> is_tracked(q)
      /\ task \in [Pids -> Task \cup {NoTask}]
      /\ \A q \in Pids : exists(q) => task[q] \in Task
  BY DEF Kernel, vars, is_tracked, TracerInv, KernelInv, Tasks, Fit
<1>1. ASSUME NEW p \in Pids, NEW c \in Calls, Syscall(p, c)
      PROVE  GroupInv'
  <2>1. task'[p] = [task[p] EXCEPT !.call = c, !.at = "kernel", !.stop = "entry",
                                   !.recorded = FALSE, !.judged = 0]
    BY <1>1, <1>t DEF Syscall
  <2>2. SettlesOne(p)
    BY <1>1, <1>t, <2>1 DEF SettlesOne, Syscall, Running, Task
  <2> QED
    BY <2>2, GroupOne
<1>2. ASSUME NEW p \in Pids, NEW ret \in Retvals, Return(p, ret)
      PROVE  GroupInv'
  <2>1. task'[p] = [task[p] EXCEPT !.at = "user", !.stop = "exit", !.ret = ret]
    BY <1>2, <1>t DEF Return
  <2>2. SettlesOne(p)
    BY <1>2, <1>t, <2>1 DEF SettlesOne, Return, Running, Task
  <2> QED
    BY <2>2, GroupOne
<1>3. ASSUME NEW p \in Pids, ThreadExit(p) PROVE GroupInv'
  BY <1>3, <1>t, GroupKill DEF ThreadExit, Running
<1>4. ASSUME NEW g \in Pids, GroupExit(g) PROVE GroupInv'
  BY <1>4, <1>t, GroupKill DEF GroupExit, Group
<1> QED
  BY <1>1, <1>2, <1>3, <1>4, <1>t, GroupSpawn, GroupExecBegin, GroupExecDone DEF Kernel

\* A round that lets p run on, after a stop that is not for a new task, and
\* ends the tracking of no task.
GoesOn(p, t) ==
  /\ t \in {Resume(p), Judge(p)} \cup {[Resume(p) EXCEPT !.recorded = TRUE]}
  /\ task' = [task EXCEPT ![p] = t] /\ lost' = lost
  /\ task[p].stop \in {"entry", "exit", "sigstop", "exec"}
  /\ \A q \in Pids : exists(q) /\ is_tracked(q) => is_tracked(q)'

LEMMA GroupGoesOn ==
  ASSUME TracerInv, GroupInv, NEW p \in Pids, Waited(p), NEW t, GoesOn(p, t)
  PROVE  GroupInv'
<1>1. /\ Resume(p) \in Task /\ Resume(p).tgid = task[p].tgid /\ Resume(p).stop = "none"
      /\ Resume(p).at = task[p].at
  BY ResumeFields DEF Waited
<1>2. t \in Task /\ t.tgid = task[p].tgid /\ t.stop = "none" /\ t.at = task[p].at
  <2>1. CASE t \in {Resume(p), Judge(p)}
    BY <2>1, ResumeFields DEF Waited
  <2>2. CASE t = [Resume(p) EXCEPT !.recorded = TRUE]
    <3> HIDE DEF Resume
    <3> QED
      BY <1>1, <2>2 DEF Task
  <2> QED
    BY <2>1, <2>2 DEF GoesOn
<1>3. /\ exists(p) /\ exists(p)' /\ lost' = lost /\ task'[p] = t
      /\ \A q \in Pids \ {p} : task'[q] = task[q]
      /\ task[p].stop \in {"entry", "exit", "sigstop", "exec"}
      /\ \A q \in Pids : exists(q)' /\ is_tracked(q) => is_tracked(q)'
  BY <1>2, TaskAssumption DEF Waited, GoesOn, exists
<1>4. SettlesOne(p)
  BY <1>2, <1>3 DEF SettlesOne
<1> QED
  BY <1>4, GroupOne

LEMMA GroupExited ==
  ASSUME TracerInv, CallsInv, GroupInv, NEW p \in Pids, wait_exited(p)
  PROVE  GroupInv'
<1>0. Waited(p) /\ task[p].stop = "exited"
  BY WaitShape DEF wait_exited
<1>1. SettlesOne(p)
  BY <1>0 DEF SettlesOne, Waited, wait_exited, remove_tracked_pid, is_tracked, exists
<1> QED
  BY <1>1, GroupOne

LEMMA GroupUntracked ==
  ASSUME TracerInv, CallsInv, GroupInv, NEW p \in Pids,
         wait_untracked(p) \/ wait_sigstop(p)
  PROVE  GroupInv'
<1>1. ASSUME NEW stops, stops \subseteq {"entry", "exit", "sigstop"}, Wait(p, stops),
             nothing, task' = [task EXCEPT ![p] = Resume(p)], lost' = lost
      PROVE  GroupInv'
  <2>1. Waited(p) /\ task[p].stop \in stops
    BY <1>1, WaitShape
  <2>2. GoesOn(p, Resume(p))
    BY <1>1, <2>1 DEF GoesOn, nothing, is_tracked
  <2> QED
    BY <2>1, <2>2, GroupGoesOn
<1> QED
  BY <1>1 DEF wait_untracked, wait_sigstop

LEMMA GroupEntry ==
  ASSUME TracerInv, CallsInv, GroupInv, NEW p \in Pids, wait_entry(p)
  PROVE  GroupInv'
<1>0. Waited(p) /\ task[p].stop = "entry"
  BY WaitShape DEF wait_entry
<1>1. /\ \A q \in Pids \ {p} : tracked_pids'[q] = tracked_pids[q]
      /\ is_tracked(p)'
  <2>1. is_tracked(p) /\ task[p].call \in Calls /\ handle_syscall_entry(p, task[p].call)
    BY <1>0 DEF Waited, wait_entry, TracerInv, KernelInv, Tasks, Fit
  <2> QED
    <3>1. /\ tracked_pids' = [tracked_pids EXCEPT ![p] = tracked_pids'[p]]
          /\ tracked_pids'[p] \in SyscallEvent
      BY <2>1, EntryEffect DEF TracerInv
    <3> QED
      BY <1>0, <3>1, CallsAssumption DEF is_tracked, Waited
<1>2. GoesOn(p, [Resume(p) EXCEPT !.recorded = TRUE])
  BY <1>0, <1>1 DEF GoesOn, wait_entry, is_tracked
<1> QED
  BY <1>0, <1>2, GroupGoesOn

LEMMA GroupReturned ==
  ASSUME TracerInv, CallsInv, GroupInv, NEW p \in Pids, wait_exit(p)
  PROVE  GroupInv'
<1>0. Waited(p) /\ task[p].stop = "exit"
  BY WaitShape DEF wait_exit
<1>1. handle_syscall_exit(p, task[p].ret) /\ task[p].ret \in Retvals
  BY <1>0 DEF wait_exit, Waited
<1>2. \/ tracked_pids' = tracked_pids
      \/ tracked_pids' = [tracked_pids EXCEPT ![p] = seen'] /\ seen' \in SyscallEvent
  BY <1>1, ExitEffect DEF TracerInv
<1>3. \A q \in Pids : is_tracked(q) => is_tracked(q)'
  BY <1>0, <1>2, CallsAssumption DEF is_tracked, Waited
<1>4. GoesOn(p, Judge(p))
  BY <1>0, <1>3 DEF GoesOn, wait_exit
<1> QED
  BY <1>0, <1>4, GroupGoesOn

\* What an execve stop does to who is tracked: p may be from now on, and the
\* pid p had before is not.
LEMMA ExecTracks ==
  ASSUME TracerInv, NEW p \in Pids, NEW old \in Pids, handle_exec_stop(p, old)
  PROVE  \A q \in Pids : is_tracked(q) /\ (q = old => q = p) => is_tracked(q)'
<1>1. \/ tracked_pids' = tracked_pids
      \/ tracked_pids' = [tracked_pids EXCEPT ![p] = NoEvent]
      \/ /\ old # p
         /\ tracked_pids' = [tracked_pids EXCEPT ![p] = NoEvent, ![old] = Untracked]
  BY ExecEffect DEF TracerInv
<1>2. tracked_pids \in [Pids -> SyscallEvent \cup {Untracked, NoEvent}]
  BY DEF TracerInv, TypeInv, TypeOK
<1> QED
  BY <1>1, <1>2, CallsAssumption DEF is_tracked

LEMMA GroupExec ==
  ASSUME TracerInv, CallsInv, GroupInv, NEW p \in Pids, wait_exec(p)
  PROVE  GroupInv'
<1>0. Waited(p) /\ task[p].stop = "exec"
  BY WaitShape DEF wait_exec
<1>o. PICK old \in Pids : old = task[p].msg
  BY <1>0 DEF Waited
<1>1. handle_exec_stop(p, old)
  BY <1>o DEF wait_exec
<1>2. ~exists(old) \/ old = p
  BY <1>0, <1>o DEF CallsInv, GonePids, Waited
<1>3. \A q \in Pids : exists(q) /\ is_tracked(q) => is_tracked(q)'
  BY <1>1, <1>2, ExecTracks
<1>4. GoesOn(p, Judge(p))
  BY <1>0, <1>3 DEF GoesOn, wait_exec
<1> QED
  BY <1>0, <1>4, GroupGoesOn

LEMMA GroupFork ==
  ASSUME TracerInv, CallsInv, GroupInv, NEW p \in Pids, wait_fork(p)
  PROVE  GroupInv'
<1>0. Waited(p) /\ task[p].stop = "fork"
  <2>1. Wait(p, {"fork"})
    BY DEF wait_fork
  <2> QED
    BY <2>1, WaitShape
<1>o. PICK child \in Pids : child = task[p].msg
  BY <1>0 DEF Waited
<1>1. /\ exists(p) /\ lost' = lost
      /\ tracked_pids' = [tracked_pids EXCEPT ![child] = NoEvent]
      /\ task'[p] = Resume(p)
      /\ \A q \in Pids \ {p} : task'[q] =
           IF q = child /\ exists(q)
           THEN [task[q] EXCEPT !.told = @ /\ task[p].told /\ is_tracked(p),
                                !.recorded = FALSE]
           ELSE task[q]
  BY <1>0, <1>o DEF Waited, wait_fork, add_tracked_pid
<1>2. \A q \in Pids : is_tracked(q) \/ q = child => is_tracked(q)'
  BY <1>0, <1>1, CallsAssumption DEF Waited, is_tracked
<1>3. /\ task'[p].tgid = task[p].tgid /\ task'[p].at = task[p].at
      /\ task'[p].stop = "none"
  <2>1. task'[p] \in {Resume(p), Judge(p)}
    BY <1>1
  <2> QED
    BY <1>0, <1>1, <2>1, ResumeFields
<1>4. \A q \in Pids \ {p} :
        /\ exists(q)' => exists(q)
        /\ exists(q) => /\ exists(q)' /\ task'[q].tgid = task[q].tgid
                        /\ task'[q].at = task[q].at /\ task'[q].stop = task[q].stop
                        /\ task'[q].msg = task[q].msg
  <2> SUFFICES ASSUME NEW q \in Pids \ {p}, exists(q)
               PROVE  /\ exists(q)' /\ task'[q].tgid = task[q].tgid
                      /\ task'[q].at = task[q].at /\ task'[q].stop = task[q].stop
                      /\ task'[q].msg = task[q].msg
    BY <1>1 DEF exists
  <2>1. task[q] \in Task
    BY DEF TracerInv, KernelInv, Tasks, Fit
  <2>2. KernelInv'
    BY RoundInv DEF Round
  <2>3. CASE q = child
    <3>1. task'[q] = [task[q] EXCEPT !.told = @ /\ task[p].told /\ is_tracked(p),
                                     !.recorded = FALSE]
      BY <1>1, <2>3
    <3>2. task'[q] \in Task
      BY <2>1, <3>1 DEF Task
    <3> QED
      BY <2>1, <3>1, <3>2, TaskAssumption DEF Task, exists
  <2>4. CASE q # child
    BY <1>1, <2>4 DEF exists
  <2> QED
    BY <2>3, <2>4
<1>5. \A o, q \in Pids : Creates(o, q)' <=> Creates(o, q) /\ o # p
  BY <1>3, <1>4 DEF Creates
<1>6. \A q \in Pids : Creates(p, q) => q = child
  BY <1>o DEF Creates
<1>7. Settles
  <2>1. \A q \in Pids : exists(q)' =>
          /\ exists(q) /\ task'[q].tgid = task[q].tgid
          /\ task'[q].at = "execing" => task[q].at = "execing"
          /\ task'[q].stop = "exec" => task[q].stop = "exec"
          /\ task[q].stop = "exited" => task'[q].stop = "exited"
    BY <1>0, <1>1, <1>3, <1>4
  <2> QED
    BY <1>1, <1>2, <1>5, <1>6, <2>1 DEF Settles
<1> QED
  BY <1>7, GroupFrame

LEMMA GroupKilled ==
  ASSUME TracerInv, CallsInv, GroupInv, NEW p \in Pids, wait_killed(p)
  PROVE  GroupInv'
<1>0. Waited(p) /\ ZeroPid \in Pids
  BY WaitShape, TracerAssumption DEF wait_killed
<1>1. \A q \in Pids : exists(q) => q # ZeroPid
  BY DEF TracerInv, KernelInv, RealPids
<1>2. \A q \in Pids : exists(q) /\ is_tracked(q) => is_tracked(q)'
  <2>1. CASE add_tracked_pid(ZeroPid, p)
    BY <1>0, <1>1, <2>1 DEF add_tracked_pid, is_tracked, Waited
  <2>2. CASE handle_exec_stop(p, ZeroPid)
    BY <1>0, <1>1, <2>2, ExecTracks
  <2> QED
    BY <2>1, <2>2 DEF wait_killed
<1>3. PICK S : S = Group(task[p].tgid) /\ Kill(S)
  BY DEF wait_killed
<1>4. \A q \in S : q \in Pids /\ exists(q)
  BY <1>3 DEF Group
<1> QED
  BY <1>2, <1>3, <1>4, GroupKill

LEMMA GroupStep ==
  ASSUME TracerInv, CallsInv, GroupInv, [TracerNext]_allVars
  PROVE  GroupInv'
<1>1. CASE Kernel
  BY <1>1, GroupKernelStep
<1>2. ASSUME NEW p \in Pids, Round(p)
      PROVE  GroupInv'
  BY <1>2, GroupExited, GroupUntracked, GroupEntry, GroupReturned, GroupExec, GroupFork,
     GroupKilled DEF Round
<1>3. ASSUME UNCHANGED <<task, lost, tracked_pids>>
      PROVE  GroupInv'
  BY <1>3 DEF GroupInv, ExecAlone, TrackedOrPending, Ordered, Creates, exists, is_tracked
<1>4. CASE leave_loop \/ Clock \/ UNCHANGED allVars
  BY <1>3, <1>4 DEF leave_loop, Clock, Tick, kernel, vars, allVars
<1> QED
  BY <1>1, <1>2, <1>4 DEF TracerNext, MainLoop, Terminated

LEMMA GroupInit == TracerInit => GroupInv
<1> SUFFICES ASSUME TracerInit PROVE GroupInv
  OBVIOUS
<1>1. /\ task[Root] = NewTask(Root, "none") /\ is_tracked(Root)
      /\ \A q \in Pids : exists(q) => q = Root
  BY CallsAssumption DEF TracerInit, Init, exists, is_tracked
<1>2. task[Root].stop = "none"
  BY <1>1 DEF NewTask
<1>3. \A p, q \in Pids : ~Creates(p, q)
  BY <1>1, <1>2 DEF Creates
<1> QED
  BY <1>1, <1>3 DEF GroupInv, ExecAlone, TrackedOrPending, Ordered

(* Every task is tracked, but one whose creation is still to be reported,  *)
(* or was lost with its creator: no order of the reports, no execve under  *)
(* another pid and no kill makes the engine lose a task it has been told   *)
(* of (main.cc:90-104, handle_exec_stop).                                  *)
THEOREM NothingEscapes == ~ReuseNamed => (TracerSpec => []TrackedOrPending)
<1> SUFFICES ASSUME ~ReuseNamed PROVE TracerSpec => []TrackedOrPending
  OBVIOUS
<1> DEFINE Inv == TracerInv /\ CallsInv /\ GroupInv
<1>1. TracerInit => Inv
  BY TracerInitInv, CallsInit, GroupInit
<1>2. Inv /\ [TracerNext]_allVars => Inv'
  BY TracerStep, TypeStep, CallsStep, GroupStep DEF TracerInv
<1>3. Inv => TrackedOrPending
  BY DEF GroupInv
<1> QED
  BY <1>1, <1>2, <1>3, PTL DEF TracerSpec

-----------------------------------------------------------------------------
(* When the loop ends.                                                     *)

\* If the engine tracks nothing, a task that exists was created by another
\* one that exists; there is no first of them.
LEMMA NoneTracked ==
  ASSUME GroupInv, ~AnyTracked, lost = {}
  PROVE  \A p \in Pids : ~exists(p)
<1>1. PICK X : X = {p \in Pids : exists(p)}
  OBVIOUS
<1>2. ASSUME X # {}
      PROVE  FALSE
  <2>1. PICK q \in X : \A p \in X : ~Creates(p, q)
    BY <1>1, <1>2 DEF GroupInv, Ordered
  <2>2. exists(q) /\ ~is_tracked(q)
    BY <1>1 DEF AnyTracked
  <2>3. \E p \in Pids : Creates(p, q)
    BY <1>1, <2>2 DEF GroupInv, TrackedOrPending, Creates
  <2> QED
    BY <1>1, <2>1, <2>3 DEF Creates
<1> QED
  BY <1>1, <1>2

LEMMA LeaveStep ==
  ASSUME GroupInv, LeavesLast, [TracerNext]_allVars
  PROVE  LeavesLast'
<1>1. CASE Kernel \/ Clock \/ \E p \in Pids : Round(p)
  <2>1. ASSUME NEW p \in Pids, Round(p)
        PROVE  loop' = "waiting"
    BY <2>1
    DEF Round, wait_exited, wait_untracked, wait_entry, wait_exit, wait_exec, wait_fork,
        wait_sigstop, wait_killed, Wait
  <2>2. loop' = "waiting"
    BY <1>1, <2>1 DEF Kernel, Clock
  <2> QED
    BY <2>2 DEF LeavesLast
<1>2. CASE leave_loop
  <2>1. lost = {} => \A p \in Pids : ~exists(p)
    BY <1>2, NoneTracked DEF leave_loop
  <2> QED
    BY <1>2, <2>1 DEF leave_loop, LeavesLast, kernel, exists
<1>3. CASE UNCHANGED allVars
  BY <1>3 DEF LeavesLast, allVars, kernel, exists
<1> QED
  BY <1>1, <1>2, <1>3 DEF TracerNext, MainLoop, Terminated

(* The tracer leaves its loop, and so ends what it traces, only when no    *)
(* task is alive; unless a creation was lost with its creator.  That       *)
(* engine.tracked() is 0 (main.cc:49) says so, although a new task may     *)
(* run before it is tracked.                                               *)
THEOREM LoopLeavesLast == ~ReuseNamed => (TracerSpec => []LeavesLast)
<1> SUFFICES ASSUME ~ReuseNamed PROVE TracerSpec => []LeavesLast
  OBVIOUS
<1> DEFINE Inv == TracerInv /\ CallsInv /\ GroupInv /\ LeavesLast
<1>1. TracerInit => Inv
  BY TracerInitInv, CallsInit, GroupInit DEF TracerInit, LeavesLast
<1>2. Inv /\ [TracerNext]_allVars => Inv'
  BY TracerStep, TypeStep, CallsStep, GroupStep, LeaveStep DEF TracerInv
<1> QED
  BY <1>1, <1>2, PTL DEF TracerSpec

-----------------------------------------------------------------------------
(* The flags.                                                              *)

Alive(t) == t.stop # "exited"

\* The flags of pid q are, or are among, those the history of t asks for.
FlagsAre(q, t) ==
  (q \in from_shell_pids <=> t.shell) /\ (q \in allow_pids <=> t.allowed)
FlagsWithin(q, t) ==
  (q \in from_shell_pids => t.shell) /\ (q \in allow_pids => t.allowed)

FlagsTracked ==
  \A q \in Pids : q \in from_shell_pids \cup allow_pids => is_tracked(q)

\* A call that was not recorded is not judged by a record that was left.
Unrecorded(q) ==
  InCall(task[q]) /\ task[q].told /\ ~task[q].recorded /\ task[q].stop # "entry"
  => ~has_event(q)

\* The engine was not told all of a task that is tracked before its creation,
\* or that of its leader, was reported: the pid was tracked before the task had
\* it, or a task the engine did not track reported the thread.
ThreadsFirst ==
  \A q, m \in Pids :
    Pending(q) /\ exists(m) /\ Alive(task[m]) /\ q \in {m, task[m].tgid}
    /\ (is_tracked(m) \/ task[m].stop = "exec")
    => ~task[m].told

\* A new task is in the group of its creator or in one of its own, and has
\* its creator's history.
Heritage ==
  \A p, q \in Pids : Creates(p, q) /\ exists(q) =>
    /\ task[q].tgid \in {q, task[p].tgid}
    /\ Alive(task[q]) /\ task[q].told /\ task[p].told
       => task[q].shell = task[p].shell /\ task[q].allowed = task[p].allowed

LeaderTold ==
  \A m \in Pids :
    exists(m) /\ Alive(task[m]) /\ is_tracked(m) /\ task[m].told
    /\ Alive(task[task[m].tgid])
    => task[task[m].tgid].told

\* Between an execve and its stop the flags are those of the pid the thread
\* had, and of the program it runs now.
ExecFlags(q) ==
  exists(q) /\ task[q].stop = "exec" /\ task[q].told =>
    LET old == task[q].msg
        path == ExecPath[task[q].call]
    IN  /\ task[q].recorded
        /\ (old \in from_shell_pids \/ path \in ShellPaths) <=> task[q].shell
        /\ (old \in allow_pids \/ path \in allow_execve_paths) <=> task[q].allowed
        /\ old # q => ~in_execve(q) /\ FlagsWithin(q, task[q])

\* The flags of a task are exact, and the flags of its leader, whose pid it
\* takes when it executes a program, are among its own.
TaskFlags(m) ==
  exists(m) /\ Alive(task[m]) /\ is_tracked(m) /\ task[m].told /\ task[m].stop # "exec"
  => FlagsAre(m, task[m]) /\ FlagsWithin(task[m].tgid, task[m])

FlagsInv ==
  /\ FlagsTracked
  /\ \A q \in Pids : exists(q) => Unrecorded(q)
  /\ ThreadsFirst /\ Heritage /\ LeaderTold
  /\ \A q \in Pids : ExecFlags(q)
  /\ \A q \in Pids : TaskFlags(q)

SameFlags(q) ==
  /\ q \in from_shell_pids' <=> q \in from_shell_pids
  /\ q \in allow_pids' <=> q \in allow_pids

NoNewFlags(q) ==
  /\ q \in from_shell_pids' => q \in from_shell_pids
  /\ q \in allow_pids' => q \in allow_pids

\* Task q lives through the step, its past and what it executes unchanged.
LivesOn(q) ==
  /\ Alive(task[q]) /\ task'[q].told = task[q].told
  /\ task'[q].shell = task[q].shell /\ task'[q].allowed = task[q].allowed
  /\ task'[q].stop = "exec" <=> task[q].stop = "exec"
  /\ task'[q].stop = "exec" => task'[q] = task[q]

\* A step that makes no task and no event, and changes the records and the
\* flags of the pids in P only: of a task it was told of, it does not unless
\* this task ends.
Keeps(P) ==
  /\ \A q \in Pids : exists(q)' =>
       /\ exists(q) /\ task'[q].tgid = task[q].tgid
       /\ Alive(task'[q]) => LivesOn(q)
       /\ Unrecorded(q)' \/ (task'[q] = task[q] /\ q \notin P)
  /\ \A p, q \in Pids : Creates(p, q)' => Creates(p, q)
  /\ \A q \in Pids \ P : SameFlags(q) /\ tracked_pids'[q] = tracked_pids[q]
  /\ \A q \in P :
       /\ q \in Pids /\ (q = ZeroPid \/ exists(q))
       /\ q \in from_shell_pids' \cup allow_pids' => is_tracked(q)'
       /\ exists(q)' /\ Alive(task'[q]) =>
            /\ task[q].stop # "exec" /\ (is_tracked(q)' => is_tracked(q))
            /\ task[q].told => SameFlags(q)
       /\ \/ NoNewFlags(q) \/ q = ZeroPid
          \/ Alive(task[q]) /\ ~task[q].told
          \/ \A m \in Pids : exists(m)' /\ task'[m].tgid = q => ~Alive(task'[m])

LEMMA FlagsFrame ==
  ASSUME TracerInv, Leaders', CallsInv, FlagsInv, NEW P, Keeps(P)
  PROVE  FlagsInv'
<1>1. \A q \in Pids : exists(q) =>
        /\ q # ZeroPid /\ task[q].tgid \in Pids /\ exists(task[q].tgid)
        /\ task[q].tgid # ZeroPid
  BY DEF TracerInv, KernelInv, Tasks, Leaders, RealPids, Fit, Task
<1>2. \A q \in Pids : Pending(q)' => Pending(q)
  BY DEF Keeps, Pending
<1>3. \A q \in Pids : exists(q)' =>
        /\ exists(q) /\ task'[q].tgid = task[q].tgid
        /\ Alive(task'[q]) => LivesOn(q)
  BY DEF Keeps
<1>4. \A q \in Pids : exists(q)' /\ Alive(task'[q]) /\ is_tracked(q)' => is_tracked(q)
  BY DEF Keeps, is_tracked
<1>5. FlagsTracked'
  <2> SUFFICES ASSUME NEW q \in Pids, q \in from_shell_pids' \cup allow_pids'
               PROVE  is_tracked(q)'
    BY DEF FlagsTracked
  <2>1. CASE q \in P
    BY <2>1 DEF Keeps
  <2>2. CASE q \notin P
    BY <2>2 DEF Keeps, SameFlags, FlagsInv, FlagsTracked, is_tracked
  <2> QED
    BY <2>1, <2>2
<1>6. \A q \in Pids : exists(q)' => Unrecorded(q)'
  BY DEF Keeps, FlagsInv, Unrecorded, has_event
<1>7. ThreadsFirst'
  BY <1>2, <1>3, <1>4 DEF FlagsInv, ThreadsFirst, LivesOn, Alive
<1>8. Heritage'
  <2> SUFFICES ASSUME NEW p \in Pids, NEW q \in Pids, Creates(p, q)', exists(q)'
               PROVE  /\ task'[q].tgid \in {q, task'[p].tgid}
                      /\ Alive(task'[q]) /\ task'[q].told /\ task'[p].told
                         => /\ task'[q].shell = task'[p].shell
                            /\ task'[q].allowed = task'[p].allowed
    BY DEF Heritage, Alive
  <2>1. Creates(p, q) /\ exists(p)' /\ Alive(task'[p])
    BY DEF Keeps, Creates, Alive
  <2>2. /\ exists(q) /\ task'[q].tgid = task[q].tgid /\ LivesOn(p)
        /\ task'[p].tgid = task[p].tgid /\ (Alive(task'[q]) => LivesOn(q))
    BY <1>3, <2>1
  <2>3. /\ task[q].tgid \in {q, task[p].tgid}
        /\ Alive(task[q]) /\ task[q].told /\ task[p].told
           => task[q].shell = task[p].shell /\ task[q].allowed = task[p].allowed
    BY <2>1, <2>2 DEF FlagsInv, Heritage
  <2> QED
    BY <2>2, <2>3 DEF LivesOn
<1>9. LeaderTold'
  <2> SUFFICES ASSUME NEW m \in Pids, exists(m)', Alive(task'[m]), is_tracked(m)',
                      task'[m].told, Alive(task'[task'[m].tgid])
               PROVE  task'[task'[m].tgid].told
    BY DEF LeaderTold, Alive
  <2>1. PICK g \in Pids : g = task[m].tgid
    BY <1>1, <1>3
  <2>2. exists(m) /\ task'[m].tgid = g /\ LivesOn(m) /\ is_tracked(m)
    BY <1>3, <1>4, <2>1
  <2>3. exists(g)'
    BY <2>2 DEF Leaders
  <2>4. LivesOn(g)
    BY <1>3, <2>2, <2>3
  <2> QED
    BY <2>1, <2>2, <2>4 DEF FlagsInv, LeaderTold, LivesOn
<1>10. ASSUME NEW q \in Pids
       PROVE  ExecFlags(q)'
  <2> SUFFICES ASSUME exists(q)', task'[q].stop = "exec", task'[q].told
               PROVE  ExecFlags(q)'
    BY DEF ExecFlags
  <2>1. exists(q) /\ task'[q] = task[q]
    BY <1>3 DEF Alive, LivesOn
  <2>2. PICK old \in Pids : old = task[q].msg
    BY <2>1 DEF TracerInv, KernelInv, Tasks, Fit, Task
  <2>3. old # ZeroPid /\ (old = q \/ ~exists(old))
    BY <2>1, <2>2, ForeignRecords DEF CallsInv, GonePids
  <2>4. q \notin P
    BY <2>1 DEF Keeps, Alive
  <2>5. old \notin P
    BY <2>3, <2>4 DEF Keeps
  <2>6. SameFlags(q) /\ SameFlags(old) /\ tracked_pids'[q] = tracked_pids[q]
    BY <2>4, <2>5 DEF Keeps
  <2>7. ExecFlags(q)
    BY DEF FlagsInv
  <2> QED
    BY <2>1, <2>2, <2>6, <2>7
    DEF ExecFlags, SameFlags, FlagsWithin, in_execve, has_event
<1>11. ASSUME NEW m \in Pids
       PROVE  TaskFlags(m)'
  <2> SUFFICES ASSUME exists(m)', Alive(task'[m]), is_tracked(m)', task'[m].told,
                      task'[m].stop # "exec"
               PROVE  FlagsAre(m, task[m])' /\ FlagsWithin(task[m].tgid, task[m])'
    BY DEF TaskFlags, Alive
  <2>1. PICK g \in Pids : g = task[m].tgid
    BY <1>1, <1>3
  <2>2. /\ exists(m) /\ task'[m].tgid = g /\ LivesOn(m) /\ is_tracked(m)
        /\ task[m].told /\ task[m].stop # "exec" /\ g # ZeroPid
    BY <1>1, <1>3, <1>4, <2>1 DEF LivesOn
  <2>3. FlagsAre(m, task[m]) /\ FlagsWithin(g, task[m])
    BY <2>1, <2>2 DEF FlagsInv, TaskFlags, LivesOn
  <2>4. SameFlags(m)
    BY <2>2 DEF Keeps
  <2>5. NoNewFlags(g)
    <3>1. Alive(task[g]) => task[g].told
      BY <2>1, <2>2 DEF FlagsInv, LeaderTold, LivesOn
    <3>2. CASE g \in P
      BY <2>2, <3>1, <3>2 DEF Keeps
    <3>3. CASE g \notin P
      BY <3>3 DEF Keeps, SameFlags, NoNewFlags
    <3> QED
      BY <3>2, <3>3
  <2> QED
    BY <2>2, <2>3, <2>4, <2>5 DEF FlagsAre, FlagsWithin, SameFlags, NoNewFlags, LivesOn
<1> QED
  BY <1>5, <1>6, <1>7, <1>8, <1>9, <1>10, <1>11 DEF FlagsInv

\* The same of a step that changes one task, and its flags only if the engine
\* was not told of it.
KeepsOne(p) ==
  /\ exists(p) /\ exists(p)' /\ task'[p].tgid = task[p].tgid
  /\ Alive(task[p]) /\ task'[p].told = task[p].told
  /\ task'[p].shell = task[p].shell /\ task'[p].allowed = task[p].allowed
  /\ task[p].stop # "exec" /\ task'[p].stop \notin {"fork", "exec"}
  /\ Unrecorded(p)'
  /\ \A q \in Pids \ {p} :
       task'[q] = task[q] /\ SameFlags(q) /\ tracked_pids'[q] = tracked_pids[q]
  /\ is_tracked(p)' <=> is_tracked(p)
  /\ SameFlags(p) \/ (is_tracked(p) /\ ~task[p].told)

LEMMA FlagsOne ==
  ASSUME TracerInv, Leaders', CallsInv, FlagsInv, NEW p \in Pids, KeepsOne(p)
  PROVE  FlagsInv'
<1>1. \A o, q \in Pids : Creates(o, q)' => Creates(o, q)
  BY DEF KeepsOne, Creates, exists
<1>2. \A q \in Pids : exists(q)' =>
        /\ exists(q) /\ task'[q].tgid = task[q].tgid
        /\ Alive(task'[q]) => LivesOn(q)
        /\ Unrecorded(q)' \/ (task'[q] = task[q] /\ q \notin {p})
  BY DEF KeepsOne, LivesOn, exists, Alive
<1>3. p \in from_shell_pids' \cup allow_pids' => is_tracked(p)'
  BY DEF KeepsOne, SameFlags, FlagsInv, FlagsTracked
<1>4. \/ NoNewFlags(p) \/ p = ZeroPid
      \/ Alive(task[p]) /\ ~task[p].told
  BY DEF KeepsOne, SameFlags, NoNewFlags
<1>5. Keeps({p})
  BY <1>1, <1>2, <1>3, <1>4 DEF Keeps, KeepsOne
<1> QED
  BY <1>5, FlagsFrame

LEMMA FlagsSyscall ==
  ASSUME TracerInv, Leaders', CallsInv, FlagsInv,
         UNCHANGED <<tracked_pids, from_shell_pids, allow_pids>>,
         NEW p \in Pids, NEW c \in Calls, Syscall(p, c)
  PROVE  FlagsInv'
<1> DEFINE t == [task[p] EXCEPT !.call = c, !.at = "kernel", !.stop = "entry",
                                !.recorded = FALSE, !.judged = 0]
<1>1. /\ exists(p) /\ task[p] \in Task /\ task[p].stop = "none"
      /\ task \in [Pids -> Task \cup {NoTask}] /\ task' = [task EXCEPT ![p] = t]
  BY DEF Syscall, Running, TracerInv, KernelInv, Tasks, Fit
<1>2. /\ t \in Task /\ t.tgid = task[p].tgid /\ t.stop = "entry"
      /\ t.told = task[p].told /\ t.shell = task[p].shell /\ t.allowed = task[p].allowed
  BY <1>1 DEF Task, Places, Stops
<1> HIDE DEF t
<1>3. task'[p] = t /\ \A q \in Pids \ {p} : task'[q] = task[q]
  BY <1>1
<1>4. KeepsOne(p)
  BY <1>1, <1>2, <1>3, TaskAssumption
  DEF KeepsOne, Alive, Unrecorded, SameFlags, exists, is_tracked
<1> QED
  BY <1>4, FlagsOne

LEMMA FlagsReturn ==
  ASSUME TracerInv, Leaders', CallsInv, FlagsInv,
         UNCHANGED <<tracked_pids, from_shell_pids, allow_pids>>,
         NEW p \in Pids, NEW ret \in Retvals, Return(p, ret)
  PROVE  FlagsInv'
<1> DEFINE t == [task[p] EXCEPT !.at = "user", !.stop = "exit", !.ret = ret]
<1>1. /\ exists(p) /\ task[p] \in Task /\ task[p].stop = "none" /\ task[p].at # "user"
      /\ task \in [Pids -> Task \cup {NoTask}] /\ task' = [task EXCEPT ![p] = t]
  BY DEF Return, Running, TracerInv, KernelInv, Tasks, Fit
<1>2. /\ t \in Task /\ t.tgid = task[p].tgid /\ t.stop = "exit"
      /\ t.told = task[p].told /\ t.shell = task[p].shell /\ t.allowed = task[p].allowed
      /\ t.recorded = task[p].recorded
  BY <1>1 DEF Task, Places, Stops
<1> HIDE DEF t
<1>3. task'[p] = t /\ \A q \in Pids \ {p} : task'[q] = task[q]
  BY <1>1
<1>4. Unrecorded(p)
  BY <1>1 DEF FlagsInv
<1>5. Unrecorded(p)'
  BY <1>1, <1>2, <1>3, <1>4 DEF Unrecorded, InCall, has_event
<1>6. KeepsOne(p)
  BY <1>1, <1>2, <1>3, <1>5, TaskAssumption
  DEF KeepsOne, Alive, SameFlags, exists, is_tracked
<1> QED
  BY <1>6, FlagsOne

\* The tasks in S are killed, and the records and the flags of the pids in P
\* only change: those of pid 0, and of groups that die.
KillsOnly(S, P) ==
  /\ \A q \in S : q \in Pids /\ exists(q)
  /\ Kill(S)
  /\ P \subseteq S \cup {ZeroPid}
  /\ \A q \in Pids \ P : SameFlags(q) /\ tracked_pids'[q] = tracked_pids[q]
  /\ \A q \in P : /\ q \in from_shell_pids' \cup allow_pids' => is_tracked(q)'
                  /\ q = ZeroPid \/ Group(q) \subseteq S

LEMMA FlagsKill ==
  ASSUME TracerInv, Leaders', CallsInv, FlagsInv, NEW S, NEW P, KillsOnly(S, P)
  PROVE  FlagsInv'
<1> USE DEF KillsOnly
<1>1. \A q \in Pids : task'[q] = IF q \in S THEN Corpse(q) ELSE task[q]
  BY DEF Kill
<1>2. \A q \in Pids : Corpse(q).at = "user" /\ Corpse(q).stop = "exited"
                      /\ Corpse(q).tgid = task[q].tgid
  BY DEF Corpse, NewTask
<1>3. \A o, q \in Pids : Creates(o, q)' => Creates(o, q)
  BY <1>1, <1>2 DEF Creates, exists
<1>4. \A q \in Pids : exists(q)' =>
        /\ exists(q) /\ task'[q].tgid = task[q].tgid
        /\ Alive(task'[q]) => LivesOn(q)
        /\ Unrecorded(q)' \/ (task'[q] = task[q] /\ q \notin P)
  <2> SUFFICES ASSUME NEW q \in Pids, exists(q)'
               PROVE  /\ exists(q) /\ task'[q].tgid = task[q].tgid
                      /\ Alive(task'[q]) => LivesOn(q)
                      /\ Unrecorded(q)' \/ (task'[q] = task[q] /\ q \notin P)
    OBVIOUS
  <2>1. CASE q \in S
    BY <1>1, <1>2, <2>1 DEF Alive, Unrecorded, InCall
  <2>2. CASE q \notin S
    <3>1. task'[q] = task[q] /\ exists(q) /\ q # ZeroPid
      BY <1>1, <2>2 DEF exists, TracerInv, KernelInv, RealPids
    <3> QED
      BY <2>2, <3>1 DEF LivesOn
  <2> QED
    BY <2>1, <2>2
<1>5. \A q \in P :
        /\ q \in Pids /\ (q = ZeroPid \/ exists(q))
        /\ ~(exists(q)' /\ Alive(task'[q]))
        /\ q = ZeroPid \/ \A m \in Pids : exists(m)' /\ task'[m].tgid = q
                                          => ~Alive(task'[m])
  <2> SUFFICES ASSUME NEW q \in P
               PROVE  /\ q \in Pids /\ (q = ZeroPid \/ exists(q))
                      /\ ~(exists(q)' /\ Alive(task'[q]))
                      /\ q = ZeroPid \/ \A m \in Pids : exists(m)' /\ task'[m].tgid = q
                                                        => ~Alive(task'[m])
    OBVIOUS
  <2>1. q \in Pids /\ (q = ZeroPid \/ exists(q))
    BY TracerAssumption
  <2>2. ~(exists(q)' /\ Alive(task'[q]))
    <3>1. CASE q \in S
      BY <1>1, <1>2, <2>1, <3>1 DEF Alive
    <3>2. CASE q = ZeroPid
      BY <1>4, <2>1, <3>2 DEF TracerInv, KernelInv, RealPids
    <3> QED
      BY <3>1, <3>2
  <2>3. ASSUME q # ZeroPid, NEW m \in Pids, exists(m)', task'[m].tgid = q
        PROVE  ~Alive(task'[m])
    <3>1. m \in Group(q)
      BY <1>4, <2>3 DEF Group
    <3> QED
      BY <1>1, <1>2, <2>3, <3>1 DEF Alive
  <2> QED
    BY <2>1, <2>2, <2>3
<1>6. Keeps(P)
  BY <1>3, <1>4, <1>5 DEF Keeps
<1> QED
  BY <1>6, FlagsFrame

LEMMA FlagsExecBegin ==
  ASSUME TracerInv, Leaders', CallsInv, FlagsInv,
         UNCHANGED <<tracked_pids, from_shell_pids, allow_pids>>,
         NEW p \in Pids, ExecBegin(p)
  PROVE  FlagsInv'
<1>0. PICK others : others = Group(task[p].tgid) \ {p}
  OBVIOUS
<1>1. /\ exists(p) /\ task[p] \in Task /\ task[p].stop = "none" /\ task[p].at = "kernel"
      /\ \A q \in Pids : task'[q] = IF q \in others THEN Corpse(q)
                                    ELSE IF q = p THEN [task[p] EXCEPT !.at = "execing"]
                                    ELSE task[q]
      /\ \A q \in others : q \in Pids /\ exists(q) /\ q # p
  BY <1>0 DEF ExecBegin, Running, TracerInv, KernelInv, Tasks, Fit, Group
<1>2. \A q \in Pids : Corpse(q).at = "user" /\ Corpse(q).stop = "exited"
                      /\ Corpse(q).tgid = task[q].tgid
  BY DEF Corpse, NewTask
<1> DEFINE t == task'[p]
<1>3. /\ t.tgid = task[p].tgid /\ t.at = "execing" /\ t.stop = "none"
      /\ t.told = task[p].told /\ t.shell = task[p].shell /\ t.allowed = task[p].allowed
      /\ t.recorded = task[p].recorded
  BY <1>1 DEF Task
<1>4. Unrecorded(p) /\ (has_event(p)' <=> has_event(p))
  BY <1>1 DEF FlagsInv, has_event
<1>5. Unrecorded(p)'
  BY <1>1, <1>3, <1>4 DEF Unrecorded, InCall
<1>6. \A q \in Pids : exists(q)' =>
        /\ exists(q) /\ task'[q].tgid = task[q].tgid
        /\ Alive(task'[q]) => LivesOn(q)
        /\ Unrecorded(q)' \/ task'[q] = task[q]
  <2> SUFFICES ASSUME NEW q \in Pids, exists(q)'
               PROVE  /\ exists(q) /\ task'[q].tgid = task[q].tgid
                      /\ Alive(task'[q]) => LivesOn(q)
                      /\ Unrecorded(q)' \/ task'[q] = task[q]
    OBVIOUS
  <2>1. CASE q \in others
    BY <1>1, <1>2, <2>1 DEF Alive, Unrecorded, InCall
  <2>2. CASE q = p
    BY <1>1, <1>3, <1>5, <2>2 DEF LivesOn, Alive
  <2>3. CASE q \notin others /\ q # p
    BY <1>1, <2>3 DEF exists, LivesOn
  <2> QED
    BY <2>1, <2>2, <2>3
<1>7. \A o, q \in Pids : Creates(o, q)' => Creates(o, q)
  <2> SUFFICES ASSUME NEW o \in Pids, NEW q \in Pids, Creates(o, q)'
               PROVE  Creates(o, q)
    OBVIOUS
  <2>1. o \notin others /\ o # p
    BY <1>1, <1>2, <1>3 DEF Creates
  <2> QED
    BY <1>1, <2>1 DEF Creates, exists
<1>8. Keeps({})
  BY <1>6, <1>7 DEF Keeps, SameFlags
<1> QED
  BY <1>8, FlagsFrame

LEMMA FlagsExited ==
  ASSUME TracerInv, Leaders', CallsInv, FlagsInv, NEW p \in Pids, wait_exited(p)
  PROVE  FlagsInv'
<1>0. Waited(p) /\ task[p].stop = "exited"
  BY WaitShape DEF wait_exited
<1>1. /\ exists(p) /\ ~exists(p)' /\ \A q \in Pids \ {p} : task'[q] = task[q]
      /\ \A q \in Pids \ {p} : SameFlags(q) /\ tracked_pids'[q] = tracked_pids[q]
      /\ p \notin from_shell_pids' \cup allow_pids'
  BY <1>0 DEF Waited, wait_exited, remove_tracked_pid, SameFlags, exists
<1>2. \A q \in Pids : exists(q)' => exists(q) /\ q # p /\ task'[q] = task[q]
  BY <1>1 DEF exists
<1>3. Keeps({p})
  BY <1>1, <1>2 DEF Keeps, LivesOn, Creates, NoNewFlags, Alive
<1> QED
  BY <1>3, FlagsFrame

\* A round that lets p run on: the flags of p change only if the engine was
\* not told of it, and no stale record is left for a call it makes.
LEMMA FlagsGoesOn ==
  ASSUME TracerInv, Leaders', CallsInv, FlagsInv, NEW p \in Pids, Waited(p),
         NEW t, GoesOn(p, t), task[p].stop # "exec",
         \A q \in Pids \ {p} : SameFlags(q) /\ tracked_pids'[q] = tracked_pids[q],
         is_tracked(p)' <=> is_tracked(p),
         SameFlags(p) \/ (is_tracked(p) /\ ~task[p].told),
         task[p].stop = "entry" => t.recorded \/ ~has_event(p)'
  PROVE  FlagsInv'
<1>1. /\ Resume(p) \in Task /\ Resume(p).tgid = task[p].tgid /\ Resume(p).stop = "none"
      /\ Resume(p).at = task[p].at /\ Resume(p).told = task[p].told
      /\ Resume(p).shell = task[p].shell /\ Resume(p).allowed = task[p].allowed
  BY ResumeFields DEF Waited
<1>2. /\ t \in Task /\ t.tgid = task[p].tgid /\ t.stop = "none" /\ t.at = task[p].at
      /\ t.told = task[p].told /\ t.shell = task[p].shell /\ t.allowed = task[p].allowed
  <2>0. exists(p)
    BY DEF Waited
  <2>1. CASE t \in {Resume(p), Judge(p)}
    BY <2>0, <2>1, ResumeFields
  <2>2. CASE t = [Resume(p) EXCEPT !.recorded = TRUE]
    <3> HIDE DEF Resume
    <3> QED
      BY <1>1, <2>2 DEF Task
  <2> QED
    BY <2>1, <2>2 DEF GoesOn
<1>3. /\ exists(p) /\ exists(p)' /\ task'[p] = t
      /\ \A q \in Pids \ {p} : task'[q] = task[q]
      /\ task[p].stop \in {"entry", "exit", "sigstop"}
  BY <1>2, TaskAssumption DEF Waited, GoesOn, exists
<1>4. Unrecorded(p)'
  <2>1. CASE task[p].stop = "entry"
    BY <1>3, <2>1 DEF Unrecorded
  <2>2. CASE task[p].stop # "entry"
    BY <1>2, <1>3, <2>2 DEF Unrecorded, InCall, Waited, Placed
  <2> QED
    BY <2>1, <2>2
<1>5. KeepsOne(p)
  BY <1>2, <1>3, <1>4 DEF KeepsOne, Alive
<1> QED
  BY <1>5, FlagsOne

LEMMA FlagsUntracked ==
  ASSUME TracerInv, Leaders', CallsInv, FlagsInv, NEW p \in Pids,
         wait_untracked(p) \/ wait_sigstop(p)
  PROVE  FlagsInv'
<1>1. ASSUME NEW stops, stops \subseteq {"entry", "exit", "sigstop"}, Wait(p, stops),
             nothing, task' = [task EXCEPT ![p] = Resume(p)], lost' = lost,
             task[p].stop = "entry" => ~is_tracked(p)
      PROVE  FlagsInv'
  <2>1. Waited(p) /\ task[p].stop \in stops
    BY <1>1, WaitShape
  <2>2. /\ \A q \in Pids : SameFlags(q)
        /\ tracked_pids' = tracked_pids
        /\ task[p].stop = "entry" => ~has_event(p)'
    BY <1>1 DEF nothing, SameFlags, is_tracked, has_event
  <2>3. GoesOn(p, Resume(p))
    BY <1>1, <2>1, <2>2 DEF GoesOn, is_tracked
  <2>4. is_tracked(p)' <=> is_tracked(p)
    BY <2>2 DEF is_tracked
  <2> QED
    BY <1>1, <2>1, <2>2, <2>3, <2>4, FlagsGoesOn
<1>2. CASE wait_untracked(p)
  BY <1>1, <1>2 DEF wait_untracked
<1>3. CASE wait_sigstop(p)
  <2>1. Waited(p) /\ task[p].stop = "sigstop"
    <3>1. Wait(p, {"sigstop"})
      BY <1>3 DEF wait_sigstop
    <3> QED
      BY <3>1, WaitShape
  <2> QED
    BY <1>1, <1>3, <2>1 DEF wait_sigstop
<1> QED
  BY <1>2, <1>3

LEMMA FlagsEntry ==
  ASSUME TracerInv, Leaders', CallsInv, FlagsInv, NEW p \in Pids, wait_entry(p)
  PROVE  FlagsInv'
<1>0. Waited(p) /\ task[p].stop = "entry"
  BY WaitShape DEF wait_entry
<1>1. is_tracked(p) /\ task[p].call \in Calls /\ handle_syscall_entry(p, task[p].call)
  BY <1>0 DEF Waited, wait_entry, TracerInv, KernelInv, Tasks, Fit
<1>2. /\ tracked_pids' = [tracked_pids EXCEPT ![p] = tracked_pids'[p]]
      /\ tracked_pids'[p] \in SyscallEvent
      /\ UNCHANGED <<from_shell_pids, allow_pids>>
  BY <1>1, EntryEffect DEF TracerInv
<1>3. is_tracked(p)' /\ \A q \in Pids \ {p} : tracked_pids'[q] = tracked_pids[q]
  BY <1>0, <1>2, CallsAssumption DEF is_tracked, Waited
<1>4. \A q \in Pids : SameFlags(q)
  BY <1>2 DEF SameFlags
<1> DEFINE t == [Resume(p) EXCEPT !.recorded = TRUE]
<1>5. GoesOn(p, t)
  BY <1>0, <1>1, <1>3 DEF GoesOn, wait_entry, is_tracked
<1>6. t.recorded
  BY <1>0, ResumeFields DEF Waited, Task
<1> HIDE DEF t
<1> QED
  BY <1>0, <1>1, <1>3, <1>4, <1>5, <1>6, FlagsGoesOn

\* The record a call leaves when it returns is its own, and sets no flag that
\* its execve has not set.
LEMMA ExitFlags ==
  ASSUME TracerInv, CallsInv, FlagsInv, NEW p \in Pids, wait_exit(p)
  PROVE  /\ \A q \in Pids \ {p} : SameFlags(q) /\ tracked_pids'[q] = tracked_pids[q]
         /\ is_tracked(p)' <=> is_tracked(p)
         /\ SameFlags(p) \/ (is_tracked(p) /\ ~task[p].told)
<1>0. Waited(p) /\ task[p].stop = "exit" /\ is_tracked(p)
  BY WaitShape DEF wait_exit
<1>1. handle_syscall_exit(p, task[p].ret) /\ task[p].ret \in Retvals
  BY <1>0 DEF wait_exit, Waited
<1>2. CASE ~has_event(p) /\ UNCHANGED <<tracked_pids, from_shell_pids, allow_pids>>
  BY <1>2 DEF SameFlags, is_tracked
<1>3. CASE /\ has_event(p)
           /\ tracked_pids' = [tracked_pids EXCEPT ![p] = seen'] /\ seen' \in SyscallEvent
           /\ from_shell_pids' = from_shell_pids
                \cup Shells(tracked_pids[p].pid, tracked_pids[p].call, task[p].ret)
           /\ allow_pids' = allow_pids
                \cup Allows(tracked_pids[p].pid, tracked_pids[p].call, task[p].ret)
  <2>1. tracked_pids[p].pid = p
    BY <1>3 DEF CallsInv, OwnRecords
  <2>2. \A q \in Pids \ {p} : SameFlags(q) /\ tracked_pids'[q] = tracked_pids[q]
    BY <1>0, <1>3, <2>1 DEF SameFlags, Shells, Allows, Waited
  <2>3. is_tracked(p)'
    BY <1>0, <1>3, CallsAssumption DEF is_tracked, Waited
  <2>4. ASSUME task[p].told
        PROVE  SameFlags(p)
    <3>1. InCall(task[p]) /\ CallInv(p) /\ Unrecorded(p)
      BY <1>0 DEF InCall, Waited, FlagsInv
    <3>2. task[p].recorded
      BY <1>0, <1>3, <2>4, <3>1 DEF Unrecorded
    <3>3. ~AfterExec(task[p])
      BY <1>3, <3>1, <3>2 DEF CallInv
    <3>4. tracked_pids[p].call = task[p].call
      BY <1>0, <3>1, <3>2, <3>3 DEF CallInv, Caller, OpenRecord
    <3>5. ~(tracked_pids[p].call \in Execves /\ task[p].ret = 0)
      BY <1>0, <3>3, <3>4 DEF AfterExec
    <3> QED
      BY <1>3, <3>5 DEF SameFlags, Shells, Allows
  <2> QED
    BY <1>0, <2>2, <2>3, <2>4
<1> QED
  BY <1>1, <1>2, <1>3, ExitEffect DEF TracerInv

LEMMA FlagsReturned ==
  ASSUME TracerInv, Leaders', CallsInv, FlagsInv, NEW p \in Pids, wait_exit(p)
  PROVE  FlagsInv'
<1>0. Waited(p) /\ task[p].stop = "exit"
  BY WaitShape DEF wait_exit
<1>1. /\ \A q \in Pids \ {p} : SameFlags(q) /\ tracked_pids'[q] = tracked_pids[q]
      /\ is_tracked(p)' <=> is_tracked(p)
      /\ SameFlags(p) \/ (is_tracked(p) /\ ~task[p].told)
  BY ExitFlags
<1>2. \A q \in Pids : is_tracked(q) => is_tracked(q)'
  BY <1>1 DEF is_tracked
<1>3. GoesOn(p, Judge(p))
  BY <1>0, <1>2 DEF GoesOn, wait_exit
<1> QED
  BY <1>0, <1>1, <1>3, FlagsGoesOn

LEMMA FlagsKilled ==
  ASSUME TracerInv, Leaders', CallsInv, FlagsInv, NEW p \in Pids, wait_killed(p)
  PROVE  FlagsInv'
<1>0. Waited(p) /\ ZeroPid \in Pids /\ p # ZeroPid
  BY WaitShape, TracerAssumption DEF wait_killed, Waited
<1>1. PICK S : S = Group(task[p].tgid) /\ Kill(S)
  BY DEF wait_killed
<1>2. \A q \in S : q \in Pids /\ exists(q)
  BY <1>1 DEF Group
<1>3. CASE task[p].stop = "fork" /\ add_tracked_pid(ZeroPid, p)
  <2>1. /\ \A q \in Pids \ {ZeroPid} : SameFlags(q) /\ tracked_pids'[q] = tracked_pids[q]
        /\ is_tracked(ZeroPid)'
    BY <1>0, <1>3, CallsAssumption
    DEF add_tracked_pid, Heirs, SameFlags, is_tracked, Waited
  <2>2. KillsOnly(S, {ZeroPid})
    BY <1>1, <1>2, <2>1 DEF KillsOnly
  <2> QED
    BY <2>2, FlagsKill
<1>4. CASE task[p].stop = "exec" /\ handle_exec_stop(p, ZeroPid)
  <2>1. p \in S /\ Group(p) = S
    BY <1>0, <1>1, <1>4 DEF Waited, Placed, Group
  <2>2. /\ \A q \in Pids \ {p, ZeroPid} :
             SameFlags(q) /\ tracked_pids'[q] = tracked_pids[q]
        /\ \A q \in {p, ZeroPid} : q \in from_shell_pids' \cup allow_pids' => is_tracked(q)'
    <3>1. ASSUME in_execve(p), tracked_pids' = [tracked_pids EXCEPT ![p] = NoEvent],
                 from_shell_pids' = from_shell_pids \cup Shells(p, tracked_pids[p].call, 0),
                 allow_pids' = allow_pids \cup Allows(p, tracked_pids[p].call, 0)
          PROVE  /\ \A q \in Pids \ {p, ZeroPid} :
                      SameFlags(q) /\ tracked_pids'[q] = tracked_pids[q]
                 /\ \A q \in {p, ZeroPid} :
                      q \in from_shell_pids' \cup allow_pids' => is_tracked(q)'
      BY <1>0, <3>1, CallsAssumption
      DEF SameFlags, Shells, Allows, Waited, is_tracked, FlagsInv, FlagsTracked
    <3>2. ASSUME tracked_pids' = [tracked_pids EXCEPT ![p] = NoEvent, ![ZeroPid] = Untracked],
                 from_shell_pids' = Renamed(from_shell_pids, ZeroPid, p)
                                      \cup Shells(p, tracked_pids[ZeroPid].call, 0),
                 allow_pids' = Renamed(allow_pids, ZeroPid, p)
                                 \cup Allows(p, tracked_pids[ZeroPid].call, 0)
          PROVE  /\ \A q \in Pids \ {p, ZeroPid} :
                      SameFlags(q) /\ tracked_pids'[q] = tracked_pids[q]
                 /\ \A q \in {p, ZeroPid} :
                      q \in from_shell_pids' \cup allow_pids' => is_tracked(q)'
      BY <1>0, <3>2, CallsAssumption
      DEF SameFlags, Shells, Allows, Renamed, Heirs, Waited, is_tracked
    <3>3. ASSUME UNCHANGED <<tracked_pids, from_shell_pids, allow_pids>>
          PROVE  /\ \A q \in Pids \ {p, ZeroPid} :
                      SameFlags(q) /\ tracked_pids'[q] = tracked_pids[q]
                 /\ \A q \in {p, ZeroPid} :
                      q \in from_shell_pids' \cup allow_pids' => is_tracked(q)'
      BY <1>0, <3>3 DEF SameFlags, is_tracked, FlagsInv, FlagsTracked
    <3> QED
      BY <1>0, <1>4, <3>1, <3>2, <3>3, ExecEffect DEF TracerInv
  <2>3. KillsOnly(S, {p, ZeroPid})
    BY <1>1, <1>2, <2>1, <2>2 DEF KillsOnly
  <2> QED
    BY <2>3, FlagsKill
<1> QED
  BY <1>3, <1>4 DEF wait_killed

LEMMA FlagsSpawn ==
  ASSUME ~ReuseNamed, TracerInv, CallsInv, FlagsInv,
         UNCHANGED <<tracked_pids, from_shell_pids, allow_pids>>,
         NEW p \in Pids, NEW q \in Pids, Spawn(p, q)
  PROVE  FlagsInv'
<1>0. Spawned(p, q)
  BY SpawnShape
<1>1. /\ exists(p) /\ task[p].stop = "none" /\ task[p].at = "kernel"
      /\ ~exists(q) /\ q # p
      /\ \A o \in Pids : exists(o) /\ task[o].stop = "fork" => task[o].msg # q
      /\ task'[q].tgid = (IF task[p].call \in Threads THEN task[p].tgid ELSE q)
      /\ task'[q].at = "user" /\ task'[q].stop = "sigstop"
      /\ task'[q].shell = task[p].shell /\ task'[q].allowed = task[p].allowed
      /\ task'[q].told = (task[p].told /\ ~is_tracked(q))
      /\ \A o \in Pids \ {p, q} : task'[o] = task[o]
      /\ \A o \in Pids : exists(o)' <=> exists(o) \/ o = q
  BY <1>0 DEF Spawned
<1>2. /\ task'[p].tgid = task[p].tgid /\ task'[p].at = "returning"
      /\ task'[p].stop = "fork" /\ task'[p].msg = q /\ task'[p].told = task[p].told
      /\ task'[p].shell = task[p].shell /\ task'[p].allowed = task[p].allowed
      /\ task'[p].recorded = task[p].recorded
  BY <1>0 DEF Spawned, Task
<1>3. \A o, n \in Pids : Creates(o, n)' <=> Creates(o, n) \/ (o = p /\ n = q)
  BY <1>1, <1>2 DEF Creates
<1>4. \A o \in Pids : exists(o) => task[o].tgid \in Pids /\ exists(task[o].tgid)
  BY DEF TracerInv, KernelInv, Tasks, Leaders, Fit, Task
<1>5. \A n \in Pids : is_tracked(n)' <=> is_tracked(n)
  BY DEF is_tracked
<1>6. FlagsTracked'
  BY <1>5 DEF FlagsInv, FlagsTracked
<1>7. \A n \in Pids : exists(n)' => Unrecorded(n)'
  <2>1. Unrecorded(p)'
    BY <1>1, <1>2 DEF FlagsInv, Unrecorded, InCall, has_event
  <2>2. Unrecorded(q)'
    BY <1>1 DEF Unrecorded, InCall
  <2>3. \A n \in Pids \ {p, q} : exists(n)' => Unrecorded(n)'
    BY <1>1 DEF FlagsInv, Unrecorded, has_event
  <2> QED
    BY <2>1, <2>2, <2>3
<1>8. ThreadsFirst'
  <2> SUFFICES ASSUME NEW g \in Pids, NEW m \in Pids, Pending(g)', exists(m)',
                      Alive(task'[m]), g \in {m, task'[m].tgid},
                      is_tracked(m) \/ task'[m].stop = "exec"
               PROVE  ~task'[m].told
    BY <1>5 DEF ThreadsFirst, Alive
  <2>1. CASE m = q
    BY <1>1, <2>1
  <2>2. CASE m # q
    <3>1. /\ exists(m) /\ task'[m].tgid = task[m].tgid /\ task'[m].told = task[m].told
          /\ Alive(task[m]) /\ (is_tracked(m) \/ task[m].stop = "exec")
      BY <1>1, <1>2, <2>2 DEF Alive
    <3>2. g # q
      BY <1>1, <1>4, <2>2, <3>1
    <3>3. Pending(g)
      BY <1>3, <3>2 DEF Pending
    <3> QED
      BY <3>1, <3>3 DEF FlagsInv, ThreadsFirst
  <2> QED
    BY <2>1, <2>2
<1>9. Heritage'
  <2> SUFFICES ASSUME NEW o \in Pids, NEW n \in Pids, Creates(o, n)', exists(n)'
               PROVE  /\ task'[n].tgid \in {n, task'[o].tgid}
                      /\ Alive(task'[n]) /\ task'[n].told /\ task'[o].told
                         => /\ task'[n].shell = task'[o].shell
                            /\ task'[n].allowed = task'[o].allowed
    BY DEF Heritage, Alive
  <2>1. CASE n = q
    <3>1. ~Creates(o, q)
      BY <1>1 DEF Creates
    <3>2. o = p
      BY <1>3, <2>1, <3>1
    <3> QED
      BY <1>1, <1>2, <2>1, <3>2
  <2>2. CASE n # q
    <3>1. Creates(o, n) /\ exists(o) /\ o # p /\ o # q /\ exists(n)
      BY <1>1, <1>3, <2>2 DEF Creates
    <3>2. /\ task[n].tgid \in {n, task[o].tgid}
          /\ Alive(task[n]) /\ task[n].told /\ task[o].told
             => task[n].shell = task[o].shell /\ task[n].allowed = task[o].allowed
      BY <3>1 DEF FlagsInv, Heritage
    <3>3. task'[o] = task[o]
      BY <1>1, <3>1
    <3>4. /\ task'[n].tgid = task[n].tgid /\ task'[n].told = task[n].told
          /\ task'[n].shell = task[n].shell /\ task'[n].allowed = task[n].allowed
          /\ (Alive(task'[n]) => Alive(task[n]))
      BY <1>1, <1>2, <2>2 DEF Alive
    <3> QED
      BY <3>2, <3>3, <3>4
  <2> QED
    BY <2>1, <2>2
<1>10. ASSUME NEW m \in Pids, exists(m)
       PROVE  /\ m # q /\ task'[m].tgid = task[m].tgid /\ task'[m].told = task[m].told
              /\ task'[m].shell = task[m].shell /\ task'[m].allowed = task[m].allowed
              /\ (Alive(task'[m]) <=> Alive(task[m]))
              /\ (task'[m].stop = "exec" <=> task[m].stop = "exec")
  BY <1>1, <1>2, <1>10 DEF Alive
<1>t. \A m \in Pids : exists(m)' /\ is_tracked(m) /\ task'[m].told => exists(m)
  BY <1>1
<1>11. LeaderTold'
  <2> SUFFICES ASSUME NEW m \in Pids, exists(m)', Alive(task'[m]), is_tracked(m),
                      task'[m].told, Alive(task'[task'[m].tgid])
               PROVE  task'[task'[m].tgid].told
    BY <1>5 DEF LeaderTold, Alive
  <2>1. exists(m) /\ Alive(task[m]) /\ task[m].told /\ task'[m].tgid = task[m].tgid
    BY <1>t, <1>10
  <2>2. PICK g \in Pids : g = task[m].tgid /\ exists(g)
    BY <1>4, <2>1
  <2>3. task'[g].told = task[g].told /\ (Alive(task'[g]) => Alive(task[g]))
    BY <1>1, <1>2, <2>2 DEF Alive
  <2> QED
    BY <2>1, <2>2, <2>3 DEF FlagsInv, LeaderTold
<1>12. ASSUME NEW n \in Pids
       PROVE  ExecFlags(n)'
  <2>1. CASE exists(n)' /\ task'[n].stop = "exec"
    <3>1. exists(n) /\ task'[n] = task[n]
      BY <1>1, <1>2, <2>1
    <3> QED
      BY <3>1 DEF FlagsInv, ExecFlags, FlagsWithin, in_execve, has_event
  <2> QED
    BY <2>1 DEF ExecFlags
<1>13. ASSUME NEW m \in Pids
       PROVE  TaskFlags(m)'
  <2> SUFFICES ASSUME exists(m)', Alive(task'[m]), is_tracked(m), task'[m].told,
                      task'[m].stop # "exec"
               PROVE  FlagsAre(m, task[m])' /\ FlagsWithin(task[m].tgid, task[m])'
    BY <1>5 DEF TaskFlags, Alive
  <2>1. exists(m)
    BY <1>t
  <2>2. FlagsAre(m, task[m]) /\ FlagsWithin(task[m].tgid, task[m])
    BY <1>10, <2>1 DEF FlagsInv, TaskFlags
  <2> QED
    BY <1>10, <2>1, <2>2 DEF FlagsAre, FlagsWithin
<1> QED
  BY <1>6, <1>7, <1>8, <1>9, <1>11, <1>12, <1>13 DEF FlagsInv

LEMMA FlagsExecDone ==
  ASSUME TracerInv, CallsInv, FlagsInv,
         UNCHANGED <<tracked_pids, from_shell_pids, allow_pids>>,
         NEW p \in Pids, ExecDone(p)
  PROVE  FlagsInv'
<1>0. PICK leader : leader = task[p].tgid /\ Executed(p, leader)
  BY ExecShape
<1>1. /\ exists(p) /\ task[p].stop = "none" /\ task[p].at = "execing"
      /\ leader \in Pids /\ exists(leader) /\ task[leader].tgid = leader
      /\ task'[leader].tgid = leader /\ task'[leader].call = task[p].call
      /\ task'[leader].stop = "exec" /\ task'[leader].msg = p
      /\ task'[leader].recorded = task[p].recorded
      /\ task'[leader].shell = (task[p].shell \/ ExecPath[task[p].call] \in ShellPaths)
      /\ task'[leader].allowed =
           (task[p].allowed \/ ExecPath[task[p].call] \in allow_execve_paths)
      /\ task'[leader].told =
           (task[p].told /\ task[p].recorded /\ (leader = p \/ ~in_execve(leader)))
      /\ \A o \in Pids \ {p, leader} : task'[o] = task[o]
      /\ \A o \in Pids : exists(o)' <=> exists(o) /\ (o = leader \/ o # p)
  BY <1>0 DEF Executed
<1>2. \A o \in Pids : exists(o)' /\ o # leader =>
        exists(o) /\ task'[o] = task[o] /\ task[o].tgid # leader
  <2>1. Group(leader) \subseteq {p, leader}
    BY <1>0 DEF Executed
  <2> QED
    BY <1>1, <2>1 DEF Group
<1>3. \A o, n \in Pids : Creates(o, n)' => Creates(o, n) /\ task'[o] = task[o]
  <2> SUFFICES ASSUME NEW o \in Pids, NEW n \in Pids, Creates(o, n)'
               PROVE  Creates(o, n) /\ task'[o] = task[o]
    OBVIOUS
  <2>1. o # leader
    BY <1>1 DEF Creates
  <2> QED
    BY <1>2, <2>1 DEF Creates
<1>4. \A n \in Pids : is_tracked(n)' <=> is_tracked(n)
  BY DEF is_tracked
<1>5. ASSUME task'[leader].told
      PROVE  /\ task[p].told /\ task[p].recorded /\ (leader = p \/ ~in_execve(leader))
             /\ is_tracked(p) /\ Alive(task[p])
             /\ FlagsAre(p, task[p]) /\ FlagsWithin(leader, task[p])
  <2>1. task[p].told /\ task[p].recorded /\ (leader = p \/ ~in_execve(leader))
    BY <1>1, <1>5
  <2>2. CallInv(p) /\ InCall(task[p]) /\ ~AfterExec(task[p]) /\ Caller(p) = p
    BY <1>1 DEF CallsInv, JudgedCalls, InCall, AfterExec, Caller
  <2>3. is_tracked(p)
    BY <2>1, <2>2 DEF CallInv, OpenRecord, has_event, is_tracked
  <2>4. Alive(task[p])
    BY <1>1 DEF Alive
  <2> QED
    BY <1>0, <1>1, <2>1, <2>3, <2>4 DEF FlagsInv, TaskFlags
<1>6. FlagsTracked'
  BY <1>4 DEF FlagsInv, FlagsTracked
<1>7. \A n \in Pids : exists(n)' => Unrecorded(n)'
  <2>1. Unrecorded(leader)'
    BY <1>1 DEF Unrecorded
  <2> QED
    BY <1>2, <2>1 DEF FlagsInv, Unrecorded, has_event
<1>8. ThreadsFirst'
  <2> SUFFICES ASSUME NEW g \in Pids, NEW m \in Pids, Pending(g)', exists(m)',
                      Alive(task'[m]), g \in {m, task'[m].tgid},
                      is_tracked(m) \/ task'[m].stop = "exec", task'[m].told
               PROVE  FALSE
    BY <1>4 DEF ThreadsFirst, Alive
  <2>1. Pending(g)
    BY <1>3 DEF Pending
  <2>2. CASE m = leader
    BY <1>0, <1>1, <1>5, <2>1, <2>2 DEF FlagsInv, ThreadsFirst
  <2>3. CASE m # leader
    BY <1>2, <2>1, <2>3 DEF FlagsInv, ThreadsFirst
  <2> QED
    BY <2>2, <2>3
<1>9. Heritage'
  <2> SUFFICES ASSUME NEW o \in Pids, NEW n \in Pids, Creates(o, n)', exists(n)'
               PROVE  /\ task'[n].tgid \in {n, task'[o].tgid}
                      /\ Alive(task'[n]) /\ task'[n].told /\ task'[o].told
                         => /\ task'[n].shell = task'[o].shell
                            /\ task'[n].allowed = task'[o].allowed
    BY DEF Heritage, Alive
  <2>1. CASE n = leader
    <3>1. Pending(leader)' /\ Alive(task'[leader])
      BY <1>1, <2>1 DEF Pending, Alive
    <3>2. ~task'[leader].told
      BY <1>1, <1>8, <3>1 DEF ThreadsFirst, Alive
    <3> QED
      BY <1>1, <2>1, <3>2
  <2>2. CASE n # leader
    <3>1. Creates(o, n) /\ task'[o] = task[o] /\ exists(n) /\ task'[n] = task[n]
      BY <1>2, <1>3, <2>2
    <3>2. /\ task[n].tgid \in {n, task[o].tgid}
          /\ Alive(task[n]) /\ task[n].told /\ task[o].told
             => task[n].shell = task[o].shell /\ task[n].allowed = task[o].allowed
      BY <3>1 DEF FlagsInv, Heritage
    <3> QED
      BY <3>1, <3>2
  <2> QED
    BY <2>1, <2>2
<1>10. LeaderTold'
  <2> SUFFICES ASSUME NEW m \in Pids, exists(m)', Alive(task'[m]), is_tracked(m),
                      task'[m].told, Alive(task'[task'[m].tgid])
               PROVE  task'[task'[m].tgid].told
    BY <1>4 DEF LeaderTold, Alive
  <2>1. CASE m = leader
    BY <1>1, <2>1
  <2>2. CASE m # leader
    <3>1. PICK g \in Pids : g = task[m].tgid /\ exists(g) /\ task[g].tgid = g
      BY <1>2, <2>2 DEF TracerInv, KernelInv, Tasks, Leaders, Fit, Task
    <3>2. g # leader /\ g # p
      BY <1>0, <1>2, <2>2, <3>1
    <3> QED
      BY <1>1, <1>2, <2>2, <3>1, <3>2 DEF FlagsInv, LeaderTold
  <2> QED
    BY <2>1, <2>2
<1>11. ASSUME NEW n \in Pids
       PROVE  ExecFlags(n)'
  <2>1. CASE exists(n)' /\ n # leader
    BY <1>2, <2>1 DEF FlagsInv, ExecFlags, FlagsWithin, in_execve, has_event
  <2>2. CASE n = leader
    <3> SUFFICES ASSUME task'[leader].told
                 PROVE  ExecFlags(leader)'
      BY <2>2 DEF ExecFlags
    <3>1. /\ task[p].recorded /\ (leader = p \/ ~in_execve(leader))
          /\ FlagsAre(p, task[p]) /\ FlagsWithin(leader, task[p])
      BY <1>5
    <3>2. /\ (p \in from_shell_pids \/ ExecPath[task[p].call] \in ShellPaths)
                <=> task'[leader].shell
          /\ (p \in allow_pids \/ ExecPath[task[p].call] \in allow_execve_paths)
                <=> task'[leader].allowed
      BY <1>1, <3>1 DEF FlagsAre
    <3>3. /\ leader \in from_shell_pids => task'[leader].shell
          /\ leader \in allow_pids => task'[leader].allowed
      BY <1>1, <3>1 DEF FlagsWithin
    <3> QED
      BY <1>1, <3>1, <3>2, <3>3 DEF ExecFlags, FlagsWithin, in_execve, has_event
  <2> QED
    BY <2>1, <2>2 DEF ExecFlags
<1>12. ASSUME NEW m \in Pids
       PROVE  TaskFlags(m)'
  <2>1. CASE exists(m)' /\ m # leader
    BY <1>2, <1>4, <2>1 DEF FlagsInv, TaskFlags, FlagsAre, FlagsWithin
  <2>2. CASE m = leader
    BY <1>1, <2>2 DEF TaskFlags
  <2> QED
    BY <2>1, <2>2 DEF TaskFlags
<1> QED
  BY <1>6, <1>7, <1>8, <1>9, <1>10, <1>11, <1>12 DEF FlagsInv

\* What the stop of an execve does to the flags: the flags of the pid the
\* thread had go to p, with those of the program it runs.
LEMMA ExecMovesFlags ==
  ASSUME TracerInv, CallsInv, FlagsInv, NEW p \in Pids, NEW old \in Pids,
         exists(p), task[p].stop = "exec", old = task[p].msg, task[p].call \in Execves,
         CallInv(p), InCall(task[p]), ~AfterExec(task[p]), handle_exec_stop(p, old)
  PROVE  /\ \A q \in Pids \ {p, old} : SameFlags(q) /\ tracked_pids'[q] = tracked_pids[q]
         /\ \A q \in {p, old} : q \in from_shell_pids' \cup allow_pids' => is_tracked(q)'
         /\ task[p].told =>
              /\ p \in from_shell_pids' <=> task[p].shell
              /\ p \in allow_pids' <=> task[p].allowed
<1>1. tracked_pids \in [Pids -> SyscallEvent \cup {Untracked, NoEvent}]
  BY DEF TracerInv, TypeInv, TypeOK
<1>2. ASSUME task[p].told
      PROVE  /\ in_execve(old) /\ tracked_pids[old].call = task[p].call
             /\ (old \in from_shell_pids \/ ExecPath[task[p].call] \in ShellPaths)
                  <=> task[p].shell
             /\ (old \in allow_pids \/ ExecPath[task[p].call] \in allow_execve_paths)
                  <=> task[p].allowed
             /\ old # p => ~in_execve(p) /\ FlagsWithin(p, task[p])
  <2>1. ExecFlags(p)
    BY DEF FlagsInv
  <2>2. task[p].recorded
    BY <1>2, <2>1 DEF ExecFlags
  <2>3. OpenRecord(old, task[p].call)
    BY <2>2 DEF CallInv, Caller
  <2>4. in_execve(old) /\ tracked_pids[old].call = task[p].call
    BY <2>3 DEF OpenRecord, in_execve
  <2> QED
    BY <1>2, <2>1, <2>4 DEF ExecFlags
<1>3. CASE /\ in_execve(p)
           /\ tracked_pids' = [tracked_pids EXCEPT ![p] = NoEvent]
           /\ from_shell_pids' = from_shell_pids \cup Shells(p, tracked_pids[p].call, 0)
           /\ allow_pids' = allow_pids \cup Allows(p, tracked_pids[p].call, 0)
  <2>1. \A q \in Pids \ {p} : SameFlags(q) /\ tracked_pids'[q] = tracked_pids[q]
    BY <1>1, <1>3 DEF SameFlags, Shells, Allows
  <2>2. is_tracked(p)'
    BY <1>1, <1>3, CallsAssumption DEF is_tracked
  <2>3. old # p /\ old \in from_shell_pids' \cup allow_pids' => is_tracked(old)'
    BY <2>1 DEF SameFlags, FlagsInv, FlagsTracked, is_tracked
  <2>4. ASSUME task[p].told
        PROVE  /\ p \in from_shell_pids' <=> task[p].shell
               /\ p \in allow_pids' <=> task[p].allowed
    BY <1>2, <1>3, <2>4 DEF Shells, Allows
  <2> QED
    BY <2>1, <2>2, <2>3, <2>4
<1>4. CASE /\ ~in_execve(p) /\ old # p /\ in_execve(old)
           /\ tracked_pids' = [tracked_pids EXCEPT ![p] = NoEvent, ![old] = Untracked]
           /\ from_shell_pids' = Renamed(from_shell_pids, old, p)
                                   \cup Shells(p, tracked_pids[old].call, 0)
           /\ allow_pids' = Renamed(allow_pids, old, p)
                              \cup Allows(p, tracked_pids[old].call, 0)
  <2>1. /\ \A q \in Pids \ {p, old} : tracked_pids'[q] = tracked_pids[q]
        /\ is_tracked(p)'
    BY <1>1, <1>4, CallsAssumption DEF is_tracked
  <2>2. /\ \A q \in Pids \ {p, old} : SameFlags(q)
        /\ old \notin from_shell_pids' \cup allow_pids'
    BY <1>4 DEF SameFlags, Shells, Allows, Renamed, Heirs
  <2>3. ASSUME task[p].told
        PROVE  /\ p \in from_shell_pids' <=> task[p].shell
               /\ p \in allow_pids' <=> task[p].allowed
    BY <1>2, <1>4, <2>3 DEF Shells, Allows, Renamed, Heirs, FlagsWithin
  <2> QED
    BY <2>1, <2>2, <2>3
<1>5. CASE /\ ~in_execve(p) /\ (old # p => ~in_execve(old))
           /\ UNCHANGED <<tracked_pids, from_shell_pids, allow_pids>>
  <2>1. ~task[p].told
    BY <1>2, <1>5
  <2> QED
    BY <1>5, <2>1 DEF SameFlags, FlagsInv, FlagsTracked, is_tracked
<1> QED
  BY <1>3, <1>4, <1>5, ExecEffect DEF TracerInv

LEMMA FlagsExec ==
  ASSUME TracerInv, CallsInv, GroupInv, FlagsInv, NEW p \in Pids, wait_exec(p)
  PROVE  FlagsInv'
<1>0. Waited(p) /\ task[p].stop = "exec"
  BY WaitShape DEF wait_exec
<1>o. PICK old \in Pids : old = task[p].msg
  BY <1>0 DEF Waited
<1>1. /\ exists(p) /\ CallInv(p) /\ task[p].tgid = p /\ task[p].at = "returning"
      /\ task[p].call \in Execves /\ handle_exec_stop(p, old)
      /\ \A q \in Pids \ {p} : task'[q] = task[q]
      /\ task'[p] = Judge(p)
  BY <1>0, <1>o DEF Waited, Placed, wait_exec
<1>2. InCall(task[p]) /\ ~AfterExec(task[p])
  BY <1>0, <1>1 DEF InCall, AfterExec
<1>3. /\ \A q \in Pids \ {p, old} : SameFlags(q) /\ tracked_pids'[q] = tracked_pids[q]
      /\ \A q \in {p, old} : q \in from_shell_pids' \cup allow_pids' => is_tracked(q)'
      /\ task[p].told => /\ p \in from_shell_pids' <=> task[p].shell
                         /\ p \in allow_pids' <=> task[p].allowed
  BY <1>0, <1>o, <1>1, <1>2, ExecMovesFlags
<1>4. /\ task'[p].tgid = p /\ task'[p].stop = "none" /\ task'[p].told = task[p].told
      /\ task'[p].shell = task[p].shell /\ task'[p].allowed = task[p].allowed
      /\ task'[p].recorded = task[p].recorded /\ exists(p)'
  <2>1. task'[p] \in {Resume(p), Judge(p)}
    BY <1>1
  <2> QED
    BY <1>1, <2>1, ResumeFields, TaskAssumption DEF exists
<1>5. \A q \in Pids \ {p} : exists(q)' =>
        /\ exists(q) /\ task'[q] = task[q] /\ q \notin {p, old}
        /\ task[q].tgid \in Pids \ {p, old} /\ exists(task[q].tgid)
        /\ task[q].stop = "exec" => task[q].msg \in Pids \ {p, old}
  <2> SUFFICES ASSUME NEW q \in Pids \ {p}, exists(q)
               PROVE  /\ q # old
                      /\ task[q].tgid \in Pids \ {p, old} /\ exists(task[q].tgid)
                      /\ task[q].stop = "exec" => task[q].msg \in Pids \ {p, old}
    BY <1>1 DEF exists
  <2>1. old = p \/ ~exists(old)
    BY <1>0, <1>o DEF CallsInv, GonePids, Waited
  <2>2. task[q] \in Task /\ exists(task[q].tgid)
    BY DEF TracerInv, KernelInv, Tasks, Leaders, Fit
  <2>3. task[q].tgid # p
    BY <1>0, <1>1 DEF GroupInv, ExecAlone
  <2>4. task[q].stop = "exec" => task[q].msg # p /\ task[q].msg # old
    BY <1>0, <1>1, <1>o, ForeignRecords
  <2> QED
    BY <2>1, <2>2, <2>3, <2>4 DEF Task
<1>6. \A o, n \in Pids : Creates(o, n)' => Creates(o, n) /\ o # p
  BY <1>1, <1>4 DEF Creates, exists
<1>7. FlagsTracked'
  BY <1>3 DEF FlagsInv, FlagsTracked, SameFlags, is_tracked
<1>8. \A n \in Pids : exists(n)' => Unrecorded(n)'
  <2>1. Unrecorded(p)'
    <3>1. task[p].told => task[p].recorded
      BY <1>0, <1>1 DEF FlagsInv, ExecFlags
    <3> QED
      BY <1>4, <3>1 DEF Unrecorded
  <2>2. ASSUME NEW n \in Pids \ {p}, exists(n)'
        PROVE  Unrecorded(n)'
    BY <1>3, <1>5, <2>2 DEF FlagsInv, Unrecorded, has_event
  <2> QED
    BY <2>1, <2>2
<1>9. ThreadsFirst'
  <2> SUFFICES ASSUME NEW g \in Pids, NEW m \in Pids, Pending(g)', exists(m)',
                      Alive(task'[m]), g \in {m, task'[m].tgid},
                      is_tracked(m)' \/ task'[m].stop = "exec", task'[m].told
               PROVE  FALSE
    BY DEF ThreadsFirst, Alive
  <2>1. Pending(g)
    BY <1>6 DEF Pending
  <2>2. CASE m = p
    BY <1>0, <1>1, <1>4, <2>1, <2>2 DEF FlagsInv, ThreadsFirst, Alive
  <2>3. CASE m # p
    <3>1. is_tracked(m)' <=> is_tracked(m)
      BY <1>3, <1>5, <2>3 DEF is_tracked
    <3> QED
      BY <1>5, <2>1, <2>3, <3>1 DEF FlagsInv, ThreadsFirst
  <2> QED
    BY <2>2, <2>3
<1>10. Heritage'
  <2> SUFFICES ASSUME NEW o \in Pids, NEW n \in Pids, Creates(o, n)', exists(n)'
               PROVE  /\ task'[n].tgid \in {n, task'[o].tgid}
                      /\ Alive(task'[n]) /\ task'[n].told /\ task'[o].told
                         => /\ task'[n].shell = task'[o].shell
                            /\ task'[n].allowed = task'[o].allowed
    BY DEF Heritage, Alive
  <2>1. /\ Creates(o, n) /\ task'[o] = task[o] /\ exists(n)
        /\ task'[n].tgid = task[n].tgid /\ task'[n].told = task[n].told
        /\ task'[n].shell = task[n].shell /\ task'[n].allowed = task[n].allowed
        /\ Alive(task'[n]) => Alive(task[n])
    BY <1>0, <1>1, <1>4, <1>5, <1>6 DEF Alive
  <2>2. /\ task[n].tgid \in {n, task[o].tgid}
        /\ Alive(task[n]) /\ task[n].told /\ task[o].told
           => task[n].shell = task[o].shell /\ task[n].allowed = task[o].allowed
    BY <2>1 DEF FlagsInv, Heritage
  <2> QED
    BY <2>1, <2>2
<1>11. LeaderTold'
  <2> SUFFICES ASSUME NEW m \in Pids, exists(m)', Alive(task'[m]), is_tracked(m)',
                      task'[m].told, Alive(task'[task'[m].tgid])
               PROVE  task'[task'[m].tgid].told
    BY DEF LeaderTold, Alive
  <2>1. CASE m = p
    BY <1>4, <2>1
  <2>2. CASE m # p
    <3>1. /\ exists(m) /\ task'[m] = task[m] /\ task[m].tgid \in Pids \ {p}
          /\ (is_tracked(m)' <=> is_tracked(m))
      BY <1>3, <1>5, <2>2 DEF is_tracked
    <3>2. task'[task[m].tgid] = task[task[m].tgid]
      BY <1>1, <3>1
    <3> QED
      BY <3>1, <3>2 DEF FlagsInv, LeaderTold
  <2> QED
    BY <2>1, <2>2
<1>12. ASSUME NEW n \in Pids
       PROVE  ExecFlags(n)'
  <2>1. CASE exists(n)' /\ task'[n].stop = "exec"
    <3>1. /\ n # p /\ n # old /\ exists(n) /\ task'[n] = task[n]
          /\ task[n].msg \in Pids \ {p, old}
      BY <1>4, <1>5, <2>1
    <3>2. SameFlags(n) /\ SameFlags(task[n].msg) /\ tracked_pids'[n] = tracked_pids[n]
      BY <1>3, <3>1
    <3>3. ExecFlags(n)
      BY DEF FlagsInv
    <3> QED
      BY <3>1, <3>2, <3>3 DEF ExecFlags, SameFlags, FlagsWithin, in_execve, has_event
  <2> QED
    BY <2>1 DEF ExecFlags
<1>13. ASSUME NEW m \in Pids
       PROVE  TaskFlags(m)'
  <2>1. CASE m = p
    BY <1>3, <1>4, <2>1 DEF TaskFlags, FlagsAre, FlagsWithin
  <2>2. CASE m # p /\ exists(m)'
    <3>1. /\ m # old /\ exists(m) /\ task'[m] = task[m]
          /\ task[m].tgid \in Pids \ {p, old}
      BY <1>5, <2>2
    <3>2. /\ SameFlags(m) /\ SameFlags(task[m].tgid) /\ (is_tracked(m)' <=> is_tracked(m))
      BY <1>3, <2>2, <3>1 DEF is_tracked
    <3>3. TaskFlags(m)
      BY DEF FlagsInv
    <3> QED
      BY <3>1, <3>2, <3>3 DEF TaskFlags, SameFlags, FlagsAre, FlagsWithin
  <2> QED
    BY <2>1, <2>2 DEF TaskFlags
<1> QED
  BY <1>7, <1>8, <1>9, <1>10, <1>11, <1>12, <1>13 DEF FlagsInv

LEMMA FlagsFork ==
  ASSUME TracerInv, CallsInv, FlagsInv, NEW p \in Pids, wait_fork(p)
  PROVE  FlagsInv'
<1>0. Waited(p) /\ task[p].stop = "fork"
  <2>1. Wait(p, {"fork"})
    BY DEF wait_fork
  <2> QED
    BY <2>1, WaitShape
<1>o. PICK child \in Pids : child = task[p].msg
  BY <1>0 DEF Waited
<1>1. /\ exists(p)
      /\ tracked_pids' = [tracked_pids EXCEPT ![child] = NoEvent]
      /\ from_shell_pids' = Heirs(from_shell_pids, p, child)
      /\ allow_pids' = Heirs(allow_pids, p, child)
      /\ task'[p] = Resume(p)
      /\ \A q \in Pids \ {p} : task'[q] =
           IF q = child /\ exists(q)
           THEN [task[q] EXCEPT !.told = @ /\ task[p].told /\ is_tracked(p),
                                !.recorded = FALSE]
           ELSE task[q]
  BY <1>0, <1>o DEF Waited, wait_fork, add_tracked_pid
<1>2. child # p /\ Creates(p, child) /\ Pending(child)
  BY <1>0, <1>o, <1>1 DEF Creates, Pending, TracerInv, KernelInv, Tasks, Fit
<1>3. \A o \in Pids : Creates(o, child) => o = p
  BY <1>2 DEF CallsInv, NewPids
<1>e. \A o \in Pids : exists(o) /\ task[o].stop = "exec" /\ task[o].msg = child => o = child
  BY <1>2 DEF CallsInv, NewPids
<1>4. /\ \A q \in Pids \ {child} : SameFlags(q) /\ tracked_pids'[q] = tracked_pids[q]
      /\ is_tracked(child)' /\ ~has_event(child)'
  BY <1>0, <1>1, CallsAssumption DEF Waited, SameFlags, Heirs, is_tracked, has_event
<1>5. /\ task'[p].tgid = task[p].tgid /\ task'[p].at = task[p].at
      /\ task'[p].stop = "none" /\ task'[p].told = task[p].told
      /\ task'[p].shell = task[p].shell /\ task'[p].allowed = task[p].allowed
      /\ task'[p].recorded = task[p].recorded
      /\ Alive(task[p]) /\ Alive(task'[p])
  <2>1. /\ Resume(p).tgid = task[p].tgid /\ Resume(p).at = task[p].at
        /\ Resume(p).stop = "none" /\ Resume(p).told = task[p].told
        /\ Resume(p).shell = task[p].shell /\ Resume(p).allowed = task[p].allowed
        /\ Resume(p).recorded = task[p].recorded
    BY <1>1, ResumeFields
  <2> QED
    BY <1>0, <1>1, <2>1 DEF Alive
<1>6. \A q \in Pids \ {p, child} : task'[q] = task[q] /\ (exists(q)' <=> exists(q))
  BY <1>1 DEF exists
<1>7. exists(child)' =>
        /\ exists(child) /\ task'[child].tgid = task[child].tgid
        /\ task'[child].stop = task[child].stop /\ task'[child].msg = task[child].msg
        /\ task'[child].shell = task[child].shell
        /\ task'[child].allowed = task[child].allowed
        /\ task'[child].told => task[child].told /\ task[p].told /\ is_tracked(p)
  <2> SUFFICES ASSUME exists(child)
               PROVE  /\ task'[child].tgid = task[child].tgid
                      /\ task'[child].stop = task[child].stop
                      /\ task'[child].msg = task[child].msg
                      /\ task'[child].shell = task[child].shell
                      /\ task'[child].allowed = task[child].allowed
                      /\ task'[child].told =>
                           task[child].told /\ task[p].told /\ is_tracked(p)
    BY <1>1, <1>2 DEF exists
  <2>1. task[child] \in Task
    BY DEF TracerInv, KernelInv, Tasks, Fit
  <2>2. task'[child] = [task[child] EXCEPT !.told = @ /\ task[p].told /\ is_tracked(p),
                                           !.recorded = FALSE]
    BY <1>1, <1>2
  <2> QED
    BY <2>1, <2>2 DEF Task
<1>8. \A q \in Pids : exists(q)' =>
        /\ exists(q) /\ task'[q].tgid = task[q].tgid
        /\ task'[q].shell = task[q].shell /\ task'[q].allowed = task[q].allowed
        /\ task'[q].told => task[q].told
        /\ Alive(task'[q]) => Alive(task[q])
        /\ task'[q].stop = "exec" => task[q].stop = "exec"
  BY <1>1, <1>5, <1>6, <1>7 DEF Alive
<1>9. \A o, q \in Pids : Creates(o, q)' => Creates(o, q) /\ o # p /\ q # child
  BY <1>3, <1>5, <1>6, <1>7 DEF Creates
<1>10. \A m \in Pids : exists(m) /\ Alive(task[m]) /\ child \in {m, task[m].tgid}
                       /\ (is_tracked(m) \/ task[m].stop = "exec") => ~task[m].told
  BY <1>2 DEF FlagsInv, ThreadsFirst
<1>11. exists(child) =>
         /\ task[child].tgid \in {child, task[p].tgid}
         /\ Alive(task[child]) /\ task[child].told /\ task[p].told =>
              task[child].shell = task[p].shell /\ task[child].allowed = task[p].allowed
  BY <1>2 DEF FlagsInv, Heritage
<1>12. FlagsTracked'
  BY <1>4 DEF FlagsInv, FlagsTracked, SameFlags, is_tracked
<1>13. \A n \in Pids : exists(n)' => Unrecorded(n)'
  <2>1. Unrecorded(child)'
    BY <1>4 DEF Unrecorded
  <2>2. Unrecorded(p)'
    BY <1>0, <1>1, <1>2, <1>4, <1>5 DEF FlagsInv, Unrecorded, InCall, has_event
  <2>3. \A n \in Pids \ {p, child} : exists(n)' => Unrecorded(n)'
    BY <1>4, <1>6 DEF FlagsInv, Unrecorded, has_event
  <2> QED
    BY <2>1, <2>2, <2>3
<1>14. ThreadsFirst'
  <2> SUFFICES ASSUME NEW g \in Pids, NEW m \in Pids, Pending(g)', exists(m)',
                      Alive(task'[m]), g \in {m, task'[m].tgid},
                      is_tracked(m)' \/ task'[m].stop = "exec", task'[m].told
               PROVE  FALSE
    BY DEF ThreadsFirst, Alive
  <2>1. Pending(g) /\ g # child
    BY <1>9 DEF Pending
  <2>2. exists(m) /\ g \in {m, task[m].tgid} /\ task[m].told /\ Alive(task[m])
    BY <1>8
  <2>3. CASE m = child
    <3>1. task[p].tgid = g /\ task[p].told /\ is_tracked(p)
      BY <1>7, <1>11, <2>1, <2>2, <2>3
    <3> QED
      BY <1>1, <1>5, <2>1, <3>1 DEF FlagsInv, ThreadsFirst
  <2>4. CASE m # child
    <3>1. is_tracked(m) \/ task[m].stop = "exec"
      BY <1>4, <1>8, <2>4 DEF is_tracked
    <3> QED
      BY <2>1, <2>2, <3>1 DEF FlagsInv, ThreadsFirst
  <2> QED
    BY <2>3, <2>4
<1>15. Heritage'
  <2> SUFFICES ASSUME NEW o \in Pids, NEW n \in Pids, Creates(o, n)', exists(n)'
               PROVE  /\ task'[n].tgid \in {n, task'[o].tgid}
                      /\ Alive(task'[n]) /\ task'[n].told /\ task'[o].told
                         => /\ task'[n].shell = task'[o].shell
                            /\ task'[n].allowed = task'[o].allowed
    BY DEF Heritage, Alive
  <2>1. Creates(o, n) /\ exists(o)' /\ exists(n)
    BY <1>8, <1>9 DEF Creates
  <2>2. /\ task[n].tgid \in {n, task[o].tgid}
        /\ Alive(task[n]) /\ task[n].told /\ task[o].told
           => task[n].shell = task[o].shell /\ task[n].allowed = task[o].allowed
    BY <2>1 DEF FlagsInv, Heritage
  <2> QED
    BY <1>8, <2>1, <2>2
<1>16. LeaderTold'
  <2> SUFFICES ASSUME NEW m \in Pids, exists(m)', Alive(task'[m]), is_tracked(m)',
                      task'[m].told, Alive(task'[task'[m].tgid])
               PROVE  task'[task'[m].tgid].told
    BY DEF LeaderTold, Alive
  <2>1. exists(m) /\ task'[m].tgid = task[m].tgid /\ Alive(task[m]) /\ task[m].told
    BY <1>8
  <2>2. PICK g \in Pids : g = task[m].tgid /\ exists(g)
    BY <2>1 DEF TracerInv, KernelInv, Tasks, Leaders, Fit, Task
  <2>3. CASE m = child
    <3>1. task[p].told /\ is_tracked(p)
      BY <1>7, <2>3
    <3>2. CASE g = child
      BY <2>1, <2>2, <2>3, <3>2
    <3>3. CASE g # child
      <4>1. task[p].tgid = g
        BY <1>11, <2>1, <2>2, <2>3, <3>3
      <4>2. Alive(task[g]) /\ task'[g].told = task[g].told
        BY <1>5, <1>6, <2>1, <2>2, <3>3
      <4>3. task[g].told
        BY <1>1, <1>5, <3>1, <4>1, <4>2 DEF FlagsInv, LeaderTold
      <4> QED
        BY <2>1, <2>2, <4>2, <4>3
    <3> QED
      BY <3>2, <3>3
  <2>4. CASE m # child
    <3>1. is_tracked(m)
      BY <1>4, <2>4 DEF is_tracked
    <3>2. g # child
      BY <1>10, <2>1, <2>2, <3>1
    <3>3. Alive(task[g]) /\ task'[g].told = task[g].told
      BY <1>5, <1>6, <2>1, <2>2, <3>2
    <3> QED
      BY <2>1, <2>2, <3>1, <3>3 DEF FlagsInv, LeaderTold
  <2> QED
    BY <2>3, <2>4
<1>17. ASSUME NEW n \in Pids
       PROVE  ExecFlags(n)'
  <2> SUFFICES ASSUME exists(n)', task'[n].stop = "exec", task'[n].told
               PROVE  ExecFlags(n)'
    BY DEF ExecFlags
  <2>1. exists(n) /\ task[n].stop = "exec" /\ task[n].told
    BY <1>8
  <2>2. PICK old \in Pids : old = task[n].msg
    BY <2>1 DEF TracerInv, KernelInv, Tasks, Fit, Task
  <2>3. ExecFlags(n) /\ task[n].recorded
    BY <2>1 DEF FlagsInv, ExecFlags
  <2>4. n # child
    <3>1. task[n].tgid = n
      BY <2>1 DEF CallsInv, PlacedTasks, Placed
    <3> QED
      BY <1>10, <2>1, <3>1 DEF Alive
  <2>5. old # child
    BY <1>e, <2>1, <2>2, <2>4
  <2>6. task'[n] = task[n]
    BY <1>5, <1>6, <2>4
  <2>7. SameFlags(n) /\ SameFlags(old) /\ tracked_pids'[n] = tracked_pids[n]
    BY <1>4, <2>4, <2>5
  <2> QED
    BY <2>1, <2>2, <2>3, <2>6, <2>7
    DEF ExecFlags, SameFlags, FlagsWithin, in_execve, has_event
<1>18. ASSUME NEW m \in Pids
       PROVE  TaskFlags(m)'
  <2> SUFFICES ASSUME exists(m)', Alive(task'[m]), is_tracked(m)', task'[m].told,
                      task'[m].stop # "exec"
               PROVE  FlagsAre(m, task[m])' /\ FlagsWithin(task[m].tgid, task[m])'
    BY DEF TaskFlags, Alive
  <2>1. /\ exists(m) /\ task'[m].tgid = task[m].tgid /\ Alive(task[m]) /\ task[m].told
        /\ task'[m].shell = task[m].shell /\ task'[m].allowed = task[m].allowed
    BY <1>8
  <2>2. PICK g \in Pids : g = task[m].tgid
    BY <2>1 DEF TracerInv, KernelInv, Tasks, Fit, Task
  <2>3. CASE m = child
    <3>1. task[p].told /\ is_tracked(p)
      BY <1>7, <2>3
    <3>2. FlagsAre(p, task[p]) /\ FlagsWithin(task[p].tgid, task[p])
      BY <1>0, <1>1, <1>5, <3>1 DEF FlagsInv, TaskFlags
    <3>3. task[m].shell = task[p].shell /\ task[m].allowed = task[p].allowed
          /\ g \in {child, task[p].tgid}
      BY <1>11, <2>1, <2>2, <2>3, <3>1
    <3>4. child \notin from_shell_pids \cup allow_pids
      <4>1. ~is_tracked(child)
        BY <1>10, <2>1, <2>3
      <4> QED
        BY <4>1 DEF FlagsInv, FlagsTracked
    <3>5. /\ child \in from_shell_pids' <=> task[m].shell
          /\ child \in allow_pids' <=> task[m].allowed
      BY <1>1, <3>2, <3>3, <3>4 DEF Heirs, FlagsAre
    <3>6. g # child => FlagsWithin(g, task[m])'
      <4>1. g # child => SameFlags(g) /\ g = task[p].tgid
        BY <1>4, <3>3
      <4> QED
        BY <2>1, <3>2, <3>3, <4>1 DEF FlagsWithin, SameFlags
    <3> QED
      BY <2>1, <2>2, <2>3, <3>5, <3>6 DEF FlagsAre, FlagsWithin
  <2>4. CASE m # child
    <3>1. is_tracked(m) /\ task[m].stop # "exec"
      BY <1>0, <1>4, <1>6, <2>4 DEF is_tracked
    <3>2. g # child
      BY <1>10, <2>1, <2>2, <3>1
    <3>3. SameFlags(m) /\ SameFlags(g)
      BY <1>4, <2>4, <3>2
    <3>4. FlagsAre(m, task[m]) /\ FlagsWithin(g, task[m])
      BY <2>1, <2>2, <3>1 DEF FlagsInv, TaskFlags
    <3> QED
      BY <2>1, <2>2, <3>3, <3>4 DEF FlagsAre, FlagsWithin, SameFlags
  <2> QED
    BY <2>3, <2>4
<1> QED
  BY <1>12, <1>13, <1>14, <1>15, <1>16, <1>17, <1>18 DEF FlagsInv

LEMMA FlagsStep ==
  ASSUME ~ReuseNamed, TracerInv, TracerInv', CallsInv, GroupInv, FlagsInv,
         [TracerNext]_allVars
  PROVE  FlagsInv'
<1>0. Leaders'
  BY DEF TracerInv, KernelInv
<1>1. CASE Kernel
  <2>1. UNCHANGED <<tracked_pids, from_shell_pids, allow_pids>>
    BY <1>1 DEF Kernel, vars
  <2>2. ASSUME NEW S, \A q \in S : q \in Pids /\ exists(q), Kill(S)
        PROVE  FlagsInv'
    <3>1. KillsOnly(S, {})
      BY <2>1, <2>2 DEF KillsOnly, SameFlags
    <3> QED
      BY <1>0, <3>1, FlagsKill
  <2>3. ASSUME NEW p \in Pids, ThreadExit(p) PROVE FlagsInv'
    BY <2>2, <2>3 DEF ThreadExit, Running
  <2>4. ASSUME NEW g \in Pids, GroupExit(g) PROVE FlagsInv'
    BY <2>2, <2>4 DEF GroupExit, Group
  <2> QED
    BY <1>0, <1>1, <2>1, <2>3, <2>4, FlagsSyscall, FlagsReturn, FlagsSpawn,
       FlagsExecBegin, FlagsExecDone DEF Kernel
<1>2. ASSUME NEW p \in Pids, Round(p)
      PROVE  FlagsInv'
  BY <1>0, <1>2, FlagsExited, FlagsUntracked, FlagsEntry, FlagsReturned, FlagsExec,
     FlagsFork, FlagsKilled DEF Round
<1>3. ASSUME UNCHANGED <<task, tracked_pids, from_shell_pids, allow_pids>>
      PROVE  FlagsInv'
  <2>1. \A q \in Pids : /\ (is_tracked(q)' <=> is_tracked(q))
                        /\ (has_event(q)' <=> has_event(q))
                        /\ (in_execve(q)' <=> in_execve(q))
                        /\ (exists(q)' <=> exists(q)) /\ (Pending(q)' <=> Pending(q))
    BY <1>3 DEF is_tracked, has_event, in_execve, exists, Pending, Creates
  <2>2. FlagsTracked' /\ \A q \in Pids : exists(q)' => Unrecorded(q)'
    BY <1>3, <2>1 DEF FlagsInv, FlagsTracked, Unrecorded
  <2>3. ThreadsFirst' /\ Heritage' /\ LeaderTold'
    <3>1. ThreadsFirst'
      BY <1>3, <2>1 DEF FlagsInv, ThreadsFirst, Alive
    <3>2. Heritage' /\ LeaderTold'
      BY <1>3, <2>1 DEF FlagsInv, Heritage, LeaderTold, Creates
    <3> QED
      BY <3>1, <3>2
  <2>4. \A q \in Pids : ExecFlags(q)' /\ TaskFlags(q)'
    BY <1>3, <2>1 DEF FlagsInv, ExecFlags, TaskFlags, FlagsAre, FlagsWithin
  <2> QED
    BY <2>2, <2>3, <2>4 DEF FlagsInv
<1>4. CASE leave_loop \/ Clock \/ UNCHANGED allVars
  BY <1>3, <1>4 DEF leave_loop, Clock, Tick, kernel, vars, allVars
<1> QED
  BY <1>1, <1>2, <1>4 DEF TracerNext, MainLoop, Terminated

LEMMA FlagsInit == TracerInit => FlagsInv
<1> SUFFICES ASSUME TracerInit PROVE FlagsInv
  OBVIOUS
<1>1. /\ task[Root] = NewTask(Root, "none") /\ Root \in Pids
      /\ \A q \in Pids : exists(q) => q = Root
      /\ \A q \in Pids : ~has_event(q)
      /\ from_shell_pids = {} /\ allow_pids = {}
  BY CallsAssumption DEF TracerInit, Init, exists, has_event
<1>2. /\ task[Root].stop = "none" /\ task[Root].tgid = Root /\ ~task[Root].shell
      /\ ~task[Root].allowed /\ task[Root].told
  BY <1>1 DEF NewTask
<1>3. \A p, q \in Pids : ~Creates(p, q)
  BY <1>1, <1>2 DEF Creates
<1>4. FlagsTracked /\ \A q \in Pids : Unrecorded(q)
  BY <1>1 DEF FlagsTracked, Unrecorded
<1>5. ThreadsFirst /\ Heritage /\ LeaderTold
  BY <1>1, <1>2, <1>3 DEF ThreadsFirst, Heritage, LeaderTold, Pending
<1>6. \A q \in Pids : ExecFlags(q) /\ TaskFlags(q)
  BY <1>1, <1>2 DEF ExecFlags, TaskFlags, FlagsAre, FlagsWithin
<1> QED
  BY <1>4, <1>5, <1>6 DEF FlagsInv

(* A tracked task has the shell flag (the allow flag) exactly if it, or a  *)
(* task it descends from before the fork, executed a shell (an allowed     *)
(* program), as long as the engine was told of the execves and forks this  *)
(* depends on: flags follow add_tracked_pid, and the pids that an execve   *)
(* of a thread moves (handle_exec_stop), through every order of the stops. *)
THEOREM FlagsAreExact == ~ReuseNamed => (TracerSpec => []FlagsExact)
<1> SUFFICES ASSUME ~ReuseNamed PROVE TracerSpec => []FlagsExact
  OBVIOUS
<1> DEFINE Inv == TracerInv /\ CallsInv /\ GroupInv /\ FlagsInv
<1>1. TracerInit => Inv
  BY TracerInitInv, CallsInit, GroupInit, FlagsInit
<1>2. TracerInv /\ [TracerNext]_allVars => TracerInv'
  BY TracerStep, TypeStep DEF TracerInv
<1>3. Inv /\ [TracerNext]_allVars => Inv'
  BY <1>2, CallsStep, GroupStep, FlagsStep
<1>4. Inv => FlagsExact
  BY DEF FlagsInv, TaskFlags, FlagsAre, FlagsExact, Alive
<1> QED
  BY <1>1, <1>3, <1>4, PTL DEF TracerSpec

===============================================================================
