----------------------------- MODULE ProfilerProofs ----------------------------
(***************************************************************************)
(* The profiler's tables and records, for every set of pids and calls and  *)
(* every order of stops.  What the properties need of a task is a relation *)
(* of the task with its pid's pending call (TaskInv); an action touches    *)
(* one task, or the tasks of one group in the same way.                    *)
(***************************************************************************)
EXTENDS Profiler, TLAPS

-----------------------------------------------------------------------------
(* The invariant.                                                          *)

\* In a call, or stopped at the end of one.
InCall(t) == t.at \in {"kernel", "execing", "returning"} \/ t.stop = "exit"

\* Of this pid, nothing has been parsed since the task was made.
Fresh(t) == t.stop = "entry" \/ (t.at = "user" /\ t.stop # "exit")

\* c is the pending call of t's pid, gone says that the pid was a thread's
\* that executed a program.
TaskInv(t, c, gone) ==
  /\ t = NoTask /\ c \in Calls => gone
  /\ t # NoTask =>
       /\ t.stop = "entry" => t.at = "kernel"
       /\ t.stop = "exit" => t.at \in {"user", "trapping"}
       /\ t.at \in {"kernel", "execing", "returning"} => ~t.remapped
       /\ c \in Calls =>
            \/ t.stop = "exited"
            \/ t.stop = "exit" /\ t.remapped
            \/ c = t.call /\ t.parsed /\ InCall(t)
            \/ gone /\ Fresh(t)
       /\ InCall(t) =>
            t.records = 0 /\ (t.parsed /\ ~t.remapped => c \in Calls /\ c = t.call)
       /\ ~InCall(t) /\ ~t.remapped => t.records = IF Printable(t) THEN 1 ELSE 0

TasksInv == \A p \in Pids : TaskInv(task[p], pending_syscalls[p], p \in renamed)

ProfilerInv == ProfilerTypeOK /\ TasksInv

-----------------------------------------------------------------------------
(* Tasks.                                                                  *)

LEMMA NewTaskType ==
  ASSUME NEW g \in Pids, NEW s \in Stops
  PROVE  /\ NewTask(g, s) \in Task
         /\ NewTask(g, s).stop = s /\ NewTask(g, s).at = "user"
         /\ NewTask(g, s).records = 0 /\ ~NewTask(g, s).parsed /\ ~NewTask(g, s).remapped
         /\ NewTask(g, s).tgid = g
BY ProfilerAssumption DEF NewTask, Task, Places

LEMMA TaskType ==
  ASSUME ProfilerTypeOK, NEW p \in Pids, exists(p)
  PROVE  task[p] \in Task /\ task[p] # NoTask
BY DEF ProfilerTypeOK, exists

\* A task that has just begun or has just ended.
LEMMA NewTaskInv ==
  ASSUME NEW g \in Pids, NEW s \in {"sigstop", "exited", "none"}, NEW c, NEW gone,
         s = "exited" \/ gone \/ c \notin Calls
  PROVE  TaskInv(NewTask(g, s), c, gone)
<1>1. s \in Stops
  BY DEF Stops
<1>2. NewTask(g, s) # NoTask
  BY <1>1, NewTaskType, NamesAssumption
<1> QED
  BY <1>1, <1>2, NewTaskType DEF TaskInv, InCall, Fresh, Printable

LEMMA TasksNext ==
  ASSUME \A p \in Pids : TaskInv(task'[p], pending_syscalls'[p], p \in renamed')
  PROVE  TasksInv'
BY DEF TasksInv, TaskInv, InCall, Fresh, Printable

\* A step changes the task of p to t, and no other pid's pending call.
LEMMA OneTask ==
  ASSUME ProfilerInv, NEW p \in Pids, NEW t \in Task \cup {NoTask},
         task' = [task EXCEPT ![p] = t],
         TaskInv(t, pending_syscalls'[p], p \in renamed),
         \A q \in Pids \ {p} : pending_syscalls'[q] = pending_syscalls[q],
         renamed' = renamed
  PROVE  TasksInv' /\ task' \in [Pids -> Task \cup {NoTask}]
<1>1. task \in [Pids -> Task \cup {NoTask}]
  BY DEF ProfilerInv, ProfilerTypeOK
<1>2. task'[p] = t /\ \A q \in Pids \ {p} : task'[q] = task[q]
  BY <1>1
<1>3. \A q \in Pids : TaskInv(task'[q], pending_syscalls'[q], q \in renamed')
  BY <1>2 DEF ProfilerInv, TasksInv
<1> QED
  BY <1>1, <1>3, TasksNext

\* The tasks of S end.
LEMMA SomeEnd ==
  ASSUME ProfilerInv, NEW S, S \subseteq {p \in Pids : exists(p)}, Kill(S),
         pending_syscalls' = pending_syscalls
  PROVE  /\ TasksInv' /\ task' \in [Pids -> Task \cup {NoTask}]
         /\ lost' \subseteq Pids /\ renamed' = renamed
<1>1. /\ task \in [Pids -> Task \cup {NoTask}] /\ lost \subseteq Pids
      /\ \A p \in S : task[p] \in Task
  BY DEF ProfilerInv, ProfilerTypeOK, exists
<1>2. \A p \in S : task[p].tgid \in Pids /\ task[p].msg \in Pids
  BY <1>1 DEF Task
<1>3. /\ task' = [p \in Pids |-> IF p \in S THEN NewTask(task[p].tgid, "exited") ELSE task[p]]
      /\ lost' = lost \cup {task[p].msg : p \in {q \in S : task[q].stop = "fork"}}
      /\ renamed' = renamed
  BY DEF Kill
<1>4. \A p \in S : NewTask(task[p].tgid, "exited") \in Task
  BY <1>2, NewTaskType DEF Stops
<1>5. \A p \in Pids : TaskInv(task'[p], pending_syscalls'[p], p \in renamed')
  BY <1>2, <1>3, NewTaskInv DEF ProfilerInv, TasksInv
<1> QED
  BY <1>1, <1>2, <1>3, <1>4, <1>5, TasksNext

-----------------------------------------------------------------------------
(* The kernel's steps.                                                     *)

TableTypes ==
  /\ tracked_pids \subseteq Pids
  /\ pending_syscalls \in [Pids -> Calls \cup {Absent, Nullopt}]
  /\ \A p \in Pids : pending_syscalls[p] # Absent => p \in tracked_pids
  /\ printed \in Record \cup {NoRecord}

HistoryTypes == used \subseteq Pids /\ lost \subseteq Pids /\ renamed \subseteq Pids /\ calls \in Nat

\* What a step of a tracee has to keep.
LEMMA KernelKeeps ==
  ASSUME ProfilerInv, TasksInv', task' \in [Pids -> Task \cup {NoTask}], HistoryTypes',
         UNCHANGED <<tracked_pids, pending_syscalls, loop>>, printed' = NoRecord
  PROVE  ProfilerInv'
BY DEF ProfilerInv, ProfilerTypeOK, HistoryTypes

LEMMA SyscallKeeps ==
  ASSUME ProfilerInv, NEW p \in Pids, NEW c \in Calls, Syscall(p, c),
         UNCHANGED <<tracked_pids, pending_syscalls, loop>>, printed' = NoRecord
  PROVE  ProfilerInv'
<1> DEFINE t == [NewTask(task[p].tgid, "entry") EXCEPT !.call = c, !.at = "kernel"]
<1>1. /\ task[p] \in Task /\ task[p] # NoTask
      /\ task[p].at = "user" /\ task[p].stop = "none"
  BY TaskType DEF ProfilerInv, Syscall, Running
<1>2. TaskInv(task[p], pending_syscalls[p], p \in renamed)
  BY DEF ProfilerInv, TasksInv
<1>3. /\ t \in Task /\ t # NoTask
      /\ t.call = c /\ t.at = "kernel" /\ t.stop = "entry"
      /\ ~t.parsed /\ ~t.remapped /\ t.records = 0
  <2> DEFINE n == NewTask(task[p].tgid, "entry")
  <2>1. task[p].tgid \in Pids
    BY <1>1 DEF Task
  <2>2. n \in Task /\ n.stop = "entry" /\ n.records = 0 /\ ~n.parsed /\ ~n.remapped
    BY <2>1, NewTaskType DEF Stops
  <2> HIDE DEF n
  <2>3. t = [n EXCEPT !.call = c, !.at = "kernel"]
    BY DEF n
  <2> HIDE DEF t
  <2>4. t \in Task
    BY <2>2, <2>3 DEF Task, Places
  <2>5. /\ t.call = c /\ t.at = "kernel" /\ t.stop = n.stop
        /\ t.parsed = n.parsed /\ t.remapped = n.remapped /\ t.records = n.records
    BY <2>2, <2>3 DEF Task
  <2> QED
    BY <2>2, <2>4, <2>5, NamesAssumption
<1>4. task' = [task EXCEPT ![p] = t]
  BY DEF Syscall
<1> HIDE DEF t
<1>5. TaskInv(t, pending_syscalls'[p], p \in renamed)
  BY <1>1, <1>2, <1>3 DEF TaskInv, InCall, Fresh
<1>6. HistoryTypes' /\ renamed' = renamed
  BY DEF Syscall, HistoryTypes, ProfilerInv, ProfilerTypeOK
<1> QED
  BY <1>3, <1>4, <1>5, <1>6, OneTask, KernelKeeps

LEMMA ReturnKeeps ==
  ASSUME ProfilerInv, NEW p \in Pids, NEW ret \in Retvals, Return(p, ret),
         UNCHANGED <<tracked_pids, pending_syscalls, loop>>, printed' = NoRecord
  PROVE  ProfilerInv'
<1> DEFINE t == [task[p] EXCEPT !.at = "user", !.stop = "exit", !.ret = ret]
<1>1. /\ task[p] \in Task /\ task[p] # NoTask
      /\ task[p].at \in {"kernel", "returning"} /\ task[p].stop = "none"
  BY TaskType DEF ProfilerInv, Return, Running
<1>2. TaskInv(task[p], pending_syscalls[p], p \in renamed)
  BY DEF ProfilerInv, TasksInv
<1>3. /\ t \in Task /\ t # NoTask
      /\ t.call = task[p].call /\ t.at = "user" /\ t.stop = "exit"
      /\ t.parsed = task[p].parsed /\ t.remapped = task[p].remapped
      /\ t.records = task[p].records
  BY <1>1, NamesAssumption DEF Task, Places, Stops
<1>4. task' = [task EXCEPT ![p] = t]
  BY <1>1 DEF Return
<1> HIDE DEF t
<1>5. TaskInv(t, pending_syscalls'[p], p \in renamed)
  BY <1>1, <1>2, <1>3 DEF TaskInv, InCall, Fresh
<1>6. HistoryTypes' /\ renamed' = renamed
  BY DEF Return, HistoryTypes, ProfilerInv, ProfilerTypeOK
<1> QED
  BY <1>3, <1>4, <1>5, <1>6, OneTask, KernelKeeps

LEMMA TrapKeeps ==
  ASSUME ProfilerInv, NEW p \in Pids, Trap(p),
         UNCHANGED <<tracked_pids, pending_syscalls, loop>>, printed' = NoRecord
  PROVE  ProfilerInv'
<1> DEFINE t == [task[p] EXCEPT !.at = "user", !.stop = "trap"]
<1>1. /\ task[p] \in Task /\ task[p] # NoTask
      /\ task[p].at = "trapping" /\ task[p].stop = "none"
  BY TaskType DEF ProfilerInv, Trap, Running
<1>2. TaskInv(task[p], pending_syscalls[p], p \in renamed)
  BY DEF ProfilerInv, TasksInv
<1>3. /\ t \in Task /\ t # NoTask
      /\ t.call = task[p].call /\ t.at = "user" /\ t.stop = "trap" /\ t.ret = task[p].ret
      /\ t.parsed = task[p].parsed /\ t.remapped = task[p].remapped
      /\ t.records = task[p].records
  BY <1>1, NamesAssumption DEF Task, Places, Stops
<1>4. task' = [task EXCEPT ![p] = t]
  BY DEF Trap
<1> HIDE DEF t
<1>5. TaskInv(t, pending_syscalls'[p], p \in renamed)
  BY <1>1, <1>2, <1>3 DEF TaskInv, InCall, Fresh, Printable
<1>6. HistoryTypes' /\ renamed' = renamed
  BY DEF Trap, HistoryTypes, ProfilerInv, ProfilerTypeOK
<1> QED
  BY <1>3, <1>4, <1>5, <1>6, OneTask, KernelKeeps

LEMMA SpawnKeeps ==
  ASSUME ProfilerInv, NEW p \in Pids, NEW q \in Pids, Spawn(p, q),
         UNCHANGED <<tracked_pids, pending_syscalls, loop>>, printed' = NoRecord
  PROVE  ProfilerInv'
<1> DEFINE t == [task[p] EXCEPT !.at = "returning", !.stop = "fork", !.msg = q]
           group == IF task[p].call \in Threads THEN task[p].tgid ELSE q
           n == NewTask(group, "sigstop")
<1>0. task \in [Pids -> Task \cup {NoTask}]
  BY DEF ProfilerInv, ProfilerTypeOK
<1>1. /\ task[p] \in Task /\ task[p] # NoTask /\ task[p].tgid \in Pids
      /\ task[p].at = "kernel" /\ task[p].stop = "none"
      /\ task[q] = NoTask /\ p # q
  BY TaskType DEF ProfilerInv, Spawn, Running, exists, Task
<1>2. \A u \in Pids : TaskInv(task[u], pending_syscalls[u], u \in renamed)
  BY DEF ProfilerInv, TasksInv
<1>3. /\ t \in Task /\ t # NoTask
      /\ t.call = task[p].call /\ t.at = "returning" /\ t.stop = "fork"
      /\ t.parsed = task[p].parsed /\ t.remapped = task[p].remapped
      /\ t.records = task[p].records
  BY <1>1, NamesAssumption DEF Task, Places, Stops
<1>4. group \in Pids /\ n \in Task
  BY <1>1, NewTaskType DEF Stops
<1>5. /\ task' = [task EXCEPT ![p].at = "returning", ![p].stop = "fork", ![p].msg = q,
                              ![q] = n]
      /\ renamed' = renamed /\ pending_syscalls' = pending_syscalls
  BY DEF Spawn
<1>6. TaskInv(n, pending_syscalls[q], q \in renamed)
  <2>1. q \in renamed \/ pending_syscalls[q] \notin Calls
    BY <1>1, <1>2 DEF TaskInv
  <2> HIDE DEF group
  <2> QED
    BY <1>4, <2>1, NewTaskInv
<1> HIDE DEF n
<1>7. task' = [task EXCEPT ![p] = t, ![q] = n]
  BY <1>0, <1>1, <1>5
<1> HIDE DEF t
<1>8. TaskInv(t, pending_syscalls[p], p \in renamed)
  BY <1>1, <1>2, <1>3 DEF TaskInv, InCall, Fresh
<1>9. /\ task' \in [Pids -> Task \cup {NoTask}]
      /\ task'[p] = t /\ task'[q] = n
      /\ \A u \in Pids \ {p, q} : task'[u] = task[u]
  BY <1>0, <1>1, <1>3, <1>4, <1>7
<1>10. TasksInv'
  <2>1. \A u \in Pids : TaskInv(task'[u], pending_syscalls'[u], u \in renamed')
    BY <1>2, <1>5, <1>6, <1>8, <1>9
  <2> QED
    BY <2>1, TasksNext
<1>11. HistoryTypes'
  BY DEF Spawn, HistoryTypes, ProfilerInv, ProfilerTypeOK
<1> QED
  BY <1>9, <1>10, <1>11, KernelKeeps

LEMMA ExitKeeps ==
  ASSUME ProfilerInv, NEW p \in Pids, ThreadExit(p) \/ GroupExit(p),
         UNCHANGED <<tracked_pids, pending_syscalls, loop>>, printed' = NoRecord
  PROVE  ProfilerInv'
<1>1. PICK S : S \subseteq {q \in Pids : exists(q)} /\ Kill(S)
  BY DEF ThreadExit, GroupExit, Running, Group
<1>2. UNCHANGED <<used, calls>>
  BY DEF ThreadExit, GroupExit
<1>3. HistoryTypes'
  BY <1>1, <1>2, SomeEnd DEF HistoryTypes, ProfilerInv, ProfilerTypeOK
<1> QED
  BY <1>1, <1>3, SomeEnd, KernelKeeps

LEMMA ExecBeginKeeps ==
  ASSUME ProfilerInv, NEW p \in Pids, ExecBegin(p),
         UNCHANGED <<tracked_pids, pending_syscalls, loop>>, printed' = NoRecord
  PROVE  ProfilerInv'
<1> DEFINE others == Group(task[p].tgid) \ {p}
           t == [task[p] EXCEPT !.at = "execing"]
           end(q) == NewTask(task[q].tgid, "exited")
<1>0. task \in [Pids -> Task \cup {NoTask}] /\ lost \subseteq Pids
  BY DEF ProfilerInv, ProfilerTypeOK
<1>1. /\ task[p] \in Task /\ task[p] # NoTask
      /\ task[p].at = "kernel" /\ task[p].stop = "none"
  BY TaskType DEF ProfilerInv, ExecBegin, Running
<1>2. \A u \in Pids : TaskInv(task[u], pending_syscalls[u], u \in renamed)
  BY DEF ProfilerInv, TasksInv
<1>3. /\ t \in Task /\ t # NoTask
      /\ t.call = task[p].call /\ t.at = "execing" /\ t.stop = task[p].stop
      /\ t.parsed = task[p].parsed /\ t.remapped = task[p].remapped
      /\ t.records = task[p].records
  BY <1>1, NamesAssumption DEF Task, Places
<1>4. \A q \in others : q \in Pids /\ task[q] \in Task /\ task[q].tgid \in Pids
                        /\ task[q].msg \in Pids
  BY <1>0 DEF Group, exists, Task
<1>5. \A q \in others : end(q) \in Task /\ TaskInv(end(q), pending_syscalls[q], q \in renamed)
  BY <1>4, NewTaskType, NewTaskInv DEF Stops
<1>6. /\ task' = [q \in Pids |-> IF q \in others THEN end(q) ELSE IF q = p THEN t ELSE task[q]]
      /\ lost' = lost \cup {task[q].msg : q \in {u \in others : task[u].stop = "fork"}}
      /\ UNCHANGED <<used, calls, renamed>>
  BY DEF ExecBegin
<1> HIDE DEF t, others, end
<1>7. TaskInv(t, pending_syscalls[p], p \in renamed)
  BY <1>1, <1>2, <1>3 DEF TaskInv, InCall, Fresh
<1>8. task' \in [Pids -> Task \cup {NoTask}]
  BY <1>0, <1>3, <1>5, <1>6
<1>9. TasksInv'
  <2>1. \A u \in Pids : TaskInv(task'[u], pending_syscalls'[u], u \in renamed')
    BY <1>2, <1>5, <1>6, <1>7
  <2> QED
    BY <2>1, TasksNext
<1>10. HistoryTypes'
  BY <1>0, <1>4, <1>6 DEF HistoryTypes, ProfilerInv, ProfilerTypeOK
<1> QED
  BY <1>8, <1>9, <1>10, KernelKeeps

\* The pending call that is left at the leader's pid is another task's, and the
\* one at the thread's is no task's.
LEMMA ExecDoneKeeps ==
  ASSUME ProfilerInv, NEW p \in Pids, ExecDone(p),
         UNCHANGED <<tracked_pids, pending_syscalls, loop>>, printed' = NoRecord
  PROVE  ProfilerInv'
<1> DEFINE leader == task[p].tgid
           t == [task[p] EXCEPT !.at = "trapping", !.stop = "exit", !.remapped = (p # leader)]
<1>0. task \in [Pids -> Task \cup {NoTask}] /\ renamed \subseteq Pids
  BY DEF ProfilerInv, ProfilerTypeOK
<1>1. /\ task[p] \in Task /\ task[p] # NoTask /\ leader \in Pids
      /\ task[p].at = "execing" /\ task[p].stop = "none"
  BY TaskType DEF ProfilerInv, ExecDone, Running, Task
<1>2. \A u \in Pids : TaskInv(task[u], pending_syscalls[u], u \in renamed)
  BY DEF ProfilerInv, TasksInv
<1>3. /\ t \in Task /\ t # NoTask
      /\ t.call = task[p].call /\ t.at = "trapping" /\ t.stop = "exit"
      /\ t.parsed = task[p].parsed /\ t.remapped = (p # leader)
      /\ t.records = task[p].records
  BY <1>1, NamesAssumption DEF Task, Places, Stops
<1>4. /\ task' = [q \in Pids |-> IF q = leader THEN t ELSE IF q = p THEN NoTask ELSE task[q]]
      /\ renamed' = renamed \cup ({p} \ {leader})
      /\ UNCHANGED <<used, calls, lost>>
  BY DEF ExecDone
<1> HIDE DEF t, leader
<1>5. TaskInv(t, pending_syscalls[leader], leader \in renamed')
  <2>1. CASE p = leader
    <3>1. TaskInv(task[p], pending_syscalls[p], p \in renamed)
      BY <1>2
    <3>2. TaskInv(t, pending_syscalls[p], leader \in renamed')
      BY <1>1, <1>3, <2>1, <3>1 DEF TaskInv, InCall, Fresh
    <3> QED
      BY <2>1, <3>2
  <2>2. CASE p # leader
    <3>1. TaskInv(task[p], pending_syscalls[p], p \in renamed)
      BY <1>2
    <3> QED
      BY <1>1, <1>3, <2>2, <3>1 DEF TaskInv, InCall
  <2> QED
    BY <2>1, <2>2
<1>6. p # leader => TaskInv(NoTask, pending_syscalls[p], p \in renamed')
  BY <1>4 DEF TaskInv
<1>7. \A u \in Pids \ {p, leader} : TaskInv(task[u], pending_syscalls[u], u \in renamed')
  BY <1>2, <1>4
<1>8. task' \in [Pids -> Task \cup {NoTask}]
  BY <1>0, <1>3, <1>4
<1>9. TasksInv'
  <2>1. \A u \in Pids : TaskInv(task'[u], pending_syscalls'[u], u \in renamed')
    BY <1>4, <1>5, <1>6, <1>7
  <2> QED
    BY <2>1, TasksNext
<1>10. HistoryTypes'
  BY <1>0, <1>4 DEF HistoryTypes, ProfilerInv, ProfilerTypeOK
<1> QED
  BY <1>8, <1>9, <1>10, KernelKeeps

-----------------------------------------------------------------------------
(* The loop's steps.                                                       *)

\* What a round of the loop has to keep.
LEMMA LoopKeeps ==
  ASSUME ProfilerInv, TasksInv', task' \in [Pids -> Task \cup {NoTask}], TableTypes',
         lost' \subseteq Pids, UNCHANGED <<loop, used, calls, renamed>>
  PROVE  ProfilerInv'
BY DEF ProfilerInv, ProfilerTypeOK, TableTypes

LEMMA PendingType ==
  ASSUME ProfilerTypeOK, NEW p \in Pids
  PROVE  /\ pending_syscalls[p] \in Calls \cup {Absent, Nullopt}
         /\ has_call(p) <=> pending_syscalls[p] \in Calls
         /\ p \notin tracked_pids => pending_syscalls[p] \notin Calls
BY ProfilerAssumption DEF ProfilerTypeOK, has_call

Resumed(p) == [task[p] EXCEPT !.stop = "none", !.msg = ZeroPid]

\* A stopped task before its round, and the same task resumed.
LEMMA ResumedType ==
  ASSUME ProfilerInv, NEW p \in Pids, NEW stops, Wait(p, stops)
  PROVE  /\ task[p] \in Task /\ task[p] # NoTask /\ task[p].stop \in stops
         /\ TaskInv(task[p], pending_syscalls[p], p \in renamed)
         /\ Resumed(p) \in Task /\ Resumed(p) # NoTask /\ Resumed(p).stop = "none"
         /\ \A f \in {"call", "at", "ret", "parsed", "remapped", "records"} :
              Resumed(p)[f] = task[p][f]
         /\ Resume(p) = [task EXCEPT ![p] = Resumed(p)]
         /\ UNCHANGED <<loop, used, calls, renamed>>
<1>1. task[p] \in Task /\ task[p] # NoTask /\ task[p].stop \in stops
  BY TaskType DEF ProfilerInv, Wait, Waitable
<1>2. TaskInv(task[p], pending_syscalls[p], p \in renamed)
  BY DEF ProfilerInv, TasksInv
<1>3. /\ Resumed(p) \in Task /\ Resumed(p) # NoTask /\ Resumed(p).stop = "none"
      /\ \A f \in {"call", "at", "ret", "parsed", "remapped", "records"} :
           Resumed(p)[f] = task[p][f]
  BY <1>1, ProfilerAssumption, NamesAssumption DEF Resumed, Task, Stops
<1>4. Resume(p) = [task EXCEPT ![p] = Resumed(p)]
  BY DEF Resume, Resumed
<1> QED
  BY <1>1, <1>2, <1>3, <1>4 DEF Wait

LEMMA ExitedKeeps ==
  ASSUME ProfilerInv, NEW p \in Pids, wait_exited(p)
  PROVE  ProfilerInv'
<1>1. TableTypes' /\ lost' \subseteq Pids /\ UNCHANGED <<loop, used, calls, renamed>>
  BY DEF wait_exited, Wait, silent, TableTypes, ProfilerInv, ProfilerTypeOK
<1>2. pending_syscalls'[p] = Absent
      /\ \A q \in Pids \ {p} : pending_syscalls'[q] = pending_syscalls[q]
  BY DEF wait_exited, ProfilerInv, ProfilerTypeOK
<1>3. TaskInv(NoTask, pending_syscalls'[p], p \in renamed)
  BY <1>2, ProfilerAssumption DEF TaskInv
<1>4. task' = [task EXCEPT ![p] = NoTask] /\ NoTask \in Task \cup {NoTask}
  BY DEF wait_exited
<1> QED
  BY <1>1, <1>2, <1>3, <1>4, OneTask, LoopKeeps

LEMMA UntrackedKeeps ==
  ASSUME ProfilerInv, NEW p \in Pids, wait_untracked(p)
  PROVE  ProfilerInv'
<1> DEFINE t == Resumed(p)
<1>1. Wait(p, {"entry", "exit"}) /\ task' = Resume(p)
      /\ UNCHANGED <<tracked_pids, pending_syscalls, lost>>
  BY DEF wait_untracked
<1>2. pending_syscalls[p] \notin Calls
  BY PendingType DEF ProfilerInv, wait_untracked
<1>3. t \in Task /\ task' = [task EXCEPT ![p] = t] /\ renamed' = renamed
  BY <1>1, ResumedType
<1>4. TaskInv(t, pending_syscalls'[p], p \in renamed)
  BY <1>1, <1>2, ResumedType DEF TaskInv, InCall, Printable
<1>5. TableTypes' /\ lost' \subseteq Pids /\ UNCHANGED <<loop, used, calls, renamed>>
  BY <1>1 DEF wait_untracked, Wait, silent, TableTypes, ProfilerInv, ProfilerTypeOK
<1> QED
  BY <1>1, <1>3, <1>4, <1>5, OneTask, LoopKeeps

LEMMA EntryKeeps ==
  ASSUME ProfilerInv, NEW p \in Pids, wait_entry(p)
  PROVE  ProfilerInv'
<1>1. PICK parsed \in parse_profile_syscall(task[p].call) :
        /\ pending_syscalls' = [pending_syscalls EXCEPT ![p] = parsed]
        /\ task' = [Resume(p) EXCEPT ![p].parsed = (parsed # Nullopt)]
  BY DEF wait_entry
<1>2. Wait(p, {"entry"}) /\ p \in tracked_pids /\ printed' = NoRecord
      /\ UNCHANGED <<tracked_pids, lost>>
  BY DEF wait_entry, silent
<1>3. parsed = Nullopt \/ (parsed = task[p].call /\ parsed \in Calls)
  BY ProfilerAssumption DEF parse_profile_syscall
<1> DEFINE r == Resumed(p)
           t == [r EXCEPT !.parsed = (parsed # Nullopt)]
<1>4. /\ r \in Task /\ r.stop = "none" /\ r.at = task[p].at /\ r.call = task[p].call
      /\ r.remapped = task[p].remapped /\ r.records = task[p].records
      /\ Resume(p) = [task EXCEPT ![p] = r]
  BY <1>2, ResumedType
<1>5. task \in [Pids -> Task \cup {NoTask}]
      /\ pending_syscalls \in [Pids -> Calls \cup {Absent, Nullopt}]
  BY DEF ProfilerInv, ProfilerTypeOK
<1> HIDE DEF r
<1>6. /\ t \in Task /\ t # NoTask
      /\ t.stop = "none" /\ t.at = task[p].at /\ t.call = task[p].call
      /\ t.parsed = (parsed # Nullopt)
      /\ t.remapped = task[p].remapped /\ t.records = task[p].records
  BY <1>4, NamesAssumption DEF Task
<1>7. task' = [task EXCEPT ![p] = t]
  BY <1>1, <1>4, <1>5
<1> HIDE DEF t
<1>8. pending_syscalls'[p] = parsed
      /\ \A q \in Pids \ {p} : pending_syscalls'[q] = pending_syscalls[q]
  BY <1>1, <1>5
<1>9. TaskInv(t, parsed, p \in renamed)
  <2>1. /\ task[p] # NoTask /\ task[p].stop = "entry"
        /\ TaskInv(task[p], pending_syscalls[p], p \in renamed)
    BY <1>2, ResumedType
  <2>2. t.at = "kernel" /\ t.records = 0 /\ ~t.remapped
    BY <1>6, <2>1 DEF TaskInv, InCall
  <2>3. (parsed # Nullopt) <=> parsed \in Calls
    BY <1>3, ProfilerAssumption
  <2> QED
    BY <1>3, <1>6, <2>2, <2>3 DEF TaskInv, InCall
<1>10. renamed' = renamed
  BY <1>2, ResumedType
<1>11. TableTypes' /\ lost' \subseteq Pids /\ UNCHANGED <<loop, used, calls, renamed>>
  BY <1>1, <1>2, <1>3 DEF Wait, TableTypes, ProfilerInv, ProfilerTypeOK
<1> QED
  BY <1>6, <1>7, <1>8, <1>9, <1>10, <1>11, OneTask, LoopKeeps

\* What an exit stop finds pending is the call it ends, unless a thread's execve
\* has brought it under the leader's pid.
LEMMA ExitPending ==
  ASSUME ProfilerInv, NEW p \in Pids, Wait(p, {"exit"}), ~task[p].remapped
  PROVE  /\ task[p].records = 0
         /\ has_call(p) <=> task[p].parsed
         /\ has_call(p) => pending_syscalls[p] = task[p].call
<1>1. /\ task[p] # NoTask /\ task[p].stop = "exit"
      /\ TaskInv(task[p], pending_syscalls[p], p \in renamed)
  BY ResumedType
<1>2. has_call(p) <=> pending_syscalls[p] \in Calls
  BY PendingType DEF ProfilerInv
<1> QED
  BY <1>1, <1>2 DEF TaskInv, InCall, Fresh

LEMMA ExitStopKeeps ==
  ASSUME ProfilerInv, NEW p \in Pids, wait_exit(p)
  PROVE  ProfilerInv'
<1> DEFINE prints == has_call(p) /\ should_print(p, task[p].ret)
           r == Resumed(p)
           t == IF prints THEN [r EXCEPT !.records = @ + 1] ELSE r
<1>1. /\ Wait(p, {"exit"}) /\ p \in tracked_pids
      /\ pending_syscalls' = [pending_syscalls EXCEPT ![p] = Nullopt]
      /\ UNCHANGED <<tracked_pids, lost>>
      /\ prints => printed' = print_syscall(p, pending_syscalls[p], task[p].ret)
                   /\ task' = [Resume(p) EXCEPT ![p].records = @ + 1]
      /\ ~prints => printed' = NoRecord /\ task' = Resume(p)
  BY DEF wait_exit, silent
<1>2. /\ task[p] \in Task /\ task[p] # NoTask /\ task[p].stop = "exit"
      /\ TaskInv(task[p], pending_syscalls[p], p \in renamed)
      /\ r \in Task /\ r # NoTask /\ r.stop = "none" /\ r.at = task[p].at
      /\ r.call = task[p].call /\ r.ret = task[p].ret /\ r.parsed = task[p].parsed
      /\ r.remapped = task[p].remapped /\ r.records = task[p].records
      /\ Resume(p) = [task EXCEPT ![p] = r]
      /\ UNCHANGED <<loop, used, calls, renamed>>
  BY <1>1, ResumedType
<1>3. task \in [Pids -> Task \cup {NoTask}]
      /\ pending_syscalls \in [Pids -> Calls \cup {Absent, Nullopt}]
  BY DEF ProfilerInv, ProfilerTypeOK
<1>4. prints => print_syscall(p, pending_syscalls[p], task[p].ret) \in Record
  <2>1. task[p].ret \in Retvals
    BY <1>2 DEF Task
  <2> QED
    BY <2>1, PendingType DEF ProfilerInv, print_syscall, Record
<1>5. ~task[p].remapped =>
        task[p].records = 0 /\ (prints <=> Printable(task[p]))
  BY <1>1, ExitPending DEF Printable, should_print
<1> HIDE DEF prints, r
<1>6. /\ t \in Task /\ t # NoTask
      /\ t.stop = "none" /\ t.at = task[p].at /\ t.call = task[p].call /\ t.ret = task[p].ret
      /\ t.parsed = task[p].parsed /\ t.remapped = task[p].remapped
      /\ t.records = IF prints THEN task[p].records + 1 ELSE task[p].records
  BY <1>2, NamesAssumption DEF Task
<1>7. task' = [task EXCEPT ![p] = t]
  BY <1>1, <1>2, <1>3
<1> HIDE DEF t
<1>8. pending_syscalls'[p] = Nullopt
      /\ \A q \in Pids \ {p} : pending_syscalls'[q] = pending_syscalls[q]
  BY <1>1, <1>3
<1>9. TaskInv(t, Nullopt, p \in renamed)
  <2>1. Nullopt \notin Calls
    BY ProfilerAssumption
  <2>2. t.at \in {"user", "trapping"}
    BY <1>2, <1>6 DEF TaskInv
  <2>3. Printable(t) <=> Printable(task[p])
    BY <1>6 DEF Printable
  <2> QED
    BY <1>5, <1>6, <2>1, <2>2, <2>3 DEF TaskInv, InCall
<1>10. TableTypes' /\ lost' \subseteq Pids
  <2>1. printed' \in Record \cup {NoRecord}
    BY <1>1, <1>4
  <2> QED
    BY <1>1, <2>1 DEF TableTypes, ProfilerInv, ProfilerTypeOK
<1> QED
  BY <1>2, <1>6, <1>7, <1>8, <1>9, <1>10, OneTask, LoopKeeps

LEMMA EventKeeps ==
  ASSUME ProfilerInv, NEW p \in Pids, wait_fork(p) \/ wait_signal(p)
  PROVE  ProfilerInv'
<1> DEFINE t == Resumed(p)
<1>1. PICK stops : stops \subseteq {"fork", "sigstop", "trap"} /\ Wait(p, stops)
  BY DEF wait_fork, wait_signal
<1>2. task' = Resume(p) /\ UNCHANGED <<pending_syscalls, lost>> /\ printed' = NoRecord
  BY DEF wait_fork, wait_signal, silent
<1>3. /\ t \in Task /\ task' = [task EXCEPT ![p] = t]
      /\ UNCHANGED <<loop, used, calls, renamed>>
  BY <1>1, <1>2, ResumedType
<1>4. /\ task[p] \in Task /\ task[p] # NoTask /\ task[p].stop \in {"fork", "sigstop", "trap"}
      /\ TaskInv(task[p], pending_syscalls[p], p \in renamed)
      /\ t # NoTask /\ t.stop = "none" /\ t.at = task[p].at /\ t.call = task[p].call
      /\ t.ret = task[p].ret /\ t.parsed = task[p].parsed
      /\ t.remapped = task[p].remapped /\ t.records = task[p].records
  BY <1>1, ResumedType
<1> HIDE DEF t
<1>5. TaskInv(t, pending_syscalls'[p], p \in renamed)
  BY <1>2, <1>4 DEF TaskInv, InCall, Fresh, Printable
<1>6. task[p].msg \in Pids
  BY <1>4 DEF Task
<1>7. TableTypes' /\ lost' \subseteq Pids
  BY <1>2, <1>6 DEF wait_fork, wait_signal, TableTypes, ProfilerInv, ProfilerTypeOK
<1> QED
  BY <1>2, <1>3, <1>5, <1>7, OneTask, LoopKeeps

LEMMA KilledKeeps ==
  ASSUME ProfilerInv, NEW p \in Pids, wait_killed(p)
  PROVE  ProfilerInv'
<1>1. /\ Kill(Group(task[p].tgid)) /\ UNCHANGED <<pending_syscalls, used, calls, loop>>
      /\ tracked_pids' = tracked_pids \cup {ZeroPid} /\ printed' = NoRecord
  BY DEF wait_killed, silent
<1>2. Group(task[p].tgid) \subseteq {q \in Pids : exists(q)}
  BY DEF Group
<1>3. TableTypes'
  BY <1>1, ProfilerAssumption DEF TableTypes, ProfilerInv, ProfilerTypeOK
<1> QED
  BY <1>1, <1>2, <1>3, SomeEnd, LoopKeeps

-----------------------------------------------------------------------------
(* The invariant of the specification.                                     *)

LEMMA ProfilerInitInv == ProfilerInit => ProfilerInv
<1> SUFFICES ASSUME ProfilerInit PROVE ProfilerInv
  OBVIOUS
<1> DEFINE r == NewTask(Root, "none")
<1>1. /\ tracked_pids = {Root} /\ pending_syscalls = [p \in Pids |-> Absent]
      /\ printed = NoRecord /\ loop = "waiting"
      /\ task = [p \in Pids |-> IF p = Root THEN r ELSE NoTask]
      /\ used = {Root} /\ calls = 0 /\ lost = {} /\ renamed = {}
  BY DEF ProfilerInit
<1>2. Root \in Pids /\ Absent \notin Calls
  BY ProfilerAssumption
<1>3. r \in Task /\ \A gone : TaskInv(r, Absent, gone)
  BY <1>2, NewTaskType, NewTaskInv DEF Stops
<1> HIDE DEF r
<1>4. \A gone : TaskInv(NoTask, Absent, gone)
  BY <1>2 DEF TaskInv
<1>5. TasksInv
  BY <1>1, <1>3, <1>4 DEF TasksInv
<1>6. ProfilerTypeOK
  BY <1>1, <1>2, <1>3 DEF ProfilerTypeOK
<1> QED
  BY <1>5, <1>6 DEF ProfilerInv

LEMMA KernelStep ==
  ASSUME ProfilerInv, Kernel
  PROVE  ProfilerInv'
<1> USE DEF Kernel, silent
<1>1. CASE \E p \in Pids, c \in Calls : Syscall(p, c)
  BY <1>1, SyscallKeeps
<1>2. CASE \E p \in Pids, ret \in Retvals : Return(p, ret)
  BY <1>2, ReturnKeeps
<1>3. CASE \E p, q \in Pids : Spawn(p, q)
  BY <1>3, SpawnKeeps
<1>4. CASE \E p \in Pids : ThreadExit(p) \/ GroupExit(p)
  BY <1>4, ExitKeeps
<1>5. CASE \E p \in Pids : ExecBegin(p)
  BY <1>5, ExecBeginKeeps
<1>6. CASE \E p \in Pids : ExecDone(p)
  BY <1>6, ExecDoneKeeps
<1>7. CASE \E p \in Pids : Trap(p)
  BY <1>7, TrapKeeps
<1> QED
  BY <1>1, <1>2, <1>3, <1>4, <1>5, <1>6, <1>7

LEMMA ProfilerStutter ==
  ASSUME ProfilerInv, UNCHANGED profilerVars
  PROVE  ProfilerInv'
BY DEF profilerVars, kernel, ProfilerInv, ProfilerTypeOK, TasksInv, TaskInv, InCall, Fresh, Printable

LEMMA ProfilerStep == ProfilerInv /\ [ProfilerNext]_profilerVars => ProfilerInv'
<1> SUFFICES ASSUME ProfilerInv, [ProfilerNext]_profilerVars PROVE ProfilerInv'
  OBVIOUS
<1>1. CASE Kernel
  BY <1>1, KernelStep
<1>2. ASSUME NEW p \in Pids, Round(p) PROVE ProfilerInv'
  BY <1>2, ExitedKeeps, UntrackedKeeps, EntryKeeps, ExitStopKeeps, EventKeeps, KilledKeeps
     DEF Round
<1>3. CASE leave_loop
  BY <1>3 DEF leave_loop, kernel, silent, ProfilerInv, ProfilerTypeOK, TasksInv, TaskInv,
              InCall, Fresh, Printable
<1>4. CASE UNCHANGED profilerVars
  BY <1>4, ProfilerStutter
<1> QED
  BY <1>1, <1>2, <1>3, <1>4 DEF ProfilerNext, MainLoop, Terminated

LEMMA ProfilerInvHolds == ProfilerSpec => []ProfilerInv
BY ProfilerInitInv, ProfilerStep, PTL DEF ProfilerSpec

-----------------------------------------------------------------------------
(* The properties.                                                         *)

\* Every table of the profiler holds what its declaration says, and only a
\* tracked pid has an entry in pending_syscalls.
THEOREM ProfilerTypeCorrect == ProfilerSpec => []ProfilerTypeOK
BY ProfilerInvHolds, PTL DEF ProfilerInv

\* A pending call is the one its task is in, or was in when it ended, apart from
\* what a thread's execve leaves at the leader's pid and at its own.
THEOREM PendingOfOwnCall == ProfilerSpec => []PendingIsOwn
<1>1. ProfilerInv => PendingIsOwn
  <2> SUFFICES ASSUME ProfilerInv, NEW p \in Pids, has_call(p), p \notin renamed
               PROVE  /\ exists(p)
                      /\ \/ task[p].stop = "exited"
                         \/ task[p].stop = "exit" /\ task[p].remapped
                         \/ /\ task[p].call = pending_syscalls[p] /\ task[p].parsed
                            /\ \/ task[p].at \in {"kernel", "execing", "returning"}
                               \/ task[p].stop = "exit"
    BY DEF PendingIsOwn
  <2>1. pending_syscalls[p] \in Calls
    BY PendingType DEF ProfilerInv
  <2>2. TaskInv(task[p], pending_syscalls[p], p \in renamed)
    BY DEF ProfilerInv, TasksInv
  <2> QED
    BY <2>1, <2>2 DEF TaskInv, InCall, exists
<1> QED
  BY <1>1, ProfilerInvHolds, PTL

\* Each call is printed once if it was parsed and succeeded, and never otherwise.
THEOREM PrintsOnce == ProfilerSpec => []PrintedOnce
<1>1. ProfilerInv => PrintedOnce
  <2> SUFFICES ASSUME ProfilerInv, NEW p \in Pids, Running(p),
                      task[p].at \in {"user", "trapping"}, ~task[p].remapped
               PROVE  task[p].records = IF Printable(task[p]) THEN 1 ELSE 0
    BY DEF PrintedOnce
  <2>1. TaskInv(task[p], pending_syscalls[p], p \in renamed)
    BY DEF ProfilerInv, TasksInv
  <2> QED
    BY <2>1 DEF TaskInv, InCall, Running, exists
<1> QED
  BY <1>1, ProfilerInvHolds, PTL

\* A record is of the call that its pid returns from, with its result, but for
\* the execve of a thread.
THEOREM RecordsOwnCalls == ProfilerSpec => PrintedOwnCall
<1> DEFINE Own == printed' # NoRecord =>
              LET p == printed'.pid
              IN  \/ task[p].remapped
                  \/ /\ task[p].parsed
                     /\ printed'.call = task[p].call
                     /\ printed'.retval = task[p].ret
<1>1. ASSUME ProfilerInv, NEW p \in Pids, wait_exit(p) PROVE Own
  <2>1. Wait(p, {"exit"})
    BY <1>1 DEF wait_exit
  <2>2. printed' = NoRecord
        \/ (has_call(p) /\ printed' = print_syscall(p, pending_syscalls[p], task[p].ret))
    BY <1>1 DEF wait_exit, silent
  <2> QED
    BY <1>1, <2>1, <2>2, ExitPending DEF print_syscall
<1>2. ASSUME ProfilerInv, ProfilerNext PROVE Own \/ UNCHANGED profilerVars
  <2>1. (\E p \in Pids : wait_exit(p)) \/ printed' = NoRecord \/ UNCHANGED profilerVars
    BY <1>2 DEF ProfilerNext, Kernel, MainLoop, Round, Terminated, leave_loop, silent,
         wait_exited, wait_untracked, wait_entry, wait_fork, wait_signal, wait_killed
  <2> QED
    BY <1>1, <1>2, <2>1
<1>3. ProfilerInv /\ [ProfilerNext]_profilerVars => [Own]_profilerVars
  BY <1>2
<1> QED
  BY <1>3, ProfilerInvHolds, PTL DEF ProfilerSpec, PrintedOwnCall

-----------------------------------------------------------------------------
(* When the loop ends.  The argument goes through the creators of tasks:   *)
(* if nothing is tracked, each task that is left has a creator whose fork  *)
(* stop waits, and there is no first one.  Pids may be reused.             *)

Creates(p, q) == exists(p) /\ task[p].stop = "fork" /\ task[p].msg = q

\* A leader stays, at least as a zombie, as long as its group.
Led == \A p \in Pids : exists(p) =>
         exists(task[p].tgid) /\ task[task[p].tgid].tgid = task[p].tgid

\* A thread executes a program when the others of its group are dead.
ExecAlone ==
  \A p, q \in Pids :
    exists(p) /\ exists(q) /\ p # q /\ task[p].tgid = task[q].tgid =>
      (task[p].at = "execing" => task[q].stop = "exited")

\* Every task is tracked, or its creation is still to be reported, or was lost.
TrackedOrPending ==
  \A q \in Pids : exists(q) =>
    q \in tracked_pids \/ q \in lost \/ \E p \in Pids : Creates(p, q)

\* In any set of pids, one was created by none of the others.
Ordered ==
  \A X \in SUBSET Pids : X # {} => \E q \in X : \A p \in X : ~Creates(p, q)

GroupInv == Led /\ ExecAlone /\ TrackedOrPending /\ Ordered

\* No task is made, and a creation that is not pending any more was reported or
\* lost.
Settles ==
  /\ \A q \in Pids : (exists(q)' <=> exists(q)) /\ (exists(q) => task'[q].tgid = task[q].tgid)
  /\ tracked_pids \subseteq tracked_pids' /\ lost \subseteq lost'
  /\ \A p, q \in Pids : Creates(p, q)' => Creates(p, q)
  /\ \A p, q \in Pids : Creates(p, q) => Creates(p, q)' \/ q \in tracked_pids' \/ q \in lost'

LEMMA Settled ==
  ASSUME ProfilerInv, GroupInv, Settles
  PROVE  Led' /\ TrackedOrPending' /\ Ordered'
<1>1. \A p \in Pids : exists(p) => task[p].tgid \in Pids
  BY TaskType DEF ProfilerInv, Task
<1>2. ASSUME NEW p \in Pids, exists(p)'
      PROVE  task'[task'[p].tgid] # NoTask /\ task'[task'[p].tgid].tgid = task'[p].tgid
  <2>1. PICK g \in Pids : g = task[p].tgid /\ exists(g) /\ task[g].tgid = g
    BY <1>1, <1>2 DEF Settles, GroupInv, Led
  <2> QED
    BY <1>2, <2>1 DEF Settles, exists
<1>3. Led'
  BY <1>2 DEF Led, exists
<1>4. TrackedOrPending'
  <2> SUFFICES ASSUME NEW q \in Pids, exists(q)'
               PROVE  q \in tracked_pids' \/ q \in lost' \/ \E p \in Pids : Creates(p, q)'
    BY DEF TrackedOrPending, Creates
  <2>1. q \in tracked_pids \/ q \in lost \/ \E p \in Pids : Creates(p, q)
    BY DEF Settles, GroupInv, TrackedOrPending
  <2> QED
    BY <2>1 DEF Settles
<1>5. Ordered'
  BY DEF Settles, GroupInv, Ordered
<1> QED
  BY <1>3, <1>4, <1>5

\* A step changes the task of p to t.
LEMMA OneSettles ==
  ASSUME ProfilerInv, GroupInv, NEW p \in Pids, exists(p),
         NEW t \in Task, task' = [task EXCEPT ![p] = t],
         t.tgid = task[p].tgid, t.stop # "fork",
         t.at = "execing" => task[p].at = "execing",
         task[p].stop # "exited",
         tracked_pids \subseteq tracked_pids', lost' = lost,
         task[p].stop = "fork" => task[p].msg \in tracked_pids'
  PROVE  GroupInv'
<1>1. /\ task'[p] = t /\ \A q \in Pids \ {p} : task'[q] = task[q]
  BY DEF ProfilerInv, ProfilerTypeOK
<1>2. t # NoTask
  BY NamesAssumption
<1>3. \A q \in Pids : exists(q)' <=> exists(q)
  BY <1>1, <1>2 DEF exists
<1>4. \A o, q \in Pids : Creates(o, q)' <=> Creates(o, q) /\ o # p
  BY <1>1, <1>3 DEF Creates
<1>5. Settles
  BY <1>1, <1>3, <1>4 DEF Settles, Creates
<1>6. ExecAlone'
  <2> SUFFICES ASSUME NEW o \in Pids, NEW n \in Pids, exists(o)', exists(n)', o # n,
                      task'[o].tgid = task'[n].tgid, task'[o].at = "execing"
               PROVE  task'[n].stop = "exited"
    BY DEF ExecAlone
  <2>1. exists(o) /\ exists(n) /\ task[o].tgid = task[n].tgid /\ task[o].at = "execing"
    BY <1>1, <1>3
  <2>2. task[n].stop = "exited"
    BY <2>1 DEF GroupInv, ExecAlone
  <2> QED
    BY <1>1, <2>2
<1> QED
  BY <1>5, <1>6, Settled DEF GroupInv

\* The tasks of S end, and what they created is lost.
LEMMA EndSettles ==
  ASSUME ProfilerInv, GroupInv, NEW S, S \subseteq {p \in Pids : exists(p)}, Kill(S),
         tracked_pids \subseteq tracked_pids'
  PROVE  GroupInv'
<1> DEFINE end(q) == NewTask(task[q].tgid, "exited")
<1>1. \A q \in S : /\ end(q) \in Task /\ end(q) # NoTask /\ end(q).tgid = task[q].tgid
                   /\ end(q).stop = "exited" /\ end(q).at = "user"
  <2>1. \A q \in S : task[q].tgid \in Pids
    BY TaskType DEF ProfilerInv, Task
  <2> QED
    BY <2>1, NewTaskType, NamesAssumption DEF Stops
<1>2. /\ \A q \in Pids : task'[q] = IF q \in S THEN end(q) ELSE task[q]
      /\ lost' = lost \cup {task[q].msg : q \in {u \in S : task[u].stop = "fork"}}
  BY DEF Kill
<1> HIDE DEF end
<1>3. \A q \in Pids : exists(q)' <=> exists(q)
  BY <1>1, <1>2 DEF exists
<1>4. \A o, q \in Pids : Creates(o, q)' <=> Creates(o, q) /\ o \notin S
  BY <1>1, <1>2, <1>3 DEF Creates
<1>5. \A o, q \in Pids : Creates(o, q) /\ o \in S => q \in lost'
  BY <1>2 DEF Creates
<1>6. Settles
  BY <1>1, <1>2, <1>3, <1>4, <1>5 DEF Settles
<1>7. ExecAlone'
  <2> SUFFICES ASSUME NEW o \in Pids, NEW n \in Pids, exists(o)', exists(n)', o # n,
                      task'[o].tgid = task'[n].tgid, task'[o].at = "execing"
               PROVE  task'[n].stop = "exited"
    BY DEF ExecAlone
  <2>1. exists(o) /\ exists(n) /\ task[o].tgid = task[n].tgid /\ task[o].at = "execing"
    BY <1>1, <1>2, <1>3
  <2>2. task[n].stop = "exited"
    BY <2>1 DEF GroupInv, ExecAlone
  <2> QED
    BY <1>1, <1>2, <2>2
<1> QED
  BY <1>6, <1>7, Settled DEF GroupInv

\* A new task has created nothing, so the order of creators stays one.
LEMMA SpawnSettles ==
  ASSUME ProfilerInv, GroupInv, NEW p \in Pids, NEW q \in Pids, Spawn(p, q),
         UNCHANGED tracked_pids
  PROVE  GroupInv'
<1> DEFINE t == [task[p] EXCEPT !.at = "returning", !.stop = "fork", !.msg = q]
           group == IF task[p].call \in Threads THEN task[p].tgid ELSE q
           n == NewTask(group, "sigstop")
<1>0. task \in [Pids -> Task \cup {NoTask}]
  BY DEF ProfilerInv, ProfilerTypeOK
<1>1. /\ task[p] \in Task /\ task[p] # NoTask /\ task[p].tgid \in Pids
      /\ task[p].stop = "none" /\ exists(p) /\ ~exists(q) /\ task[q] = NoTask /\ p # q
  BY TaskType DEF ProfilerInv, Spawn, Running, exists, Task
<1>2. /\ t # NoTask /\ t.tgid = task[p].tgid /\ t.at = "returning" /\ t.stop = "fork"
      /\ t.msg = q
  BY <1>1, NamesAssumption DEF Task, Places, Stops
<1>3. group \in {task[p].tgid, q}
  OBVIOUS
<1>4. n # NoTask /\ n.tgid = group /\ n.stop = "sigstop" /\ n.at = "user"
  BY <1>1, <1>3, NewTaskType, NamesAssumption DEF Stops
<1>5. task' = [task EXCEPT ![p].at = "returning", ![p].stop = "fork", ![p].msg = q, ![q] = n]
      /\ lost' = lost /\ tracked_pids' = tracked_pids
  BY DEF Spawn
<1> HIDE DEF n, group
<1>6. task' = [task EXCEPT ![p] = t, ![q] = n]
  BY <1>0, <1>1, <1>5
<1> HIDE DEF t
<1>7. task'[p] = t /\ task'[q] = n /\ \A u \in Pids \ {p, q} : task'[u] = task[u]
  BY <1>0, <1>1, <1>6
<1>8. \A u \in Pids : exists(u)' <=> exists(u) \/ u = q
  BY <1>1, <1>2, <1>4, <1>7 DEF exists
<1>9. \A o, u \in Pids : Creates(o, u)' <=> Creates(o, u) \/ (o = p /\ u = q)
  BY <1>1, <1>2, <1>4, <1>7, <1>8 DEF Creates
<1>10. \A u \in Pids : exists(u) => exists(task[u].tgid) /\ task[u].tgid # q
  BY <1>1 DEF GroupInv, Led
<1>11. \A u \in Pids : exists(u) => task'[u].tgid = task[u].tgid
  BY <1>1, <1>2, <1>7
<1>12. Led'
  <2> SUFFICES ASSUME NEW u \in Pids, exists(u)'
               PROVE  task'[task'[u].tgid] # NoTask /\ task'[task'[u].tgid].tgid = task'[u].tgid
    BY DEF Led, exists
  <2>1. ASSUME NEW o \in Pids, exists(o)
        PROVE  task'[task[o].tgid] # NoTask /\ task'[task[o].tgid].tgid = task[o].tgid
    <3>1. PICK g \in Pids : g = task[o].tgid /\ exists(g) /\ task[g].tgid = g
      BY <2>1, TaskType DEF GroupInv, Led, ProfilerInv, Task
    <3> QED
      BY <1>8, <1>11, <3>1 DEF exists
  <2>2. CASE u # q
    BY <1>8, <1>11, <2>1, <2>2
  <2>3. CASE u = q /\ group = q
    BY <1>4, <1>7, <2>3
  <2>4. CASE u = q /\ group = task[p].tgid
    BY <1>1, <1>4, <1>7, <2>1, <2>4
  <2> QED
    BY <1>3, <2>2, <2>3, <2>4
<1>13. ExecAlone'
  <2> SUFFICES ASSUME NEW o \in Pids, NEW u \in Pids, exists(o)', exists(u)', o # u,
                      task'[o].tgid = task'[u].tgid, task'[o].at = "execing"
               PROVE  task'[u].stop = "exited"
    BY DEF ExecAlone
  <2>1. o # p /\ o # q /\ exists(o) /\ task'[o] = task[o]
    BY <1>2, <1>4, <1>7, <1>8
  <2>2. CASE u = q
    <3>1. task[o].tgid = task[p].tgid
      BY <1>3, <1>4, <1>7, <1>10, <2>1, <2>2
    <3> QED
      BY <1>1, <2>1, <3>1 DEF GroupInv, ExecAlone
  <2>3. CASE u # q
    <3>1. exists(u) /\ task[o].tgid = task[u].tgid
      BY <1>8, <1>11, <2>1, <2>3
    <3>2. task[u].stop = "exited"
      BY <2>1, <3>1 DEF GroupInv, ExecAlone
    <3> QED
      BY <1>1, <1>7, <2>3, <3>2
  <2> QED
    BY <2>2, <2>3
<1>14. TrackedOrPending'
  <2> SUFFICES ASSUME NEW u \in Pids, exists(u)'
               PROVE  u \in tracked_pids' \/ u \in lost' \/ \E o \in Pids : Creates(o, u)'
    BY DEF TrackedOrPending, Creates
  <2>1. CASE u = q
    BY <1>9, <2>1
  <2>2. CASE u # q
    <3>1. u \in tracked_pids \/ u \in lost \/ \E o \in Pids : Creates(o, u)
      BY <1>8, <2>2 DEF GroupInv, TrackedOrPending
    <3> QED
      BY <1>5, <1>9, <3>1
  <2> QED
    BY <2>1, <2>2
<1>15. Ordered'
  <2> SUFFICES ASSUME NEW X \in SUBSET Pids, X # {}
               PROVE  \E u \in X : \A o \in X : ~Creates(o, u)'
    BY DEF Ordered
  <2>1. \A u \in Pids : ~Creates(q, u)'
    BY <1>1, <1>9 DEF Creates
  <2>2. CASE X = {q}
    BY <2>1, <2>2
  <2>3. CASE X # {q}
    <3>1. X \ {q} # {} /\ X \ {q} \in SUBSET Pids
      BY <2>3
    <3>2. PICK u \in X \ {q} : \A o \in X \ {q} : ~Creates(o, u)
      BY <3>1 DEF GroupInv, Ordered
    <3> QED
      BY <1>9, <2>1, <3>2
  <2> QED
    BY <2>2, <2>3
<1> QED
  BY <1>12, <1>13, <1>14, <1>15 DEF GroupInv

LEMMA ExecBeginSettles ==
  ASSUME ProfilerInv, GroupInv, NEW p \in Pids, ExecBegin(p), UNCHANGED tracked_pids
  PROVE  GroupInv'
<1> DEFINE others == Group(task[p].tgid) \ {p}
           t == [task[p] EXCEPT !.at = "execing"]
           end(q) == NewTask(task[q].tgid, "exited")
<1>1. task[p] \in Task /\ task[p] # NoTask /\ exists(p) /\ task[p].stop = "none"
  BY TaskType DEF ProfilerInv, ExecBegin, Running
<1>2. t # NoTask /\ t.tgid = task[p].tgid /\ t.at = "execing" /\ t.stop = "none"
  BY <1>1, NamesAssumption DEF Task, Places
<1>3. /\ \A q \in others : q \in Pids /\ exists(q) /\ q # p
      /\ \A q \in Pids : exists(q) /\ task[q].tgid = task[p].tgid /\ q # p => q \in others
  BY DEF Group
<1>4. \A q \in others : /\ end(q) # NoTask /\ end(q).tgid = task[q].tgid
                        /\ end(q).stop = "exited" /\ end(q).at = "user"
  <2>1. \A q \in others : task[q].tgid \in Pids
    BY <1>3, TaskType DEF ProfilerInv, Task
  <2> QED
    BY <2>1, NewTaskType, NamesAssumption DEF Stops
<1>5. /\ \A q \in Pids : task'[q] = IF q \in others THEN end(q) ELSE IF q = p THEN t ELSE task[q]
      /\ lost' = lost \cup {task[q].msg : q \in {u \in others : task[u].stop = "fork"}}
  BY DEF ExecBegin
<1> HIDE DEF others, t, end
<1>6. \A q \in Pids : exists(q)' <=> exists(q)
  BY <1>1, <1>2, <1>3, <1>4, <1>5 DEF exists
<1>7. \A q \in Pids : task'[q].tgid = task[q].tgid
  BY <1>2, <1>3, <1>4, <1>5
<1>8. \A o, q \in Pids : Creates(o, q)' <=> Creates(o, q) /\ o \notin others
  BY <1>1, <1>2, <1>3, <1>4, <1>5, <1>6 DEF Creates
<1>9. \A o, q \in Pids : Creates(o, q) /\ o \in others => q \in lost'
  BY <1>5 DEF Creates
<1>10. Settles
  BY <1>5, <1>6, <1>7, <1>8, <1>9 DEF Settles
<1>11. ExecAlone'
  <2> SUFFICES ASSUME NEW o \in Pids, NEW n \in Pids, exists(o)', exists(n)', o # n,
                      task'[o].tgid = task'[n].tgid, task'[o].at = "execing"
               PROVE  task'[n].stop = "exited"
    BY DEF ExecAlone
  <2>1. exists(o) /\ exists(n) /\ task[o].tgid = task[n].tgid /\ o \notin others
    BY <1>4, <1>5, <1>6, <1>7
  <2>2. CASE o = p
    <3>1. n \in others
      BY <1>3, <2>1, <2>2
    <3> QED
      BY <1>4, <1>5, <3>1
  <2>3. CASE o # p
    <3>1. task[o].at = "execing"
      BY <1>5, <2>1, <2>3
    <3>2. task[n].stop = "exited"
      BY <2>1, <3>1 DEF GroupInv, ExecAlone
    <3>3. n # p
      BY <1>1, <3>2
    <3> QED
      BY <1>4, <1>5, <3>2, <3>3
  <2> QED
    BY <2>2, <2>3
<1> QED
  BY <1>10, <1>11, Settled DEF GroupInv

\* The leader whose pid is taken is dead, so nothing it created is forgotten.
LEMMA ExecDoneSettles ==
  ASSUME ProfilerInv, GroupInv, NEW p \in Pids, ExecDone(p), UNCHANGED tracked_pids
  PROVE  GroupInv'
<1> DEFINE leader == task[p].tgid
           t == [task[p] EXCEPT !.at = "trapping", !.stop = "exit", !.remapped = (p # leader)]
<1>1. /\ task[p] \in Task /\ task[p] # NoTask /\ leader \in Pids /\ exists(p)
      /\ task[p].at = "execing" /\ task[p].stop = "none"
  BY TaskType DEF ProfilerInv, ExecDone, Running, Task
<1>2. t # NoTask /\ t.tgid = leader /\ t.at = "trapping" /\ t.stop = "exit"
  BY <1>1, NamesAssumption DEF Task, Places, Stops
<1>3. /\ \A q \in Pids : task'[q] = IF q = leader THEN t ELSE IF q = p THEN NoTask ELSE task[q]
      /\ lost' = lost /\ Group(leader) \subseteq {p, leader}
  BY DEF ExecDone
<1>4. exists(leader) /\ task[leader].tgid = leader
  BY <1>1 DEF GroupInv, Led
<1>5. p # leader => task[leader].stop = "exited"
  BY <1>1, <1>4 DEF GroupInv, ExecAlone
<1>6. \A q \in Pids : exists(q) /\ task[q].tgid = leader => q \in {p, leader}
  BY <1>3 DEF Group
<1>7. p # leader => \A q \in Pids : exists(q) => task[q].tgid # p
  BY <1>1, <1>4 DEF GroupInv, Led
<1> HIDE DEF t, leader
<1>8. \A q \in Pids : exists(q)' <=> exists(q) /\ (q = leader \/ q # p)
  BY <1>1, <1>2, <1>3, <1>4 DEF exists
<1>9. \A o, q \in Pids : Creates(o, q)' <=> Creates(o, q)
  BY <1>1, <1>2, <1>3, <1>5, <1>8 DEF Creates
<1>10. \A q \in Pids : exists(q)' => exists(q) /\ task'[q].tgid = task[q].tgid
  BY <1>2, <1>3, <1>4, <1>8
<1>11. Led'
  <2> SUFFICES ASSUME NEW u \in Pids, exists(u)'
               PROVE  task'[task'[u].tgid] # NoTask /\ task'[task'[u].tgid].tgid = task'[u].tgid
    BY DEF Led, exists
  <2>1. PICK g \in Pids : g = task[u].tgid /\ exists(g) /\ task[g].tgid = g
    BY <1>10, TaskType DEF GroupInv, Led, ProfilerInv, Task
  <2>2. g = leader \/ g # p
    BY <1>7, <1>10, <2>1
  <2> QED
    BY <1>8, <1>10, <2>1, <2>2 DEF exists
<1>12. ExecAlone'
  <2> SUFFICES ASSUME NEW o \in Pids, NEW n \in Pids, exists(o)', exists(n)', o # n,
                      task'[o].tgid = task'[n].tgid, task'[o].at = "execing"
               PROVE  task'[n].stop = "exited"
    BY DEF ExecAlone
  <2>1. o # leader /\ o # p /\ exists(o) /\ exists(n) /\ task[o].tgid = task[n].tgid
    BY <1>2, <1>3, <1>8, <1>10
  <2>2. n # leader
    BY <1>4, <1>6, <2>1
  <2>3. task'[o] = task[o] /\ task'[n] = task[n]
    BY <1>3, <1>8, <2>1, <2>2
  <2> QED
    BY <2>1, <2>3 DEF GroupInv, ExecAlone
<1>13. TrackedOrPending'
  <2> SUFFICES ASSUME NEW q \in Pids, exists(q)'
               PROVE  q \in tracked_pids' \/ q \in lost' \/ \E o \in Pids : Creates(o, q)'
    BY DEF TrackedOrPending, Creates
  <2>1. q \in tracked_pids \/ q \in lost \/ \E o \in Pids : Creates(o, q)
    BY <1>10 DEF GroupInv, TrackedOrPending
  <2> QED
    BY <1>3, <1>9, <2>1
<1>14. Ordered'
  BY <1>9 DEF GroupInv, Ordered
<1> QED
  BY <1>11, <1>12, <1>13, <1>14 DEF GroupInv

\* A leader is waited for when it is the last of its group.
LEMMA ExitedSettles ==
  ASSUME ProfilerInv, GroupInv, NEW p \in Pids, wait_exited(p)
  PROVE  GroupInv'
<1>1. /\ exists(p) /\ task[p].stop = "exited" /\ (task[p].tgid = p => Group(p) = {p})
      /\ tracked_pids' = tracked_pids \ {p} /\ task' = [task EXCEPT ![p] = NoTask]
      /\ lost' = lost
  BY DEF wait_exited, Wait, Waitable
<1>2. task'[p] = NoTask /\ \A q \in Pids \ {p} : task'[q] = task[q]
  BY <1>1 DEF ProfilerInv, ProfilerTypeOK
<1>3. \A q \in Pids : exists(q)' <=> exists(q) /\ q # p
  BY <1>2 DEF exists
<1>4. \A o, q \in Pids : Creates(o, q)' <=> Creates(o, q)
  BY <1>1, <1>2, <1>3 DEF Creates
<1>5. \A q \in Pids : exists(q) /\ q # p => task[q].tgid # p
  <2> SUFFICES ASSUME NEW q \in Pids, exists(q), q # p, task[q].tgid = p PROVE FALSE
    OBVIOUS
  <2>1. task[p].tgid = p
    BY DEF GroupInv, Led
  <2>2. q \in Group(p)
    BY DEF Group
  <2> QED
    BY <1>1, <2>1, <2>2
<1>6. Led'
  <2> SUFFICES ASSUME NEW u \in Pids, exists(u)'
               PROVE  task'[task'[u].tgid] # NoTask /\ task'[task'[u].tgid].tgid = task'[u].tgid
    BY DEF Led, exists
  <2>1. PICK g \in Pids : g = task[u].tgid /\ exists(g) /\ task[g].tgid = g
    BY <1>3, TaskType DEF GroupInv, Led, ProfilerInv, Task
  <2> QED
    BY <1>2, <1>3, <1>5, <2>1 DEF exists
<1>7. ExecAlone'
  BY <1>2, <1>3 DEF GroupInv, ExecAlone
<1>8. TrackedOrPending'
  <2> SUFFICES ASSUME NEW q \in Pids, exists(q)'
               PROVE  q \in tracked_pids' \/ q \in lost' \/ \E o \in Pids : Creates(o, q)'
    BY DEF TrackedOrPending, Creates
  <2>1. q # p /\ (q \in tracked_pids \/ q \in lost \/ \E o \in Pids : Creates(o, q))
    BY <1>3 DEF GroupInv, TrackedOrPending
  <2> QED
    BY <1>1, <1>4, <2>1
<1>9. Ordered'
  BY <1>4 DEF GroupInv, Ordered
<1> QED
  BY <1>6, <1>7, <1>8, <1>9 DEF GroupInv

\* The other steps of tracees that change one task.
LEMMA CallSettles ==
  ASSUME ProfilerInv, GroupInv, NEW p \in Pids, UNCHANGED tracked_pids,
         \/ \E c \in Calls : Syscall(p, c)
         \/ \E ret \in Retvals : Return(p, ret)
         \/ Trap(p)
  PROVE  GroupInv'
<1>1. /\ task[p] \in Task /\ exists(p) /\ task[p].stop = "none" /\ lost' = lost
      /\ task[p].tgid \in Pids
  BY TaskType DEF ProfilerInv, Syscall, Return, Trap, Running, Task
<1>2. ASSUME NEW c \in Calls, Syscall(p, c)
      PROVE  GroupInv'
  <2> DEFINE n == NewTask(task[p].tgid, "entry")
             t == [n EXCEPT !.call = c, !.at = "kernel"]
  <2>1. n \in Task /\ n.tgid = task[p].tgid /\ n.stop = "entry"
    BY <1>1, NewTaskType DEF Stops
  <2>2. task' = [task EXCEPT ![p] = t]
    BY <1>2 DEF Syscall
  <2> HIDE DEF n
  <2>3. t \in Task /\ t.tgid = task[p].tgid /\ t.stop = "entry" /\ t.at = "kernel"
    BY <2>1 DEF Task, Places
  <2> QED
    BY <1>1, <2>2, <2>3, OneSettles
<1>3. ASSUME NEW ret \in Retvals, Return(p, ret)
      PROVE  GroupInv'
  <2> DEFINE t == [task[p] EXCEPT !.at = "user", !.stop = "exit", !.ret = ret]
  <2>1. task' = [task EXCEPT ![p] = t]
    BY <1>3 DEF Return
  <2>2. t \in Task /\ t.tgid = task[p].tgid /\ t.stop = "exit" /\ t.at = "user"
    BY <1>1 DEF Task, Places, Stops
  <2> QED
    BY <1>1, <2>1, <2>2, OneSettles
<1>4. ASSUME Trap(p)
      PROVE  GroupInv'
  <2> DEFINE t == [task[p] EXCEPT !.at = "user", !.stop = "trap"]
  <2>1. task' = [task EXCEPT ![p] = t]
    BY <1>4 DEF Trap
  <2>2. t \in Task /\ t.tgid = task[p].tgid /\ t.stop = "trap" /\ t.at = "user"
    BY <1>1 DEF Task, Places, Stops
  <2> QED
    BY <1>1, <2>1, <2>2, OneSettles
<1> QED
  BY <1>2, <1>3, <1>4

\* The rounds that resume a task.
LEMMA ResumeSettles ==
  ASSUME ProfilerInv, GroupInv, NEW p \in Pids,
         \/ wait_untracked(p) \/ wait_entry(p) \/ wait_exit(p) \/ wait_fork(p) \/ wait_signal(p)
  PROVE  GroupInv'
<1> DEFINE r == Resumed(p)
<1>1. PICK stops : /\ stops \subseteq {"entry", "exit", "fork", "sigstop", "trap"}
                   /\ Wait(p, stops)
  BY DEF wait_untracked, wait_entry, wait_exit, wait_fork, wait_signal
<1>2. /\ lost' = lost /\ tracked_pids \subseteq tracked_pids'
      /\ task[p].stop = "fork" => task[p].msg \in tracked_pids'
  BY DEF wait_untracked, wait_entry, wait_exit, wait_fork, wait_signal, Wait
<1>3. /\ task[p] \in Task /\ exists(p) /\ task[p].stop # "exited"
      /\ r \in Task /\ r.stop = "none" /\ r.at = task[p].at
      /\ Resume(p) = [task EXCEPT ![p] = r]
  BY <1>1, ResumedType DEF exists
<1>4. r.tgid = task[p].tgid
  BY <1>3 DEF Resumed, Task
<1>5. task[p].records \in Nat
  BY <1>3 DEF Task
<1>6. \/ task' = Resume(p)
      \/ \E b \in BOOLEAN : task' = [Resume(p) EXCEPT ![p].parsed = b]
      \/ task' = [Resume(p) EXCEPT ![p].records = @ + 1]
  BY DEF wait_untracked, wait_entry, wait_exit, wait_fork, wait_signal
<1> HIDE DEF r
<1>7. task \in [Pids -> Task \cup {NoTask}]
  BY DEF ProfilerInv, ProfilerTypeOK
<1>8. \E t \in Task : /\ task' = [task EXCEPT ![p] = t]
                      /\ t.tgid = r.tgid /\ t.stop = r.stop /\ t.at = r.at
  <2>1. CASE task' = Resume(p)
    BY <1>3, <2>1
  <2>2. ASSUME NEW b \in BOOLEAN, task' = [Resume(p) EXCEPT ![p].parsed = b]
        PROVE  \E t \in Task : /\ task' = [task EXCEPT ![p] = t]
                               /\ t.tgid = r.tgid /\ t.stop = r.stop /\ t.at = r.at
    <3> DEFINE t == [r EXCEPT !.parsed = b]
    <3>1. t \in Task /\ t.tgid = r.tgid /\ t.stop = r.stop /\ t.at = r.at
      BY <1>3 DEF Task
    <3>2. task' = [task EXCEPT ![p] = t]
      BY <1>3, <1>7, <2>2
    <3> QED
      BY <3>1, <3>2
  <2>3. CASE task' = [Resume(p) EXCEPT ![p].records = @ + 1]
    <3> DEFINE t == [r EXCEPT !.records = @ + 1]
    <3>1. t \in Task /\ t.tgid = r.tgid /\ t.stop = r.stop /\ t.at = r.at
      BY <1>3 DEF Task
    <3>2. task' = [task EXCEPT ![p] = t]
      BY <1>3, <1>7, <2>3
    <3> QED
      BY <3>1, <3>2
  <2> QED
    BY <1>6, <2>1, <2>2, <2>3
<1>9. PICK t \in Task : /\ task' = [task EXCEPT ![p] = t]
                        /\ t.tgid = r.tgid /\ t.stop = r.stop /\ t.at = r.at
  BY <1>8
<1> QED
  BY <1>2, <1>3, <1>4, <1>9, OneSettles

LEMMA GroupStep ==
  ASSUME ProfilerInv, GroupInv, [ProfilerNext]_profilerVars
  PROVE  GroupInv'
<1>1. CASE Kernel
  <2>1. UNCHANGED tracked_pids
    BY <1>1 DEF Kernel
  <2>2. ASSUME NEW p \in Pids, ThreadExit(p) \/ GroupExit(p)
        PROVE  GroupInv'
    <3>1. PICK S : S \subseteq {q \in Pids : exists(q)} /\ Kill(S)
      BY <2>2 DEF ThreadExit, GroupExit, Running, Group
    <3> QED
      BY <2>1, <3>1, EndSettles
  <2> QED
    BY <1>1, <2>1, <2>2, CallSettles, SpawnSettles, ExecBeginSettles, ExecDoneSettles DEF Kernel
<1>2. ASSUME NEW p \in Pids, wait_killed(p)
      PROVE  GroupInv'
  <2>1. /\ Kill(Group(task[p].tgid)) /\ tracked_pids \subseteq tracked_pids'
        /\ Group(task[p].tgid) \subseteq {q \in Pids : exists(q)}
    BY <1>2 DEF wait_killed, Group
  <2> QED
    BY <2>1, EndSettles
<1>3. ASSUME NEW p \in Pids, Round(p)
      PROVE  GroupInv'
  BY <1>2, <1>3, ExitedSettles, ResumeSettles DEF Round
<1>4. CASE leave_loop \/ UNCHANGED profilerVars
  <2>1. UNCHANGED <<task, tracked_pids, lost>>
    BY <1>4 DEF leave_loop, kernel, profilerVars
  <2> QED
    BY <2>1 DEF GroupInv, Led, ExecAlone, TrackedOrPending, Ordered, Creates, exists
<1> QED
  BY <1>1, <1>3, <1>4 DEF ProfilerNext, MainLoop, Terminated

LEMMA GroupInit == ProfilerInit => GroupInv
<1> SUFFICES ASSUME ProfilerInit PROVE GroupInv
  OBVIOUS
<1>1. /\ task[Root] = NewTask(Root, "none") /\ Root \in tracked_pids
      /\ \A q \in Pids : exists(q) => q = Root
  BY ProfilerAssumption DEF ProfilerInit, exists
<1>2. task[Root].stop = "none" /\ task[Root].tgid = Root
  BY <1>1 DEF NewTask
<1>3. \A p, q \in Pids : ~Creates(p, q)
  BY <1>1, <1>2 DEF Creates
<1>4. Led
  BY <1>1, <1>2 DEF Led
<1> QED
  BY <1>1, <1>3, <1>4 DEF GroupInv, ExecAlone, TrackedOrPending, Ordered

LEMMA LeaveStep ==
  ASSUME GroupInv, ProfilerLeavesLast, [ProfilerNext]_profilerVars
  PROVE  ProfilerLeavesLast'
<1>1. CASE Kernel \/ \E p \in Pids : Round(p)
  <2>1. loop' = "waiting"
    BY <1>1
    DEF Kernel, Round, wait_exited, wait_untracked, wait_entry, wait_exit, wait_fork,
        wait_signal, wait_killed, Wait
  <2> QED
    BY <2>1 DEF ProfilerLeavesLast
<1>2. CASE leave_loop
  <2>1. UNCHANGED <<task, lost>> /\ (~AnyTracked \/ \A p \in Pids : ~exists(p))
    BY <1>2 DEF leave_loop, kernel
  <2>2. ASSUME lost = {}, ~AnyTracked, NEW q \in Pids, exists(q)
        PROVE  FALSE
    <3> DEFINE X == {p \in Pids : exists(p)}
    <3>1. X # {} /\ X \in SUBSET Pids
      BY <2>2
    <3>2. PICK n \in X : \A p \in X : ~Creates(p, n)
      BY <3>1 DEF GroupInv, Ordered
    <3>3. \E p \in Pids : Creates(p, n)
      BY <2>2 DEF AnyTracked, GroupInv, TrackedOrPending
    <3> QED
      BY <3>2, <3>3 DEF Creates
  <2> QED
    BY <2>1, <2>2 DEF ProfilerLeavesLast, exists
<1>3. CASE UNCHANGED profilerVars
  BY <1>3 DEF ProfilerLeavesLast, exists, profilerVars, kernel
<1> QED
  BY <1>1, <1>2, <1>3 DEF ProfilerNext, MainLoop, Terminated

\* The profiler does not leave while a task is alive, unless one was created by
\* a task that was killed before the creation was reported; also with late fork
\* events, threads that execute programs, and pids handed out again.
THEOREM LeavesLast == ProfilerSpec => []ProfilerLeavesLast
<1>1. ProfilerInit => GroupInv /\ ProfilerLeavesLast
  BY GroupInit DEF ProfilerInit, ProfilerLeavesLast
<1> QED
  BY <1>1, ProfilerInitInv, ProfilerStep, GroupStep, LeaveStep, PTL DEF ProfilerSpec

===============================================================================
