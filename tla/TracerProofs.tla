----------------------------- MODULE TracerProofs -----------------------------
(***************************************************************************)
(* Theorems of module Tracer, for every set of pids and number of calls    *)
(* and every reuse of pids: the loop drives the engine only as module      *)
(* Engine allows, so that the theorems of EngineProofs hold of the whole.  *)
(***************************************************************************)
EXTENDS Tracer, EngineProofs

-----------------------------------------------------------------------------
(* The invariant.                                                          *)

\* A task t under pid q, with what its stop says of it.
Fit(q, t) ==
  /\ t \in Task
  /\ t.stop = "fork" => t.msg # q
  /\ t.stop = "entry" => t.call \in Calls

Tasks ==
  /\ task \in [Pids -> Task \cup {NoTask}]
  /\ \A q \in Pids : exists(q) => Fit(q, task[q])

\* The leader of a group exists, and is in it.
Leaders ==
  \A q \in Pids : exists(q) =>
    /\ exists(task[q].tgid)
    /\ task[task[q].tgid].tgid = task[q].tgid

RealPids == lost \subseteq Pids /\ ~exists(ZeroPid)

KernelInv ==
  /\ Tasks /\ Leaders /\ RealPids
  /\ loop \in {"waiting", "left"}

TracerInv == KernelInv /\ TypeInv

\* Most steps change what tasks do, and not which exist or in which group.
LEMMA SameTasks ==
  ASSUME KernelInv,
         task' \in [Pids -> Task \cup {NoTask}],
         \A q \in Pids : IF exists(q)
                         THEN Fit(q, task'[q]) /\ task'[q].tgid = task[q].tgid
                         ELSE task'[q] = NoTask,
         lost' \subseteq Pids, loop' \in {"waiting", "left"}
  PROVE  KernelInv'
<1>1. \A q \in Pids : exists(q)' <=> exists(q)
  BY TaskAssumption DEF exists, Fit
<1>2. Tasks'
  BY <1>1 DEF Tasks, Fit
<1>3. \A q \in Pids : exists(q) => task[q].tgid \in Pids
  BY DEF KernelInv, Tasks, Fit, Task
<1>4. Leaders'
  BY <1>1, <1>3 DEF KernelInv, Leaders
<1>5. RealPids'
  BY <1>1, TracerAssumption DEF KernelInv, RealPids
<1> QED
  BY <1>2, <1>4, <1>5 DEF KernelInv

LEMMA CorpseFit ==
  ASSUME TracerInv, NEW q \in Pids, exists(q)
  PROVE  Fit(q, Corpse(q)) /\ Corpse(q).tgid = task[q].tgid
<1>1. task[q] \in Task /\ now \in Time
  BY DEF TracerInv, KernelInv, Tasks, Fit, TypeInv, TypeOK
<1> QED
  BY <1>1, TracerAssumption, CallsAssumption DEF Corpse, NewTask, Fit, Task, Places, Stops

LEMMA ResumeFit ==
  ASSUME TracerInv, NEW q \in Pids, exists(q)
  PROVE  Fit(q, Resume(q)) /\ Resume(q).tgid = task[q].tgid
<1>1. task[q] \in Task
  BY DEF TracerInv, KernelInv, Tasks, Fit
<1> QED
  BY <1>1, TracerAssumption, CallsAssumption DEF Resume, Fit, Task, Places, Stops

\* SIGKILL leaves every task where it was.
LEMMA KillInv ==
  ASSUME TracerInv, NEW S, \A q \in S : q \in Pids /\ exists(q), Kill(S),
         loop' \in {"waiting", "left"}
  PROVE  KernelInv'
<1>1. \A q \in Pids : exists(q) => task[q] \in Task /\ Fit(q, task[q])
  BY DEF TracerInv, KernelInv, Tasks, Fit
<1>2. \A q \in Pids : task'[q] = IF q \in S THEN Corpse(q) ELSE task[q]
  BY DEF Kill
<1>3. \A q \in Pids : IF exists(q)
                      THEN Fit(q, task'[q]) /\ task'[q].tgid = task[q].tgid
                      ELSE task'[q] = NoTask
  BY <1>1, <1>2, CorpseFit DEF exists
<1>4. task' \in [Pids -> Task \cup {NoTask}]
  <2>1. \A q \in Pids : task'[q] \in Task \cup {NoTask}
    BY <1>3 DEF Fit
  <2> QED
    BY <2>1 DEF Kill
<1>5. lost' \subseteq Pids
  BY <1>1 DEF Kill, TracerInv, KernelInv, RealPids, Task
<1> QED
  BY <1>3, <1>4, <1>5, SameTasks DEF TracerInv

\* So does a change to one task.
LEMMA OneTask ==
  ASSUME TracerInv, NEW p \in Pids, exists(p), NEW t, Fit(p, t), t.tgid = task[p].tgid,
         task' = [task EXCEPT ![p] = t],
         lost' = lost, loop' \in {"waiting", "left"}
  PROVE  KernelInv'
<1>1. \A q \in Pids : exists(q) => Fit(q, task[q])
  BY DEF TracerInv, KernelInv, Tasks
<1>2. \A q \in Pids : IF exists(q)
                      THEN Fit(q, task'[q]) /\ task'[q].tgid = task[q].tgid
                      ELSE task'[q] = NoTask
  BY <1>1 DEF exists, TracerInv, KernelInv, Tasks
<1>3. task' \in [Pids -> Task \cup {NoTask}] /\ lost' \subseteq Pids
  BY DEF TracerInv, KernelInv, Tasks, RealPids, Fit
<1> QED
  BY <1>2, <1>3, SameTasks DEF TracerInv

-----------------------------------------------------------------------------
(* The kernel's steps.                                                     *)

LEMMA SpawnInv ==
  ASSUME TracerInv, NEW p \in Pids, NEW q \in Pids, Spawn(p, q),
         loop' \in {"waiting", "left"}
  PROVE  KernelInv'
<1> DEFINE group == IF task[p].call \in Threads THEN task[p].tgid ELSE q
           child == [NewTask(group, "sigstop") EXCEPT
                       !.shell = task[p].shell, !.allowed = task[p].allowed,
                       !.told = task[p].told /\ ~is_tracked(q)]
           parent == [task[p] EXCEPT !.at = "returning", !.stop = "fork", !.msg = q]
<1>1. /\ exists(p) /\ ~exists(q) /\ p # q /\ q # ZeroPid
      /\ task[p] \in Task /\ task[p].tgid \in Pids /\ now \in Time
  BY DEF Spawn, Running, TracerInv, KernelInv, Tasks, Fit, Task, exists, TypeInv, TypeOK
<1>2. Fit(p, parent) /\ parent.tgid = task[p].tgid
  BY <1>1 DEF Fit, Task, Places, Stops
<1>3. Fit(q, child) /\ child.tgid = group
  <2> DEFINE told == task[p].told /\ ~is_tracked(q)
  <2>1. told \in BOOLEAN
    OBVIOUS
  <2>2. child = [NewTask(group, "sigstop") EXCEPT
                   !.shell = task[p].shell, !.allowed = task[p].allowed, !.told = told]
    OBVIOUS
  <2>3. task[p].shell \in BOOLEAN /\ task[p].allowed \in BOOLEAN /\ group \in Pids
    BY <1>1 DEF Task
  <2> HIDE DEF told, child, group
  <2> QED
    BY <1>1, <2>1, <2>2, <2>3, TracerAssumption, CallsAssumption
    DEF Fit, NewTask, Task, Places, Stops
<1>4. /\ task' = [task EXCEPT ![p] = parent, ![q] = child]
      /\ lost' = lost \ {q}
  BY DEF Spawn
<1>5. task \in [Pids -> Task \cup {NoTask}] /\ \A o \in Pids : exists(o) => Fit(o, task[o])
  BY DEF TracerInv, KernelInv, Tasks
<1> HIDE DEF child, parent, group
<1>6. /\ task'[p] = parent /\ task'[q] = child
      /\ \A o \in Pids \ {p, q} : task'[o] = task[o]
  BY <1>1, <1>4, <1>5
<1>7. \A o \in Pids : exists(o)' <=> exists(o) \/ o = q
  BY <1>1, <1>2, <1>3, <1>6, TaskAssumption DEF exists, Fit
<1>8. Tasks'
  <2>1. task' \in [Pids -> Task \cup {NoTask}]
    BY <1>2, <1>3, <1>4, <1>5 DEF Fit
  <2>2. \A o \in Pids : exists(o)' => Fit(o, task'[o])
    BY <1>2, <1>3, <1>5, <1>6, <1>7
  <2> QED
    BY <2>1, <2>2 DEF Tasks, Fit
<1>9. Leaders'
  <2>1. \A o \in Pids : exists(o) =>
          /\ exists(task[o].tgid) /\ task[o].tgid \in Pids
          /\ task[task[o].tgid].tgid = task[o].tgid
    BY <1>5 DEF TracerInv, KernelInv, Leaders, Fit, Task
  <2>2. \A o \in Pids : exists(o) => exists(o)' /\ task'[o].tgid = task[o].tgid
    BY <1>1, <1>2, <1>6, <1>7
  <2>3. \A o \in Pids : exists(o) =>
          /\ exists(task[o].tgid)' /\ task'[task'[o].tgid].tgid = task'[o].tgid
    BY <2>1, <2>2
  <2>4. exists(task[q].tgid)' /\ task'[task'[q].tgid].tgid = task'[q].tgid
    <3>1. CASE task[p].call \in Threads
      BY <1>1, <1>3, <1>6, <2>1, <2>2, <3>1 DEF group
    <3>2. CASE task[p].call \notin Threads
      BY <1>3, <1>6, <1>7, <3>2 DEF group
    <3> QED
      BY <3>1, <3>2
  <2> QED
    BY <1>7, <2>3, <2>4 DEF Leaders
<1>10. RealPids'
  BY <1>1, <1>4, <1>7, TracerAssumption DEF TracerInv, KernelInv, RealPids
<1> QED
  BY <1>8, <1>9, <1>10 DEF KernelInv

\* The thread that executes a program takes the place of its leader.
LEMMA ExecInv ==
  ASSUME TracerInv, NEW p \in Pids, ExecDone(p), loop' \in {"waiting", "left"}
  PROVE  KernelInv'
<1> DEFINE leader == task[p].tgid
           path == ExecPath[task[p].call]
           program == [task[p] EXCEPT
             !.at = "returning", !.stop = "exec", !.msg = p,
             !.born = task[leader].born,
             !.shell = @ \/ path \in ShellPaths,
             !.allowed = @ \/ path \in allow_execve_paths,
             !.told = @ /\ task[p].recorded /\ (leader = p \/ ~in_execve(leader))]
<1>1. /\ exists(p) /\ task[p] \in Task
      /\ exists(leader) /\ leader \in Pids /\ task[leader] \in Task
      /\ task[leader].tgid = leader
  BY DEF ExecDone, Running, TracerInv, KernelInv, Tasks, Leaders, Fit, Task
<1>2. Fit(leader, program) /\ program.tgid = leader
  <2>1. /\ program.shell \in BOOLEAN /\ program.allowed \in BOOLEAN
        /\ program.told \in BOOLEAN
    BY <1>1 DEF Task
  <2>2. program = [task[p] EXCEPT
          !.at = "returning", !.stop = "exec", !.msg = p, !.born = task[leader].born,
          !.shell = program.shell, !.allowed = program.allowed, !.told = program.told]
    BY <1>1 DEF Task
  <2> HIDE DEF program
  <2> QED
    BY <1>1, <2>1, <2>2 DEF Fit, Task, Places, Stops
<1>3. /\ Group(leader) \subseteq {p, leader}
      /\ \A q \in Pids : task'[q] = IF q = leader THEN program
                                    ELSE IF q = p THEN NoTask ELSE task[q]
      /\ lost' = lost
  BY DEF ExecDone
<1>4. task \in [Pids -> Task \cup {NoTask}] /\ \A o \in Pids : exists(o) => Fit(o, task[o])
  BY DEF TracerInv, KernelInv, Tasks
<1>5. task' \in [Pids -> Task \cup {NoTask}]
  <2>1. \A q \in Pids : task'[q] \in Task \cup {NoTask}
    BY <1>2, <1>3, <1>4 DEF Fit
  <2> QED
    BY <2>1 DEF ExecDone
<1> HIDE DEF leader, program
<1>6. \A q \in Pids : exists(q)' <=> exists(q) /\ (q = leader \/ q # p)
  BY <1>1, <1>2, <1>3, TaskAssumption DEF exists, Fit
<1>7. Tasks'
  BY <1>2, <1>3, <1>4, <1>5, <1>6 DEF Tasks, Fit
<1>8. Leaders'
  <2>1. \A q \in Pids : exists(q)' => exists(q) /\ task'[q].tgid = task[q].tgid
    BY <1>1, <1>2, <1>3, <1>6 DEF leader
  <2>2. \A q \in Pids : exists(q) =>
          /\ exists(task[q].tgid) /\ task[q].tgid \in Pids
          /\ task[task[q].tgid].tgid = task[q].tgid
    BY <1>4 DEF TracerInv, KernelInv, Leaders, Fit, Task
  <2>3. \A q \in Pids : exists(q) => task[q].tgid # p \/ p = leader
    BY <1>1, <2>2 DEF leader
  <2>4. \A q \in Pids : exists(q)' => exists(task[q].tgid)'
    BY <1>1, <1>6, <2>1, <2>2, <2>3
  <2> QED
    BY <2>1, <2>2, <2>4 DEF Leaders
<1>9. RealPids'
  BY <1>3, <1>6, TracerAssumption DEF TracerInv, KernelInv, RealPids
<1> QED
  BY <1>7, <1>8, <1>9 DEF KernelInv

\* A leader is waited for after the threads of its group.
LEMMA ExitedInv ==
  ASSUME TracerInv, NEW p \in Pids, wait_exited(p)
  PROVE  KernelInv'
<1>1. /\ exists(p) /\ task[p].tgid = p => Group(p) = {p}
      /\ task' = [task EXCEPT ![p] = NoTask]
      /\ lost' = lost /\ loop' = loop
  BY DEF wait_exited, Wait, Waitable
<1>2. task \in [Pids -> Task \cup {NoTask}] /\ \A o \in Pids : exists(o) => Fit(o, task[o])
  BY DEF TracerInv, KernelInv, Tasks
<1>3. \A q \in Pids : task'[q] = IF q = p THEN NoTask ELSE task[q]
  BY <1>1, <1>2
<1>4. \A q \in Pids : exists(q)' <=> exists(q) /\ q # p
  BY <1>3 DEF exists
<1>5. Tasks'
  <2>1. task' \in [Pids -> Task \cup {NoTask}]
    BY <1>1, <1>2
  <2> QED
    BY <1>2, <1>3, <1>4, <2>1 DEF Tasks, Fit
<1>6. Leaders'
  <2>1. \A q \in Pids : exists(q) =>
          /\ exists(task[q].tgid) /\ task[q].tgid \in Pids
          /\ task[task[q].tgid].tgid = task[q].tgid
    BY <1>2 DEF TracerInv, KernelInv, Leaders, Fit, Task
  <2>2. ASSUME NEW q \in Pids, exists(q), task[q].tgid = p
        PROVE  q = p
    <3>1. exists(p) /\ task[p].tgid = p
      BY <2>1, <2>2
    <3>2. q \in Group(p)
      BY <2>2 DEF Group
    <3> QED
      BY <1>1, <3>1, <3>2
  <2> QED
    BY <1>3, <1>4, <2>1, <2>2 DEF Leaders
<1>7. RealPids'
  BY <1>1, <1>4, TracerAssumption DEF TracerInv, KernelInv, RealPids
<1> QED
  BY <1>1, <1>5, <1>6, <1>7 DEF KernelInv, TracerInv

LEMMA KernelStep ==
  ASSUME TracerInv, Kernel
  PROVE  KernelInv'
<1>l. loop' = loop /\ loop' \in {"waiting", "left"}
  BY DEF Kernel, TracerInv, KernelInv
<1>f. \A q \in Pids : exists(q) => Fit(q, task[q]) /\ task[q] \in Task
  BY DEF TracerInv, KernelInv, Tasks, Fit
<1>1. ASSUME NEW p \in Pids, NEW c \in Calls, Syscall(p, c)
      PROVE  KernelInv'
  <2> DEFINE t == [task[p] EXCEPT !.call = c, !.at = "kernel", !.stop = "entry",
                                  !.recorded = FALSE, !.judged = 0]
  <2>1. exists(p) /\ task' = [task EXCEPT ![p] = t] /\ lost' = lost
    BY <1>1 DEF Syscall, Running
  <2>2. Fit(p, t) /\ t.tgid = task[p].tgid
    <3>1. Fit(p, task[p]) /\ task[p] \in Task
      BY <1>f, <2>1
    <3> QED
      BY <3>1 DEF Fit, Task, Places, Stops
  <2> HIDE DEF t
  <2> QED
    BY <1>l, <2>1, <2>2, OneTask
<1>2. ASSUME NEW p \in Pids, NEW ret \in Retvals, Return(p, ret)
      PROVE  KernelInv'
  <2> DEFINE t == [task[p] EXCEPT !.at = "user", !.stop = "exit", !.ret = ret]
  <2>1. exists(p) /\ task' = [task EXCEPT ![p] = t] /\ lost' = lost
    BY <1>2 DEF Return, Running
  <2>2. Fit(p, t) /\ t.tgid = task[p].tgid
    <3>1. Fit(p, task[p]) /\ task[p] \in Task
      BY <1>f, <2>1
    <3> QED
      BY <3>1 DEF Fit, Task, Places, Stops
  <2> HIDE DEF t
  <2> QED
    BY <1>l, <2>1, <2>2, OneTask
<1>3. ASSUME NEW p \in Pids, NEW q \in Pids, Spawn(p, q)
      PROVE  KernelInv'
  BY <1>l, <1>3, SpawnInv
<1>4. ASSUME NEW p \in Pids, ThreadExit(p)
      PROVE  KernelInv'
  BY <1>l, <1>4, KillInv DEF ThreadExit, Running
<1>5. ASSUME NEW g \in Pids, GroupExit(g)
      PROVE  KernelInv'
  BY <1>l, <1>5, KillInv DEF GroupExit, Group
<1>6. ASSUME NEW p \in Pids, ExecBegin(p)
      PROVE  KernelInv'
  <2> DEFINE others == Group(task[p].tgid) \ {p}
             t == [task[p] EXCEPT !.at = "execing"]
  <2>1. /\ exists(p)
        /\ task' = [q \in Pids |-> IF q \in others THEN Corpse(q)
                                   ELSE IF q = p THEN t ELSE task[q]]
        /\ lost' = lost \cup {task[q].msg : q \in {u \in others : task[u].stop = "fork"}}
    BY <1>6 DEF ExecBegin, Running
  <2>2. Fit(p, t) /\ t.tgid = task[p].tgid
    <3>1. Fit(p, task[p]) /\ task[p] \in Task
      BY <1>f, <2>1
    <3> QED
      BY <3>1 DEF Fit, Task, Places, Stops
  <2>3. \A q \in others : q \in Pids /\ exists(q) /\ task[q] \in Task
    BY <1>f DEF Group
  <2> HIDE DEF others, t
  <2>4. lost' \subseteq Pids
    <3>1. lost \subseteq Pids
      BY DEF TracerInv, KernelInv, RealPids
    <3>2. \A q \in others : task[q].msg \in Pids
      BY <2>3 DEF Task
    <3> QED
      BY <2>1, <3>1, <3>2
  <2>5. \A q \in Pids : IF exists(q)
                        THEN Fit(q, task'[q]) /\ task'[q].tgid = task[q].tgid
                        ELSE task'[q] = NoTask
    BY <1>f, <2>1, <2>2, <2>3, CorpseFit DEF exists
  <2>6. task' \in [Pids -> Task \cup {NoTask}]
    <3>1. \A q \in Pids : task'[q] \in Task \cup {NoTask}
      BY <2>5 DEF Fit
    <3> QED
      BY <2>1, <3>1
  <2> QED
    BY <1>l, <2>1, <2>4, <2>5, <2>6, SameTasks DEF TracerInv
<1>7. ASSUME NEW p \in Pids, ExecDone(p)
      PROVE  KernelInv'
  BY <1>l, <1>7, ExecInv
<1> QED
  BY <1>1, <1>2, <1>3, <1>4, <1>5, <1>6, <1>7 DEF Kernel

-----------------------------------------------------------------------------
(* The loop's steps.                                                       *)

LEMMA RoundInv ==
  ASSUME TracerInv, NEW p \in Pids, Round(p)
  PROVE  KernelInv'
<1>1. /\ exists(p) /\ loop' = loop
      /\ loop' \in {"waiting", "left"}
  BY DEF Round, wait_exited, wait_untracked, wait_entry, wait_exit, wait_exec,
         wait_fork, wait_sigstop, wait_killed, Wait, Waitable, TracerInv, KernelInv
<1>f. \A q \in Pids : exists(q) => Fit(q, task[q]) /\ task[q] \in Task
  BY DEF TracerInv, KernelInv, Tasks, Fit
<1>r. Fit(p, Resume(p)) /\ Resume(p).tgid = task[p].tgid
  BY <1>1, ResumeFit
<1>2. CASE wait_exited(p)
  BY <1>2, ExitedInv
<1>3. CASE wait_untracked(p) \/ wait_sigstop(p)
  BY <1>1, <1>r, <1>3, OneTask DEF wait_untracked, wait_sigstop
<1>4. CASE wait_entry(p)
  <2> DEFINE t == [Resume(p) EXCEPT !.recorded = TRUE]
  <2>1. Fit(p, t) /\ t.tgid = task[p].tgid
    BY <1>r DEF Fit, Task
  <2>2. task' = [task EXCEPT ![p] = t] /\ lost' = lost
    BY <1>4 DEF wait_entry
  <2> HIDE DEF t
  <2> QED
    BY <1>1, <2>1, <2>2, OneTask
<1>5. CASE wait_exit(p) \/ wait_exec(p)
  <2>1. Fit(p, Judge(p)) /\ Judge(p).tgid = task[p].tgid
    BY <1>r DEF Judge, Fit, Task
  <2>2. task' = [task EXCEPT ![p] = Judge(p)] /\ lost' = lost
    BY <1>5 DEF wait_exit, wait_exec
  <2> QED
    BY <1>1, <2>1, <2>2, OneTask
<1>6. CASE wait_fork(p)
  <2> DEFINE child == task[p].msg
             told(q) == task[q].told /\ task[p].told /\ is_tracked(p)
             t(q) == [task[q] EXCEPT !.told = told(q), !.recorded = FALSE]
  <2>1. /\ task' = [q \in Pids |-> IF q = p THEN Resume(p)
                                   ELSE IF q = child /\ exists(q) THEN t(q)
                                   ELSE task[q]]
        /\ lost' = lost /\ lost \subseteq Pids
    BY <1>6 DEF wait_fork, TracerInv, KernelInv, RealPids
  <2>2. ASSUME NEW q \in Pids, exists(q)
        PROVE  Fit(q, t(q)) /\ t(q).tgid = task[q].tgid
    <3>1. told(q) \in BOOLEAN
      BY <1>f, <2>2 DEF Task
    <3>2. Fit(q, task[q]) /\ task[q] \in Task
      BY <1>f, <2>2
    <3> HIDE DEF told
    <3> QED
      BY <3>1, <3>2 DEF Fit, Task
  <2> HIDE DEF t, child
  <2>3. \A q \in Pids : IF exists(q)
                        THEN Fit(q, task'[q]) /\ task'[q].tgid = task[q].tgid
                        ELSE task'[q] = NoTask
    BY <1>1, <1>f, <1>r, <2>1, <2>2 DEF exists
  <2>4. task' \in [Pids -> Task \cup {NoTask}]
    <3>1. \A q \in Pids : task'[q] \in Task \cup {NoTask}
      BY <2>3 DEF Fit
    <3> QED
      BY <2>1, <3>1
  <2> QED
    BY <1>1, <2>1, <2>3, <2>4, SameTasks DEF TracerInv
<1>7. CASE wait_killed(p)
  BY <1>1, <1>7, KillInv DEF wait_killed, Group
<1> QED
  BY <1>2, <1>3, <1>4, <1>5, <1>6, <1>7 DEF Round

\* Every round makes one call of the engine, or a step of it that changes
\* nothing.
LEMMA RoundCalls ==
  ASSUME TracerInv, NEW p \in Pids, Round(p)
  PROVE  Next
<1>1. exists(p)
  BY DEF Round, wait_exited, wait_untracked, wait_entry, wait_exit, wait_exec,
         wait_fork, wait_sigstop, wait_killed, Wait, Waitable
<1>2. /\ Fit(p, task[p]) /\ task[p].msg \in Pids /\ task[p].ret \in Retvals
      /\ p # ZeroPid /\ ZeroPid \in Pids
  BY <1>1, TracerAssumption DEF TracerInv, KernelInv, Tasks, RealPids, Fit, Task
<1>3. CASE wait_exited(p)
  BY <1>3 DEF wait_exited, Next
<1>4. CASE wait_untracked(p) \/ wait_sigstop(p)
  BY <1>4 DEF wait_untracked, wait_sigstop, query, Next
<1>5. CASE wait_entry(p)
  <2>1. task[p].call \in Calls
    BY <1>2, <1>5 DEF wait_entry, Wait, Fit
  <2> QED
    BY <1>5, <2>1 DEF wait_entry, Next
<1>6. CASE wait_exit(p)
  BY <1>2, <1>6 DEF wait_exit, Next
<1>7. CASE wait_exec(p)
  BY <1>2, <1>7 DEF wait_exec, Next
<1>8. CASE wait_fork(p)
  <2>1. task[p].msg # p
    BY <1>2, <1>8 DEF wait_fork, Wait, Fit
  <2> QED
    BY <1>2, <1>8, <2>1 DEF wait_fork, Next
<1>9. CASE wait_killed(p)
  BY <1>2, <1>9 DEF wait_killed, Next
<1> QED
  BY <1>3, <1>4, <1>5, <1>6, <1>7, <1>8, <1>9 DEF Round

LEMMA TracerStep ==
  ASSUME TracerInv, [TracerNext]_allVars
  PROVE  KernelInv' /\ [Next]_vars
<1>1. CASE Kernel
  BY <1>1, KernelStep DEF Kernel
<1>2. ASSUME NEW p \in Pids, Round(p)
      PROVE  KernelInv' /\ [Next]_vars
  BY <1>2, RoundInv, RoundCalls
<1>3. CASE leave_loop
  BY <1>3 DEF leave_loop, kernel, TracerInv, KernelInv, Tasks, Leaders, RealPids, exists
<1>4. CASE Clock
  BY <1>4 DEF Clock, Next, kernel, TracerInv, KernelInv, Tasks, Leaders, RealPids, exists
<1>5. CASE UNCHANGED allVars
  BY <1>5 DEF allVars, kernel, TracerInv, KernelInv, Tasks, Leaders, RealPids, exists
<1> QED
  BY <1>1, <1>2, <1>3, <1>4, <1>5 DEF TracerNext, MainLoop, Terminated

LEMMA TracerInitInv == TracerInit => TracerInv
<1> SUFFICES ASSUME TracerInit PROVE TracerInv
  OBVIOUS
<1>1. TypeInv /\ now \in Time
  BY InitType DEF TracerInit, TypeInv, TypeOK
<1>2. Fit(Root, NewTask(Root, "none")) /\ NewTask(Root, "none").tgid = Root
  BY <1>1, CallsAssumption, TracerAssumption DEF Fit, NewTask, Task, Places, Stops
<1>3. task = [p \in Pids |-> IF p = Root THEN NewTask(Root, "none") ELSE NoTask]
  BY DEF TracerInit
<1> HIDE DEF NewTask
<1>4. Tasks /\ \A q \in Pids : exists(q) <=> q = Root
  BY <1>2, <1>3, CallsAssumption, TaskAssumption DEF Tasks, exists, Fit
<1>5. Leaders
  BY <1>2, <1>3, <1>4, CallsAssumption DEF Leaders
<1>6. RealPids /\ loop = "waiting"
  BY <1>4, CallsAssumption, TracerAssumption DEF TracerInit, RealPids
<1> QED
  BY <1>1, <1>4, <1>5, <1>6 DEF TracerInv, KernelInv

-----------------------------------------------------------------------------
(* The loop of main() uses the engine as module Engine has it used: every  *)
(* behaviour of the tracer is one of the engine.                           *)
THEOREM LoopUsesEngine == TracerSpec => Spec
<1>1. TracerInit => TracerInv /\ Init
  BY TracerInitInv DEF TracerInit
<1>2. TracerInv /\ [TracerNext]_allVars => TracerInv' /\ [Next]_vars
  BY TracerStep, TypeStep DEF TracerInv
<1> QED
  BY <1>1, <1>2, PTL DEF TracerSpec, Spec

(* So the engine's properties hold of the whole program, in particular:    *)
(* nothing is reported before a tracee listens, and what is reported is    *)
(* reported once, in its window and outside the cooldown, which lasts as   *)
(* long as its pid is tracked, and not of an allowed pid.                  *)
THEOREM ProgramSafe ==
  TracerSpec => /\ []TypeOK /\ []QuietUntilListen /\ []FreshIds /\ []SingleActive
                /\ AllowedSilent /\ ReportInWindow /\ CooldownRespected /\ CooldownKept
                /\ ReportedOnce
BY LoopUsesEngine, TypeCorrect, NothingBeforeListen, NoStateOverwritten, OneMatchPerPid,
   AllowedAreSilent, WindowHolds, CooldownHolds, CooldownsLast, ReportsOnce

===============================================================================
