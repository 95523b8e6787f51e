# Verification of webshell-detection

TLA+ models of the ptrace-based web shell detector in `src/`, with the runs that
check them on small instances (TLC) and the theorems that hold of every
instance (TLAPS). Paths below are relative to the repository; `engine.cc:420`
means `src/engine.cc` line 420.

## 1. The system

The detector starts a program as its tracee, stops it and everything it creates
at every system call, reads the arguments, and matches rules against the
sequence of calls of each pid. A rule is a list of transition functions; a
partial match (*detection state*) is of one pid and one rule, and has an index
into that list. A rule whose last transition matches is reported.

| Component | State | Operations | Interacts with |
|---|---|---|---|
| **Engine** (`src/engine.cc`, `engine.h`, `rule.h`, `detection_state.h`, `syscall_event.h`) | tracked pids with the call each is in; shell and allow flags; partial matches; cooldowns; id counter; the listen gate | `add_tracked_pid`, `remove_tracked_pid`, `handle_syscall_entry`, `handle_syscall_exit`, `handle_exec_stop`, `process_event` and what it calls | called by the main loop; calls the rules, the readers, the path helpers |
| **Main loop** (`src/main.cc`) | none but the engine | one round per `waitpid(-1, __WALL)` | the kernel's stops; the engine |
| **Built-in rules** (`src/rules.h`) | `DetectionState::data` | `step_openat_db`, `step_read_db_large`, `..._dup2`, the grep rule, `register_rules` | called by the engine |
| **Rule generator** (`rule_codegen.py`) | none at run time | writes the transition functions and `register_codegen_rules` from YAML | its output is compiled into the detector |
| **Path helpers** (`src/helpers.h`) | none | `normalize_path`, paths of descriptors and working directories through `/proc` | the rules |
| **Argument readers** (`src/parse_syscall.cc`) | none | words, strings and vectors of the tracee's memory | `handle_syscall_entry` |
| **Profiler tracer** (`profiler/syscall_tracer.cc`) | a set of tracked pids and a map of the calls they are in | a second ptrace loop, which prints a line for each followed call that succeeds | the kernel; its own copies of the readers |
| **Profile analysis** (`profiler/*.py`) | none | aggregation and path compression of recorded logs | files |

What is hard about it:

* *Concurrency.* Tracees run in parallel; `waitpid` returns their stops in any
  order. A child's first stops race with its creator's fork event; threads of
  one group race to `execve`; anything may be killed between two requests of the
  tracer.
* *Identity.* Everything is keyed by pid, and pids change their meaning: a
  thread's `execve` takes over its leader's pid, an exited pid is handed out
  again.
* *Several stops for one call.* An `execve` stops at its entry, at the exec event
  and at its exit, and must be judged once.
* *Order inside one event.* Allow list, shell flag, listen gate, the transitions
  of existing matches, then first transitions: each reads what the ones before
  it wrote.
* *Time.* Windows expire only when an inspected event comes; cooldowns expire
  when they are looked up.

What makes each component correct: for the engine, that a report is of a rule
whose window, cooldown, single-active flag, listen gate and allow list permit
it, once; for the loop, that tracees are tracked, judged on the call they made,
never left stopped, and outlived by the tracer; for the rules, that a counter
counts what it says; for the readers and helpers, that they return what a
reference definition says; for the profiler, that its tables follow the tasks.
The readers and the helpers share a difficulty: what they read, memory or
`/proc`, belongs to tracees that may go on running in another thread, and is not
what the kernel reads at the same moment nor always in the same way.
`PROJECT.json` lists the hazards, each at its line, with the property that is
about it.

## 2. The modules

| Module | What it is |
|---|---|
| `Engine.tla` | the engine: state, handlers, properties |
| `MCEngine.tla`, `.cfg` | two rules and two pids for TLC |
| `Tracer.tla` | the loop of `main()` and the kernel's tasks and stops, driving `Engine` |
| `MCTracer.tla`, `MCTracer*.cfg` | instances for five runs |
| `FileRules.tla` | transition functions that follow files over many calls: `read_db_large`, the generated traversal and open counters |
| `FileProcess.tla` | a process and its descriptor table, under an instance of `Engine` with those functions |
| `MCFileProcess.tla`, `MCReadDb.cfg`, `MCScan.cfg`, `MCTraversal.cfg` | instances for three runs |
| `Monitor.tla` | abstract specification: one single-active rule at one pid |
| `EngineMonitor.tla` | the refinement mapping from the engine to its `Monitor`s |
| `Readers.tla`, `MCReaders.tla`, `.cfg` | the readers of arguments, word by word, against what the kernel takes |
| `Paths.tla`, `MCPaths.tla`, `.cfg` | the path helpers and `is_path_in`, against the kernel's walk through a tree |
| `Profiler.tla`, `MCProfiler.tla`, `.cfg` | the profiler's loop, with kernel tasks of its own |
| `EngineProofs.tla` | lemmas on the engine's operators; type correctness and the engine's other eight properties |
| `MonitorProofs.tla` | the engine implements the `Monitor` of every single-active rule at every pid |
| `TracerProofs.tla` | the loop refines the engine's specification |
| `TracerSafety.tla` | the loop's five safety properties, proved with pids reused, but not while a waiting stop names them |
| `ReaderProofs.tla` | the readers' five safety properties, proved for every memory |
| `FileProofs.tla` | the eight properties of `FileProcess`, proved for any rules, paths, descriptors, thresholds and windows |
| `ProfilerProofs.tla` | the profiler's five safety properties, with pids reused |
| `PathProofs.tla` | the three properties of `Paths`, proved for every tree and every path |

`Tracer` composes the loop with `Engine` (EXTENDS), `FileProcess` composes a
process, the file rules and `Engine` (INSTANCE), `EngineMonitor` relates `Engine`
to `Monitor`. `Readers`, `Paths` and `Profiler` stand alone: the engine sees the
arguments only as a value that a transition function is given, so what the two
first find about that value holds whatever the engine does with it.

### Engine

The variables have the names of `engine.h`. `tracked_pids[p]` is `Untracked`, or
`NoEvent` (the `std::nullopt` of a pid with no recorded call), or the record of
the call the pid is in **or was in last**, since `handle_syscall_exit` does not
clear it. `active_detection_states` is the set of the map's values, each of which
holds its own id. `cooldown_until[p][r] = 0` stands for "no entry".

One action is one call of a public handler with everything it calls.
`process_event` is one formula in the code's order: the lists first
(`AllowListed`, `ShellStarted`), the gate and the allow flag (`Inspected`), the
existing matches (`process_transition`, with the cooldowns its reports set), the
first transitions (`process_first_transition`). A transition function may change
`data` even if it returns `NO_MATCH`, and so does `Advance`; in a first
transition the change is lost with the local state, and so it is in `NewStates`.
A first transition's report uses the next id without taking it (`Immediate`).
A rule's transition function is the constant operator `Step`: the engine is
checked for particular rules, and proved for all. `seen` and `detected` are
outputs: the event of the last call of `process_event` and what was reported.

Two assumptions on rules come from the code that makes them (`gen_rule_def`,
`register_rules`): no single-active rule is inherited on fork, and every rule
with a cooldown is single-active. `CooldownRespected` and `SingleActive` would
not hold without them.

Abstracted: arguments are members of `Calls`, with `ExecPath` the file an execve
runs (resolved through `/proc` by the helpers); the order in which the
unordered map is iterated, which decides only which inherited state gets which
id; overflow of the 64-bit counters; printing; the members of an event that are
the same for all rules.

### Monitor

`Monitor` is what a reader of the rules' documentation would expect of one
single-active rule at one pid, and knows nothing of other rules, other pids, ids,
lists or forks: it is idle, or has been matching since a time, or is silent until
a time. It reports from a match whose window is open (`Finish`) or from a single
event (`AtOnce`), and only if it is not silent; it begins a match only if none is
open; the end of a match starts its cooldown. `EngineMonitor` maps the engine to
it: `Since` is the start of the pid's only match of the rule, `Until` its entry
of `cooldown_until` if it is not over, `Reported` whether `detected` has the rule
and pid. `KeepsMonitors` says that every step of the engine is a step of each of
these monitors, or leaves it alone. The mapping hides two things in the code that
are easily got wrong: an expired match goes at the next *inspected* event, which
may be one that ends another match (`MayExpire` inside `Ignore`), and a report may
be followed, at the same event, by a new first transition of the same rule
(`Finish`, second case) if it has no cooldown.

### Tracer

`Tracer` extends `Engine` with the kernel's tasks. The kernel part (external, from
the semantics of ptrace that `main.cc` relies on) has: entry and exit stops;
fork/vfork/clone with an event stop of the creator and a SIGSTOP of the new
task, in either order; thread exit; group exit and fatal signals, which replace
a stop not yet reported by the end of the task; `execve` in two steps, first
ending the other threads, then, when those were waited for, giving the caller
its leader's pid and an exec event whose message is the old pid. A leader that
ended is not reported while threads of its group exist. A pid whose task is gone
is handed out again; `ReuseNamed` says whether also while a stop that waits names
it: the fork event of a creator whose child is gone already, or the exec event of a
thread that has left it.

One round of the loop is one action (`wait_*`): the tracer is one thread and the
tracee it handles is stopped, so the only thing that can come between the
requests of one round is a SIGKILL. Where that matters, there is an action for
it: `wait_killed`, where `PTRACE_GETEVENTMSG` fails and leaves the message 0. A
failing `PTRACE_GET_SYSCALL_INFO` (main.cc:75) does what the same kill before
`waitpid` does, and has no action of its own. Stops for other signals
(main.cc:108-112) are resumed as `wait_sigstop` does; a signal that ends the
process is `GroupExit`. Time passes by `Clock` alone. The tasks also carry
history (`recorded`, `judged`, `shell`, `allowed`, `told`), which no guard of the
loop reads.

### FileRules and FileProcess

`FileRules` has the functions of three rules: `read_db_large` with its three
states, and what `gen_recursive_traversal` and `gen_path_openat_count` write.
Each gives the index it returns and the data it leaves, the form `Engine` takes
them in. `path_skip` is the condition of `gen_path_skip_expr`, over the sets of
paths that the allow and the deny conditions match.

`FileProcess` instantiates `Engine` with them (`Step`, `Transitions`, and
`gen_rule_def`'s single-active flag) for a process with one thread. Its kernel
part (external) is the descriptor table: an open gets the lowest free number,
`dup2` replaces, `close` frees, every call may also fail. `Enter` is a call's
entry stop, `Succeed` and `Fail` its exit stop with the effect on the table. The
history says what was really read, in the kernel's terms: `opened` has for each
open of a database the bytes read through it, `scans` and `visits` the files
opened and directories read lately (`Kept`: as long as the window of some counting
rule holds them; `Recent(S, r)` is what the window of rule `r` holds), `fresh` the directory opened last and not
read since.

What the runs show of the rules:

* The byte count of `read_db_large` is exact for an open that is used through
  one descriptor at a time, over one `dup2` (`AccountsAgree`), and the read that
  makes it large is reported (`LargeReadReported`). Once such a descriptor is
  closed or replaced, the count goes on with whatever gets the number
  (`ReportIsLarge` excepts it): the function does not look at `close`.
* A window begins with a match and what was counted goes with the match when it
  expires. `ScanNoticed` is what is left: `2 * Threshold - 1` different files
  within a window's length are always noticed, outside a cooldown. The bound is
  exact: with one less, TLC finds a scan across the end of a match that is not.
* For directories one more may be lost, the one opened when the match expires:
  `TraversalNoticed` has `2 * Threshold`, exact again. It is about directories
  that are each read before the next one is opened: opening a second one first
  makes the rule forget the first.

### Readers

One step of `Readers` is one word that `PTRACE_PEEKDATA` fetches: `Reads` lists what
a parse function reads (strings, vectors, buffers, in order), `read_child_string`,
`read_child_string_vector` and `read_child_bytes` go on with it, and `record` makes
the event's arguments of it (`EventArgs`). The memory has holes: `Byte(a)` is
`Hole` where nothing is mapped, and a word with a hole in it cannot be read. Between
any two steps another thread may write a byte (`Poke`). The kernel then takes the
arguments itself (`Copy`; external), byte by byte and with limits of its own. The
profiler's copies of the readers and its `read_sockaddr` are in the same tables.
Arguments that are in registers are left out.

What the run shows: if nobody writes in between, a recorded path, vector, buffer or
address is the kernel's, except that

* a string that ends within a word of memory that is not mapped is not read, since
  the whole word is asked for: the event has no arguments then (`PathsRead`);
* one string of `argv` that cannot be read, or of `MaxString` bytes and more, which
  the kernel allows, empties the whole recorded vector (`ArgvRead`);
* a short write that succeeds is recorded without its buffer (`WriteRead`);
* a connect to an IPv6 address of 24 to 27 bytes, which the kernel accepts, is
  recorded without the address (`ConnectRead`).

These are stated as they are in the properties. With writes in between,
`PathsRead` still holds for paths that nobody wrote to; the reader never leaves
its limits (`ReaderTypeOK`) and always ends (`ReadingEnds`).

### Paths

A tree of files, directories and symbolic links, a working directory and a
descriptor table are the kernel's part (external); `Lookup` walks the path as the
kernel does. The operators of the tree have it as a parameter, so that the tree of
the lookup and that of the exit stop can be compared; `IsTree` says what every tree
is that the kernel can have. The functions of `helpers.h` (`normalize_path`, `get_absolute_path`,
`get_absolute_path_at`, `get_fd_path`, `resolve_exec_fd_path`) then make a path of
the argument's text and of what `/proc` says at the exit stop (`Resolve`), and a
rule's `path_in` condition reads the working directory again (`Compare`). In between
other threads may `chdir` or `dup2`, and anyone may rename or remove (`Change`). The
steps are apart because the code's reads are. An execve has one more (`ExecDone`): a
thread has the leader's pid afterwards, and descriptors with `O_CLOEXEC` are gone.

`PathNamed`, `DescriptorNamed` and `PathInExact` say when the path a rule sees leads
to the file the call took. Each exemption in them is a way in which the two differ:
`..` after a symbolic link (removed as text); a file on the way moved, or the
directory or descriptor a relative path starts from replaced, before the exit stop;
a program executed through a descriptor that closes on execve, or through
`/proc/<tid>/fd` by a thread whose tid is gone. The kernel writes " (deleted)" after
the path of an open file that was removed, and after nothing else (`NamesOf`): of a
removed directory further up a path does not tell. Two exemptions come from that. A
`..` that goes from a removed directory to a removed one above it becomes the path
that this one had before, without the mark (`PathNamed`); and this path, or one that
ends in " (deleted)", may now be another directory's, so that a `path_in` condition
takes the one for the other (`PathInExact`). The proofs found both; the run has a removed directory since.

### Profiler

`tracked_pids`, `pending_syscalls` and the conditions have the names of
`syscall_tracer.cc`; `pending_syscalls[p]` is `Absent` (no entry in the map),
`Nullopt`, or a call. `printed` is the line the last step wrote. One round of the loop
is one action `wait_*`, as in `Tracer`, with `wait_killed` for a kill between `waitpid`
and `PTRACE_GETEVENTMSG`. The kernel's tasks (external) differ from `Tracer`'s because
the options do: the profiler does not ask for `PTRACE_O_TRACEEXEC`, so there is no
exec event. The execve of a thread just stops at its exit under the leader's pid, and
a plain SIGTRAP follows. The history in a task (`parsed`, `remapped`, `records`) is
read by no guard.

What the run shows: a printed line is of the call that its pid returns from, with
its result, and each parsed call that succeeds is printed exactly once, with late
fork events, kills and pids handed out again. The exception is the execve of a
thread that is not the leader: it is taken for whatever call the leader was in,
and its old pid stays tracked, with its pending call, for ever. These pids
(`renamed`) and those of late fork events do not keep the loop from ending
(`ProfilerEnds`), because `waitpid` then fails.

## 3. The runs

| Run | Checks | Bounds |
|---|---|---|
| `engine` | `TypeOK`, `FreshIds`, `SingleActive`, `QuietUntilListen`, `AllowedSilent`, `ReportInWindow`, `CooldownRespected`, `CooldownKept`, `ReportedOnce`, `KeepsMonitors` | 2 pids, 2 rules, clock 0..2, `MaxIds` 4 |
| `tracer` | `TrackedOrPending`, `JudgedOnce`, `FlagsExact`, `LeavesLast`, `OwnCallJudged` | 3 pids and pid 0, reused unless a waiting stop names them, 4 system calls, no rules |
| `tracer_live` | `StopsHandled`, `LoopEnds` | 2 pids and pid 0, reused, 3 system calls, clock 0..1 |
| `read_db` | `FileTypeOK`, `AccountsAgree`, `LargeReadReported`, `ReportIsLarge` | 2 paths, 2 descriptors, 6 calls, reads of 0..2 of 3 bytes, clock 0..2 |
| `scan` | `ScanNoticed`, `ReportIsScan` | 4 paths (one allowed), threshold 2, 6 calls, clock 0..4 |
| `traversal` | `TraversalNoticed`, `ReportIsTraversal` | 4 directories, threshold 2, 2 descriptors, 10 calls, clock 0..2 |
| `profiler` | `ProfilerTypeOK`, `PendingIsOwn`, `PrintedOnce`, `PrintedOwnCall`, `ProfilerLeavesLast`, `ProfilerEnds` | 2 pids and pid 0, reused, 5 system calls |
| `arguments` | `ReaderTypeOK`, `PathsRead`, `ArgvRead`, `WriteRead`, `ConnectRead`, `ReadingEnds` | 12 bytes in 3 pages, words of 2, strings up to 4, `argv` of 1, `envp` of 2, 1 write |
| `paths` | `PathInExact`, `PathNamed`, `DescriptorNamed` | 7 files and a root, one of them removed, 2 descriptors, paths of up to 3 names, 1 change |
| `fork_race` | `NewProcessSeen` is violated | 3 pids and pid 0, 2 calls |
| `exec_race` | `OwnArguments` is violated | 2 pids and pid 0, 3 calls |
| `pid_reuse` | `SameProcess` is violated | 2 pids and pid 0, reused, 4 calls, clock 0..1, one rule of two steps |

*Bounds.* In `engine` two pids give a parent and a child, an old and a new pid,
and a pid that is bystander to the other's events. One rule stays in its first
state until an open from a shell completes it, keeps data, and is single-active
with a cooldown (the shape of `path_openat_count`); the other is a sequence of
two, inherited on fork. The clock reaches one past each window and the end of a
cooldown. `MaxIds` is two ids
above the rules' own: two partial matches in a behaviour, made by two first
transitions or by one and a fork. In `tracer` three pids are the leader, a second thread
and a child of either; four calls let a thread be made, both threads enter
`execve`, and one more call follow, or a pid end and be a new task's. What is tracked, judged and flagged does not
depend on rules, so those runs have none. `MaxTime`, `MaxIds` and `MaxCalls` are
bounds in guards, marked in the modules.

In `read_db` six calls are an open, a `dup2`, a close and three reads, or two
opens of which one takes the other's number; two reads make a large one. In
`scan` the three watched files are those `2 * Threshold - 1` needs, and the clock
passes a window, the cooldown of a report, and another window. In `traversal`
ten calls open and read the four directories `2 * Threshold` needs, with two of
them closed for their descriptors. These two runs treat the watched paths alike.

In `profiler` two pids are a leader and a thread or child, and five calls let the
thread be made, both be in calls, one execute, and one more call follow; with
reuse the pid of an ended task is a new one's. Of the calls one reads no memory,
two do, and one of these may be under way when it returns (`connect`). With a third
pid, no reuse and four calls (1.2 million states) the same properties hold.

In `arguments` a memory of three pages has any set of them missing, so strings, vectors
and buffers begin, end and cross at each edge; words of two bytes have a NUL
in either place; the limits are such that a string of the limit's length, a vector
longer than its limit and a pointer in the last word exist. Sizes of socket
addresses are scaled down, in the order they have in the kernel.

In `paths` the tree has a link to a directory two levels down, so that `..` after it
leads elsewhere, and all paths of up to three names, with `.`, `..` and the link, are
tried from each directory and descriptor, one of the directories removed, against
rules with and without a last slash. One change is enough for each exemption; with two the run also passes,
but takes longer than it is worth keeping.

*Views and symmetry.* `MCView` leaves out the outputs of the last call and the
parts of a recorded event that are overwritten before anything reads them; no
action's guard or effect depends on either. Pids are interchangeable: no action
mentions one by name, except `Root` in the initial state, and pid 0, which the
tracer runs keep apart. The liveness run uses neither.

*Deadlock* is checked for the engine, which can always be asked something, and for
the tracer, which either runs or has left the loop and stutters (`Terminated`).
The process of `FileProcess` ends when its calls and the clock are used up, and
`arguments` and `paths` follow a single call to its end: they stop there. The
profiler stutters once it has left its loop (`Terminated`), like the tracer.

*Fairness.* `FairTracerSpec` assumes weak fairness of the loop's rounds only: the
tracer is a process the scheduler runs, and `waitpid` returns when some stop
waits. Nothing is assumed of the tracees: they need not make calls nor end. Weak
fairness of the whole loop, not of each pid: `waitpid` need not be fair to pids,
and `StopsHandled` holds all the same because the calls are bounded. `ProfilerSpec`
assumes the same of the profiler's loop and `ReaderSpec` of the tracer's reading;
neither says anything of tracees, of the threads that write or of the kernel.
`PathSpec` has no fairness: its properties are of steps.

### What the violations show

* `fork_race`: README.md:40 says that new processes are included in detection.
  They are, from the moment their creator's event is waited for. The run ends with
  the step that resumes a child at the entry of a call while it is untracked: the
  call goes ahead, and when the creator's event comes the child's record is
  empty, so that the call's exit is ignored too. `TrackedOrPending` says what does hold: an
  untracked task is one whose creation is still to be reported, or whose creator
  was killed first.
* `exec_race`: README.md:46 says an argument rule looks at the arguments of the
  call that took place. When another thread's execve succeeds while the leader
  is in one, the leader's arguments are judged. `OwnCallJudged` holds in every
  other case.
* `pid_reuse`: README.md:49 says a sequence rule looks at the calls of one
  process. `remove_tracked_pid` leaves partial matches behind, and a new process
  with the pid completes them.

## 4. The proofs

All theorems hold for every value of the constants that satisfies the named
assumptions: any set of pids, any list of rules and any transition functions
of the right type, any times, any memory. Liveness is left to TLC.

*Types* (`EngineProofs`). `TypeInv` is `TypeOK` and the finiteness of the set of
partial matches, without which the id counter's `Cardinality` means nothing. The
lemmas give what each operator returns (`AdvanceType`, `TransitionType`,
`NewStatesType`, `CopiesType`, ...), `NextIdProperties` that the ids given out
at one event are naturals, new and distinct.

*The engine's properties* (`EngineProofs`). `StepCases` reduces every step to four:
the tables stay, a pid is added, a pid is removed, an event is judged. Lemmas
say where what is there after a match comes from (`LeftFrom`, `NewFrom`,
`CopyFrom`, `ReportFrom`). `QuietUntilListen`, `FreshIds` and `SingleActive` are
inductive with `TypeInv`. `ReportInWindow` and `AllowedSilent` follow from
`TypeInv`; `ReportedOnce` needs `FreshIds`. `CooldownRespected` is not
inductive: a match under way is never compared with the cooldown. The
strengthening `CooldownOver` says that every partial match began after its
pid's cooldown for its rule was over; it is kept because a cooldown is only set
by a report, and the single-active rule has no other match of that pid that
could report (`OnlyMatch`, `SurvivorsSilent`). Inherited matches are of rules
without cooldown, by the assumptions on rules. `CooldownKept` rests on the same
invariant (an event that finds a cooldown running reports nothing, so it does not
set it anew: `ReportAfterCooldown`) and on `OwnCooldowns`: an untracked pid has no
cooldown, and the event in a pid's record is its own, so that what a report sets is
of a tracked pid.

*The refinement* (`MonitorProofs`). `EngineKeepsMonitors` is `KeepsMonitors` for every
set of pids and rules, and `EngineImplementsMonitor` that the engine's
specification implies `MonitorSpec` under the mapping, for each rule and pid. The
argument goes through the same four cases; in the fourth
it follows one rule at one pid through an event: its only match survives, advances,
expires or reports, a first transition begins one only if there is none left and
no cooldown. `SingleActive` (only one match) and `CooldownOver` (it began after the cooldown
was over) are what the mapping rests on.

*The profiler* (`ProfilerProofs`). `TaskInv` relates a task to the pending call of its
pid: a call is pending only if the task is in it, died in it or took it over, or
if the pid was a thread's that executed a program and nothing was parsed for its
new task; and while a task is in a call it has printed nothing, and what was
parsed for it is pending. This is what `PendingIsOwn`, `PrintedOnce` and
`PrintedOwnCall` lack to be inductive: the first does not say that a parsed call *is*
pending, the second nothing of a call under way. One lemma says that a
step that changes one task and its pid's pending call keeps the invariant if that
task does (`OneTask`), a second the same of a group that ends (`SomeEnd`); there is
then one lemma for each action.

`ProfilerLeavesLast` has an invariant of its own, `GroupInv`, as in `TracerSafety` below:
a leader stays as long as its group (`Led`), a thread executes a program alone
(`ExecAlone`), each task is tracked, lost or still to be reported
(`TrackedOrPending`), and creators have an order (`Ordered`). Reuse of pids is allowed
here: a new task has created nothing, so that even a late fork stop that names its pid closes
no circle; and the profiler's tables are keyed by pid alone, so that nothing has to
be moved when a thread's execve changes one.

*The loop* (`TracerProofs`). `TracerInv` adds to the types that a fork stop's
message is not the task's own pid, that an entry stop has a call, and that the
leader of every task exists and leads itself. From it `LoopUsesEngine`
follows: every step of the tracer is a step of the
engine's specification or leaves the engine alone. `ProgramSafe` carries the
engine's nine properties to the whole program. Both hold with every reuse of pids.

*The loop's properties* (`TracerSafety`). None of the five is inductive, and they
are proved in three layers.

* `CallsInv`, for `JudgedOnce` and `OwnCallJudged`: where in a call a task can stop
  (`PlacedTasks`), that a record has its own pid (`OwnRecords`), and that a call
  that was recorded and has not returned *has* the engine's open record under the
  pid it was made with, which the exec stop renames (`JudgedCalls`). `GonePids`
  says that the pid a thread leaves in its execve is nobody's, and `NewPids` that a
  creation that waits to be reported names a pid that no other one names, nor another
  task's exec event, and whose task, if it is not gone, leads a group of its own or is
  in its creator's.
* `GroupInv`, for `TrackedOrPending` and `LeavesLast`: a thread executes a program
  only when the rest of its group is dead (`ExecAlone`), so taking the leader's
  pid loses nobody; and creators are well-founded (`Ordered`: in any set of tasks
  one was created by none of the others), so that if no task is tracked, a task
  whose creation is pending leads back to one that is tracked, or lost.
* `FlagsInv`, for `FlagsExact`: the history that says which flag a task ought to have
  is compared with the engine's sets at every place a flag can be between two
  stops: with a creator whose fork stop waits (`Heritage`), with a thread whose pid
  is about to change (`ExecFlags`), with a leader that was not told (`LeaderTold`).

All five have the hypothesis `~ReuseNamed`: pids are reused, but none is handed out
between the moment a stop that names it comes to wait and the moment it is handled.
It is necessary for the first two and the last: otherwise a pid that an execve left
behind may be a new task's when the exec stop is handled, and `handle_exec_stop`
moves the record of that task. TLC finds `JudgedOnce`, `OwnCallJudged` and
`FlagsExact` violated with `ReuseNamed = TRUE`. It is a hypothesis about the kernel,
which hands out pids in a circle: `pid_max` of them have to go while one stop waits.

It does not hide the flags a fork event leaves for a child that is gone already
(`add_tracked_pid`, engine.cc:296), or those of a tracee killed before its exec stop
was handled. Nothing takes them back: whoever gets that pid, at any later time, runs with them
and hands them on, though no program it runs was a shell (or an allowed one). The model has these
behaviours. `FlagsExact` exempts the tasks they are of, by the history `told`, which
is FALSE for a task whose pid was tracked when it was created and for what it creates; no
doc says that they should be different. What it does claim of reused pids is that the
flags of a task whose end was handled never reach the next one. Partial matches do:
see `pid_reuse`.

*The readers* (`ReaderProofs`). `ReadInv` has one part per stage: the types, what an
entry found, and that what was read so far (`EntryOK`: of a word, a string, a vector,
a buffer), each finished field (`RecordedOK`) and what the kernel took (`TakenOK`) is
what the memory holds *wherever nobody wrote*. The predicates say nothing of the
bytes in `poked`: so a write of another thread keeps all of them, and the
five properties follow from two descriptions of the same memory, the reader's by
words and the kernel's by bytes. Most of the module is about that: words and bytes
(`WordsMapped`, `MappedBytes`), the first NUL of a text read in words
(`BeforeNul`), a pointer as a number (`PointerIsNat`), that a vector of a finite
memory ends (`VectorEnds`, a pigeonhole argument), and the sizes of addresses. No
hypothesis is made but the constants' assumptions: `SizeAssumption` has the
limits in the order they have in the code and the kernel, `ValueAssumption` that
families are distinct, memories finite, and registers natural numbers.

The inductions over the length of a text, a vector or a number's bytes go through
the least number of a set (`NatMin`), since the library's induction theorems take an
operator, which the provers cannot instantiate.

*The file rules* (`FileProofs`). Every step is idle for the rules or is the exit of
a call (`Steps`). The engine's `match` is unfolded once, into what stays, what begins,
what is reported and which cooldowns are set (`Judged`), and each transition function
into what it does to one match (`DbStep`, `WalkStep`, `ScanStep`); nothing above
these lemmas looks into the engine again. The inductive invariant is `FileInv`:

* `TablesOK`, `OneMatch` and `Counted`: the types, one match of a single-active rule,
  and that the paths a match has counted were opened or read since it began. The
  last is also where the finiteness of the counted sets comes from, and gives
  `ReportIsScan` and `ReportIsTraversal`.
* `OpensOK`, `Accounted`, `Accounts`, for the byte count. `AccountsAgree` is not inductive:
  it does not say in which of the rule's three states the match is, so a `dup2`
  might be ignored, nor that the latest descriptor of a followed open still leads to
  it, so a read might be another file's. `OpensOK` and `Accounted` say both; `Accounts` is
  the converse, from matches to opens, that `ReportIsLarge` needs.
* `ScansCounted`, `VisitsCounted`, for `ScanNoticed` and `TraversalNoticed`: there is a
  set of fewer than `Threshold` paths (for directories, one more) that covers every
  path in the window which the current match has not counted. They are the paths of the match that
  expired last, with the directory that was under way then. Two sets of that size
  are what the bounds `2 * Threshold - 1` and `2 * Threshold` leave room for (`TwoSets`).
  `HistoryOK` relates the time of the last report to the engine's cooldown entry, so
  that a quiet rule is one whose first transitions are not refused.

The assumptions are `KindAssumption` (the rules are finitely many and of the three kinds;
`read_db_large` comes first and has no cooldown, as `register_rules` adds it; any
window, and any cooldown for the others) and `ProcessAssumption` (the model values are
distinct).

*Paths* (`PathProofs`). Two descriptions of a path are compared: what `helpers.h`
makes of its text, a fold over the names, and where the kernel's walk goes, a fold
over the same names that follows links through the tree. The module has three
parts.

* *Recursion.* `Recursion` says that a function defined along the parents of a tree
  exists and has the values its definition says (`PathTo`, `Below`), `FoldRecursion`
  the same of a fold. Both go by the least element of a set, since the library's
  induction theorems take an operator. From them come the laws of `lexically_normal`
  (`NormalPlain`, `NormalSteps`), of walks (`WalkSteps`), and of the tree: walking a
  file's own path leads to it (`WalkPathTo`), so no two files that are not removed
  have one path (`PathToInjective`), and a file is below a directory exactly if the
  directory's path is a proper beginning of its own (`BelowPrefix`).
* *One path.* `WalkLeads` goes over the names of a path, with the normal form of those
  passed (`Leads`). The walk is `Sound`: the normal
  form leads to where the walk is, it is the file's own path if no link is left in it, and
  each of its names that is left of the text and is no link leads from a directory
  to a file in it (`InPlace`). It is this last part that a `..` needs, which takes one
  name off the text and goes to the parent of where the walk is. Or the walk is
  `Astray`: it began in a removed directory, has so far only gone up, and is in
  a removed directory still; then the normal form leads elsewhere or nowhere. A path
  that is sound is never that of a descriptor (`NotDescriptor`), so the descriptor's
  link in an execve is followed exactly when the kernel followed it.
* *Many steps.* `WalkStable`: a walk is the same in another tree that differs
  in one file, if it does not lead through that file. `MoveTree` and `UnlinkTree`: what a rename and
  a removal leave is a tree. With these `PathInvariant` is inductive: until its exit
  stop a call that nobody disturbed would still find its file (`Refound`), its
  descriptors hold that file or were closed (`Described`), and afterwards the path
  taken is the file's own (`OwnPath`). Its three consequences are `PathsLead`,
  `DescriptorsLead` and `RulesExact`.

The assumptions are `PathAssumption` (the root is a directory, links are not,
and the targets of links are paths), `NamesAssumption` (no file is called `.` or `..`),
`DescriptorAssumption` (descriptors are below 2^32, so that `parse_fd_path` loses
nothing of one that exists; the names in `/proc/<pid>/fd` have no dots; a thread's
directory is not the leader's), `TreeAssumption` (the initial trees and the changes
are of a tree; `/proc` and `/dev` are not part of it), and `RequestAssumption` (a call
that succeeds has a path; execve has no descriptor). TLC evaluates them on the run,
and checked `PathInv` on all its states before it was proved.

*Model-checked only*: the liveness properties `StopsHandled`, `LoopEnds`, `ProfilerEnds`
and `ReadingEnds`, which are out of the prover's reach, and the three properties that
are violated. Every other property that a run checks is a theorem.

## 5. Not modelled, and the plan

Modelled in part:

* *Built-in rules*: the grep rule, a test of the arguments of one execve, is not. Its
  `step_execve_grep_recursive` is one pass over `argv` and keeps no state; a model of it would
  be its text again. The same holds of the functions the generator writes for
  single calls, and of its argv policies.
* *Rule generator*: its treatment of several rule files (the allow list is taken from
  the variable of the file loop, `rule_codegen.py:1794`) is listed as a hazard; the
  generator is a program that writes text and is not modelled as such.
* *Path helpers*: `get_env_value`, which only debug printing calls.

Not modelled: the profile analysis (`profiler/*.py`), sequential passes over recorded
logs; test set-up, log colouring and the build, which keep no state of the
detector; debug printing.

What would come next, in order:

1. `Conditions`: allow and deny conditions, the argv policies and the grep rule as
   operators, against what the YAML means.
2. Threads that share a descriptor table, in `FileProcess`: the rules' data is of a
   pid, the table is of a process.
3. Path compression (`profiler/path_compress.py`) against a reference definition.
4. Links whose target has a link, in `Paths`: a walk follows one level of them.
