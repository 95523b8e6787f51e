--------------------------------- MODULE Paths ---------------------------------
(***************************************************************************)
(* How helpers.h makes an absolute path of the argument of a call: by its  *)
(* text, the base of a relative one read from /proc at the call's exit     *)
(* stop.  The kernel has followed the path through the directory tree      *)
(* before, and other threads may since have changed the working directory, *)
(* the descriptors or the tree.                                            *)
(***************************************************************************)
EXTENDS Integers, Sequences, SequencesExt

CONSTANTS
  Nodes, RootDir, Dirs, Target,  \* files; Target[l] is what symbolic link l says
  Names,           \* what files may be called
  Fds, FdNumber,   \* descriptors; the number that a name of digits stands for
  FdModulus,       \* 2^32, the range of parse_fd_path's result
  Leader, Thread,  \* pids of the process's two threads
  SelfFd, DevFd, ProcFd,   \* /proc/self/fd, /dev/fd and /proc/<pid>/fd
  CallerCwd,       \* AT_FDCWD
  NoNode, NoCall, Nullopt,
  Places, Cwds, DescriptorTables,   \* initial trees, directories and tables
  Requests, RulePaths,     \* the calls, and the paths of path_in conditions
  Moves, Removals, Chdirs, Dups,    \* what other threads do
  MaxChanges       \* bound: how often they do

\* A path: whether it begins and ends with a slash, and its names.
Path(abs, names, slash) == [abs |-> abs, names |-> names, slash |-> slash]

PathValues == [abs : BOOLEAN, names : Seq(STRING), slash : BOOLEAN]

IsEmpty(path) == ~path.abs /\ path.names = << >>

\* /proc/self/fd/3 and the like lead to the descriptor's file.
FdPrefixes(pids) == {SelfFd, DevFd} \cup {ProcFd[p] : p \in pids}

\* The name that an open, removed file has in /proc.
Removed(name) == name \o " (deleted)"

Dots == {".", ".."}

ASSUME PathAssumption ==
  /\ Dirs \subseteq Nodes /\ RootDir \in Dirs
  /\ DOMAIN Target \subseteq Nodes \ Dirs /\ Target \in [DOMAIN Target -> PathValues]
  /\ NoNode \notin Nodes /\ Nullopt \notin PathValues /\ FdModulus \in Nat \ {0}
  /\ Leader # Thread /\ MaxChanges \in Nat

ASSUME NamesAssumption ==
  \A name \in Names : {name, Removed(name)} \subseteq STRING \ Dots

ASSUME DescriptorAssumption ==
  /\ Fds \subseteq 0 .. FdModulus - 1 /\ CallerCwd \notin Fds
  /\ FdNumber \in [DOMAIN FdNumber -> Nat] /\ DOMAIN FdNumber \subseteq STRING \ Dots
  /\ FdPrefixes({Leader, Thread}) \subseteq Seq(STRING \ Dots) \ {<< >>}
  /\ ProcFd[Thread] \notin FdPrefixes({Leader})
  /\ DescriptorTables \subseteq [Fds -> [node : Nodes \cup {NoNode}, cloexec : BOOLEAN]]

\* Every node but the root is in a directory, which is not removed while it is
\* there, under a name of its own.  /proc and /dev are not part of the tree.
IsTree(t) ==
  /\ t \in [Nodes \ {RootDir} -> [dir : Dirs, name : Names, gone : BOOLEAN]]
  /\ \A S \in SUBSET (Nodes \ {RootDir}) : S = {} \/ \E n \in S : t[n].dir \notin S
  /\ \A n \in Nodes \ {RootDir} :
       /\ ~t[n].gone => t[n].dir = RootDir \/ ~t[t[n].dir].gone
       /\ \A m \in Nodes \ {RootDir, n} :
            ~t[m].gone /\ ~t[n].gone => t[m].dir # t[n].dir \/ t[m].name # t[n].name
       /\ t[n].dir = RootDir => \A prefix \in FdPrefixes({Leader, Thread}) : t[n].name # Head(prefix)

ASSUME TreeAssumption ==
  /\ \A t \in Places : IsTree(t)
  /\ Cwds \subseteq Dirs /\ Chdirs \subseteq Dirs /\ Removals \subseteq Nodes \ {RootDir}
  /\ Dups \subseteq Fds \X (Nodes \cup {NoNode})
  /\ Moves \subseteq (Nodes \ {RootDir}) \X Dirs \X Names
  /\ \A m \in Moves, prefix \in FdPrefixes({Leader, Thread}) : m[2] = RootDir => m[3] # Head(prefix)

\* A call with an empty path fails, and execve has no descriptor.
ASSUME RequestAssumption ==
  /\ Requests \subseteq [name : {"openat", "execve", "getdents64"}, pid : {Leader, Thread},
                          fd : Fds \cup {CallerCwd}, path : PathValues]
  /\ \A c \in Requests : /\ c.name # "getdents64" => ~IsEmpty(c.path)
                         /\ c.name = "execve" => c.fd = CallerCwd
  /\ RulePaths \subseteq PathValues

VARIABLES
  place,      \* where each file is: the directory, its name, and if it is removed
  cwd, fds,   \* the working directory and descriptor table the threads share
  at,         \* how far the call is
  call,       \* what the caller calls
  walk,       \* what the kernel found
  changed,    \* the descriptors other threads have replaced since, CallerCwd
              \* for the working directory
  moved,      \* the files that were moved or removed since
  changes,    \* how often
  resolved,   \* the path helpers.h returns
  rule,       \* the path the rule compares it with
  matches     \* what is_path_in returns

pathVars ==
  <<place, cwd, fds, at, call, walk, changed, moved, changes, resolved, rule, matches>>

-----------------------------------------------------------------------------
(* The kernel's tree, t: place, as it is when the operator is used.         *)

Live(t, n) == n # RootDir => ~t[n].gone

Parent(t, n) == IF n = RootDir THEN RootDir ELSE t[n].dir

\* The names from the root to each node.
PathTo(t) ==
  LET path[n \in Nodes] ==
        IF n = RootDir THEN << >> ELSE Append(path[t[n].dir], t[n].name)
  IN  path

\* A node's path as the kernel writes it in /proc: of directories above it that
\* are removed, too, it does not say so.
NamesOf(t, n) ==
  IF Live(t, n) THEN PathTo(t)[n]
  ELSE Append(PathTo(t)[t[n].dir], Removed(t[n].name))

Below(t, n, d) ==
  LET below[m \in Nodes] == m # RootDir /\ (t[m].dir = d \/ below[t[m].dir])
  IN  below[n]

Child(t, d, name) ==
  LET found == {n \in Nodes \ {RootDir} :
                  ~t[n].gone /\ t[n].dir = d /\ t[n].name = name}
  IN  IF found = {} THEN NoNode ELSE CHOOSE n \in found : TRUE

\* Where a walk is.  links says of each name that is left of the path's text
\* whether it is a symbolic link, through what nodes the walk went; back is
\* set by ".." after a link.
Start(n) == [node |-> n, links |-> << >>, back |-> FALSE, through |-> {}]

Into(w, n, link) ==
  [w EXCEPT !.node = n, !.links = Append(@, link), !.through = @ \cup {n}]

Up(t, w) ==
  [w EXCEPT !.node = Parent(t, @), !.through = @ \cup {w.node},
            !.links = IF @ = << >> THEN @ ELSE Front(@),
            !.back = @ \/ (w.links # << >> /\ Last(w.links))]

\* One name of a path without links.
PlainStep(t, w, name) ==
  IF w.node \notin Dirs THEN [w EXCEPT !.node = NoNode]
  ELSE IF name = "." THEN w
  ELSE IF name = ".." THEN Up(t, w)
  ELSE Into(w, Child(t, w.node, name), FALSE)

\* What a path without links leads to.
PlainWalk(t, from, names) ==
  FoldLeft(LAMBDA w, name : PlainStep(t, w, name), Start(from), names)

\* A link is followed; its target has none.
Step(t, w, name) ==
  LET next == PlainStep(t, w, name)
      target == Target[next.node]
      goal == PlainWalk(t, IF target.abs THEN RootDir ELSE w.node, target.names)
  IN  IF next.node \notin DOMAIN Target THEN next
      ELSE [Into(w, goal.node, TRUE) EXCEPT
              !.through = @ \cup goal.through \cup {next.node}]

WalkNames(t, from, names) ==
  FoldLeft(LAMBDA w, name : Step(t, w, name), Start(from), names)

Walk(t, from, path) ==
  LET w == WalkNames(t, IF path.abs THEN RootDir ELSE from, path.names)
  IN  IF path.slash /\ w.node \notin Dirs THEN [w EXCEPT !.node = NoNode] ELSE w

IsFdPath(path, pids) ==
  /\ path.abs /\ ~path.slash /\ path.names # << >>
  /\ Front(path.names) \in FdPrefixes(pids)
  /\ Last(path.names) \in DOMAIN FdNumber

Open(fd) == fd \in Fds /\ fds[fd].node # NoNode

KernelWalk(c) ==
  IF c.name = "getdents64" THEN Start(IF Open(c.fd) THEN fds[c.fd].node ELSE NoNode)
  ELSE IF c.name = "execve" /\ IsFdPath(c.path, {Leader, Thread}) THEN
    LET fd == FdNumber[Last(c.path.names)]
    IN  Start(IF Open(fd) THEN fds[fd].node ELSE NoNode)
  ELSE IF c.path.abs \/ c.fd = CallerCwd THEN Walk(place, cwd, c.path)
  ELSE Walk(place, IF Open(c.fd) THEN fds[c.fd].node ELSE NoNode, c.path)

-----------------------------------------------------------------------------
(* helpers.h                                                               *)

\* Mutant: ".." is left where it is.
Normal_step_dotdot(names, name) == IF name = "." THEN names ELSE Append(names, name)

\* std::filesystem::path::lexically_normal, of a path from the root.
Normal_step(names, name) ==
  IF name = "." THEN names
  ELSE IF name = ".." THEN IF names = << >> THEN names ELSE Front(names)
  ELSE Append(names, name)

lexically_normal(names) == FoldLeft(Normal_step, << >>, names)

\* The root's only slash is also its last.
normalize_path(names, keep_trailing_slash) ==
  LET normal == lexically_normal(names)
  IN  Path(TRUE, normal, keep_trailing_slash \/ normal = << >>)

get_absolute_path(path) ==
  IF IsEmpty(path) THEN Nullopt
  ELSE normalize_path((IF path.abs THEN << >> ELSE NamesOf(place, cwd)) \o path.names, path.slash)

\* Mutant: the descriptor is not looked at.
get_absolute_path_at_cwd(dirfd, path) == get_absolute_path(path)

get_absolute_path_at(dirfd, path) ==
  IF IsEmpty(path) \/ path.abs \/ dirfd = CallerCwd THEN get_absolute_path(path)
  ELSE IF ~Open(dirfd) THEN Nullopt
  ELSE normalize_path(NamesOf(place, fds[dirfd].node) \o path.names, path.slash)

get_fd_path(fd) ==
  IF Open(fd) THEN normalize_path(NamesOf(place, fds[fd].node), FALSE) ELSE Nullopt

parse_fd_path(path) == FdNumber[Last(path.names)] % FdModulus

\* Mutant: the path of the descriptor's link is the result.
resolve_exec_fd_path_kept(pid, path) == path

resolve_exec_fd_path(pid, path) ==
  IF IsFdPath(path, {pid}) THEN get_fd_path(parse_fd_path(path)) ELSE path

get_execve_path(pid, path) ==
  LET absolute_path == get_absolute_path(path)
  IN  IF absolute_path = Nullopt THEN Nullopt
      ELSE resolve_exec_fd_path(pid, absolute_path)

-----------------------------------------------------------------------------
(* The generated is_path_in.                                               *)

StartsWith(path, prefix) ==
  /\ IsPrefix(prefix.names, path.names)
  /\ prefix.slash => Len(path.names) > Len(prefix.names) \/ path.slash

\* Mutant: the directory itself is in it.
is_path_in_itself(absolute_path, path) ==
  LET path_in == get_absolute_path(path)
  IN  /\ absolute_path # Nullopt /\ path_in # Nullopt
      /\ IF path.slash THEN StartsWith(absolute_path, path_in)
         ELSE absolute_path.names = path_in.names

is_path_in(absolute_path, path) ==
  LET path_in == get_absolute_path(path)
  IN  /\ absolute_path # Nullopt /\ path_in # Nullopt
      /\ IF path.slash THEN absolute_path # path_in /\ StartsWith(absolute_path, path_in)
         ELSE absolute_path \in {path_in, [path_in EXCEPT !.slash = TRUE]}

-----------------------------------------------------------------------------
(* A call, and what the tracer does at its exit stop.                      *)

Enter(c) ==
  /\ at = "user"
  /\ call' = c /\ at' = "entered"
  /\ UNCHANGED <<place, cwd, fds, walk, changed, moved, changes, resolved, rule, matches>>

\* The kernel finds the file.  Calls that fail are not looked at.
Lookup ==
  /\ at = "entered"
  /\ LET w == KernelWalk(call)
         found == /\ w.node # NoNode
                  /\ call.name = "getdents64" => w.node \in Dirs
                  /\ call.name = "execve" => w.node \notin Dirs
     IN  /\ walk' = w
         /\ at' = IF ~found THEN "failed"
                  ELSE IF call.name = "execve" THEN "executing" ELSE "exited"
  /\ changed' = {} /\ moved' = {}
  /\ UNCHANGED <<place, cwd, fds, call, changes, resolved, rule, matches>>

\* An execve ends the other threads, gives the caller the leader's pid, and
\* closes the descriptors that are not to be kept.
ExecDone ==
  /\ at = "executing"
  /\ at' = "exited"
  /\ call' = [call EXCEPT !.pid = Leader]
  /\ fds' = [fd \in Fds |-> IF fds[fd].cloexec THEN [fds[fd] EXCEPT !.node = NoNode]
                            ELSE fds[fd]]
  /\ UNCHANGED <<place, cwd, walk, changed, moved, changes, resolved, rule, matches>>

\* The exit stop: what a transition function takes for the path.
Resolve ==
  /\ at = "exited"
  /\ resolved' = CASE call.name = "openat" -> get_absolute_path_at(call.fd, call.path)
                   [] call.name = "execve" -> get_execve_path(call.pid, call.path)
                   [] call.name = "getdents64" -> get_fd_path(call.fd)
  /\ at' = "resolved"
  /\ UNCHANGED <<place, cwd, fds, call, walk, changed, moved, changes, rule, matches>>

\* A path_in condition, which reads the working directory again.
Compare(path) ==
  /\ at = "resolved"
  /\ rule' = path
  /\ matches' = is_path_in(resolved, path)
  /\ at' = "compared"
  /\ UNCHANGED <<place, cwd, fds, call, walk, changed, moved, changes, resolved>>

-----------------------------------------------------------------------------
(* Meanwhile.                                                              *)

Change ==
  /\ at \in {"entered", "executing", "exited", "resolved"}
  /\ changes < MaxChanges    \* bound
  /\ changes' = changes + 1
  /\ UNCHANGED <<at, call, walk, resolved, rule, matches>>

\* The process has other threads until it executes a program.
OtherThreads == call.name = "execve" => at \in {"entered", "executing"}

Chdir(d) ==
  /\ Change /\ OtherThreads
  /\ cwd' = d /\ changed' = changed \cup {CallerCwd}
  /\ UNCHANGED <<place, fds, moved>>

Dup2(fd, node) ==
  /\ Change /\ OtherThreads
  /\ fds' = [fds EXCEPT ![fd] = [node |-> node, cloexec |-> FALSE]]
  /\ changed' = changed \cup {fd}
  /\ UNCHANGED <<place, cwd, moved>>

\* Any process may rename a file or a directory, onto nothing.
Move(n, d, name) ==
  /\ Change
  /\ ~place[n].gone /\ Child(place, d, name) = NoNode
  /\ n # d /\ ~Below(place, d, n) /\ Live(place, d)
  /\ place' = [place EXCEPT ![n] = [dir |-> d, name |-> name, gone |-> FALSE]]
  /\ moved' = moved \cup {n}
  /\ UNCHANGED <<cwd, fds, changed>>

Unlink(n) ==
  /\ Change
  /\ ~place[n].gone /\ \A m \in Nodes \ {RootDir} : place[m].gone \/ place[m].dir # n
  /\ place' = [place EXCEPT ![n].gone = TRUE]
  /\ moved' = moved \cup {n}
  /\ UNCHANGED <<cwd, fds, changed>>

-----------------------------------------------------------------------------
PathInit ==
  /\ place \in Places /\ cwd \in Cwds /\ fds \in DescriptorTables
  /\ at = "user" /\ call = NoCall /\ walk = Start(NoNode)
  /\ changed = {} /\ moved = {} /\ changes = 0
  /\ resolved = Nullopt /\ rule = Nullopt /\ matches = FALSE

PathNext ==
  \/ \E c \in Requests : Enter(c)
  \/ Lookup \/ ExecDone \/ Resolve
  \/ \E p \in RulePaths : Compare(p)
  \/ \E d \in Chdirs : Chdir(d)
  \/ \E d \in Dups : Dup2(d[1], d[2])
  \/ \E m \in Moves : Move(m[1], m[2], m[3])
  \/ \E n \in Removals : Unlink(n)

PathSpec == PathInit /\ [][PathNext]_pathVars

-----------------------------------------------------------------------------
(* Properties.                                                             *)

\* The call's path was not followed through a descriptor's link.
ByName ==
  \/ call.name = "openat"
  \/ call.name = "execve" /\ ~IsFdPath(call.path, {Leader, Thread})

\* Since the kernel followed it, nobody changed what the path starts from nor
\* moved a file it leads through.
Undisturbed ==
  /\ walk.through \cap moved = {}
  /\ ~call.path.abs => call.fd \notin changed

\* The path that openat's and execve's transition functions go by leads to the
\* file that the call took, whatever it was written with, unless it has a
\* ".." after a symbolic link or was disturbed: a file or directory it goes
\* through moved, or another thread changed the working directory or
\* descriptor it starts from, between the call and its exit stop.  If no link
\* is left in it, it is the file's own path.  It may not be if ".." ends in a
\* removed directory, coming from one (helpers.h:54).
PathNamed ==
  [][at' = "resolved" /\ at # "resolved" /\ ByName /\ Undisturbed /\ ~walk.back
     /\ (Live(place, walk.node) \/ walk.through = {}) =>
       /\ resolved' # Nullopt
       /\ IF \E i \in DOMAIN walk.links : walk.links[i]
          THEN Walk(place, RootDir, resolved').node = walk.node
          ELSE resolved'.names = NamesOf(place, walk.node)]_pathVars

\* The path that a directory is counted by is its own at the exit stop, also if
\* it was moved or removed meanwhile, unless another thread replaced the
\* descriptor (rule_codegen.py:1189).  A program executed through a descriptor
\* is known by its own path, but not if the descriptor closes on execve, or if
\* a thread used its pid, which it has no longer, for the name (helpers.h:124).
DescriptorNamed ==
  [][LET fd == FdNumber[Last(call.path.names)]
         stopped == at' = "resolved" /\ at # "resolved"
     IN  /\ stopped /\ call.name = "getdents64" /\ call.fd \notin changed =>
              resolved' = normalize_path(NamesOf(place, walk.node), FALSE)
         /\ stopped /\ call.name = "execve" /\ ~ByName /\ fd \notin changed =>
              resolved' = IF Front(call.path.names) = ProcFd[Thread] THEN call.path
                          ELSE IF fds[fd].cloexec THEN Nullopt
                          ELSE Path(TRUE, NamesOf(place, walk.node), FALSE)]_pathVars

\* A path_in condition holds exactly for the file its path leads to or, with a
\* slash at the end, for what is below that directory, however the two paths
\* are written, if no link is left in either, nothing that the call goes
\* through changed before its exit stop and nothing moved, and neither leads to
\* a removed directory, which may have the path of another; the condition's own
\* path, if relative, starts from the working directory there is when it is
\* looked at (rule_codegen.py:186).
PathInExact ==
  LET d == Walk(place, cwd, [rule EXCEPT !.slash = FALSE])
      plain(w) == ~w.back /\ \A i \in DOMAIN w.links : ~w.links[i]
  IN  /\ at = "compared" /\ ByName /\ plain(walk) /\ Undisturbed /\ moved = {}
      /\ ~IsEmpty(rule) /\ plain(d) /\ d.node # NoNode
      /\ Live(place, walk.node) /\ Live(place, d.node)
      => matches = IF rule.slash THEN Below(place, walk.node, d.node) ELSE walk.node = d.node

===============================================================================
