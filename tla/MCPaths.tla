-------------------------------- MODULE MCPaths --------------------------------
(***************************************************************************)
(* /a, /a/b, /a/b/f, /a/f and a link /l to a/b, two of whose descriptors    *)
(* are open, /a/c and in it a removed directory.                           *)
(***************************************************************************)
EXTENDS Paths, TLC

MCNodes == {"root", "a", "b", "f", "g", "l", "c", "d"}
MCDirs == {"root", "a", "b", "c", "d"}
MCNames == {"a", "b", "c", "d", "f", "l"}
MCTarget == "l" :> Path(FALSE, <<"a", "b">>, FALSE)

In(d, name) == [dir |-> d, name |-> name, gone |-> FALSE]
Gone(d, name) == [dir |-> d, name |-> name, gone |-> TRUE]
MCPlaces ==
  {"a" :> In("root", "a") @@ "b" :> In("a", "b") @@ "f" :> In("b", "f")
   @@ "g" :> In("a", "f") @@ "l" :> In("root", "l")
   @@ "c" :> In("a", "c") @@ "d" :> Gone("c", "d")}

MCDescriptorTables ==
  {3 :> [node |-> "a", cloexec |-> FALSE] @@ 4 :> [node |-> "f", cloexec |-> c] : c \in BOOLEAN}

MCFdNumber == "3" :> 3 @@ "4" :> 4 @@ "12" :> 12
MCSelfFd == <<"proc", "self", "fd">>
MCDevFd == <<"dev", "fd">>
MCProcFd == 1 :> <<"proc", "1", "fd">> @@ 2 :> <<"proc", "2", "fd">>

NameSets == UNION {[1 .. n -> {"a", "b", "f", "l", ".", ".."}] : n \in 0 .. 3}
Call(name, pid, fd, path) == [name |-> name, pid |-> pid, fd |-> fd, path |-> path]

FilePaths == {Path(abs, names, FALSE) : abs \in BOOLEAN, names \in NameSets \ {<< >>}}
DirPaths == {Path(abs, names, TRUE) : abs \in BOOLEAN, names \in UNION {[1 .. n -> {"a", "b", "l", ".."}] : n \in 1 .. 2}}
FdPaths == {Path(TRUE, Append(prefix, name), FALSE) :
              prefix \in FdPrefixes({1, 2}), name \in DOMAIN MCFdNumber}

MCRequests ==
  {Call("openat", 1, fd, p) : fd \in {3, 4, CallerCwd}, p \in {q \in FilePaths \cup DirPaths : ~q.abs}}
  \cup {Call("openat", 1, CallerCwd, p) : p \in {q \in FilePaths \cup DirPaths : q.abs}}
  \cup {Call("execve", 2, CallerCwd, p) : p \in FdPaths \cup {q \in FilePaths : Last(q.names) \in {"f", "l"}}}
  \cup {Call("getdents64", 1, fd, Path(FALSE, << >>, FALSE)) : fd \in {3, 4}}

MCRulePaths ==
  {Path(TRUE, << >>, TRUE), Path(TRUE, <<"a">>, FALSE), Path(TRUE, <<"a", "b">>, TRUE),
   Path(FALSE, <<".">>, FALSE), Path(FALSE, <<".">>, TRUE), Path(FALSE, <<"..", "a">>, TRUE),
   Path(TRUE, <<"l">>, TRUE)}

MCMoves == {<<"b", "root", "b">>, <<"a", "root", "c">>, <<"f", "root", "f">>}
MCDups == {<<3, "b">>, <<4, NoNode>>}

===============================================================================
