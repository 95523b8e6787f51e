------------------------------- MODULE MCReaders -------------------------------
(***************************************************************************)
(* A memory of 12 bytes in pages of 4, of which any may be missing, with   *)
(* words of 2: bytes of strings in the first, then a table of pointers; or *)
(* a socket address.                                                       *)
(***************************************************************************)
EXTENDS Readers, TLC

Addresses == 4 .. 15
Page(a) == a \div 4
Mapped == (SUBSET {1, 2, 3}) \ {{}}

Punch(m, pages) == [a \in Addresses |-> IF Page(a) \in pages THEN m[a] ELSE Hole]

StringMemory(s, p) ==
  4 :> 1 @@ 5 :> s[1] @@ 6 :> s[2] @@ 7 :> s[3] @@ 8 :> 1 @@ 9 :> s[4]
  @@ 10 :> p[1] @@ 11 :> 0 @@ 12 :> p[2] @@ 13 :> 0 @@ 14 :> 0 @@ 15 :> 0

SocketMemory(family, b) ==
  [a \in Addresses |-> IF a = 5 THEN family ELSE IF a = 6 THEN b ELSE IF a = 8 THEN 0 ELSE a]

MCMemories ==
  {Punch(StringMemory(s, p), pages) :
     s \in [1 .. 4 -> {0, 1}], p \in [1 .. 2 -> {0, 5, 8}], pages \in Mapped}
  \cup {Punch(SocketMemory(f, b), pages) : f \in 1 .. 4, b \in {0, 6}, pages \in Mapped}

Args(a, b, c) == [i \in 0 .. 5 |-> IF i < 3 THEN <<a, b, c>>[i + 1] ELSE 0]
Request(name, args) == [name |-> name, args |-> args]

MCRequests ==
  {Request("openat", Args(0, a, 0)) : a \in {4, 5, 7}}
  \cup {Request("rename", Args(a, 5, 0)) : a \in {4, 7}}
  \cup {Request("execve", Args(path, argv, envp)) : path \in {7, 8}, argv \in {0, 10, 12}, envp \in {10, 14}}
  \cup {Request("write", Args(1, a, n)) : a \in {6, 7}, n \in 0 .. 3}
  \cup {Request(name, Args(3, a, n)) :
          name \in {"connect", "profiler_connect"}, a \in {0, 5}, n \in {0, 1, 3, 4, 5, 7}}
  \cup {Request(name, Args(0, 0, 0)) : name \in {"close", "getpid"}}

MCPokes == {<<5, 0>>, <<10, 7>>}
MCUnix == <<1>>
MCInet == <<2>>
MCInet6 == <<3>>

===============================================================================
