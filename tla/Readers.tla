-------------------------------- MODULE Readers --------------------------------
(***************************************************************************)
(* How the arguments of a call are read from the tracee's memory, at its   *)
(* entry stop, word by word (parse_syscall.cc, and the copies and variants *)
(* in profiler/syscall_tracer.cc), while the threads that are not stopped  *)
(* may write to that memory; and what the kernel then takes from it.       *)
(***************************************************************************)
EXTENDS Integers, Sequences, FiniteSetsExt

CONSTANTS
  Word,            \* sizeof(long)
  MaxString,       \* the bytes read_child_string looks at, PATH_MAX in the kernel
  MaxArgv, MaxEnvp,
  MaxArg,          \* what the kernel allows a string of argv
  FamilySize, InetSize, Inet6Size, UnixSize, StorageSize,  \* of sockaddrs
  Inet6Min,        \* the shortest IPv6 address the kernel connects to
  Inet, Inet6, Unix,       \* families, as sequences of bytes
  AtSign,          \* '@'
  Hole, Failed, NoArgs, NoCall,
  Memories, Requests,      \* initial memories, and the calls made
  Pokes,           \* the addresses and bytes other threads write
  MaxPokes         \* bound: how many writes happen

ASSUME SizeAssumption ==
  /\ Word \in Nat \ {0} /\ MaxString \in Nat /\ MaxString % Word = 0
  /\ MaxArgv \in Nat /\ MaxEnvp \in Nat /\ MaxArg \in Nat /\ MaxString <= MaxArg
  /\ {InetSize, Inet6Min, Inet6Size, UnixSize, StorageSize} \subseteq Nat
  /\ FamilySize \in Nat \ {0} /\ FamilySize < InetSize /\ InetSize < Inet6Min
  /\ Inet6Min <= Inet6Size /\ Inet6Size <= StorageSize /\ UnixSize <= StorageSize
  /\ MaxPokes \in Nat

\* A byte has eight bits, info.entry.args six registers.
ASSUME ValueAssumption ==
  /\ {Inet, Inet6, Unix} \subseteq Seq(0 .. 255)
  /\ Inet # Inet6 /\ Inet # Unix /\ Inet6 # Unix
  /\ Hole \notin 0 .. 255 /\ Failed \notin Seq(0 .. 255) \cup Seq(Seq(0 .. 255))
  /\ \A m \in Memories : IsFiniteSet(DOMAIN m) /\ m \in [DOMAIN m -> 0 .. 255 \cup {Hole}]
  /\ \A c \in Requests : c.args \in [0 .. 5 -> Nat]
  /\ \A p \in Pokes : p[2] \in 0 .. 255

VARIABLES
  mem,        \* the byte at each address, or Hole
  at,         \* "user", at the stop on "entry", in the "kernel", or "done"
  call,       \* the call the tracee makes
  reader,     \* how far the tracer's reading is
  recorded,   \* the arguments of the recorded event, or NoArgs
  taken,      \* what the kernel took, or Failed (EFAULT, EINVAL, ...)
  poked       \* addresses written since the entry stop

readerVars == <<mem, at, call, reader, recorded, taken, poked>>

Byte(a) == IF a \in DOMAIN mem THEN mem[a] ELSE Hole

-----------------------------------------------------------------------------
(* One word of the tracee's memory.                                        *)

\* PTRACE_PEEKDATA fails if any byte of the word is not mapped.
read_child_word(a) == \A i \in 0 .. Word - 1 : Byte(a + i) # Hole

word(a) == [i \in 1 .. Word |-> Byte(a + i - 1)]

\* The first byte is the low one.
read_child_pointer(a) ==
  LET value[i \in 0 .. Word] == IF i = Word THEN 0 ELSE Byte(a + i) + 256 * value[i + 1]
  IN  value[0]

-----------------------------------------------------------------------------
(* What each parse function reads, in order.                               *)

Str(a) == [kind |-> "string", from |-> a, size |-> MaxString]
Vec(a, limit) == [kind |-> "vector", from |-> a, size |-> limit]
Raw(a, size) == [kind |-> "bytes", from |-> a, size |-> size]

Least(a, b) == IF a < b THEN a ELSE b

parse_execve(a) == <<Str(a[0]), Vec(a[1], MaxArgv), Vec(a[2], MaxEnvp)>>

\* Which arguments are paths, by call; the profiler's own in the third table.
OnePath ==
  [openat |-> 1, chdir |-> 0, chmod |-> 0, fchmodat |-> 1, truncate |-> 0, unlinkat |-> 1]
TwoPaths ==
  [rename |-> <<0, 1>>, renameat |-> <<1, 3>>, renameat2 |-> <<1, 3>>,
   linkat |-> <<1, 3>>, symlinkat |-> <<0, 2>>]
ProfilerPath == [unlink |-> 0, mkdir |-> 0, mkdirat |-> 1]

PathArguments(name) ==
  IF name \in DOMAIN OnePath THEN <<OnePath[name]>>
  ELSE IF name \in DOMAIN TwoPaths THEN TwoPaths[name]
  ELSE <<ProfilerPath[name]>>

PathCalls == DOMAIN OnePath \cup DOMAIN TwoPaths \cup DOMAIN ProfilerPath

\* Calls whose event has numbers only, which are in registers.
PlainCalls ==
  {"ftruncate", "sendto", "dup2", "close", "read", "pread64", "getdents64",
   "copy_file_range"}

WriteCalls == {"write", "pwrite64"}

parse_write(a) == <<Raw(a[1], a[2])>>

\* Mutant: as many bytes as the largest address has.
parse_connect_all(a) == <<Raw(a[1], StorageSize)>>

parse_connect(a) == <<Raw(a[1], Least(a[2], StorageSize))>>

\* The profiler's: the family first, then as much as it calls for.
read_sockaddr(from, len, got) ==
  LET address ==
        CASE got = << >> -> << >>
          [] got # << >> /\ got[1] = Inet /\ len >= InetSize -> <<Raw(from, InetSize)>>
          [] got # << >> /\ got[1] = Inet6 /\ len >= Inet6Size -> <<Raw(from, Inet6Size)>>
          [] got # << >> /\ got[1] = Unix -> <<Raw(from, Least(len, UnixSize))>>
          [] OTHER -> << >>
  IN  IF from = 0 \/ len < FamilySize THEN << >> ELSE <<Raw(from, FamilySize)>> \o address

\* What is read for a call, as far as it is known from what was read already.
Reads(c, got) ==
  CASE c.name = "execve" -> parse_execve(c.args)
    [] c.name \in PathCalls ->
         [i \in DOMAIN PathArguments(c.name) |-> Str(c.args[PathArguments(c.name)[i]])]
    [] c.name \in WriteCalls -> parse_write(c.args)
    [] c.name = "connect" -> parse_connect(c.args)
    [] c.name = "profiler_connect" -> read_sockaddr(c.args[1], c.args[2], got)
    [] OTHER -> << >>

-----------------------------------------------------------------------------
(* What a parse function makes of what was read: Failed is std::nullopt.   *)

value_or_empty(v) == IF v = Failed THEN << >> ELSE v

ExecveData(got) ==
  IF got[1] = Failed THEN NoArgs
  ELSE [filename |-> got[1], argv |-> value_or_empty(got[2]), envp |-> value_or_empty(got[3])]

\* The registers that go with them are left out.
PathData(got) == IF \E i \in DOMAIN got : got[i] = Failed THEN NoArgs ELSE got

\* The bytes of the port and the address.
InetAddress(bytes) == SubSeq(bytes, FamilySize + 1, InetSize)
Inet6Address(bytes) == SubSeq(bytes, FamilySize + 1, Inet6Min)

UpToNul(s) ==
  LET nuls == {i \in DOMAIN s : s[i] = 0}
  IN  IF nuls = {} THEN s ELSE SubSeq(s, 1, Min(nuls) - 1)

\* A path, or an abstract name, whose NUL is printed as "@".
UnixAddress(bytes) ==
  LET path == SubSeq(bytes, FamilySize + 1, Len(bytes))
  IN  IF path # << >> /\ path[1] = 0 THEN <<AtSign>> \o Tail(path) ELSE UpToNul(path)

ConnectData(bytes) ==
  IF bytes = Failed \/ (bytes # Failed /\ Len(bytes) < FamilySize) THEN NoArgs
  ELSE LET family == SubSeq(bytes, 1, FamilySize)
       IN  [family |-> family,
            addr |-> CASE family = Inet /\ Len(bytes) >= InetSize -> InetAddress(bytes)
                       [] family = Inet6 /\ Len(bytes) >= Inet6Size -> Inet6Address(bytes)
                       [] OTHER -> << >>]

SockAddrInfo(got) ==
  IF got = << >> \/ (got # << >> /\ got[1] = Failed) THEN NoArgs
  ELSE [family |-> got[1],
        addr |-> IF Len(got) = 1 \/ got[Len(got)] = Failed THEN << >>
                 ELSE IF got[1] = Inet THEN InetAddress(got[2])
                 ELSE IF got[1] = Inet6 THEN Inet6Address(got[2])
                 ELSE UnixAddress(got[2])]

EventArgs(c, got) ==
  CASE c.name = "execve" -> ExecveData(got)
    [] c.name = "connect" -> ConnectData(got[1])
    [] c.name = "profiler_connect" -> SockAddrInfo(got)
    [] c.name \in PathCalls \cup WriteCalls \cup PlainCalls -> PathData(got)
    [] OTHER -> NoArgs

-----------------------------------------------------------------------------
(* The reading: one step for each word.  got has what is read so far, text *)
(* and items what is read of the current field, ptr the string of a vector *)
(* that is being read.                                                     *)

NextField(got) == [got |-> got, text |-> << >>, off |-> 0, items |-> << >>, ptr |-> 0]

Field == Reads(call, reader.got)[Len(reader.got) + 1]

FieldDone(value) == reader' = NextField(Append(reader.got, value))

\* A string is read: it is the field, or the next item of the vector.
StringDone(s) ==
  IF Field.kind = "string" THEN FieldDone(s)
  ELSE reader' = [reader EXCEPT !.items = Append(@, s), !.text = << >>,
                                !.off = 0, !.ptr = 0]

Reading == at = "entry" /\ Len(reader.got) < Len(Reads(call, reader.got))

RestUnchanged == UNCHANGED <<mem, at, call, recorded, taken, poked>>

Nuls(w) == {i \in 1 .. Word : w[i] = 0}

\* Mutant: one word too many.
in_limit_late == reader.off <= MaxString

in_limit == reader.off < MaxString

\* Mutant: what follows the NUL in its word is kept.
before_nul_all(w) == w

before_nul(w) == SubSeq(w, 1, Min(Nuls(w)) - 1)

\* Mutant: a vector that cannot be read to its end gives what was read.
nullopt_kept == FieldDone(IF Field.kind = "vector" THEN reader.items ELSE Failed)

\* What cannot be read fails the field: of a vector, all of it.
nullopt == FieldDone(Failed)

\* One word of a string.
read_child_string ==
  /\ Reading /\ (Field.kind = "string" \/ reader.ptr # 0)
  /\ LET from == (IF Field.kind = "string" THEN Field.from ELSE reader.ptr) + reader.off
         readable == in_limit /\ read_child_word(from)
     IN  \/ ~readable /\ nullopt
         \/ readable /\ Nuls(word(from)) # {}
            /\ StringDone(reader.text \o before_nul(word(from)))
         \/ readable /\ Nuls(word(from)) = {}
            /\ reader' = [reader EXCEPT !.text = @ \o word(from), !.off = @ + Word]
  /\ RestUnchanged

\* The pointer of the next string of a vector.
read_child_string_vector ==
  /\ Reading /\ Field.kind = "vector" /\ reader.ptr = 0
  /\ LET from == Field.from + Len(reader.items) * Word
         over == Field.from = 0 \/ Len(reader.items) = Field.size
     IN  \/ over /\ FieldDone(reader.items)
         \/ ~over /\ ~read_child_word(from) /\ nullopt
         \/ /\ ~over /\ read_child_word(from)
            /\ \/ read_child_pointer(from) = 0 /\ FieldDone(reader.items)
               \/ /\ read_child_pointer(from) # 0
                  /\ reader' = [reader EXCEPT !.ptr = read_child_pointer(from)]
  /\ RestUnchanged

\* Mutant: the last word is copied whole.
copied_whole(w, rest) == w

copied(w, rest) == SubSeq(w, 1, Least(Word, rest))

\* One word of a buffer.
read_child_bytes ==
  /\ Reading /\ Field.kind = "bytes"
  /\ LET from == Field.from + reader.off
         rest == Field.size - reader.off
     IN  \/ rest <= 0 /\ FieldDone(reader.text)
         \/ rest > 0 /\ ~read_child_word(from) /\ nullopt
         \/ /\ rest > 0 /\ read_child_word(from)
            /\ reader' = [reader EXCEPT !.off = @ + Word,
                 !.text = @ \o copied(word(from), rest)]
  /\ RestUnchanged

\* Mutant: the tracee is not resumed.
record_stopped ==
  /\ at = "entry" /\ ~Reading
  /\ recorded' = EventArgs(call, reader.got)
  /\ reader' = NextField(<< >>)
  /\ UNCHANGED <<mem, at, call, taken, poked>>

\* The event is recorded and the tracee resumed.
record ==
  /\ at = "entry" /\ ~Reading
  /\ recorded' = EventArgs(call, reader.got)
  /\ reader' = NextField(<< >>)
  /\ at' = "kernel"
  /\ UNCHANGED <<mem, call, taken, poked>>

Tracer ==
  read_child_string \/ read_child_string_vector \/ read_child_bytes \/ record

-----------------------------------------------------------------------------
(* The tracee's threads and the kernel.                                    *)

\* strncpy_from_user.
KernelString(a, limit) ==
  LET nuls == {k \in 0 .. limit - 1 : Byte(a + k) = 0}
  IN  IF nuls = {} \/ (nuls # {} /\ \E k \in 0 .. Min(nuls) : Byte(a + k) = Hole)
      THEN Failed ELSE [i \in 1 .. Min(nuls) |-> Byte(a + i - 1)]

KernelBytes(a, n) ==
  IF \E k \in 0 .. n - 1 : Byte(a + k) = Hole THEN Failed
  ELSE [i \in 1 .. n |-> Byte(a + i - 1)]

\* argv and envp, up to the null pointer; a null address is an empty vector.
KernelVector(a) ==
  LET pointer(i) == a + i * Word
      ends == {i \in 0 .. Cardinality(DOMAIN mem) :
                 \/ ~read_child_word(pointer(i))
                 \/ read_child_word(pointer(i)) /\ read_child_pointer(pointer(i)) = 0}
      string(i) == KernelString(read_child_pointer(pointer(i)), MaxArg)
  IN  IF a = 0 THEN << >>
      ELSE IF \/ ~read_child_word(pointer(Min(ends)))
              \/ \E i \in 0 .. Min(ends) - 1 : string(i) = Failed
      THEN Failed ELSE [i \in 1 .. Min(ends) |-> string(i - 1)]

\* A write may be short: it ends at the first byte that is not mapped.
KernelWrite(a, n) ==
  LET mapped == {k \in 0 .. n : \A j \in 0 .. k - 1 : Byte(a + j) # Hole}
  IN  IF n > 0 /\ Max(mapped) = 0 THEN Failed ELSE KernelBytes(a, Max(mapped))

KernelConnect(a, len) ==
  LET bytes == KernelBytes(a, len)
      family == SubSeq(bytes, 1, FamilySize)
  IN  IF \/ len < FamilySize \/ len > StorageSize
         \/ bytes = Failed
         \/ family = Inet /\ len < InetSize
         \/ family = Inet6 /\ len < Inet6Min
         \/ family = Unix /\ (len = FamilySize \/ len > UnixSize)
      THEN Failed ELSE bytes

KernelPaths == [i \in DOMAIN PathArguments(call.name) |->
                  KernelString(call.args[PathArguments(call.name)[i]], MaxString)]

KernelExecve ==
  [filename |-> KernelString(call.args[0], MaxString),
   argv |-> KernelVector(call.args[1]), envp |-> KernelVector(call.args[2])]

AllTaken(r) == \A i \in DOMAIN r : r[i] # Failed

Taken ==
  CASE call.name = "execve" -> IF AllTaken(KernelExecve) THEN KernelExecve ELSE Failed
    [] call.name \in PathCalls -> IF AllTaken(KernelPaths) THEN KernelPaths ELSE Failed
    [] call.name \in WriteCalls -> KernelWrite(call.args[1], call.args[2])
    [] OTHER -> KernelConnect(call.args[1], call.args[2])

Syscall(c) ==
  /\ at = "user"
  /\ call' = c /\ at' = "entry"
  /\ UNCHANGED <<mem, reader, recorded, taken, poked>>

\* The kernel takes the arguments once the tracee is resumed.
Copy ==
  /\ at = "kernel"
  /\ taken' = Taken /\ at' = "done"
  /\ UNCHANGED <<mem, call, reader, recorded, poked>>

Poke(a, b) ==
  /\ at \in {"entry", "kernel"} /\ Byte(a) # Hole
  /\ Cardinality(poked) < MaxPokes /\ a \notin poked    \* bound
  /\ mem' = [mem EXCEPT ![a] = b]
  /\ poked' = poked \cup {a}
  /\ UNCHANGED <<at, call, reader, recorded, taken>>

-----------------------------------------------------------------------------
ReaderInit ==
  /\ mem \in Memories
  /\ at = "user" /\ call = NoCall
  /\ reader = NextField(<< >>)
  /\ recorded = NoArgs /\ taken = Failed /\ poked = {}

ReaderNext ==
  \/ Tracer
  \/ \E c \in Requests : Syscall(c)
  \/ Copy
  \/ \E p \in Pokes : Poke(p[1], p[2])

\* The tracer is never descheduled for ever.
ReaderSpec == ReaderInit /\ [][ReaderNext]_readerVars /\ WF_readerVars(Tracer)

-----------------------------------------------------------------------------
(* Properties.                                                             *)

WordsMapped(a, n) == \A k \in 0 .. n - 1 : k % Word = 0 => read_child_word(a + k)

\* The kernel has taken the call's arguments, and no other thread wrote to
\* memory since the entry stop.
Quiet == at = "done" /\ taken # Failed /\ poked = {}

\* Whatever other threads write meanwhile, the reading stays within what is
\* to be read: MaxString bytes of a string, the vector's limit, the count.
ReaderTypeOK ==
  /\ at \in {"user", "entry", "kernel", "done"}
  /\ Reading =>
       /\ Field.kind = "bytes" =>
            reader.off < Field.size + Word /\ Len(reader.text) <= Field.size
       /\ Field.kind # "bytes" => reader.off <= MaxString /\ Len(reader.text) = reader.off
       /\ Field.kind = "vector" => Len(reader.items) <= Field.size
       /\ Field.kind # "vector" => reader.items = << >> /\ reader.ptr = 0

\* The event of a call has the paths that the kernel takes, if no other thread
\* wrote to them since the entry stop; or no arguments, exactly if the word
\* that one of them ends in runs into memory that is not mapped
\* (parse_syscall.cc:47).
PathsRead ==
  LET from(i) == call.args[PathArguments(call.name)[i]]
      range(i) == from(i) .. from(i) + Len(taken[i])
  IN  /\ at = "done" /\ taken # Failed /\ call.name \in PathCalls
      /\ \A i \in DOMAIN taken : range(i) \cap poked = {}
      => recorded = IF \A i \in DOMAIN taken : WordsMapped(from(i), Len(taken[i]) + 1)
                    THEN taken ELSE NoArgs

\* What read_child_string_vector and value_or leave of the kernel's strings.
VectorRead(strings, a, limit) ==
  LET first == SubSeq(strings, 1, Least(limit, Len(strings)))
      readable(i) ==
        /\ Len(first[i]) < MaxString
        /\ WordsMapped(read_child_pointer(a + (i - 1) * Word), Len(first[i]) + 1)
  IN  IF \A i \in DOMAIN first : readable(i) THEN first ELSE << >>

\* The event of an execve has the kernel's file name, and of argv and envp the
\* first 16 and 64 strings: all of these or, if one of them is longer than
\* read_child_string reads or ends at the end of a mapping, none.
ArgvRead ==
  Quiet /\ call.name = "execve" =>
    recorded = IF WordsMapped(call.args[0], Len(taken.filename) + 1)
               THEN [filename |-> taken.filename,
                     argv |-> VectorRead(taken.argv, call.args[1], MaxArgv),
                     envp |-> VectorRead(taken.envp, call.args[2], MaxEnvp)]
               ELSE NoArgs

\* The event of a write has the whole buffer, what was written being the
\* beginning of it; or none, if a word that the buffer touches is not mapped,
\* though a short write succeeds then.
WriteRead ==
  Quiet /\ call.name \in WriteCalls =>
    IF WordsMapped(call.args[1], call.args[2])
    THEN Len(recorded[1]) = call.args[2] /\ SubSeq(recorded[1], 1, Len(taken)) = taken
    ELSE recorded = NoArgs

\* A connect that the kernel makes is recorded with its family, port and
\* address, by the detector (but for the names of Unix sockets) and by the
\* profiler, if the words that hold them are mapped; but an IPv6 address
\* without its scope, which is enough for the kernel, is not.
ConnectRead ==
  LET from == call.args[1]
      len == call.args[2]
      family == SubSeq(taken, 1, FamilySize)
      inet == CASE family = Inet -> InetAddress(taken)
                [] family = Inet6 /\ len >= Inet6Size -> Inet6Address(taken)
                [] OTHER -> << >>
      size == CASE family = Inet -> InetSize
                [] family = Inet6 -> Inet6Size
                [] OTHER -> len
  IN  /\ Quiet /\ call.name = "connect" =>
           recorded = IF WordsMapped(from, len) THEN [family |-> family, addr |-> inet]
                      ELSE NoArgs
      /\ Quiet /\ call.name = "profiler_connect" =>
           recorded = IF from = 0 \/ ~WordsMapped(from, FamilySize) THEN NoArgs
                      ELSE [family |-> family,
                            addr |-> IF ~WordsMapped(from, size) THEN << >>
                                     ELSE IF family = Unix THEN UnixAddress(taken) ELSE inet]

\* A stop for an entry ends, whatever other threads write meanwhile.
ReadingEnds == at = "entry" ~> at = "kernel"

===============================================================================
