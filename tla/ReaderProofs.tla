----------------------------- MODULE ReaderProofs -----------------------------
(***************************************************************************)
(* What the readers of arguments make of the tracee's memory, proved for   *)
(* every word size, every limit, every memory and every write of another   *)
(* thread (the constants of Readers).                                      *)
(***************************************************************************)
EXTENDS Readers, WellFoundedInduction, FiniteSetTheorems, SequenceTheorems, TLAPS

Bytes == 0 .. 255
Texts == Seq(Bytes)
Values == Texts \cup Seq(Texts) \cup {Failed}
Fields == [kind : {"string", "vector", "bytes"}, from : Nat, size : Nat]

MemoryOK ==
  /\ IsFiniteSet(DOMAIN mem) /\ mem \in [DOMAIN mem -> Bytes \cup {Hole}]

-----------------------------------------------------------------------------
(* What a finished field says of the memory.  Nothing is said of a byte    *)
(* that another thread wrote to since the entry stop, nor of the pointers  *)
(* of a vector and the bytes of a buffer once there was such a write.      *)

\* The string at a is v, or, v being Failed, has no NUL in what was read.
StringRead(v, a) ==
  \/ /\ v = Failed
     /\ \E k \in 0 .. MaxString :
          /\ k % Word = 0 /\ (k = MaxString \/ ~read_child_word(a + k))
          /\ \A j \in 0 .. k - 1 : a + j \notin poked => Byte(a + j) # 0
  \/ /\ v \in Texts /\ Len(v) < MaxString /\ WordsMapped(a, Len(v) + 1)
     /\ \A j \in 1 .. Len(v) : v[j] # 0 /\ (a + j - 1 \notin poked => v[j] = Byte(a + j - 1))
     /\ a + Len(v) \notin poked => Byte(a + Len(v)) = 0

Pointer(a, i) == read_child_pointer(a + i * Word)
PointerMapped(a, i) == read_child_word(a + i * Word)

\* The vector at a goes on with a string at its index i.
HasString(a, i) == PointerMapped(a, i) /\ Pointer(a, i) # 0

\* The first strings of the vector at a are the items.
ItemsRead(items, a) ==
  \A i \in 1 .. Len(items) : HasString(a, i - 1) /\ StringRead(items[i], Pointer(a, i - 1))

VectorIs(v, a, limit) ==
  \/ /\ v = Failed /\ a # 0
     /\ \E k \in 0 .. limit - 1 :
          /\ \A i \in 0 .. k - 1 : HasString(a, i)
          /\ \/ ~PointerMapped(a, k)
             \/ HasString(a, k) /\ StringRead(Failed, Pointer(a, k))
  \/ /\ v \in Seq(Texts) /\ Len(v) <= limit /\ ItemsRead(v, a)
     /\ \/ a = 0 /\ v = << >>
        \/ a # 0 /\ Len(v) = limit
        \/ a # 0 /\ PointerMapped(a, Len(v)) /\ Pointer(a, Len(v)) = 0

BytesAre(v, a, size) ==
  \/ v = Failed /\ ~WordsMapped(a, size)
  \/ /\ v \in Texts /\ Len(v) = size /\ WordsMapped(a, size)
     /\ poked = {} => \A j \in 1 .. size : v[j] = Byte(a + j - 1)

FieldRead(f, v) ==
  /\ f.kind = "string" => StringRead(v, f.from)
  /\ f.kind = "bytes" => BytesAre(v, f.from, f.size)
  /\ f.kind = "vector" =>
       /\ v \in Seq(Texts) \cup {Failed}
       /\ poked = {} => VectorIs(v, f.from, f.size)

FieldsRead(got) == \A i \in 1 .. Len(got) : FieldRead(Reads(call, got)[i], got[i])

-----------------------------------------------------------------------------
(* What is read of a field that is not finished.                           *)

StringBegun(text, off, a) ==
  /\ WordsMapped(a, off)
  /\ \A j \in 1 .. off : text[j] # 0 /\ (a + j - 1 \notin poked => text[j] = Byte(a + j - 1))

BytesBegun(text, off, a, size) ==
  /\ WordsMapped(a, Least(off, size))
  /\ poked = {} => \A j \in 1 .. Len(text) : text[j] = Byte(a + j - 1)

VectorBegun(r, a) ==
  /\ ItemsRead(r.items, a)
  /\ r.ptr # 0 => PointerMapped(a, Len(r.items)) /\ Pointer(a, Len(r.items)) = r.ptr

\* How far the reading of a field f is, and where its numbers are.
FieldTypeOK(f, r) ==
  /\ f.kind = "bytes" => r.off < f.size + Word /\ Len(r.text) = Least(r.off, f.size)
  /\ f.kind # "bytes" => r.off <= MaxString /\ Len(r.text) = r.off
  /\ f.kind = "vector" =>
       /\ Len(r.items) <= f.size
       /\ r.ptr = 0 => r.text = << >>
       /\ r.ptr # 0 => f.from # 0 /\ Len(r.items) < f.size
       /\ f.from = 0 => r.items = << >>
  /\ f.kind # "vector" => r.items = << >> /\ r.ptr = 0

FieldBegun(f, r) ==
  /\ f.kind = "string" => StringBegun(r.text, r.off, f.from)
  /\ f.kind = "bytes" => BytesBegun(r.text, r.off, f.from, f.size)
  /\ f.kind = "vector" =>
       /\ r.ptr # 0 => StringBegun(r.text, r.off, r.ptr)
       /\ poked = {} => VectorBegun(r, f.from)

-----------------------------------------------------------------------------
(* The inductive invariant.                                                *)

SortsOf(r) ==
  /\ r.got \in Seq(Values) /\ r.text \in Texts /\ r.items \in Seq(Texts)
  /\ r.off \in Nat /\ r.off % Word = 0 /\ r.ptr \in Nat
  /\ r = [got |-> r.got, text |-> r.text, off |-> r.off, items |-> r.items, ptr |-> r.ptr]

ReaderSorts == SortsOf(reader)

StageOK ==
  /\ at \in {"user", "entry", "kernel", "done"}
  /\ at = "user" => reader = NextField(<< >>)
  /\ at # "user" => call \in Requests

EntryOK ==
  at = "entry" =>
    /\ Len(reader.got) <= Len(Reads(call, reader.got))
    /\ FieldsRead(reader.got)
    /\ Reading => FieldTypeOK(Field, reader) /\ FieldBegun(Field, reader)

\* The event is made of fields that were all read.
Recorded(got) ==
  /\ Len(got) = Len(Reads(call, got)) /\ FieldsRead(got)
  /\ recorded = EventArgs(call, got)

RecordedOK == at \in {"kernel", "done"} => \E got \in Seq(Values) : Recorded(got)

TakenOK == at = "done" => taken = Taken

ReadInv == MemoryOK /\ ReaderSorts /\ StageOK /\ EntryOK /\ RecordedOK /\ TakenOK

-----------------------------------------------------------------------------
(* Lemmas: least numbers, multiples of the word size, pointers and words.  *)

\* A set of numbers that is not empty has a least one.
LEMMA NatMin ==
  ASSUME NEW T, T \subseteq Nat, T # {}
  PROVE  \E x \in T : \A y \in T : x <= y
<1> DEFINE R == OpToRel(<, Nat)
<1>1. IsWellFoundedOn(R, Nat)
  BY NatLessThanWellFounded
<1>2. \A x, y \in Nat : y < x => <<y, x>> \in R
  BY DEF OpToRel
<1> HIDE DEF R
<1>3. PICK x \in T : \A y \in T : ~(<<y, x>> \in R)
  BY <1>1, WFMin
<1>4. ASSUME NEW y \in T PROVE x <= y
  <2>1. ~(y < x)
    BY <1>2, <1>3
  <2> QED
    BY <2>1
<1> QED
  BY <1>4

\* Min gives it.
LEMMA MinIsLeast ==
  ASSUME NEW T, T \subseteq Nat, T # {}
  PROVE  Min(T) \in T /\ \A y \in T : Min(T) <= y
<1>1. PICK x \in T : \A y \in T : x <= y
  BY NatMin
<1>2. \E z \in T : \A y \in T : z <= y
  BY <1>1
<1> QED
  BY <1>2 DEF Min

\* Max gives the greatest of a set of numbers up to n.
LEMMA MaxIsGreatest ==
  ASSUME NEW n \in Nat, NEW T, T \subseteq 0 .. n, T # {}
  PROVE  Max(T) \in T /\ \A y \in T : Max(T) >= y
<1> DEFINE U == {n - y : y \in T}
<1>1. U \subseteq Nat /\ U # {}
  OBVIOUS
<1>2. PICK u \in U : \A v \in U : u <= v
  BY <1>1, NatMin
<1>3. PICK x \in T : u = n - x
  BY <1>2
<1>4. ASSUME NEW y \in T PROVE x >= y
  <2>1. n - x <= n - y
    BY <1>2, <1>3
  <2> QED
    BY <2>1
<1>5. \E z \in T : \A y \in T : z >= y
  BY <1>4
<1> QED
  BY <1>5 DEF Max

LEMMA WordSize == Word \in Nat \ {0} /\ MaxString \in Nat /\ MaxString % Word = 0
  BY SizeAssumption

\* A multiple of the word size is that many words.
LEMMA Multiple ==
  ASSUME NEW k \in Nat, k % Word = 0
  PROVE  \E q \in Nat : k = Word * q
<1> USE WordSize
<1> WITNESS (k \div Word) \in Nat
<1> QED
  OBVIOUS

LEMMA IsMultiple ==
  ASSUME NEW q \in Nat
  PROVE  (Word * q) % Word = 0
  BY WordSize

LEMMA NextMultiple ==
  ASSUME NEW k \in Nat, k % Word = 0
  PROVE  (k + Word) % Word = 0
<1>1. PICK q \in Nat : k = Word * q
  BY Multiple
<1>2. k + Word = Word * (q + 1)
  BY <1>1, WordSize
<1>3. (Word * (q + 1)) % Word = 0
  BY IsMultiple
<1> QED
  BY <1>2, <1>3

\* Between a multiple and the next there is no other.
LEMMA SameMultiple ==
  ASSUME NEW k \in Nat, k % Word = 0, NEW l \in Nat, l % Word = 0, k < l
  PROVE  k + Word <= l
<1> USE WordSize
<1>1. PICK q \in Nat : k = Word * q
  BY Multiple
<1>2. PICK p \in Nat : l = Word * p
  BY Multiple
<1>3. q < p
  BY <1>1, <1>2
<1> QED
  BY <1>1, <1>2, <1>3

LEMMA ZeroMultiple == 0 % Word = 0
  BY WordSize

LEMMA BytesOfMemory ==
  ASSUME MemoryOK, NEW a
  PROVE  Byte(a) \in Bytes \cup {Hole} /\ Hole \notin Bytes
  BY ValueAssumption DEF MemoryOK, Byte, Bytes

\* What read_child_word gives is the bytes of memory.
LEMMA WordRead ==
  ASSUME MemoryOK, NEW a \in Int, read_child_word(a)
  PROVE  /\ word(a) \in Texts /\ Len(word(a)) = Word
         /\ \A i \in 1 .. Word : word(a)[i] = Byte(a + i - 1) /\ word(a)[i] \in Bytes
<1>1. \A i \in 1 .. Word : Byte(a + i - 1) \in Bytes
  <2> TAKE i \in 1 .. Word
  <2> DEFINE k == i - 1
  <2>1. k \in 0 .. Word - 1 /\ a + k = a + i - 1
    BY WordSize
  <2>2. Byte(a + k) # Hole
    BY <2>1 DEF read_child_word
  <2> QED
    BY <2>1, <2>2, BytesOfMemory
<1>2. word(a) = [i \in 1 .. Word |-> Byte(a + i - 1)]
  BY DEF word
<1> QED
  BY <1>1, <1>2, WordSize DEF Texts

\* f is the pointer at a and, at i, what its bytes from i on are worth.
IsValue(f, a, m) ==
  f = [i \in m .. Word |-> IF i = Word THEN 0 ELSE Byte(a + i) + 256 * f[i + 1]]

\* There is such a function, by induction on the number of bytes.
LEMMA ValueExists ==
  ASSUME NEW a, NEW n \in 0 .. Word
  PROVE  \E f : IsValue(f, a, Word - n)
<1> USE WordSize
<1> DEFINE Bad == {k \in 0 .. Word : ~\E f : IsValue(f, a, Word - k)}
<1>1. ASSUME Bad # {} PROVE FALSE
  <2>0. Bad \subseteq Nat
    OBVIOUS
  <2>1. PICK k \in Bad : \A l \in Bad : k <= l
    BY <1>1, <2>0, NatMin
  <2>2. IsValue([i \in Word .. Word |-> 0], a, Word - 0)
    BY DEF IsValue
  <2>3. 0 \notin Bad
    BY <2>2
  <2>4. k \in 1 .. Word /\ k - 1 \in 0 .. Word
    BY <2>1, <2>3
  <2>5. k - 1 \notin Bad
    BY <2>1, <2>4
  <2>6. PICK g : IsValue(g, a, Word - (k - 1))
    BY <2>4, <2>5
  <2>7. PICK m \in 0 .. Word - 1 : m = Word - k /\ Word - (k - 1) = m + 1
    BY <2>4
  <2>8. \A i \in m + 1 .. Word :
          g[i] = IF i = Word THEN 0 ELSE Byte(a + i) + 256 * g[i + 1]
    BY <2>6, <2>7 DEF IsValue
  <2> DEFINE f == [i \in m .. Word |-> IF i = m THEN Byte(a + m) + 256 * g[m + 1] ELSE g[i]]
  <2>9. \A i \in m .. Word :
          f[i] = IF i = Word THEN 0 ELSE Byte(a + i) + 256 * f[i + 1]
    <3> TAKE i \in m .. Word
    <3>1. CASE i = m
      <4>1. m # Word /\ m + 1 # m /\ m + 1 \in m .. Word
        BY <2>7
      <4> QED
        BY <3>1, <4>1
    <3>2. CASE i # m
      <4>1. i \in m + 1 .. Word /\ f[i] = g[i]
        BY <2>7, <3>2
      <4>2. i # Word => i + 1 \in m + 1 .. Word /\ i + 1 \in m .. Word /\ i + 1 # m
        BY <2>7, <3>2
      <4> QED
        BY <2>8, <4>1, <4>2
    <3> QED
      BY <3>1, <3>2
  <2>10. f = [i \in m .. Word |-> f[i]]
    OBVIOUS
  <2> HIDE DEF f
  <2>11. IsValue(f, a, m)
    BY <2>9, <2>10 DEF IsValue
  <2> QED
    BY <2>1, <2>7, <2>11
<1> QED
  BY <1>1

\* Of a mapped word, the values are numbers, by the same induction.
LEMMA ValueIsNat ==
  ASSUME MemoryOK, NEW a, read_child_word(a), NEW f, IsValue(f, a, 0)
  PROVE  f[0] \in Nat
<1> USE WordSize
<1>1. \A i \in 0 .. Word - 1 : Byte(a + i) \in Nat
  BY BytesOfMemory DEF read_child_word, Bytes
<1>2. \A i \in 0 .. Word : f[i] = IF i = Word THEN 0 ELSE Byte(a + i) + 256 * f[i + 1]
  BY DEF IsValue
<1> DEFINE Bad == {k \in 0 .. Word : f[Word - k] \notin Nat}
<1>3. ASSUME Bad # {} PROVE FALSE
  <2>0. Bad \subseteq Nat
    OBVIOUS
  <2>1. PICK k \in Bad : \A l \in Bad : k <= l
    BY <1>3, <2>0, NatMin
  <2>2. 0 \notin Bad
    BY <1>2
  <2>3. k \in 1 .. Word /\ k - 1 \in 0 .. Word
    BY <2>1, <2>2
  <2>4. k - 1 \notin Bad
    BY <2>1, <2>3
  <2>5. PICK m \in 0 .. Word - 1 : m = Word - k /\ Word - (k - 1) = m + 1
    BY <2>3
  <2>6. f[m + 1] \in Nat
    BY <2>3, <2>4, <2>5
  <2>7. f[m] = Byte(a + m) + 256 * f[m + 1]
    BY <1>2, <2>5
  <2>8. f[m] \in Nat
    BY <1>1, <2>5, <2>6, <2>7
  <2> QED
    BY <2>1, <2>5, <2>8
<1>4. Word \in 0 .. Word /\ Word - Word = 0
  OBVIOUS
<1> QED
  BY <1>3, <1>4

LEMMA PointerIsNat ==
  ASSUME MemoryOK, NEW a, read_child_word(a)
  PROVE  read_child_pointer(a) \in Nat
<1> DEFINE value == CHOOSE f : IsValue(f, a, 0)
<1>1. Word \in 0 .. Word /\ Word - Word = 0
  BY WordSize
<1>2. \E f : IsValue(f, a, 0)
  BY <1>1, ValueExists
<1>3. IsValue(value, a, 0)
  BY <1>2
<1>4. value[0] \in Nat
  <2> HIDE DEF value
  <2> QED
    BY <1>3, ValueIsNat
<1>5. read_child_pointer(a) = value[0]
  BY DEF read_child_pointer, IsValue
<1> QED
  BY <1>4, <1>5

-----------------------------------------------------------------------------
(* Lemmas: what is read of each call.                                      *)

LEMMA PathCallNames ==
  /\ DOMAIN OnePath = {"openat", "chdir", "chmod", "fchmodat", "truncate", "unlinkat"}
  /\ DOMAIN TwoPaths = {"rename", "renameat", "renameat2", "linkat", "symlinkat"}
  /\ DOMAIN ProfilerPath = {"unlink", "mkdir", "mkdirat"}
  BY DEF OnePath, TwoPaths, ProfilerPath

LEMMA PathArgumentsOf ==
  ASSUME NEW name \in PathCalls
  PROVE  \/ \E a \in 0 .. 5 : PathArguments(name) = <<a>>
         \/ \E a, b \in 0 .. 5 : PathArguments(name) = <<a, b>>
<1>1. CASE name \in DOMAIN OnePath
  <2>1. OnePath[name] \in 0 .. 5
    BY <1>1, PathCallNames DEF OnePath
  <2> QED
    BY <1>1, <2>1 DEF PathArguments
<1>2. CASE name \notin DOMAIN OnePath /\ name \in DOMAIN TwoPaths
  <2>1. \E a, b \in 0 .. 5 : TwoPaths[name] = <<a, b>>
    BY <1>2, PathCallNames DEF TwoPaths
  <2> QED
    BY <1>2, <2>1 DEF PathArguments
<1>3. CASE name \notin DOMAIN OnePath /\ name \notin DOMAIN TwoPaths
  <2>1. ProfilerPath[name] \in 0 .. 5
    BY <1>3, PathCallNames DEF PathCalls, ProfilerPath
  <2> QED
    BY <1>3, <2>1 DEF PathArguments
<1> QED
  BY <1>1, <1>2, <1>3

\* The same, as a sequence.
LEMMA PathArgumentsSeq ==
  ASSUME NEW name \in PathCalls
  PROVE  /\ Len(PathArguments(name)) \in Nat
         /\ DOMAIN PathArguments(name) = 1 .. Len(PathArguments(name))
         /\ \A i \in 1 .. Len(PathArguments(name)) : PathArguments(name)[i] \in 0 .. 5
<1>1. CASE \E a \in 0 .. 5 : PathArguments(name) = <<a>>
  BY <1>1
<1>2. CASE \E a, b \in 0 .. 5 : PathArguments(name) = <<a, b>>
  BY <1>2
<1> QED
  BY <1>1, <1>2, PathArgumentsOf

\* The kinds of calls are disjoint.
LEMMA CallKinds ==
  ASSUME NEW name
  PROVE  /\ name \in PathCalls =>
              /\ name # "execve" /\ name \notin WriteCalls
              /\ name # "connect" /\ name # "profiler_connect"
         /\ name \in WriteCalls => name # "execve" /\ name # "connect" /\ name # "profiler_connect"
  BY PathCallNames DEF PathCalls, WriteCalls

LEMMA LeastIs ==
  ASSUME NEW a \in Int, NEW b \in Int
  PROVE  Least(a, b) \in {a, b} /\ Least(a, b) <= a /\ Least(a, b) <= b
  BY DEF Least

LEMMA ReadsPaths ==
  ASSUME NEW c \in Requests, NEW got, c.name \in PathCalls
  PROVE  /\ Len(Reads(c, got)) = Len(PathArguments(c.name))
         /\ Len(Reads(c, got)) \in Nat
         /\ \A i \in 1 .. Len(Reads(c, got)) :
              Reads(c, got)[i] = Str(c.args[PathArguments(c.name)[i]])
<1> DEFINE n == Len(PathArguments(c.name))
<1>1. n \in Nat /\ DOMAIN PathArguments(c.name) = 1 .. n
  BY PathArgumentsSeq
<1>2. c.name # "execve"
  BY CallKinds
<1>3. Reads(c, got) = [i \in DOMAIN PathArguments(c.name) |-> Str(c.args[PathArguments(c.name)[i]])]
  BY <1>2, CallKinds DEF Reads
<1> QED
  BY <1>1, <1>3

LEMMA ReadsExecve ==
  ASSUME NEW c, NEW got, c.name = "execve"
  PROVE  Reads(c, got) = <<Str(c.args[0]), Vec(c.args[1], MaxArgv), Vec(c.args[2], MaxEnvp)>>
  BY PathCallNames DEF Reads, parse_execve, PathCalls, WriteCalls

LEMMA ReadsWrite ==
  ASSUME NEW c, NEW got, c.name \in WriteCalls
  PROVE  Reads(c, got) = <<Raw(c.args[1], c.args[2])>>
  BY CallKinds DEF Reads, parse_write

LEMMA ReadsConnect ==
  ASSUME NEW c, NEW got, c.name = "connect"
  PROVE  Reads(c, got) = <<Raw(c.args[1], Least(c.args[2], StorageSize))>>
  BY PathCallNames DEF Reads, parse_connect, PathCalls, WriteCalls

LEMMA ReadsProfiler ==
  ASSUME NEW c, NEW got, c.name = "profiler_connect"
  PROVE  Reads(c, got) = read_sockaddr(c.args[1], c.args[2], got)
  BY PathCallNames DEF Reads, PathCalls, WriteCalls

LEMMA ReadsOther ==
  ASSUME NEW c, NEW got, c.name \notin PathCalls, c.name \notin WriteCalls,
         c.name \notin {"execve", "connect", "profiler_connect"}
  PROVE  Reads(c, got) = << >>
  BY DEF Reads

LEMMA OneAndAnother ==
  ASSUME NEW x, NEW y
  PROVE  <<x>> \o <<y>> = <<x, y>> /\ <<x>> \o << >> = <<x>>
<1> DEFINE S == {x, y}
<1>1. <<x>> \in Seq(S) /\ <<y>> \in Seq(S) /\ <<x, y>> \in Seq(S)
  OBVIOUS
<1>2. <<x>> \o << >> = <<x>>
  BY <1>1, ConcatEmptySeq
<1>3. /\ <<x>> \o <<y>> \in Seq(S) /\ Len(<<x>> \o <<y>>) = 2
      /\ \A i \in 1 .. 2 : (<<x>> \o <<y>>)[i] = IF i <= 1 THEN <<x>>[i] ELSE <<y>>[i - 1]
  BY <1>1, ConcatProperties
<1> HIDE DEF S
<1>4. <<x>> \o <<y>> = <<x, y>>
  <2>1. \A i \in 1 .. 2 : (<<x>> \o <<y>>)[i] = <<x, y>>[i]
    BY <1>3
  <2> QED
    BY <1>1, <1>3, <2>1, SeqEqual
<1> QED
  BY <1>2, <1>4

\* A socket address is nothing, the family, or the family and the whole.
LEMMA SockaddrReads ==
  ASSUME NEW from \in Nat, NEW len \in Nat, NEW got, from # 0, len >= FamilySize
  PROVE  LET r == read_sockaddr(from, len, got) IN
         /\ got = << >> => r = <<Raw(from, FamilySize)>>
         /\ got # << >> /\ got[1] = Inet /\ len >= InetSize =>
              r = <<Raw(from, FamilySize), Raw(from, InetSize)>>
         /\ got # << >> /\ got[1] = Inet6 /\ len >= Inet6Size =>
              r = <<Raw(from, FamilySize), Raw(from, Inet6Size)>>
         /\ got # << >> /\ got[1] = Unix =>
              r = <<Raw(from, FamilySize), Raw(from, Least(len, UnixSize))>>
         /\ /\ got[1] # Unix /\ ~(got[1] = Inet /\ len >= InetSize)
            /\ ~(got[1] = Inet6 /\ len >= Inet6Size)
            => r = <<Raw(from, FamilySize)>>
<1>1. ~(from = 0 \/ len < FamilySize)
  BY SizeAssumption
<1>2. Inet # Inet6 /\ Inet # Unix /\ Inet6 # Unix
  BY ValueAssumption
<1> DEFINE head == Raw(from, FamilySize)
<1>3. CASE got = << >>
  <2>1. read_sockaddr(from, len, got) = <<head>> \o << >>
    BY <1>1, <1>3 DEF read_sockaddr
  <2> QED
    BY <1>3, <2>1, OneAndAnother
<1>4. CASE got # << >> /\ got[1] = Inet /\ len >= InetSize
  <2>1. read_sockaddr(from, len, got) = <<head>> \o <<Raw(from, InetSize)>>
    BY <1>1, <1>2, <1>4 DEF read_sockaddr
  <2> QED
    BY <1>2, <1>4, <2>1, OneAndAnother
<1>5. CASE got # << >> /\ got[1] = Inet6 /\ len >= Inet6Size
  <2>1. read_sockaddr(from, len, got) = <<head>> \o <<Raw(from, Inet6Size)>>
    BY <1>1, <1>2, <1>5 DEF read_sockaddr
  <2> QED
    BY <1>2, <1>5, <2>1, OneAndAnother
<1>6. CASE got # << >> /\ got[1] = Unix
  <2>1. read_sockaddr(from, len, got) = <<head>> \o <<Raw(from, Least(len, UnixSize))>>
    BY <1>1, <1>2, <1>6 DEF read_sockaddr
  <2> QED
    BY <1>2, <1>6, <2>1, OneAndAnother
<1>7. CASE /\ got # << >> /\ got[1] # Unix /\ ~(got[1] = Inet /\ len >= InetSize)
           /\ ~(got[1] = Inet6 /\ len >= Inet6Size)
  <2>1. read_sockaddr(from, len, got) = <<head>> \o << >>
    BY <1>1, <1>7 DEF read_sockaddr
  <2> QED
    BY <1>7, <2>1, OneAndAnother
<1> QED
  BY <1>3, <1>4, <1>5, <1>6, <1>7

LEMMA UpToThree ==
  ASSUME NEW S, NEW r,
         \/ r = << >>
         \/ \E x \in S : r = <<x>>
         \/ \E x, y \in S : r = <<x, y>>
         \/ \E x, y, z \in S : r = <<x, y, z>>
  PROVE  Len(r) \in 0 .. 3 /\ \A i \in 1 .. Len(r) : r[i] \in S
<1>1. CASE r = << >>
  BY <1>1
<1>2. CASE \E x \in S : r = <<x>>
  BY <1>2
<1>3. CASE \E x, y \in S : r = <<x, y>>
  BY <1>3
<1>4. CASE \E x, y, z \in S : r = <<x, y, z>>
  BY <1>4
<1> QED
  BY <1>1, <1>2, <1>3, <1>4

LEMMA TheFields ==
  /\ \A a \in Nat : Str(a) \in Fields /\ Vec(a, MaxArgv) \in Fields /\ Vec(a, MaxEnvp) \in Fields
  /\ \A a, n \in Nat : Raw(a, n) \in Fields
  BY SizeAssumption DEF Str, Vec, Raw, Fields

\* A family is a text, so it is not Failed.
LEMMA NotFailed ==
  /\ Failed \notin Texts /\ Failed \notin Seq(Texts)
  /\ {Inet, Inet6, Unix} \subseteq Texts
  BY ValueAssumption, Zenon DEF Texts, Bytes

LEMMA Registers ==
  ASSUME NEW c \in Requests
  PROVE  \A i \in 0 .. 5 : c.args[i] \in Nat
<1>1. c.args \in [0 .. 5 -> Nat]
  BY ValueAssumption, Zenon
<1> QED
  BY <1>1

\* The fields of a call are at most three, each of a kind, with an address and a size.
LEMMA FieldsOfCall ==
  ASSUME NEW c \in Requests, NEW got
  PROVE  /\ Len(Reads(c, got)) \in 0 .. 3
         /\ \A i \in 1 .. Len(Reads(c, got)) : Reads(c, got)[i] \in Fields
<1>1. \A i \in 0 .. 5 : c.args[i] \in Nat
  BY Registers
<1>2. CASE c.name = "execve"
  <2>1. /\ Str(c.args[0]) \in Fields
        /\ Vec(c.args[1], MaxArgv) \in Fields /\ Vec(c.args[2], MaxEnvp) \in Fields
    BY <1>1, TheFields
  <2>2. \E x, y, z \in Fields : Reads(c, got) = <<x, y, z>>
    BY <1>2, <2>1, ReadsExecve
  <2> QED
    BY <2>2, UpToThree
<1>3. CASE c.name \in PathCalls
  <2>1. Len(PathArguments(c.name)) \in 0 .. 2
    BY <1>3, PathArgumentsOf
  <2>2. \A i \in 1 .. Len(PathArguments(c.name)) : PathArguments(c.name)[i] \in 0 .. 5
    BY <1>3, PathArgumentsSeq
  <2>3. Len(Reads(c, got)) = Len(PathArguments(c.name))
    BY <1>3, ReadsPaths
  <2>4. ASSUME NEW i \in 1 .. Len(Reads(c, got)) PROVE Reads(c, got)[i] \in Fields
    <3>1. Reads(c, got)[i] = Str(c.args[PathArguments(c.name)[i]])
      BY <1>3, ReadsPaths
    <3>2. PathArguments(c.name)[i] \in 0 .. 5
      BY <2>2, <2>3
    <3>3. c.args[PathArguments(c.name)[i]] \in Nat
      BY <1>1, <3>2
    <3> QED
      BY <3>1, <3>3, TheFields
  <2> QED
    BY <2>1, <2>3, <2>4
<1>4. CASE c.name \in WriteCalls
  BY <1>1, <1>4, ReadsWrite, TheFields
<1>5. CASE c.name = "connect"
  <2>1. Least(c.args[2], StorageSize) \in Nat
    BY <1>1, SizeAssumption, LeastIs
  <2> QED
    BY <1>1, <1>5, <2>1, ReadsConnect, TheFields
<1>6. CASE c.name = "profiler_connect"
  <2> DEFINE from == c.args[1]
             len == c.args[2]
  <2>1. from \in Nat /\ len \in Nat
    BY <1>1
  <2>2. {FamilySize, InetSize, Inet6Size, Least(len, UnixSize)} \subseteq Nat
    BY <2>1, SizeAssumption, LeastIs
  <2>3. CASE from = 0 \/ len < FamilySize
    <3>1. Reads(c, got) = << >>
      BY <1>6, <2>3, ReadsProfiler DEF read_sockaddr
    <3> QED
      BY <3>1, UpToThree
  <2>4. CASE from # 0 /\ len >= FamilySize
    <3> DEFINE r == read_sockaddr(from, len, got)
    <3>1. r = <<Raw(from, FamilySize)>> \/ \E n \in Nat : r = <<Raw(from, FamilySize), Raw(from, n)>>
      BY <2>1, <2>2, <2>4, SockaddrReads
    <3>2. \A n \in Nat : Raw(from, n) \in Fields
      BY <2>1, TheFields
    <3>3. (\E x \in Fields : r = <<x>>) \/ \E x, y \in Fields : r = <<x, y>>
      <4>1. CASE r = <<Raw(from, FamilySize)>>
        BY <2>2, <3>2, <4>1
      <4>2. CASE \E n \in Nat : r = <<Raw(from, FamilySize), Raw(from, n)>>
        BY <2>2, <3>2, <4>2
      <4> QED
        BY <3>1, <4>1, <4>2
    <3>4. Reads(c, got) = r
      BY <1>6, ReadsProfiler
    <3> QED
      BY <3>3, <3>4, UpToThree
  <2> QED
    BY <2>1, <2>2, <2>3, <2>4, SizeAssumption
<1>7. CASE /\ c.name \notin PathCalls /\ c.name \notin WriteCalls
           /\ c.name \notin {"execve", "connect", "profiler_connect"}
  <2>1. Reads(c, got) = << >>
    BY <1>7, ReadsOther
  <2> QED
    BY <2>1, UpToThree
<1> QED
  BY <1>2, <1>3, <1>4, <1>5, <1>6, <1>7

\* What was read does not change the fields before and at the one read next.
LEMMA FieldsStay ==
  ASSUME NEW c \in Requests, NEW got \in Seq(Values), NEW v \in Values,
         Len(got) < Len(Reads(c, got))
  PROVE  /\ Len(got) + 1 <= Len(Reads(c, Append(got, v)))
         /\ \A i \in 1 .. Len(got) + 1 : Reads(c, Append(got, v))[i] = Reads(c, got)[i]
<1> DEFINE next == Append(got, v)
<1>1. Len(got) \in Nat /\ Len(Reads(c, got)) \in Nat
  BY FieldsOfCall
<1>2. CASE c.name # "profiler_connect"
  <2>1. Reads(c, next) = Reads(c, got)
    <3> HIDE DEF next
    <3> QED
      BY <1>2, PathCallNames DEF Reads, PathCalls, WriteCalls
  <2> QED
    BY <1>1, <2>1
<1>3. CASE c.name = "profiler_connect"
  <2> DEFINE from == c.args[1]
             len == c.args[2]
  <2>1. from \in Nat /\ len \in Nat /\ FamilySize \in Nat
    BY Registers, SizeAssumption
  <2>2. Reads(c, got) = read_sockaddr(from, len, got) /\ Reads(c, next) = read_sockaddr(from, len, next)
    BY <1>3, ReadsProfiler
  <2>3. from # 0 /\ len >= FamilySize
    BY <1>1, <2>1, <2>2 DEF read_sockaddr
  <2>4. CASE got = << >>
    <3>1. Reads(c, got) = <<Raw(from, FamilySize)>>
      BY <2>1, <2>2, <2>3, <2>4, SockaddrReads
    <3>2. next # << >>
      OBVIOUS
    <3>3. Len(Reads(c, next)) >= 1 /\ Reads(c, next)[1] = Raw(from, FamilySize)
      <4> DEFINE head == Raw(from, FamilySize)
      <4>1. \/ Reads(c, next) = <<head>>
            \/ Reads(c, next) = <<head, Raw(from, InetSize)>>
            \/ Reads(c, next) = <<head, Raw(from, Inet6Size)>>
            \/ Reads(c, next) = <<head, Raw(from, Least(len, UnixSize))>>
        <5> HIDE DEF next
        <5> QED
          BY <2>1, <2>2, <2>3, <3>2, SockaddrReads
      <4> DEFINE r == Reads(c, next)
      <4>2. \/ r = <<head>> \/ \E x : r = <<head, x>>
        <5> HIDE DEF head, r
        <5> QED
          BY <4>1 DEF r
      <4> HIDE DEF head, r
      <4>3. Len(r) >= 1 /\ r[1] = head
        BY <4>2
      <4> QED
        BY <4>3 DEF head, r
    <3> QED
      BY <2>4, <3>1, <3>3
  <2>5. CASE got # << >>
    <3>0. Len(got) \in Nat \ {0}
      BY <2>5, EmptySeq
    <3>1. Len(got) >= 1 /\ next # << >> /\ next[1] = got[1]
      BY <3>0
    <3>2. Reads(c, next) = Reads(c, got)
      BY <2>2, <2>5, <3>1 DEF read_sockaddr
    <3> QED
      BY <1>1, <3>2
  <2> QED
    BY <2>4, <2>5
<1> QED
  BY <1>2, <1>3

-----------------------------------------------------------------------------
(* Lemmas: steps that leave the memory alone.                              *)

LEMMA SameBytes ==
  ASSUME mem' = mem
  PROVE  \A a : Byte(a)' = Byte(a) /\ read_child_word(a)' = read_child_word(a)
<1>1. \A a : Byte(a)' = Byte(a)
  BY DEF Byte
<1> QED
  BY <1>1 DEF read_child_word

LEMMA SamePointer ==
  ASSUME mem' = mem, NEW a
  PROVE  read_child_pointer(a)' = read_child_pointer(a)
  BY DEF read_child_pointer, Byte

LEMMA SameStrings ==
  ASSUME mem' = mem, poked' = poked
  PROVE  /\ \A a, n : WordsMapped(a, n)' = WordsMapped(a, n)
         /\ \A v, a : StringRead(v, a)' = StringRead(v, a)
         /\ \A t, n, a : StringBegun(t, n, a)' = StringBegun(t, n, a)
<1>1. \A a, n : WordsMapped(a, n)' = WordsMapped(a, n)
  BY SameBytes DEF WordsMapped
<1>2. \A v, a : StringRead(v, a)' = StringRead(v, a)
  BY <1>1, SameBytes DEF StringRead
<1>3. \A t, n, a : StringBegun(t, n, a)' = StringBegun(t, n, a)
  BY <1>1, SameBytes DEF StringBegun
<1> QED
  BY <1>1, <1>2, <1>3

LEMMA SamePointers ==
  ASSUME mem' = mem
  PROVE  /\ \A a, i : PointerMapped(a, i)' = PointerMapped(a, i)
         /\ \A a, i : Pointer(a, i)' = Pointer(a, i)
<1>1. \A a, i : PointerMapped(a, i)' = PointerMapped(a, i)
  BY SameBytes DEF PointerMapped
<1>2. \A a, i : Pointer(a, i)' = Pointer(a, i)
  BY SamePointer DEF Pointer
<1> QED
  BY <1>1, <1>2

LEMMA SameVectors ==
  ASSUME mem' = mem, poked' = poked
  PROVE  /\ \A a, i : HasString(a, i)' = HasString(a, i)
         /\ \A a, i : PointerMapped(a, i)' = PointerMapped(a, i)
         /\ \A a, i : Pointer(a, i)' = Pointer(a, i)
         /\ \A items, a : ItemsRead(items, a)' = ItemsRead(items, a)
         /\ \A v, a, n : VectorIs(v, a, n)' = VectorIs(v, a, n)
         /\ \A r, a : VectorBegun(r, a)' = VectorBegun(r, a)
<1>1. \A a, i : PointerMapped(a, i)' = PointerMapped(a, i)
  BY SamePointers
<1>2. \A a, i : Pointer(a, i)' = Pointer(a, i)
  BY SamePointers
<1>3. \A a, i : HasString(a, i)' = HasString(a, i)
  BY <1>1, <1>2 DEF HasString
<1>4. \A items, a : ItemsRead(items, a)' = ItemsRead(items, a)
  BY <1>2, <1>3, SameStrings DEF ItemsRead
<1>5. \A v, a, n : VectorIs(v, a, n)' = VectorIs(v, a, n)
  BY <1>1, <1>2, <1>3, <1>4, SameStrings DEF VectorIs
<1>6. \A r, a : VectorBegun(r, a)' = VectorBegun(r, a)
  BY <1>1, <1>2, <1>3, <1>4, SameStrings DEF VectorBegun
<1> QED
  BY <1>1, <1>2, <1>3, <1>4, <1>5, <1>6

\* What was read, or is being read, stays so.
LEMMA SameFields ==
  ASSUME mem' = mem, poked' = poked
  PROVE  /\ \A f, v : FieldRead(f, v)' = FieldRead(f, v)
         /\ \A f, r : FieldBegun(f, r)' = FieldBegun(f, r)
<1>1. \A v, a, n : BytesAre(v, a, n)' = BytesAre(v, a, n)
  BY SameStrings, SameBytes DEF BytesAre
<1>2. \A t, n, a, m : BytesBegun(t, n, a, m)' = BytesBegun(t, n, a, m)
  BY SameStrings, SameBytes DEF BytesBegun
<1>3. \A f, v : FieldRead(f, v)' = FieldRead(f, v)
  BY <1>1, SameStrings, SameVectors DEF FieldRead
<1>4. \A f, r : FieldBegun(f, r)' = FieldBegun(f, r)
  BY <1>2, SameStrings, SameVectors DEF FieldBegun
<1> QED
  BY <1>3, <1>4

LEMMA SameRead ==
  ASSUME mem' = mem, poked' = poked, call' = call, NEW got
  PROVE  FieldsRead(got)' = FieldsRead(got)
<1>1. Reads(call, got)' = Reads(call, got)
  OBVIOUS
<1> QED
  BY <1>1, SameFields DEF FieldsRead

-----------------------------------------------------------------------------
(* Lemmas: a write of another thread.                                      *)

\* It changes one byte that is mapped, and stays mapped.
LEMMA PokedBytes ==
  ASSUME MemoryOK, NEW p \in Pokes, Poke(p[1], p[2])
  PROVE  /\ poked' # {} /\ MemoryOK'
         /\ \A a : a \notin poked' => a \notin poked /\ Byte(a)' = Byte(a)
         /\ \A a : read_child_word(a)' = read_child_word(a)
         /\ \A a, n : WordsMapped(a, n)' = WordsMapped(a, n)
<1> DEFINE x == p[1]
           b == p[2]
<1>1. b \in Bytes /\ Hole \notin Bytes
  BY ValueAssumption, Zenon DEF Bytes
<1>2. mem' = [mem EXCEPT ![x] = b] /\ poked' = poked \cup {x} /\ Byte(x) # Hole
  BY DEF Poke
<1>3. x \in DOMAIN mem
  BY <1>2 DEF Byte
<1> HIDE DEF x, b
<1>4. mem \in [DOMAIN mem -> Bytes \cup {Hole}] /\ IsFiniteSet(DOMAIN mem)
  BY DEF MemoryOK
<1>5. DOMAIN mem' = DOMAIN mem /\ \A a \in DOMAIN mem : mem'[a] = IF a = x THEN b ELSE mem[a]
  BY <1>2, <1>3, <1>4
<1>6. MemoryOK'
  BY <1>1, <1>2, <1>3, <1>4, <1>5 DEF MemoryOK
<1>7. \A a : a # x => Byte(a)' = Byte(a)
  BY <1>5 DEF Byte
<1>8. Byte(x)' # Hole
  BY <1>1, <1>3, <1>5 DEF Byte
<1>9. \A a : (Byte(a)' # Hole) = (Byte(a) # Hole)
  BY <1>2, <1>7, <1>8
<1>10. \A a : read_child_word(a)' = read_child_word(a)
  BY <1>9 DEF read_child_word
<1>11. \A a, n : WordsMapped(a, n)' = WordsMapped(a, n)
  BY <1>10 DEF WordsMapped
<1> QED
  BY <1>2, <1>6, <1>7, <1>10, <1>11

LEMMA PokedStrings ==
  ASSUME MemoryOK, NEW p \in Pokes, Poke(p[1], p[2])
  PROVE  /\ \A v, a : StringRead(v, a) => StringRead(v, a)'
         /\ \A t, n, a : StringBegun(t, n, a) => StringBegun(t, n, a)'
<1>1. ASSUME NEW v, NEW a, StringRead(v, a) PROVE StringRead(v, a)'
  <2>1. CASE v = Failed /\ \E k \in 0 .. MaxString :
               /\ k % Word = 0 /\ (k = MaxString \/ ~read_child_word(a + k))
               /\ \A j \in 0 .. k - 1 : a + j \notin poked => Byte(a + j) # 0
    BY <2>1, PokedBytes DEF StringRead
  <2>2. CASE /\ v \in Texts /\ Len(v) < MaxString /\ WordsMapped(a, Len(v) + 1)
             /\ \A j \in 1 .. Len(v) : v[j] # 0 /\ (a + j - 1 \notin poked => v[j] = Byte(a + j - 1))
             /\ a + Len(v) \notin poked => Byte(a + Len(v)) = 0
    BY <2>2, PokedBytes DEF StringRead
  <2> QED
    BY <1>1, <2>1, <2>2 DEF StringRead
<1>2. ASSUME NEW t, NEW n, NEW a, StringBegun(t, n, a) PROVE StringBegun(t, n, a)'
  BY <1>2, PokedBytes DEF StringBegun
<1> QED
  BY <1>1, <1>2

\* What was read, or is being read, is still true of the memory.
LEMMA PokedFields ==
  ASSUME MemoryOK, NEW p \in Pokes, Poke(p[1], p[2])
  PROVE  /\ \A f, v : FieldRead(f, v) => FieldRead(f, v)'
         /\ \A f, r : FieldBegun(f, r) => FieldBegun(f, r)'
<1>1. \A v, a, n : BytesAre(v, a, n) => BytesAre(v, a, n)'
  BY PokedBytes DEF BytesAre
<1>2. \A t, n, a, m : BytesBegun(t, n, a, m) => BytesBegun(t, n, a, m)'
  BY PokedBytes DEF BytesBegun
<1>3. \A f, v : FieldRead(f, v) => FieldRead(f, v)'
  BY <1>1, PokedStrings, PokedBytes DEF FieldRead
<1>4. \A f, r : FieldBegun(f, r) => FieldBegun(f, r)'
  BY <1>2, PokedStrings, PokedBytes DEF FieldBegun
<1> QED
  BY <1>3, <1>4

LEMMA PokedRead ==
  ASSUME MemoryOK, NEW p \in Pokes, Poke(p[1], p[2]), NEW got, FieldsRead(got)
  PROVE  FieldsRead(got)'
<1>1. Reads(call, got)' = Reads(call, got)
  BY DEF Poke
<1> QED
  BY <1>1, PokedFields DEF FieldsRead

-----------------------------------------------------------------------------
(* Lemmas: a string, word by word.                                         *)

LEMMA TextShape ==
  ASSUME NEW v \in Texts
  PROVE  Len(v) \in Nat /\ \A i \in 1 .. Len(v) : v[i] \in Bytes
  BY DEF Texts

\* What goes before the first NUL of a word has none.
LEMMA BeforeNul ==
  ASSUME NEW w \in Texts, Len(w) = Word, Nuls(w) # {}
  PROVE  \E m \in 0 .. Word - 1 :
           /\ before_nul(w) \in Texts /\ Len(before_nul(w)) = m /\ w[m + 1] = 0
           /\ \A i \in 1 .. m : before_nul(w)[i] = w[i] /\ w[i] # 0
<1>1. Nuls(w) \subseteq Nat
  BY DEF Nuls
<1>2. Min(Nuls(w)) \in Nuls(w) /\ \A i \in Nuls(w) : Min(Nuls(w)) <= i
  BY <1>1, MinIsLeast
<1>3. PICK n \in 1 .. Word : n = Min(Nuls(w)) /\ w[n] = 0
  BY <1>2 DEF Nuls
<1>4. PICK m \in 0 .. Word - 1 : n = m + 1 /\ n - 1 = m
  BY <1>3, WordSize
<1>5. \A i \in 1 .. m : w[i] # 0 /\ w[i] \in Bytes
  <2> TAKE i \in 1 .. m
  <2>1. i \in 1 .. Word /\ i < n
    BY <1>4, WordSize
  <2>2. i \notin Nuls(w)
    BY <1>2, <1>3, <2>1
  <2> QED
    BY <2>1, <2>2, TextShape DEF Nuls
<1>6. before_nul(w) = SubSeq(w, 1, m)
  BY <1>3, <1>4 DEF before_nul
<1>7. /\ SubSeq(w, 1, m) \in Seq(Bytes) /\ Len(SubSeq(w, 1, m)) = m
      /\ \A i \in 1 .. m : SubSeq(w, 1, m)[i] = w[i]
  BY <1>5, SubSeqProperties
<1> QED
  BY <1>3, <1>4, <1>5, <1>6, <1>7 DEF Texts

\* One more word is mapped.
LEMMA OneWordMore ==
  ASSUME NEW a \in Nat, NEW off \in Nat, off % Word = 0, WordsMapped(a, off),
         read_child_word(a + off), NEW n \in 0 .. Word
  PROVE  WordsMapped(a, off + n)
<1>1. ASSUME NEW k \in 0 .. off + n - 1, k % Word = 0
      PROVE  read_child_word(a + k)
  <2>1. CASE k < off
    BY <1>1, <2>1 DEF WordsMapped
  <2>2. CASE k >= off
    <3>1. ASSUME off < k PROVE FALSE
      <4>1. k \in Nat /\ k < off + Word
        BY WordSize
      <4>2. off + Word <= k
        BY <1>1, <3>1, <4>1, SameMultiple
      <4> QED
        BY <4>1, <4>2, WordSize
    <3>2. k = off
      BY <2>2, <3>1
    <3> QED
      BY <3>2
  <2> QED
    BY <2>1, <2>2
<1> QED
  BY <1>1 DEF WordsMapped

\* read_child_string gives up at its limit, or where the word is not mapped.
LEMMA StringFails ==
  ASSUME NEW a \in Nat, NEW text \in Texts, NEW off \in Nat, off % Word = 0,
         off <= MaxString, Len(text) = off, StringBegun(text, off, a),
         off = MaxString \/ ~read_child_word(a + off)
  PROVE  StringRead(Failed, a)
<1>1. ASSUME NEW j \in 0 .. off - 1, a + j \notin poked PROVE Byte(a + j) # 0
  <2>1. j + 1 \in 1 .. off /\ a + (j + 1) - 1 = a + j
    OBVIOUS
  <2> QED
    BY <1>1, <2>1 DEF StringBegun
<1>2. off \in 0 .. MaxString
  BY WordSize
<1> QED
  BY <1>1, <1>2 DEF StringRead

\* It ends before the first NUL.
LEMMA StringEnds ==
  ASSUME MemoryOK, NEW a \in Nat, NEW text \in Texts, NEW off \in Nat, off % Word = 0,
         off < MaxString, Len(text) = off, StringBegun(text, off, a),
         read_child_word(a + off), Nuls(word(a + off)) # {}
  PROVE  /\ text \o before_nul(word(a + off)) \in Texts
         /\ StringRead(text \o before_nul(word(a + off)), a)
<1> DEFINE w == word(a + off)
           b == before_nul(w)
           v == text \o b
<1>1. /\ w \in Texts /\ Len(w) = Word
      /\ \A i \in 1 .. Word : w[i] = Byte(a + off + i - 1)
  BY WordRead
<1>2. PICK m \in 0 .. Word - 1 :
           /\ b \in Texts /\ Len(b) = m /\ w[m + 1] = 0
           /\ \A i \in 1 .. m : b[i] = w[i] /\ w[i] # 0
  BY <1>1, BeforeNul
<1> HIDE DEF w, b
<1>3. /\ v \in Texts /\ Len(v) = off + m
      /\ \A i \in 1 .. off + m : v[i] = IF i <= off THEN text[i] ELSE b[i - off]
  <2>1. text \in Seq(Bytes) /\ b \in Seq(Bytes) /\ Len(b) = m
    BY <1>2 DEF Texts
  <2> QED
    BY <2>1, ConcatProperties DEF Texts
<1> HIDE DEF v
<1>4. off + Word <= MaxString
  BY WordSize, SameMultiple
<1>5. Len(v) < MaxString
  BY <1>3, <1>4, WordSize
<1>6. WordsMapped(a, Len(v) + 1)
  <2>1. m + 1 \in 0 .. Word /\ Len(v) + 1 = off + (m + 1)
    BY <1>3, WordSize
  <2> QED
    BY <2>1, OneWordMore DEF StringBegun
<1>7. ASSUME NEW j \in 1 .. Len(v)
      PROVE  v[j] # 0 /\ (a + j - 1 \notin poked => v[j] = Byte(a + j - 1))
  <2>1. CASE j <= off
    <3>1. j \in 1 .. off /\ v[j] = text[j]
      BY <1>3, <2>1
    <3> QED
      BY <3>1 DEF StringBegun
  <2>2. CASE j > off
    <3>1. PICK i \in 1 .. m : i = j - off /\ a + off + i - 1 = a + j - 1
      BY <1>3, <2>2
    <3>2. v[j] = w[i] /\ w[i] # 0
      BY <1>2, <1>3, <2>2, <3>1
    <3> QED
      BY <1>1, <3>1, <3>2, WordSize
  <2> QED
    BY <1>3, <2>1, <2>2
<1>8. Byte(a + Len(v)) = 0
  <2>1. m + 1 \in 1 .. Word /\ a + off + (m + 1) - 1 = a + Len(v)
    BY <1>3, WordSize
  <2> QED
    BY <1>1, <1>2, <2>1
<1>9. StringRead(v, a)
  BY <1>3, <1>5, <1>6, <1>7, <1>8 DEF StringRead
<1> QED
  BY <1>3, <1>9 DEF v, b, w

\* Without a NUL it goes on.
LEMMA StringGoesOn ==
  ASSUME MemoryOK, NEW a \in Nat, NEW text \in Texts, NEW off \in Nat, off % Word = 0,
         off < MaxString, Len(text) = off, StringBegun(text, off, a),
         read_child_word(a + off), Nuls(word(a + off)) = {}
  PROVE  /\ text \o word(a + off) \in Texts /\ Len(text \o word(a + off)) = off + Word
         /\ off + Word <= MaxString /\ (off + Word) % Word = 0
         /\ StringBegun(text \o word(a + off), off + Word, a)
<1> DEFINE w == word(a + off)
           v == text \o w
<1>1. /\ w \in Texts /\ Len(w) = Word
      /\ \A i \in 1 .. Word : w[i] = Byte(a + off + i - 1)
  BY WordRead
<1>2. \A i \in 1 .. Word : w[i] # 0
  BY DEF Nuls
<1> HIDE DEF w
<1>3. /\ v \in Texts /\ Len(v) = off + Word
      /\ \A i \in 1 .. off + Word : v[i] = IF i <= off THEN text[i] ELSE w[i - off]
  BY <1>1, ConcatProperties, WordSize DEF Texts
<1> HIDE DEF v
<1>4. off + Word <= MaxString /\ (off + Word) % Word = 0
  BY WordSize, SameMultiple, NextMultiple
<1>5. WordsMapped(a, off + Word)
  <2>1. Word \in 0 .. Word
    BY WordSize
  <2> QED
    BY <2>1, OneWordMore DEF StringBegun
<1>6. ASSUME NEW j \in 1 .. off + Word
      PROVE  v[j] # 0 /\ (a + j - 1 \notin poked => v[j] = Byte(a + j - 1))
  <2>1. CASE j <= off
    <3>1. j \in 1 .. off /\ v[j] = text[j]
      BY <1>3, <2>1
    <3> QED
      BY <3>1 DEF StringBegun
  <2>2. CASE j > off
    <3>1. PICK i \in 1 .. Word : i = j - off /\ a + off + i - 1 = a + j - 1
      BY <2>2, WordSize
    <3> QED
      BY <1>1, <1>2, <1>3, <2>2, <3>1
  <2> QED
    BY <2>1, <2>2, WordSize
<1> QED
  BY <1>3, <1>4, <1>5, <1>6 DEF StringBegun, v, w

-----------------------------------------------------------------------------
(* Lemmas: a buffer, word by word.                                         *)

LEMMA BytesEnd ==
  ASSUME NEW a \in Nat, NEW size \in Nat, NEW text \in Texts, NEW off \in Nat,
         Len(text) = Least(off, size), BytesBegun(text, off, a, size), size <= off
  PROVE  BytesAre(text, a, size)
<1>1. Least(off, size) = size
  BY DEF Least
<1> QED
  BY <1>1 DEF BytesBegun, BytesAre

LEMMA BytesFail ==
  ASSUME NEW a \in Nat, NEW size \in Nat, NEW off \in Nat, off % Word = 0, off < size,
         ~read_child_word(a + off)
  PROVE  BytesAre(Failed, a, size)
<1>1. off \in 0 .. size - 1
  OBVIOUS
<1> QED
  BY <1>1 DEF BytesAre, WordsMapped

LEMMA BytesGoOn ==
  ASSUME MemoryOK, NEW a \in Nat, NEW size \in Nat, NEW text \in Texts, NEW off \in Nat,
         off % Word = 0, off < size, Len(text) = Least(off, size),
         BytesBegun(text, off, a, size), read_child_word(a + off)
  PROVE  LET v == text \o copied(word(a + off), size - off) IN
         /\ v \in Texts /\ Len(v) = Least(off + Word, size)
         /\ off + Word < size + Word /\ (off + Word) % Word = 0
         /\ BytesBegun(v, off + Word, a, size)
<1> DEFINE w == word(a + off)
           n == Least(Word, size - off)
           c == copied(w, size - off)
           v == text \o c
<1>1. /\ w \in Texts /\ Len(w) = Word
      /\ \A i \in 1 .. Word : w[i] = Byte(a + off + i - 1) /\ w[i] \in Bytes
  BY WordRead
<1>2. n \in 1 .. Word /\ n <= size - off /\ off + n = Least(off + Word, size)
  BY WordSize DEF Least
<1>3. Least(off, size) = off
  BY DEF Least
<1>4. c = SubSeq(w, 1, n)
  BY DEF copied
<1> HIDE DEF w, n, c
<1>5. c \in Seq(Bytes) /\ Len(c) = n /\ \A i \in 1 .. n : c[i] = w[i]
  <2>1. \A i \in 1 .. n : w[i] \in Bytes
    BY <1>1, <1>2, WordSize
  <2> QED
    BY <1>2, <1>4, <2>1, WordSize, SubSeqProperties
<1>6. /\ v \in Texts /\ Len(v) = off + n
      /\ \A i \in 1 .. off + n : v[i] = IF i <= off THEN text[i] ELSE c[i - off]
  <2>1. text \in Seq(Bytes) /\ Len(text) = off
    BY <1>3 DEF Texts
  <2> QED
    BY <1>5, <2>1, ConcatProperties DEF Texts
<1> HIDE DEF v
<1>7. WordsMapped(a, off + n)
  <2>1. n \in 0 .. Word /\ WordsMapped(a, off)
    BY <1>2, <1>3, WordSize DEF BytesBegun
  <2> QED
    BY <2>1, OneWordMore
<1>8. ASSUME poked = {}, NEW j \in 1 .. Len(v) PROVE v[j] = Byte(a + j - 1)
  <2>1. CASE j <= off
    <3>1. j \in 1 .. Len(text) /\ v[j] = text[j]
      BY <1>2, <1>3, <1>6, <2>1, WordSize
    <3> QED
      BY <1>8, <3>1 DEF BytesBegun
  <2>2. CASE j > off
    <3>1. PICK i \in 1 .. n : i = j - off /\ a + off + i - 1 = a + j - 1
      BY <1>2, <1>6, <2>2, WordSize
    <3>2. i \in 1 .. Word /\ v[j] = c[i]
      BY <1>2, <1>6, <2>2, <3>1, WordSize
    <3> QED
      BY <1>1, <1>5, <3>1, <3>2
  <2> QED
    BY <1>2, <1>6, <2>1, <2>2, WordSize
<1>9. BytesBegun(v, off + Word, a, size)
  BY <1>2, <1>7, <1>8 DEF BytesBegun
<1>10. off + Word < size + Word /\ (off + Word) % Word = 0
  BY WordSize, NextMultiple
<1> QED
  BY <1>2, <1>6, <1>9, <1>10 DEF v, c, w

-----------------------------------------------------------------------------
(* Lemmas: a vector, pointer by pointer.                                   *)

\* A string of it was read, or could not be.
LEMMA ItemRead ==
  ASSUME NEW a \in Nat, NEW limit \in Nat, NEW items \in Seq(Texts), NEW s \in Texts,
         ItemsRead(items, a), HasString(a, Len(items)), StringRead(s, Pointer(a, Len(items)))
  PROVE  ItemsRead(Append(items, s), a)
<1> DEFINE next == Append(items, s)
<1>1. /\ Len(items) \in Nat /\ Len(next) = Len(items) + 1
      /\ \A i \in 1 .. Len(items) : next[i] = items[i]
      /\ next[Len(items) + 1] = s
  OBVIOUS
<1> HIDE DEF next
<1>2. ASSUME NEW i \in 1 .. Len(next)
      PROVE  HasString(a, i - 1) /\ StringRead(next[i], Pointer(a, i - 1))
  <2>1. CASE i \in 1 .. Len(items)
    BY <1>1, <2>1 DEF ItemsRead
  <2>2. CASE i = Len(items) + 1
    <3>1. i - 1 = Len(items)
      BY <1>1, <2>2
    <3> QED
      BY <1>1, <2>2, <3>1
  <2> QED
    BY <1>1, <2>1, <2>2
<1> QED
  BY <1>2 DEF ItemsRead, next

LEMMA VectorFails ==
  ASSUME NEW a \in Nat, a # 0, NEW limit \in Nat, NEW items \in Seq(Texts), ItemsRead(items, a),
         Len(items) < limit,
         \/ ~PointerMapped(a, Len(items))
         \/ HasString(a, Len(items)) /\ StringRead(Failed, Pointer(a, Len(items)))
  PROVE  VectorIs(Failed, a, limit)
<1> DEFINE n == Len(items)
<1>1. n \in 0 .. limit - 1
  OBVIOUS
<1>2. ASSUME NEW i \in 0 .. n - 1 PROVE HasString(a, i)
  <2>1. i + 1 \in 1 .. n /\ (i + 1) - 1 = i
    BY <1>1
  <2> QED
    BY <2>1 DEF ItemsRead
<1> QED
  BY <1>1, <1>2 DEF VectorIs

-----------------------------------------------------------------------------
(* Lemmas: the next field, and the field that goes on.                     *)

LEMMA FreshReader ==
  ASSUME NEW got \in Seq(Values)
  PROVE  LET r == NextField(got) IN
         /\ SortsOf(r) /\ r.got = got
         /\ \A f \in Fields : FieldTypeOK(f, r) /\ FieldBegun(f, r)
<1> DEFINE r == NextField(got)
<1>1. /\ r.got = got /\ r.text = << >> /\ r.off = 0 /\ r.items = << >> /\ r.ptr = 0
      /\ r = [got |-> r.got, text |-> r.text, off |-> r.off, items |-> r.items, ptr |-> r.ptr]
  BY DEF NextField
<1> HIDE DEF r
<1>2. << >> \in Texts /\ << >> \in Seq(Texts) /\ Len(<< >>) = 0
  BY DEF Texts
<1>3. SortsOf(r)
  BY <1>1, <1>2, ZeroMultiple DEF SortsOf
<1>4. ASSUME NEW f \in Fields PROVE FieldTypeOK(f, r) /\ FieldBegun(f, r)
  <2>1. f.size \in Nat
    BY DEF Fields
  <2>2. Least(0, f.size) = 0
    BY <2>1 DEF Least
  <2>3. \A a : WordsMapped(a, 0)
    BY DEF WordsMapped
  <2>4. FieldTypeOK(f, r)
    BY <1>1, <1>2, <2>1, <2>2, WordSize DEF FieldTypeOK
  <2>5. \A a : StringBegun(r.text, r.off, a)
    BY <1>1, <2>3 DEF StringBegun
  <2>6. \A a : BytesBegun(r.text, r.off, a, f.size)
    BY <1>1, <1>2, <2>2, <2>3 DEF BytesBegun
  <2>7. \A a : VectorBegun(r, a)
    BY <1>1, <1>2 DEF VectorBegun, ItemsRead
  <2>8. FieldBegun(f, r)
    BY <2>5, <2>6, <2>7 DEF FieldBegun
  <2> QED
    BY <2>4, <2>8
<1> QED
  BY <1>1, <1>3, <1>4 DEF r

LEMMA TheField ==
  ASSUME ReadInv, Reading
  PROVE  /\ call \in Requests /\ reader.got \in Seq(Values) /\ Len(reader.got) \in Nat
         /\ Field \in Fields /\ FieldTypeOK(Field, reader) /\ FieldBegun(Field, reader)
         /\ FieldsRead(reader.got) /\ Len(reader.got) < Len(Reads(call, reader.got))
<1>1. at = "entry" /\ Len(reader.got) < Len(Reads(call, reader.got))
  BY DEF Reading
<1>2. call \in Requests /\ reader.got \in Seq(Values) /\ Len(reader.got) \in Nat
  BY <1>1 DEF ReadInv, StageOK, ReaderSorts, SortsOf
<1>3. Field \in Fields
  <2>1. Len(reader.got) + 1 \in 1 .. Len(Reads(call, reader.got))
    BY <1>1, <1>2, FieldsOfCall
  <2> QED
    BY <1>2, <2>1, FieldsOfCall DEF Field
<1> QED
  BY <1>1, <1>2, <1>3 DEF ReadInv, EntryOK

\* A value ends the field, and the next one, if there is one, is begun.
LEMMA FieldEnds ==
  ASSUME ReadInv, Reading, NEW v \in Values, FieldRead(Field, v), FieldDone(v), RestUnchanged
  PROVE  ReadInv'
<1>1. PICK got \in Seq(Values) : got = reader.got
  BY TheField
<1>2. PICK c \in Requests : c = call
  BY TheField
<1>3. PICK next \in Seq(Values) : next = Append(got, v)
  <2>1. Append(got, v) \in Seq(Values)
    BY AppendProperties
  <2> QED
    BY <2>1
<1>4. /\ mem' = mem /\ at' = at /\ call' = call /\ recorded' = recorded /\ taken' = taken
      /\ poked' = poked /\ at = "entry"
  BY DEF RestUnchanged, Reading
<1>5. reader' = NextField(next)
  BY <1>1, <1>3 DEF FieldDone
<1>6. SortsOf(reader') /\ reader'.got = next
  BY <1>5, FreshReader
<1>7. Len(got) < Len(Reads(c, got)) /\ Len(got) \in Nat /\ Len(next) = Len(got) + 1
  BY <1>1, <1>2, <1>3, TheField
<1>8. /\ Len(got) + 1 <= Len(Reads(c, next))
      /\ \A i \in 1 .. Len(got) + 1 : Reads(c, next)[i] = Reads(c, got)[i]
  BY <1>3, <1>7, FieldsStay
<1>9. Len(Reads(c, next)) \in Nat /\ \A i \in 1 .. Len(Reads(c, next)) : Reads(c, next)[i] \in Fields
  BY FieldsOfCall
<1>10. FieldsRead(next)
  <2>1. ASSUME NEW i \in 1 .. Len(next) PROVE FieldRead(Reads(call, next)[i], next[i])
    <3>1. CASE i \in 1 .. Len(got)
      <4>1. next[i] = got[i] /\ Reads(call, next)[i] = Reads(call, got)[i]
        BY <1>2, <1>3, <1>7, <1>8, <3>1
      <4>2. FieldRead(Reads(call, got)[i], got[i])
        BY <1>1, <3>1, TheField DEF FieldsRead
      <4> QED
        BY <4>1, <4>2
    <3>2. CASE i = Len(got) + 1
      <4>1. next[i] = v /\ Reads(call, next)[i] = Field
        BY <1>1, <1>2, <1>3, <1>7, <1>8, <3>2 DEF Field
      <4> QED
        BY <4>1
    <3> QED
      BY <1>7, <3>1, <3>2
  <2> QED
    BY <2>1 DEF FieldsRead
<1>11. FieldsRead(next)'
  BY <1>4, <1>10, SameRead
<1>12. Reading' => FieldTypeOK(Field, reader)' /\ FieldBegun(Field, reader)'
  <2> SUFFICES ASSUME Reading' PROVE FieldTypeOK(Field, reader)' /\ FieldBegun(Field, reader)'
    OBVIOUS
  <2>1. Len(next) < Len(Reads(c, next))
    BY <1>2, <1>4, <1>6 DEF Reading
  <2>2. PICK f \in Fields : f = Reads(c, next)[Len(next) + 1]
    BY <1>7, <1>9, <2>1
  <2>3. Field' = f
    BY <1>2, <1>4, <1>6, <2>2 DEF Field
  <2>4. PICK r : r = NextField(next)
    OBVIOUS
  <2>5. FieldTypeOK(f, r) /\ FieldBegun(f, r)
    BY <2>4, FreshReader
  <2>6. FieldBegun(f, r)'
    BY <1>4, <2>5, SameFields
  <2>7. reader' = r
    BY <1>5, <2>4
  <2> QED
    BY <2>3, <2>5, <2>6, <2>7
<1>13. EntryOK'
  <2>1. Len(reader'.got) <= Len(Reads(call', reader'.got))
    BY <1>2, <1>4, <1>6, <1>7, <1>8
  <2>2. FieldsRead(reader.got)'
    BY <1>6, <1>11
  <2> QED
    BY <1>12, <2>1, <2>2 DEF EntryOK
<1>14. MemoryOK'
  BY <1>4 DEF ReadInv, MemoryOK
<1>15. StageOK'
  BY <1>4 DEF ReadInv, StageOK
<1> QED
  BY <1>4, <1>6, <1>13, <1>14, <1>15 DEF ReadInv, ReaderSorts, RecordedOK, TakenOK

\* More of the field is read.
LEMMA FieldGoesOn ==
  ASSUME ReadInv, Reading, NEW r, reader' = r, SortsOf(r), r.got = reader.got,
         FieldTypeOK(Field, r), FieldBegun(Field, r), RestUnchanged
  PROVE  ReadInv'
<1>1. PICK got \in Seq(Values) : got = reader.got
  BY TheField
<1>2. PICK f \in Fields : f = Field
  BY TheField
<1>3. /\ mem' = mem /\ at' = at /\ call' = call /\ recorded' = recorded /\ taken' = taken
      /\ poked' = poked /\ at = "entry"
  BY DEF RestUnchanged, Reading
<1>4. reader'.got = got /\ Field' = f
  BY <1>1, <1>2, <1>3 DEF Field
<1>5. FieldTypeOK(Field, reader)' /\ FieldBegun(Field, reader)'
  <2>1. FieldTypeOK(f, r) /\ FieldBegun(f, r)
    BY <1>2
  <2>2. FieldBegun(f, r)'
    BY <1>3, <2>1, SameFields
  <2> QED
    BY <1>4, <2>1, <2>2
<1>6. EntryOK'
  <2>1. FieldsRead(got)'
    BY <1>1, <1>3, SameRead, TheField
  <2>2. Len(got) <= Len(Reads(call, got))
    BY <1>1, <1>3 DEF ReadInv, EntryOK
  <2> QED
    BY <1>3, <1>4, <1>5, <2>1, <2>2 DEF EntryOK
<1>7. MemoryOK' /\ StageOK'
  BY <1>3 DEF ReadInv, MemoryOK, StageOK
<1> QED
  BY <1>3, <1>6, <1>7 DEF ReadInv, ReaderSorts, RecordedOK, TakenOK

-----------------------------------------------------------------------------
(* The steps of the tracer preserve the invariant.                         *)

LEMMA ReadString ==
  ASSUME ReadInv, read_child_string, Field.kind = "string"
  PROVE  ReadInv'
<1>1. Reading /\ RestUnchanged
  BY DEF read_child_string
<1>2. PICK a \in Nat : a = Field.from
  BY <1>1, TheField DEF Fields
<1>3. PICK text \in Texts : text = reader.text
  BY DEF ReadInv, ReaderSorts, SortsOf
<1>4. PICK off \in Nat : off = reader.off /\ off % Word = 0
  BY DEF ReadInv, ReaderSorts, SortsOf
<1>5. off <= MaxString /\ Len(text) = off /\ StringBegun(text, off, a)
  BY <1>1, <1>2, <1>3, <1>4, TheField DEF FieldTypeOK, FieldBegun
<1>6. MemoryOK
  BY DEF ReadInv
<1>7. CASE ~(in_limit /\ read_child_word(a + off)) /\ nullopt
  <2>1. off = MaxString \/ ~read_child_word(a + off)
    BY <1>4, <1>5, <1>7, WordSize DEF in_limit
  <2>2. StringRead(Failed, a)
    BY <1>4, <1>5, <2>1, StringFails
  <2>3. FieldRead(Field, Failed) /\ Failed \in Values
    BY <1>2, <2>2 DEF FieldRead, Values
  <2> QED
    BY <1>1, <1>7, <2>3, FieldEnds DEF nullopt
<1>8. CASE /\ in_limit /\ read_child_word(a + off) /\ Nuls(word(a + off)) # {}
           /\ StringDone(text \o before_nul(word(a + off)))
  <2>1. off < MaxString
    BY <1>4, <1>8 DEF in_limit
  <2>2. PICK v \in Texts : v = text \o before_nul(word(a + off)) /\ StringRead(v, a)
    BY <1>4, <1>5, <1>6, <1>8, <2>1, StringEnds
  <2>3. FieldRead(Field, v) /\ v \in Values
    BY <1>2, <2>2 DEF FieldRead, Values
  <2>4. FieldDone(v)
    BY <1>8, <2>2 DEF StringDone
  <2> QED
    BY <1>1, <2>3, <2>4, FieldEnds
<1>9. CASE /\ in_limit /\ read_child_word(a + off) /\ Nuls(word(a + off)) = {}
           /\ reader' = [reader EXCEPT !.text = @ \o word(a + off), !.off = @ + Word]
  <2>1. off < MaxString
    BY <1>4, <1>9 DEF in_limit
  <2>2. PICK v \in Texts : /\ v = text \o word(a + off) /\ Len(v) = off + Word
                           /\ off + Word <= MaxString /\ (off + Word) % Word = 0
                           /\ StringBegun(v, off + Word, a)
    BY <1>4, <1>5, <1>6, <1>9, <2>1, StringGoesOn
  <2>3. PICK r : r = reader'
    OBVIOUS
  <2>4. /\ r.text = v /\ r.off = off + Word /\ r.got = reader.got
        /\ r.items = reader.items /\ r.ptr = reader.ptr
        /\ r = [got |-> r.got, text |-> r.text, off |-> r.off, items |-> r.items, ptr |-> r.ptr]
    BY <1>3, <1>4, <1>9, <2>2, <2>3 DEF ReadInv, ReaderSorts, SortsOf
  <2>5. SortsOf(r)
    BY <2>2, <2>4, WordSize DEF ReadInv, ReaderSorts, SortsOf
  <2>6. FieldTypeOK(Field, r) /\ FieldBegun(Field, r)
    BY <1>1, <1>2, <2>2, <2>4, TheField DEF FieldTypeOK, FieldBegun
  <2> QED
    BY <1>1, <2>3, <2>4, <2>5, <2>6, FieldGoesOn
<1> QED
  BY <1>2, <1>3, <1>4, <1>7, <1>8, <1>9 DEF read_child_string

LEMMA ReadItem ==
  ASSUME ReadInv, read_child_string, Field.kind # "string"
  PROVE  ReadInv'
<1>1. Reading /\ RestUnchanged /\ reader.ptr # 0
  BY DEF read_child_string
<1>2. PICK a \in Nat : a = reader.ptr /\ a # 0
  BY <1>1 DEF ReadInv, ReaderSorts, SortsOf
<1>3. PICK text \in Texts : text = reader.text
  BY DEF ReadInv, ReaderSorts, SortsOf
<1>4. PICK off \in Nat : off = reader.off /\ off % Word = 0
  BY DEF ReadInv, ReaderSorts, SortsOf
<1>5. PICK items \in Seq(Texts) : items = reader.items
  BY DEF ReadInv, ReaderSorts, SortsOf
<1>6. Field.kind = "vector"
  BY <1>1, TheField DEF FieldTypeOK
<1>7. PICK from \in Nat, size \in Nat : from = Field.from /\ size = Field.size
  BY <1>1, TheField DEF Fields
<1>8. /\ off <= MaxString /\ Len(text) = off /\ StringBegun(text, off, a)
      /\ from # 0 /\ Len(items) < size
      /\ poked = {} => /\ ItemsRead(items, from)
                       /\ HasString(from, Len(items)) /\ Pointer(from, Len(items)) = a
  BY <1>1, <1>2, <1>3, <1>4, <1>5, <1>6, <1>7, TheField
     DEF FieldTypeOK, FieldBegun, VectorBegun, HasString
<1>9. MemoryOK
  BY DEF ReadInv
<1>10. CASE ~(in_limit /\ read_child_word(a + off)) /\ nullopt
  <2>1. off = MaxString \/ ~read_child_word(a + off)
    BY <1>4, <1>8, <1>10, WordSize DEF in_limit
  <2>2. StringRead(Failed, a)
    BY <1>4, <1>8, <2>1, StringFails
  <2>3. poked = {} => VectorIs(Failed, from, size)
    BY <1>8, <2>2, VectorFails
  <2>4. FieldRead(Field, Failed) /\ Failed \in Values
    BY <1>6, <1>7, <2>3 DEF FieldRead, Values
  <2> QED
    BY <1>1, <1>10, <2>4, FieldEnds DEF nullopt
<1>11. CASE /\ in_limit /\ read_child_word(a + off) /\ Nuls(word(a + off)) # {}
            /\ StringDone(text \o before_nul(word(a + off)))
  <2>1. off < MaxString
    BY <1>4, <1>11 DEF in_limit
  <2>2. PICK v \in Texts : v = text \o before_nul(word(a + off)) /\ StringRead(v, a)
    BY <1>4, <1>8, <1>9, <1>11, <2>1, StringEnds
  <2>3. PICK r : r = reader'
    OBVIOUS
  <2>4. PICK more \in Seq(Texts) : more = Append(items, v) /\ Len(more) = Len(items) + 1
    <3>1. Append(items, v) \in Seq(Texts) /\ Len(Append(items, v)) = Len(items) + 1
      BY AppendProperties
    <3> QED
      BY <3>1
  <2>5. /\ r.text = << >> /\ r.off = 0 /\ r.got = reader.got /\ r.items = more /\ r.ptr = 0
        /\ r = [got |-> r.got, text |-> r.text, off |-> r.off, items |-> r.items, ptr |-> r.ptr]
    BY <1>5, <1>6, <1>11, <2>2, <2>3, <2>4 DEF ReadInv, ReaderSorts, SortsOf, StringDone
  <2>6. << >> \in Texts /\ Len(<< >>) = 0
    BY DEF Texts
  <2>7. SortsOf(r)
    BY <2>4, <2>5, <2>6, ZeroMultiple DEF ReadInv, ReaderSorts, SortsOf
  <2>8. FieldTypeOK(Field, r)
    BY <1>6, <1>7, <1>8, <2>4, <2>5, <2>6, WordSize DEF FieldTypeOK
  <2>9. poked = {} => ItemsRead(more, from)
    BY <1>8, <2>2, <2>4, ItemRead
  <2>10. FieldBegun(Field, r)
    BY <1>6, <1>7, <2>5, <2>9 DEF FieldBegun, VectorBegun
  <2> QED
    BY <1>1, <2>3, <2>5, <2>7, <2>8, <2>10, FieldGoesOn
<1>12. CASE /\ in_limit /\ read_child_word(a + off) /\ Nuls(word(a + off)) = {}
            /\ reader' = [reader EXCEPT !.text = @ \o word(a + off), !.off = @ + Word]
  <2>1. off < MaxString
    BY <1>4, <1>12 DEF in_limit
  <2>2. PICK v \in Texts : /\ v = text \o word(a + off) /\ Len(v) = off + Word
                           /\ off + Word <= MaxString /\ (off + Word) % Word = 0
                           /\ StringBegun(v, off + Word, a)
    BY <1>4, <1>8, <1>9, <1>12, <2>1, StringGoesOn
  <2>3. PICK r : r = reader'
    OBVIOUS
  <2>4. /\ r.text = v /\ r.off = off + Word /\ r.got = reader.got /\ r.items = items /\ r.ptr = a
        /\ r = [got |-> r.got, text |-> r.text, off |-> r.off, items |-> r.items, ptr |-> r.ptr]
    BY <1>2, <1>3, <1>4, <1>5, <1>12, <2>2, <2>3 DEF ReadInv, ReaderSorts, SortsOf
  <2>5. SortsOf(r)
    <3>1. r.got \in Seq(Values) /\ off + Word \in Nat
      BY <2>4, WordSize DEF ReadInv, ReaderSorts, SortsOf
    <3> QED
      BY <2>2, <2>4, <3>1 DEF SortsOf
  <2>6. FieldTypeOK(Field, r)
    BY <1>2, <1>6, <1>7, <1>8, <2>2, <2>4 DEF FieldTypeOK
  <2>7. FieldBegun(Field, r)
    BY <1>6, <1>7, <1>8, <2>2, <2>4 DEF FieldBegun, VectorBegun, HasString
  <2> QED
    BY <1>1, <2>3, <2>4, <2>5, <2>6, <2>7, FieldGoesOn
<1> QED
  BY <1>2, <1>3, <1>4, <1>10, <1>11, <1>12 DEF read_child_string

LEMMA ReadPointer ==
  ASSUME ReadInv, read_child_string_vector
  PROVE  ReadInv'
<1>1. Reading /\ RestUnchanged /\ reader.ptr = 0 /\ Field.kind = "vector"
  BY DEF read_child_string_vector
<1>2. PICK items \in Seq(Texts) : items = reader.items
  BY DEF ReadInv, ReaderSorts, SortsOf
<1>3. PICK from \in Nat, size \in Nat : from = Field.from /\ size = Field.size
  BY <1>1, TheField DEF Fields
<1>4. /\ Len(items) <= size /\ Len(items) \in Nat /\ reader.text = << >> /\ reader.off = 0
      /\ from = 0 => items = << >>
      /\ poked = {} => ItemsRead(items, from)
  <2>1. reader.off = Len(reader.text) /\ reader.text = << >>
    BY <1>1, TheField DEF FieldTypeOK
  <2> QED
    BY <1>1, <1>2, <1>3, <2>1, TheField DEF FieldTypeOK, FieldBegun, VectorBegun
<1>5. MemoryOK
  BY DEF ReadInv
<1> DEFINE at_end == from + Len(items) * Word
<1>6. CASE (from = 0 \/ Len(items) = size) /\ FieldDone(items)
  <2>1. poked = {} => VectorIs(items, from, size)
    BY <1>4, <1>6 DEF VectorIs
  <2>2. FieldRead(Field, items) /\ items \in Values
    BY <1>1, <1>3, <2>1 DEF FieldRead, Values
  <2> QED
    BY <1>1, <1>6, <2>2, FieldEnds
<1>7. CASE ~(from = 0 \/ Len(items) = size) /\ ~read_child_word(at_end) /\ nullopt
  <2>1. Len(items) < size /\ from # 0 /\ ~PointerMapped(from, Len(items))
    BY <1>4, <1>7 DEF PointerMapped
  <2>2. poked = {} => VectorIs(Failed, from, size)
    BY <1>4, <2>1, VectorFails
  <2>3. FieldRead(Field, Failed) /\ Failed \in Values
    BY <1>1, <1>3, <2>2 DEF FieldRead, Values
  <2> QED
    BY <1>1, <1>7, <2>3, FieldEnds DEF nullopt
<1>8. CASE /\ ~(from = 0 \/ Len(items) = size) /\ read_child_word(at_end)
           /\ read_child_pointer(at_end) = 0 /\ FieldDone(items)
  <2>1. from # 0 /\ PointerMapped(from, Len(items)) /\ Pointer(from, Len(items)) = 0
    BY <1>8 DEF PointerMapped, Pointer
  <2>2. poked = {} => VectorIs(items, from, size)
    BY <1>4, <2>1 DEF VectorIs
  <2>3. FieldRead(Field, items) /\ items \in Values
    BY <1>1, <1>3, <2>2 DEF FieldRead, Values
  <2> QED
    BY <1>1, <1>8, <2>3, FieldEnds
<1>9. CASE /\ ~(from = 0 \/ Len(items) = size) /\ read_child_word(at_end)
           /\ read_child_pointer(at_end) # 0
           /\ reader' = [reader EXCEPT !.ptr = read_child_pointer(at_end)]
  <2>1. Len(items) < size /\ from # 0 /\ PointerMapped(from, Len(items))
    BY <1>4, <1>9 DEF PointerMapped
  <2>2. PICK p \in Nat : p = read_child_pointer(at_end) /\ p # 0 /\ p = Pointer(from, Len(items))
    <3>1. read_child_pointer(at_end) \in Nat
      BY <1>5, <1>9, PointerIsNat
    <3> QED
      BY <1>9, <3>1 DEF Pointer
  <2>3. PICK r : r = reader'
    OBVIOUS
  <2>4. /\ r.text = << >> /\ r.off = 0 /\ r.got = reader.got /\ r.items = items /\ r.ptr = p
        /\ r = [got |-> r.got, text |-> r.text, off |-> r.off, items |-> r.items, ptr |-> r.ptr]
    BY <1>2, <1>4, <1>9, <2>2, <2>3 DEF ReadInv, ReaderSorts, SortsOf
  <2>5. << >> \in Texts /\ Len(<< >>) = 0 /\ r.got \in Seq(Values)
    BY <2>4 DEF Texts, ReadInv, ReaderSorts, SortsOf
  <2>6. SortsOf(r)
    BY <2>4, <2>5, ZeroMultiple DEF SortsOf
  <2>7. FieldTypeOK(Field, r)
    BY <1>1, <1>3, <1>4, <2>1, <2>2, <2>4, <2>5, WordSize DEF FieldTypeOK
  <2>8. StringBegun(r.text, r.off, r.ptr)
    BY <2>4 DEF StringBegun, WordsMapped
  <2>9. FieldBegun(Field, r)
    BY <1>1, <1>3, <1>4, <2>1, <2>2, <2>4, <2>8 DEF FieldBegun, VectorBegun
  <2> QED
    BY <1>1, <2>3, <2>4, <2>6, <2>7, <2>9, FieldGoesOn
<1> QED
  BY <1>2, <1>3, <1>6, <1>7, <1>8, <1>9 DEF read_child_string_vector

LEMMA ReadBytes ==
  ASSUME ReadInv, read_child_bytes
  PROVE  ReadInv'
<1>1. Reading /\ RestUnchanged /\ Field.kind = "bytes"
  BY DEF read_child_bytes
<1>2. PICK a \in Nat, size \in Nat : a = Field.from /\ size = Field.size
  BY <1>1, TheField DEF Fields
<1>3. PICK text \in Texts : text = reader.text
  BY DEF ReadInv, ReaderSorts, SortsOf
<1>4. PICK off \in Nat : off = reader.off /\ off % Word = 0
  BY DEF ReadInv, ReaderSorts, SortsOf
<1>5. Len(text) = Least(off, size) /\ BytesBegun(text, off, a, size)
  BY <1>1, <1>2, <1>3, <1>4, TheField DEF FieldTypeOK, FieldBegun
<1>6. MemoryOK
  BY DEF ReadInv
<1>7. CASE size - off <= 0 /\ FieldDone(text)
  <2>1. BytesAre(text, a, size)
    BY <1>5, <1>7, BytesEnd
  <2>2. FieldRead(Field, text) /\ text \in Values
    BY <1>1, <1>2, <2>1 DEF FieldRead, Values
  <2> QED
    BY <1>1, <1>7, <2>2, FieldEnds
<1>8. CASE size - off > 0 /\ ~read_child_word(a + off) /\ nullopt
  <2>1. off < size
    BY <1>8
  <2>2. BytesAre(Failed, a, size)
    BY <1>4, <1>8, <2>1, BytesFail
  <2>3. FieldRead(Field, Failed) /\ Failed \in Values
    BY <1>1, <1>2, <2>2 DEF FieldRead, Values
  <2> QED
    BY <1>1, <1>8, <2>3, FieldEnds DEF nullopt
<1>9. CASE /\ size - off > 0 /\ read_child_word(a + off)
           /\ reader' = [reader EXCEPT !.off = @ + Word, !.text = @ \o copied(word(a + off), size - off)]
  <2>1. off < size
    BY <1>9
  <2>2. PICK v \in Texts : /\ v = text \o copied(word(a + off), size - off)
                           /\ Len(v) = Least(off + Word, size)
                           /\ off + Word < size + Word /\ (off + Word) % Word = 0
                           /\ BytesBegun(v, off + Word, a, size)
    BY <1>4, <1>5, <1>6, <1>9, <2>1, BytesGoOn
  <2>3. PICK r : r = reader'
    OBVIOUS
  <2>4. /\ r.text = v /\ r.off = off + Word /\ r.got = reader.got
        /\ r.items = reader.items /\ r.ptr = reader.ptr
        /\ r = [got |-> r.got, text |-> r.text, off |-> r.off, items |-> r.items, ptr |-> r.ptr]
    BY <1>3, <1>4, <1>9, <2>2, <2>3 DEF ReadInv, ReaderSorts, SortsOf
  <2>5. SortsOf(r)
    <3>1. r.got \in Seq(Values) /\ r.items \in Seq(Texts) /\ r.ptr \in Nat /\ off + Word \in Nat
      BY <2>4, WordSize DEF ReadInv, ReaderSorts, SortsOf
    <3> QED
      BY <2>2, <2>4, <3>1 DEF SortsOf
  <2>6. FieldTypeOK(Field, r) /\ FieldBegun(Field, r)
    BY <1>1, <1>2, <2>2, <2>4, TheField DEF FieldTypeOK, FieldBegun
  <2> QED
    BY <1>1, <2>3, <2>4, <2>5, <2>6, FieldGoesOn
<1> QED
  BY <1>2, <1>3, <1>4, <1>7, <1>8, <1>9 DEF read_child_bytes

\* The event is made of all fields.
LEMMA RecordEvent ==
  ASSUME ReadInv, record
  PROVE  ReadInv'
<1>1. /\ at = "entry" /\ ~Reading /\ at' = "kernel" /\ recorded' = EventArgs(call, reader.got)
      /\ mem' = mem /\ call' = call /\ poked' = poked /\ reader' = NextField(<< >>)
  BY DEF record
<1>2. PICK got \in Seq(Values) : got = reader.got
  BY DEF ReadInv, ReaderSorts, SortsOf
<1>3. call \in Requests /\ FieldsRead(got) /\ Len(got) <= Len(Reads(call, got))
  BY <1>1, <1>2 DEF ReadInv, StageOK, EntryOK
<1>4. Len(got) = Len(Reads(call, got))
  <2>1. Len(got) \in Nat /\ Len(Reads(call, got)) \in Nat
    BY <1>3, FieldsOfCall
  <2> QED
    BY <1>1, <1>2, <1>3, <2>1 DEF Reading
<1>5. FieldsRead(got)'
  BY <1>1, <1>3, SameRead
<1>6. Recorded(got)'
  BY <1>1, <1>2, <1>4, <1>5 DEF Recorded
<1>7. RecordedOK'
  BY <1>6 DEF RecordedOK
<1>8. ReaderSorts'
  <2>1. << >> \in Seq(Values)
    OBVIOUS
  <2> QED
    BY <1>1, <2>1, FreshReader DEF ReaderSorts
<1>9. MemoryOK' /\ StageOK' /\ EntryOK' /\ TakenOK'
  BY <1>1, <1>3 DEF ReadInv, MemoryOK, StageOK, EntryOK, TakenOK
<1> QED
  BY <1>7, <1>8, <1>9 DEF ReadInv

-----------------------------------------------------------------------------
(* The other steps, and the invariant.                                     *)

LEMMA ReaderInitInv ==
  ASSUME ReaderInit
  PROVE  ReadInv
<1>1. MemoryOK
  <2>1. mem \in Memories
    BY DEF ReaderInit
  <2> QED
    BY <2>1, ValueAssumption, Zenon DEF MemoryOK, Bytes
<1>2. << >> \in Seq(Values)
  OBVIOUS
<1>3. ReaderSorts
  BY <1>2, FreshReader DEF ReaderInit, ReaderSorts
<1>4. StageOK /\ EntryOK /\ RecordedOK /\ TakenOK
  BY DEF ReaderInit, StageOK, EntryOK, RecordedOK, TakenOK
<1> QED
  BY <1>1, <1>3, <1>4 DEF ReadInv

LEMMA SyscallInv ==
  ASSUME ReadInv, NEW c \in Requests, Syscall(c)
  PROVE  ReadInv'
<1>1. /\ at = "user" /\ at' = "entry" /\ call' = c /\ mem' = mem /\ reader' = reader
      /\ poked' = poked
  BY DEF Syscall
<1>2. reader' = NextField(<< >>)
  BY <1>1 DEF ReadInv, StageOK
<1>3. PICK got \in Seq(Values) : got = << >>
  <2>1. << >> \in Seq(Values)
    OBVIOUS
  <2> QED
    BY <2>1
<1>4. reader'.got = got /\ Len(got) = 0 /\ SortsOf(reader')
  BY <1>2, <1>3, FreshReader
<1>5. Len(Reads(c, got)) \in Nat /\ \A i \in 1 .. Len(Reads(c, got)) : Reads(c, got)[i] \in Fields
  BY FieldsOfCall
<1>6. FieldsRead(got)'
  BY <1>4 DEF FieldsRead
<1>7. ASSUME Reading' PROVE FieldTypeOK(Field, reader)' /\ FieldBegun(Field, reader)'
  <2>1. PICK f \in Fields : f = Reads(c, got)[Len(got) + 1]
    BY <1>1, <1>4, <1>5, <1>7 DEF Reading
  <2>2. Field' = f
    BY <1>1, <1>4, <2>1 DEF Field
  <2>3. PICK r : r = NextField(got)
    OBVIOUS
  <2>4. FieldTypeOK(f, r) /\ FieldBegun(f, r)
    BY <2>3, FreshReader
  <2>5. FieldBegun(f, r)'
    BY <1>1, <2>4, SameFields
  <2> QED
    BY <1>2, <1>3, <2>2, <2>3, <2>4, <2>5
<1>8. EntryOK'
  BY <1>1, <1>4, <1>5, <1>6, <1>7 DEF EntryOK
<1>9. MemoryOK' /\ StageOK' /\ RecordedOK' /\ TakenOK'
  BY <1>1 DEF ReadInv, MemoryOK, StageOK, RecordedOK, TakenOK
<1> QED
  BY <1>4, <1>8, <1>9 DEF ReadInv, ReaderSorts

\* The indices at which the vector at a may end.
Ends(a) ==
  {i \in 0 .. Cardinality(DOMAIN mem) :
     ~PointerMapped(a, i) \/ (PointerMapped(a, i) /\ Pointer(a, i) = 0)}

\* KernelVector, by these.
VectorTaken(a) ==
  IF a = 0 THEN << >>
  ELSE IF \/ ~PointerMapped(a, Min(Ends(a)))
          \/ \E i \in 0 .. Min(Ends(a)) - 1 : KernelString(Pointer(a, i), MaxArg) = Failed
  THEN Failed ELSE [i \in 1 .. Min(Ends(a)) |-> KernelString(Pointer(a, i - 1), MaxArg)]

LEMMA KernelVectorIs == \A a : KernelVector(a) = VectorTaken(a)
  BY DEF KernelVector, VectorTaken, Ends, PointerMapped, Pointer

\* What the kernel takes depends on the memory and the call alone.
LEMMA SameTaken ==
  ASSUME mem' = mem, call' = call
  PROVE  Taken' = Taken
<1>1. \A a, n : KernelString(a, n)' = KernelString(a, n)
  BY SameBytes DEF KernelString
<1>2. \A a, n : KernelBytes(a, n)' = KernelBytes(a, n)
  BY SameBytes DEF KernelBytes
<1>3. \A a : KernelVector(a)' = KernelVector(a)
  <2>1. \A a : Ends(a)' = Ends(a)
    BY SamePointers DEF Ends
  <2>2. \A a : VectorTaken(a)' = VectorTaken(a)
    BY <1>1, <2>1, SamePointers DEF VectorTaken
  <2>3. \A a : KernelVector(a)' = VectorTaken(a)'
    BY DEF KernelVector, VectorTaken, Ends, PointerMapped, Pointer
  <2> QED
    BY <2>2, <2>3, KernelVectorIs
<1>4. \A a, n : KernelWrite(a, n)' = KernelWrite(a, n)
  BY <1>2, SameBytes DEF KernelWrite
<1>5. \A a, n : KernelConnect(a, n)' = KernelConnect(a, n)
  BY <1>2 DEF KernelConnect
<1>6. KernelPaths' = KernelPaths
  BY <1>1 DEF KernelPaths
<1>7. KernelExecve' = KernelExecve
  BY <1>1, <1>3 DEF KernelExecve
<1> QED
  BY <1>4, <1>5, <1>6, <1>7 DEF Taken

LEMMA CopyInv ==
  ASSUME ReadInv, Copy
  PROVE  ReadInv'
<1>1. /\ at = "kernel" /\ at' = "done" /\ taken' = Taken /\ mem' = mem /\ call' = call
      /\ reader' = reader /\ recorded' = recorded /\ poked' = poked
  BY DEF Copy
<1>2. PICK got \in Seq(Values) : Recorded(got)
  BY <1>1 DEF ReadInv, RecordedOK
<1>3. Recorded(got)'
  BY <1>1, <1>2, SameRead DEF Recorded
<1>4. RecordedOK'
  BY <1>3 DEF RecordedOK
<1>5. Taken' = Taken
  BY <1>1, SameTaken
<1>6. TakenOK'
  BY <1>1, <1>5 DEF TakenOK
<1> QED
  BY <1>1, <1>4, <1>6 DEF ReadInv, MemoryOK, ReaderSorts, StageOK, EntryOK

LEMMA PokeInv ==
  ASSUME ReadInv, NEW p \in Pokes, Poke(p[1], p[2])
  PROVE  ReadInv'
<1>1. /\ at \in {"entry", "kernel"} /\ at' = at /\ call' = call /\ reader' = reader
      /\ recorded' = recorded
  BY DEF Poke
<1>2. MemoryOK
  BY DEF ReadInv
<1>3. MemoryOK'
  BY <1>2, PokedBytes
<1>4. EntryOK'
  <2> SUFFICES ASSUME at = "entry" PROVE EntryOK'
    BY <1>1 DEF EntryOK
  <2>1. PICK got \in Seq(Values) : got = reader.got
    BY DEF ReadInv, ReaderSorts, SortsOf
  <2>2. PICK c : c = call
    OBVIOUS
  <2>3. Len(got) <= Len(Reads(c, got)) /\ FieldsRead(got)
    BY <2>1, <2>2 DEF ReadInv, EntryOK
  <2>4. FieldsRead(got)'
    BY <1>2, <2>3, PokedRead
  <2>5. ASSUME Reading' PROVE FieldTypeOK(Field, reader)' /\ FieldBegun(Field, reader)'
    <3>1. Reading
      BY <1>1, <2>5 DEF Reading
    <3>2. PICK f : f = Field
      OBVIOUS
    <3>3. PICK r : r = reader
      OBVIOUS
    <3>4. Field' = f
      BY <1>1, <3>2 DEF Field
    <3>5. FieldTypeOK(f, r) /\ FieldBegun(f, r)
      BY <3>1, <3>2, <3>3, TheField
    <3>6. FieldBegun(f, r)'
      BY <1>2, <3>5, PokedFields
    <3> QED
      BY <1>1, <3>3, <3>4, <3>5, <3>6
  <2> QED
    BY <1>1, <2>1, <2>2, <2>3, <2>4, <2>5 DEF EntryOK
<1>5. RecordedOK'
  <2> SUFFICES ASSUME at = "kernel" PROVE RecordedOK'
    BY <1>1 DEF RecordedOK
  <2>1. PICK got \in Seq(Values) : Recorded(got)
    BY DEF ReadInv, RecordedOK
  <2>2. FieldsRead(got)'
    BY <1>2, <2>1, PokedRead DEF Recorded
  <2>3. Recorded(got)'
    BY <1>1, <2>1, <2>2 DEF Recorded
  <2> QED
    BY <2>3 DEF RecordedOK
<1>6. ReaderSorts' /\ StageOK' /\ TakenOK'
  BY <1>1 DEF ReadInv, ReaderSorts, StageOK, TakenOK
<1> QED
  BY <1>3, <1>4, <1>5, <1>6 DEF ReadInv

LEMMA ReaderStutterInv ==
  ASSUME ReadInv, UNCHANGED readerVars
  PROVE  ReadInv'
<1>1. /\ mem' = mem /\ at' = at /\ call' = call /\ reader' = reader
      /\ recorded' = recorded /\ taken' = taken /\ poked' = poked
  BY DEF readerVars
<1>2. PICK got \in Seq(Values) : got = reader.got
  BY DEF ReadInv, ReaderSorts, SortsOf
<1>3. PICK f, r : f = Field /\ r = reader
  OBVIOUS
<1>4. Field' = f
  BY <1>1, <1>3 DEF Field
<1>5. EntryOK'
  <2>1. FieldsRead(got)' = FieldsRead(got) /\ FieldBegun(f, r)' = FieldBegun(f, r)
    BY <1>1, SameRead, SameFields
  <2> QED
    BY <1>1, <1>2, <1>3, <1>4, <2>1 DEF ReadInv, EntryOK, Reading
<1>6. RecordedOK'
  <2>1. \A g : Recorded(g)' = Recorded(g)
    BY <1>1, SameRead DEF Recorded
  <2> QED
    BY <1>1, <2>1 DEF ReadInv, RecordedOK
<1>7. TakenOK'
  BY <1>1, SameTaken DEF ReadInv, TakenOK
<1>8. MemoryOK' /\ ReaderSorts' /\ StageOK'
  BY <1>1 DEF ReadInv, MemoryOK, ReaderSorts, StageOK
<1> QED
  BY <1>5, <1>6, <1>7, <1>8 DEF ReadInv

THEOREM ReadInvHolds == ReaderSpec => []ReadInv
<1>1. ReaderInit => ReadInv
  BY ReaderInitInv
<1>2. ReadInv /\ [ReaderNext]_readerVars => ReadInv'
  <2> SUFFICES ASSUME ReadInv, [ReaderNext]_readerVars PROVE ReadInv'
    OBVIOUS
  <2>1. CASE read_child_string
    BY <2>1, ReadString, ReadItem
  <2>2. CASE read_child_string_vector
    BY <2>2, ReadPointer
  <2>3. CASE read_child_bytes
    BY <2>3, ReadBytes
  <2>4. CASE record
    BY <2>4, RecordEvent
  <2>5. ASSUME NEW c \in Requests, Syscall(c) PROVE ReadInv'
    BY <2>5, SyscallInv
  <2>6. CASE Copy
    BY <2>6, CopyInv
  <2>7. ASSUME NEW p \in Pokes, Poke(p[1], p[2]) PROVE ReadInv'
    BY <2>7, PokeInv
  <2>8. CASE UNCHANGED readerVars
    BY <2>8, ReaderStutterInv
  <2> QED
    BY <2>1, <2>2, <2>3, <2>4, <2>5, <2>6, <2>7, <2>8 DEF ReaderNext, Tracer
<1> QED
  BY <1>1, <1>2, PTL DEF ReaderSpec

-----------------------------------------------------------------------------
(* What follows.                                                           *)

\* The reading of a field stays within what is to be read of it.
THEOREM ReadingStaysInBounds == ReaderSpec => []ReaderTypeOK
<1>1. ReadInv => ReaderTypeOK
  <2> SUFFICES ASSUME ReadInv PROVE ReaderTypeOK
    OBVIOUS
  <2>1. at \in {"user", "entry", "kernel", "done"}
    BY DEF ReadInv, StageOK
  <2>2. ASSUME Reading
        PROVE  /\ Field.kind = "bytes" =>
                    reader.off < Field.size + Word /\ Len(reader.text) <= Field.size
               /\ Field.kind # "bytes" => reader.off <= MaxString /\ Len(reader.text) = reader.off
               /\ Field.kind = "vector" => Len(reader.items) <= Field.size
               /\ Field.kind # "vector" => reader.items = << >> /\ reader.ptr = 0
    <3>1. FieldTypeOK(Field, reader) /\ Field.size \in Nat /\ reader.off \in Nat
      BY <2>2, TheField DEF Fields, ReadInv, ReaderSorts, SortsOf
    <3>2. Least(reader.off, Field.size) <= Field.size
      BY <3>1 DEF Least
    <3> QED
      BY <3>1, <3>2 DEF FieldTypeOK
  <2> QED
    BY <2>1, <2>2 DEF ReaderTypeOK
<1> QED
  BY <1>1, ReadInvHolds, PTL

LEMMA Done ==
  ASSUME ReadInv, at = "done"
  PROVE  /\ call \in Requests /\ taken = Taken /\ MemoryOK
         /\ \A i \in 0 .. 5 : call.args[i] \in Nat
         /\ \E got \in Seq(Values) : Recorded(got)
<1>1. call \in Requests
  BY DEF ReadInv, StageOK
<1> QED
  BY <1>1, Registers DEF ReadInv, TakenOK, RecordedOK

\* Where all words are mapped, all bytes are.
LEMMA MappedBytes ==
  ASSUME NEW a \in Nat, NEW n \in Nat, WordsMapped(a, n), NEW k \in 0 .. n - 1
  PROVE  Byte(a + k) # Hole
<1> USE WordSize
<1>1. PICK q \in Nat, r \in 0 .. Word - 1 : k = (Word * q) + r
  <2>1. (k \div Word) \in Nat /\ (k % Word) \in 0 .. Word - 1 /\ k = (Word * (k \div Word)) + (k % Word)
    OBVIOUS
  <2> QED
    BY <2>1
<1>2. PICK m \in 0 .. n - 1 : m = Word * q /\ m % Word = 0 /\ k = m + r
  <2>1. Word * q \in Nat /\ Word * q <= k
    BY <1>1
  <2> QED
    BY <1>1, <2>1, IsMultiple
<1>3. read_child_word(a + m)
  BY <1>2 DEF WordsMapped
<1>4. a + m + r = a + k
  BY <1>2
<1> QED
  BY <1>3, <1>4 DEF read_child_word

LEMMA KernelBytesAre ==
  ASSUME MemoryOK, NEW a \in Nat, NEW n \in Nat, KernelBytes(a, n) # Failed
  PROVE  /\ KernelBytes(a, n) \in Texts /\ Len(KernelBytes(a, n)) = n
         /\ \A i \in 1 .. n : KernelBytes(a, n)[i] = Byte(a + i - 1)
<1>1. \A k \in 0 .. n - 1 : Byte(a + k) # Hole
  BY DEF KernelBytes
<1>2. KernelBytes(a, n) = [i \in 1 .. n |-> Byte(a + i - 1)]
  BY <1>1 DEF KernelBytes
<1>3. \A i \in 1 .. n : Byte(a + i - 1) \in Bytes
  <2> TAKE i \in 1 .. n
  <2>1. i - 1 \in 0 .. n - 1 /\ a + (i - 1) = a + i - 1
    OBVIOUS
  <2> QED
    BY <1>1, <2>1, BytesOfMemory
<1> QED
  BY <1>2, <1>3 DEF Texts

\* The event of a write has the buffer, of which the kernel wrote the beginning.
THEOREM WritesAreRead == ReaderSpec => []WriteRead
<1>1. ReadInv => WriteRead
  <2> SUFFICES ASSUME ReadInv, Quiet, call.name \in WriteCalls
               PROVE  IF WordsMapped(call.args[1], call.args[2])
                      THEN Len(recorded[1]) = call.args[2] /\ SubSeq(recorded[1], 1, Len(taken)) = taken
                      ELSE recorded = NoArgs
    BY DEF WriteRead
  <2>1. at = "done" /\ taken # Failed /\ poked = {}
    BY DEF Quiet
  <2>2. PICK a \in Nat, n \in Nat : a = call.args[1] /\ n = call.args[2]
    BY <2>1, Done
  <2>3. PICK got \in Seq(Values) : Recorded(got)
    BY <2>1, Done
  <2>4. Reads(call, got) = <<Raw(a, n)>>
    BY <2>2, ReadsWrite
  <2>5. PICK v : got = <<v>> /\ BytesAre(v, a, n)
    <3>1. Len(got) = 1
      BY <2>3, <2>4 DEF Recorded
    <3>2. got = <<got[1]>>
      BY <3>1
    <3>3. FieldRead(Raw(a, n), got[1])
      BY <2>3, <2>4, <3>1 DEF Recorded, FieldsRead
    <3> QED
      BY <3>2, <3>3 DEF FieldRead, Raw
  <2>6. recorded = IF v = Failed THEN NoArgs ELSE <<v>>
    <3>1. recorded = PathData(got)
      BY <2>3, PathCallNames DEF Recorded, EventArgs, WriteCalls, PathCalls, PlainCalls
    <3> QED
      BY <2>5, <3>1 DEF PathData
  <2>7. CASE ~WordsMapped(a, n)
    BY <2>2, <2>5, <2>6, <2>7 DEF BytesAre
  <2>8. CASE WordsMapped(a, n)
    <3>1. v \in Texts /\ v # Failed /\ Len(v) = n /\ \A j \in 1 .. n : v[j] = Byte(a + j - 1)
      BY <2>1, <2>5, <2>8, NotFailed DEF BytesAre
    <3>2. taken = KernelWrite(a, n)
      BY <2>1, <2>2, Done, PathCallNames DEF Taken, WriteCalls, PathCalls
    <3> DEFINE mapped == {k \in 0 .. n : \A j \in 0 .. k - 1 : Byte(a + j) # Hole}
    <3>3. mapped \subseteq 0 .. n /\ 0 \in mapped
      OBVIOUS
    <3>4. Max(mapped) \in mapped
      BY <3>3, MaxIsGreatest
    <3>5. PICK m \in 0 .. n : m = Max(mapped)
      BY <3>3, <3>4
    <3>6. taken = KernelBytes(a, m)
      BY <2>1, <3>2, <3>5 DEF KernelWrite
    <3>7. taken \in Texts /\ Len(taken) = m /\ \A i \in 1 .. m : taken[i] = Byte(a + i - 1)
      BY <2>1, <3>6, Done, KernelBytesAre
    <3>8. SubSeq(v, 1, m) = taken
      <4>1. \A i \in 1 .. m : v[i] \in Bytes /\ i \in 1 .. n
        BY <3>1, <3>5, TextShape
      <4>2. /\ SubSeq(v, 1, m) \in Seq(Bytes) /\ Len(SubSeq(v, 1, m)) = m
            /\ \A i \in 1 .. m : SubSeq(v, 1, m)[i] = v[i]
        BY <4>1, SubSeqProperties
      <4>3. \A i \in 1 .. m : SubSeq(v, 1, m)[i] = taken[i]
        BY <3>1, <3>7, <4>1, <4>2
      <4> QED
        BY <3>7, <4>2, <4>3, SeqEqual DEF Texts
    <3>9. recorded = <<v>>
      BY <2>6, <3>1
    <3> QED
      BY <2>2, <2>8, <3>1, <3>7, <3>8, <3>9
  <2> QED
    BY <2>2, <2>7, <2>8
<1> QED
  BY <1>1, ReadInvHolds, PTL

-----------------------------------------------------------------------------
(* Strings: what the tracer reads against what the kernel takes.           *)

LEMMA KernelStringIs ==
  ASSUME MemoryOK, NEW a \in Nat, NEW limit \in Nat, KernelString(a, limit) # Failed
  PROVE  \E m \in 0 .. limit - 1 :
           /\ KernelString(a, limit) \in Texts /\ Len(KernelString(a, limit)) = m
           /\ \A i \in 1 .. m : KernelString(a, limit)[i] = Byte(a + i - 1)
           /\ Byte(a + m) = 0 /\ \A k \in 0 .. m - 1 : Byte(a + k) # 0
<1> DEFINE nuls == {k \in 0 .. limit - 1 : Byte(a + k) = 0}
<1>1. nuls # {} /\ ~\E k \in 0 .. Min(nuls) : Byte(a + k) = Hole
  BY DEF KernelString
<1>2. nuls \subseteq Nat
  OBVIOUS
<1>3. Min(nuls) \in nuls /\ \A k \in nuls : Min(nuls) <= k
  BY <1>1, <1>2, MinIsLeast
<1>4. PICK m \in 0 .. limit - 1 : m = Min(nuls) /\ Byte(a + m) = 0
  BY <1>3
<1>5. KernelString(a, limit) = [i \in 1 .. m |-> Byte(a + i - 1)]
  BY <1>1, <1>4 DEF KernelString
<1>6. \A k \in 0 .. m - 1 : Byte(a + k) # 0
  BY <1>3, <1>4
<1>7. \A i \in 1 .. m : Byte(a + i - 1) \in Bytes
  <2> TAKE i \in 1 .. m
  <2>1. i - 1 \in 0 .. m /\ a + (i - 1) = a + i - 1
    OBVIOUS
  <2>2. Byte(a + (i - 1)) # Hole
    BY <1>1, <1>4, <2>1
  <2> QED
    BY <2>1, <2>2, BytesOfMemory
<1>8. /\ KernelString(a, limit) \in Texts /\ Len(KernelString(a, limit)) = m
      /\ \A i \in 1 .. m : KernelString(a, limit)[i] = Byte(a + i - 1)
  BY <1>4, <1>5, <1>7 DEF Texts
<1> QED
  BY <1>4, <1>6, <1>8

\* If no one wrote to a string that the kernel takes, it was read, or failed
\* for its length or the word it ends in.
LEMMA StringsMatch ==
  ASSUME MemoryOK, NEW a \in Nat, NEW limit \in Nat,
         NEW s, s = KernelString(a, limit), s # Failed,
         NEW v, StringRead(v, a), \A k \in 0 .. Len(s) : a + k \notin poked
  PROVE  /\ s \in Texts /\ Len(s) < limit
         /\ v = IF Len(s) < MaxString /\ WordsMapped(a, Len(s) + 1) THEN s ELSE Failed
<1>1. PICK m \in 0 .. limit - 1 :
           /\ s \in Texts /\ Len(s) = m
           /\ \A i \in 1 .. m : s[i] = Byte(a + i - 1)
           /\ Byte(a + m) = 0 /\ \A k \in 0 .. m - 1 : Byte(a + k) # 0
  <2>1. KernelString(a, limit) # Failed
    OBVIOUS
  <2>2. PICK m \in 0 .. limit - 1 :
           /\ KernelString(a, limit) \in Texts /\ Len(KernelString(a, limit)) = m
           /\ \A i \in 1 .. m : KernelString(a, limit)[i] = Byte(a + i - 1)
           /\ Byte(a + m) = 0 /\ \A k \in 0 .. m - 1 : Byte(a + k) # 0
    BY <2>1, KernelStringIs
  <2> QED
    BY <2>2
<1>2. CASE v = Failed /\ \E k \in 0 .. MaxString :
             /\ k % Word = 0 /\ (k = MaxString \/ ~read_child_word(a + k))
             /\ \A j \in 0 .. k - 1 : a + j \notin poked => Byte(a + j) # 0
  <2>1. PICK k \in 0 .. MaxString :
             /\ k % Word = 0 /\ (k = MaxString \/ ~read_child_word(a + k))
             /\ \A j \in 0 .. k - 1 : a + j \notin poked => Byte(a + j) # 0
    BY <1>2
  <2>2. k <= m
    <3> SUFFICES ASSUME m < k PROVE FALSE
      BY <1>1, <2>1, WordSize
    <3>1. m \in 0 .. k - 1 /\ a + m \notin poked
      BY <1>1, <2>1, WordSize
    <3> QED
      BY <1>1, <2>1, <3>1
  <2>3. ~(m < MaxString /\ WordsMapped(a, m + 1))
    <3>1. CASE k = MaxString
      BY <2>2, <3>1, WordSize
    <3>2. CASE ~read_child_word(a + k)
      <4>1. k \in 0 .. (m + 1) - 1
        BY <2>1, <2>2, WordSize
      <4> QED
        BY <2>1, <3>2, <4>1 DEF WordsMapped
    <3> QED
      BY <2>1, <3>1, <3>2
  <2> QED
    BY <1>1, <1>2, <2>3
<1>3. CASE /\ v \in Texts /\ Len(v) < MaxString /\ WordsMapped(a, Len(v) + 1)
           /\ \A j \in 1 .. Len(v) : v[j] # 0 /\ (a + j - 1 \notin poked => v[j] = Byte(a + j - 1))
           /\ a + Len(v) \notin poked => Byte(a + Len(v)) = 0
  <2>1. Len(v) \in Nat
    BY <1>3, TextShape
  <2>2. ~(Len(v) < m)
    <3> SUFFICES ASSUME Len(v) < m PROVE FALSE
      OBVIOUS
    <3>1. Len(v) \in 0 .. m - 1 /\ a + Len(v) \notin poked
      BY <1>1, <2>1
    <3> QED
      BY <1>1, <1>3, <3>1
  <2>3. ~(Len(v) > m)
    <3> SUFFICES ASSUME Len(v) > m PROVE FALSE
      OBVIOUS
    <3>1. m + 1 \in 1 .. Len(v) /\ a + (m + 1) - 1 = a + m /\ a + m \notin poked
      BY <1>1, <2>1
    <3>2. v[m + 1] # 0 /\ v[m + 1] = Byte(a + m)
      BY <1>3, <3>1
    <3> QED
      BY <1>1, <3>2
  <2>4. Len(v) = m
    BY <1>1, <2>1, <2>2, <2>3
  <2>5. \A i \in 1 .. m : v[i] = s[i]
    <3> TAKE i \in 1 .. m
    <3>1. i - 1 \in 0 .. m /\ a + (i - 1) = a + i - 1
      OBVIOUS
    <3>2. a + i - 1 \notin poked
      BY <1>1, <3>1
    <3> QED
      BY <1>1, <1>3, <2>4, <3>2
  <2>6. v = s
    BY <1>1, <1>3, <2>4, <2>5, SeqEqual DEF Texts
  <2> QED
    BY <1>1, <1>3, <2>4, <2>6
<1> QED
  BY <1>1, <1>2, <1>3 DEF StringRead

\* The paths of an event are those the kernel takes, if no thread wrote to them.
THEOREM PathsAreRead == ReaderSpec => []PathsRead
<1>1. ReadInv => PathsRead
  <2> DEFINE from(i) == call.args[PathArguments(call.name)[i]]
             range(i) == from(i) .. from(i) + Len(taken[i])
  <2> SUFFICES ASSUME ReadInv, at = "done", taken # Failed, call.name \in PathCalls,
                      \A i \in DOMAIN taken : range(i) \cap poked = {}
               PROVE  recorded = IF \A i \in DOMAIN taken : WordsMapped(from(i), Len(taken[i]) + 1)
                                 THEN taken ELSE NoArgs
    BY DEF PathsRead
  <2>1. call \in Requests /\ MemoryOK
    BY Done
  <2>2. PICK got \in Seq(Values) : Recorded(got)
    BY Done
  <2>3. PICK n \in Nat : /\ n = Len(PathArguments(call.name)) /\ DOMAIN PathArguments(call.name) = 1 .. n
                         /\ \A i \in 1 .. n : from(i) \in Nat
    <3>1. \A i \in 0 .. 5 : call.args[i] \in Nat
      BY Done
    <3> QED
      BY <3>1, PathArgumentsSeq
  <2>4. taken = KernelPaths /\ AllTaken(KernelPaths)
    <3>1. taken = IF AllTaken(KernelPaths) THEN KernelPaths ELSE Failed
      BY Done, CallKinds DEF Taken
    <3> QED
      BY <3>1
  <2>5. /\ DOMAIN taken = 1 .. n /\ taken = [i \in 1 .. n |-> taken[i]]
        /\ \A i \in 1 .. n : taken[i] = KernelString(from(i), MaxString) /\ taken[i] # Failed
    BY <2>3, <2>4 DEF KernelPaths, AllTaken
  <2>6. DOMAIN got = 1 .. n /\ got = [i \in 1 .. n |-> got[i]]
    <3>1. Len(got) = n
      BY <2>1, <2>2, <2>3, ReadsPaths DEF Recorded
    <3> QED
      BY <3>1
  <2>7. ASSUME NEW i \in 1 .. n
        PROVE  got[i] = IF WordsMapped(from(i), Len(taken[i]) + 1) THEN taken[i] ELSE Failed
    <3>1. Len(got) = n /\ Reads(call, got)[i] = Str(from(i)) /\ i \in 1 .. Len(got)
      BY <2>1, <2>2, <2>3, ReadsPaths DEF Recorded
    <3>2. FieldRead(Str(from(i)), got[i])
      BY <2>2, <3>1 DEF Recorded, FieldsRead
    <3>3. PICK a \in Nat : a = from(i)
      BY <2>3
    <3>4. PICK v, s : v = got[i] /\ s = taken[i]
      OBVIOUS
    <3>5. StringRead(v, a)
      BY <3>2, <3>3, <3>4 DEF FieldRead, Str
    <3>6. s = KernelString(a, MaxString) /\ s # Failed
      BY <2>5, <3>3, <3>4
    <3>7. s \in Texts /\ Len(s) \in Nat
      BY <2>1, <3>6, WordSize, KernelStringIs, TextShape
    <3>8. (a .. a + Len(s)) \cap poked = {}
      BY <2>5, <3>3, <3>4
    <3>9. \A k \in 0 .. Len(s) : a + k \notin poked
      <4> TAKE k \in 0 .. Len(s)
      <4>1. a + k \in a .. a + Len(s)
        BY <3>7
      <4> QED
        BY <3>8, <4>1
    <3>10. /\ Len(s) < MaxString
           /\ v = IF Len(s) < MaxString /\ WordsMapped(a, Len(s) + 1) THEN s ELSE Failed
      BY <2>1, <3>5, <3>6, <3>9, WordSize, StringsMatch
    <3> QED
      BY <3>3, <3>4, <3>10
  <2>8. recorded = IF \E i \in 1 .. n : got[i] = Failed THEN NoArgs ELSE got
    <3>1. recorded = EventArgs(call, got)
      BY <2>2 DEF Recorded
    <3>2. recorded = PathData(got)
      BY <3>1, PathCallNames DEF EventArgs, PathCalls, WriteCalls, PlainCalls
    <3> QED
      BY <2>6, <3>2 DEF PathData
  <2> HIDE DEF from, range
  <2>9. CASE \A i \in 1 .. n : WordsMapped(from(i), Len(taken[i]) + 1)
    <3>1. \A i \in 1 .. n : got[i] = taken[i] /\ got[i] # Failed
      BY <2>5, <2>7, <2>9
    <3>2. got = taken
      BY <2>5, <2>6, <3>1
    <3> QED
      BY <2>5, <2>8, <2>9, <3>1, <3>2
  <2>10. CASE ~\A i \in 1 .. n : WordsMapped(from(i), Len(taken[i]) + 1)
    BY <2>5, <2>7, <2>8, <2>10
  <2> QED
    BY <2>9, <2>10
<1> QED
  BY <1>1, ReadInvHolds, PTL

-----------------------------------------------------------------------------
(* Vectors: what the tracer reads against what the kernel takes.           *)

\* A vector ends: there are more indices than mapped bytes.
LEMMA VectorEnds ==
  ASSUME MemoryOK, NEW a \in Nat
  PROVE  \E m \in Nat : /\ m = Min(Ends(a)) /\ \A i \in 0 .. m - 1 : HasString(a, i)
                        /\ ~HasString(a, m)
<1> USE WordSize
<1>1. PICK c \in Nat : c = Cardinality(DOMAIN mem)
  BY FS_CardinalityType DEF MemoryOK
<1>2. Ends(a) # {}
  <2> SUFFICES ASSUME Ends(a) = {} PROVE FALSE
    OBVIOUS
  <2> DEFINE f == [i \in 0 .. c |-> a + (i * Word)]
  <2>1. ASSUME NEW i \in 0 .. c PROVE a + (i * Word) \in DOMAIN mem
    <3>1. PointerMapped(a, i)
      BY <1>1 DEF Ends
    <3>2. PICK x \in Nat : x = a + (i * Word)
      BY <1>1
    <3>3. read_child_word(x)
      BY <3>1, <3>2 DEF PointerMapped
    <3>4. 0 \in 0 .. Word - 1 /\ x + 0 = x
      BY <3>2
    <3>5. Byte(x) # Hole
      BY <3>3, <3>4 DEF read_child_word
    <3> QED
      BY <3>2, <3>5 DEF Byte
  <2>2. f \in [0 .. c -> DOMAIN mem]
    BY <2>1
  <2>3. IsFiniteSet(0 .. c) /\ Cardinality(0 .. c) = c + 1
    BY <1>1, FS_Interval
  <2>4. PICK i \in 0 .. c, j \in 0 .. c : i # j /\ f[i] = f[j]
    <3> HIDE DEF f
    <3>1. IsFiniteSet(DOMAIN mem) /\ Cardinality(DOMAIN mem) < Cardinality(0 .. c)
      BY <1>1, <2>3 DEF MemoryOK
    <3> QED
      BY <2>2, <2>3, <3>1, FS_PigeonHole
  <2>5. i * Word = j * Word
    BY <2>4
  <2> QED
    BY <2>4, <2>5
<1>3. Ends(a) \subseteq Nat
  BY <1>1 DEF Ends
<1>4. PICK m \in Nat : m = Min(Ends(a)) /\ m \in Ends(a) /\ \A i \in Ends(a) : m <= i
  BY <1>2, <1>3, MinIsLeast
<1>5. \A i \in 0 .. m - 1 : HasString(a, i)
  <2> TAKE i \in 0 .. m - 1
  <2>1. i \in 0 .. Cardinality(DOMAIN mem) /\ i \notin Ends(a)
    BY <1>1, <1>4 DEF Ends
  <2> QED
    BY <2>1 DEF Ends, HasString
<1> QED
  BY <1>4, <1>5 DEF Ends, HasString

\* The n-th string of a vector, if it could be read.
LEMMA ItemsMatch ==
  ASSUME MemoryOK, poked = {}, NEW a \in Nat, NEW i \in Nat, HasString(a, i),
         NEW s, s = KernelString(Pointer(a, i), MaxArg), s # Failed,
         NEW v, StringRead(v, Pointer(a, i))
  PROVE  /\ s \in Texts
         /\ v = IF Len(s) < MaxString /\ WordsMapped(Pointer(a, i), Len(s) + 1) THEN s ELSE Failed
<1>1. PICK p \in Nat : p = Pointer(a, i)
  BY PointerIsNat DEF HasString, PointerMapped, Pointer
<1>2. \A k \in 0 .. Len(s) : p + k \notin poked
  OBVIOUS
<1>3. MaxArg \in Nat
  BY SizeAssumption
<1> QED
  BY <1>1, <1>2, <1>3, StringsMatch

LEMMA VectorsMatch ==
  ASSUME MemoryOK, poked = {}, NEW a \in Nat, NEW limit \in Nat,
         NEW strings, strings = KernelVector(a), strings # Failed,
         NEW v, VectorIs(v, a, limit)
  PROVE  value_or_empty(v) = VectorRead(strings, a, limit)
<1>1. CASE a = 0
  <2>1. strings = << >>
    BY <1>1, KernelVectorIs DEF VectorTaken
  <2>2. v = << >>
    BY <1>1 DEF VectorIs
  <2>3. Least(limit, Len(strings)) = 0
    BY <2>1 DEF Least
  <2>4. SubSeq(strings, 1, Least(limit, Len(strings))) = << >>
    BY <2>1, <2>3
  <2> QED
    BY <2>2, <2>4 DEF VectorRead, value_or_empty
<1>2. CASE a # 0
  <2>1. PICK m \in Nat : /\ m = Min(Ends(a)) /\ ~HasString(a, m)
                         /\ \A i \in 0 .. m - 1 : HasString(a, i)
    BY VectorEnds
  <2>2. /\ PointerMapped(a, m)
        /\ \A i \in 0 .. m - 1 : KernelString(Pointer(a, i), MaxArg) # Failed
        /\ strings = [i \in 1 .. m |-> KernelString(Pointer(a, i - 1), MaxArg)]
    BY <1>2, <2>1, KernelVectorIs DEF VectorTaken
  <2>3. ASSUME NEW i \in 1 .. m
        PROVE  /\ i - 1 \in 0 .. m - 1 /\ HasString(a, i - 1)
               /\ strings[i] = KernelString(Pointer(a, i - 1), MaxArg) /\ strings[i] # Failed
               /\ strings[i] \in Texts
    <3>1. /\ i - 1 \in 0 .. m - 1 /\ HasString(a, i - 1)
          /\ strings[i] = KernelString(Pointer(a, i - 1), MaxArg) /\ strings[i] # Failed
      BY <2>1, <2>2
    <3>2. Pointer(a, i - 1) \in Nat /\ MaxArg \in Nat
      BY <3>1, PointerIsNat, SizeAssumption DEF HasString, PointerMapped, Pointer
    <3>3. KernelString(Pointer(a, i - 1), MaxArg) \in Texts
      BY <3>1, <3>2, KernelStringIs
    <3> QED
      BY <3>1, <3>3
  <2>4. PICK n \in 0 .. m : n = Least(limit, m) /\ n <= limit /\ (n = m \/ n = limit)
    BY DEF Least
  <2>5. Len(strings) = m
    BY <2>2
  <2>6. PICK first \in Seq(Texts) : /\ first = SubSeq(strings, 1, Least(limit, Len(strings)))
                                    /\ Len(first) = n /\ \A i \in 1 .. n : first[i] = strings[i]
    <3>1. \A i \in 1 .. n : strings[i] \in Texts
      BY <2>3
    <3>2. Least(limit, Len(strings)) = n
      BY <2>4, <2>5
    <3>3. /\ SubSeq(strings, 1, n) \in Seq(Texts) /\ Len(SubSeq(strings, 1, n)) = n
          /\ \A i \in 1 .. n : SubSeq(strings, 1, n)[i] = strings[i]
      BY <2>4, <3>1, SubSeqProperties
    <3> QED
      BY <3>2, <3>3
  <2> DEFINE readable(i) ==
        Len(first[i]) < MaxString /\ WordsMapped(Pointer(a, i - 1), Len(first[i]) + 1)
  <2>7. VectorRead(strings, a, limit) = IF \A i \in 1 .. n : readable(i) THEN first ELSE << >>
    <3>1. DOMAIN first = 1 .. n
      BY <2>6
    <3> QED
      BY <2>6, <3>1 DEF VectorRead, Pointer
  <2>8. ASSUME NEW i \in 1 .. n, NEW w, StringRead(w, Pointer(a, i - 1))
        PROVE  w = IF readable(i) THEN first[i] ELSE Failed
    <3>1. i \in 1 .. m /\ i - 1 \in Nat
      BY <2>4
    <3>2. PICK s : s = first[i]
      OBVIOUS
    <3>3. s = KernelString(Pointer(a, i - 1), MaxArg) /\ s # Failed /\ HasString(a, i - 1)
      BY <2>3, <2>6, <3>1, <3>2
    <3>4. w = IF Len(s) < MaxString /\ WordsMapped(Pointer(a, i - 1), Len(s) + 1) THEN s ELSE Failed
      BY <2>8, <3>1, <3>3, ItemsMatch
    <3> QED
      BY <3>2, <3>4
  <2> HIDE DEF readable
  <2>9. ASSUME v = Failed, NEW k \in 0 .. limit - 1, \A i \in 0 .. k - 1 : HasString(a, i),
               \/ ~PointerMapped(a, k)
               \/ HasString(a, k) /\ StringRead(Failed, Pointer(a, k))
        PROVE  value_or_empty(v) = VectorRead(strings, a, limit)
    <3>1. ~(m < k)
      BY <2>1, <2>9
    <3>2. ~(k < m) \/ HasString(a, k)
      BY <2>1
    <3>3. k < m /\ HasString(a, k) /\ StringRead(Failed, Pointer(a, k))
      <4>1. k # m
        BY <2>1, <2>2, <2>9
      <4> QED
        BY <2>1, <2>9, <3>1, <3>2, <4>1 DEF HasString
    <3>4. PICK i \in 1 .. n : i = k + 1 /\ i - 1 = k
      BY <2>4, <3>3
    <3>5. Failed = IF readable(i) THEN first[i] ELSE Failed
      BY <2>8, <3>3, <3>4
    <3>6. first[i] # Failed
      BY <2>6, <2>3, <2>4
    <3>7. ~readable(i)
      BY <3>5, <3>6
    <3> QED
      BY <2>7, <2>9, <3>7 DEF value_or_empty
  <2>10. ASSUME v \in Seq(Texts), Len(v) <= limit, ItemsRead(v, a),
                Len(v) = limit \/ (PointerMapped(a, Len(v)) /\ Pointer(a, Len(v)) = 0)
         PROVE  value_or_empty(v) = VectorRead(strings, a, limit)
    <3>1. Len(v) \in Nat /\ \A i \in 1 .. Len(v) : v[i] \in Texts
      BY <2>10
    <3>2. ~(m < Len(v))
      <4> SUFFICES ASSUME m < Len(v) PROVE FALSE
        OBVIOUS
      <4>1. m + 1 \in 1 .. Len(v) /\ (m + 1) - 1 = m
        BY <3>1
      <4> QED
        BY <2>1, <2>10, <4>1 DEF ItemsRead
    <3>3. Len(v) = limit \/ Len(v) = m
      <4> SUFFICES ASSUME Pointer(a, Len(v)) = 0 PROVE Len(v) = m
        BY <2>10
      <4>1. ~HasString(a, Len(v))
        BY DEF HasString
      <4> QED
        BY <2>1, <3>1, <3>2, <4>1
    <3>4. Len(v) = n
      BY <2>4, <2>10, <3>1, <3>2, <3>3 DEF Least
    <3>5. ASSUME NEW i \in 1 .. n PROVE readable(i) /\ v[i] = first[i]
      <4>1. PICK w \in Texts : w = v[i]
        BY <3>1, <3>4
      <4>2. StringRead(w, Pointer(a, i - 1))
        BY <2>10, <3>4, <4>1 DEF ItemsRead
      <4>3. w = IF readable(i) THEN first[i] ELSE Failed
        BY <2>8, <4>2
      <4>4. w # Failed
        BY <4>1, NotFailed
      <4> QED
        BY <4>1, <4>3, <4>4
    <3>6. v = first
      BY <2>6, <2>10, <3>4, <3>5, SeqEqual
    <3>7. v # Failed
      BY <2>10, NotFailed
    <3> QED
      BY <2>7, <3>5, <3>6, <3>7 DEF value_or_empty
  <2> QED
    BY <1>2, <2>9, <2>10 DEF VectorIs
<1> QED
  BY <1>1, <1>2

\* The event of an execve has the file name, and what is read of argv and envp.
THEOREM ArgvIsRead == ReaderSpec => []ArgvRead
<1>1. ReadInv => ArgvRead
  <2> SUFFICES ASSUME ReadInv, Quiet, call.name = "execve"
               PROVE  recorded = IF WordsMapped(call.args[0], Len(taken.filename) + 1)
                                 THEN [filename |-> taken.filename,
                                       argv |-> VectorRead(taken.argv, call.args[1], MaxArgv),
                                       envp |-> VectorRead(taken.envp, call.args[2], MaxEnvp)]
                                 ELSE NoArgs
    BY DEF ArgvRead
  <2>1. at = "done" /\ taken # Failed /\ poked = {} /\ MemoryOK
    BY Done DEF Quiet
  <2>2. PICK a0 \in Nat, a1 \in Nat, a2 \in Nat :
               a0 = call.args[0] /\ a1 = call.args[1] /\ a2 = call.args[2]
    BY <2>1, Done
  <2>3. PICK got \in Seq(Values) : Recorded(got)
    BY <2>1, Done
  <2>4. Reads(call, got) = <<Str(a0), Vec(a1, MaxArgv), Vec(a2, MaxEnvp)>>
    BY <2>2, ReadsExecve
  <2>5. PICK v0, v1, v2 : /\ v0 = got[1] /\ v1 = got[2] /\ v2 = got[3]
                          /\ StringRead(v0, a0) /\ VectorIs(v1, a1, MaxArgv)
                          /\ VectorIs(v2, a2, MaxEnvp)
    <3>1. Len(got) = 3
      BY <2>3, <2>4 DEF Recorded
    <3>2. /\ FieldRead(Str(a0), got[1]) /\ FieldRead(Vec(a1, MaxArgv), got[2])
          /\ FieldRead(Vec(a2, MaxEnvp), got[3])
      BY <2>3, <2>4, <3>1 DEF Recorded, FieldsRead
    <3> QED
      BY <2>1, <3>2 DEF FieldRead, Str, Vec
  <2>6. taken = KernelExecve /\ AllTaken(KernelExecve)
    <3>1. taken = IF AllTaken(KernelExecve) THEN KernelExecve ELSE Failed
      BY <2>1, Done, PathCallNames DEF Taken, PathCalls, WriteCalls
    <3> QED
      BY <2>1, <3>1
  <2>7. PICK s0, s1, s2 :
             /\ s0 = taken.filename /\ s1 = taken.argv /\ s2 = taken.envp
             /\ s0 = KernelString(a0, MaxString) /\ s1 = KernelVector(a1) /\ s2 = KernelVector(a2)
             /\ s0 # Failed /\ s1 # Failed /\ s2 # Failed
    BY <2>2, <2>6 DEF KernelExecve, AllTaken
  <2>8. /\ Len(s0) < MaxString
        /\ v0 = IF Len(s0) < MaxString /\ WordsMapped(a0, Len(s0) + 1) THEN s0 ELSE Failed
    <3>1. \A k \in 0 .. Len(s0) : a0 + k \notin poked
      BY <2>1
    <3>2. s0 = KernelString(a0, MaxString) /\ s0 # Failed /\ StringRead(v0, a0)
      BY <2>5, <2>7
    <3> QED
      BY <2>1, <3>1, <3>2, WordSize, StringsMatch
  <2>9. /\ value_or_empty(v1) = VectorRead(s1, a1, MaxArgv)
        /\ value_or_empty(v2) = VectorRead(s2, a2, MaxEnvp)
    <3>1. MaxArgv \in Nat /\ MaxEnvp \in Nat
      BY SizeAssumption
    <3>2. value_or_empty(v1) = VectorRead(s1, a1, MaxArgv)
      BY <2>1, <2>5, <2>7, <3>1, VectorsMatch
    <3>3. value_or_empty(v2) = VectorRead(s2, a2, MaxEnvp)
      BY <2>1, <2>5, <2>7, <3>1, VectorsMatch
    <3> QED
      BY <3>2, <3>3
  <2>10. recorded = IF v0 = Failed THEN NoArgs
                    ELSE [filename |-> v0, argv |-> value_or_empty(v1), envp |-> value_or_empty(v2)]
    <3>1. recorded = ExecveData(got)
      BY <2>3, PathCallNames DEF Recorded, EventArgs, PathCalls, WriteCalls, PlainCalls
    <3> QED
      BY <2>5, <3>1 DEF ExecveData
  <2>11. (v0 = Failed) = ~WordsMapped(a0, Len(s0) + 1)
    BY <2>7, <2>8
  <2>12. WordsMapped(a0, Len(s0) + 1) => v0 = s0
    BY <2>8
  <2> QED
    BY <2>2, <2>7, <2>9, <2>10, <2>11, <2>12
<1> QED
  BY <1>1, ReadInvHolds, PTL

-----------------------------------------------------------------------------
(* Socket addresses: what the tracer reads against what the kernel takes.  *)

\* The first n bytes of a buffer that the kernel takes.
LEMMA BytesMatch ==
  ASSUME MemoryOK, poked = {}, NEW a \in Nat, NEW len \in Nat, NEW n \in 0 .. len,
         NEW t, t = KernelBytes(a, len), t # Failed, NEW v, BytesAre(v, a, n)
  PROVE  /\ t \in Texts /\ Len(t) = len /\ SubSeq(t, 1, n) \in Texts /\ Len(SubSeq(t, 1, n)) = n
         /\ v = IF WordsMapped(a, n) THEN SubSeq(t, 1, n) ELSE Failed
<1>1. t \in Texts /\ Len(t) = len /\ \A i \in 1 .. len : t[i] = Byte(a + i - 1)
  BY KernelBytesAre
<1>2. /\ SubSeq(t, 1, n) \in Seq(Bytes) /\ Len(SubSeq(t, 1, n)) = n
      /\ \A i \in 1 .. n : SubSeq(t, 1, n)[i] = t[i]
  <2>1. \A i \in 1 .. n : t[i] \in Bytes
    BY <1>1, TextShape
  <2> QED
    BY <2>1, SubSeqProperties
<1>3. CASE v = Failed /\ ~WordsMapped(a, n)
  BY <1>1, <1>2, <1>3 DEF Texts
<1>4. CASE /\ v \in Texts /\ Len(v) = n /\ WordsMapped(a, n)
           /\ \A j \in 1 .. n : v[j] = Byte(a + j - 1)
  <2>1. \A j \in 1 .. n : v[j] = SubSeq(t, 1, n)[j]
    <3> TAKE j \in 1 .. n
    <3>1. j \in 1 .. len
      OBVIOUS
    <3> QED
      BY <1>1, <1>2, <1>4, <3>1
  <2>2. v = SubSeq(t, 1, n)
    BY <1>2, <1>4, <2>1, SeqEqual DEF Texts
  <2> QED
    BY <1>1, <1>2, <1>4, <2>2 DEF Texts
<1> QED
  BY <1>3, <1>4 DEF BytesAre

LEMMA PartOfPrefix ==
  ASSUME NEW t \in Texts, NEW n \in 1 .. Len(t), NEW l \in 1 .. n, NEW h \in l .. n
  PROVE  SubSeq(SubSeq(t, 1, n), l, h) = SubSeq(t, l, h)
<1>1. Len(t) \in Nat /\ t \in Seq(Bytes)
  BY DEF Texts
<1>2. 1 \in 1 .. Len(t) /\ n - 1 + 1 = n /\ l \in 1 .. n - 1 + 1 /\ h \in 1 .. n - 1 + 1
  BY <1>1
<1>3. SubSeq(SubSeq(t, 1, n), l, h) = SubSeq(t, 1 + l - 1, 1 + h - 1)
  BY <1>1, <1>2, SubSeqOfSubSeq
<1>4. 1 + l - 1 = l /\ 1 + h - 1 = h
  OBVIOUS
<1> QED
  BY <1>3, <1>4

\* What the kernel has checked of an address that it takes.
LEMMA KernelConnectIs ==
  ASSUME NEW a \in Nat, NEW len \in Nat, NEW t, t = KernelConnect(a, len), t # Failed
  PROVE  /\ t = KernelBytes(a, len) /\ len >= FamilySize /\ len <= StorageSize
         /\ SubSeq(t, 1, FamilySize) = Inet => len >= InetSize
         /\ SubSeq(t, 1, FamilySize) = Inet6 => len >= Inet6Min
         /\ SubSeq(t, 1, FamilySize) = Unix => len <= UnixSize
<1>1. {FamilySize, StorageSize, InetSize, Inet6Min, UnixSize} \subseteq Nat
  BY SizeAssumption
<1> DEFINE bytes == KernelBytes(a, len)
<1>2. t = IF \/ len < FamilySize \/ len > StorageSize
             \/ bytes = Failed
             \/ SubSeq(bytes, 1, FamilySize) = Inet /\ len < InetSize
             \/ SubSeq(bytes, 1, FamilySize) = Inet6 /\ len < Inet6Min
             \/ SubSeq(bytes, 1, FamilySize) = Unix /\ (len = FamilySize \/ len > UnixSize)
          THEN Failed ELSE bytes
  BY Zenon DEF KernelConnect
<1> HIDE DEF bytes
<1>3. t = bytes
  BY <1>2
<1>4. /\ ~(len < FamilySize) /\ ~(len > StorageSize)
      /\ ~(SubSeq(t, 1, FamilySize) = Inet /\ len < InetSize)
      /\ ~(SubSeq(t, 1, FamilySize) = Inet6 /\ len < Inet6Min)
      /\ ~(SubSeq(t, 1, FamilySize) = Unix /\ len > UnixSize)
  BY <1>2, <1>3
<1> QED
  BY <1>1, <1>3, <1>4 DEF bytes

\* The detector's event of a connect.
LEMMA DetectorConnect ==
  ASSUME ReadInv, Quiet, call.name = "connect"
  PROVE  LET from == call.args[1]
             len == call.args[2]
             family == SubSeq(taken, 1, FamilySize)
             inet == CASE family = Inet -> InetAddress(taken)
                       [] family = Inet6 /\ len >= Inet6Size -> Inet6Address(taken)
                       [] OTHER -> << >>
         IN  recorded = IF WordsMapped(from, len) THEN [family |-> family, addr |-> inet]
                        ELSE NoArgs
<1>1. at = "done" /\ taken # Failed /\ poked = {} /\ MemoryOK
  BY Done DEF Quiet
<1>2. PICK a \in Nat, len \in Nat : a = call.args[1] /\ len = call.args[2]
  BY <1>1, Done
<1>3. PICK got \in Seq(Values) : Recorded(got)
  BY <1>1, Done
<1>4. PICK t : t = taken
  OBVIOUS
<1>5. t = KernelConnect(a, len) /\ t # Failed
  BY <1>1, <1>2, <1>4, Done, PathCallNames DEF Taken, PathCalls, WriteCalls
<1>6. /\ t = KernelBytes(a, len) /\ len >= FamilySize /\ len <= StorageSize
      /\ SubSeq(t, 1, FamilySize) = Inet => len >= InetSize
  BY <1>5, KernelConnectIs
<1>7. Least(len, StorageSize) = len
  BY <1>6, SizeAssumption DEF Least
<1>8. PICK v : v = got[1] /\ BytesAre(v, a, len)
  <2>1. Reads(call, got) = <<Raw(a, len)>>
    BY <1>2, <1>7, ReadsConnect
  <2>2. Len(got) = 1
    BY <1>3, <2>1 DEF Recorded
  <2>3. FieldRead(Raw(a, len), got[1])
    BY <1>3, <2>1, <2>2 DEF Recorded, FieldsRead
  <2> QED
    BY <2>3 DEF FieldRead, Raw
<1>9. t \in Texts /\ Len(t) = len /\ v = IF WordsMapped(a, len) THEN t ELSE Failed
  <2>1. len \in 0 .. len
    OBVIOUS
  <2>2. t \in Texts /\ Len(t) = len /\ v = IF WordsMapped(a, len) THEN SubSeq(t, 1, len) ELSE Failed
    <3>1. t = KernelBytes(a, len) /\ t # Failed /\ BytesAre(v, a, len)
      BY <1>5, <1>6, <1>8
    <3> QED
      BY <1>1, <2>1, <3>1, BytesMatch
  <2>3. SubSeq(t, 1, len) = t
    BY <2>2, SubSeqFull DEF Texts
  <2> QED
    BY <2>2, <2>3
<1>10. recorded = ConnectData(v)
  BY <1>3, <1>8, PathCallNames DEF Recorded, EventArgs, PathCalls, WriteCalls, PlainCalls
<1>11. CASE ~WordsMapped(a, len)
  <2>1. recorded = NoArgs
    BY <1>9, <1>10, <1>11 DEF ConnectData
  <2> QED
    BY <1>2, <1>11, <2>1
<1>12. CASE WordsMapped(a, len)
  <2>1. v = t /\ t # Failed /\ ~(Len(t) < FamilySize)
    BY <1>5, <1>6, <1>9, <1>12, SizeAssumption
  <2> DEFINE family == SubSeq(t, 1, FamilySize)
  <2>2. recorded =
          [family |-> family,
           addr |-> CASE family = Inet /\ len >= InetSize -> InetAddress(t)
                      [] family = Inet6 /\ len >= Inet6Size -> Inet6Address(t)
                      [] OTHER -> << >>]
    BY <1>9, <1>10, <2>1 DEF ConnectData
  <2>3. Inet # Inet6
    BY ValueAssumption
  <2> HIDE DEF family
  <2>4. CASE family = Inet
    BY <1>2, <1>4, <1>6, <1>12, <2>2, <2>3, <2>4 DEF family
  <2>5. CASE family # Inet
    BY <1>2, <1>4, <1>12, <2>2, <2>5 DEF family
  <2> QED
    BY <2>4, <2>5
<1> QED
  BY <1>11, <1>12

LEMMA OneIsNotEmpty ==
  ASSUME NEW s, Len(s) = 1
  PROVE  s # << >>
  OBVIOUS

\* The fields that were read of an address, if the kernel takes it: the family,
\* and of the families that are known the whole of it.
AddressFields(a, len, t, f, got) ==
  /\ t \in Texts /\ Len(t) = len /\ f \in Texts /\ Len(got) \in {1, 2}
  /\ got[1] = IF WordsMapped(a, FamilySize) THEN f ELSE Failed
  /\ WordsMapped(a, FamilySize) =>
       /\ f = Inet => /\ Len(got) = 2 /\ InetSize <= len
                      /\ got[2] = IF WordsMapped(a, InetSize) THEN SubSeq(t, 1, InetSize) ELSE Failed
       /\ f = Inet6 /\ len >= Inet6Size =>
            /\ Len(got) = 2
            /\ got[2] = IF WordsMapped(a, Inet6Size) THEN SubSeq(t, 1, Inet6Size) ELSE Failed
       /\ f = Unix => /\ Len(got) = 2
                      /\ got[2] = IF WordsMapped(a, len) THEN t ELSE Failed
       /\ f # Inet /\ f # Unix /\ ~(f = Inet6 /\ len >= Inet6Size) => Len(got) = 1

LEMMA ProfilerFields ==
  ASSUME ReadInv, Quiet, call.name = "profiler_connect",
         NEW a \in Nat, NEW len \in Nat, a = call.args[1], len = call.args[2], a # 0,
         NEW t, t = taken, NEW got \in Seq(Values), Recorded(got), NEW f, f = SubSeq(t, 1, FamilySize)
  PROVE  AddressFields(a, len, t, f, got)
<1>1. at = "done" /\ taken # Failed /\ poked = {} /\ MemoryOK
  BY Done DEF Quiet
<1>2. t = KernelConnect(a, len) /\ t # Failed
  BY <1>1, Done, PathCallNames DEF Taken, PathCalls, WriteCalls
<1>3. /\ t = KernelBytes(a, len) /\ len >= FamilySize /\ len <= StorageSize
      /\ f = Inet => len >= InetSize
      /\ f = Unix => len <= UnixSize
  BY <1>2, KernelConnectIs
<1>4. FamilySize \in 1 .. len /\ InetSize \in Nat /\ Inet6Size \in Nat /\ UnixSize \in Nat
  BY <1>3, SizeAssumption
<1>5. Len(got) = Len(Reads(call, got)) /\ Reads(call, got) = read_sockaddr(a, len, got)
  BY ReadsProfiler DEF Recorded
<1>6. \A n \in 0 .. len : \A v : BytesAre(v, a, n) =>
        /\ t \in Texts /\ Len(t) = len /\ SubSeq(t, 1, n) \in Texts
        /\ v = IF WordsMapped(a, n) THEN SubSeq(t, 1, n) ELSE Failed
  <2> TAKE n \in 0 .. len
  <2> TAKE v
  <2> HAVE BytesAre(v, a, n)
  <2> QED
    BY <1>1, <1>2, <1>3, BytesMatch
<1> DEFINE head == Raw(a, FamilySize)
<1>7. got # << >>
  <2>1. got = << >> => read_sockaddr(a, len, got) = <<head>>
    BY <1>3, SockaddrReads
  <2> HIDE DEF head
  <2>2. Len(<<head>>) = 1
    OBVIOUS
  <2>3. got = << >> => Len(got) = 1
    BY <1>5, <2>1, <2>2, Zenon
  <2> QED
    BY <2>3, OneIsNotEmpty, Zenon
<1>8. /\ got[1] = Inet /\ len >= InetSize => Reads(call, got) = <<head, Raw(a, InetSize)>>
      /\ got[1] = Inet6 /\ len >= Inet6Size => Reads(call, got) = <<head, Raw(a, Inet6Size)>>
      /\ got[1] = Unix => Reads(call, got) = <<head, Raw(a, Least(len, UnixSize))>>
      /\ /\ got[1] # Unix /\ ~(got[1] = Inet /\ len >= InetSize)
         /\ ~(got[1] = Inet6 /\ len >= Inet6Size)
         => Reads(call, got) = <<head>>
  BY <1>3, <1>5, <1>7, SockaddrReads
<1>9. Len(got) \in {1, 2} /\ Reads(call, got)[1] = head
  <2> DEFINE r == Reads(call, got)
  <2>1. \/ r = <<head>> \/ r = <<head, Raw(a, InetSize)>> \/ r = <<head, Raw(a, Inet6Size)>>
        \/ r = <<head, Raw(a, Least(len, UnixSize))>>
    BY <1>8
  <2>2. r = <<head>> \/ \E x : r = <<head, x>>
    <3> HIDE DEF r, head
    <3> QED
      BY <2>1
  <2> HIDE DEF r, head
  <2>3. Len(r) \in {1, 2} /\ r[1] = head
    BY <2>2
  <2> QED
    BY <1>5, <2>3 DEF r
<1>10. BytesAre(got[1], a, FamilySize)
  <2>1. FieldRead(head, got[1])
    BY <1>9 DEF Recorded, FieldsRead
  <2> QED
    BY <2>1 DEF FieldRead, Raw
<1>11. /\ t \in Texts /\ Len(t) = len /\ f \in Texts
       /\ got[1] = IF WordsMapped(a, FamilySize) THEN f ELSE Failed
  <2>1. FamilySize \in 0 .. len
    BY <1>4
  <2> QED
    BY <1>6, <1>10, <2>1
<1>12. ASSUME NEW n \in 0 .. len, Reads(call, got) = <<head, Raw(a, n)>>
       PROVE  /\ Len(got) = 2
              /\ got[2] = IF WordsMapped(a, n) THEN SubSeq(t, 1, n) ELSE Failed
  <2>1. Len(got) = 2 /\ Reads(call, got)[2] = Raw(a, n)
    BY <1>5, <1>12
  <2>2. FieldRead(Raw(a, n), got[2])
    BY <2>1 DEF Recorded, FieldsRead
  <2>3. BytesAre(got[2], a, n)
    BY <2>2 DEF FieldRead, Raw
  <2> QED
    BY <1>6, <2>1, <2>3
<1>13. ASSUME WordsMapped(a, FamilySize), f = Inet
       PROVE  /\ Len(got) = 2 /\ InetSize <= len
              /\ got[2] = IF WordsMapped(a, InetSize) THEN SubSeq(t, 1, InetSize) ELSE Failed
  <2>1. got[1] = Inet
    BY <1>11, <1>13
  <2>2. len >= InetSize
    BY <1>3, <1>13
  <2>3. InetSize \in 0 .. len
    BY <1>4, <2>2
  <2>4. Reads(call, got) = <<head, Raw(a, InetSize)>>
    BY <1>8, <2>1, <2>2
  <2> QED
    BY <1>12, <2>2, <2>3, <2>4
<1>14. ASSUME WordsMapped(a, FamilySize), f = Inet6, len >= Inet6Size
       PROVE  /\ Len(got) = 2
              /\ got[2] = IF WordsMapped(a, Inet6Size) THEN SubSeq(t, 1, Inet6Size) ELSE Failed
  <2>1. got[1] = Inet6 /\ Inet6Size \in 0 .. len
    BY <1>4, <1>11, <1>14
  <2> QED
    BY <1>8, <1>12, <1>14, <2>1
<1>15. ASSUME WordsMapped(a, FamilySize), f = Unix
       PROVE  /\ Len(got) = 2
              /\ got[2] = IF WordsMapped(a, len) THEN t ELSE Failed
  <2>1. got[1] = Unix
    BY <1>11, <1>15
  <2>2. len <= UnixSize
    BY <1>3, <1>15
  <2>3. Least(len, UnixSize) = len /\ len \in 0 .. len
    BY <1>4, <2>2 DEF Least
  <2>4. SubSeq(t, 1, len) = t
    BY <1>11, SubSeqFull DEF Texts
  <2>5. Reads(call, got) = <<head, Raw(a, len)>>
    BY <1>8, <2>1, <2>3
  <2> QED
    BY <1>12, <2>3, <2>4, <2>5
<1>16. ASSUME WordsMapped(a, FamilySize), f # Inet, f # Unix, ~(f = Inet6 /\ len >= Inet6Size)
       PROVE  Len(got) = 1
  <2>1. got[1] = f
    BY <1>11, <1>16
  <2>2. Reads(call, got) = <<head>>
    BY <1>8, <1>16, <2>1
  <2> QED
    BY <1>5, <2>2
<1> QED
  BY <1>9, <1>11, <1>13, <1>14, <1>15, <1>16 DEF AddressFields

\* The profiler's event of a connect.
LEMMA ProfilerConnect ==
  ASSUME ReadInv, Quiet, call.name = "profiler_connect"
  PROVE  LET from == call.args[1]
             len == call.args[2]
             family == SubSeq(taken, 1, FamilySize)
             inet == CASE family = Inet -> InetAddress(taken)
                       [] family = Inet6 /\ len >= Inet6Size -> Inet6Address(taken)
                       [] OTHER -> << >>
             size == CASE family = Inet -> InetSize
                       [] family = Inet6 -> Inet6Size
                       [] OTHER -> len
         IN  recorded = IF from = 0 \/ ~WordsMapped(from, FamilySize) THEN NoArgs
                        ELSE [family |-> family,
                              addr |-> IF ~WordsMapped(from, size) THEN << >>
                                       ELSE IF family = Unix THEN UnixAddress(taken) ELSE inet]
<1>1. at = "done" /\ taken # Failed
  BY DEF Quiet
<1>2. PICK a \in Nat, len \in Nat : a = call.args[1] /\ len = call.args[2]
  BY <1>1, Done
<1>3. PICK got \in Seq(Values) : Recorded(got)
  BY <1>1, Done
<1>4. PICK t : t = taken
  OBVIOUS
<1>5. PICK f : f = SubSeq(t, 1, FamilySize)
  OBVIOUS
<1>6. recorded = SockAddrInfo(got)
  BY <1>3, PathCallNames DEF Recorded, EventArgs, PathCalls, WriteCalls, PlainCalls
<1>7. Inet # Inet6 /\ Inet # Unix /\ Inet6 # Unix
  BY ValueAssumption
<1>8. CASE a = 0
  <2>1. Reads(call, got) = << >>
    BY <1>2, <1>8, ReadsProfiler DEF read_sockaddr
  <2>2. got = << >>
    BY <1>3, <2>1, EmptySeq DEF Recorded
  <2>3. recorded = NoArgs
    BY <1>6, <2>2 DEF SockAddrInfo
  <2> QED
    BY <1>2, <1>8, <2>3
<1>9. CASE a # 0 /\ ~WordsMapped(a, FamilySize)
  <2>1. Len(got) \in {1, 2} /\ got[1] = Failed
    <3>1. AddressFields(a, len, t, f, got)
      BY <1>2, <1>3, <1>4, <1>5, <1>9, ProfilerFields
    <3> QED
      BY <1>9, <3>1 DEF AddressFields
  <2>2. got # << >>
    BY <2>1
  <2>3. recorded = NoArgs
    BY <1>6, <2>1, <2>2 DEF SockAddrInfo
  <2> QED
    BY <1>2, <1>9, <2>3
<1>10. CASE a # 0 /\ WordsMapped(a, FamilySize)
  <2>1. /\ t \in Texts /\ Len(t) = len /\ f \in Texts /\ Len(got) \in {1, 2} /\ got[1] = f
        /\ f = Inet => /\ Len(got) = 2 /\ InetSize <= len
                       /\ got[2] = IF WordsMapped(a, InetSize) THEN SubSeq(t, 1, InetSize) ELSE Failed
        /\ f = Inet6 /\ len >= Inet6Size =>
             /\ Len(got) = 2
             /\ got[2] = IF WordsMapped(a, Inet6Size) THEN SubSeq(t, 1, Inet6Size) ELSE Failed
        /\ f = Unix => /\ Len(got) = 2
                       /\ got[2] = IF WordsMapped(a, len) THEN t ELSE Failed
        /\ f # Inet /\ f # Unix /\ ~(f = Inet6 /\ len >= Inet6Size) => Len(got) = 1
    <3>1. AddressFields(a, len, t, f, got)
      BY <1>2, <1>3, <1>4, <1>5, <1>10, ProfilerFields
    <3> QED
      BY <1>10, <3>1 DEF AddressFields
  <2>2. f # Failed /\ t # Failed /\ got # << >>
    BY <1>1, <1>4, <2>1, NotFailed
  <2>3. recorded =
          [family |-> f,
           addr |-> IF Len(got) = 1 \/ got[Len(got)] = Failed THEN << >>
                    ELSE IF f = Inet THEN InetAddress(got[2])
                    ELSE IF f = Inet6 THEN Inet6Address(got[2])
                    ELSE UnixAddress(got[2])]
    BY <1>6, <2>1, <2>2 DEF SockAddrInfo
  <2> DEFINE inet == CASE f = Inet -> InetAddress(t)
                       [] f = Inet6 /\ len >= Inet6Size -> Inet6Address(t)
                       [] OTHER -> << >>
             size == CASE f = Inet -> InetSize
                       [] f = Inet6 -> Inet6Size
                       [] OTHER -> len
  <2>4. SUFFICES recorded = [family |-> f,
                             addr |-> IF ~WordsMapped(a, size) THEN << >>
                                      ELSE IF f = Unix THEN UnixAddress(t) ELSE inet]
    BY <1>2, <1>4, <1>5, <1>10
  <2>5. CASE f = Inet
    <3>1. size = InetSize /\ inet = InetAddress(t) /\ f # Unix
      BY <1>7, <2>5
    <3>2. CASE ~WordsMapped(a, InetSize)
      BY <2>1, <2>3, <2>5, <3>1, <3>2
    <3>3. CASE WordsMapped(a, InetSize)
      <4>1. got[2] = SubSeq(t, 1, InetSize) /\ Len(got) = 2
        BY <2>1, <2>5, <3>3
      <4>2. InetAddress(got[2]) = InetAddress(t)
        <5>1. InetSize \in 1 .. Len(t) /\ FamilySize + 1 \in 1 .. InetSize /\ InetSize \in FamilySize + 1 .. InetSize
          BY <2>1, <2>5, SizeAssumption
        <5> QED
          BY <2>1, <4>1, <5>1, PartOfPrefix DEF InetAddress
      <4>3. got[2] # Failed
        <5>1. \A i \in 1 .. InetSize : t[i] \in Bytes
          <6>1. InetSize <= len /\ Len(t) = len /\ t \in Texts
            BY <2>1, <2>5
          <6>2. \A i \in 1 .. len : t[i] \in Bytes
            BY <6>1, TextShape
          <6>3. InetSize \in Nat
            BY SizeAssumption
          <6> QED
            BY <6>1, <6>2, <6>3
        <5>2. SubSeq(t, 1, InetSize) \in Texts
          BY <5>1, SubSeqProperties, SizeAssumption DEF Texts
        <5> QED
          BY <4>1, <5>2, NotFailed
      <4> QED
        BY <2>3, <2>5, <3>1, <3>3, <4>1, <4>2, <4>3
    <3> QED
      BY <3>2, <3>3
  <2>6. CASE f = Inet6 /\ len >= Inet6Size
    <3>1. size = Inet6Size /\ inet = Inet6Address(t) /\ f # Unix /\ f # Inet
      BY <1>7, <2>6
    <3>2. CASE ~WordsMapped(a, Inet6Size)
      BY <2>1, <2>3, <2>6, <3>1, <3>2
    <3>3. CASE WordsMapped(a, Inet6Size)
      <4>1. got[2] = SubSeq(t, 1, Inet6Size) /\ Len(got) = 2
        BY <2>1, <2>6, <3>3
      <4>2. Inet6Address(got[2]) = Inet6Address(t)
        <5>1. Inet6Size \in 1 .. Len(t) /\ FamilySize + 1 \in 1 .. Inet6Size /\ Inet6Min \in FamilySize + 1 .. Inet6Size
          BY <2>1, <2>6, SizeAssumption
        <5> QED
          BY <2>1, <4>1, <5>1, PartOfPrefix DEF Inet6Address
      <4>3. got[2] # Failed
        <5>1. \A i \in 1 .. Inet6Size : t[i] \in Bytes
          BY <2>1, <2>6, TextShape, SizeAssumption
        <5>2. SubSeq(t, 1, Inet6Size) \in Texts
          BY <5>1, SubSeqProperties, SizeAssumption DEF Texts
        <5> QED
          BY <4>1, <5>2, NotFailed
      <4> QED
        BY <2>3, <2>6, <3>1, <3>3, <4>1, <4>2, <4>3
    <3> QED
      BY <3>2, <3>3
  <2>7. CASE f = Unix
    <3>1. size = len /\ f # Inet /\ f # Inet6
      BY <1>7, <2>7
    <3>2. CASE ~WordsMapped(a, len)
      BY <2>1, <2>3, <2>7, <3>1, <3>2
    <3>3. CASE WordsMapped(a, len)
      <4>1. Len(got) = 2 /\ got[2] = t /\ t # Failed
        BY <2>1, <2>2, <2>7, <3>3
      <4>2. recorded = [family |-> f, addr |-> UnixAddress(t)]
        BY <2>3, <3>1, <4>1
      <4> QED
        BY <2>7, <3>1, <3>3, <4>2
    <3> QED
      BY <3>2, <3>3
  <2>8. CASE f # Inet /\ f # Unix /\ ~(f = Inet6 /\ len >= Inet6Size)
    <3>1. inet = << >> /\ Len(got) = 1
      BY <2>1, <2>8
    <3> QED
      BY <2>3, <2>8, <3>1
  <2> QED
    BY <2>5, <2>6, <2>7, <2>8
<1> QED
  BY <1>8, <1>9, <1>10

\* A connect is recorded with its family, port and address.
THEOREM ConnectsAreRead == ReaderSpec => []ConnectRead
<1>1. ReadInv => ConnectRead
  BY DetectorConnect, ProfilerConnect DEF ConnectRead
<1> QED
  BY <1>1, ReadInvHolds, PTL

===============================================================================
