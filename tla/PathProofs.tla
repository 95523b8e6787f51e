------------------------------ MODULE PathProofs ------------------------------
(***************************************************************************)
(* The paths that helpers.h makes and the files that the kernel found,     *)
(* proved for every tree, every path and every number of changes (the      *)
(* constants of Paths).                                                    *)
(***************************************************************************)
EXTENDS Paths, WellFoundedInduction, SequenceTheorems, TLAPS

-----------------------------------------------------------------------------
(* Recursion: PathTo, Below and the folds have the values that their        *)
(* definitions say.                                                         *)

\* A set of numbers that is not empty has a least one.
LEMMA NatMin ==
  ASSUME NEW T, T \subseteq Nat, T # {}
  PROVE  \E x \in T : \A y \in T : x <= y
<1> DEFINE R == OpToRel(<, Nat)
<1>1. IsWellFoundedOn(R, Nat)
  BY NatLessThanWellFounded
<1>2. PICK x \in T : \A y \in T : <<y, x>> \notin R
  <2>. HIDE DEF R
  <2>. QED
    BY <1>1, WFMin
<1>3. \A y \in T : ~(y < x)
  BY <1>2 DEF OpToRel
<1>4. QED
  BY <1>3

\* up leads from each of N, in the end, to r.
Rooted(N, r, up) ==
  /\ r \in N /\ \A n \in N \ {r} : up[n] \in N
  /\ \A S \in SUBSET (N \ {r}) : S = {} \/ \E n \in S : up[n] \notin S

Stays(N, A, op) == \A n \in N, v \in A : op[<<n, v>>] \in A

Follows(f, N, r, up, a, op) ==
  f[r] = a /\ \A n \in N \ {r} : f[n] = op[<<n, f[up[n]]>>]

\* A function from a tree, given by parents with the root r, is defined by its
\* value at the root and by what op makes of the value at the parent.
LEMMA Recursion ==
  ASSUME NEW N, NEW r, NEW up, Rooted(N, r, up),
         NEW A, NEW a \in A, NEW op, Stays(N \ {r}, A, op)
  PROVE  \E f \in [N -> A] : Follows(f, N, r, up, a, op)
<1> USE DEF Rooted, Stays
<1> DEFINE Closed(Q) == /\ <<r, a>> \in Q
                        /\ \A n \in N \ {r}, v \in A :
                             <<up[n], v>> \in Q => <<n, op[<<n, v>>]>> \in Q
           R == {p \in N \X A : \A Q \in SUBSET (N \X A) : Closed(Q) => p \in Q}
<1>1. Closed(R)
  <2>1. <<r, a>> \in R
    OBVIOUS
  <2>2. ASSUME NEW n \in N \ {r}, NEW v \in A, <<up[n], v>> \in R
        PROVE  <<n, op[<<n, v>>]>> \in R
    <3>1. \A Q \in SUBSET (N \X A) : Closed(Q) => <<n, op[<<n, v>>]>> \in Q
      BY <2>2
    <3>2. QED
      BY <3>1
  <2>3. QED
    BY <2>1, <2>2
<1>2. ASSUME NEW Q \in SUBSET (N \X A), Closed(Q) PROVE R \subseteq Q
  BY <1>2
<1>3. \A n \in N : \E v \in A : <<n, v>> \in R
  <2> DEFINE S == {n \in N \ {r} : ~\E v \in A : <<n, v>> \in R}
  <2>1. CASE S = {}
    <3>1. \E v \in A : <<r, v>> \in R
      BY <1>1
    <3> HIDE DEF R
    <3>2. QED
      BY <2>1, <3>1
  <2>2. CASE S # {}
    <3>1. PICK n \in S : up[n] \notin S
      BY <2>2
    <3>2. PICK v \in A : <<up[n], v>> \in R
      <4> HIDE DEF R
      <4>1. up[n] # r => \E v \in A : <<up[n], v>> \in R
        BY <3>1
      <4>2. QED
        BY <1>1, <4>1
    <3>3. <<n, op[<<n, v>>]>> \in R
      BY <1>1, <3>1, <3>2
    <3> HIDE DEF R
    <3>4. QED
      BY <3>1, <3>3
  <2>3. QED
    BY <2>1, <2>2
<1>4. \A v \in A : <<r, v>> \in R => v = a
  <2> DEFINE Q == {p \in R : p[1] = r => p[2] = a}
  <2>1. Closed(Q) /\ Q \in SUBSET (N \X A)
    <3>1. <<r, a>> \in Q /\ Q \in SUBSET (N \X A)
      BY <1>1
    <3>2. ASSUME NEW n \in N \ {r}, NEW v \in A, <<up[n], v>> \in Q
          PROVE  <<n, op[<<n, v>>]>> \in Q
      <4>1. <<n, op[<<n, v>>]>> \in R
        BY <1>1, <3>2
      <4> HIDE DEF R
      <4>2. QED
        BY <4>1
    <3>3. QED
      BY <3>1, <3>2
  <2>2. R \subseteq Q
    BY <1>2, <2>1
  <2> HIDE DEF R
  <2>3. QED
    BY <2>2
<1>5. \A n \in N : \A v, u \in A : <<n, v>> \in R /\ <<n, u>> \in R => v = u
  <2> DEFINE S == {n \in N \ {r} : \E v, u \in A : <<n, v>> \in R /\ <<n, u>> \in R /\ v # u}
  <2>1. CASE S = {}
    <3> HIDE DEF R
    <3>1. QED
      BY <2>1, <1>4
  <2>2. CASE S # {}
    <3>1. PICK n \in S : up[n] \notin S
      BY <2>2
    <3>2. PICK v \in A : <<up[n], v>> \in R
      BY <1>3
    <3>3. \A u \in A : <<up[n], u>> \in R => u = v
      <4> HIDE DEF R
      <4>1. QED
        BY <3>1, <3>2, <1>4
    <3> DEFINE Q == {p \in R : p[1] = n => p[2] = op[<<n, v>>]}
    <3>4. Closed(Q) /\ Q \in SUBSET (N \X A)
      <4>1. <<r, a>> \in Q /\ Q \in SUBSET (N \X A)
        BY <1>1
      <4>2. ASSUME NEW m \in N \ {r}, NEW u \in A, <<up[m], u>> \in Q
            PROVE  <<m, op[<<m, u>>]>> \in Q
        <5>1. <<m, op[<<m, u>>]>> \in R /\ <<up[m], u>> \in R
          BY <1>1, <4>2
        <5> HIDE DEF R
        <5>2. QED
          BY <5>1, <3>3
      <4>3. QED
        BY <4>1, <4>2
    <3>5. R \subseteq Q
      BY <1>2, <3>4
    <3> HIDE DEF R
    <3>6. QED
      BY <3>1, <3>5
  <2>3. QED
    BY <2>1, <2>2
<1> DEFINE f == [n \in N |-> CHOOSE v \in A : <<n, v>> \in R]
<1>6. f \in [N -> A] /\ \A n \in N : <<n, f[n]>> \in R
  <2> HIDE DEF R
  <2>1. QED
    BY <1>3
<1>7. ASSUME NEW n \in N PROVE f[n] = IF n = r THEN a ELSE op[<<n, f[up[n]]>>]
  <2>1. CASE n = r
    <3> HIDE DEF R
    <3>1. QED
      BY <2>1, <1>4, <1>6
  <2>2. CASE n # r
    <3>1. <<n, op[<<n, f[up[n]]>>]>> \in R /\ op[<<n, f[up[n]]>>] \in A /\ f[n] \in A
      <4>1. f[up[n]] \in A /\ <<up[n], f[up[n]]>> \in R /\ f[n] \in A
        BY <2>2, <1>6
      <4> HIDE DEF f, R
      <4>2. QED
        BY <4>1, <2>2, <1>1
    <3>2. <<n, f[n]>> \in R
      BY <1>6
    <3> HIDE DEF R, f
    <3>3. QED
      BY <2>2, <3>1, <3>2, <1>5
  <2>3. QED
    BY <2>1, <2>2
<1> HIDE DEF f
<1>8. QED
  BY <1>6, <1>7 DEF Follows

\* The largest of some of the numbers up to n.
LEMMA MaxOf ==
  ASSUME NEW n \in Nat, NEW S \in SUBSET (1 .. n), S # {}
  PROVE  Max(S) \in S /\ \A y \in S : y <= Max(S)
<1> DEFINE T == {m \in 0 .. n : n - m \in S}
<1>1. \A y \in S : y \in 1 .. n
  OBVIOUS
<1>2. PICK m \in T : \A x \in T : m <= x
  <2>1. PICK y \in S : TRUE
    OBVIOUS
  <2>2. n - y \in 0 .. n /\ n - (n - y) = y
    BY <1>1
  <2>3. n - y \in T
    BY <2>1, <2>2
  <2>4. T \subseteq Nat
    OBVIOUS
  <2> HIDE DEF T
  <2>5. QED
    BY <2>3, <2>4, NatMin
<1>3. n - m \in S /\ \A y \in S : n - m >= y
  <2>1. ASSUME NEW y \in S PROVE n - m >= y
    <3>1. n - y \in 0 .. n /\ n - (n - y) = y
      BY <1>1
    <3>2. n - y \in T
      BY <3>1
    <3>3. m <= n - y
      BY <1>2, <3>2
    <3>4. QED
      BY <1>1, <3>3
  <2>2. QED
    BY <2>1
<1>4. Max(S) \in S /\ \A y \in S : Max(S) >= y
  BY <1>3 DEF Max
<1>5. QED
  BY <1>4

LEMMA MaxUpTo ==
  ASSUME NEW n \in Nat, NEW k \in 1 .. n
  PROVE  /\ Max(1 .. k) = k /\ (1 .. k) \ {k} = 1 .. k - 1
         /\ 1 .. k # {} /\ 1 .. k \in SUBSET (1 .. n)
<1>1. k \in Nat /\ k \in 1 .. k /\ k <= n
  OBVIOUS
<1>2. 1 .. k # {} /\ 1 .. k \in SUBSET (1 .. n)
  BY <1>1
<1>3. Max(1 .. k) \in 1 .. k /\ k <= Max(1 .. k)
  BY <1>1, <1>2, MaxOf
<1>4. QED
  BY <1>1, <1>2, <1>3

\* f is a fold over the sets of the numbers up to n.
FoldsSets(f, n, A, a, op) ==
  /\ f \in [SUBSET (1 .. n) -> A] /\ f[{}] = a
  /\ \A S \in (SUBSET (1 .. n)) \ {{}} : f[S] = op[<<Max(S), f[S \ {Max(S)}]>>]

\* What FoldLeft recurses over: the sets of the numbers up to n.
LEMMA FoldRecursion ==
  ASSUME NEW n \in Nat, NEW A, NEW a \in A, NEW op, Stays(1 .. n, A, op)
  PROVE  \E f : FoldsSets(f, n, A, a, op)
<1> DEFINE N == SUBSET (1 .. n)
           up == [S \in N |-> S \ {Max(S)}]
           op2 == [p \in N \X A |-> op[<<Max(p[1]), p[2]>>]]
<1>1. {} \in N /\ \A S \in N \ {{}} : up[S] \in N
  OBVIOUS
<1>2. ASSUME NEW F \in SUBSET (N \ {{}}), F # {} PROVE \E S \in F : up[S] \notin F
  <2>1. \A S \in F : Max(S) \in S /\ Max(S) \in 1 .. n /\ \A y \in S : y <= Max(S)
    BY <1>2, MaxOf
  <2>2. {Max(S) : S \in F} # {} /\ {Max(S) : S \in F} \subseteq Nat
    BY <1>2, <2>1
  <2>3. PICK m \in {Max(S) : S \in F} : \A x \in {Max(S) : S \in F} : m <= x
    BY <2>2, NatMin
  <2>4. PICK S \in F : m = Max(S)
    BY <2>3
  <2>5. ASSUME up[S] \in F PROVE FALSE
    <3>1. m <= Max(up[S])
      BY <2>3, <2>5
    <3>2. Max(up[S]) \in S \ {m}
      BY <2>1, <2>4, <2>5
    <3>3. QED
      BY <3>1, <3>2, <2>1, <2>4
  <2>6. QED
    BY <2>5
<1>3. \A S \in N \ {{}}, v \in A : op2[<<S, v>>] \in A
  BY MaxOf DEF Stays
<1>4. PICK f \in [N -> A] : Follows(f, N, {}, up, a, op2)
  <2>1. Rooted(N, {}, up) /\ Stays(N \ {{}}, A, op2)
    BY <1>1, <1>2, <1>3 DEF Rooted, Stays
  <2> HIDE DEF N, up, op2
  <2>2. QED
    BY <2>1, Recursion
<1>5. \A S \in N : S # {} => f[S \ {Max(S)}] \in A
  OBVIOUS
<1>6. f[{}] = a /\ \A S \in N \ {{}} : f[S] = op[<<Max(S), f[S \ {Max(S)}]>>]
  BY <1>4, <1>5 DEF Follows
<1>7. FoldsSets(f, n, A, a, op)
  <2>1. f \in [SUBSET (1 .. n) -> A]
    OBVIOUS
  <2>2. \A S \in (SUBSET (1 .. n)) \ {{}} : f[S] = op[<<Max(S), f[S \ {Max(S)}]>>]
    BY <1>6
  <2>3. f[{}] = a
    BY <1>6
  <2>4. QED
    BY <2>1, <2>2, <2>3 DEF FoldsSets
<1>8. QED
  BY <1>7

\* The values of a fold after each element of a sequence: from a, by op.
Chain(h, A, a, op, s) ==
  /\ h \in [0 .. Len(s) -> A]
  /\ h[0] = a /\ \A k \in 1 .. Len(s) : h[k] = op[<<h[k - 1], s[k]>>]

Adds(A, X, op) == \A v \in A, x \in X : op[<<v, x>>] \in A

\* g is such a fold, of s, over the sets that FoldLeft passes.
Iterates(g, A, a, op, s) ==
  /\ g[{}] = a
  /\ \A k \in 1 .. Len(s) : g[1 .. k - 1] \in A => g[1 .. k] = op[<<g[1 .. k - 1], s[k]>>]

\* From the sets to the sequence.
LEMMA FoldChain ==
  ASSUME NEW X, NEW s \in Seq(X), NEW A, NEW a \in A,
         NEW op, Adds(A, X, op), NEW g, Iterates(g, A, a, op, s)
  PROVE  \E h : Chain(h, A, a, op, s) /\ g[DOMAIN s] = h[Len(s)]
<1> USE DEF Adds, Iterates
<1> DEFINE n == Len(s)
           h == [k \in 0 .. n |-> g[1 .. k]]
           T == {k \in 0 .. n : g[1 .. k] \notin A}
<1>1. n \in Nat /\ DOMAIN s = 1 .. n /\ \A k \in 1 .. n : s[k] \in X
  BY LenProperties, ElementOfSeq
<1>2. 1 .. 0 = {}
  OBVIOUS
<1>3. T = {}
  <2>1. ASSUME T # {} PROVE FALSE
    <3>1. T \subseteq Nat
      BY <1>1
    <3>2. PICK k \in T : \A j \in T : k <= j
      <4> HIDE DEF T
      <4>1. QED
        BY <2>1, <3>1, NatMin
    <3>3. k \in 0 .. n /\ g[1 .. k] \notin A
      BY <3>2
    <3>4. k # 0
      BY <1>2, <3>3
    <3>5. k \in 1 .. n /\ k - 1 \in 0 .. n
      BY <1>1, <3>3, <3>4
    <3>6. k - 1 \notin T
      BY <1>1, <3>2, <3>3
    <3>7. g[1 .. k - 1] \in A
      BY <3>5, <3>6
    <3>8. QED
      BY <1>1, <3>3, <3>5, <3>7
  <2>2. QED
    BY <2>1
<1>4. \A k \in 0 .. n : g[1 .. k] \in A
  BY <1>3
<1>5. h[0] = a
  BY <1>1, <1>2
<1>6. ASSUME NEW k \in 1 .. n PROVE h[k] = op[<<h[k - 1], s[k]>>]
  <2>1. k \in 0 .. n /\ k - 1 \in 0 .. n
    BY <1>1
  <2>2. QED
    BY <1>4, <2>1
<1>7. h \in [0 .. n -> A]
  BY <1>4
<1>8. g[DOMAIN s] = h[n]
  BY <1>1
<1> HIDE DEF h
<1>9. QED
  BY <1>5, <1>6, <1>7, <1>8 DEF Chain

GoesOn(g, h, op, s, x) == g[Len(Append(s, x))] = op[<<h[Len(s)], x>>]

\* Two chains of the same fold.
LEMMA ChainAppend ==
  ASSUME NEW X, NEW s \in Seq(X), NEW x \in X, NEW A, NEW a \in A, NEW op,
         NEW h, Chain(h, A, a, op, s), NEW g, Chain(g, A, a, op, Append(s, x))
  PROVE  GoesOn(g, h, op, s, x)
<1> DEFINE n == Len(s)
           T == {k \in 0 .. n : g[k] # h[k]}
<1>1. /\ n \in Nat /\ Len(Append(s, x)) = n + 1
      /\ \A k \in 1 .. n : Append(s, x)[k] = s[k]
      /\ Append(s, x)[n + 1] = x
  BY LenProperties, AppendProperties
<1>2. ASSUME T # {} PROVE FALSE
  <2>1. T \subseteq Nat
    BY <1>1
  <2>2. PICK k \in T : \A j \in T : k <= j
    <3> HIDE DEF T
    <3>1. QED
      BY <1>2, <2>1, NatMin
  <2>3. k \in 0 .. n /\ g[k] # h[k]
    BY <2>2
  <2>4. k # 0
    BY <2>3 DEF Chain
  <2>5. k \in 1 .. n /\ k \in 1 .. n + 1 /\ k - 1 \in 0 .. n
    BY <1>1, <2>3, <2>4
  <2>6. g[k - 1] = h[k - 1]
    BY <1>1, <2>2, <2>5
  <2>7. g[k] = op[<<g[k - 1], s[k]>>] /\ h[k] = op[<<h[k - 1], s[k]>>]
    BY <1>1, <2>5 DEF Chain
  <2>8. QED
    BY <2>3, <2>6, <2>7
<1>3. g[n] = h[n]
  BY <1>1, <1>2
<1>4. g[n + 1] = op[<<g[n], x>>]
  <2>1. n + 1 \in 1 .. n + 1 /\ n + 1 - 1 = n
    BY <1>1
  <2>2. \A k \in 1 .. Len(Append(s, x)) : g[k] = op[<<g[k - 1], Append(s, x)[k]>>]
    BY DEF Chain
  <2> HIDE DEF n
  <2>3. g[n + 1] = op[<<g[n + 1 - 1], Append(s, x)[n + 1]>>]
    BY <1>1, <2>1, <2>2
  <2>4. QED
    BY <1>1, <2>1, <2>3
<1>5. QED
  BY <1>1, <1>3, <1>4 DEF GoesOn

-----------------------------------------------------------------------------
(* The folds of the model.                                                  *)

Texts == Seq(STRING)

NormalOp == [p \in Texts \X STRING |-> Normal_step(p[1], p[2])]

LEMMA NormalStepType ==
  ASSUME NEW v \in Texts, NEW x \in STRING
  PROVE  Normal_step(v, x) \in Texts /\ NormalOp[<<v, x>>] = Normal_step(v, x)
<1>1. v # << >> => Front(v) \in Texts
  BY LenProperties, ElementOfSeq, SubSeqProperties DEF Front, Texts
<1>2. Append(v, x) \in Texts
  BY AppendProperties DEF Texts
<1>3. QED
  BY <1>1, <1>2 DEF Normal_step, NormalOp

LEMMA NormalChain ==
  ASSUME NEW s \in Texts
  PROVE  \E h : Chain(h, Texts, << >>, NormalOp, s) /\ lexically_normal(s) = h[Len(s)]
<1> DEFINE n == Len(s)
           op == [p \in (1 .. n) \X Texts |-> Normal_step(p[2], s[p[1]])]
           Values(g) == [S \in SUBSET DOMAIN s |->
                           IF S = {} THEN << >> ELSE Normal_step(g[S \ {Max(S)}], s[Max(S)])]
           g == CHOOSE g : g = Values(g)
<1>1. /\ n \in Nat /\ DOMAIN s = 1 .. n /\ \A k \in 1 .. n : s[k] \in STRING
      /\ << >> \in Texts
  BY LenProperties, ElementOfSeq, EmptySeq DEF Texts
<1>2. Stays(1 .. n, Texts, op)
  BY <1>1, NormalStepType DEF Stays
<1>3. PICK f : FoldsSets(f, n, Texts, << >>, op)
  <2> HIDE DEF op
  <2>1. QED
    BY <1>1, <1>2, FoldRecursion
<1>4. f = Values(f)
  <2>1. ASSUME NEW S \in SUBSET (1 .. n), S # {}
        PROVE  f[S] = Normal_step(f[S \ {Max(S)}], s[Max(S)])
    <3>1. Max(S) \in 1 .. n
      <4> HIDE DEF n
      <4>1. Max(S) \in S
        BY <1>1, <2>1, MaxOf
      <4>2. QED
        BY <4>1
    <3>2. f[S \ {Max(S)}] \in Texts /\ f[S] = op[<<Max(S), f[S \ {Max(S)}]>>]
      <4> HIDE DEF op
      <4>1. f \in [SUBSET (1 .. n) -> Texts]
        BY <1>3 DEF FoldsSets
      <4>2. S \in (SUBSET (1 .. n)) \ {{}} /\ S \ {Max(S)} \in SUBSET (1 .. n)
        BY <2>1
      <4>3. QED
        BY <1>3, <4>1, <4>2 DEF FoldsSets
    <3>3. QED
      BY <3>1, <3>2
  <2>2. f = [S \in SUBSET (1 .. n) |-> f[S]] /\ f[{}] = << >>
    BY <1>3 DEF FoldsSets
  <2>3. QED
    BY <1>1, <2>1, <2>2
<1>5. g = Values(g)
  <2>1. \E e : e = Values(e)
    BY <1>4
  <2>2. QED
    BY <2>1
<1>6. lexically_normal(s) = g[DOMAIN s]
  BY DEF lexically_normal, FoldLeft, MapThenFoldSet
<1>7. ASSUME NEW k \in 1 .. n PROVE g[1 .. k] = Normal_step(g[1 .. k - 1], s[k])
  <2>1. /\ Max(1 .. k) = k /\ (1 .. k) \ {k} = 1 .. k - 1
        /\ 1 .. k # {} /\ 1 .. k \in SUBSET (1 .. n)
    BY <1>1, MaxUpTo
  <2> HIDE DEF g
  <2>2. QED
    BY <1>1, <1>5, <2>1
<1>8. g[{}] = << >>
  <2> HIDE DEF g
  <2>1. QED
    BY <1>5
<1> HIDE DEF g
<1>9. /\ s \in Seq(STRING) /\ Adds(Texts, STRING, NormalOp)
      /\ Iterates(g, Texts, << >>, NormalOp, s)
  BY <1>1, <1>7, <1>8, NormalStepType DEF Texts, Adds, Iterates
<1>10. PICK h : Chain(h, Texts, << >>, NormalOp, s) /\ g[DOMAIN s] = h[Len(s)]
  BY <1>1, <1>9, FoldChain
<1>11. QED
  BY <1>6, <1>10

\* What the fold does, name by name.
LEMMA NormalAppend ==
  ASSUME NEW s \in Texts, NEW x \in STRING
  PROVE  /\ lexically_normal(s) \in Texts /\ lexically_normal(<< >>) = << >>
         /\ lexically_normal(Append(s, x)) = Normal_step(lexically_normal(s), x)
<1>1. /\ << >> \in Texts /\ Append(s, x) \in Texts /\ Len(<< >>) = 0
      /\ Len(s) \in Nat
  BY EmptySeq, AppendProperties, LenProperties DEF Texts
<1>2. PICK e : Chain(e, Texts, << >>, NormalOp, << >>) /\ lexically_normal(<< >>) = e[0]
  BY <1>1, NormalChain
<1>3. PICK h : Chain(h, Texts, << >>, NormalOp, s) /\ lexically_normal(s) = h[Len(s)]
  BY NormalChain
<1>4. PICK g : /\ Chain(g, Texts, << >>, NormalOp, Append(s, x))
               /\ lexically_normal(Append(s, x)) = g[Len(Append(s, x))]
  BY <1>1, NormalChain
<1>5. lexically_normal(s) \in Texts /\ lexically_normal(<< >>) = << >>
  <2>1. h \in [0 .. Len(s) -> Texts] /\ e[0] = << >> /\ Len(s) \in 0 .. Len(s)
    BY <1>1, <1>2, <1>3 DEF Chain
  <2>2. QED
    BY <1>2, <1>3, <2>1
<1>6. GoesOn(g, h, NormalOp, s, x)
  <2>1. s \in Seq(STRING)
    BY DEF Texts
  <2>2. QED
    BY <1>1, <1>3, <1>4, <2>1, ChainAppend
<1>7. QED
  BY <1>3, <1>4, <1>5, <1>6, NormalStepType DEF GoesOn

\* The steps of a walk.
Walks ==
  [node : Nodes \cup {NoNode}, links : Seq(BOOLEAN), back : BOOLEAN,
   through : SUBSET (Nodes \cup {NoNode})]

LEMMA TreeType ==
  ASSUME NEW t, IsTree(t)
  PROVE  /\ \A n \in Nodes \ {RootDir} : /\ t[n].dir \in Dirs /\ t[n].name \in Names
                                         /\ t[n].gone \in BOOLEAN /\ t[n].dir \in Nodes
                                         /\ t[n].name \in STRING \ Dots
         /\ \A n \in Nodes : Parent(t, n) \in Dirs /\ Parent(t, n) \in Nodes
         /\ RootDir \in Nodes /\ Dirs \subseteq Nodes /\ NoNode \notin Nodes
<1>1. \A n \in Nodes \ {RootDir} : t[n] \in [dir : Dirs, name : Names, gone : BOOLEAN]
  BY DEF IsTree
<1>2. QED
  BY <1>1, PathAssumption, NamesAssumption DEF Parent

LEMMA ChildType ==
  ASSUME NEW t, IsTree(t), NEW d, NEW name
  PROVE  \/ /\ Child(t, d, name) = NoNode
            /\ \A n \in Nodes \ {RootDir} : t[n].gone \/ t[n].dir # d \/ t[n].name # name
         \/ /\ Child(t, d, name) \in Nodes \ {RootDir} /\ ~t[Child(t, d, name)].gone
            /\ t[Child(t, d, name)].dir = d /\ t[Child(t, d, name)].name = name
  BY DEF Child

LEMMA StartType ==
  ASSUME NEW n \in Nodes \cup {NoNode}
  PROVE  Start(n) \in Walks
  BY EmptySeq DEF Start, Walks

LEMMA IntoType ==
  ASSUME NEW w \in Walks, NEW n \in Nodes \cup {NoNode}, NEW link \in BOOLEAN
  PROVE  /\ Into(w, n, link) \in Walks
         /\ Into(w, n, link).node = n /\ Into(w, n, link).links = Append(w.links, link)
         /\ Into(w, n, link).back = w.back /\ Into(w, n, link).through = w.through \cup {n}
<1>1. Append(w.links, link) \in Seq(BOOLEAN)
  BY AppendProperties DEF Walks
<1>2. QED
  BY <1>1 DEF Into, Walks

LEMMA UpType ==
  ASSUME NEW t, IsTree(t), NEW w \in Walks, w.node \in Nodes
  PROVE  /\ Up(t, w) \in Walks
         /\ Up(t, w).node = Parent(t, w.node)
         /\ Up(t, w).links = IF w.links = << >> THEN << >> ELSE Front(w.links)
         /\ Up(t, w).back = (w.back \/ (w.links # << >> /\ Last(w.links)))
         /\ Up(t, w).through = w.through \cup {w.node}
<1>1. w.links # << >> => Front(w.links) \in Seq(BOOLEAN) /\ Last(w.links) \in BOOLEAN
  BY LenProperties, ElementOfSeq, SubSeqProperties, EmptySeq DEF Front, Last, Walks
<1>2. Parent(t, w.node) \in Nodes
  BY TreeType
<1>3. QED
  BY <1>1, <1>2 DEF Up, Walks

LEMMA PlainStepType ==
  ASSUME NEW t, IsTree(t), NEW w \in Walks, NEW x
  PROVE  PlainStep(t, w, x) \in Walks
<1>1. Dirs \subseteq Nodes
  BY PathAssumption
<1>2. Child(t, w.node, x) \in Nodes \cup {NoNode}
  BY ChildType
<1>3. [w EXCEPT !.node = NoNode] \in Walks
  BY DEF Walks
<1>4. w.node \in Nodes => Up(t, w) \in Walks
  BY UpType
<1>5. Into(w, Child(t, w.node, x), FALSE) \in Walks
  BY <1>2, IntoType
<1>6. QED
  BY <1>1, <1>3, <1>4, <1>5 DEF PlainStep

PlainOp(t) == [p \in Walks \X STRING |-> PlainStep(t, p[1], p[2])]

LEMMA PlainOpType ==
  ASSUME NEW t, IsTree(t), NEW v \in Walks, NEW x \in STRING
  PROVE  PlainStep(t, v, x) \in Walks /\ PlainOp(t)[<<v, x>>] = PlainStep(t, v, x)
  BY PlainStepType DEF PlainOp

LEMMA PlainChain ==
  ASSUME NEW t, IsTree(t), NEW n \in Nodes \cup {NoNode}, NEW s \in Texts
  PROVE  \E h : Chain(h, Walks, Start(n), PlainOp(t), s) /\ PlainWalk(t, n, s) = h[Len(s)]
<1> DEFINE m == Len(s)
           op == [p \in (1 .. m) \X Walks |-> PlainStep(t, p[2], s[p[1]])]
           Values(g) == [S \in SUBSET DOMAIN s |->
                           IF S = {} THEN Start(n) ELSE PlainStep(t, g[S \ {Max(S)}], s[Max(S)])]
           g == CHOOSE g : g = Values(g)
<1>1. /\ m \in Nat /\ DOMAIN s = 1 .. m /\ \A k \in 1 .. m : s[k] \in STRING
      /\ Start(n) \in Walks
  BY LenProperties, ElementOfSeq, StartType DEF Texts
<1>2. Stays(1 .. m, Walks, op)
  BY <1>1, PlainOpType DEF Stays
<1>3. PICK f : FoldsSets(f, m, Walks, Start(n), op)
  <2> HIDE DEF op
  <2>1. QED
    BY <1>1, <1>2, FoldRecursion
<1>4. f = Values(f)
  <2>1. ASSUME NEW S \in SUBSET (1 .. m), S # {}
        PROVE  f[S] = PlainStep(t, f[S \ {Max(S)}], s[Max(S)])
    <3>1. Max(S) \in 1 .. m
      <4> HIDE DEF m
      <4>1. Max(S) \in S
        BY <1>1, <2>1, MaxOf
      <4>2. QED
        BY <4>1
    <3>2. f[S \ {Max(S)}] \in Walks /\ f[S] = op[<<Max(S), f[S \ {Max(S)}]>>]
      <4> HIDE DEF op
      <4>1. f \in [SUBSET (1 .. m) -> Walks]
        BY <1>3 DEF FoldsSets
      <4>2. S \in (SUBSET (1 .. m)) \ {{}} /\ S \ {Max(S)} \in SUBSET (1 .. m)
        BY <2>1
      <4>3. QED
        BY <1>3, <4>1, <4>2 DEF FoldsSets
    <3>3. QED
      BY <3>1, <3>2
  <2>2. f = [S \in SUBSET (1 .. m) |-> f[S]] /\ f[{}] = Start(n)
    BY <1>3 DEF FoldsSets
  <2>3. QED
    BY <1>1, <2>1, <2>2
<1>5. g = Values(g)
  <2>1. \E e : e = Values(e)
    BY <1>4
  <2>2. QED
    BY <2>1
<1>6. PlainWalk(t, n, s) = g[DOMAIN s]
  BY DEF PlainWalk, FoldLeft, MapThenFoldSet
<1>7. ASSUME NEW k \in 1 .. m PROVE g[1 .. k] = PlainStep(t, g[1 .. k - 1], s[k])
  <2>1. /\ Max(1 .. k) = k /\ (1 .. k) \ {k} = 1 .. k - 1
        /\ 1 .. k # {} /\ 1 .. k \in SUBSET (1 .. m)
    BY <1>1, MaxUpTo
  <2> HIDE DEF g
  <2>2. QED
    BY <1>1, <1>5, <2>1
<1>8. g[{}] = Start(n)
  <2> HIDE DEF g
  <2>1. QED
    BY <1>5
<1> HIDE DEF g
<1>9. /\ s \in Seq(STRING) /\ Adds(Walks, STRING, PlainOp(t))
      /\ Iterates(g, Walks, Start(n), PlainOp(t), s)
  <2>1. s \in Seq(STRING)
    BY DEF Texts
  <2>2. Adds(Walks, STRING, PlainOp(t))
    BY PlainOpType DEF Adds
  <2>3. ASSUME NEW k \in 1 .. m, g[1 .. k - 1] \in Walks
        PROVE  g[1 .. k] = PlainOp(t)[<<g[1 .. k - 1], s[k]>>]
    <3>1. PICK w \in Walks, x \in STRING : w = g[1 .. k - 1] /\ x = s[k]
      BY <1>1, <2>3
    <3>2. PlainOp(t)[<<w, x>>] = PlainStep(t, w, x)
      BY PlainOpType
    <3>3. QED
      BY <1>7, <3>1, <3>2
  <2>4. QED
    BY <1>8, <2>1, <2>2, <2>3 DEF Iterates
<1>10. PICK h : Chain(h, Walks, Start(n), PlainOp(t), s) /\ g[DOMAIN s] = h[Len(s)]
  BY <1>1, <1>9, FoldChain
<1>11. QED
  BY <1>6, <1>10

LEMMA PlainAppend ==
  ASSUME NEW t, IsTree(t), NEW n \in Nodes \cup {NoNode}, NEW s \in Texts, NEW x \in STRING
  PROVE  /\ PlainWalk(t, n, s) \in Walks /\ PlainWalk(t, n, << >>) = Start(n)
         /\ PlainWalk(t, n, Append(s, x)) = PlainStep(t, PlainWalk(t, n, s), x)
<1>1. /\ << >> \in Texts /\ Start(n) \in Walks /\ Append(s, x) \in Texts /\ Len(<< >>) = 0
      /\ Len(s) \in Nat
  BY EmptySeq, StartType, AppendProperties, LenProperties DEF Texts
<1>2. PICK e : Chain(e, Walks, Start(n), PlainOp(t), << >>) /\ PlainWalk(t, n, << >>) = e[0]
  BY <1>1, PlainChain
<1>3. PICK h : Chain(h, Walks, Start(n), PlainOp(t), s) /\ PlainWalk(t, n, s) = h[Len(s)]
  BY PlainChain
<1>4. PICK g : /\ Chain(g, Walks, Start(n), PlainOp(t), Append(s, x))
               /\ PlainWalk(t, n, Append(s, x)) = g[Len(Append(s, x))]
  BY <1>1, PlainChain
<1>5. PlainWalk(t, n, s) \in Walks /\ PlainWalk(t, n, << >>) = Start(n)
  <2>1. h \in [0 .. Len(s) -> Walks] /\ e[0] = Start(n) /\ Len(s) \in 0 .. Len(s)
    BY <1>1, <1>2, <1>3 DEF Chain
  <2>2. QED
    BY <1>2, <1>3, <2>1
<1>6. GoesOn(g, h, PlainOp(t), s, x)
  <2>1. s \in Seq(STRING)
    BY DEF Texts
  <2>2. QED
    BY <1>1, <1>3, <1>4, <2>1, ChainAppend
<1>7. QED
  BY <1>3, <1>4, <1>5, <1>6, PlainOpType DEF GoesOn

LEMMA PlainWalkType ==
  ASSUME NEW t, IsTree(t), NEW n \in Nodes \cup {NoNode}, NEW s \in Texts
  PROVE  PlainWalk(t, n, s) \in Walks
<1>1. PICK h : Chain(h, Walks, Start(n), PlainOp(t), s) /\ PlainWalk(t, n, s) = h[Len(s)]
  BY PlainChain
<1>2. Len(s) \in 0 .. Len(s)
  BY LenProperties DEF Texts
<1>3. QED
  BY <1>1, <1>2 DEF Chain

\* A step to a link goes on to what it says.
Goal(t, w, link) ==
  PlainWalk(t, IF Target[link].abs THEN RootDir ELSE w.node, Target[link].names)

\* What a step to the file c, and one to the link c, make of the walk w.
IntoFile(w, c, u) ==
  /\ u \in Walks /\ u.node = c /\ u.links = Append(w.links, FALSE)
  /\ u.back = w.back /\ u.through = w.through \cup {c}

IntoLink(t, w, c, u) ==
  /\ u \in Walks /\ u.node = Goal(t, w, c).node /\ u.links = Append(w.links, TRUE)
  /\ u.back = w.back
  /\ u.through = w.through \cup {Goal(t, w, c).node, c} \cup Goal(t, w, c).through

LEMMA StepCases ==
  ASSUME NEW t, IsTree(t), NEW w \in Walks, NEW x \in STRING, NEW next, next = PlainStep(t, w, x)
  PROVE  /\ Step(t, w, x) \in Walks
         /\ next.node \notin DOMAIN Target => Step(t, w, x) = next
         /\ next.node \in DOMAIN Target => IntoLink(t, w, next.node, Step(t, w, x))
<1>1. next \in Walks
  BY PlainStepType
<1>2. CASE next.node \notin DOMAIN Target
  BY <1>1, <1>2 DEF Step
<1>3. CASE next.node \in DOMAIN Target
  <2> DEFINE goal == Goal(t, w, next.node)
             into == Into(w, goal.node, TRUE)
  <2>1. Target[next.node] \in PathValues /\ RootDir \in Nodes
    BY <1>3, PathAssumption
  <2>2. Target[next.node].names \in Texts /\ w.node \in Nodes \cup {NoNode}
    BY <2>1 DEF PathValues, Texts, Walks
  <2>3. goal \in Walks
    BY <2>1, <2>2, PlainWalkType DEF Goal
  <2>4. goal.node \in Nodes \cup {NoNode} /\ goal.through \subseteq Nodes \cup {NoNode}
    BY <2>3 DEF Walks
  <2> HIDE DEF goal
  <2>5. /\ into \in Walks /\ into.node = goal.node /\ into.links = Append(w.links, TRUE)
        /\ into.back = w.back /\ into.through = w.through \cup {goal.node}
    <3>1. PICK n \in Nodes \cup {NoNode} : n = goal.node
      BY <2>4
    <3>2. PICK link \in BOOLEAN : link = TRUE
      OBVIOUS
    <3>3. /\ Into(w, n, link) \in Walks
          /\ Into(w, n, link).node = n /\ Into(w, n, link).links = Append(w.links, link)
          /\ Into(w, n, link).back = w.back /\ Into(w, n, link).through = w.through \cup {n}
      BY IntoType
    <3>4. QED
      BY <3>1, <3>2, <3>3
  <2>6. Step(t, w, x) = [into EXCEPT !.through = @ \cup goal.through \cup {next.node}]
    BY <1>3 DEF Step, Goal, goal
  <2>7. next.node \in Nodes \cup {NoNode}
    BY <1>1 DEF Walks
  <2> HIDE DEF into
  <2> DEFINE through == into.through \cup goal.through \cup {next.node}
  <2>a. through \in SUBSET (Nodes \cup {NoNode})
    BY <2>4, <2>5, <2>7 DEF Walks
  <2>b. Step(t, w, x) = [into EXCEPT !.through = through]
    BY <2>6
  <2>c. through = into.through \cup goal.through \cup {next.node}
    OBVIOUS
  <2> HIDE DEF through
  <2>8. /\ Step(t, w, x) \in Walks /\ Step(t, w, x).node = into.node
        /\ Step(t, w, x).links = into.links /\ Step(t, w, x).back = into.back
        /\ Step(t, w, x).through = through
    BY <2>a, <2>b, <2>5 DEF Walks
  <2>9. Step(t, w, x).through = w.through \cup {goal.node, next.node} \cup goal.through
    BY <2>5, <2>8, <2>c
  <2>10. QED
    BY <1>3, <2>3, <2>5, <2>8, <2>9 DEF goal, IntoLink
<1>4. QED
  BY <1>2, <1>3

StepOp(t) == [p \in Walks \X STRING |-> Step(t, p[1], p[2])]

LEMMA StepOpType ==
  ASSUME NEW t, IsTree(t), NEW v \in Walks, NEW x \in STRING
  PROVE  Step(t, v, x) \in Walks /\ StepOp(t)[<<v, x>>] = Step(t, v, x)
  BY StepCases DEF StepOp

LEMMA WalkChain ==
  ASSUME NEW t, IsTree(t), NEW n \in Nodes \cup {NoNode}, NEW s \in Texts
  PROVE  \E h : Chain(h, Walks, Start(n), StepOp(t), s) /\ WalkNames(t, n, s) = h[Len(s)]
<1> DEFINE m == Len(s)
           op == [p \in (1 .. m) \X Walks |-> Step(t, p[2], s[p[1]])]
           Values(g) == [S \in SUBSET DOMAIN s |->
                           IF S = {} THEN Start(n) ELSE Step(t, g[S \ {Max(S)}], s[Max(S)])]
           g == CHOOSE g : g = Values(g)
<1>1. /\ m \in Nat /\ DOMAIN s = 1 .. m /\ \A k \in 1 .. m : s[k] \in STRING
      /\ Start(n) \in Walks
  BY LenProperties, ElementOfSeq, StartType DEF Texts
<1>2. Stays(1 .. m, Walks, op)
  BY <1>1, StepOpType DEF Stays
<1>3. PICK f : FoldsSets(f, m, Walks, Start(n), op)
  <2> HIDE DEF op
  <2>1. QED
    BY <1>1, <1>2, FoldRecursion
<1>4. f = Values(f)
  <2>1. ASSUME NEW S \in SUBSET (1 .. m), S # {}
        PROVE  f[S] = Step(t, f[S \ {Max(S)}], s[Max(S)])
    <3>1. Max(S) \in 1 .. m
      <4> HIDE DEF m
      <4>1. Max(S) \in S
        BY <1>1, <2>1, MaxOf
      <4>2. QED
        BY <4>1
    <3>2. f[S \ {Max(S)}] \in Walks /\ f[S] = op[<<Max(S), f[S \ {Max(S)}]>>]
      <4> HIDE DEF op
      <4>1. f \in [SUBSET (1 .. m) -> Walks]
        BY <1>3 DEF FoldsSets
      <4>2. S \in (SUBSET (1 .. m)) \ {{}} /\ S \ {Max(S)} \in SUBSET (1 .. m)
        BY <2>1
      <4>3. QED
        BY <1>3, <4>1, <4>2 DEF FoldsSets
    <3>3. QED
      BY <3>1, <3>2
  <2>2. f = [S \in SUBSET (1 .. m) |-> f[S]] /\ f[{}] = Start(n)
    BY <1>3 DEF FoldsSets
  <2>3. QED
    BY <1>1, <2>1, <2>2
<1>5. g = Values(g)
  <2>1. \E e : e = Values(e)
    BY <1>4
  <2>2. QED
    BY <2>1
<1>6. WalkNames(t, n, s) = g[DOMAIN s]
  BY DEF WalkNames, FoldLeft, MapThenFoldSet
<1>7. ASSUME NEW k \in 1 .. m PROVE g[1 .. k] = Step(t, g[1 .. k - 1], s[k])
  <2>1. /\ Max(1 .. k) = k /\ (1 .. k) \ {k} = 1 .. k - 1
        /\ 1 .. k # {} /\ 1 .. k \in SUBSET (1 .. m)
    BY <1>1, MaxUpTo
  <2> HIDE DEF g
  <2>2. QED
    BY <1>1, <1>5, <2>1
<1>8. g[{}] = Start(n)
  <2> HIDE DEF g
  <2>1. QED
    BY <1>5
<1> HIDE DEF g
<1>9. /\ s \in Seq(STRING) /\ Adds(Walks, STRING, StepOp(t))
      /\ Iterates(g, Walks, Start(n), StepOp(t), s)
  <2>1. s \in Seq(STRING)
    BY DEF Texts
  <2>2. Adds(Walks, STRING, StepOp(t))
    BY StepOpType DEF Adds
  <2>3. ASSUME NEW k \in 1 .. m, g[1 .. k - 1] \in Walks
        PROVE  g[1 .. k] = StepOp(t)[<<g[1 .. k - 1], s[k]>>]
    <3>1. PICK w \in Walks, x \in STRING : w = g[1 .. k - 1] /\ x = s[k]
      BY <1>1, <2>3
    <3>2. StepOp(t)[<<w, x>>] = Step(t, w, x)
      BY StepOpType
    <3>3. QED
      BY <1>7, <3>1, <3>2
  <2>4. QED
    BY <1>8, <2>1, <2>2, <2>3 DEF Iterates
<1>10. PICK h : Chain(h, Walks, Start(n), StepOp(t), s) /\ g[DOMAIN s] = h[Len(s)]
  BY <1>1, <1>9, FoldChain
<1>11. QED
  BY <1>6, <1>10

LEMMA WalkAppend ==
  ASSUME NEW t, IsTree(t), NEW n \in Nodes \cup {NoNode}, NEW s \in Texts, NEW x \in STRING
  PROVE  /\ WalkNames(t, n, s) \in Walks /\ WalkNames(t, n, << >>) = Start(n)
         /\ WalkNames(t, n, Append(s, x)) = Step(t, WalkNames(t, n, s), x)
<1>1. /\ << >> \in Texts /\ Start(n) \in Walks /\ Append(s, x) \in Texts /\ Len(<< >>) = 0
      /\ Len(s) \in Nat
  BY EmptySeq, StartType, AppendProperties, LenProperties DEF Texts
<1>2. PICK e : Chain(e, Walks, Start(n), StepOp(t), << >>) /\ WalkNames(t, n, << >>) = e[0]
  BY <1>1, WalkChain
<1>3. PICK h : Chain(h, Walks, Start(n), StepOp(t), s) /\ WalkNames(t, n, s) = h[Len(s)]
  BY WalkChain
<1>4. PICK g : /\ Chain(g, Walks, Start(n), StepOp(t), Append(s, x))
               /\ WalkNames(t, n, Append(s, x)) = g[Len(Append(s, x))]
  BY <1>1, WalkChain
<1>5. WalkNames(t, n, s) \in Walks /\ WalkNames(t, n, << >>) = Start(n)
  <2>1. h \in [0 .. Len(s) -> Walks] /\ e[0] = Start(n) /\ Len(s) \in 0 .. Len(s)
    BY <1>1, <1>2, <1>3 DEF Chain
  <2>2. QED
    BY <1>2, <1>3, <2>1
<1>6. GoesOn(g, h, StepOp(t), s, x)
  <2>1. s \in Seq(STRING)
    BY DEF Texts
  <2>2. QED
    BY <1>1, <1>3, <1>4, <2>1, ChainAppend
<1>7. QED
  BY <1>3, <1>4, <1>5, <1>6, StepOpType DEF GoesOn

-----------------------------------------------------------------------------
(* Sequences.                                                               *)

LEMMA Single ==
  ASSUME NEW X, NEW x \in X
  PROVE  <<x>> \in Seq(X)
  OBVIOUS

LEMMA SubSeqSteps ==
  ASSUME NEW X, NEW s \in Seq(X)
  PROVE  /\ Len(s) \in Nat /\ SubSeq(s, 1, Len(s)) = s /\ SubSeq(s, 1, 0) = << >>
         /\ \A k \in 0 .. Len(s) : SubSeq(s, 1, k) \in Seq(X) /\ Len(SubSeq(s, 1, k)) = k
         /\ \A k \in 1 .. Len(s) :
              s[k] \in X /\ SubSeq(s, 1, k) = Append(SubSeq(s, 1, k - 1), s[k])
<1>1. Len(s) \in Nat /\ SubSeq(s, 1, Len(s)) = s /\ \A k \in 1 .. Len(s) : s[k] \in X
  BY LenProperties, SubSeqFull, ElementOfSeq
<1>2. SubSeq(s, 1, 0) = << >>
  BY SubSeqEmpty
<1>3. ASSUME NEW k \in 0 .. Len(s)
      PROVE  SubSeq(s, 1, k) \in Seq(X) /\ Len(SubSeq(s, 1, k)) = k
  <2>1. \A i \in 1 .. k : s[i] \in X
    BY <1>1
  <2>2. k \in Int /\ 1 \in Int
    BY <1>1
  <2>3. QED
    BY <2>1, <2>2, SubSeqProperties
<1>4. ASSUME NEW k \in 1 .. Len(s)
      PROVE  SubSeq(s, 1, k) = Append(SubSeq(s, 1, k - 1), s[k])
  <2>1. 1 \in 1 .. Len(s) /\ k - 1 \in 0 .. Len(s)
    BY <1>1
  <2>2. SubSeq(s, 1, k) = SubSeq(s, 1, k - 1) \o <<s[k]>>
    BY <2>1, SubSeqRecursiveSecond
  <2>3. SubSeq(s, 1, k - 1) \in Seq(X) /\ s[k] \in X
    BY <1>1, <1>3, <2>1
  <2>4. QED
    BY <2>2, <2>3, AppendIsConcat
<1>5. QED
  BY <1>1, <1>2, <1>3, <1>4

LEMMA SubSeqAppend ==
  ASSUME NEW X, NEW s \in Seq(X), NEW x \in X, NEW k \in 0 .. Len(s)
  PROVE  SubSeq(Append(s, x), 1, k) = SubSeq(s, 1, k)
<1>1. Append(s, x) = s \o <<x>> /\ <<x>> \in Seq(X) /\ Len(s) \in Nat
  BY AppendIsConcat, Single, LenProperties
<1>2. CASE k = 0
  BY <1>2, SubSeqEmpty
<1>3. CASE k # 0
  <2>1. 1 \in 1 .. Len(s) /\ k \in 1 .. Len(s)
    BY <1>1, <1>3
  <2>2. SubSeq(s \o <<x>>, 1, k) = SubSeq(s, 1, k)
    BY <1>1, <2>1, SubSeqOfConcat1
  <2>3. QED
    BY <1>1, <2>2
<1>4. QED
  BY <1>2, <1>3

LEMMA FrontLast ==
  ASSUME NEW X, NEW s \in Seq(X)
  PROVE  /\ \A x \in X : Front(Append(s, x)) = s /\ Last(Append(s, x)) = x
         /\ s # << >> => /\ Front(s) \in Seq(X) /\ Last(s) \in X /\ Len(Front(s)) = Len(s) - 1
                         /\ s = Append(Front(s), Last(s))
<1>1. ASSUME NEW x \in X PROVE Front(Append(s, x)) = s /\ Last(Append(s, x)) = x
  <2>1. /\ Append(s, x) \in Seq(X) /\ Len(Append(s, x)) = Len(s) + 1 /\ Len(s) \in Nat
        /\ Append(s, x)[Len(s) + 1] = x
    BY AppendProperties, LenProperties
  <2>2. Append(s, x) = Append(SubSeq(Append(s, x), 1, Len(s)), x)
    <3>1. Len(s) + 1 \in 1 .. Len(Append(s, x)) /\ Len(s) + 1 - 1 = Len(s)
      BY <2>1
    <3>2. QED
      BY <2>1, <3>1, SubSeqSteps
  <2>3. SubSeq(Append(s, x), 1, Len(s)) \in Seq(X)
    BY <2>1, SubSeqSteps
  <2>4. SubSeq(Append(s, x), 1, Len(s)) = s
    BY <2>2, <2>3, AppendInjective
  <2>5. QED
    BY <2>1, <2>4 DEF Front, Last
<1>2. ASSUME s # << >>
      PROVE  /\ Front(s) \in Seq(X) /\ Last(s) \in X /\ Len(Front(s)) = Len(s) - 1
             /\ s = Append(Front(s), Last(s))
  <2>1. Len(s) \in Nat \ {0}
    BY <1>2, EmptySeq
  <2>2. Len(s) \in 1 .. Len(s) /\ Len(s) - 1 \in 0 .. Len(s)
    BY <2>1
  <2>3. QED
    BY <2>2, SubSeqSteps DEF Front, Last
<1>3. QED
  BY <1>1, <1>2

-----------------------------------------------------------------------------
(* The tree.                                                                *)

LEMMA TreeRooted ==
  ASSUME NEW t, IsTree(t), NEW up, \A n \in Nodes \ {RootDir} : up[n] = t[n].dir
  PROVE  Rooted(Nodes, RootDir, up)
<1>1. RootDir \in Nodes /\ \A n \in Nodes \ {RootDir} : t[n].dir \in Nodes
  BY TreeType
<1>2. ASSUME NEW S \in SUBSET (Nodes \ {RootDir}), S # {} PROVE \E n \in S : up[n] \notin S
  <2>1. PICK n \in S : t[n].dir \notin S
    BY <1>2 DEF IsTree
  <2>2. QED
    BY <2>1
<1>3. QED
  BY <1>1, <1>2 DEF Rooted

LEMMA PathToValue ==
  ASSUME NEW t, IsTree(t)
  PROVE  /\ PathTo(t)[RootDir] = << >>
         /\ \A n \in Nodes : PathTo(t)[n] \in Seq(Names)
         /\ \A n \in Nodes \ {RootDir} :
              PathTo(t)[n] = Append(PathTo(t)[t[n].dir], t[n].name)
<1> DEFINE up == [n \in Nodes \ {RootDir} |-> t[n].dir]
           op == [p \in (Nodes \ {RootDir}) \X Seq(Names) |-> Append(p[2], t[p[1]].name)]
           Values(g) == [n \in Nodes |->
                           IF n = RootDir THEN << >> ELSE Append(g[t[n].dir], t[n].name)]
           g == CHOOSE g : g = Values(g)
<1>1. /\ RootDir \in Nodes /\ << >> \in Seq(Names)
      /\ \A n \in Nodes \ {RootDir} : t[n].dir \in Nodes /\ t[n].name \in Names
  BY TreeType, EmptySeq
<1>2. Stays(Nodes \ {RootDir}, Seq(Names), op)
  BY <1>1, AppendProperties DEF Stays
<1>3. Rooted(Nodes, RootDir, up)
  BY TreeRooted
<1>4. PICK f \in [Nodes -> Seq(Names)] : Follows(f, Nodes, RootDir, up, << >>, op)
  <2> HIDE DEF up, op
  <2>1. QED
    BY <1>1, <1>2, <1>3, Recursion
<1>5. f = Values(f)
  <2>1. ASSUME NEW n \in Nodes \ {RootDir} PROVE f[n] = Append(f[t[n].dir], t[n].name)
    <3>1. f[n] = op[<<n, f[up[n]]>>] /\ up[n] = t[n].dir
      BY <1>4 DEF Follows
    <3>2. f[t[n].dir] \in Seq(Names)
      BY <1>1
    <3>3. QED
      BY <3>1, <3>2
  <2>2. f[RootDir] = << >> /\ f = [n \in Nodes |-> f[n]]
    BY <1>4 DEF Follows
  <2>3. QED
    BY <2>1, <2>2
<1>6. g = Values(g)
  <2>1. \E e : e = Values(e)
    BY <1>5
  <2>2. QED
    BY <2>1
<1>7. PathTo(t) = g
  BY DEF PathTo
<1> HIDE DEF g
<1>8. g[RootDir] = << >> /\ \A n \in Nodes \ {RootDir} : g[n] = Append(g[t[n].dir], t[n].name)
  BY <1>1, <1>6
<1>9. \A n \in Nodes : g[n] \in Seq(Names)
  <2> DEFINE S == {n \in Nodes \ {RootDir} : g[n] \notin Seq(Names)}
  <2>1. ASSUME S # {} PROVE FALSE
    <3>1. PICK n \in S : t[n].dir \notin S
      BY <2>1 DEF IsTree
    <3>2. g[t[n].dir] \in Seq(Names)
      BY <1>1, <1>8, <3>1
    <3>3. t[n].name \in Names /\ g[n] = Append(g[t[n].dir], t[n].name) /\ g[n] \notin Seq(Names)
      BY <1>1, <1>8, <3>1
    <3>4. Append(g[t[n].dir], t[n].name) \in Seq(Names)
      BY <3>2, <3>3, AppendProperties
    <3>5. QED
      BY <3>3, <3>4
  <2>2. QED
    BY <1>1, <1>8, <2>1
<1>10. QED
  BY <1>7, <1>8, <1>9

LEMMA BelowValue ==
  ASSUME NEW t, IsTree(t), NEW d
  PROVE  /\ ~Below(t, RootDir, d)
         /\ \A n \in Nodes \ {RootDir} :
              Below(t, n, d) <=> t[n].dir = d \/ Below(t, t[n].dir, d)
         /\ \A n \in Nodes : Below(t, n, d) \in BOOLEAN
<1> DEFINE up == [n \in Nodes \ {RootDir} |-> t[n].dir]
           op == [p \in (Nodes \ {RootDir}) \X BOOLEAN |-> t[p[1]].dir = d \/ p[2]]
           Values(g) == [n \in Nodes |-> n # RootDir /\ (t[n].dir = d \/ g[t[n].dir])]
           g == CHOOSE g : g = Values(g)
<1>1. RootDir \in Nodes /\ \A n \in Nodes \ {RootDir} : t[n].dir \in Nodes
  BY TreeType
<1>2. Stays(Nodes \ {RootDir}, BOOLEAN, op)
  BY DEF Stays
<1>3. Rooted(Nodes, RootDir, up)
  BY TreeRooted
<1>4. PICK f \in [Nodes -> BOOLEAN] : Follows(f, Nodes, RootDir, up, FALSE, op)
  <2>1. FALSE \in BOOLEAN
    OBVIOUS
  <2> HIDE DEF up, op
  <2>2. QED
    BY <1>1, <1>2, <1>3, <2>1, Recursion
<1>5. f = Values(f)
  <2>1. ASSUME NEW n \in Nodes \ {RootDir} PROVE f[n] = (t[n].dir = d \/ f[t[n].dir])
    <3>1. f[n] = op[<<n, f[up[n]]>>] /\ up[n] = t[n].dir
      BY <1>4 DEF Follows
    <3>2. f[t[n].dir] \in BOOLEAN
      BY <1>1
    <3>3. QED
      BY <3>1, <3>2
  <2>2. f[RootDir] = FALSE /\ f = [n \in Nodes |-> f[n]]
    BY <1>4 DEF Follows
  <2>3. QED
    BY <2>1, <2>2
<1>6. g = Values(g)
  <2>1. \E e : e = Values(e)
    BY <1>5
  <2>2. QED
    BY <2>1
<1>7. \A n : Below(t, n, d) = g[n]
  BY DEF Below
<1> HIDE DEF g
<1>8. /\ g[RootDir] = FALSE
      /\ \A n \in Nodes \ {RootDir} : g[n] = (t[n].dir = d \/ g[t[n].dir])
      /\ \A n \in Nodes : g[n] \in BOOLEAN
  BY <1>1, <1>6
<1>9. QED
  BY <1>7, <1>8

-----------------------------------------------------------------------------
(* Walks.                                                                   *)

\* Induction over the numbers up to m, up and down.
LEMMA UpTo ==
  ASSUME NEW m \in Nat, NEW T, 0 \in T, \A k \in 1 .. m : k - 1 \in T => k \in T
  PROVE  \A k \in 0 .. m : k \in T
<1> DEFINE S == {k \in 0 .. m : k \notin T}
<1>1. ASSUME S # {} PROVE FALSE
  <2>1. S \subseteq Nat
    OBVIOUS
  <2>2. PICK k \in S : \A j \in S : k <= j
    <3> HIDE DEF S
    <3>1. QED
      BY <1>1, <2>1, NatMin
  <2>3. k \in 0 .. m /\ k \notin T /\ k # 0
    BY <2>2
  <2>4. k \in 1 .. m /\ k - 1 \in 0 .. m /\ ~(k <= k - 1)
    BY <2>3
  <2>5. k - 1 \in T
    BY <2>2, <2>4
  <2>6. QED
    BY <2>3, <2>4, <2>5
<1>2. QED
  BY <1>1

LEMMA DownFrom ==
  ASSUME NEW m \in Nat, NEW T, m \in T, \A k \in 1 .. m : k \in T => k - 1 \in T
  PROVE  \A k \in 0 .. m : k \in T
<1> DEFINE S == {k \in 0 .. m : m - k \in T}
<1>1. 0 \in S
  OBVIOUS
<1>2. ASSUME NEW k \in 1 .. m, k - 1 \in S PROVE k \in S
  <2>1. m - (k - 1) \in T /\ m - (k - 1) \in 1 .. m /\ (m - (k - 1)) - 1 = m - k
    BY <1>2
  <2>2. QED
    BY <2>1
<1>3. \A k \in 0 .. m : k \in S
  <2> HIDE DEF S
  <2>1. QED
    BY <1>1, <1>2, UpTo
<1>4. ASSUME NEW k \in 0 .. m PROVE k \in T
  <2>1. m - k \in 0 .. m /\ m - (m - k) = k
    OBVIOUS
  <2>2. m - k \in S
    BY <1>3, <2>1
  <2>3. QED
    BY <2>1, <2>2
<1>5. QED
  BY <1>4

\* The four things that a name does to a walk.
LEMMA StepStuck ==
  ASSUME NEW t, IsTree(t), NEW w \in Walks, NEW x \in STRING, w.node \notin Dirs
  PROVE  Step(t, w, x) \in Walks /\ Step(t, w, x) = [w EXCEPT !.node = NoNode]
<1>1. PlainStep(t, w, x) = [w EXCEPT !.node = NoNode]
  BY DEF PlainStep
<1>2. PlainStep(t, w, x).node \notin DOMAIN Target
  BY <1>1, PathAssumption DEF Walks
<1>3. QED
  BY <1>1, <1>2, StepCases

LEMMA StepDot ==
  ASSUME NEW t, IsTree(t), NEW w \in Walks, w.node \in Dirs, "." \in STRING
  PROVE  Step(t, w, ".") = w
<1>1. PlainStep(t, w, ".") = w
  BY DEF PlainStep
<1>2. PlainStep(t, w, ".").node \notin DOMAIN Target
  BY <1>1, PathAssumption DEF Walks
<1>3. QED
  BY <1>1, <1>2, StepCases

LEMMA StepUp ==
  ASSUME NEW t, IsTree(t), NEW w \in Walks, w.node \in Dirs, ".." \in STRING
  PROVE  Step(t, w, "..") = Up(t, w)
<1>1. PlainStep(t, w, "..") = Up(t, w)
  BY DEF PlainStep
<1>2. Dirs \subseteq Nodes
  BY PathAssumption
<1>3. Up(t, w).node \in Dirs
  BY <1>2, UpType, TreeType
<1>4. PlainStep(t, w, "..").node \notin DOMAIN Target
  BY <1>1, <1>3, PathAssumption
<1>5. QED
  BY <1>1, <1>4, StepCases

LEMMA StepInto ==
  ASSUME NEW t, IsTree(t), NEW w \in Walks, w.node \in Dirs, NEW x \in STRING \ Dots,
         NEW c, c = Child(t, w.node, x), NEW u, u = Step(t, w, x)
  PROVE  /\ c \in Nodes \cup {NoNode}
         /\ c \notin DOMAIN Target => IntoFile(w, c, u)
         /\ c \in DOMAIN Target => IntoLink(t, w, c, u)
<1>1. c \in Nodes \cup {NoNode}
  BY ChildType
<1>2. PlainStep(t, w, x) = Into(w, c, FALSE)
  BY DEF PlainStep, Dots
<1>3. FALSE \in BOOLEAN
  OBVIOUS
<1>4. IntoFile(w, c, Into(w, c, FALSE))
  BY <1>1, <1>3, IntoType DEF IntoFile
<1>5. IntoFile(w, c, PlainStep(t, w, x)) /\ PlainStep(t, w, x).node = c
  BY <1>2, <1>4 DEF IntoFile
<1>6. QED
  BY <1>1, <1>5, StepCases

\* Where a step leads does not depend on how the walk came there.
LEMMA StepNode ==
  ASSUME NEW t, IsTree(t), NEW w \in Walks, NEW v \in Walks, w.node = v.node, NEW x \in STRING
  PROVE  Step(t, w, x).node = Step(t, v, x).node
<1>1. CASE w.node \notin Dirs
  BY <1>1, StepStuck DEF Walks
<1>2. CASE w.node \in Dirs /\ x = "."
  BY <1>2, StepDot
<1>3. CASE w.node \in Dirs /\ x = ".."
  <2>1. w.node \in Nodes
    BY <1>3, PathAssumption
  <2>2. QED
    BY <1>3, <2>1, StepUp, UpType
<1>4. CASE w.node \in Dirs /\ x \notin Dots
  <2> DEFINE c == Child(t, w.node, x)
  <2>1. Goal(t, w, c) = Goal(t, v, c) /\ c = Child(t, v.node, x) /\ c = Child(t, w.node, x)
    BY DEF Goal
  <2>2. v.node \in Dirs /\ x \in STRING \ Dots
    BY <1>4
  <2> HIDE DEF c
  <2>3. /\ c \notin DOMAIN Target => IntoFile(w, c, Step(t, w, x)) /\ IntoFile(v, c, Step(t, v, x))
        /\ c \in DOMAIN Target => IntoLink(t, w, c, Step(t, w, x)) /\ IntoLink(t, v, c, Step(t, v, x))
    BY <1>4, <2>1, <2>2, StepInto
  <2>4. QED
    BY <2>1, <2>3 DEF IntoFile, IntoLink
<1>5. QED
  BY <1>1, <1>2, <1>3, <1>4 DEF Dots

\* A walk along the first k names.
WalkAt(t, n, s, k) == WalkNames(t, n, SubSeq(s, 1, k))

LEMMA WalkSteps ==
  ASSUME NEW t, IsTree(t), NEW n \in Nodes \cup {NoNode}, NEW s \in Texts
  PROVE  /\ WalkAt(t, n, s, 0) = Start(n) /\ WalkAt(t, n, s, Len(s)) = WalkNames(t, n, s)
         /\ \A k \in 0 .. Len(s) : WalkAt(t, n, s, k) \in Walks
         /\ \A k \in 1 .. Len(s) : /\ s[k] \in STRING /\ WalkAt(t, n, s, k - 1) \in Walks
                                   /\ WalkAt(t, n, s, k) = Step(t, WalkAt(t, n, s, k - 1), s[k])
<1> DEFINE P(k) == SubSeq(s, 1, k)
<1>1. /\ Len(s) \in Nat /\ P(0) = << >> /\ P(Len(s)) = s
      /\ \A k \in 0 .. Len(s) : P(k) \in Texts
      /\ \A k \in 1 .. Len(s) : s[k] \in STRING /\ P(k) = Append(P(k - 1), s[k])
  BY SubSeqSteps DEF Texts
<1>2. ASSUME NEW k \in 1 .. Len(s)
      PROVE  /\ s[k] \in STRING /\ WalkAt(t, n, s, k - 1) \in Walks
             /\ WalkAt(t, n, s, k) = Step(t, WalkAt(t, n, s, k - 1), s[k])
  <2>1. k - 1 \in 0 .. Len(s)
    BY <1>1
  <2>2. P(k - 1) \in Texts /\ s[k] \in STRING /\ P(k) = Append(P(k - 1), s[k])
    BY <1>1, <2>1
  <2>3. PICK q \in Texts : q = P(k - 1) /\ P(k) = Append(q, s[k])
    BY <2>2
  <2>4. PICK x \in STRING : x = s[k]
    BY <2>2
  <2>5. WalkNames(t, n, Append(q, x)) = Step(t, WalkNames(t, n, q), x) /\ WalkNames(t, n, q) \in Walks
    BY WalkAppend
  <2>6. WalkAt(t, n, s, k - 1) = WalkNames(t, n, P(k - 1)) /\ WalkAt(t, n, s, k) = WalkNames(t, n, P(k))
    BY DEF WalkAt
  <2> HIDE DEF P
  <2>7. QED
    BY <2>3, <2>4, <2>5, <2>6
<1>3. WalkAt(t, n, s, 0) = Start(n)
  <2>1. PICK h : Chain(h, Walks, Start(n), StepOp(t), << >>) /\ WalkNames(t, n, << >>) = h[Len(<< >>)]
    BY WalkChain, EmptySeq DEF Texts
  <2>2. h[0] = Start(n) /\ Len(<< >>) = 0
    BY <2>1, EmptySeq DEF Chain
  <2>3. QED
    BY <1>1, <2>1, <2>2 DEF WalkAt
<1>4. ASSUME NEW k \in 0 .. Len(s) PROVE WalkAt(t, n, s, k) \in Walks
  <2>1. CASE k = 0
    BY <1>3, <2>1, StartType
  <2>2. CASE k # 0
    <3>1. k \in 1 .. Len(s)
      BY <2>2
    <3>2. QED
      BY <1>2, <3>1, StepOpType
  <2>3. QED
    BY <2>1, <2>2
<1>5. QED
  BY <1>1, <1>2, <1>3, <1>4 DEF WalkAt

PlainAt(t, n, s, k) == PlainWalk(t, n, SubSeq(s, 1, k))

LEMMA PlainSteps ==
  ASSUME NEW t, IsTree(t), NEW n \in Nodes \cup {NoNode}, NEW s \in Texts
  PROVE  /\ PlainAt(t, n, s, 0) = Start(n) /\ PlainAt(t, n, s, Len(s)) = PlainWalk(t, n, s)
         /\ \A k \in 0 .. Len(s) : PlainAt(t, n, s, k) \in Walks
         /\ \A k \in 1 .. Len(s) : /\ s[k] \in STRING /\ PlainAt(t, n, s, k - 1) \in Walks
                                   /\ PlainAt(t, n, s, k) = PlainStep(t, PlainAt(t, n, s, k - 1), s[k])
<1> DEFINE P(k) == SubSeq(s, 1, k)
<1>1. /\ Len(s) \in Nat /\ P(0) = << >> /\ P(Len(s)) = s
      /\ \A k \in 0 .. Len(s) : P(k) \in Texts
      /\ \A k \in 1 .. Len(s) : s[k] \in STRING /\ P(k) = Append(P(k - 1), s[k])
  BY SubSeqSteps DEF Texts
<1>2. ASSUME NEW k \in 1 .. Len(s)
      PROVE  /\ s[k] \in STRING /\ PlainAt(t, n, s, k - 1) \in Walks
             /\ PlainAt(t, n, s, k) = PlainStep(t, PlainAt(t, n, s, k - 1), s[k])
  <2>1. k - 1 \in 0 .. Len(s)
    BY <1>1
  <2>2. P(k - 1) \in Texts /\ s[k] \in STRING /\ P(k) = Append(P(k - 1), s[k])
    BY <1>1, <2>1
  <2>3. PICK q \in Texts : q = P(k - 1) /\ P(k) = Append(q, s[k])
    BY <2>2
  <2>4. PICK x \in STRING : x = s[k]
    BY <2>2
  <2>5. PlainWalk(t, n, Append(q, x)) = PlainStep(t, PlainWalk(t, n, q), x) /\ PlainWalk(t, n, q) \in Walks
    BY PlainAppend
  <2>6. PlainAt(t, n, s, k - 1) = PlainWalk(t, n, P(k - 1)) /\ PlainAt(t, n, s, k) = PlainWalk(t, n, P(k))
    BY DEF PlainAt
  <2> HIDE DEF P
  <2>7. QED
    BY <2>3, <2>4, <2>5, <2>6
<1>3. PlainAt(t, n, s, 0) = Start(n)
  <2>1. PICK h : Chain(h, Walks, Start(n), PlainOp(t), << >>) /\ PlainWalk(t, n, << >>) = h[Len(<< >>)]
    BY PlainChain, EmptySeq DEF Texts
  <2>2. h[0] = Start(n) /\ Len(<< >>) = 0
    BY <2>1, EmptySeq DEF Chain
  <2>3. QED
    BY <1>1, <2>1, <2>2 DEF PlainAt
<1>4. ASSUME NEW k \in 0 .. Len(s) PROVE PlainAt(t, n, s, k) \in Walks
  <2>1. CASE k = 0
    BY <1>3, <2>1, StartType
  <2>2. CASE k # 0
    <3>1. k \in 1 .. Len(s)
      BY <2>2
    <3>2. QED
      BY <1>2, <3>1, PlainOpType
  <2>3. QED
    BY <2>1, <2>2
<1>5. QED
  BY <1>1, <1>2, <1>3, <1>4 DEF PlainAt

\* A walk that comes to an end was in a directory before each name.
LEMMA WalkThere ==
  ASSUME NEW t, IsTree(t), NEW n \in Nodes \cup {NoNode}, NEW s \in Texts,
         WalkNames(t, n, s).node # NoNode
  PROVE  /\ \A k \in 0 .. Len(s) : WalkAt(t, n, s, k).node # NoNode
         /\ \A k \in 1 .. Len(s) : WalkAt(t, n, s, k - 1).node \in Dirs
<1> DEFINE T == {k \in 0 .. Len(s) : WalkAt(t, n, s, k).node # NoNode}
<1>1. Len(s) \in Nat
  BY LenProperties DEF Texts
<1>2. Len(s) \in T
  BY <1>1, WalkSteps
<1>3. ASSUME NEW k \in 1 .. Len(s), WalkAt(t, n, s, k).node # NoNode
      PROVE  WalkAt(t, n, s, k - 1).node \in Dirs /\ WalkAt(t, n, s, k - 1).node # NoNode
  <2>1. /\ s[k] \in STRING /\ WalkAt(t, n, s, k - 1) \in Walks
        /\ WalkAt(t, n, s, k) = Step(t, WalkAt(t, n, s, k - 1), s[k])
    BY WalkSteps
  <2>2. WalkAt(t, n, s, k - 1).node \in Dirs
    BY <1>3, <2>1, StepStuck DEF Walks
  <2>3. QED
    BY <2>2, PathAssumption
<1>4. \A k \in 1 .. Len(s) : k \in T => k - 1 \in T
  BY <1>1, <1>3
<1>5. \A k \in 0 .. Len(s) : k \in T
  <2> HIDE DEF T
  <2>1. QED
    BY <1>1, <1>2, <1>4, DownFrom
<1>6. \A k \in 1 .. Len(s) : k \in 0 .. Len(s)
  BY <1>1
<1>7. QED
  BY <1>3, <1>5, <1>6

LEMMA StepGrows ==
  ASSUME NEW t, IsTree(t), NEW w \in Walks, NEW x \in STRING
  PROVE  /\ w.through \subseteq Step(t, w, x).through
         /\ w.back => Step(t, w, x).back
<1>1. CASE w.node \notin Dirs
  BY <1>1, StepStuck DEF Walks
<1>2. CASE w.node \in Dirs /\ x = "."
  BY <1>2, StepDot
<1>3. CASE w.node \in Dirs /\ x = ".."
  <2>1. w.node \in Nodes
    BY <1>3, PathAssumption
  <2>2. Step(t, w, x) = Up(t, w)
    BY <1>3, StepUp
  <2>3. /\ Up(t, w).through = w.through \cup {w.node}
        /\ w.back => Up(t, w).back
    BY <2>1, UpType
  <2>4. QED
    BY <2>2, <2>3
<1>4. CASE w.node \in Dirs /\ x \notin Dots
  <2> DEFINE c == Child(t, w.node, x)
  <2>1. x \in STRING \ Dots /\ c = Child(t, w.node, x)
    BY <1>4
  <2> HIDE DEF c
  <2>2. IntoFile(w, c, Step(t, w, x)) \/ IntoLink(t, w, c, Step(t, w, x))
    BY <1>4, <2>1, StepInto
  <2>3. QED
    BY <2>2 DEF IntoFile, IntoLink
<1>5. QED
  BY <1>1, <1>2, <1>3, <1>4 DEF Dots

LEMMA WalkGrows ==
  ASSUME NEW t, IsTree(t), NEW n \in Nodes \cup {NoNode}, NEW s \in Texts, NEW k \in 0 .. Len(s)
  PROVE  /\ WalkAt(t, n, s, k).through \subseteq WalkNames(t, n, s).through
         /\ WalkAt(t, n, s, k).back => WalkNames(t, n, s).back
<1> DEFINE T == {i \in 0 .. Len(s) :
                   /\ WalkAt(t, n, s, i).through \subseteq WalkNames(t, n, s).through
                   /\ WalkAt(t, n, s, i).back => WalkNames(t, n, s).back}
<1>1. Len(s) \in Nat
  BY LenProperties DEF Texts
<1>2. Len(s) \in T
  BY <1>1, WalkSteps
<1>3. ASSUME NEW i \in 1 .. Len(s), i \in T PROVE i - 1 \in T
  <2>1. /\ s[i] \in STRING /\ WalkAt(t, n, s, i - 1) \in Walks
        /\ WalkAt(t, n, s, i) = Step(t, WalkAt(t, n, s, i - 1), s[i])
    BY WalkSteps
  <2>2. /\ WalkAt(t, n, s, i - 1).through \subseteq WalkAt(t, n, s, i).through
        /\ WalkAt(t, n, s, i - 1).back => WalkAt(t, n, s, i).back
    BY <2>1, StepGrows
  <2>3. i - 1 \in 0 .. Len(s)
    BY <1>1
  <2>4. QED
    BY <1>3, <2>2, <2>3
<1>4. \A i \in 0 .. Len(s) : i \in T
  <2> HIDE DEF T
  <2>1. QED
    BY <1>1, <1>2, <1>3, DownFrom
<1>5. QED
  BY <1>4

\* Files that are not removed.
Present(t, n) == n \in Nodes /\ Live(t, n)

LEMMA PresentParent ==
  ASSUME NEW t, IsTree(t), NEW n, Present(t, n)
  PROVE  Present(t, Parent(t, n))
<1>1. Parent(t, n) \in Nodes
  BY TreeType DEF Present
<1>2. CASE n = RootDir
  BY <1>1, <1>2 DEF Parent, Live, Present
<1>3. CASE n # RootDir
  <2>1. n \in Nodes \ {RootDir} /\ ~t[n].gone
    BY <1>3 DEF Present, Live
  <2>2. t[n].dir = RootDir \/ ~t[t[n].dir].gone
    BY <2>1 DEF IsTree
  <2>3. QED
    BY <1>1, <1>3, <2>2 DEF Parent, Live, Present
<1>4. QED
  BY <1>2, <1>3

LEMMA PresentPlainStep ==
  ASSUME NEW t, IsTree(t), NEW w \in Walks, Present(t, w.node), NEW x,
         PlainStep(t, w, x).node # NoNode
  PROVE  Present(t, PlainStep(t, w, x).node)
<1>1. w.node \in Dirs /\ w.node \in Nodes
  BY DEF PlainStep, Walks, Present
<1>2. CASE x = "."
  BY <1>1, <1>2 DEF PlainStep
<1>3. CASE x = ".." /\ x # "."
  BY <1>1, <1>3, UpType, PresentParent DEF PlainStep
<1>4. CASE x \notin Dots
  <2>1. FALSE \in BOOLEAN /\ Child(t, w.node, x) \in Nodes \cup {NoNode}
    BY ChildType
  <2>2. PlainStep(t, w, x).node = Child(t, w.node, x)
    BY <1>1, <1>4, <2>1, IntoType DEF PlainStep, Dots
  <2>3. QED
    BY <2>2, ChildType DEF Present, Live
<1>5. QED
  BY <1>2, <1>3, <1>4 DEF Dots

LEMMA PresentPlainWalk ==
  ASSUME NEW t, IsTree(t), NEW n, Present(t, n), NEW s \in Texts,
         PlainWalk(t, n, s).node # NoNode
  PROVE  Present(t, PlainWalk(t, n, s).node)
<1> DEFINE T == {k \in 0 .. Len(s) :
                   PlainAt(t, n, s, k).node # NoNode => Present(t, PlainAt(t, n, s, k).node)}
<1>1. Len(s) \in Nat /\ n \in Nodes \cup {NoNode}
  BY LenProperties DEF Texts, Present
<1>2. 0 \in T
  BY <1>1, PlainSteps DEF Start
<1>3. ASSUME NEW k \in 1 .. Len(s), k - 1 \in T PROVE k \in T
  <2> DEFINE v == PlainAt(t, n, s, k - 1)
  <2>1. s[k] \in STRING /\ v \in Walks /\ PlainAt(t, n, s, k) = PlainStep(t, v, s[k])
    BY <1>1, PlainSteps
  <2>2. CASE v.node # NoNode
    <3>1. Present(t, v.node)
      BY <1>3, <2>2
    <3>2. QED
      BY <1>1, <2>1, <3>1, PresentPlainStep
  <2>3. CASE v.node = NoNode
    <3>1. v.node \notin Dirs
      BY <2>3, PathAssumption
    <3>2. PlainStep(t, v, s[k]).node = NoNode
      BY <2>1, <3>1 DEF PlainStep, Walks
    <3>3. QED
      BY <1>1, <2>1, <3>2
  <2>4. QED
    BY <2>2, <2>3
<1>4. \A k \in 0 .. Len(s) : k \in T
  <2> HIDE DEF T
  <2>1. QED
    BY <1>1, <1>2, <1>3, UpTo
<1>5. QED
  BY <1>1, <1>4, PlainSteps

\* From a file that is not removed a walk comes to none that is.
LEMMA PresentStep ==
  ASSUME NEW t, IsTree(t), NEW w \in Walks, Present(t, w.node), NEW x \in STRING,
         Step(t, w, x).node # NoNode
  PROVE  Present(t, Step(t, w, x).node)
<1> DEFINE next == PlainStep(t, w, x)
<1>1. next \in Walks /\ next = PlainStep(t, w, x)
  BY PlainStepType
<1>2. CASE next.node \notin DOMAIN Target
  <2>1. Step(t, w, x) = next
    <3> HIDE DEF next
    <3>1. QED
      BY <1>1, <1>2, StepCases
  <2>2. QED
    BY <2>1, PresentPlainStep
<1>3. CASE next.node \in DOMAIN Target
  <2>1. Step(t, w, x).node = Goal(t, w, next.node).node
    <3> HIDE DEF next
    <3>1. IntoLink(t, w, next.node, Step(t, w, x))
      BY <1>1, <1>3, StepCases
    <3>2. QED
      BY <3>1 DEF IntoLink
  <2>2. /\ Present(t, IF Target[next.node].abs THEN RootDir ELSE w.node)
        /\ Target[next.node].names \in Texts
    BY <1>3, PathAssumption DEF Present, Live, PathValues, Texts
  <2>3. QED
    BY <2>1, <2>2, PresentPlainWalk DEF Goal
<1>4. QED
  BY <1>2, <1>3

-----------------------------------------------------------------------------
(* Names without dots.                                                      *)

Clean == Seq(STRING \ Dots)

LEMMA CleanTexts ==
  ASSUME NEW s \in Clean
  PROVE  s \in Texts /\ s \in Seq(STRING)
  BY SeqMonotonic DEF Clean, Texts

\* They are in normal form.
LEMMA NormalPlain ==
  ASSUME NEW s \in Clean
  PROVE  lexically_normal(s) = s
<1> DEFINE P(k) == SubSeq(s, 1, k)
           T == {k \in 0 .. Len(s) : lexically_normal(P(k)) = P(k)}
<1>1. /\ Len(s) \in Nat /\ P(0) = << >> /\ P(Len(s)) = s
      /\ \A k \in 0 .. Len(s) : P(k) \in Clean
      /\ \A k \in 1 .. Len(s) : s[k] \in STRING \ Dots /\ P(k) = Append(P(k - 1), s[k])
  BY SubSeqSteps DEF Clean
<1>2. 0 \in T
  <2>1. PICK h : Chain(h, Texts, << >>, NormalOp, << >>) /\ lexically_normal(<< >>) = h[Len(<< >>)]
    BY NormalChain, EmptySeq DEF Texts
  <2>2. h[0] = << >> /\ Len(<< >>) = 0
    BY <2>1, EmptySeq DEF Chain
  <2>3. lexically_normal(P(0)) = P(0) /\ 0 \in 0 .. Len(s)
    <3> HIDE DEF P
    <3>1. QED
      BY <1>1, <2>1, <2>2
  <2>4. QED
    BY <2>3
<1>3. ASSUME NEW k \in 1 .. Len(s), k - 1 \in T PROVE k \in T
  <2>1. PICK q \in Clean : q = P(k - 1)
    BY <1>1, <1>3
  <2>2. PICK x \in STRING \ Dots : x = s[k]
    BY <1>1
  <2>3. P(k) = Append(q, x) /\ lexically_normal(q) = q
    BY <1>1, <1>3, <2>1, <2>2
  <2>4. q \in Texts
    BY CleanTexts
  <2>5. lexically_normal(Append(q, x)) = Normal_step(lexically_normal(q), x)
    BY <2>4, NormalAppend
  <2>6. Normal_step(q, x) = Append(q, x)
    BY DEF Normal_step, Dots
  <2>7. k \in 0 .. Len(s)
    BY <1>1
  <2>8. QED
    BY <2>3, <2>5, <2>6, <2>7
<1>4. \A k \in 0 .. Len(s) : k \in T
  <2> HIDE DEF T
  <2>1. QED
    BY <1>1, <1>2, <1>3, UpTo
<1>5. lexically_normal(P(Len(s))) = P(Len(s))
  <2>1. Len(s) \in 0 .. Len(s)
    BY <1>1
  <2>2. Len(s) \in T
    BY <1>4, <2>1
  <2>3. QED
    BY <2>2
<1>6. QED
  <2> HIDE DEF P
  <2>1. QED
    BY <1>1, <1>5

\* The normal form of names that follow others.
NormalAt(a, s, k) == lexically_normal(a \o SubSeq(s, 1, k))

LEMMA NormalSteps ==
  ASSUME NEW a \in Clean, NEW s \in Texts
  PROVE  /\ NormalAt(a, s, 0) = a /\ NormalAt(a, s, Len(s)) = lexically_normal(a \o s)
         /\ \A k \in 1 .. Len(s) : NormalAt(a, s, k) = Normal_step(NormalAt(a, s, k - 1), s[k])
<1> DEFINE P(k) == SubSeq(s, 1, k)
<1>1. /\ Len(s) \in Nat /\ P(0) = << >> /\ P(Len(s)) = s
      /\ \A k \in 0 .. Len(s) : P(k) \in Texts
      /\ \A k \in 1 .. Len(s) : s[k] \in STRING /\ P(k) = Append(P(k - 1), s[k])
  BY SubSeqSteps DEF Texts
<1>2. a \in Texts /\ a \in Seq(STRING)
  BY CleanTexts
<1>3. a \o << >> = a
  BY <1>2, ConcatEmptySeq
<1>4. ASSUME NEW k \in 1 .. Len(s)
      PROVE  NormalAt(a, s, k) = Normal_step(NormalAt(a, s, k - 1), s[k])
  <2>1. k - 1 \in 0 .. Len(s)
    BY <1>1
  <2>2. PICK q \in Texts : q = P(k - 1)
    BY <1>1, <2>1
  <2>3. PICK x \in STRING : x = s[k]
    BY <1>1
  <2>4. P(k) = Append(q, x)
    BY <1>1, <2>2, <2>3
  <2>5. a \o Append(q, x) = Append(a \o q, x) /\ a \o q \in Texts
    <3>1. q \in Seq(STRING)
      BY DEF Texts
    <3>2. Append(q, x) = q \o <<x>> /\ a \o q \in Seq(STRING) /\ <<x>> \in Seq(STRING)
      <4>1. <<x>> \in Seq(STRING)
        BY Single
      <4>2. a \o q \in Seq(STRING)
        BY <1>2, <3>1, ConcatProperties
      <4>3. Append(q, x) = q \o <<x>>
        BY <3>1, AppendIsConcat
      <4>4. QED
        BY <4>1, <4>2, <4>3
    <3>5. (a \o q) \o <<x>> = a \o (q \o <<x>>)
      BY <1>2, <3>1, <3>2, ConcatAssociative
    <3>3. Append(a \o q, x) = (a \o q) \o <<x>>
      BY <3>2, AppendIsConcat
    <3>4. QED
      BY <3>2, <3>3, <3>5 DEF Texts
  <2>6. lexically_normal(Append(a \o q, x)) = Normal_step(lexically_normal(a \o q), x)
    BY <2>5, NormalAppend
  <2>7. QED
    BY <2>2, <2>3, <2>4, <2>5, <2>6 DEF NormalAt
<1>5. QED
  BY <1>1, <1>3, <1>4, NormalPlain DEF NormalAt

-----------------------------------------------------------------------------
(* The names of files.                                                      *)

LEMMA PathToClean ==
  ASSUME NEW t, IsTree(t), NEW n \in Nodes
  PROVE  PathTo(t)[n] \in Clean /\ PathTo(t)[n] \in Texts
<1>1. Names \subseteq STRING \ Dots
  BY NamesAssumption
<1>2. PathTo(t)[n] \in Seq(Names)
  BY PathToValue
<1>3. PathTo(t)[n] \in Clean
  BY <1>1, <1>2, SeqMonotonic DEF Clean
<1>4. QED
  BY <1>3, CleanTexts

LEMMA CleanAppend ==
  ASSUME NEW q \in Clean, NEW x \in STRING \ Dots
  PROVE  Append(q, x) \in Clean /\ Append(q, x) # << >> /\ Len(Append(q, x)) = Len(q) + 1
<1>1. PICK X : X = STRING \ Dots
  OBVIOUS
<1>2. q \in Seq(X) /\ x \in X /\ Clean = Seq(X)
  BY <1>1 DEF Clean
<1>3. q \in Seq(X) /\ x \in X
  BY <1>2
<1>4. Append(q, x) \in Seq(X) /\ Append(q, x) # << >> /\ Len(Append(q, x)) = Len(q) + 1
  <2>1. Append(q, x) \in Seq(X)
    BY <1>3, AppendProperties
  <2>2. Len(Append(q, x)) = Len(q) + 1
    BY <1>3, AppendProperties
  <2>3. Append(q, x) # << >>
    <3>1. Len(q) + 1 # 0
      BY <1>3, LenProperties
    <3>2. QED
      BY <2>1, <2>2, <3>1, EmptySeq
  <2>4. QED
    BY <2>1, <2>2, <2>3
<1>5. QED
  BY <1>2, <1>4

LEMMA NamesOfClean ==
  ASSUME NEW t, IsTree(t), NEW n \in Nodes
  PROVE  /\ NamesOf(t, n) \in Clean
         /\ n = RootDir => NamesOf(t, n) = << >>
         /\ n # RootDir => NamesOf(t, n) # << >>
<1>1. n = RootDir => NamesOf(t, n) = << >>
  BY PathToValue DEF NamesOf, Live
<1>2. ASSUME n # RootDir PROVE NamesOf(t, n) \in Clean /\ NamesOf(t, n) # << >>
  <2>1. n \in Nodes \ {RootDir} /\ t[n].dir \in Nodes /\ t[n].name \in Names
    BY <1>2, TreeType
  <2>2. t[n].name \in STRING \ Dots /\ Removed(t[n].name) \in STRING \ Dots
    BY <2>1, NamesAssumption
  <2>3. PICK q \in Clean : q = PathTo(t)[t[n].dir]
    BY <2>1, PathToClean
  <2>4. ASSUME NEW x \in STRING \ Dots PROVE Append(q, x) \in Clean /\ Append(q, x) # << >>
    BY CleanAppend
  <2>5. PathTo(t)[n] = Append(q, t[n].name)
    BY <2>1, <2>3, PathToValue
  <2>6. CASE Live(t, n)
    BY <2>2, <2>4, <2>5, <2>6 DEF NamesOf
  <2>7. CASE ~Live(t, n)
    BY <2>2, <2>3, <2>4, <2>7 DEF NamesOf
  <2>8. QED
    BY <2>6, <2>7
<1>3. << >> \in Clean
  BY EmptySeq DEF Clean
<1>4. QED
  BY <1>1, <1>2, <1>3

\* No two files of a directory that are not removed have the same name.
LEMMA ChildIs ==
  ASSUME NEW t, IsTree(t), NEW n \in Nodes \ {RootDir}, Live(t, n)
  PROVE  Child(t, t[n].dir, t[n].name) = n
<1> DEFINE c == Child(t, t[n].dir, t[n].name)
<1>1. ~t[n].gone
  BY DEF Live
<1>2. /\ c \in Nodes \ {RootDir} /\ ~t[c].gone
      /\ t[c].dir = t[n].dir /\ t[c].name = t[n].name
  <2>1. PICK e : e = c
    OBVIOUS
  <2>2. QED
    BY <1>1, ChildType
<1> HIDE DEF c
<1>3. ASSUME c # n PROVE FALSE
  <2>1. c \in Nodes \ {RootDir, n}
    BY <1>2, <1>3
  <2>2. ~t[c].gone /\ ~t[n].gone => t[c].dir # t[n].dir \/ t[c].name # t[n].name
    BY <2>1 DEF IsTree
  <2>3. QED
    BY <1>1, <1>2, <2>2
<1>4. QED
  BY <1>3 DEF c

\* A file's path leads to it.
LEMMA WalkPathTo ==
  ASSUME NEW t, IsTree(t), NEW n, Present(t, n), n \notin DOMAIN Target
  PROVE  WalkNames(t, RootDir, PathTo(t)[n]).node = n
<1> DEFINE Leads(m) == WalkNames(t, RootDir, PathTo(t)[m]).node = m
           S == {m \in Nodes \ {RootDir} : Live(t, m) /\ m \notin DOMAIN Target /\ ~Leads(m)}
<1>1. RootDir \in Nodes \cup {NoNode}
  BY TreeType
<1>2. Leads(RootDir)
  <2>1. WalkNames(t, RootDir, << >>) = Start(RootDir)
    <3>1. PICK h : /\ Chain(h, Walks, Start(RootDir), StepOp(t), << >>)
                   /\ WalkNames(t, RootDir, << >>) = h[Len(<< >>)]
      BY <1>1, WalkChain, EmptySeq DEF Texts
    <3>2. h[0] = Start(RootDir) /\ Len(<< >>) = 0
      BY <3>1, EmptySeq DEF Chain
    <3>3. QED
      BY <3>1, <3>2
  <2>2. QED
    BY <2>1, PathToValue DEF Start
<1>3. ASSUME S # {} PROVE FALSE
  <2>1. PICK m \in S : t[m].dir \notin S
    <3>1. S \in SUBSET (Nodes \ {RootDir})
      OBVIOUS
    <3> HIDE DEF S
    <3>2. QED
      BY <1>3, <3>1 DEF IsTree
  <2>2. PICK p \in Dirs : p = t[m].dir /\ p \in Nodes
    BY <2>1, TreeType
  <2>3. Present(t, p)
    <3>1. Present(t, m) /\ Parent(t, m) = p
      BY <2>1, <2>2 DEF Present, Parent
    <3>2. QED
      BY <3>1, PresentParent
  <2>4. p \notin DOMAIN Target
    BY PathAssumption
  <2>5. Leads(p)
    BY <1>2, <2>1, <2>2, <2>3, <2>4 DEF Present
  <2>6. PICK x \in STRING \ Dots : x = t[m].name
    BY <2>1, TreeType
  <2>7. PICK q \in Texts : q = PathTo(t)[p]
    BY <2>2, PathToClean
  <2>8. PathTo(t)[m] = Append(q, x)
    BY <2>1, <2>2, <2>6, <2>7, PathToValue
  <2>9. PICK w \in Walks : w = WalkNames(t, RootDir, q)
    BY <1>1, WalkAppend
  <2>10. WalkNames(t, RootDir, Append(q, x)) = Step(t, w, x)
    BY <1>1, <2>9, WalkAppend
  <2>11. w.node = p /\ Child(t, w.node, x) = m
    BY <2>1, <2>2, <2>5, <2>6, <2>7, <2>9, ChildIs
  <2>12. IntoFile(w, m, Step(t, w, x))
    BY <2>1, <2>11, StepInto
  <2>13. QED
    BY <2>1, <2>8, <2>10, <2>12 DEF IntoFile
<1>4. QED
  BY <1>2, <1>3 DEF Present

\* Two files that are not removed and have the same path are the same.
LEMMA PathToInjective ==
  ASSUME NEW t, IsTree(t), NEW n, Present(t, n), n \notin DOMAIN Target,
         NEW m, Present(t, m), m \notin DOMAIN Target, PathTo(t)[n] = PathTo(t)[m]
  PROVE  n = m
  BY WalkPathTo

StrictPrefix(s, u) == IsPrefix(s, u) /\ Len(u) > Len(s)

LEMMA PrefixAppend ==
  ASSUME NEW X, NEW s \in Seq(X), NEW u \in Seq(X), NEW x \in X
  PROVE  StrictPrefix(s, Append(u, x)) <=> s = u \/ StrictPrefix(s, u)
<1>1. /\ Len(s) \in Nat /\ Len(u) \in Nat /\ Len(Append(u, x)) = Len(u) + 1
      /\ Append(u, x) \in Seq(X)
  BY LenProperties, AppendProperties
<1>2. SubSeq(s, 1, Len(s)) = s /\ SubSeq(u, 1, Len(u)) = u
  BY SubSeqFull
<1>3. ASSUME NEW k \in 0 .. Len(u) PROVE SubSeq(Append(u, x), 1, k) = SubSeq(u, 1, k)
  BY SubSeqAppend
<1>4. ASSUME StrictPrefix(s, Append(u, x)) PROVE s = u \/ StrictPrefix(s, u)
  <2>1. Len(s) \in 0 .. Len(u)
    BY <1>1, <1>4 DEF StrictPrefix
  <2>2. SubSeq(Append(u, x), 1, Len(s)) = SubSeq(u, 1, Len(s))
    BY <1>3, <2>1
  <2>3. s = SubSeq(u, 1, Len(s))
    BY <1>2, <1>4, <2>2 DEF StrictPrefix, IsPrefix
  <2>4. CASE Len(s) = Len(u)
    BY <1>2, <2>3, <2>4
  <2>5. CASE Len(s) # Len(u)
    <3>1. Len(u) > Len(s) /\ Len(s) <= Len(u)
      BY <1>1, <2>1, <2>5
    <3>2. QED
      BY <1>2, <2>3, <3>1 DEF StrictPrefix, IsPrefix
  <2>6. QED
    BY <2>4, <2>5
<1>5. ASSUME s = u \/ StrictPrefix(s, u) PROVE StrictPrefix(s, Append(u, x))
  <2>1. Len(s) \in 0 .. Len(u) /\ SubSeq(u, 1, Len(s)) = s
    <3>1. CASE s = u
      BY <1>1, <1>2, <3>1
    <3>2. CASE StrictPrefix(s, u)
      BY <1>1, <1>2, <3>2 DEF StrictPrefix, IsPrefix
    <3>3. QED
      BY <1>5, <3>1, <3>2
  <2>2. SubSeq(Append(u, x), 1, Len(s)) = s
    BY <1>3, <2>1
  <2>3. Len(s) <= Len(u) + 1 /\ Len(u) + 1 > Len(s)
    BY <1>1, <2>1
  <2>4. QED
    BY <1>1, <1>2, <2>2, <2>3 DEF StrictPrefix, IsPrefix
<1>6. QED
  BY <1>4, <1>5

\* A file is below a directory if the directory's path is the beginning of its own.
LEMMA BelowPrefix ==
  ASSUME NEW t, IsTree(t), NEW d, Present(t, d), d \notin DOMAIN Target, NEW n, Present(t, n)
  PROVE  Below(t, n, d) <=> StrictPrefix(PathTo(t)[d], PathTo(t)[n])
<1> DEFINE Right(m) == Below(t, m, d) <=> StrictPrefix(PathTo(t)[d], PathTo(t)[m])
           S == {m \in Nodes \ {RootDir} : Live(t, m) /\ ~Right(m)}
<1>1. d \in Nodes /\ PathTo(t)[d] \in Texts /\ RootDir \in Nodes
  BY PathToClean, TreeType DEF Present
<1>2. Right(RootDir)
  <2>1. PathTo(t)[RootDir] = << >> /\ ~Below(t, RootDir, d)
    BY PathToValue, BelowValue
  <2>2. Len(PathTo(t)[d]) \in Nat /\ Len(<< >>) = 0
    BY <1>1, LenProperties, EmptySeq DEF Texts
  <2>3. QED
    BY <2>1, <2>2 DEF StrictPrefix
<1>3. ASSUME S # {} PROVE FALSE
  <2>1. PICK m \in S : t[m].dir \notin S
    <3>1. S \in SUBSET (Nodes \ {RootDir})
      OBVIOUS
    <3> HIDE DEF S
    <3>2. QED
      BY <1>3, <3>1 DEF IsTree
  <2>2. PICK p \in Dirs : p = t[m].dir /\ p \in Nodes
    BY <2>1, TreeType
  <2>3. Present(t, p)
    <3>1. Present(t, m) /\ Parent(t, m) = p
      BY <2>1, <2>2 DEF Present, Parent
    <3>2. QED
      BY <3>1, PresentParent
  <2>4. p \notin DOMAIN Target
    BY PathAssumption
  <2>5. Right(p)
    BY <1>2, <2>1, <2>2, <2>3 DEF Present
  <2>6. PICK x \in STRING : x = t[m].name
    BY <2>1, TreeType
  <2>7. PICK q \in Seq(STRING) : q = PathTo(t)[p]
    BY <2>2, PathToClean DEF Texts
  <2>8. PICK r \in Seq(STRING) : r = PathTo(t)[d]
    BY <1>1 DEF Texts
  <2>9. PathTo(t)[m] = Append(q, x)
    BY <2>1, <2>2, <2>6, <2>7, PathToValue
  <2>10. StrictPrefix(r, Append(q, x)) <=> r = q \/ StrictPrefix(r, q)
    BY PrefixAppend
  <2>11. r = q <=> p = d
    BY <2>3, <2>4, <2>7, <2>8, PathToInjective
  <2>12. Below(t, m, d) <=> p = d \/ Below(t, p, d)
    BY <2>1, <2>2, BelowValue
  <2>13. Right(m)
    BY <2>5, <2>7, <2>8, <2>9, <2>10, <2>11, <2>12
  <2>14. QED
    BY <2>1, <2>13
<1>4. QED
  BY <1>2, <1>3 DEF Present

-----------------------------------------------------------------------------
(* Where the path that helpers.h makes leads.                               *)

LEMMA WalkAtAppend ==
  ASSUME NEW t, IsTree(t), NEW n \in Nodes \cup {NoNode}, NEW s \in Texts, NEW x \in STRING
  PROVE  /\ \A k \in 0 .. Len(s) : WalkAt(t, n, Append(s, x), k) = WalkAt(t, n, s, k)
         /\ WalkAt(t, n, Append(s, x), Len(s) + 1) = Step(t, WalkNames(t, n, s), x)
<1>1. s \in Seq(STRING) /\ Append(s, x) \in Texts /\ Len(Append(s, x)) = Len(s) + 1
  BY AppendProperties DEF Texts
<1>2. ASSUME NEW k \in 0 .. Len(s) PROVE WalkAt(t, n, Append(s, x), k) = WalkAt(t, n, s, k)
  <2>1. SubSeq(Append(s, x), 1, k) = SubSeq(s, 1, k)
    BY <1>1, SubSeqAppend
  <2>2. QED
    BY <2>1 DEF WalkAt
<1>3. PICK u \in Texts : u = Append(s, x)
  BY <1>1
<1>4. WalkAt(t, n, u, Len(u)) = WalkNames(t, n, u)
  BY WalkSteps
<1>5. WalkNames(t, n, Append(s, x)) = Step(t, WalkNames(t, n, s), x)
  BY WalkAppend
<1>6. QED
  BY <1>1, <1>2, <1>3, <1>4, <1>5

\* The k-th of the nodes that the path leads through is in the one before.
InPlace(t, s, k) ==
  LET n == WalkAt(t, RootDir, s, k).node
  IN  n \in Nodes \ {RootDir} /\ t[n].dir = WalkAt(t, RootDir, s, k - 1).node

Plain(links) == \A i \in 1 .. Len(links) : ~links[i]

\* The path leads to where the walk is, and if no link is left in it, it is the
\* file's own.
Sound(t, w, s) ==
  /\ s \in Clean /\ Present(t, w.node) /\ WalkNames(t, RootDir, s).node = w.node
  /\ Len(w.links) <= Len(s)
  /\ Plain(w.links) => s = PathTo(t)[w.node] /\ w.node \notin DOMAIN Target
  /\ \A i \in 1 .. Len(w.links) :
       ~w.links[i] => InPlace(t, s, Len(s) - Len(w.links) + i)

LEMMA SoundOwn ==
  ASSUME NEW t, IsTree(t), NEW w \in Walks, Present(t, w.node), w.node \notin DOMAIN Target,
         w.links = << >>
  PROVE  Sound(t, w, PathTo(t)[w.node])
<1>1. w.node \in Nodes /\ Len(w.links) = 0
  BY EmptySeq DEF Present
<1>2. PICK q \in Clean : q = PathTo(t)[w.node]
  BY <1>1, PathToClean
<1>3. Len(q) \in Nat
  BY LenProperties DEF Clean
<1>4. WalkNames(t, RootDir, q).node = w.node
  BY <1>2, WalkPathTo
<1>5. QED
  BY <1>1, <1>2, <1>3, <1>4 DEF Sound

Indexed(a, m, i, k) ==
  /\ i \in 1 .. m \/ i = m + 1
  /\ i \in 1 .. m => k \in 0 .. a /\ k - 1 \in 0 .. a
  /\ i = m + 1 => k = a + 1 /\ k - 1 = a /\ a \in 0 .. a

LEMMA Indexes ==
  ASSUME NEW a \in Nat, NEW m \in Nat, m <= a, NEW i \in 1 .. m + 1, NEW k, k = a - m + i
  PROVE  Indexed(a, m, i, k)
  BY DEF Indexed

LEMMA SoundInto ==
  ASSUME NEW t, IsTree(t), NEW w \in Walks, w.node \in Dirs, NEW x \in STRING \ Dots,
         NEW s, Sound(t, w, s), NEW u, u = Step(t, w, x), u.node # NoNode
  PROVE  Sound(t, u, Append(s, x))
<1> DEFINE r == Append(s, x)
           c == Child(t, w.node, x)
<1>1. /\ s \in Clean /\ s \in Texts /\ r \in Clean /\ Len(r) = Len(s) + 1
      /\ Len(s) \in Nat /\ x \in STRING /\ RootDir \in Nodes \cup {NoNode}
  <2>1. s \in Clean
    BY DEF Sound
  <2>2. s \in Texts /\ r \in Clean /\ Len(r) = Len(s) + 1
    BY <2>1, CleanTexts, CleanAppend
  <2>3. QED
    BY <2>1, <2>2, LenProperties, TreeType DEF Texts
<1>2. /\ w.links \in Seq(BOOLEAN) /\ Len(w.links) \in Nat
      /\ \A i \in 1 .. Len(w.links) : w.links[i] \in BOOLEAN
  BY LenProperties, ElementOfSeq DEF Walks
<1>3. Present(t, u.node)
  BY <1>1, PresentStep DEF Sound
<1>4. c \in DOMAIN Target => IntoLink(t, w, c, u)
  <2>1. c = Child(t, w.node, x)
    OBVIOUS
  <2> HIDE DEF c
  <2>2. QED
    BY <2>1, StepInto
<1>5. c \notin DOMAIN Target => IntoFile(w, c, u)
  <2>1. c = Child(t, w.node, x)
    OBVIOUS
  <2> HIDE DEF c
  <2>2. QED
    BY <2>1, StepInto
<1>6. c \notin DOMAIN Target => c \in Nodes \ {RootDir} /\ t[c].dir = w.node /\ t[c].name = x
  <2>1. c \notin DOMAIN Target => c # NoNode
    BY <1>5 DEF IntoFile
  <2>2. QED
    BY <2>1, ChildType
<1>7. /\ \A k \in 0 .. Len(s) : WalkAt(t, RootDir, r, k) = WalkAt(t, RootDir, s, k)
      /\ WalkAt(t, RootDir, r, Len(s) + 1).node = u.node
      /\ WalkAt(t, RootDir, s, Len(s)).node = w.node
      /\ WalkNames(t, RootDir, r).node = u.node
  <2>1. WalkNames(t, RootDir, s) \in Walks /\ WalkNames(t, RootDir, s).node = w.node
    BY <1>1, WalkAppend DEF Sound
  <2>2. PICK v \in Walks : v = WalkNames(t, RootDir, s) /\ v.node = w.node
    BY <2>1
  <2>3. Step(t, v, x).node = u.node
    BY <1>1, <2>2, StepNode
  <2>4. /\ \A k \in 0 .. Len(s) : WalkAt(t, RootDir, r, k) = WalkAt(t, RootDir, s, k)
        /\ WalkAt(t, RootDir, r, Len(s) + 1) = Step(t, v, x)
    BY <1>1, <2>2, WalkAtAppend
  <2>5. WalkAt(t, RootDir, s, Len(s)) = v
    BY <1>1, <2>2, WalkSteps
  <2>6. WalkNames(t, RootDir, r) = Step(t, v, x)
    BY <1>1, <2>2, WalkAppend
  <2>7. QED
    BY <2>2, <2>3, <2>4, <2>5, <2>6
<1> HIDE DEF c, r
<1>8. PICK b \in BOOLEAN : u.links = Append(w.links, b) /\ (b <=> c \in DOMAIN Target)
  BY <1>4, <1>5 DEF IntoFile, IntoLink
<1>9. /\ Len(u.links) = Len(w.links) + 1
      /\ \A i \in 1 .. Len(w.links) : u.links[i] = w.links[i]
      /\ u.links[Len(w.links) + 1] = b
  BY <1>2, <1>8, AppendProperties
<1>10. ASSUME Plain(u.links) PROVE r = PathTo(t)[u.node] /\ u.node \notin DOMAIN Target
  <2>1. Len(w.links) + 1 \in 1 .. Len(u.links) /\ \A i \in 1 .. Len(w.links) : i \in 1 .. Len(u.links)
    BY <1>2, <1>9
  <2>2. ~b /\ Plain(w.links)
    BY <1>9, <1>10, <2>1 DEF Plain
  <2>3. u.node = c /\ c \notin DOMAIN Target
    BY <1>5, <1>8, <2>2 DEF IntoFile
  <2>4. s = PathTo(t)[w.node]
    BY <2>2 DEF Sound
  <2>5. PathTo(t)[c] = Append(PathTo(t)[w.node], x)
    BY <1>6, <2>3, PathToValue
  <2>6. QED
    BY <2>3, <2>4, <2>5 DEF r
<1>11. ASSUME NEW i \in 1 .. Len(u.links), ~u.links[i]
       PROVE  InPlace(t, r, Len(r) - Len(u.links) + i)
  <2> DEFINE k == Len(s) - Len(w.links) + i
  <2>1. Len(r) - Len(u.links) + i = k /\ Len(w.links) <= Len(s)
    BY <1>1, <1>2, <1>9 DEF Sound
  <2>5. /\ i \in 1 .. Len(w.links) \/ i = Len(w.links) + 1
        /\ i \in 1 .. Len(w.links) => k \in 0 .. Len(s) /\ k - 1 \in 0 .. Len(s)
        /\ i = Len(w.links) + 1 => k = Len(s) + 1 /\ k - 1 = Len(s) /\ Len(s) \in 0 .. Len(s)
    <3>1. k = Len(s) - Len(w.links) + i /\ i \in 1 .. Len(w.links) + 1
      BY <1>9
    <3> HIDE DEF k
    <3>2. QED
      <4>1. Indexed(Len(s), Len(w.links), i, k)
        BY <1>1, <1>2, <2>1, <3>1, Indexes
      <4>2. QED
        BY <4>1 DEF Indexed
  <2>2. CASE i \in 1 .. Len(w.links)
    <3>1. InPlace(t, s, k)
      BY <1>9, <1>11, <2>2 DEF Sound
    <3>2. k \in 0 .. Len(s) /\ k - 1 \in 0 .. Len(s)
      BY <2>2, <2>5
    <3>3. WalkAt(t, RootDir, r, k) = WalkAt(t, RootDir, s, k)
      BY <1>7, <3>2
    <3>4. WalkAt(t, RootDir, r, k - 1) = WalkAt(t, RootDir, s, k - 1)
      BY <1>7, <3>2
    <3> HIDE DEF k
    <3>5. InPlace(t, r, k)
      BY <3>1, <3>3, <3>4 DEF InPlace
    <3>6. QED
      BY <2>1, <3>5
  <2>3. CASE i = Len(w.links) + 1
    <3>1. k = Len(s) + 1 /\ k - 1 = Len(s) /\ Len(s) \in 0 .. Len(s)
      BY <2>3, <2>5
    <3>2. ~b
      BY <1>9, <1>11, <2>3
    <3>3. u.node = c /\ c \in Nodes \ {RootDir} /\ t[c].dir = w.node
      BY <1>5, <1>6, <1>8, <3>2 DEF IntoFile
    <3>4. WalkAt(t, RootDir, r, k).node = c /\ WalkAt(t, RootDir, r, k - 1).node = w.node
      BY <1>7, <3>1, <3>3
    <3> HIDE DEF k
    <3>5. InPlace(t, r, k)
      BY <3>3, <3>4 DEF InPlace
    <3>6. QED
      BY <2>1, <3>5
  <2>4. QED
    BY <2>2, <2>3, <2>5
<1>12. Len(u.links) <= Len(r)
  BY <1>1, <1>2, <1>9 DEF Sound
<1>13. QED
  BY <1>1, <1>3, <1>7, <1>10, <1>11, <1>12 DEF Sound, r

LEMMA CleanFront ==
  ASSUME NEW s \in Clean, s # << >>
  PROVE  /\ Front(s) \in Clean /\ Last(s) \in STRING \ Dots /\ Len(Front(s)) = Len(s) - 1
         /\ s = Append(Front(s), Last(s))
<1>1. PICK X : X = STRING \ Dots
  OBVIOUS
<1>2. s \in Seq(X)
  BY <1>1 DEF Clean
<1>3. Front(s) \in Seq(X) /\ Last(s) \in X /\ Len(Front(s)) = Len(s) - 1
  BY <1>2, FrontLast
<1>4. s = Append(Front(s), Last(s))
  BY <1>2, FrontLast
<1>5. QED
  BY <1>1, <1>3, <1>4 DEF Clean

LEMMA CleanAppendFront ==
  ASSUME NEW q \in Clean, NEW x \in STRING \ Dots
  PROVE  Front(Append(q, x)) = q
<1>1. PICK X : X = STRING \ Dots
  OBVIOUS
<1>2. q \in Seq(X) /\ x \in X
  BY <1>1 DEF Clean
<1>3. \A y \in X : Front(Append(q, y)) = q
  BY <1>2, FrontLast
<1>4. QED
  BY <1>2, <1>3

Shorter(a, m, i, k) ==
  /\ i \in 1 .. m /\ a - 1 - (m - 1) + i = k /\ k \in 0 .. a - 1 /\ k - 1 \in 0 .. a - 1

LEMMA ShorterIndexes ==
  ASSUME NEW a \in Nat, NEW m \in Nat, m <= a, NEW i \in 1 .. m - 1, NEW k, k = a - m + i
  PROVE  Shorter(a, m, i, k)
  BY DEF Shorter

LEMMA SoundUp ==
  ASSUME NEW t, IsTree(t), NEW w \in Walks, w.node \in Dirs,
         NEW s, Sound(t, w, s), NEW u, u = Up(t, w), ~u.back
  PROVE  Sound(t, u, IF s = << >> THEN s ELSE Front(s))
<1> DEFINE p == Parent(t, w.node)
<1>1. /\ w.node \in Nodes /\ u \in Walks /\ u.node = p
      /\ u.links = IF w.links = << >> THEN << >> ELSE Front(w.links)
      /\ w.links # << >> => ~Last(w.links)
  <2>1. w.node \in Nodes
    BY PathAssumption
  <2>2. QED
    BY <2>1, UpType
<1>2. p \in Nodes /\ p \in Dirs /\ p \notin DOMAIN Target /\ Present(t, p)
  BY <1>1, TreeType, PresentParent, PathAssumption DEF Sound
<1>3. CASE w.links = << >>
  <2>1. Len(w.links) = 0
    BY <1>3, EmptySeq
  <2>2. s = PathTo(t)[w.node]
    BY <2>1 DEF Sound, Plain
  <2>3. Sound(t, u, PathTo(t)[u.node])
    BY <1>1, <1>2, <1>3, SoundOwn
  <2>4. CASE w.node = RootDir
    <3>1. s = << >> /\ p = RootDir
      BY <2>2, <2>4, PathToValue DEF Parent
    <3>2. PathTo(t)[u.node] = << >>
      BY <1>1, <3>1, PathToValue
    <3>3. QED
      BY <2>3, <3>1, <3>2
  <2>5. CASE w.node # RootDir
    <3>1. p = t[w.node].dir
      BY <2>5 DEF Parent
    <3>2. PICK x \in STRING \ Dots : x = t[w.node].name
      BY <1>1, <2>5, TreeType
    <3>3. PICK q \in Clean : q = PathTo(t)[p]
      BY <1>2, PathToClean
    <3>4. s = Append(q, x)
      BY <1>1, <2>2, <2>5, <3>1, <3>2, <3>3, PathToValue
    <3>5. q \in Seq(STRING) /\ x \in STRING
      BY CleanTexts
    <3>6. Front(s) = q /\ s # << >>
      BY <3>4, <3>5, FrontLast, CleanAppend
    <3>7. QED
      BY <1>1, <2>3, <3>3, <3>6
  <2>6. QED
    BY <2>4, <2>5
<1>4. CASE w.links # << >>
  <2> DEFINE r == Front(s)
             m == Len(w.links)
             a == Len(s)
  <2>1. /\ w.links \in Seq(BOOLEAN) /\ m \in Nat /\ m # 0
        /\ \A i \in 1 .. m : w.links[i] \in BOOLEAN
    BY <1>4, LenProperties, EmptySeq, ElementOfSeq DEF Walks
  <2>2. s \in Clean /\ a \in Nat /\ m <= a /\ s \in Texts
    BY CleanTexts, LenProperties DEF Sound, Clean
  <2>3. s # << >>
    BY <2>1, <2>2, EmptySeq
  <2>4. /\ r \in Clean /\ Len(r) = a - 1 /\ Last(s) \in STRING \ Dots /\ s = Append(r, Last(s))
        /\ r \in Texts
    BY <2>2, <2>3, CleanFront, CleanTexts
  <2>5. /\ u.links \in Seq(BOOLEAN) /\ Len(u.links) = m - 1 /\ u.links = Front(w.links)
        /\ w.links = Append(Front(w.links), Last(w.links)) /\ ~Last(w.links)
        /\ Last(w.links) \in BOOLEAN
    BY <1>1, <1>4, <2>1, FrontLast
  <2>6. \A i \in 1 .. m - 1 : w.links[i] = u.links[i]
    <3>1. PICK l \in Seq(BOOLEAN), b \in BOOLEAN : l = u.links /\ b = Last(w.links) /\ w.links = Append(l, b)
      BY <2>5
    <3>2. \A i \in 1 .. Len(l) : Append(l, b)[i] = l[i]
      BY AppendProperties
    <3>3. QED
      BY <2>5, <3>1, <3>2
  <2>7. w.links[m] = Last(w.links)
    BY DEF Last
  <2>8. \A k \in 0 .. a - 1 : WalkAt(t, RootDir, s, k) = WalkAt(t, RootDir, r, k)
    <3>1. PICK q \in Texts, x \in STRING : q = r /\ x = Last(s) /\ s = Append(q, x) /\ Len(q) = a - 1
      BY <2>4
    <3>2. \A k \in 0 .. Len(q) : WalkAt(t, RootDir, Append(q, x), k) = WalkAt(t, RootDir, q, k)
      BY TreeType, WalkAtAppend
    <3> HIDE DEF a
    <3>3. QED
      BY <3>1, <3>2
  <2>9. w.node # RootDir /\ p = t[w.node].dir /\ WalkNames(t, RootDir, r).node = p
    <3>1. m \in 1 .. m /\ a - m + m = a /\ a \in 0 .. a /\ a - 1 \in 0 .. a - 1
      BY <2>1, <2>2
    <3>2. ~w.links[m]
      BY <2>5, <2>7
    <3>3. InPlace(t, s, a)
      <4>1. InPlace(t, s, a - m + m)
        BY <3>1, <3>2 DEF Sound
      <4>2. QED
        BY <3>1, <4>1
    <3>4. WalkAt(t, RootDir, s, a).node = w.node
      <4>1. WalkAt(t, RootDir, s, a) = WalkNames(t, RootDir, s)
        BY <2>2, TreeType, WalkSteps
      <4>2. QED
        BY <4>1 DEF Sound
    <3>5. w.node # RootDir /\ t[w.node].dir = WalkAt(t, RootDir, s, a - 1).node
      BY <3>3, <3>4 DEF InPlace
    <3>6. WalkAt(t, RootDir, s, a - 1) = WalkNames(t, RootDir, r)
      <4>1. WalkAt(t, RootDir, s, a - 1) = WalkAt(t, RootDir, r, Len(r))
        BY <2>4, <2>8, <3>1
      <4>2. WalkAt(t, RootDir, r, Len(r)) = WalkNames(t, RootDir, r)
        BY <2>4, TreeType, WalkSteps
      <4>3. QED
        BY <4>1, <4>2
    <3>7. QED
      BY <3>5, <3>6 DEF Parent
  <2> HIDE DEF r, m, a, p
  <2>10. ASSUME Plain(u.links) PROVE r = PathTo(t)[u.node]
    <3>1. Plain(w.links)
      <4>1. ASSUME NEW i \in 1 .. m PROVE ~w.links[i]
        <5>1. CASE i = m
          BY <2>5, <2>7, <5>1
        <5>2. CASE i # m
          <6>1. i \in 1 .. m - 1
            BY <2>1, <5>2
          <6>2. QED
            BY <2>5, <2>6, <2>10, <6>1 DEF Plain
        <5>3. QED
          BY <5>1, <5>2
      <4>2. QED
        BY <4>1 DEF Plain, m
    <3>2. s = PathTo(t)[w.node]
      BY <3>1 DEF Sound
    <3>3. PICK q \in Clean : q = PathTo(t)[p]
      BY <1>2, PathToClean
    <3>4. PICK x \in STRING \ Dots : x = t[w.node].name
      BY <1>1, <2>9, TreeType
    <3>5. s = Append(q, x)
      BY <1>1, <2>9, <3>2, <3>3, <3>4, PathToValue
    <3>6. Front(s) = q
      BY <3>5, CleanAppendFront
    <3>7. QED
      BY <1>1, <3>3, <3>6 DEF r, p
  <2>11. ASSUME NEW i \in 1 .. Len(u.links), ~u.links[i]
         PROVE  InPlace(t, r, Len(r) - Len(u.links) + i)
    <3> DEFINE k == a - m + i
    <3>1. k = a - m + i /\ i \in 1 .. m - 1
      BY <2>5
    <3> HIDE DEF k
    <3>2. Shorter(a, m, i, k)
      BY <2>1, <2>2, <3>1, ShorterIndexes
    <3>3. /\ i \in 1 .. m /\ Len(r) - Len(u.links) + i = k
          /\ k \in 0 .. a - 1 /\ k - 1 \in 0 .. a - 1
      BY <2>4, <2>5, <3>2 DEF Shorter
    <3>4. InPlace(t, s, k)
      BY <2>6, <2>11, <3>1, <3>3 DEF Sound, a, m
    <3>5. /\ WalkAt(t, RootDir, s, k) = WalkAt(t, RootDir, r, k)
          /\ WalkAt(t, RootDir, s, k - 1) = WalkAt(t, RootDir, r, k - 1)
      BY <2>8, <3>3
    <3>6. InPlace(t, r, k)
      BY <3>4, <3>5 DEF InPlace
    <3>7. QED
      BY <3>3, <3>6
  <2>12. Len(u.links) <= Len(r)
    BY <2>1, <2>2, <2>4, <2>5
  <2>13. u.node = p
    BY <1>1 DEF p
  <2>14. Sound(t, u, r)
    BY <1>2, <2>4, <2>9, <2>10, <2>11, <2>12, <2>13 DEF Sound
  <2>15. QED
    BY <2>3, <2>14 DEF r
<1>5. QED
  BY <1>3, <1>4

\* In a removed directory, reached by ".." only: its path leads to another file
\* or to none, but ".." goes on from it as in the tree.
Astray(t, w, s) ==
  /\ w.node \in Dirs \ {RootDir} /\ ~Live(t, w.node) /\ w.links = << >>
  /\ s \in Clean /\ s # << >> /\ Front(s) = PathTo(t)[t[w.node].dir]
  /\ w.through = {} => s = NamesOf(t, w.node)

LEMMA AstrayStart ==
  ASSUME NEW t, IsTree(t), NEW n \in Dirs, ~Live(t, n)
  PROVE  Astray(t, Start(n), NamesOf(t, n))
<1>1. n # RootDir /\ n \in Nodes \ {RootDir} /\ t[n].dir \in Nodes /\ t[n].name \in Names
  BY PathAssumption, TreeType DEF Live
<1>2. NamesOf(t, n) \in Clean /\ NamesOf(t, n) # << >>
  BY <1>1, NamesOfClean
<1>3. PICK q \in Seq(STRING) : q = PathTo(t)[t[n].dir]
  BY <1>1, PathToClean DEF Texts
<1>4. PICK x \in STRING : x = Removed(t[n].name)
  BY <1>1, NamesAssumption
<1>5. Front(NamesOf(t, n)) = PathTo(t)[t[n].dir]
  <2>1. Front(Append(q, x)) = q
    BY FrontLast
  <2>2. QED
    BY <1>3, <1>4, <2>1 DEF NamesOf
<1>6. Start(n).node = n /\ Start(n).links = << >>
  BY DEF Start
<1>7. QED
  BY <1>1, <1>2, <1>5, <1>6 DEF Astray

LEMMA AstrayUp ==
  ASSUME NEW t, IsTree(t), NEW w \in Walks, NEW s, Astray(t, w, s), NEW u, u = Up(t, w)
  PROVE  Sound(t, u, Front(s)) \/ Astray(t, u, Front(s))
<1>1. w.node \in Nodes \ {RootDir} /\ w.node \in Dirs
  BY PathAssumption DEF Astray
<1>2. PICK p \in Dirs : p = t[w.node].dir /\ p \in Nodes
  BY <1>1, TreeType
<1>3. u \in Walks /\ u.node = p /\ u.links = << >> /\ w.node \in u.through
  BY <1>1, <1>2, UpType DEF Parent, Astray
<1>4. p \notin DOMAIN Target
  BY PathAssumption
<1>5. Front(s) = PathTo(t)[p]
  BY <1>2 DEF Astray
<1>6. CASE Live(t, p)
  <2>1. Present(t, p)
    BY <1>2, <1>6 DEF Present
  <2>2. QED
    BY <1>3, <1>4, <1>5, <2>1, SoundOwn
<1>7. CASE ~Live(t, p)
  <2>1. p \in Nodes \ {RootDir} /\ t[p].dir \in Nodes
    BY <1>2, <1>7, TreeType DEF Live
  <2>2. PICK q \in Clean : q = PathTo(t)[t[p].dir]
    BY <2>1, PathToClean
  <2>3. PICK x \in STRING \ Dots : x = t[p].name
    BY <2>1, TreeType
  <2>4. PathTo(t)[p] = Append(q, x)
    BY <2>1, <2>2, <2>3, PathToValue
  <2>5. Append(q, x) \in Clean /\ Append(q, x) # << >>
    BY CleanAppend
  <2>6. Front(Append(q, x)) = q
    BY CleanAppendFront
  <2>7. PICK r : r = Front(s)
    OBVIOUS
  <2>8. /\ r \in Clean /\ r # << >> /\ Front(r) = PathTo(t)[t[p].dir]
    BY <1>5, <2>2, <2>4, <2>5, <2>6, <2>7
  <2>9. Astray(t, u, r)
    BY <1>2, <1>3, <1>7, <2>1, <2>8 DEF Astray
  <2>10. QED
    BY <2>7, <2>9
<1>8. QED
  BY <1>6, <1>7

\* There is nothing in it.
LEMMA AstrayInto ==
  ASSUME NEW t, IsTree(t), NEW w \in Walks, NEW s, Astray(t, w, s), NEW x \in STRING \ Dots
  PROVE  Step(t, w, x).node = NoNode
<1> DEFINE c == Child(t, w.node, x)
<1>1. w.node \in Nodes \ {RootDir} /\ w.node \in Dirs /\ t[w.node].gone
  BY PathAssumption DEF Astray, Live
<1>2. c = Child(t, w.node, x)
  OBVIOUS
<1> HIDE DEF c
<1>3. c = NoNode
  <2>1. ASSUME c # NoNode PROVE FALSE
    <3>1. c \in Nodes \ {RootDir} /\ ~t[c].gone /\ t[c].dir = w.node
      BY <1>2, <2>1, ChildType
    <3>2. t[c].dir = RootDir \/ ~t[t[c].dir].gone
      BY <3>1 DEF IsTree
    <3>3. QED
      BY <1>1, <3>1, <3>2
  <2>2. QED
    BY <2>1
<1>4. c \notin DOMAIN Target
  BY <1>3, PathAssumption
<1>5. IntoFile(w, c, Step(t, w, x))
  BY <1>1, <1>2, <1>4, StepInto
<1>6. QED
  BY <1>3, <1>5 DEF IntoFile

Leads(t, w, s) == Sound(t, w, s) \/ Astray(t, w, s)

LEMMA LeadsStep ==
  ASSUME NEW t, IsTree(t), NEW w \in Walks, w.node \in Dirs, NEW s, Leads(t, w, s),
         NEW x \in STRING, NEW u, u = Step(t, w, x), u.node # NoNode, ~u.back
  PROVE  Leads(t, u, Normal_step(s, x))
<1>1. CASE x = "."
  <2>1. u = w
    BY <1>1, StepDot
  <2>2. Normal_step(s, x) = s
    BY <1>1 DEF Normal_step
  <2>3. QED
    BY <2>1, <2>2
<1>2. CASE x = ".."
  <2>1. u = Up(t, w)
    BY <1>2, StepUp
  <2>2. Normal_step(s, x) = IF s = << >> THEN s ELSE Front(s)
    BY <1>2 DEF Normal_step
  <2>3. CASE Sound(t, w, s)
    <3>1. Sound(t, u, IF s = << >> THEN s ELSE Front(s))
      BY <2>1, <2>3, SoundUp
    <3>2. QED
      BY <2>2, <3>1 DEF Leads
  <2>4. CASE Astray(t, w, s)
    <3>1. Sound(t, u, Front(s)) \/ Astray(t, u, Front(s))
      BY <2>1, <2>4, AstrayUp
    <3>2. Normal_step(s, x) = Front(s)
      BY <2>2, <2>4 DEF Astray
    <3>3. QED
      BY <3>1, <3>2 DEF Leads
  <2>5. QED
    BY <2>3, <2>4 DEF Leads
<1>3. CASE x \notin Dots
  <2>1. x \in STRING \ Dots
    BY <1>3
  <2>2. Sound(t, w, s)
    BY <2>1, AstrayInto DEF Leads
  <2>3. Sound(t, u, Append(s, x))
    BY <2>1, <2>2, SoundInto
  <2>4. Normal_step(s, x) = Append(s, x)
    BY <1>3 DEF Normal_step, Dots
  <2>5. QED
    BY <2>3, <2>4 DEF Leads
<1>4. QED
  BY <1>1, <1>2, <1>3 DEF Dots

\* The path made of the start's names and the walk's leads to where the walk does.
LEMMA WalkLeads ==
  ASSUME NEW t, IsTree(t), NEW n \in Dirs, NEW s \in Texts, NEW w, w = WalkNames(t, n, s),
         w.node # NoNode, ~w.back
  PROVE  Leads(t, w, lexically_normal(NamesOf(t, n) \o s))
<1> DEFINE v(k) == WalkAt(t, n, s, k)
           r(k) == NormalAt(NamesOf(t, n), s, k)
           T == {k \in 0 .. Len(s) : Leads(t, v(k), r(k))}
<1>1. n \in Nodes /\ n \in Nodes \cup {NoNode} /\ Len(s) \in Nat /\ NamesOf(t, n) \in Clean
  BY PathAssumption, LenProperties, NamesOfClean DEF Texts
<1>2. r(0) = NamesOf(t, n) /\ r(Len(s)) = lexically_normal(NamesOf(t, n) \o s)
  BY <1>1, NormalSteps
<1>3. v(0) = Start(n) /\ v(Len(s)) = w
  BY <1>1, WalkSteps
<1>4. 0 \in T
  <2>1. CASE Live(t, n)
    <3>1. Present(t, n) /\ n \notin DOMAIN Target
      BY <1>1, <2>1, PathAssumption DEF Present
    <3>2. Start(n) \in Walks /\ Start(n).node = n /\ Start(n).links = << >>
      BY <1>1, StartType DEF Start
    <3>3. Sound(t, Start(n), PathTo(t)[Start(n).node])
      BY <3>1, <3>2, SoundOwn
    <3>4. Sound(t, Start(n), NamesOf(t, n))
      BY <2>1, <3>2, <3>3 DEF NamesOf
    <3> HIDE DEF v, r
    <3>5. QED
      BY <1>1, <1>2, <1>3, <3>4 DEF Leads
  <2>2. CASE ~Live(t, n)
    <3>1. Astray(t, Start(n), NamesOf(t, n))
      BY <2>2, AstrayStart
    <3> HIDE DEF v, r
    <3>2. QED
      BY <1>1, <1>2, <1>3, <3>1 DEF Leads
  <2>3. QED
    BY <2>1, <2>2
<1>5. ASSUME NEW k \in 1 .. Len(s), k - 1 \in T PROVE k \in T
  <2>1. k \in 0 .. Len(s) /\ k - 1 \in 0 .. Len(s)
    BY <1>1
  <2>2. s[k] \in STRING /\ v(k - 1) \in Walks /\ v(k) = Step(t, v(k - 1), s[k])
    BY <1>1, WalkSteps
  <2>3. v(k - 1).node \in Dirs /\ v(k).node # NoNode
    BY <1>1, <2>1, WalkThere
  <2>4. ~v(k).back
    BY <1>1, <2>1, WalkGrows
  <2>5. r(k) = Normal_step(r(k - 1), s[k])
    BY <1>1, NormalSteps
  <2>6. Leads(t, v(k - 1), r(k - 1))
    BY <1>5
  <2> HIDE DEF v, r
  <2>7. Leads(t, v(k), Normal_step(r(k - 1), s[k]))
    BY <2>2, <2>3, <2>4, <2>6, LeadsStep
  <2>8. QED
    BY <2>1, <2>5, <2>7
<1>6. \A k \in 0 .. Len(s) : k \in T
  <2> HIDE DEF T
  <2>1. QED
    BY <1>1, <1>4, <1>5, UpTo
<1>7. QED
  <2>1. Len(s) \in T
    BY <1>1, <1>6
  <2> HIDE DEF v, r
  <2>2. QED
    BY <1>2, <1>3, <2>1

-----------------------------------------------------------------------------
(* A walk stays as it was when a file that it does not lead through moves.  *)

LEMMA SameWalk ==
  ASSUME NEW w \in Walks, NEW v \in Walks, w.node = v.node, w.links = v.links,
         w.back = v.back, w.through = v.through
  PROVE  w = v
  BY DEF Walks

SameBut(t, u, n) == \A m \in Nodes \ {RootDir, n} : u[m] = t[m]

LEMMA ChildStable ==
  ASSUME NEW t, IsTree(t), NEW u, IsTree(u), NEW n, SameBut(t, u, n), NEW d, NEW x,
         NEW c, c = Child(t, d, x), c # NoNode, c # n
  PROVE  Child(u, d, x) = c
<1>1. c \in Nodes \ {RootDir} /\ ~t[c].gone /\ t[c].dir = d /\ t[c].name = x
  BY ChildType
<1>2. u[c] = t[c]
  BY <1>1 DEF SameBut
<1>3. Live(u, c)
  BY <1>1, <1>2 DEF Live
<1>4. Child(u, u[c].dir, u[c].name) = c
  BY <1>1, <1>3, ChildIs
<1>5. QED
  BY <1>1, <1>2, <1>4

LEMMA UpStable ==
  ASSUME NEW t, IsTree(t), NEW u, IsTree(u), NEW n, SameBut(t, u, n),
         NEW w \in Walks, w.node \in Nodes, n \notin Up(t, w).through
  PROVE  Up(u, w) = Up(t, w)
<1>1. Up(t, w).through = w.through \cup {w.node}
  BY UpType
<1>2. w.node # n
  BY <1>1
<1>3. Parent(u, w.node) = Parent(t, w.node)
  BY <1>2 DEF Parent, SameBut
<1>4. QED
  BY <1>3 DEF Up

LEMMA PlainStepStable ==
  ASSUME NEW t, IsTree(t), NEW u, IsTree(u), NEW n, SameBut(t, u, n),
         NEW w \in Walks, NEW x, NEW v, v = PlainStep(t, w, x), v.node # NoNode, n \notin v.through
  PROVE  PlainStep(u, w, x) = v /\ w.node # NoNode /\ n \notin w.through
<1>1. w.node \in Dirs
  BY DEF PlainStep, Walks
<1>2. w.node \in Nodes /\ w.node # NoNode
  BY <1>1, PathAssumption
<1>3. CASE x = "."
  BY <1>1, <1>2, <1>3 DEF PlainStep
<1>4. CASE x = ".." /\ x # "."
  <2>1. v = Up(t, w) /\ PlainStep(u, w, x) = Up(u, w)
    BY <1>1, <1>4 DEF PlainStep
  <2>2. w.through \subseteq v.through
    BY <1>2, <2>1, UpType
  <2>3. QED
    BY <1>2, <2>1, <2>2, UpStable
<1>5. CASE x \notin Dots
  <2> DEFINE c == Child(t, w.node, x)
  <2>1. c \in Nodes \cup {NoNode} /\ c = Child(t, w.node, x)
    BY ChildType
  <2>2. v = Into(w, c, FALSE) /\ PlainStep(u, w, x) = Into(w, Child(u, w.node, x), FALSE)
    BY <1>1, <1>5 DEF PlainStep, Dots
  <2> HIDE DEF c
  <2>3. v.node = c /\ v.through = w.through \cup {c}
    <3>1. PICK link \in BOOLEAN : link = FALSE
      OBVIOUS
    <3>2. Into(w, c, link).node = c /\ Into(w, c, link).through = w.through \cup {c}
      BY <2>1, IntoType
    <3>3. QED
      BY <2>2, <3>1, <3>2
  <2>4. Child(u, w.node, x) = c
    BY <2>1, <2>3, ChildStable
  <2>5. QED
    BY <1>2, <2>2, <2>3, <2>4
<1>6. QED
  BY <1>3, <1>4, <1>5 DEF Dots

LEMMA PlainStable ==
  ASSUME NEW t, IsTree(t), NEW u, IsTree(u), NEW n, SameBut(t, u, n),
         NEW m \in Nodes \cup {NoNode}, NEW s \in Texts,
         PlainWalk(t, m, s).node # NoNode, n \notin PlainWalk(t, m, s).through
  PROVE  PlainWalk(u, m, s) = PlainWalk(t, m, s)
<1> DEFINE v(k) == PlainAt(t, m, s, k)
           T == {k \in 0 .. Len(s) : v(k).node # NoNode /\ n \notin v(k).through
                                      => PlainAt(u, m, s, k) = v(k)}
<1>1. Len(s) \in Nat
  BY LenProperties DEF Texts
<1>2. 0 \in T
  BY <1>1, PlainSteps
<1>3. ASSUME NEW k \in 1 .. Len(s), k - 1 \in T PROVE k \in T
  <2>1. s[k] \in STRING /\ v(k - 1) \in Walks /\ v(k) = PlainStep(t, v(k - 1), s[k])
    BY PlainSteps
  <2>2. PlainAt(u, m, s, k) = PlainStep(u, PlainAt(u, m, s, k - 1), s[k])
    BY PlainSteps
  <2>3. ASSUME v(k).node # NoNode, n \notin v(k).through PROVE PlainAt(u, m, s, k) = v(k)
    <3> HIDE DEF v
    <3>1. /\ PlainStep(u, v(k - 1), s[k]) = v(k)
          /\ v(k - 1).node # NoNode /\ n \notin v(k - 1).through
      BY <2>1, <2>3, PlainStepStable
    <3>2. PlainAt(u, m, s, k - 1) = v(k - 1)
      BY <1>3, <3>1
    <3>3. QED
      BY <2>2, <3>1, <3>2
  <2>4. QED
    BY <1>1, <2>3
<1>4. \A k \in 0 .. Len(s) : k \in T
  <2> HIDE DEF T
  <2>1. QED
    BY <1>1, <1>2, <1>3, UpTo
<1>5. Len(s) \in T
  BY <1>1, <1>4
<1>6. v(Len(s)) = PlainWalk(t, m, s) /\ PlainAt(u, m, s, Len(s)) = PlainWalk(u, m, s)
  BY PlainSteps
<1>7. QED
  BY <1>5, <1>6

LEMMA StepStable ==
  ASSUME NEW t, IsTree(t), NEW u, IsTree(u), NEW n, SameBut(t, u, n),
         NEW w \in Walks, NEW x \in STRING,
         NEW v, v = Step(t, w, x), v.node # NoNode, n \notin v.through
  PROVE  Step(u, w, x) = v /\ w.node # NoNode /\ n \notin w.through
<1>1. w.node \in Dirs
  BY StepStuck DEF Walks
<1>2. w.node \in Nodes /\ w.node # NoNode /\ n \notin w.through
  BY <1>1, StepGrows, PathAssumption
<1>3. CASE x = "."
  BY <1>1, <1>2, <1>3, StepDot
<1>4. CASE x = ".."
  <2>1. v = Up(t, w) /\ Step(u, w, x) = Up(u, w)
    BY <1>1, <1>4, StepUp
  <2>2. QED
    BY <1>2, <2>1, UpStable
<1>5. CASE x \notin Dots
  <2> DEFINE c == Child(t, w.node, x)
  <2>1. c = Child(t, w.node, x) /\ x \in STRING \ Dots
    BY <1>5
  <2>2. PICK y : y = Step(u, w, x)
    OBVIOUS
  <2> HIDE DEF c
  <2>3. CASE c \notin DOMAIN Target
    <3>1. IntoFile(w, c, v)
      BY <1>1, <2>1, <2>3, StepInto
    <3>2. Child(u, w.node, x) = c
      BY <2>1, <3>1, ChildStable DEF IntoFile
    <3>3. IntoFile(w, c, y)
      BY <1>1, <2>1, <2>2, <2>3, <3>2, StepInto
    <3>4. y = v
      BY <3>1, <3>3, SameWalk DEF IntoFile
    <3>5. QED
      BY <1>2, <2>2, <3>4
  <2>4. CASE c \in DOMAIN Target
    <3>1. IntoLink(t, w, c, v)
      BY <1>1, <2>1, <2>4, StepInto
    <3>2. Child(u, w.node, x) = c
      <4>1. c # NoNode /\ c # n
        BY <2>4, <3>1, PathAssumption DEF IntoLink
      <4>2. QED
        BY <2>1, <4>1, ChildStable
    <3>3. Goal(u, w, c) = Goal(t, w, c)
      <4>1. Goal(t, w, c).node # NoNode /\ n \notin Goal(t, w, c).through
        BY <3>1 DEF IntoLink
      <4>2. /\ (IF Target[c].abs THEN RootDir ELSE w.node) \in Nodes \cup {NoNode}
            /\ Target[c].names \in Texts
        BY <1>2, <2>4, PathAssumption DEF PathValues, Texts
      <4>3. QED
        BY <4>1, <4>2, PlainStable DEF Goal
    <3>4. IntoLink(u, w, c, y)
      BY <1>1, <2>1, <2>2, <2>4, <3>2, StepInto
    <3>5. y = v
      BY <3>1, <3>3, <3>4, SameWalk DEF IntoLink
    <3>6. QED
      BY <1>2, <2>2, <3>5
  <2>5. QED
    BY <2>3, <2>4
<1>6. QED
  BY <1>3, <1>4, <1>5 DEF Dots

LEMMA WalkStable ==
  ASSUME NEW t, IsTree(t), NEW u, IsTree(u), NEW n, SameBut(t, u, n),
         NEW m \in Nodes \cup {NoNode}, NEW s \in Texts,
         WalkNames(t, m, s).node # NoNode, n \notin WalkNames(t, m, s).through
  PROVE  WalkNames(u, m, s) = WalkNames(t, m, s)
<1> DEFINE v(k) == WalkAt(t, m, s, k)
           T == {k \in 0 .. Len(s) : v(k).node # NoNode /\ n \notin v(k).through
                                      => WalkAt(u, m, s, k) = v(k)}
<1>1. Len(s) \in Nat
  BY LenProperties DEF Texts
<1>2. 0 \in T
  BY <1>1, WalkSteps
<1>3. ASSUME NEW k \in 1 .. Len(s), k - 1 \in T PROVE k \in T
  <2>1. s[k] \in STRING /\ v(k - 1) \in Walks /\ v(k) = Step(t, v(k - 1), s[k])
    BY WalkSteps
  <2>2. WalkAt(u, m, s, k) = Step(u, WalkAt(u, m, s, k - 1), s[k])
    BY WalkSteps
  <2>3. ASSUME v(k).node # NoNode, n \notin v(k).through PROVE WalkAt(u, m, s, k) = v(k)
    <3> HIDE DEF v
    <3>1. /\ Step(u, v(k - 1), s[k]) = v(k)
          /\ v(k - 1).node # NoNode /\ n \notin v(k - 1).through
      <4>1. PICK w \in Walks, x \in STRING : w = v(k - 1) /\ x = s[k]
        BY <2>1
      <4>2. PICK y : y = v(k)
        OBVIOUS
      <4>3. y = Step(t, w, x) /\ y.node # NoNode /\ n \notin y.through
        BY <2>1, <2>3, <4>1, <4>2
      <4>4. Step(u, w, x) = y /\ w.node # NoNode /\ n \notin w.through
        BY <4>3, StepStable
      <4>5. QED
        BY <4>1, <4>2, <4>4
    <3>2. WalkAt(u, m, s, k - 1) = v(k - 1)
      BY <1>3, <3>1
    <3>3. QED
      BY <2>2, <3>1, <3>2
  <2>4. QED
    BY <1>1, <2>3
<1>4. \A k \in 0 .. Len(s) : k \in T
  <2> HIDE DEF T
  <2>1. QED
    BY <1>1, <1>2, <1>3, UpTo
<1>5. Len(s) \in T
  BY <1>1, <1>4
<1>6. v(Len(s)) = WalkNames(t, m, s) /\ WalkAt(u, m, s, Len(s)) = WalkNames(u, m, s)
  BY WalkSteps
<1>7. QED
  BY <1>5, <1>6

-----------------------------------------------------------------------------
(* What the kernel finds and what helpers.h makes of the same path.         *)

\* A path that leads to a file of the tree is not one of a descriptor.
LEMMA NotDescriptor ==
  ASSUME NEW t, IsTree(t), NEW s \in Clean, WalkNames(t, RootDir, s).node # NoNode,
         s # << >>
  PROVE  Front(s) \notin FdPrefixes({Leader, Thread})
<1> DEFINE prefix == Front(s)
<1>1. ASSUME prefix \in FdPrefixes({Leader, Thread}) PROVE FALSE
  <2>1. /\ prefix \in Clean /\ prefix # << >>
    BY <1>1, CleanFront, DescriptorAssumption
  <2>2. Len(prefix) \in Nat \ {0} /\ Len(prefix) = Len(s) - 1 /\ s \in Texts
    <3>1. prefix \in Seq(STRING)
      BY <2>1, CleanTexts
    <3>2. Len(prefix) = Len(s) - 1
      BY CleanFront
    <3> HIDE DEF prefix
    <3>3. QED
      BY <2>1, <3>1, <3>2, EmptySeq, CleanTexts
  <2>3. Len(s) \in Nat
    BY <2>2, LenProperties DEF Texts
  <2>4. 1 \in 1 .. Len(prefix) /\ 1 \in 1 .. Len(s) /\ 1 \in 0 .. Len(s) /\ 1 - 1 = 0
    BY <2>2, <2>3
  <2>5. PICK x \in STRING \ Dots : x = s[1] /\ x = prefix[1]
    <3>1. s = Append(prefix, Last(s)) /\ Last(s) \in STRING
      BY CleanFront
    <3>2. prefix \in Seq(STRING)
      BY <2>1, CleanTexts
    <3> HIDE DEF prefix
    <3>3. \A y \in STRING : \A i \in 1 .. Len(prefix) : Append(prefix, y)[i] = prefix[i]
      BY <3>2, AppendProperties
    <3>4. s[1] = prefix[1]
      BY <2>4, <3>1, <3>3
    <3>5. s[1] \in STRING \ Dots
      <4>1. PICK X : X = STRING \ Dots
        OBVIOUS
      <4>2. s \in Seq(X)
        BY <4>1 DEF Clean
      <4>3. QED
        BY <2>4, <4>1, <4>2, ElementOfSeq
    <3>6. QED
      BY <3>4, <3>5
  <2>6. RootDir \in Nodes \cup {NoNode} /\ RootDir \in Dirs /\ RootDir \in Nodes
    BY PathAssumption
  <2>7. WalkAt(t, RootDir, s, 1).node # NoNode /\ WalkAt(t, RootDir, s, 1) = Step(t, Start(RootDir), x)
    <3>1. WalkAt(t, RootDir, s, 1).node # NoNode
      BY <2>2, <2>4, <2>6, WalkThere
    <3>2. /\ WalkAt(t, RootDir, s, 1) = Step(t, WalkAt(t, RootDir, s, 1 - 1), s[1])
          /\ WalkAt(t, RootDir, s, 0) = Start(RootDir)
      BY <2>2, <2>4, <2>6, WalkSteps
    <3>3. QED
      BY <2>4, <2>5, <3>1, <3>2
  <2>8. PICK c : c = Child(t, RootDir, x)
    OBVIOUS
  <2>9. c # NoNode
    <3>1. ASSUME c = NoNode PROVE FALSE
      <4>1. c \notin DOMAIN Target
        BY <3>1, PathAssumption
      <4>2. PICK w \in Walks : w = Start(RootDir) /\ w.node = RootDir
        BY <2>6, StartType DEF Start
      <4>3. IntoFile(w, c, Step(t, w, x))
        BY <2>6, <2>8, <4>1, <4>2, StepInto
      <4>4. QED
        BY <2>7, <3>1, <4>2, <4>3 DEF IntoFile
    <3>2. QED
      BY <3>1
  <2>10. c \in Nodes \ {RootDir} /\ t[c].dir = RootDir /\ t[c].name = x
    BY <2>8, <2>9, ChildType
  <2>11. t[c].name # Head(prefix)
    BY <1>1, <2>10 DEF IsTree
  <2>12. Head(prefix) = prefix[1]
    OBVIOUS
  <2>13. QED
    BY <2>5, <2>10, <2>11, <2>12
<1>2. QED
  BY <1>1

\* What a walk along a path starts from.
From(path, n) == IF path.abs THEN RootDir ELSE n

Found(t, w, path, n) ==
  /\ From(path, n) \in Dirs /\ path.names \in Texts
  /\ w = WalkNames(t, From(path, n), path.names) /\ w \in Walks
  /\ path.slash => w.node \in Dirs

LEMMA WalkFound ==
  ASSUME NEW t, IsTree(t), NEW n \in Nodes \cup {NoNode}, NEW path \in PathValues,
         ~IsEmpty(path), Walk(t, n, path).node # NoNode
  PROVE  Found(t, Walk(t, n, path), path, n)
<1> DEFINE b == From(path, n)
           w == WalkNames(t, b, path.names)
<1>1. /\ b \in Nodes \cup {NoNode} /\ path.names \in Texts
      /\ path.abs \in BOOLEAN /\ path.slash \in BOOLEAN
  BY PathAssumption DEF From, PathValues, Texts
<1>2. w \in Walks
  <2>1. WalkAt(t, b, path.names, Len(path.names)) = w /\ Len(path.names) \in 0 .. Len(path.names)
    BY <1>1, WalkSteps, LenProperties DEF Texts
  <2>2. \A k \in 0 .. Len(path.names) : WalkAt(t, b, path.names, k) \in Walks
    BY <1>1, WalkSteps
  <2>3. QED
    BY <2>1, <2>2
<1>3. Walk(t, n, path) = IF path.slash /\ w.node \notin Dirs THEN [w EXCEPT !.node = NoNode] ELSE w
  BY DEF Walk, From
<1> HIDE DEF w, b
<1>4. ~(path.slash /\ w.node \notin Dirs)
  <2>1. [w EXCEPT !.node = NoNode].node = NoNode
    BY <1>2 DEF Walks
  <2>2. QED
    BY <1>3, <2>1
<1>5. Walk(t, n, path) = w /\ w.node # NoNode /\ (path.slash => w.node \in Dirs)
  BY <1>3, <1>4
<1>6. b \in Dirs
  <2>1. CASE path.abs
    BY <2>1, PathAssumption DEF b, From
  <2>2. CASE path.names # << >>
    <3>1. Len(path.names) \in Nat \ {0}
      BY <1>1, <2>2, EmptySeq DEF Texts
    <3>2. 1 \in 1 .. Len(path.names) /\ 1 - 1 = 0
      BY <3>1
    <3>3. WalkAt(t, b, path.names, 1 - 1).node \in Dirs
      BY <1>1, <1>5, <3>2, WalkThere DEF w
    <3>4. WalkAt(t, b, path.names, 0) = Start(b)
      BY <1>1, WalkSteps
    <3>5. QED
      BY <3>2, <3>3, <3>4 DEF Start
  <2>3. CASE path.names = << >> /\ ~path.abs
    <3>1. path.slash
      BY <1>1, <2>3 DEF IsEmpty
    <3>2. WalkAt(t, b, path.names, 0) = Start(b) /\ WalkAt(t, b, path.names, Len(path.names)) = w
      BY <1>1, WalkSteps DEF w
    <3>3. Len(path.names) = 0
      BY <2>3, EmptySeq
    <3>4. w = Start(b) /\ w.node \in Dirs
      BY <1>5, <3>1, <3>2, <3>3
    <3>5. QED
      BY <3>4 DEF Start
  <2>4. QED
    BY <2>1, <2>2, <2>3
<1>7. QED
  BY <1>1, <1>2, <1>5, <1>6 DEF Found, b, w

\* The path made of the walk's.
Made(t, path, n) ==
  lexically_normal((IF path.abs THEN << >> ELSE NamesOf(t, n)) \o path.names)

LEMMA FoundLeads ==
  ASSUME NEW t, IsTree(t), NEW path, NEW n, NEW w, Found(t, w, path, n),
         w.node # NoNode, ~w.back
  PROVE  Leads(t, w, Made(t, path, n))
<1> DEFINE b == From(path, n)
<1>1. b \in Dirs /\ path.names \in Texts /\ w = WalkNames(t, b, path.names)
  BY DEF Found
<1>2. RootDir \in Nodes
  BY PathAssumption
<1>3. NamesOf(t, b) = IF path.abs THEN << >> ELSE NamesOf(t, n)
  BY <1>2, NamesOfClean DEF From
<1>4. Leads(t, w, lexically_normal(NamesOf(t, b) \o path.names))
  BY <1>1, WalkLeads
<1>5. QED
  BY <1>3, <1>4 DEF Made

LEMMA LeadsThere ==
  ASSUME NEW t, IsTree(t), NEW w \in Walks, NEW s, Leads(t, w, s), w.node # NoNode,
         Live(t, w.node) \/ w.through = {},
         NEW slash, slash => w.node \in Dirs \/ s = << >>
  PROVE  IF \E i \in DOMAIN w.links : w.links[i]
         THEN Walk(t, RootDir, Path(TRUE, s, slash)).node = w.node
         ELSE s = NamesOf(t, w.node)
<1>1. DOMAIN w.links = 1 .. Len(w.links)
  BY LenProperties DEF Walks
<1>2. CASE Sound(t, w, s)
  <2>1. CASE \E i \in DOMAIN w.links : w.links[i]
    <3>1. s \in Texts /\ RootDir \in Nodes \cup {NoNode} /\ RootDir \in Dirs
      BY <1>2, CleanTexts, PathAssumption DEF Sound
    <3>2. s = << >> => w.node = RootDir
      <4>1. WalkAt(t, RootDir, s, 0) = Start(RootDir) /\ WalkAt(t, RootDir, s, Len(s)) = WalkNames(t, RootDir, s)
        BY <3>1, WalkSteps
      <4>2. s = << >> => Len(s) = 0
        BY EmptySeq
      <4>3. QED
        BY <1>2, <4>1, <4>2 DEF Start, Sound
    <3>3. slash => w.node \in Dirs
      BY <3>1, <3>2
    <3>4. Walk(t, RootDir, Path(TRUE, s, slash)).node = w.node
      <4>1. WalkNames(t, RootDir, s).node = w.node
        BY <1>2 DEF Sound
      <4>2. /\ Path(TRUE, s, slash).abs /\ Path(TRUE, s, slash).names = s
            /\ Path(TRUE, s, slash).slash = slash
        BY DEF Path
      <4>3. QED
        BY <3>3, <4>1, <4>2 DEF Walk
    <3>5. QED
      BY <2>1, <3>4
  <2>2. CASE ~\E i \in DOMAIN w.links : w.links[i]
    <3>1. Plain(w.links)
      BY <1>1, <2>2 DEF Plain
    <3>2. s = PathTo(t)[w.node] /\ Live(t, w.node)
      BY <1>2, <3>1 DEF Sound, Present
    <3>3. QED
      BY <2>2, <3>2 DEF NamesOf
  <2>3. QED
    BY <2>1, <2>2
<1>3. CASE Astray(t, w, s)
  <2>1. s = NamesOf(t, w.node) /\ w.links = << >>
    BY <1>3 DEF Astray
  <2>2. Len(w.links) = 0
    BY <2>1, EmptySeq
  <2>3. QED
    BY <1>1, <2>1, <2>2
<1>4. QED
  BY <1>2, <1>3 DEF Leads

\* If no link is left in the path, it is that of a file which is no link.
LEMMA LeadsPlain ==
  ASSUME NEW t, NEW w \in Walks, NEW s, Leads(t, w, s), Live(t, w.node),
         \A i \in DOMAIN w.links : ~w.links[i]
  PROVE  s = PathTo(t)[w.node] /\ w.node \notin DOMAIN Target /\ Present(t, w.node)
<1>1. DOMAIN w.links = 1 .. Len(w.links)
  BY LenProperties DEF Walks
<1>2. Sound(t, w, s)
  BY DEF Leads, Astray
<1>3. QED
  BY <1>1, <1>2 DEF Sound, Plain

-----------------------------------------------------------------------------
(* Changes of the tree.                                                     *)

LEMMA MoveTree ==
  ASSUME NEW t, IsTree(t), NEW n \in Nodes \ {RootDir}, NEW d \in Dirs, NEW name \in Names,
         n # d, ~Below(t, d, n), Live(t, d), Child(t, d, name) = NoNode,
         d = RootDir => \A prefix \in FdPrefixes({Leader, Thread}) : name # Head(prefix),
         NEW u, u = [t EXCEPT ![n] = [dir |-> d, name |-> name, gone |-> FALSE]]
  PROVE  IsTree(u) /\ SameBut(t, u, n)
<1>1. /\ u[n] = [dir |-> d, name |-> name, gone |-> FALSE]
      /\ \A m \in Nodes \ {RootDir, n} : u[m] = t[m]
      /\ u \in [Nodes \ {RootDir} -> [dir : Dirs, name : Names, gone : BOOLEAN]]
  BY DEF IsTree
<1>2. u[n].dir = d /\ u[n].name = name /\ u[n].gone = FALSE
  BY <1>1
<1>8. \A m \in Nodes \ {RootDir} : t[m].gone \/ t[m].dir # d \/ t[m].name # name
  <2>1. PICK c : c = Child(t, d, name)
    OBVIOUS
  <2>2. c \notin Nodes
    BY <2>1, PathAssumption
  <2>3. QED
    BY <2>1, <2>2, ChildType
<1>3. ASSUME NEW S \in SUBSET (Nodes \ {RootDir}), S # {} PROVE \E m \in S : u[m].dir \notin S
  <2>1. CASE n \notin S
    <3>1. PICK m \in S : t[m].dir \notin S
      BY <1>3 DEF IsTree
    <3>2. u[m] = t[m]
      BY <1>1, <2>1
    <3>3. QED
      BY <3>1, <3>2
  <2>2. CASE n \in S
    <3> DEFINE A == {m \in S : m # n /\ ~Below(t, m, n)}
    <3>1. CASE A # {}
      <4>1. A \in SUBSET (Nodes \ {RootDir})
        OBVIOUS
      <4>2. PICK m \in A : t[m].dir \notin A
        <5> HIDE DEF A
        <5>1. QED
          BY <3>1, <4>1 DEF IsTree
      <4>3. m \in S /\ m # n /\ ~Below(t, m, n) /\ m \in Nodes \ {RootDir}
        BY <4>2
      <4>4. t[m].dir # n /\ ~Below(t, t[m].dir, n)
        BY <4>3, BelowValue
      <4>5. t[m].dir \notin S
        BY <4>2, <4>4
      <4>6. u[m] = t[m]
        BY <1>1, <4>3
      <4>7. QED
        BY <4>3, <4>5, <4>6
    <3>2. CASE A = {}
      <4>1. d \notin S
        BY <3>2
      <4>2. QED
        BY <1>2, <2>2, <4>1
    <3>3. QED
      BY <3>1, <3>2
  <2>3. QED
    BY <2>1, <2>2
<1>4. ASSUME NEW m \in Nodes \ {RootDir}, ~u[m].gone
      PROVE  u[m].dir = RootDir \/ ~u[u[m].dir].gone
  <2>1. CASE m = n
    <3>1. d = RootDir \/ (d \in Nodes \ {RootDir, n} /\ ~t[d].gone)
      BY PathAssumption DEF Live
    <3>2. QED
      BY <1>1, <1>2, <2>1, <3>1
  <2>2. CASE m # n
    <3>1. u[m] = t[m] /\ ~t[m].gone
      BY <1>1, <1>4, <2>2
    <3>2. t[m].dir = RootDir \/ ~t[t[m].dir].gone
      BY <3>1 DEF IsTree
    <3>3. t[m].dir \in Nodes
      BY TreeType
    <3>4. CASE t[m].dir = n
      BY <1>2, <3>1, <3>4
    <3>5. CASE t[m].dir # n
      BY <1>1, <3>1, <3>2, <3>3, <3>5
    <3>6. QED
      BY <3>4, <3>5
  <2>3. QED
    BY <2>1, <2>2
<1>5. ASSUME NEW m \in Nodes \ {RootDir}, NEW k \in Nodes \ {RootDir, m}, ~u[k].gone, ~u[m].gone
      PROVE  u[k].dir # u[m].dir \/ u[k].name # u[m].name
  <2>1. CASE m = n
    <3>1. u[k] = t[k]
      BY <1>1, <2>1
    <3>2. QED
      BY <1>2, <1>5, <1>8, <2>1, <3>1
  <2>2. CASE k = n
    <3>1. u[m] = t[m]
      BY <1>1, <2>2
    <3>2. QED
      BY <1>2, <1>5, <1>8, <2>2, <3>1
  <2>3. CASE m # n /\ k # n
    <3>1. u[m] = t[m] /\ u[k] = t[k]
      BY <1>1, <2>3
    <3>2. QED
      BY <1>5, <3>1 DEF IsTree
  <2>4. QED
    BY <2>1, <2>2, <2>3
<1>6. ASSUME NEW m \in Nodes \ {RootDir}, u[m].dir = RootDir
      PROVE  \A prefix \in FdPrefixes({Leader, Thread}) : u[m].name # Head(prefix)
  <2>1. CASE m = n
    BY <1>2, <1>6, <2>1
  <2>2. CASE m # n
    <3>1. u[m] = t[m]
      BY <1>1, <2>2
    <3>2. QED
      BY <1>6, <3>1 DEF IsTree
  <2>3. QED
    BY <2>1, <2>2
<1>7. IsTree(u)
  BY <1>1, <1>3, <1>4, <1>5, <1>6 DEF IsTree
<1>9. QED
  BY <1>1, <1>7 DEF SameBut

LEMMA UnlinkTree ==
  ASSUME NEW t, IsTree(t), NEW n \in Nodes \ {RootDir},
         \A m \in Nodes \ {RootDir} : t[m].gone \/ t[m].dir # n,
         NEW u, u = [t EXCEPT ![n].gone = TRUE]
  PROVE  IsTree(u) /\ SameBut(t, u, n)
<1>1. t[n] \in [dir : Dirs, name : Names, gone : BOOLEAN]
  BY DEF IsTree
<1>2. /\ u[n] = [t[n] EXCEPT !.gone = TRUE]
      /\ \A m \in Nodes \ {RootDir, n} : u[m] = t[m]
      /\ u \in [Nodes \ {RootDir} -> [dir : Dirs, name : Names, gone : BOOLEAN]]
  BY <1>1 DEF IsTree
<1>3. u[n].dir = t[n].dir /\ u[n].name = t[n].name /\ u[n].gone
  BY <1>1, <1>2
<1>4. ASSUME NEW m \in Nodes \ {RootDir}
      PROVE  u[m].dir = t[m].dir /\ u[m].name = t[m].name /\ (~u[m].gone => ~t[m].gone /\ m # n)
  <2>1. CASE m = n
    BY <1>3, <2>1
  <2>2. CASE m # n
    BY <1>2, <2>2
  <2>3. QED
    BY <2>1, <2>2
<1>5. ASSUME NEW S \in SUBSET (Nodes \ {RootDir}), S # {} PROVE \E m \in S : u[m].dir \notin S
  <2>1. PICK m \in S : t[m].dir \notin S
    BY <1>5 DEF IsTree
  <2>2. u[m].dir = t[m].dir
    BY <1>4
  <2>3. QED
    BY <2>1, <2>2
<1>6. ASSUME NEW m \in Nodes \ {RootDir}, ~u[m].gone
      PROVE  u[m].dir = RootDir \/ ~u[u[m].dir].gone
  <2>1. ~t[m].gone /\ m # n /\ u[m].dir = t[m].dir
    BY <1>4, <1>6
  <2>2. t[m].dir = RootDir \/ ~t[t[m].dir].gone
    BY <2>1 DEF IsTree
  <2>3. t[m].dir \in Nodes /\ t[m].dir # n
    BY <2>1, TreeType
  <2>4. QED
    BY <1>2, <2>1, <2>2, <2>3
<1>7. ASSUME NEW m \in Nodes \ {RootDir}, NEW k \in Nodes \ {RootDir, m}, ~u[k].gone, ~u[m].gone
      PROVE  u[k].dir # u[m].dir \/ u[k].name # u[m].name
  <2>1. ~t[k].gone /\ ~t[m].gone
    BY <1>4, <1>7
  <2>2. t[k].dir # t[m].dir \/ t[k].name # t[m].name
    BY <2>1 DEF IsTree
  <2>3. QED
    BY <1>4, <2>2
<1>8. ASSUME NEW m \in Nodes \ {RootDir}, u[m].dir = RootDir
      PROVE  \A prefix \in FdPrefixes({Leader, Thread}) : u[m].name # Head(prefix)
  <2>1. u[m].name = t[m].name /\ t[m].dir = RootDir
    BY <1>4, <1>8
  <2>2. QED
    BY <2>1 DEF IsTree
<1>9. IsTree(u)
  BY <1>2, <1>5, <1>6, <1>7, <1>8 DEF IsTree
<1>10. QED
  BY <1>2, <1>9 DEF SameBut

-----------------------------------------------------------------------------
(* The inductive invariant.                                                 *)

Calls ==
  [name : {"openat", "execve", "getdents64"}, pid : {Leader, Thread},
   fd : Fds \cup {CallerCwd}, path : PathValues]

Callable(c) ==
  /\ c \in Calls
  /\ c.name # "getdents64" => ~IsEmpty(c.path)
  /\ c.name = "execve" => c.fd = CallerCwd

PathTypes ==
  /\ IsTree(place) /\ cwd \in Dirs
  /\ fds \in [Fds -> [node : Nodes \cup {NoNode}, cloexec : BOOLEAN]]
  /\ walk \in Walks
  /\ at # "user" => Callable(call)

Stopped == at \in {"executing", "exited"}

\* Until its exit stop a call that is not disturbed would still find its file.
Refound ==
  Stopped =>
    /\ walk.node # NoNode
    /\ call.name = "execve" => walk.node \notin Dirs
    /\ ByName /\ Undisturbed => walk = KernelWalk(call)

\* The descriptors that a call goes through hold its file, or are closed.
Described ==
  Stopped =>
    /\ at = "executing" => call.name = "execve"
    /\ call.name = "execve" /\ at = "exited" => call.pid = Leader
    /\ call.name = "getdents64" =>
         call.fd \in Fds /\ (call.fd \notin changed => fds[call.fd].node = walk.node)
    /\ call.name = "execve" /\ ~ByName =>
         LET fd == FdNumber[Last(call.path.names)]
         IN  /\ fd \in Fds
             /\ fd \notin changed =>
                  fds[fd].node = IF at = "exited" /\ fds[fd].cloexec THEN NoNode ELSE walk.node

Unlinked == ~walk.back /\ \A i \in DOMAIN walk.links : ~walk.links[i]

\* The path of a call that is not disturbed and goes through no link is its file's.
OwnPath ==
  /\ at \in {"resolved", "compared"} /\ ByName /\ Undisturbed /\ moved = {}
  /\ Unlinked /\ Live(place, walk.node)
  => /\ Present(place, walk.node) /\ walk.node \notin DOMAIN Target
     /\ \E slash \in BOOLEAN :
          /\ resolved = Path(TRUE, PathTo(place)[walk.node], slash)
          /\ PathTo(place)[walk.node] = << >> => slash

Compared == at = "compared" => rule \in RulePaths /\ matches = is_path_in(resolved, rule)

PathInv == PathTypes /\ Refound /\ Described /\ OwnPath /\ Compared

-----------------------------------------------------------------------------
(* The calls.                                                               *)

LEMMA WalkType ==
  ASSUME NEW t, IsTree(t), NEW n \in Nodes \cup {NoNode}, NEW path \in PathValues
  PROVE  Walk(t, n, path) \in Walks
<1> DEFINE w == WalkNames(t, From(path, n), path.names)
<1>1. From(path, n) \in Nodes \cup {NoNode} /\ path.names \in Texts
  BY PathAssumption DEF From, PathValues, Texts
<1>2. w \in Walks
  <2>1. /\ WalkAt(t, From(path, n), path.names, Len(path.names)) = w
        /\ Len(path.names) \in 0 .. Len(path.names)
    BY <1>1, WalkSteps, LenProperties DEF Texts
  <2>2. \A k \in 0 .. Len(path.names) : WalkAt(t, From(path, n), path.names, k) \in Walks
    BY <1>1, WalkSteps
  <2>3. QED
    BY <2>1, <2>2
<1>3. Walk(t, n, path) = IF path.slash /\ w.node \notin Dirs THEN [w EXCEPT !.node = NoNode] ELSE w
  BY DEF Walk, From
<1> HIDE DEF w
<1>4. [w EXCEPT !.node = NoNode] \in Walks
  BY <1>2 DEF Walks
<1>5. QED
  BY <1>2, <1>3, <1>4

LEMMA WalkMoves ==
  ASSUME NEW t, IsTree(t), NEW u, IsTree(u), NEW n, SameBut(t, u, n),
         NEW m \in Nodes \cup {NoNode}, NEW path \in PathValues, ~IsEmpty(path),
         Walk(t, m, path).node # NoNode, n \notin Walk(t, m, path).through
  PROVE  Walk(u, m, path) = Walk(t, m, path)
<1> DEFINE w == Walk(t, m, path)
           b == From(path, m)
<1>1. Found(t, w, path, m)
  BY WalkFound
<1>2. /\ b \in Nodes \cup {NoNode} /\ path.names \in Texts /\ w = WalkNames(t, b, path.names)
      /\ path.slash => w.node \in Dirs
  BY <1>1, PathAssumption DEF Found
<1>3. WalkNames(u, b, path.names) = WalkNames(t, b, path.names)
  <2>1. w.node # NoNode /\ n \notin w.through
    OBVIOUS
  <2> HIDE DEF w, b
  <2>2. WalkNames(t, b, path.names).node # NoNode /\ n \notin WalkNames(t, b, path.names).through
    BY <1>2, <2>1
  <2>3. QED
    BY <1>2, <2>2, WalkStable
<1>4. Walk(u, m, path) = w
  <2>1. WalkNames(u, b, path.names) = w
    BY <1>2, <1>3
  <2> HIDE DEF w
  <2>2. QED
    BY <1>2, <2>1 DEF Walk, From
<1>5. QED
  BY <1>4

\* What a call's path starts from.
Base(w, f, c) ==
  IF c.path.abs \/ c.fd = CallerCwd THEN w
  ELSE IF c.fd \in Fds /\ f[c.fd].node # NoNode THEN f[c.fd].node ELSE NoNode

LEMMA BaseType ==
  ASSUME NEW w \in Dirs, NEW f \in [Fds -> [node : Nodes \cup {NoNode}, cloexec : BOOLEAN]], NEW c
  PROVE  Base(w, f, c) \in Nodes \cup {NoNode}
  BY PathAssumption DEF Base

LEMMA KernelWalkType ==
  ASSUME PathTypes, Callable(call)
  PROVE  KernelWalk(call) \in Walks
<1>1. /\ IsTree(place) /\ cwd \in Nodes \cup {NoNode} /\ call.path \in PathValues
      /\ \A fd : Open(fd) => fds[fd].node \in Nodes \cup {NoNode}
  BY PathAssumption DEF PathTypes, Callable, Calls, Open
<1>2. \A n \in Nodes \cup {NoNode} : Start(n) \in Walks /\ Walk(place, n, call.path) \in Walks
  BY <1>1, StartType, WalkType
<1>3. NoNode \in Nodes \cup {NoNode}
  OBVIOUS
<1> DEFINE Is(w) == w \in Walks
<1>4. \A fd : Is(Start(IF Open(fd) THEN fds[fd].node ELSE NoNode))
  BY <1>1, <1>2, <1>3
<1>5. \A fd : Is(Walk(place, IF Open(fd) THEN fds[fd].node ELSE NoNode, call.path))
  BY <1>1, <1>2, <1>3
<1>6. Is(Walk(place, cwd, call.path))
  BY <1>1, <1>2
<1>7. QED
  BY <1>4, <1>5, <1>6 DEF KernelWalk

\* What the transition function takes for the path.
Taken ==
  CASE call.name = "openat" -> get_absolute_path_at(call.fd, call.path)
    [] call.name = "execve" -> get_execve_path(call.pid, call.path)
    [] call.name = "getdents64" -> get_fd_path(call.fd)

MadePath(t, path, n) ==
  Path(TRUE, Made(t, path, n), path.slash \/ Made(t, path, n) = << >>)

LEMMA MadeValue ==
  ASSUME NEW t, NEW path \in PathValues, NEW n, NEW w, Leads(t, w, Made(t, path, n))
  PROVE  MadePath(t, path, n) \in PathValues /\ MadePath(t, path, n) # Nullopt
<1>1. Made(t, path, n) \in Texts
  BY CleanTexts DEF Leads, Sound, Astray
<1>2. path.slash \in BOOLEAN
  BY DEF PathValues
<1>3. MadePath(t, path, n) \in PathValues
  BY <1>1, <1>2 DEF MadePath, Path, PathValues, Texts
<1>4. QED
  BY <1>3, PathAssumption

LEMMA TakenPath ==
  ASSUME PathTypes, Refound, at = "exited", ByName, Undisturbed, ~walk.back,
         NEW n, n = Base(cwd, fds, call)
  PROVE  /\ Found(place, walk, call.path, n) /\ Leads(place, walk, Made(place, call.path, n))
         /\ Taken = MadePath(place, call.path, n)
<1>1. /\ IsTree(place) /\ n \in Nodes \cup {NoNode} /\ Callable(call)
      /\ call.path \in PathValues /\ ~IsEmpty(call.path) /\ call.pid \in {Leader, Thread}
      /\ call.name \in {"openat", "execve"}
  BY BaseType DEF PathTypes, Callable, Calls, ByName
<1>2. walk = Walk(place, n, call.path) /\ walk.node # NoNode
  BY DEF Refound, Stopped, KernelWalk, ByName, Base, Open
<1>3. Found(place, walk, call.path, n)
  BY <1>1, <1>2, WalkFound
<1>4. Leads(place, walk, Made(place, call.path, n))
  BY <1>1, <1>2, <1>3, FoundLeads
<1>5. MadePath(place, call.path, n) \in PathValues /\ MadePath(place, call.path, n) # Nullopt
  BY <1>1, <1>4, MadeValue
<1>6. call.path.abs \/ call.fd = CallerCwd =>
        get_absolute_path(call.path) = MadePath(place, call.path, n)
  BY <1>1 DEF get_absolute_path, normalize_path, MadePath, Made, Base
<1>7. CASE call.name = "openat"
  <2>1. CASE call.path.abs \/ call.fd = CallerCwd
    BY <1>3, <1>4, <1>6, <1>7, <2>1 DEF Taken, get_absolute_path_at
  <2>2. CASE ~(call.path.abs \/ call.fd = CallerCwd)
    <3>1. n \in Dirs
      BY <1>3, <2>2 DEF Found, From
    <3>2. Open(call.fd) /\ n = fds[call.fd].node
      BY <2>2, <3>1, PathAssumption DEF Base, Open
    <3>3. get_absolute_path_at(call.fd, call.path) = MadePath(place, call.path, n)
      <4>1. Made(place, call.path, n)
              = lexically_normal(NamesOf(place, fds[call.fd].node) \o call.path.names)
        BY <2>2, <3>2 DEF Made
      <4>2. get_absolute_path_at(call.fd, call.path)
              = normalize_path(NamesOf(place, fds[call.fd].node) \o call.path.names, call.path.slash)
        BY <1>1, <2>2, <3>2 DEF get_absolute_path_at
      <4>3. QED
        BY <4>1, <4>2 DEF normalize_path, MadePath
    <3>4. QED
      BY <1>3, <1>4, <1>7, <3>3 DEF Taken
  <2>3. QED
    BY <2>1, <2>2
<1>8. CASE call.name = "execve"
  <2> DEFINE r == MadePath(place, call.path, n)
             s == Made(place, call.path, n)
  <2>1. call.fd = CallerCwd /\ walk.node \notin Dirs
    BY <1>1, <1>8 DEF Callable, Refound, Stopped
  <2>2. get_absolute_path(call.path) = r /\ r # Nullopt
    BY <1>5, <1>6, <2>1
  <2>3. Sound(place, walk, s)
    BY <1>4, <2>1 DEF Leads, Astray
  <2>4. r.names = s
    BY DEF MadePath, Path
  <2>5. ~IsFdPath(r, {call.pid})
    <3>1. ASSUME s # << >> PROVE Front(s) \notin FdPrefixes({Leader, Thread})
      <4>1. s \in Clean /\ WalkNames(place, RootDir, s).node # NoNode
        BY <1>2, <2>3 DEF Sound
      <4> HIDE DEF s
      <4>2. QED
        BY <1>1, <3>1, <4>1, NotDescriptor
    <3>2. FdPrefixes({call.pid}) \subseteq FdPrefixes({Leader, Thread})
      BY <1>1 DEF FdPrefixes
    <3>3. QED
      BY <2>4, <3>1, <3>2 DEF IsFdPath
  <2> HIDE DEF r, s
  <2>6. get_execve_path(call.pid, call.path) = r
    BY <2>2, <2>5 DEF get_execve_path, resolve_exec_fd_path
  <2>7. Taken = r
    BY <1>8, <2>6 DEF Taken
  <2>8. QED
    BY <1>3, <1>4, <2>7 DEF r
<1>9. QED
  BY <1>1, <1>7, <1>8

-----------------------------------------------------------------------------
(* Its steps.                                                               *)

Rest == <<at, call, walk, resolved, rule, matches>>

Meanwhile == at \in {"entered", "executing", "exited", "resolved"} /\ UNCHANGED Rest

\* The file n moved or was removed.
TreeMoved(n) ==
  /\ Meanwhile /\ IsTree(place') /\ SameBut(place, place', n)
  /\ moved' = moved \cup {n} /\ UNCHANGED <<cwd, fds, changed>>

LEMMA MoveStep ==
  ASSUME PathTypes, NEW m \in Moves, Move(m[1], m[2], m[3])
  PROVE  TreeMoved(m[1])
<1>1. /\ m[1] \in Nodes \ {RootDir} /\ m[2] \in Dirs /\ m[3] \in Names
      /\ m[2] = RootDir => \A prefix \in FdPrefixes({Leader, Thread}) : m[3] # Head(prefix)
  BY TreeAssumption
<1>2. IsTree(place)
  BY DEF PathTypes
<1>3. IsTree(place') /\ SameBut(place, place', m[1])
  <2>1. PICK n \in Nodes \ {RootDir}, d \in Dirs, name \in Names : n = m[1] /\ d = m[2] /\ name = m[3]
    BY <1>1
  <2>2. /\ n # d /\ ~Below(place, d, n) /\ Live(place, d) /\ Child(place, d, name) = NoNode
        /\ place' = [place EXCEPT ![n] = [dir |-> d, name |-> name, gone |-> FALSE]]
    BY <2>1 DEF Move
  <2>3. d = RootDir => \A prefix \in FdPrefixes({Leader, Thread}) : name # Head(prefix)
    BY <1>1, <2>1
  <2>4. IsTree(place') /\ SameBut(place, place', n)
    BY <1>2, <2>2, <2>3, MoveTree
  <2>5. QED
    BY <2>1, <2>4
<1>4. QED
  BY <1>3 DEF Move, Change, TreeMoved, Meanwhile, Rest

LEMMA UnlinkStep ==
  ASSUME PathTypes, NEW n \in Removals, Unlink(n)
  PROVE  TreeMoved(n)
<1>1. n \in Nodes \ {RootDir}
  BY TreeAssumption
<1>2. IsTree(place)
  BY DEF PathTypes
<1>3. /\ \A m \in Nodes \ {RootDir} : place[m].gone \/ place[m].dir # n
      /\ place' = [place EXCEPT ![n].gone = TRUE]
  BY DEF Unlink
<1>4. IsTree(place') /\ SameBut(place, place', n)
  BY <1>1, <1>2, <1>3, UnlinkTree
<1>5. QED
  BY <1>4 DEF Unlink, Change, TreeMoved, Meanwhile, Rest

\* The ways of a step, from where the call is.
LEMMA PathStepCases ==
  ASSUME PathTypes, [PathNext]_pathVars
  PROVE  \/ \E c \in Requests : Enter(c)
         \/ Lookup
         \/ ExecDone
         \/ Resolve
         \/ \E p \in RulePaths : Compare(p)
         \/ \E d \in Chdirs : Chdir(d)
         \/ \E d \in Dups : Dup2(d[1], d[2])
         \/ \E n : TreeMoved(n)
         \/ UNCHANGED pathVars
  BY MoveStep, UnlinkStep DEF PathNext

LEMMA PathTypesInit ==
  ASSUME PathInit
  PROVE  PathTypes
<1>1. Start(NoNode) \in Walks
  BY StartType
<1>2. IsTree(place) /\ cwd \in Dirs
  BY TreeAssumption DEF PathInit
<1>3. fds \in [Fds -> [node : Nodes \cup {NoNode}, cloexec : BOOLEAN]]
  BY DescriptorAssumption DEF PathInit
<1>4. QED
  BY <1>1, <1>2, <1>3 DEF PathInit, PathTypes

LEMMA PathTypesStep ==
  ASSUME PathTypes, [PathNext]_pathVars
  PROVE  PathTypes'
<1> USE DEF PathTypes
<1>1. ASSUME NEW c \in Requests, Enter(c) PROVE PathTypes'
  <2>1. Callable(c)
    BY RequestAssumption DEF Callable, Calls
  <2>2. QED
    BY <1>1, <2>1 DEF Enter
<1>2. CASE Lookup
  <2>1. KernelWalk(call) \in Walks
    BY <1>2, KernelWalkType DEF Lookup
  <2>2. /\ walk' = KernelWalk(call) /\ at # "user"
        /\ UNCHANGED <<place, cwd, fds, call>>
    BY <1>2 DEF Lookup
  <2>3. QED
    BY <2>1, <2>2
<1>3. CASE ExecDone
  <2>1. \A fd \in Fds : /\ fds[fd] \in [node : Nodes \cup {NoNode}, cloexec : BOOLEAN]
                        /\ [fds[fd] EXCEPT !.node = NoNode] \in [node : Nodes \cup {NoNode}, cloexec : BOOLEAN]
    OBVIOUS
  <2>2. fds' \in [Fds -> [node : Nodes \cup {NoNode}, cloexec : BOOLEAN]]
    BY <1>3, <2>1 DEF ExecDone
  <2>3. Callable(call)
    BY <1>3 DEF ExecDone
  <2>4. Callable(call')
    <3>1. call' = [call EXCEPT !.pid = Leader]
      BY <1>3 DEF ExecDone
    <3>2. call' \in Calls /\ call'.name = call.name /\ call'.fd = call.fd /\ call'.path = call.path
      BY <2>3, <3>1 DEF Callable, Calls
    <3>3. QED
      BY <2>3, <3>2 DEF Callable
  <2>5. UNCHANGED <<place, cwd, walk>>
    BY <1>3 DEF ExecDone
  <2>6. QED
    BY <2>2, <2>4, <2>5
<1>4. CASE Resolve
  BY <1>4 DEF Resolve
<1>5. ASSUME NEW p \in RulePaths, Compare(p) PROVE PathTypes'
  BY <1>5 DEF Compare
<1>6. ASSUME NEW d \in Chdirs, Chdir(d) PROVE PathTypes'
  BY <1>6, TreeAssumption DEF Chdir, Change
<1>7. ASSUME NEW d \in Dups, Dup2(d[1], d[2]) PROVE PathTypes'
  <2>1. d[1] \in Fds /\ d[2] \in Nodes \cup {NoNode}
    BY TreeAssumption
  <2>2. [node |-> d[2], cloexec |-> FALSE] \in [node : Nodes \cup {NoNode}, cloexec : BOOLEAN]
    BY <2>1
  <2>3. fds' \in [Fds -> [node : Nodes \cup {NoNode}, cloexec : BOOLEAN]]
    BY <1>7, <2>2 DEF Dup2
  <2>4. QED
    BY <1>7, <2>3 DEF Dup2, Change
<1>8. ASSUME NEW n, TreeMoved(n) PROVE PathTypes'
  BY <1>8 DEF TreeMoved, Meanwhile, Rest
<1>9. CASE UNCHANGED pathVars
  BY <1>9 DEF pathVars
<1>10. QED
  BY <1>1, <1>2, <1>3, <1>4, <1>5, <1>6, <1>7, <1>8, <1>9, PathStepCases

LEMMA NamedWalk ==
  ASSUME Callable(call), ByName
  PROVE  /\ KernelWalk(call) = Walk(place, Base(cwd, fds, call), call.path)
         /\ call.path \in PathValues /\ ~IsEmpty(call.path)
  BY DEF Callable, Calls, ByName, KernelWalk, Base, Open

LEMMA RefoundStep ==
  ASSUME PathTypes, Refound, Described, [PathNext]_pathVars
  PROVE  Refound'
<1> USE DEF Refound, Stopped
<1>1. ASSUME NEW c \in Requests, Enter(c) PROVE Refound'
  BY <1>1 DEF Enter
<1>2. CASE Lookup
  <2>1. KernelWalk(call)' = KernelWalk(call)
    BY <1>2 DEF Lookup, KernelWalk, Open
  <2>2. walk' = KernelWalk(call) /\ call' = call
    BY <1>2 DEF Lookup
  <2>3. at' \in {"executing", "exited"} =>
          walk'.node # NoNode /\ (call'.name = "execve" => walk'.node \notin Dirs)
    BY <1>2 DEF Lookup
  <2>4. QED
    BY <2>1, <2>2, <2>3
<1>3. CASE ExecDone
  <2>1. /\ at = "executing" /\ call.name = "execve" /\ Callable(call)
        /\ call' = [call EXCEPT !.pid = Leader] /\ UNCHANGED <<place, cwd, walk, changed, moved>>
    BY <1>3 DEF ExecDone, Described, PathTypes
  <2>2. call'.name = call.name /\ call'.fd = call.fd /\ call'.path = call.path /\ call.fd = CallerCwd
    BY <2>1 DEF Callable, Calls
  <2>3. (ByName' <=> ByName) /\ (Undisturbed' <=> Undisturbed)
    BY <2>1, <2>2 DEF ByName, Undisturbed
  <2>4. ASSUME ByName PROVE KernelWalk(call)' = KernelWalk(call)
    <3>1. KernelWalk(call) = Walk(place, cwd, call.path)
      BY <2>1, <2>2, <2>4 DEF ByName, KernelWalk
    <3>2. KernelWalk(call)' = Walk(place, cwd, call.path)
      BY <2>1, <2>2, <2>4 DEF ByName, KernelWalk
    <3>3. QED
      BY <3>1, <3>2
  <2>5. QED
    BY <2>1, <2>2, <2>3, <2>4
<1>4. CASE Resolve
  BY <1>4 DEF Resolve
<1>5. ASSUME NEW p \in RulePaths, Compare(p) PROVE Refound'
  BY <1>5 DEF Compare
<1>6. ASSUME NEW d \in Chdirs, Chdir(d) PROVE Refound'
  <2>1. /\ UNCHANGED <<at, call, walk, place, fds, moved>> /\ changed' = changed \cup {CallerCwd}
        /\ at # "user"
    BY <1>6 DEF Chdir, Change
  <2>2. ASSUME Stopped, ByName', Undisturbed' PROVE walk' = KernelWalk(call)'
    <3>1. ByName /\ Undisturbed
      BY <2>1, <2>2 DEF ByName, Undisturbed
    <3>2. Callable(call)
      BY <2>1 DEF PathTypes
    <3>3. ~call.path.abs => call.fd # CallerCwd
      BY <2>1, <2>2 DEF Undisturbed
    <3>4. walk = Walk(place, Base(cwd, fds, call), call.path)
      BY <2>2, <3>1, <3>2, NamedWalk
    <3>5. KernelWalk(call)' = Walk(place, Base(cwd', fds, call), call.path)
      BY <2>1, <2>2, <3>2 DEF Callable, Calls, ByName, KernelWalk, Base, Open
    <3>6. \A n, m : call.path.abs => Walk(place, n, call.path) = Walk(place, m, call.path)
      BY DEF Walk
    <3>7. CASE call.path.abs
      BY <2>1, <3>4, <3>5, <3>6, <3>7
    <3>8. CASE ~call.path.abs
      BY <2>1, <3>3, <3>4, <3>5, <3>8 DEF Base
    <3>9. QED
      BY <3>7, <3>8
  <2>3. QED
    BY <2>1, <2>2
<1>7. ASSUME NEW d \in Dups, Dup2(d[1], d[2]) PROVE Refound'
  <2>1. /\ UNCHANGED <<at, call, walk, place, cwd, moved>> /\ changed' = changed \cup {d[1]}
        /\ fds' = [fds EXCEPT ![d[1]] = [node |-> d[2], cloexec |-> FALSE]]
        /\ at # "user"
    BY <1>7 DEF Dup2, Change
  <2>2. ASSUME Stopped, ByName', Undisturbed' PROVE walk' = KernelWalk(call)'
    <3>1. ByName /\ Undisturbed
      BY <2>1, <2>2 DEF ByName, Undisturbed
    <3>2. Callable(call)
      BY <2>1 DEF PathTypes
    <3>3. ~call.path.abs => call.fd # d[1]
      BY <2>1, <2>2 DEF Undisturbed
    <3>4. walk = Walk(place, Base(cwd, fds, call), call.path)
      BY <2>2, <3>1, <3>2, NamedWalk
    <3>5. KernelWalk(call)' = Walk(place, Base(cwd, fds', call), call.path)
      BY <2>1, <2>2, <3>2 DEF Callable, Calls, ByName, KernelWalk, Base, Open
    <3>6. ~call.path.abs /\ call.fd \in Fds => fds'[call.fd] = fds[call.fd]
      BY <2>1, <3>3 DEF PathTypes
    <3>7. Base(cwd, fds', call) = Base(cwd, fds, call)
      BY <3>6 DEF Base
    <3>8. QED
      BY <2>1, <3>4, <3>5, <3>7
  <2>3. QED
    BY <2>1, <2>2
<1>8. ASSUME NEW n, TreeMoved(n) PROVE Refound'
  <2>1. /\ UNCHANGED <<at, call, walk, cwd, fds, changed>> /\ moved' = moved \cup {n} /\ at # "user"
        /\ IsTree(place') /\ SameBut(place, place', n)
    BY <1>8 DEF TreeMoved, Meanwhile, Rest
  <2>2. ASSUME Stopped, ByName', Undisturbed' PROVE walk' = KernelWalk(call)'
    <3>1. ByName /\ Undisturbed /\ n \notin walk.through
      BY <2>1, <2>2 DEF ByName, Undisturbed
    <3>2. Callable(call) /\ IsTree(place)
      BY <2>1 DEF PathTypes
    <3>3. PICK m \in Nodes \cup {NoNode} : m = Base(cwd, fds, call)
      BY BaseType DEF PathTypes
    <3>4. /\ walk = Walk(place, m, call.path) /\ walk.node # NoNode
          /\ call.path \in PathValues /\ ~IsEmpty(call.path)
      BY <2>2, <3>1, <3>2, <3>3, NamedWalk
    <3>5. KernelWalk(call)' = Walk(place', m, call.path)
      BY <2>1, <2>2, <3>2, <3>3 DEF Callable, Calls, ByName, KernelWalk, Base, Open
    <3>6. Walk(place', m, call.path) = Walk(place, m, call.path)
      BY <2>1, <3>1, <3>2, <3>4, WalkMoves
    <3>7. QED
      BY <2>1, <3>4, <3>5, <3>6
  <2>3. QED
    BY <2>1, <2>2
<1>9. CASE UNCHANGED pathVars
  <2>1. UNCHANGED <<place, cwd, fds, at, call, walk, changed, moved>>
    BY <1>9 DEF pathVars
  <2>2. /\ KernelWalk(call)' = KernelWalk(call)
        /\ (ByName' <=> ByName) /\ (Undisturbed' <=> Undisturbed)
    BY <2>1 DEF KernelWalk, Open, ByName, Undisturbed
  <2>3. QED
    BY <2>1, <2>2
<1>10. QED
  BY <1>1, <1>2, <1>3, <1>4, <1>5, <1>6, <1>7, <1>8, <1>9, PathStepCases

LEMMA DescribedStep ==
  ASSUME PathTypes, Refound, Described, [PathNext]_pathVars
  PROVE  Described'
<1> USE DEF Described, Stopped
<1>1. ASSUME NEW c \in Requests, Enter(c) PROVE Described'
  BY <1>1 DEF Enter
<1>2. CASE Lookup
  <2>1. /\ at = "entered" /\ walk' = KernelWalk(call) /\ UNCHANGED <<call, fds>>
        /\ at' \in {"failed", "executing", "exited"}
        /\ at' = "executing" => call.name = "execve"
        /\ at' = "exited" => call.name # "execve"
        /\ at' # "failed" => walk'.node # NoNode
    BY <1>2 DEF Lookup
  <2>2. Callable(call) /\ \A n : Start(n).node = n
    BY <2>1 DEF PathTypes, Start
  <2>3. ASSUME at' # "failed", call.name = "getdents64"
        PROVE  call.fd \in Fds /\ fds[call.fd].node = walk'.node
    <3>1. walk' = Start(IF Open(call.fd) THEN fds[call.fd].node ELSE NoNode)
      BY <2>1, <2>3 DEF KernelWalk
    <3>2. Open(call.fd)
      BY <2>1, <2>2, <2>3, <3>1
    <3>3. QED
      BY <2>2, <3>1, <3>2 DEF Open
  <2>4. ASSUME at' # "failed", call.name = "execve", ~ByName
        PROVE  LET fd == FdNumber[Last(call.path.names)]
               IN  fd \in Fds /\ fds[fd].node = walk'.node
    <3> DEFINE fd == FdNumber[Last(call.path.names)]
    <3>1. walk' = Start(IF Open(fd) THEN fds[fd].node ELSE NoNode)
      BY <2>1, <2>4 DEF KernelWalk, ByName
    <3>2. Open(fd)
      <4> HIDE DEF fd
      <4>1. QED
        BY <2>1, <2>2, <2>4, <3>1
    <3>3. QED
      BY <2>2, <3>1, <3>2 DEF Open
  <2>5. ByName' <=> ByName
    BY <2>1 DEF ByName
  <2>6. QED
    BY <2>1, <2>3, <2>4, <2>5
<1>3. CASE ExecDone
  <2>1. /\ at = "executing" /\ at' = "exited" /\ call.name = "execve" /\ Callable(call)
        /\ call' = [call EXCEPT !.pid = Leader] /\ UNCHANGED <<walk, changed>>
        /\ fds' = [fd \in Fds |-> IF fds[fd].cloexec THEN [fds[fd] EXCEPT !.node = NoNode] ELSE fds[fd]]
    BY <1>3 DEF ExecDone, PathTypes
  <2>2. call'.name = call.name /\ call'.path = call.path /\ call'.pid = Leader
    BY <2>1 DEF Callable, Calls
  <2>3. ByName' <=> ByName
    BY <2>2 DEF ByName
  <2>4. ASSUME ~ByName
        PROVE  LET fd == FdNumber[Last(call.path.names)]
               IN  /\ fd \in Fds
                   /\ fd \notin changed =>
                        fds'[fd].node = IF fds'[fd].cloexec THEN NoNode ELSE walk.node
    <3> DEFINE fd == FdNumber[Last(call.path.names)]
    <3>1. fd \in Fds /\ (fd \notin changed => fds[fd].node = walk.node)
      BY <2>1, <2>4
    <3> HIDE DEF fd
    <3>2. fds[fd] \in [node : Nodes \cup {NoNode}, cloexec : BOOLEAN]
      BY <3>1 DEF PathTypes
    <3>3. /\ fds'[fd].cloexec = fds[fd].cloexec
          /\ fds'[fd].node = IF fds[fd].cloexec THEN NoNode ELSE fds[fd].node
      BY <2>1, <3>1, <3>2
    <3>4. QED
      BY <3>1, <3>3 DEF fd
  <2>5. QED
    BY <2>1, <2>2, <2>3, <2>4
<1>4. CASE Resolve
  BY <1>4 DEF Resolve
<1>5. ASSUME NEW p \in RulePaths, Compare(p) PROVE Described'
  BY <1>5 DEF Compare
<1>6. ASSUME NEW d \in Chdirs, Chdir(d) PROVE Described'
  <2>1. UNCHANGED <<at, call, walk, fds>> /\ changed' = changed \cup {CallerCwd}
    BY <1>6 DEF Chdir, Change
  <2>2. ByName' <=> ByName
    BY <2>1 DEF ByName
  <2>3. QED
    BY <2>1, <2>2
<1>7. ASSUME NEW d \in Dups, Dup2(d[1], d[2]) PROVE Described'
  <2>1. /\ UNCHANGED <<at, call, walk>> /\ changed' = changed \cup {d[1]}
        /\ fds' = [fds EXCEPT ![d[1]] = [node |-> d[2], cloexec |-> FALSE]]
    BY <1>7 DEF Dup2, Change
  <2>2. ByName' <=> ByName
    BY <2>1 DEF ByName
  <2>3. \A fd \in Fds : fd \notin changed' => fds'[fd] = fds[fd] /\ fd \notin changed
    BY <2>1 DEF PathTypes
  <2>4. QED
    BY <2>1, <2>2, <2>3
<1>8. ASSUME NEW n, TreeMoved(n) PROVE Described'
  <2>1. UNCHANGED <<at, call, walk, fds, changed>>
    BY <1>8 DEF TreeMoved, Meanwhile, Rest
  <2>2. ByName' <=> ByName
    BY <2>1 DEF ByName
  <2>3. QED
    BY <2>1, <2>2
<1>9. CASE UNCHANGED pathVars
  <2>1. UNCHANGED <<at, call, walk, fds, changed>>
    BY <1>9 DEF pathVars
  <2>2. ByName' <=> ByName
    BY <2>1 DEF ByName
  <2>3. QED
    BY <2>1, <2>2
<1>10. QED
  BY <1>1, <1>2, <1>3, <1>4, <1>5, <1>6, <1>7, <1>8, <1>9, PathStepCases

LEMMA OwnPathResolve ==
  ASSUME PathTypes, Refound, Resolve
  PROVE  OwnPath'
<1>1. /\ at = "exited" /\ at' = "resolved" /\ resolved' = Taken
      /\ UNCHANGED <<place, cwd, fds, call, walk, changed, moved>>
  BY DEF Resolve, Taken
<1>2. ASSUME ByName, Undisturbed, Unlinked, Live(place, walk.node)
      PROVE  /\ Present(place, walk.node) /\ walk.node \notin DOMAIN Target
             /\ \E slash \in BOOLEAN :
                  /\ resolved' = Path(TRUE, PathTo(place)[walk.node], slash)
                  /\ PathTo(place)[walk.node] = << >> => slash
  <2>1. PICK n : n = Base(cwd, fds, call)
    OBVIOUS
  <2> DEFINE s == Made(place, call.path, n)
  <2>2. ~walk.back /\ \A i \in DOMAIN walk.links : ~walk.links[i]
    BY <1>2 DEF Unlinked
  <2>3. Leads(place, walk, s) /\ Taken = MadePath(place, call.path, n)
    BY <1>1, <1>2, <2>1, <2>2, TakenPath
  <2>4. walk \in Walks /\ call.path.slash \in BOOLEAN
    BY <1>1 DEF PathTypes, Callable, Calls, PathValues
  <2> HIDE DEF s
  <2>5. s = PathTo(place)[walk.node] /\ walk.node \notin DOMAIN Target /\ Present(place, walk.node)
    BY <1>2, <2>2, <2>3, <2>4, LeadsPlain
  <2>6. resolved' = Path(TRUE, s, call.path.slash \/ s = << >>)
    BY <1>1, <2>3 DEF MadePath, s
  <2>7. (call.path.slash \/ s = << >>) \in BOOLEAN
    BY <2>4
  <2>8. QED
    BY <2>5, <2>6, <2>7
<1>3. /\ ByName' <=> ByName
      /\ Undisturbed' <=> Undisturbed
      /\ Unlinked' <=> Unlinked
  BY <1>1 DEF ByName, Undisturbed, Unlinked
<1>4. QED
  BY <1>1, <1>2, <1>3 DEF OwnPath

LEMMA OwnPathStep ==
  ASSUME PathTypes, Refound, OwnPath, [PathNext]_pathVars
  PROVE  OwnPath'
<1>1. ASSUME NEW c \in Requests, Enter(c) PROVE OwnPath'
  BY <1>1 DEF Enter, OwnPath
<1>2. CASE Lookup
  BY <1>2 DEF Lookup, OwnPath
<1>3. CASE ExecDone
  BY <1>3 DEF ExecDone, OwnPath
<1>4. CASE Resolve
  BY <1>4, OwnPathResolve
<1>5. ASSUME at' \in {"resolved", "compared"} => at \in {"resolved", "compared"},
             UNCHANGED <<call, walk, place, moved, resolved>>, changed \subseteq changed'
      PROVE  OwnPath'
  <2>1. /\ ByName' <=> ByName
        /\ Unlinked' <=> Unlinked
        /\ Undisturbed' => Undisturbed
    BY <1>5 DEF ByName, Undisturbed, Unlinked
  <2>2. QED
    BY <1>5, <2>1 DEF OwnPath
<1>6. ASSUME NEW p \in RulePaths, Compare(p) PROVE OwnPath'
  BY <1>5, <1>6 DEF Compare
<1>7. ASSUME NEW d \in Chdirs, Chdir(d) PROVE OwnPath'
  BY <1>5, <1>7 DEF Chdir, Change
<1>8. ASSUME NEW d \in Dups, Dup2(d[1], d[2]) PROVE OwnPath'
  BY <1>5, <1>8 DEF Dup2, Change
<1>9. ASSUME NEW n, TreeMoved(n) PROVE OwnPath'
  <2>1. moved' # {}
    BY <1>9 DEF TreeMoved
  <2>2. QED
    BY <2>1 DEF OwnPath
<1>10. CASE UNCHANGED pathVars
  BY <1>5, <1>10 DEF pathVars
<1>11. QED
  BY <1>1, <1>2, <1>3, <1>4, <1>6, <1>7, <1>8, <1>9, <1>10, PathStepCases

LEMMA ComparedStep ==
  ASSUME PathTypes, Compared, [PathNext]_pathVars
  PROVE  Compared'
<1> USE DEF Compared
<1>1. ASSUME NEW c \in Requests, Enter(c) PROVE Compared'
  BY <1>1 DEF Enter
<1>2. CASE Lookup
  BY <1>2 DEF Lookup
<1>3. CASE ExecDone
  BY <1>3 DEF ExecDone
<1>4. CASE Resolve
  BY <1>4 DEF Resolve
<1>5. ASSUME NEW p \in RulePaths, Compare(p) PROVE Compared'
  <2>1. is_path_in(resolved, p)' = is_path_in(resolved, p)
    BY <1>5 DEF Compare, is_path_in, get_absolute_path
  <2>2. rule' = p /\ resolved' = resolved /\ matches' = is_path_in(resolved, p)
    BY <1>5 DEF Compare
  <2>3. is_path_in(resolved, rule)' = is_path_in(resolved, p)
    BY <1>5, <2>2 DEF Compare, is_path_in, get_absolute_path
  <2>4. QED
    BY <2>2, <2>3
<1>6. ASSUME NEW d \in Chdirs, Chdir(d) PROVE Compared'
  BY <1>6 DEF Chdir, Change
<1>7. ASSUME NEW d \in Dups, Dup2(d[1], d[2]) PROVE Compared'
  BY <1>7 DEF Dup2, Change
<1>8. ASSUME NEW n, TreeMoved(n) PROVE Compared'
  BY <1>8 DEF TreeMoved, Meanwhile, Rest
<1>9. CASE UNCHANGED pathVars
  <2>1. is_path_in(resolved, rule)' = is_path_in(resolved, rule)
    BY <1>9 DEF pathVars, is_path_in, get_absolute_path
  <2>2. QED
    BY <1>9, <2>1 DEF pathVars
<1>10. QED
  BY <1>1, <1>2, <1>3, <1>4, <1>5, <1>6, <1>7, <1>8, <1>9, PathStepCases

\* In every state the tree is one, a stopped call that nobody disturbed would
\* still find its file, its descriptors hold that file, and the path taken for
\* a call that goes through no link is the file's own.
THEOREM PathInvariant == PathSpec => []PathInv
<1>1. PathInit => PathInv
  <2>1. PathInit => at = "user"
    BY DEF PathInit
  <2>2. QED
    BY <2>1, PathTypesInit
       DEF PathInv, Refound, Described, OwnPath, Compared, Stopped
<1>2. PathInv /\ [PathNext]_pathVars => PathInv'
  BY PathTypesStep, RefoundStep, DescribedStep, OwnPathStep, ComparedStep DEF PathInv
<1>3. QED
  BY <1>1, <1>2, PTL DEF PathSpec

-----------------------------------------------------------------------------
(* The properties.                                                          *)

LEMMA ResolveOnly ==
  ASSUME PathTypes, [PathNext]_pathVars, at' = "resolved", at # "resolved"
  PROVE  /\ Resolve /\ at = "exited" /\ resolved' = Taken
         /\ UNCHANGED <<place, cwd, fds, call, walk, changed>>
<1>1. Resolve
  BY PathStepCases
     DEF Enter, Lookup, ExecDone, Compare, Chdir, Dup2, Change, TreeMoved, Meanwhile, Rest, pathVars
<1>2. QED
  BY <1>1 DEF Resolve, Taken

\* openat and execve: the path that the transition function takes leads to the
\* call's file, and is the file's own if no link is left in it, when nobody
\* disturbed the call and no ".." took a link back.
THEOREM PathsLead == PathSpec => PathNamed
<1> DEFINE A == at' = "resolved" /\ at # "resolved" /\ ByName /\ Undisturbed /\ ~walk.back
                /\ (Live(place, walk.node) \/ walk.through = {}) =>
                  /\ resolved' # Nullopt
                  /\ IF \E i \in DOMAIN walk.links : walk.links[i]
                     THEN Walk(place, RootDir, resolved').node = walk.node
                     ELSE resolved'.names = NamesOf(place, walk.node)
<1>1. PathInv /\ [PathNext]_pathVars => [A]_pathVars
  <2> SUFFICES ASSUME PathInv, [PathNext]_pathVars,
                      at' = "resolved", at # "resolved", ByName, Undisturbed, ~walk.back,
                      Live(place, walk.node) \/ walk.through = {}
               PROVE  /\ resolved' # Nullopt
                      /\ IF \E i \in DOMAIN walk.links : walk.links[i]
                         THEN Walk(place, RootDir, resolved').node = walk.node
                         ELSE resolved'.names = NamesOf(place, walk.node)
    OBVIOUS
  <2>1. PathTypes /\ Refound
    BY DEF PathInv
  <2>2. at = "exited" /\ resolved' = Taken
    BY <2>1, ResolveOnly
  <2>3. PICK n : n = Base(cwd, fds, call)
    OBVIOUS
  <2> DEFINE s == Made(place, call.path, n)
             slash == call.path.slash \/ s = << >>
  <2>4. /\ Found(place, walk, call.path, n) /\ Leads(place, walk, s)
        /\ Taken = MadePath(place, call.path, n)
    BY <2>1, <2>2, <2>3, TakenPath
  <2>5. /\ IsTree(place) /\ walk \in Walks /\ walk.node # NoNode
        /\ call.path \in PathValues
    BY <2>1, <2>2 DEF PathTypes, Callable, Calls, Refound, Stopped
  <2>6. Taken # Nullopt
    BY <2>4, <2>5, MadeValue
  <2>7. Taken = Path(TRUE, s, slash) /\ (slash => walk.node \in Dirs \/ s = << >>)
    BY <2>4 DEF MadePath, Found
  <2> HIDE DEF s, slash
  <2>8. IF \E i \in DOMAIN walk.links : walk.links[i]
        THEN Walk(place, RootDir, Path(TRUE, s, slash)).node = walk.node
        ELSE s = NamesOf(place, walk.node)
    BY <2>4, <2>5, <2>7, LeadsThere DEF s
  <2>9. Taken.names = s
    BY <2>7 DEF Path
  <2>10. QED
    BY <2>2, <2>6, <2>7, <2>8, <2>9
<1>2. QED
  BY <1>1, PathInvariant, PTL DEF PathSpec, PathNamed

LEMMA ResidueOf ==
  ASSUME NEW m \in Nat \ {0}, NEW k \in 0 .. m - 1
  PROVE  k % m = k
  OBVIOUS

LEMMA AfterNothing ==
  ASSUME NEW s \in Texts
  PROVE  << >> \o s = s
  BY ConcatEmptySeq DEF Texts

\* The path of a descriptor is in normal form.
LEMMA DescriptorPath ==
  ASSUME NEW path \in PathValues, IsFdPath(path, {Leader, Thread})
  PROVE  /\ get_absolute_path(path) = path /\ path # Nullopt
         /\ IsFdPath(path, {Leader}) <=> Front(path.names) # ProcFd[Thread]
<1>1. /\ path.abs /\ path.slash = FALSE /\ path.names \in Seq(STRING) /\ path.names # << >>
      /\ Front(path.names) \in FdPrefixes({Leader, Thread})
      /\ Last(path.names) \in DOMAIN FdNumber
  BY DEF IsFdPath, PathValues
<1>2. path.names \in Clean
  <2>1. PICK q \in Clean : q = Front(path.names)
    BY <1>1, DescriptorAssumption DEF Clean
  <2>2. PICK x \in STRING \ Dots : x = Last(path.names)
    BY <1>1, DescriptorAssumption
  <2>3. path.names = Append(q, x)
    BY <1>1, <2>1, <2>2, FrontLast
  <2>4. QED
    BY <2>3, CleanAppend
<1>3. << >> \o path.names = path.names /\ lexically_normal(path.names) = path.names
  BY <1>2, CleanTexts, AfterNothing, NormalPlain
<1>4. path = Path(TRUE, path.names, FALSE)
  BY <1>1 DEF PathValues, Path
<1>5. get_absolute_path(path) = Path(TRUE, path.names, FALSE)
  BY <1>1, <1>3 DEF get_absolute_path, normalize_path, IsEmpty
<1>6. /\ FdPrefixes({Leader, Thread}) = FdPrefixes({Leader}) \cup {ProcFd[Thread]}
      /\ ProcFd[Thread] \notin FdPrefixes({Leader})
  BY DescriptorAssumption DEF FdPrefixes
<1>7. IsFdPath(path, {Leader}) <=> Front(path.names) # ProcFd[Thread]
  BY <1>1, <1>6 DEF IsFdPath
<1>8. QED
  BY <1>4, <1>5, <1>7, PathAssumption

\* getdents64 and execve: a directory's path is that of the descriptor's file,
\* and so is a program's if its name is that of the descriptor and the
\* descriptor is still open.
THEOREM DescriptorsLead == PathSpec => DescriptorNamed
<1> DEFINE A == LET fd == FdNumber[Last(call.path.names)]
                    stopped == at' = "resolved" /\ at # "resolved"
                IN  /\ stopped /\ call.name = "getdents64" /\ call.fd \notin changed =>
                         resolved' = normalize_path(NamesOf(place, walk.node), FALSE)
                    /\ stopped /\ call.name = "execve" /\ ~ByName /\ fd \notin changed =>
                         resolved' = IF Front(call.path.names) = ProcFd[Thread] THEN call.path
                                     ELSE IF fds[fd].cloexec THEN Nullopt
                                     ELSE Path(TRUE, NamesOf(place, walk.node), FALSE)
<1>1. PathInv /\ [PathNext]_pathVars => [A]_pathVars
  <2> SUFFICES ASSUME PathInv, [PathNext]_pathVars, at' = "resolved", at # "resolved"
               PROVE  A
    OBVIOUS
  <2> DEFINE fd == FdNumber[Last(call.path.names)]
  <2>1. PathTypes /\ Refound /\ Described
    BY DEF PathInv
  <2>2. /\ at = "exited" /\ resolved' = Taken /\ Callable(call)
        /\ walk.node # NoNode /\ walk.node \in Nodes
    <3>1. at = "exited" /\ resolved' = Taken
      BY <2>1, ResolveOnly
    <3>2. walk.node # NoNode /\ walk \in Walks /\ Callable(call)
      BY <2>1, <3>1 DEF Refound, Stopped, PathTypes
    <3>3. QED
      BY <3>1, <3>2 DEF Walks
  <2>3. ASSUME call.name = "getdents64", call.fd \notin changed
        PROVE  resolved' = normalize_path(NamesOf(place, walk.node), FALSE)
    <3>1. call.fd \in Fds /\ fds[call.fd].node = walk.node
      BY <2>1, <2>2, <2>3 DEF Described, Stopped
    <3>2. get_fd_path(call.fd) = normalize_path(NamesOf(place, walk.node), FALSE)
      BY <2>2, <3>1 DEF get_fd_path, Open
    <3>3. QED
      BY <2>2, <2>3, <3>2 DEF Taken
  <2>4. ASSUME call.name = "execve", ~ByName, fd \notin changed
        PROVE  resolved' = IF Front(call.path.names) = ProcFd[Thread] THEN call.path
                           ELSE IF fds[fd].cloexec THEN Nullopt
                           ELSE Path(TRUE, NamesOf(place, walk.node), FALSE)
    <3>1. /\ call.path \in PathValues /\ IsFdPath(call.path, {Leader, Thread})
          /\ call.pid = Leader /\ walk.node \notin Dirs
      BY <2>1, <2>2, <2>4 DEF Callable, Calls, ByName, Described, Refound, Stopped
    <3>2. fd \in Fds /\ fds[fd].node = IF fds[fd].cloexec THEN NoNode ELSE walk.node
      BY <2>1, <2>2, <2>4 DEF Described, Stopped
    <3>3. parse_fd_path(call.path) = fd
      <4>1. FdModulus \in Nat \ {0} /\ fd \in 0 .. FdModulus - 1
        BY <3>2, PathAssumption, DescriptorAssumption
      <4> HIDE DEF fd
      <4>2. fd % FdModulus = fd
        BY <4>1, ResidueOf
      <4>3. QED
        BY <4>2 DEF parse_fd_path, fd
    <3>4. /\ get_absolute_path(call.path) = call.path /\ call.path # Nullopt
          /\ IsFdPath(call.path, {Leader}) <=> Front(call.path.names) # ProcFd[Thread]
      BY <3>1, DescriptorPath
    <3>5. get_fd_path(fd) = IF fds[fd].cloexec THEN Nullopt
                            ELSE Path(TRUE, NamesOf(place, walk.node), FALSE)
      <4>1. walk.node # RootDir /\ IsTree(place)
        BY <2>1, <3>1, PathAssumption DEF PathTypes
      <4>2. NamesOf(place, walk.node) \in Clean /\ NamesOf(place, walk.node) # << >>
        BY <2>2, <4>1, NamesOfClean
      <4>3. lexically_normal(NamesOf(place, walk.node)) = NamesOf(place, walk.node)
        BY <4>2, NormalPlain
      <4>4. normalize_path(NamesOf(place, walk.node), FALSE)
              = Path(TRUE, NamesOf(place, walk.node), FALSE)
        BY <4>2, <4>3 DEF normalize_path
      <4> HIDE DEF fd
      <4>5. CASE fds[fd].cloexec
        BY <3>2, <4>5 DEF get_fd_path, Open
      <4>6. CASE ~fds[fd].cloexec
        BY <2>2, <3>2, <4>4, <4>6 DEF get_fd_path, Open
      <4>7. QED
        BY <4>5, <4>6
    <3>6. Taken = IF IsFdPath(call.path, {Leader}) THEN get_fd_path(fd) ELSE call.path
      <4> HIDE DEF fd
      <4>1. get_execve_path(call.pid, call.path)
              = IF IsFdPath(call.path, {Leader}) THEN get_fd_path(fd) ELSE call.path
        BY <3>1, <3>3, <3>4 DEF get_execve_path, resolve_exec_fd_path
      <4>2. QED
        BY <2>4, <4>1 DEF Taken
    <3>7. QED
      BY <2>2, <3>4, <3>5, <3>6
  <2>5. QED
    BY <2>3, <2>4
<1>2. QED
  BY <1>1, PathInvariant, PTL DEF PathSpec, DescriptorNamed


Plainly(w) == ~w.back /\ \A i \in DOMAIN w.links : ~w.links[i]

\* A condition's path, when it leads plainly to a file, is made that file's own.
LEMMA RulePath ==
  ASSUME PathTypes, NEW path \in PathValues, ~IsEmpty(path),
         NEW d, d = Walk(place, cwd, [path EXCEPT !.slash = FALSE]),
         Plainly(d), d.node # NoNode, Live(place, d.node)
  PROVE  /\ Present(place, d.node) /\ d.node \notin DOMAIN Target
         /\ get_absolute_path(path)
              = Path(TRUE, PathTo(place)[d.node], path.slash \/ PathTo(place)[d.node] = << >>)
<1>1. PICK p : p = [path EXCEPT !.slash = FALSE]
  OBVIOUS
<1>2. /\ p \in PathValues /\ ~IsEmpty(p) /\ p.abs = path.abs /\ p.names = path.names
  BY <1>1 DEF PathValues, IsEmpty
<1>3. IsTree(place) /\ cwd \in Nodes \cup {NoNode}
  BY PathAssumption DEF PathTypes
<1>4. Found(place, d, p, cwd) /\ d \in Walks
  <2>1. Walk(place, cwd, p).node # NoNode
    BY <1>1
  <2>2. Found(place, Walk(place, cwd, p), p, cwd)
    BY <1>2, <1>3, <2>1, WalkFound
  <2>3. QED
    BY <1>1, <2>2 DEF Found
<1>5. Leads(place, d, Made(place, p, cwd))
  BY <1>3, <1>4, FoundLeads DEF Plainly
<1>6. /\ Made(place, p, cwd) = PathTo(place)[d.node]
      /\ d.node \notin DOMAIN Target /\ Present(place, d.node)
  BY <1>4, <1>5, LeadsPlain DEF Plainly
<1>7. get_absolute_path(path) = MadePath(place, [p EXCEPT !.slash = path.slash], cwd)
  BY <1>2 DEF get_absolute_path, normalize_path, MadePath, Made, PathValues
<1>8. Made(place, [p EXCEPT !.slash = path.slash], cwd) = Made(place, p, cwd)
  BY <1>2 DEF Made, PathValues
<1>9. [p EXCEPT !.slash = path.slash].slash = path.slash
  BY <1>2 DEF PathValues
<1>10. QED
  BY <1>6, <1>7, <1>8, <1>9 DEF MadePath

\* What is_path_in compares, when both paths are those of files.
LEMMA InExact ==
  ASSUME NEW s \in Texts, NEW u \in Texts, NEW slash \in BOOLEAN, s = << >> => slash,
         NEW path \in PathValues, NEW a, a = Path(TRUE, s, slash),
         NEW b \in BOOLEAN, b <=> path.slash \/ u = << >>, get_absolute_path(path) = Path(TRUE, u, b)
  PROVE  is_path_in(a, path) <=> IF path.slash THEN StrictPrefix(u, s) ELSE s = u
<1>1. PICK in : in = Path(TRUE, u, b)
  OBVIOUS
<1>2. path.slash \in BOOLEAN
  BY DEF PathValues
<1>3. /\ a \in PathValues /\ a.names = s /\ a.slash = slash
      /\ in \in PathValues /\ in.names = u /\ in.slash = b
  BY <1>1 DEF Path, PathValues, Texts
<1>4. a # Nullopt /\ in # Nullopt
  BY <1>3, PathAssumption
<1>5. is_path_in(a, path) <=>
        IF path.slash THEN a # in /\ StartsWith(a, in) ELSE a \in {in, [in EXCEPT !.slash = TRUE]}
  BY <1>1, <1>4 DEF is_path_in
<1>6. Len(s) \in Nat /\ Len(u) \in Nat
  BY LenProperties DEF Texts
<1>7. CASE path.slash
  <2>1. StartsWith(a, in) <=> IsPrefix(u, s) /\ (Len(s) > Len(u) \/ slash)
    BY <1>3, <1>7 DEF StartsWith
  <2>2. a = in <=> s = u /\ slash
    BY <1>1, <1>3, <1>7 DEF Path
  <2>3. IsPrefix(u, s) => Len(u) <= Len(s)
    BY DEF IsPrefix
  <2>4. IsPrefix(u, s) /\ Len(u) = Len(s) => s = u
    BY SubSeqFull DEF IsPrefix, Texts
  <2>5. StrictPrefix(u, s) => s # u
    BY <1>6 DEF StrictPrefix
  <2>6. IsPrefix(u, s) /\ s # u => Len(s) > Len(u)
    BY <1>6, <2>3, <2>4
  <2>7. QED
    BY <1>5, <1>7, <2>1, <2>2, <2>5, <2>6 DEF StrictPrefix
<1>8. CASE ~path.slash
  <2>1. [in EXCEPT !.slash = TRUE] = Path(TRUE, u, TRUE)
    <3>1. PICK k \in PathValues : k = Path(TRUE, u, TRUE)
      BY DEF Path, PathValues, Texts
    <3>2. k.abs = TRUE /\ k.names = u /\ k.slash = TRUE /\ in.abs = TRUE
      BY <1>1, <3>1 DEF Path
    <3>3. [in EXCEPT !.slash = TRUE] = k
      BY <1>3, <3>2 DEF PathValues
    <3>4. QED
      BY <3>1, <3>3
  <2>2. Path(TRUE, u, TRUE).names = u
    BY DEF Path
  <2>3. a \in {in, [in EXCEPT !.slash = TRUE]} => s = u
    BY <1>3, <2>1, <2>2
  <2>4. ASSUME s = u PROVE a \in {in, [in EXCEPT !.slash = TRUE]}
    <3>1. CASE slash
      BY <2>1, <2>4, <3>1
    <3>2. CASE ~slash
      <4>1. b = slash
        BY <1>8, <2>4, <3>2
      <4>2. QED
        BY <1>1, <2>4, <4>1
    <3>3. QED
      BY <3>1, <3>2
  <2>5. QED
    BY <1>5, <1>8, <2>3, <2>4
<1>9. QED
  BY <1>7, <1>8

\* is_path_in: a condition holds exactly for the file its path leads to, or for
\* what is below that directory, when nobody disturbed the call and no link is
\* left in either path.
THEOREM RulesExact == PathSpec => []PathInExact
<1>1. PathInv => PathInExact
  <2> DEFINE d == Walk(place, cwd, [rule EXCEPT !.slash = FALSE])
  <2> SUFFICES ASSUME PathInv, at = "compared", ByName, Plainly(walk), Undisturbed, moved = {},
                      ~IsEmpty(rule), Plainly(d), d.node # NoNode,
                      Live(place, walk.node), Live(place, d.node)
               PROVE  matches = IF rule.slash THEN Below(place, walk.node, d.node)
                                ELSE walk.node = d.node
    BY DEF PathInExact, Plainly
  <2>1. PathTypes /\ OwnPath /\ Compared /\ IsTree(place)
    BY DEF PathInv, PathTypes
  <2>2. rule \in PathValues /\ matches = is_path_in(resolved, rule)
    BY <2>1, RequestAssumption DEF Compared
  <2>3. PICK e : e = d
    OBVIOUS
  <2>4. /\ Present(place, e.node) /\ e.node \notin DOMAIN Target
        /\ get_absolute_path(rule)
             = Path(TRUE, PathTo(place)[e.node], rule.slash \/ PathTo(place)[e.node] = << >>)
    BY <2>1, <2>2, <2>3, RulePath
  <2>5. Present(place, walk.node) /\ walk.node \notin DOMAIN Target
    BY <2>1 DEF OwnPath, Unlinked, Plainly
  <2>6. PICK slash \in BOOLEAN : /\ resolved = Path(TRUE, PathTo(place)[walk.node], slash)
                                 /\ PathTo(place)[walk.node] = << >> => slash
    BY <2>1 DEF OwnPath, Unlinked, Plainly
  <2>7. PathTo(place)[walk.node] \in Texts /\ PathTo(place)[e.node] \in Texts
    BY <2>1, <2>4, <2>5, PathToClean DEF Present
  <2>8. is_path_in(resolved, rule) <=>
          IF rule.slash THEN StrictPrefix(PathTo(place)[e.node], PathTo(place)[walk.node])
          ELSE PathTo(place)[walk.node] = PathTo(place)[e.node]
    <3>1. PICK s \in Texts, u \in Texts : s = PathTo(place)[walk.node] /\ u = PathTo(place)[e.node]
      BY <2>7
    <3>2. PICK b \in BOOLEAN : b = (rule.slash \/ u = << >>)
      OBVIOUS
    <3>3. PICK a : a = resolved
      OBVIOUS
    <3>4. PICK path \in PathValues : path = rule
      BY <2>2
    <3> HIDE DEF d
    <3>5. a = Path(TRUE, s, slash) /\ (s = << >> => slash)
      BY <2>6, <3>1, <3>3
    <3>6. b <=> path.slash \/ u = << >>
      BY <3>2, <3>4
    <3>7. get_absolute_path(path) = Path(TRUE, u, b)
      BY <2>4, <3>1, <3>2, <3>4
    <3>8. is_path_in(a, path) <=> IF path.slash THEN StrictPrefix(u, s) ELSE s = u
      BY <3>5, <3>6, <3>7, InExact
    <3>9. QED
      BY <3>1, <3>3, <3>4, <3>8
  <2>9. /\ Below(place, walk.node, e.node)
             <=> StrictPrefix(PathTo(place)[e.node], PathTo(place)[walk.node])
        /\ walk.node = e.node <=> PathTo(place)[walk.node] = PathTo(place)[e.node]
    BY <2>1, <2>4, <2>5, BelowPrefix, PathToInjective
  <2>10. /\ is_path_in(resolved, rule) \in BOOLEAN
         /\ Below(place, walk.node, e.node) \in BOOLEAN
    <3> HIDE DEF d
    <3>1. is_path_in(resolved, rule) \in BOOLEAN
      BY DEF is_path_in
    <3>2. QED
      BY <2>1, <2>5, <3>1, BelowValue DEF Present
  <2>11. QED
    BY <2>2, <2>3, <2>8, <2>9, <2>10
<1>2. QED
  BY <1>1, PathInvariant, PTL


===============================================================================
