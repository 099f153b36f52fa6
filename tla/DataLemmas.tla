----------------------------- MODULE DataLemmas -----------------------------
(***************************************************************************)
(* Facts about numbers, sets, queues, loops and sums that the proofs of    *)
(* several components share.                                               *)
(***************************************************************************)
EXTENDS Naturals, Sequences, SequencesExt, SequenceTheorems,
        FiniteSetTheorems, WellFoundedInduction, TLAPS

\* A set of numbers that is not empty has a least one.
LEMMA LeastNat ==
    ASSUME NEW S \in SUBSET Nat, S # {}
    PROVE  \E n \in S : \A m \in S : n <= m
<1> PICK top \in S : TRUE OBVIOUS
<1> DEFINE U == 0..top
           R == StrictSubsetOrdering(U)
           T == {0..n : n \in {m \in S : m <= top}}
<1>1. IsWellFoundedOn(R, SUBSET U)
  <2>1. IsFiniteSet(U) BY FS_Interval
  <2>2. FiniteSubsetsOf(U) = SUBSET U
    <3> HIDE DEF U
    <3> QED BY <2>1, FS_FiniteSubsetsOfFinite
  <2>3. IsWellFoundedOn(R, FiniteSubsetsOf(U))
    <3> HIDE DEF U
    <3> QED BY FS_StrictSubsetOrderingWellFounded
  <2> QED BY <2>2, <2>3
<1>2. T \subseteq SUBSET U /\ T # {} OBVIOUS
<1>3. PICK I \in T : \A J \in T : <<J, I>> \notin R
  <2> HIDE DEF R, T
  <2> QED BY <1>1, <1>2, WFMin
<1>4. PICK n \in S : n <= top /\ I = 0..n OBVIOUS
<1>5. ASSUME NEW m \in S, m < n PROVE FALSE
  <2>1. 0..m \in T BY <1>4, <1>5
  <2>2. 0..m \subseteq 0..n /\ 0..m # 0..n BY <1>5
  <2>3. <<0..m, I>> \in R
    BY <1>2, <1>4, <2>1, <2>2 DEF StrictSubsetOrdering
  <2> QED BY <1>3, <2>1, <2>3
<1> QED BY <1>5

-----------------------------------------------------------------------------
(* What the queues of asyncio locks keep when one element leaves them        *)
(* (deque.remove, list.remove: RemoveFirst) or is appended.  In each of      *)
(* these queues an element occurs at most once.                              *)

LEMMA RemoveAtIs ==
    ASSUME NEW S, NEW q \in Seq(S), NEW i \in 1..Len(q)
    PROVE  /\ RemoveAt(q, i) \in Seq(S)
           /\ Len(RemoveAt(q, i)) = Len(q) - 1
           /\ \A j \in 1..(Len(q) - 1) :
                RemoveAt(q, i)[j] = IF j < i THEN q[j] ELSE q[j + 1]
<1> DEFINE a == SubSeq(q, 1, i - 1)
           b == SubSeq(q, i + 1, Len(q))
<1>1. /\ a \in Seq(S) /\ Len(a) = i - 1
      /\ \A j \in 1..(i - 1) : a[j] = q[j]
  BY SubSeqProperties, ElementOfSeq
<1>2. /\ b \in Seq(S) /\ Len(b) = Len(q) - i
      /\ \A j \in 1..(Len(q) - i) : b[j] = q[i + j]
  BY SubSeqProperties, ElementOfSeq
<1> HIDE DEF a, b
<1>3. /\ a \o b \in Seq(S) /\ Len(a \o b) = Len(q) - 1
      /\ \A j \in 1..(Len(q) - 1) :
           (a \o b)[j] = IF j <= i - 1 THEN a[j] ELSE b[j - (i - 1)]
  <2>1. /\ a \o b \in Seq(S) /\ Len(a \o b) = Len(a) + Len(b)
        /\ \A j \in 1..(Len(a) + Len(b)) :
             (a \o b)[j] = IF j <= Len(a) THEN a[j] ELSE b[j - Len(a)]
    BY <1>1, <1>2, ConcatProperties
  <2>2. Len(a) + Len(b) = Len(q) - 1 BY <1>1, <1>2
  <2> QED BY <1>1, <2>1, <2>2
<1>4. RemoveAt(q, i) = a \o b BY DEF RemoveAt, a, b
<1>5. ASSUME NEW j \in 1..(Len(q) - 1)
      PROVE  (a \o b)[j] = IF j < i THEN q[j] ELSE q[j + 1]
  <2>1. CASE j < i BY <1>1, <1>3, <2>1
  <2>2. CASE ~(j < i)
    <3>1. j - (i - 1) \in 1..(Len(q) - i) BY <2>2
    <3>2. b[j - (i - 1)] = q[i + (j - (i - 1))] BY <1>2, <3>1
    <3>3. i + (j - (i - 1)) = j + 1 OBVIOUS
    <3> QED BY <1>3, <2>2, <3>2, <3>3
  <2> QED BY <2>1, <2>2
<1> QED BY <1>3, <1>4, <1>5

LEMMA RemoveFirstIs ==
    ASSUME NEW S, NEW q \in Seq(S), IsInjective(q), NEW i \in 1..Len(q)
    PROVE  RemoveFirst(q, q[i]) = RemoveAt(q, i)
<1>1. {h \in 1..Len(q) : q[h] = q[i]} = {i} BY DEF IsInjective
<1>2. SelectInSeq(q, LAMBDA v : v = q[i]) = Min({i})
  BY <1>1 DEF SelectInSeq
<1>3. Min({i}) = i BY DEF Min
<1> QED BY <1>2, <1>3 DEF RemoveFirst

LEMMA RemoveAbsent ==
    ASSUME NEW S, NEW q \in Seq(S), NEW x, x \notin Range(q)
    PROVE  RemoveFirst(q, x) = q
  BY RangeEquality DEF RemoveFirst

\* The others stay, in their order and once.
LEMMA RemoveKeeps ==
    ASSUME NEW S, NEW q \in Seq(S), IsInjective(q), NEW x
    PROVE  /\ RemoveFirst(q, x) \in Seq(S)
           /\ IsInjective(RemoveFirst(q, x))
           /\ x \notin Range(RemoveFirst(q, x))
           /\ \A y : y # x => (y \in Range(RemoveFirst(q, x)) <=> y \in Range(q))
<1>1. CASE x \notin Range(q) BY <1>1, RemoveAbsent
<1>2. CASE x \in Range(q)
  <2>1. PICK i \in 1..Len(q) : q[i] = x BY <1>2 DEF Range
  <2>0. RemoveFirst(q, x) = RemoveAt(q, i) BY <2>1, RemoveFirstIs
  <2> DEFINE r == RemoveFirst(q, x)
  <2>2. /\ r \in Seq(S) /\ Len(r) = Len(q) - 1
        /\ \A j \in 1..(Len(q) - 1) : r[j] = IF j < i THEN q[j] ELSE q[j + 1]
    BY <2>0, RemoveAtIs
  <2> HIDE DEF r
  <2>3. IsInjective(r)
    <3> SUFFICES ASSUME NEW j \in 1..(Len(q) - 1), NEW k \in 1..(Len(q) - 1),
                        r[j] = r[k]
                 PROVE  j = k
      BY <2>2 DEF IsInjective
    <3>1. \A g, h \in 1..Len(q) : q[g] = q[h] => g = h BY DEF IsInjective
    <3> QED BY <2>2, <3>1
  <2>4. x \notin Range(r)
    <3> SUFFICES ASSUME NEW j \in 1..(Len(q) - 1), r[j] = x PROVE FALSE
      BY <2>2 DEF Range
    <3>0. \A g, h \in 1..Len(q) : q[g] = q[h] => g = h BY DEF IsInjective
    <3>1. CASE j < i
      <4>1. j \in 1..Len(q) /\ q[j] = x BY <2>2, <3>1
      <4> QED BY <2>1, <3>0, <3>1, <4>1
    <3>2. CASE j >= i
      <4>1. j + 1 \in 1..Len(q) /\ q[j + 1] = x BY <2>2, <3>2
      <4> QED BY <2>1, <3>0, <3>2, <4>1
    <3> QED BY <3>1, <3>2
  <2>5. ASSUME NEW y, y # x, y \in Range(r) PROVE y \in Range(q)
    <3>1. PICK j \in 1..(Len(q) - 1) : r[j] = y BY <2>2, <2>5 DEF Range
    <3>2. y = q[j] \/ y = q[j + 1] BY <2>2, <3>1
    <3>3. j \in 1..Len(q) /\ j + 1 \in 1..Len(q) BY <3>1
    <3> QED BY <3>2, <3>3 DEF Range
  <2>6. ASSUME NEW y, y # x, y \in Range(q) PROVE y \in Range(r)
    <3>1. PICK j \in 1..Len(q) : q[j] = y BY <2>6 DEF Range
    <3>2. j # i BY <2>1, <2>6, <3>1
    <3>3. CASE j < i
      <4>1. j \in 1..(Len(q) - 1) /\ r[j] = y BY <2>2, <3>1, <3>3
      <4> QED BY <2>2, <4>1 DEF Range
    <3>4. CASE j > i
      <4>1. j - 1 \in 1..(Len(q) - 1) /\ r[j - 1] = y BY <2>2, <3>1, <3>4
      <4> QED BY <2>2, <4>1 DEF Range
    <3> QED BY <3>2, <3>3, <3>4
  <2> QED BY <2>2, <2>3, <2>4, <2>5, <2>6 DEF r
<1> QED BY <1>1, <1>2

\* The first stays the first unless it is the one that leaves.
LEMMA RemoveKeepsHead ==
    ASSUME NEW S, NEW q \in Seq(S), IsInjective(q), NEW x, q # <<>>, Head(q) # x
    PROVE  RemoveFirst(q, x) # <<>> /\ Head(RemoveFirst(q, x)) = Head(q)
<1>1. CASE x \notin Range(q) BY <1>1, RemoveAbsent
<1>2. CASE x \in Range(q)
  <2>1. PICK i \in 1..Len(q) : q[i] = x BY <1>2 DEF Range
  <2>0. RemoveFirst(q, x) = RemoveAt(q, i) BY <2>1, RemoveFirstIs
  <2>2. i > 1 BY <2>1
  <2> DEFINE r == RemoveFirst(q, x)
  <2>3. /\ r \in Seq(S) /\ Len(r) = Len(q) - 1
        /\ \A j \in 1..(Len(q) - 1) : r[j] = IF j < i THEN q[j] ELSE q[j + 1]
    BY <2>0, RemoveAtIs
  <2> HIDE DEF r
  <2>4. Len(r) >= 1 /\ r[1] = q[1] BY <2>2, <2>3
  <2>5. r # <<>> /\ Head(r) = r[1] BY <2>3, <2>4
  <2> QED BY <2>4, <2>5 DEF r
<1> QED BY <1>1, <1>2

LEMMA AppendKeeps ==
    ASSUME NEW S, NEW q \in Seq(S), IsInjective(q), NEW x \in S, x \notin Range(q)
    PROVE  /\ Append(q, x) \in Seq(S)
           /\ IsInjective(Append(q, x))
           /\ \A y : y \in Range(Append(q, x)) <=> y = x \/ y \in Range(q)
           /\ q # <<>> => Append(q, x) # <<>> /\ Head(Append(q, x)) = Head(q)
<1> DEFINE r == Append(q, x)
<1>1. /\ r \in Seq(S) /\ Len(r) = Len(q) + 1
      /\ \A j \in 1..Len(q) : r[j] = q[j]
      /\ r[Len(q) + 1] = x
  BY AppendProperties
<1>2. q # <<>> => r # <<>> /\ Head(r) = Head(q) BY HeadTailAppend, <1>1
<1> HIDE DEF r
<1>3. IsInjective(r) BY <1>1 DEF IsInjective, Range
<1>4. ASSUME NEW y PROVE y \in Range(r) <=> y = x \/ y \in Range(q)
  <2>1. y \in Range(r) => y = x \/ y \in Range(q) BY <1>1 DEF Range
  <2>2. y = x => y \in Range(r)
    <3>1. Len(q) + 1 \in 1..Len(r) BY <1>1
    <3> QED BY <1>1, <3>1 DEF Range
  <2>3. y \in Range(q) => y \in Range(r) BY <1>1 DEF Range
  <2> QED BY <2>1, <2>2, <2>3
<1> QED BY <1>1, <1>2, <1>3, <1>4 DEF r

LEMMA EmptyQueue ==
    ASSUME NEW S
    PROVE  <<>> \in Seq(S) /\ IsInjective(<<>>) /\ \A x : x \notin Range(<<>>)
  BY DEF IsInjective, Range

LEMMA HeadIn ==
    ASSUME NEW S, NEW q \in Seq(S), q # <<>>
    PROVE  Head(q) \in S /\ Head(q) \in Range(q)
  BY DEF Range

-----------------------------------------------------------------------------
(* Folds.  What a fold over 1..n computes is a function of the sets of       *)
(* positions; it exists, and along 1..0, 1..1, 1..2, ... it is the run of    *)
(* the loop.                                                                 *)

LEMMA SetInduction ==
    ASSUME NEW S, 0 \in S, \A n \in Nat : n \in S => n + 1 \in S
    PROVE  Nat \subseteq S
<1> DEFINE T == {n \in Nat : n \notin S}
<1>1. ASSUME T # {} PROVE FALSE
  <2>1. PICK n \in T : \A m \in T : n <= m BY <1>1, LeastNat
  <2>2. n - 1 \in Nat /\ n - 1 \notin T BY <2>1
  <2>3. n - 1 \in S /\ (n - 1) + 1 = n BY <2>2
  <2> QED BY <2>1, <2>2, <2>3
<1> QED BY <1>1

\* A set of numbers that is not empty and bounded has a greatest one.
LEMMA MaxUpTo ==
    ASSUME NEW n \in Nat, NEW S \in SUBSET (1..n), S # {}
    PROVE  Max(S) \in S /\ \A i \in S : i <= Max(S)
<1> DEFINE T == {n - i : i \in S}
<1>1. T \in SUBSET Nat /\ T # {}
  <2>1. \A i \in S : n - i \in Nat OBVIOUS
  <2>2. PICK i \in S : TRUE OBVIOUS
  <2>3. n - i \in T BY <2>2
  <2> QED BY <2>1, <2>3
<1>2. PICK k \in T : \A m \in T : k <= m BY <1>1, LeastNat
<1>3. PICK i \in S : k = n - i BY <1>2
<1>4. ASSUME NEW j \in S PROVE i >= j
  <2>1. n - j \in T OBVIOUS
  <2>2. n - i <= n - j BY <1>2, <1>3, <2>1
  <2>3. i \in Int /\ j \in Int OBVIOUS
  <2> HIDE DEF T
  <2> QED BY <2>2, <2>3
<1>5. \A x \in S : x \in Int OBVIOUS
<1>6. Max(S) \in S /\ \A y \in S : Max(S) >= y
  BY <1>4 DEF Max
<1> QED BY <1>5, <1>6

FoldOf(h, n, V, base, g) ==
    /\ h \in [SUBSET (1..n) -> V]
    /\ h[{}] = base
    /\ \A s \in SUBSET (1..n) : s # {} => h[s] = g[<<h[s \ {Max(s)}], Max(s)>>]

LEMMA FoldExists ==
    ASSUME NEW V, NEW base \in V, NEW n \in Nat, NEW g \in [V \X (1..n) -> V]
    PROVE  \E h : FoldOf(h, n, V, base, g)
<1> DEFINE S == {m \in Nat : m <= n => \E h : FoldOf(h, m, V, base, g)}
<1>1. 0 \in S
  <2> DEFINE h == [s \in SUBSET (1..0) |-> base]
  <2>1. SUBSET (1..0) = {{}} OBVIOUS
  <2>2. FoldOf(h, 0, V, base, g) BY <2>1 DEF FoldOf
  <2> QED BY <2>2
<1>2. ASSUME NEW m \in Nat, m \in S, m + 1 <= n
      PROVE  \E h : FoldOf(h, m + 1, V, base, g)
  <2>1. PICK f : FoldOf(f, m, V, base, g) BY <1>2
  <2> DEFINE h == [s \in SUBSET (1..(m + 1)) |->
                     IF m + 1 \in s THEN g[<<f[s \ {m + 1}], m + 1>>] ELSE f[s]]
  <2>2. ASSUME NEW s \in SUBSET (1..(m + 1))
        PROVE  s \ {m + 1} \in SUBSET (1..m) /\ (m + 1 \notin s => s \in SUBSET (1..m))
    OBVIOUS
  <2>3. ASSUME NEW s \in SUBSET (1..(m + 1)) PROVE h[s] \in V
    <3>1. CASE m + 1 \in s
      <4>1. f[s \ {m + 1}] \in V BY <2>1, <2>2 DEF FoldOf
      <4>2. <<f[s \ {m + 1}], m + 1>> \in V \X (1..n) BY <1>2, <4>1
      <4> QED BY <3>1, <4>2
    <3>2. CASE m + 1 \notin s BY <2>1, <2>2, <3>2 DEF FoldOf
    <3> QED BY <3>1, <3>2
  <2>4. h \in [SUBSET (1..(m + 1)) -> V] BY <2>3
  <2>5. h[{}] = base BY <2>1 DEF FoldOf
  <2>6. ASSUME NEW s \in SUBSET (1..(m + 1)), s # {}
        PROVE  h[s] = g[<<h[s \ {Max(s)}], Max(s)>>]
    <3>0. m + 1 \in Nat OBVIOUS
    <3>1. Max(s) \in s /\ \A i \in s : i <= Max(s) BY <2>6, <3>0, MaxUpTo
    <3>2. s \ {Max(s)} \in SUBSET (1..(m + 1)) OBVIOUS
    <3>3. CASE m + 1 \in s
      <4>1. Max(s) \in 1..(m + 1) /\ m + 1 <= Max(s) BY <3>1, <3>3
      <4>3. Max(s) = m + 1 BY <4>1
      <4>2. h[s \ {m + 1}] = f[s \ {m + 1}] OBVIOUS
      <4> QED BY <3>3, <4>2, <4>3
    <3>4. CASE m + 1 \notin s
      <4>1. h[s] = f[s] /\ h[s \ {Max(s)}] = f[s \ {Max(s)}] BY <3>2, <3>4
      <4>2. s \in SUBSET (1..m) BY <2>2, <3>4
      <4>3. f[s] = g[<<f[s \ {Max(s)}], Max(s)>>] BY <2>1, <2>6, <4>2 DEF FoldOf
      <4> QED BY <4>1, <4>3
    <3> QED BY <3>3, <3>4
  <2> HIDE DEF h
  <2>7. FoldOf(h, m + 1, V, base, g) BY <2>4, <2>5, <2>6 DEF FoldOf
  <2> QED BY <2>7
<1>3. \A m \in Nat : m \in S => m + 1 \in S
  <2> SUFFICES ASSUME NEW m \in Nat, m \in S PROVE m + 1 \in S OBVIOUS
  <2>1. CASE m + 1 <= n
    <3>1. \E h : FoldOf(h, m + 1, V, base, g) BY <1>2, <2>1
    <3> QED BY <3>1
  <2>2. CASE ~(m + 1 <= n) BY <2>2
  <2> QED BY <2>1, <2>2
<1>4. n \in S
  <2> HIDE DEF S
  <2> QED BY <1>1, <1>3, SetInduction
<1> QED BY <1>4

\* The run of the loop: f[i] is the result after i rounds.
RunOf(f, n, V, base, g) ==
    f \in [0..n -> V] /\ f[0] = base /\ \A i \in 1..n : f[i] = g[<<f[i - 1], i>>]

\* What the definition of a fold says of it, whatever its type.
Folds(it, n, V, base, g) ==
    /\ it[{}] = base
    /\ \A s \in SUBSET (1..n) :
         s # {} /\ it[s \ {Max(s)}] \in V => it[s] = g[<<it[s \ {Max(s)}], Max(s)>>]

PartialFolds(it, n) == [i \in 0..n |-> it[1..i]]

LEMMA FoldRuns ==
    ASSUME NEW V, NEW base \in V, NEW n \in Nat, NEW g \in [V \X (1..n) -> V],
           NEW it, Folds(it, n, V, base, g)
    PROVE  RunOf(PartialFolds(it, n), n, V, base, g)
<1>0. /\ it[{}] = base
      /\ \A s \in SUBSET (1..n) :
           s # {} /\ it[s \ {Max(s)}] \in V => it[s] = g[<<it[s \ {Max(s)}], Max(s)>>]
  BY DEF Folds
<1> DEFINE S == {i \in Nat : i <= n => it[1..i] \in V}
<1>1. ASSUME NEW i \in Nat, i + 1 <= n, it[1..i] \in V
      PROVE  it[1..(i + 1)] = g[<<it[1..i], i + 1>>]
  <2> DEFINE s == 1..(i + 1)
  <2>0. \A j \in s : j \in 1..n BY <1>1
  <2>1. s \in SUBSET (1..n) /\ s # {} /\ i + 1 \in s BY <2>0
  <2>2. Max(s) \in s /\ \A j \in s : j <= Max(s)
    <3> HIDE DEF s
    <3> QED BY <2>1, MaxUpTo
  <2>3. Max(s) = i + 1 BY <2>1, <2>2
  <2>4. s \ {i + 1} = 1..i BY <2>1
  <2> HIDE DEF s
  <2>5. it[s] = g[<<it[s \ {Max(s)}], Max(s)>>] BY <1>0, <1>1, <2>1, <2>3, <2>4
  <2> QED BY <2>3, <2>4, <2>5 DEF s
<1>2. 0 \in S
  <2>1. 1..0 = {} OBVIOUS
  <2> QED BY <1>0, <2>1
<1>3. ASSUME NEW i \in Nat, i \in S PROVE i + 1 \in S
  <2>1. CASE i + 1 <= n
    <3>1. it[1..i] \in V BY <1>3, <2>1
    <3>2. it[1..(i + 1)] = g[<<it[1..i], i + 1>>] BY <1>1, <2>1, <3>1
    <3>3. <<it[1..i], i + 1>> \in V \X (1..n) BY <2>1, <3>1
    <3>4. it[1..(i + 1)] \in V BY <3>2, <3>3
    <3> QED BY <3>4
  <2>2. CASE ~(i + 1 <= n) BY <2>2
  <2> QED BY <2>1, <2>2
<1>4. Nat \subseteq S
  <2> HIDE DEF S
  <2> QED BY <1>2, <1>3, SetInduction
<1> DEFINE f == [i \in 0..n |-> it[1..i]]
<1>5. f \in [0..n -> V] BY <1>4
<1>6. f[0] = base
  <2>1. 1..0 = {} OBVIOUS
  <2> QED BY <1>0, <2>1
<1>7. ASSUME NEW i \in 1..n PROVE f[i] = g[<<f[i - 1], i>>]
  <2>1. i - 1 \in Nat /\ i - 1 <= n /\ (i - 1) + 1 = i OBVIOUS
  <2>2. it[1..(i - 1)] \in V BY <1>4, <2>1
  <2>3. it[1..i] = g[<<it[1..(i - 1)], i>>] BY <1>1, <2>1, <2>2
  <2>4. f[i] = it[1..i] /\ f[i - 1] = it[1..(i - 1)] BY <2>1
  <2> QED BY <2>3, <2>4
<1> HIDE DEF f
<1>8. RunOf(f, n, V, base, g) BY <1>5, <1>6, <1>7 DEF RunOf
<1> QED BY <1>8 DEF f, PartialFolds

\* What holds after 0 rounds, and after a round if it held before it.
LEMMA CountUp ==
    ASSUME NEW n \in Nat, NEW S, 0 \in S, \A i \in 1..n : i - 1 \in S => i \in S
    PROVE  0..n \subseteq S
<1> DEFINE T == {i \in Nat : i <= n => i \in S}
<1>1. 0 \in T OBVIOUS
<1>2. ASSUME NEW i \in Nat, i \in T PROVE i + 1 \in T
  <2>1. CASE i + 1 <= n
    <3>1. i + 1 \in 1..n /\ (i + 1) - 1 = i BY <2>1
    <3> QED BY <1>2, <2>1, <3>1
  <2>2. CASE ~(i + 1 <= n) BY <2>2
  <2> QED BY <2>1, <2>2
<1>3. Nat \subseteq T
  <2> HIDE DEF T
  <2> QED BY <1>1, <1>2, SetInduction
<1> QED BY <1>3
-----------------------------------------------------------------------------
(* Sums.  A sum over a finite set takes the elements in an order that is not *)
(* known; it is the same in every order.                                     *)

Chosen(s) == CHOOSE x \in s : TRUE

SumRec(h, S, d) ==
    /\ h[{}] = 0
    /\ \A s \in SUBSET S : s # {} => h[s] = d[Chosen(s)] + h[s \ {Chosen(s)}]

SumOf(h, S, d) == h \in [SUBSET S -> Int] /\ SumRec(h, S, d)

\* The same for the sets of at most n elements.
SumTo(h, S, d, n) ==
    /\ h \in [SUBSET S -> Int] /\ h[{}] = 0
    /\ \A s \in SUBSET S : s # {} /\ Cardinality(s) <= n => h[s] = d[Chosen(s)] + h[s \ {Chosen(s)}]

LEMMA PartOf ==
    ASSUME NEW S, IsFiniteSet(S), NEW s \in SUBSET S
    PROVE  /\ IsFiniteSet(s) /\ Cardinality(s) \in Nat /\ Cardinality(s) <= Cardinality(S)
           /\ s # {} => Chosen(s) \in s /\ Cardinality(s) # 0
           /\ \A x \in s : Cardinality(s \ {x}) = Cardinality(s) - 1
<1>1. IsFiniteSet(s) /\ Cardinality(s) <= Cardinality(S) BY FS_Subset
<1>2. Cardinality(s) \in Nat BY <1>1, FS_CardinalityType
<1>3. s # {} => Chosen(s) \in s BY DEF Chosen
<1>4. s # {} => Cardinality(s) # 0 BY <1>1, FS_EmptySet
<1>5. \A x \in s : Cardinality(s \ {x}) = Cardinality(s) - 1 BY <1>1, FS_RemoveElement
<1> QED BY <1>1, <1>2, <1>3, <1>4, <1>5

LEMMA SumExists ==
    ASSUME NEW S, IsFiniteSet(S), NEW d, \A x \in S : d[x] \in Int
    PROVE  \E h : SumOf(h, S, d)
<1> DEFINE T == {n \in Nat : \E h : SumTo(h, S, d, n)}
<1>1. 0 \in T
  <2> DEFINE h == [s \in SUBSET S |-> 0]
  <2>1. \A s \in SUBSET S : s # {} => ~(Cardinality(s) <= 0) BY PartOf
  <2>2. SumTo(h, S, d, 0) BY <2>1 DEF SumTo
  <2> QED BY <2>2
<1>2. ASSUME NEW n \in Nat, n \in T PROVE n + 1 \in T
  <2>1. PICK f : SumTo(f, S, d, n) BY <1>2
  <2> DEFINE h == [s \in SUBSET S |->
                     IF s = {} \/ Cardinality(s) <= n THEN f[s] ELSE d[Chosen(s)] + f[s \ {Chosen(s)}]]
  <2>2. ASSUME NEW s \in SUBSET S PROVE h[s] \in Int
    <3>1. f[s] \in Int /\ f[s \ {Chosen(s)}] \in Int BY <2>1 DEF SumTo
    <3>2. s # {} => d[Chosen(s)] \in Int BY PartOf
    <3> QED BY <3>1, <3>2
  <2>3. h \in [SUBSET S -> Int] BY <2>2
  <2>4. h[{}] = 0 BY <2>1 DEF SumTo
  <2>5. ASSUME NEW s \in SUBSET S, s # {}, Cardinality(s) <= n + 1
        PROVE  h[s] = d[Chosen(s)] + h[s \ {Chosen(s)}]
    <3> DEFINE t == s \ {Chosen(s)}
    <3>1. t \in SUBSET S OBVIOUS
    <3>2. Cardinality(s) \in Nat /\ Cardinality(t) = Cardinality(s) - 1 BY <2>5, PartOf
    <3>3. Cardinality(t) <= n BY <2>5, <3>2
    <3>4. h[t] = f[t] BY <3>1, <3>3
    <3>5. CASE Cardinality(s) <= n
      <4>1. f[s] = d[Chosen(s)] + f[t] BY <2>1, <2>5, <3>5 DEF SumTo
      <4>2. h[s] = f[s] BY <3>5
      <4> QED BY <3>4, <4>1, <4>2
    <3>6. CASE ~(Cardinality(s) <= n)
      <4>1. h[s] = d[Chosen(s)] + f[t] BY <2>5, <3>6
      <4> QED BY <3>4, <4>1
    <3> QED BY <3>5, <3>6
  <2> HIDE DEF h
  <2>6. SumTo(h, S, d, n + 1) BY <2>3, <2>4, <2>5 DEF SumTo
  <2> QED BY <2>6
<1>3. Nat \subseteq T
  <2> HIDE DEF T
  <2> QED BY <1>1, <1>2, SetInduction
<1>4. Cardinality(S) \in Nat BY FS_CardinalityType
<1>5. PICK h : SumTo(h, S, d, Cardinality(S)) BY <1>3, <1>4
<1>6. SumOf(h, S, d) BY <1>5, PartOf DEF SumTo, SumOf, SumRec
<1> QED BY <1>6

\* Two sums of the same numbers are the same.
LEMMA SumAgrees ==
    ASSUME NEW S, IsFiniteSet(S), NEW d, NEW e, \A x \in S : d[x] = e[x],
           NEW h, NEW f, SumRec(h, S, d), SumRec(f, S, e)
    PROVE  \A s \in SUBSET S : h[s] = f[s]
<1> DEFINE T == {n \in Nat : \A s \in SUBSET S : Cardinality(s) = n => h[s] = f[s]}
<1>1. 0 \in T
  <2>1. \A s \in SUBSET S : Cardinality(s) = 0 => s = {} BY PartOf
  <2> QED BY <2>1 DEF SumRec
<1>2. ASSUME NEW n \in Nat, n \in T PROVE n + 1 \in T
  <2> SUFFICES ASSUME NEW s \in SUBSET S, Cardinality(s) = n + 1 PROVE h[s] = f[s] OBVIOUS
  <2>1. s # {} BY FS_EmptySet
  <2>2. Chosen(s) \in s /\ Cardinality(s \ {Chosen(s)}) = n BY <2>1, PartOf
  <2>3. s \ {Chosen(s)} \in SUBSET S OBVIOUS
  <2>4. h[s \ {Chosen(s)}] = f[s \ {Chosen(s)}] BY <1>2, <2>2, <2>3
  <2>5. d[Chosen(s)] = e[Chosen(s)] BY <2>2
  <2>6. /\ h[s] = d[Chosen(s)] + h[s \ {Chosen(s)}]
        /\ f[s] = e[Chosen(s)] + f[s \ {Chosen(s)}]
    BY <2>1 DEF SumRec
  <2> QED BY <2>4, <2>5, <2>6
<1>3. Nat \subseteq T
  <2> HIDE DEF T
  <2> QED BY <1>1, <1>2, SetInduction
<1> QED BY <1>3, PartOf

\* Any element may be the last one.
Splits(h, S, d) == \A s \in SUBSET S : \A x \in s : h[s] = d[x] + h[s \ {x}]

LEMMA SumSplits ==
    ASSUME NEW S, IsFiniteSet(S), NEW d, \A x \in S : d[x] \in Int, NEW h, SumOf(h, S, d)
    PROVE  Splits(h, S, d)
<1> DEFINE T == {n \in Nat : \A s \in SUBSET S : Cardinality(s) = n =>
                               \A x \in s : h[s] = d[x] + h[s \ {x}]}
<1>1. 0 \in T
  <2>1. \A s \in SUBSET S : Cardinality(s) = 0 => s = {} BY PartOf
  <2> QED BY <2>1
<1>2. ASSUME NEW n \in Nat, n \in T PROVE n + 1 \in T
  <2> SUFFICES ASSUME NEW s \in SUBSET S, Cardinality(s) = n + 1, NEW x \in s
               PROVE  h[s] = d[x] + h[s \ {x}]
    OBVIOUS
  <2> DEFINE c == Chosen(s)
  <2>1. c \in s /\ h[s] = d[c] + h[s \ {c}] BY PartOf DEF SumOf, SumRec
  <2>2. CASE x = c BY <2>1, <2>2
  <2>3. CASE x # c
    <3>1. s \ {c} \in SUBSET S /\ s \ {x} \in SUBSET S /\ x \in s \ {c} /\ c \in s \ {x} BY <2>1, <2>3
    <3>2. Cardinality(s \ {c}) = n /\ Cardinality(s \ {x}) = n BY <2>1, PartOf
    <3>3. h[s \ {c}] = d[x] + h[(s \ {c}) \ {x}] BY <1>2, <3>1, <3>2
    <3>4. h[s \ {x}] = d[c] + h[(s \ {x}) \ {c}] BY <1>2, <3>1, <3>2
    <3>5. (s \ {x}) \ {c} = (s \ {c}) \ {x} /\ (s \ {c}) \ {x} \in SUBSET S OBVIOUS
    <3>6. h[(s \ {c}) \ {x}] \in Int /\ d[x] \in Int /\ d[c] \in Int BY <2>1, <3>5 DEF SumOf
    <3> DEFINE k == h[(s \ {c}) \ {x}]
               p == h[s \ {c}]
               q == h[s \ {x}]
               y == d[x]
               z == d[c]
    <3>7. p = y + k BY <3>3
    <3>8. q = z + k BY <3>4, <3>5
    <3>9. h[s] = z + p BY <2>1
    <3>10. k \in Int /\ y \in Int /\ z \in Int BY <3>6
    <3> HIDE DEF k, p, q, y, z
    <3>11. h[s] = y + q BY <3>7, <3>8, <3>9, <3>10
    <3> QED BY <3>11 DEF y, q
  <2> QED BY <2>2, <2>3
<1>3. Nat \subseteq T
  <2> HIDE DEF T
  <2> QED BY <1>1, <1>2, SetInduction
<1>4. \A s \in SUBSET S : Cardinality(s) \in Nat BY PartOf
<1> QED BY <1>3, <1>4 DEF Splits
=============================================================================
