-------------------------- MODULE WebSocketsProofs --------------------------
(***************************************************************************)
(* Proofs about WebSocketManager, for any number of connections, of        *)
(* broadcasts in flight and of pollers.                                    *)
(*                                                                         *)
(* The sends: the loop of a broadcast walks a list that others shorten.    *)
(* The inductive invariant relates each loop to the list: connections in   *)
(* front of the iterator have not got its message (AheadInv), and as long  *)
(* as nobody shortened the list everyone who is owed a turn is in front of *)
(* it (OwedInv).  Both rest on what Without does to places in the list,    *)
(* which the first section derives by counting.                            *)
(*                                                                         *)
(* The dashboards: the newest broadcast carries the cache, and a key of    *)
(* Kept that was ever in a payload or on a dashboard is in the cache for   *)
(* good (ViewsInv); so who hears the newest broadcast has all of it, and   *)
(* what the broadcast does not carry nobody shows.                         *)
(***************************************************************************)
EXTENDS WebSockets, DataLemmas

-----------------------------------------------------------------------------
(* The list of connections *)

\* How many of a set's numbers are at most i.
UpTo(S, i) == {j \in S : j <= i}
Rank(S, i) == Cardinality(UpTo(S, i))

Below(S, n) == \A i \in S : i \in Nat /\ 1 <= i /\ i <= n

LEMMA RankIs ==
    ASSUME NEW n \in Nat, NEW S, Below(S, n), NEW i \in Nat
    PROVE  /\ IsFiniteSet(S) /\ IsFiniteSet(UpTo(S, i))
           /\ Rank(S, i) \in Nat /\ Rank(S, i) <= i
           /\ Rank(S, i + 1) = Rank(S, i) + (IF i + 1 \in S THEN 1 ELSE 0)
<1>0. \A j \in S : j \in Nat /\ 1 <= j /\ j <= n BY DEF Below
<1>1. IsFiniteSet(1..n) /\ IsFiniteSet(1..i) /\ Cardinality(1..i) = i
  BY FS_Interval
<1>2. IsFiniteSet(S) /\ IsFiniteSet(UpTo(S, i))
  <2>1. S \in SUBSET (1..n) BY <1>0
  <2>2. UpTo(S, i) \in SUBSET S BY DEF UpTo
  <2> QED BY <1>1, <2>1, <2>2, FS_Subset
<1>3. Rank(S, i) \in Nat BY <1>2, FS_CardinalityType DEF Rank
<1>4. Rank(S, i) <= i
  <2>1. \A j \in UpTo(S, i) : j \in 1..i BY <1>0 DEF UpTo
  <2>2. UpTo(S, i) \in SUBSET (1..i) BY <2>1
  <2> QED BY <1>1, <2>2, FS_Subset DEF Rank
<1>5. CASE i + 1 \in S
  <2>1. \A j : j \in UpTo(S, i + 1) <=> j \in UpTo(S, i) \/ j = i + 1
    BY <1>0, <1>5 DEF UpTo
  <2>2. UpTo(S, i + 1) = UpTo(S, i) \cup {i + 1} BY <2>1
  <2>3. i + 1 \notin UpTo(S, i) BY DEF UpTo
  <2> QED BY <1>2, <1>3, <1>4, <1>5, <2>2, <2>3, FS_AddElement DEF Rank
<1>6. CASE i + 1 \notin S
  <2>1. \A j : j \in UpTo(S, i + 1) <=> j \in UpTo(S, i)
    BY <1>0, <1>6 DEF UpTo
  <2>2. UpTo(S, i + 1) = UpTo(S, i) BY <2>1
  <2> QED BY <1>2, <1>3, <1>4, <1>6, <2>2 DEF Rank
<1> QED BY <1>2, <1>3, <1>4, <1>5, <1>6

\* An element counts itself.
LEMMA RankOf ==
    ASSUME NEW n \in Nat, NEW S, Below(S, n), NEW i \in 1..n
    PROVE  /\ i - 1 \in Nat /\ Rank(S, i - 1) \in Nat
           /\ Rank(S, i) = Rank(S, i - 1) + (IF i \in S THEN 1 ELSE 0)
<1> DEFINE h == i - 1
<1>1. h \in Nat /\ h + 1 = i OBVIOUS
<1> HIDE DEF h
<1>2. Rank(S, h) \in Nat /\ Rank(S, h + 1) = Rank(S, h) + (IF h + 1 \in S THEN 1 ELSE 0)
  BY <1>1, RankIs
<1> QED BY <1>1, <1>2 DEF h

\* Two elements of a set have different ranks.
LEMMA RankTells ==
    ASSUME NEW n \in Nat, NEW S, Below(S, n), NEW i \in S, NEW j \in S, i < j
    PROVE  Rank(S, i) < Rank(S, j)
<1>0. i \in 1..n /\ j \in 1..n BY DEF Below
<1> DEFINE h == j - 1
<1>1. h \in Nat /\ i <= h BY <1>0
<1>2. Rank(S, j) = Rank(S, h) + 1 /\ Rank(S, h) \in Nat BY <1>0, RankOf
<1> HIDE DEF h
<1>3. \A k \in UpTo(S, i) : k \in UpTo(S, h) BY <1>0, <1>1 DEF UpTo
<1>4. IsFiniteSet(UpTo(S, h)) BY <1>1, RankIs
<1>5. UpTo(S, i) \in SUBSET UpTo(S, h) BY <1>3
<1>6. Rank(S, i) <= Rank(S, h) BY <1>4, <1>5, FS_Subset DEF Rank
<1>7. Rank(S, i) \in Nat BY <1>0, RankIs
<1> QED BY <1>2, <1>6, <1>7

\* No element counts more than all.
LEMMA RankWithin ==
    ASSUME NEW n \in Nat, NEW S, Below(S, n), NEW i \in S
    PROVE  Rank(S, i) \in 1..Cardinality(S)
<1>1. i \in 1..n BY DEF Below
<1>2. IsFiniteSet(S) /\ UpTo(S, i) \in SUBSET S BY RankIs DEF UpTo
<1>3. Rank(S, i) <= Cardinality(S) /\ Cardinality(S) \in Nat
  BY <1>2, FS_Subset, FS_CardinalityType DEF Rank
<1>4. Rank(S, i) \in Nat /\ Rank(S, i) >= 1 BY <1>1, RankIs, RankOf
<1> QED BY <1>3, <1>4

\* There is an element of each rank.
LEMMA RankTaken ==
    ASSUME NEW n \in Nat, NEW S, Below(S, n), NEW k \in 1..Cardinality(S)
    PROVE  \E i \in S : Rank(S, i) = k
<1>0. \A i \in S : i \in Nat /\ 1 <= i /\ i <= n BY DEF Below
<1> DEFINE T == {i \in 0..n : Rank(S, i) >= k}
<1>1. n \in T
  <2>1. \A i : i \in UpTo(S, n) <=> i \in S BY <1>0 DEF UpTo
  <2>2. UpTo(S, n) = S BY <2>1
  <2>3. Cardinality(S) \in Nat BY RankIs, FS_CardinalityType
  <2> QED BY <2>2, <2>3 DEF Rank
<1>2. T \in SUBSET Nat OBVIOUS
<1>3. PICK i \in T : \A j \in T : i <= j
  <2> HIDE DEF T
  <2> QED BY <1>1, <1>2, LeastNat
<1>4. i # 0
  <2>1. UpTo(S, 0) = {} BY <1>0 DEF UpTo
  <2>2. Rank(S, 0) = 0 BY <2>1, FS_EmptySet DEF Rank
  <2> QED BY <1>3, <2>2
<1>5. i \in 1..n BY <1>3, <1>4
<1>6. i - 1 \notin T BY <1>3, <1>5
<1>7. ~(Rank(S, i - 1) >= k) BY <1>5, <1>6
<1>8. /\ Rank(S, i - 1) \in Nat
      /\ Rank(S, i) = Rank(S, i - 1) + (IF i \in S THEN 1 ELSE 0)
  BY <1>5, RankOf
<1> QED BY <1>3, <1>7, <1>8

LEMMA NthIs ==
    ASSUME NEW n \in Nat, NEW S, Below(S, n), NEW k \in 1..Cardinality(S)
    PROVE  Nth(S, k) \in S /\ Rank(S, Nth(S, k)) = k
<1>1. \E i \in S : Rank(S, i) = k BY RankTaken
<1>2. Nth(S, k) = CHOOSE i \in S : Rank(S, i) = k
  BY DEF Nth, Rank, UpTo
<1> QED BY <1>1, <1>2

\* What stays is what is not gone, once and never later than before.
LEMMA WithoutIs ==
    ASSUME NEW D, NEW list \in Seq(D), IsInjective(list), NEW gone
    PROVE  /\ Without(list, gone) \in Seq(D)
           /\ IsInjective(Without(list, gone))
           /\ \A x : x \in Range(Without(list, gone))
                      <=> x \in Range(list) /\ x \notin gone
           /\ \A k \in 1..Len(Without(list, gone)) : \E i \in 1..Len(list) :
                k <= i /\ list[i] = Without(list, gone)[k]
<1> DEFINE n == Len(list)
           S == {i \in 1..n : list[i] \notin gone}
           m == Cardinality(S)
           new == [k \in 1..m |-> list[Nth(S, k)]]
<1>1. n \in Nat /\ DOMAIN list = 1..n /\ \A i \in 1..n : list[i] \in D
  OBVIOUS
<1>2. Without(list, gone) = new BY <1>1 DEF Without
<1>3. Below(S, n) BY <1>1 DEF Below
<1>4. /\ \A i \in S : i \in 1..n /\ list[i] \notin gone
      /\ \A i \in 1..n : list[i] \notin gone => i \in S
  OBVIOUS
<1> HIDE DEF n, S
<1>5. \A i \in S : i \in Nat /\ Rank(S, i) \in Nat /\ Rank(S, i) <= i
  BY <1>1, <1>3, RankIs DEF Below
<1>6. \A k \in 1..m : Nth(S, k) \in S /\ Rank(S, Nth(S, k)) = k
  BY <1>1, <1>3, NthIs
<1>7. m \in Nat BY <1>1, <1>3, RankIs, FS_CardinalityType
<1> HIDE DEF m
<1>8. \A k \in 1..m : /\ new[k] = list[Nth(S, k)] /\ Nth(S, k) \in 1..n
                      /\ new[k] \in D /\ k <= Nth(S, k)
  BY <1>1, <1>4, <1>5, <1>6
<1>9. new \in Seq(D) /\ Len(new) = m
  <2>1. new \in [1..m -> D] BY <1>8
  <2> QED BY <1>7, <2>1
<1> HIDE DEF new
<1>10. ASSUME NEW k \in 1..m, NEW l \in 1..m, new[k] = new[l] PROVE k = l
  <2>1. Nth(S, k) = Nth(S, l) BY <1>1, <1>8, <1>10 DEF IsInjective
  <2> QED BY <1>6, <2>1
<1>11. ASSUME NEW x PROVE x \in Range(new) <=> x \in Range(list) /\ x \notin gone
  <2>1. ASSUME NEW k \in 1..m, x = new[k] PROVE x \in Range(list) /\ x \notin gone
    BY <1>1, <1>4, <1>6, <1>8, <2>1 DEF Range
  <2>2. ASSUME NEW i \in 1..n, x = list[i], x \notin gone PROVE x \in Range(new)
    <3>1. i \in S BY <1>4, <2>2
    <3> DEFINE k == Rank(S, i)
    <3>2. k \in 1..m BY <1>1, <1>3, <3>1, RankWithin DEF m
    <3>3. Nth(S, k) \in S /\ Rank(S, Nth(S, k)) = k BY <1>6, <3>2
    <3>4. Nth(S, k) = i
      <4> DEFINE j == Nth(S, k)
      <4>1. j \in S /\ j \in Nat /\ i \in Nat /\ Rank(S, j) = Rank(S, i)
        BY <1>5, <3>1, <3>3
      <4> HIDE DEF j, k
      <4>2. ~(j < i) /\ ~(i < j)
        BY <1>1, <1>3, <1>5, <3>1, <4>1, RankTells
      <4> QED BY <4>1, <4>2 DEF j
    <3> HIDE DEF k
    <3>5. new[k] = x BY <1>8, <2>2, <3>2, <3>4
    <3> QED BY <1>9, <3>2, <3>5 DEF Range
  <2> QED BY <1>1, <1>9, <2>1, <2>2 DEF Range
<1>12. IsInjective(new) BY <1>9, <1>10 DEF IsInjective
<1>13. \A k \in 1..m : \E i \in 1..n : k <= i /\ list[i] = new[k] BY <1>8
<1> QED BY <1>2, <1>9, <1>11, <1>12, <1>13 DEF n

\* When nothing is gone the list stays.
LEMMA WithoutNone ==
    ASSUME NEW D, NEW list \in Seq(D), NEW gone, gone \cap Range(list) = {}
    PROVE  Without(list, gone) = list
<1> DEFINE n == Len(list)
           S == {i \in 1..n : list[i] \notin gone}
<1>1. n \in Nat /\ DOMAIN list = 1..n OBVIOUS
<1>2. S = 1..n BY DEF Range
<1>3. Cardinality(1..n) = n /\ IsFiniteSet(1..n) BY <1>1, FS_Interval
<1>4. Without(list, gone) = [k \in 1..n |-> list[Nth(1..n, k)]]
  BY <1>1, <1>2, <1>3 DEF Without
<1> HIDE DEF n, S
<1>5. ASSUME NEW k \in 1..n PROVE Nth(1..n, k) = k
  <2>1. Below(1..n, n) BY <1>1 DEF Below
  <2>2. Nth(1..n, k) \in 1..n /\ Rank(1..n, Nth(1..n, k)) = k
    BY <1>1, <1>3, <2>1, NthIs
  <2>3. ASSUME NEW i \in 1..n PROVE Rank(1..n, i) = i
    <3>1. \A j : j \in UpTo(1..n, i) <=> j \in 1..i BY <1>1 DEF UpTo
    <3>2. UpTo(1..n, i) = 1..i BY <3>1
    <3> QED BY <1>1, <3>2, FS_Interval DEF Rank
  <2> QED BY <2>2, <2>3
<1>6. [k \in 1..n |-> list[Nth(1..n, k)]] = list BY <1>1, <1>5
<1> QED BY <1>4, <1>6

-----------------------------------------------------------------------------
(* The sends: the inductive invariant, in parts                              *)

SendType == [message : Nat, next : Nat, failed : SUBSET Sockets,
             owed : SUBSET Sockets, shrank : BOOLEAN]

\* The list has every open connection once, and no new one.
ListInv ==
    /\ active \in Seq(Sockets) /\ IsInjective(active)
    /\ socket \in [Sockets -> {"new", "open", "closed"}]
    /\ \A c \in Sockets :
         /\ socket[c] = "open" => c \in Range(active)
         /\ socket[c] = "new" => c \notin Range(active) /\ Range(received[c]) = {}

\* A message belongs to one broadcast, and only closed connections fail.
MessageInv ==
    /\ messages \in 0..MaxMessages
    /\ received \in [Sockets -> Seq(1..MaxMessages)]
    /\ sending \in [Writers -> SendType]
    /\ \A c \in Sockets, m \in 1..MaxMessages : m \in Range(received[c]) => m <= messages
    /\ \A w \in Writers :
         /\ sending[w].message <= messages
         /\ Busy(w) => sending[w].next >= 1
         /\ \A c \in sending[w].failed : socket[c] = "closed"
         /\ \A v \in Writers : Busy(w) /\ v # w => sending[v].message # sending[w].message

\* What is in front of the iterator has not got the message yet.
AheadInv ==
    /\ SentOnce
    /\ \A w \in Writers : Busy(w) =>
         \A i \in 1..Len(active) :
            sending[w].next <= i => sending[w].message \notin Range(received[active[i]])

\* Who is owed a turn is in front of the iterator, unless the list has shrunk.
OwedInv ==
    \A w \in Writers : Busy(w) /\ ~sending[w].shrank =>
        \A c \in sending[w].owed :
            \E i \in 1..Len(active) : sending[w].next <= i /\ active[i] = c

SendsInv == ListInv /\ MessageInv /\ AheadInv /\ OwedInv

LEMMA SendsInitInv == SendsInit => SendsInv
<1> SUFFICES ASSUME SendsInit PROVE SendsInv
  OBVIOUS
<1>0. NotSending \in SendType /\ NotSending.message = 0 /\ NotSending.failed = {}
  BY DEF NotSending, SendType
<1>1. \A w \in Writers : sending[w] = NotSending /\ ~Busy(w)
  BY <1>0 DEF SendsInit, Busy
<1>2. \A c \in Sockets : received[c] = <<>> /\ socket[c] = "new"
  BY DEF SendsInit
<1>3. Range(<<>>) = {} /\ IsInjective(<<>>) BY DEF Range, IsInjective
<1>4. ListInv BY <1>2, <1>3 DEF SendsInit, ListInv
<1>5. MessageInv
  BY <1>0, <1>1, <1>2, <1>3, MessagesAssumption DEF SendsInit, MessageInv
<1>6. AheadInv BY <1>1, <1>2, <1>3 DEF AheadInv, SentOnce
<1>7. OwedInv BY <1>1 DEF OwedInv
<1> QED BY <1>4, <1>5, <1>6, <1>7 DEF SendsInv

LEMMA AcceptKeeps ==
    ASSUME SendsInv, NEW c \in Sockets, Accept(c)
    PROVE  SendsInv'
<1>0. /\ active \in Seq(Sockets) /\ IsInjective(active) /\ c \notin Range(active)
      /\ Range(received[c]) = {} /\ socket[c] = "new"
  BY DEF SendsInv, ListInv, Accept
<1>1. /\ active' = Append(active, c) /\ UNCHANGED <<sending, received, messages>>
      /\ socket' = [socket EXCEPT ![c] = "open"]
  BY DEF Accept
<1>2. /\ active' \in Seq(Sockets) /\ IsInjective(active')
      /\ \A x : x \in Range(active') <=> x = c \/ x \in Range(active)
  BY <1>0, <1>1, AppendKeeps
<1>3. /\ Len(active) \in Nat /\ Len(active') = Len(active) + 1
      /\ \A i \in 1..Len(active) : active'[i] = active[i]
      /\ active'[Len(active) + 1] = c
  BY <1>0, <1>1
<1>4. \A d \in Sockets : socket'[d] = IF d = c THEN "open" ELSE socket[d]
  BY <1>1 DEF SendsInv, ListInv
<1>5. ListInv' BY <1>1, <1>2, <1>4 DEF SendsInv, ListInv
<1>6. MessageInv' BY <1>0, <1>1, <1>4 DEF SendsInv, MessageInv, SendType, Busy
<1>7. AheadInv'
  <2>1. ASSUME NEW w \in Writers, Busy(w), NEW i \in 1..Len(active'), sending[w].next <= i
        PROVE  sending[w].message \notin Range(received[active'[i]])
    <3>1. CASE i \in 1..Len(active) BY <1>3, <2>1, <3>1 DEF SendsInv, AheadInv
    <3>2. CASE i = Len(active) + 1 BY <1>0, <1>3, <3>2
    <3> QED BY <1>3, <3>1, <3>2
  <2> QED BY <1>1, <2>1 DEF SendsInv, AheadInv, SentOnce, Busy
<1>8. OwedInv'
  <2>1. ASSUME NEW w \in Writers, Busy(w), ~sending[w].shrank, NEW d \in sending[w].owed
        PROVE  \E i \in 1..Len(active') : sending[w].next <= i /\ active'[i] = d
    <3>1. PICK i \in 1..Len(active) : sending[w].next <= i /\ active[i] = d
      BY <2>1 DEF SendsInv, OwedInv
    <3>2. i \in 1..Len(active') /\ active'[i] = d BY <1>3, <3>1
    <3> QED BY <3>1, <3>2
  <2> QED BY <1>1, <2>1 DEF OwedInv, Busy
<1> QED BY <1>5, <1>6, <1>7, <1>8 DEF SendsInv

LEMMA CloseKeeps ==
    ASSUME SendsInv, NEW c \in Sockets, Close(c)
    PROVE  SendsInv'
<1>1. /\ socket' = [socket EXCEPT ![c] = "closed"]
      /\ UNCHANGED <<active, sending, received, messages>>
  BY DEF Close
<1>2. \A d \in Sockets : socket'[d] = IF d = c THEN "closed" ELSE socket[d]
  BY <1>1 DEF SendsInv, ListInv
<1>3. ListInv' BY <1>1, <1>2 DEF SendsInv, ListInv
<1>4. MessageInv' BY <1>1, <1>2 DEF SendsInv, MessageInv, SendType, Busy
<1>5. AheadInv' /\ OwedInv'
  BY <1>1 DEF SendsInv, AheadInv, OwedInv, SentOnce, Busy
<1> QED BY <1>3, <1>4, <1>5 DEF SendsInv

\* Closed connections are taken off the list; a loop that waits either ends or
\* keeps its place, and knows of it if the list got shorter.
LEMMA RemovalKeeps ==
    ASSUME SendsInv, NEW gone, \A c \in Sockets : c \in gone => socket[c] = "closed",
           active' = Without(active, gone),
           UNCHANGED <<socket, received, messages>>,
           sending' \in [Writers -> SendType],
           \A w \in Writers :
              \/ sending'[w] = NotSending
              \/ /\ sending'[w].message = sending[w].message
                 /\ sending'[w].next = sending[w].next
                 /\ sending'[w].failed = sending[w].failed
                 /\ \A d : d \in sending'[w].owed => d \in sending[w].owed
                 /\ \/ ~Busy(w)
                    \/ sending'[w].shrank
                    \/ ~sending[w].shrank /\ gone \cap Range(active) = {}
    PROVE  SendsInv'
<1>0. active \in Seq(Sockets) /\ IsInjective(active)
  BY DEF SendsInv, ListInv
<1>1. /\ active' \in Seq(Sockets) /\ IsInjective(active')
      /\ \A x : x \in Range(active') <=> x \in Range(active) /\ x \notin gone
      /\ \A k \in 1..Len(active') : \E i \in 1..Len(active) :
            k <= i /\ active[i] = active'[k]
  <2> DEFINE new == Without(active, gone)
  <2>1. /\ new \in Seq(Sockets) /\ IsInjective(new)
        /\ \A x : x \in Range(new) <=> x \in Range(active) /\ x \notin gone
        /\ \A k \in 1..Len(new) : \E i \in 1..Len(active) :
              k <= i /\ active[i] = new[k]
    BY <1>0, WithoutIs
  <2>2. active' = new OBVIOUS
  <2> HIDE DEF new
  <2> QED BY <2>1, <2>2, Zenon
<1>2. NotSending.message = 0 /\ NotSending.failed = {} BY DEF NotSending
<1>3. ListInv' BY <1>1 DEF SendsInv, ListInv
<1>4. \A w \in Writers : /\ sending[w].next \in Nat /\ sending'[w].next \in Nat
                         /\ sending[w].message \in Nat
  BY DEF SendsInv, MessageInv, SendType
<1>5. \A w \in Writers : sending'[w].message # 0 =>
         /\ Busy(w)
         /\ sending'[w].message = sending[w].message
         /\ sending'[w].next = sending[w].next
         /\ \A d : d \in sending'[w].owed => d \in sending[w].owed
         /\ \/ sending'[w].shrank
            \/ ~sending[w].shrank /\ gone \cap Range(active) = {}
  BY <1>2 DEF Busy
<1>6. MessageInv'
  <2>1. \A w \in Writers : sending'[w].message = 0 \/ sending'[w].message = sending[w].message
    BY <1>5
  <2>2. messages \in Nat BY DEF SendsInv, MessageInv
  <2>3. \A w \in Writers : sending'[w].message <= messages'
    BY <1>4, <2>1, <2>2 DEF SendsInv, MessageInv
  <2>4. \A w \in Writers, v \in Writers :
           sending'[w].message # 0 /\ v # w => sending'[v].message # sending'[w].message
    BY <1>5, <2>1 DEF SendsInv, MessageInv, Busy
  <2>5. \A w \in Writers : \A c \in sending'[w].failed : socket'[c] = "closed"
    BY <1>2 DEF SendsInv, MessageInv
  <2>6. \A w \in Writers : sending'[w].message # 0 => sending'[w].next >= 1
    BY <1>5 DEF SendsInv, MessageInv
  <2> QED BY <2>3, <2>4, <2>5, <2>6 DEF SendsInv, MessageInv, Busy
<1>7. AheadInv'
  <2>1. ASSUME NEW w \in Writers, sending'[w].message # 0, NEW k \in 1..Len(active'),
               sending'[w].next <= k
        PROVE  sending'[w].message \notin Range(received[active'[k]])
    <3>1. PICK i \in 1..Len(active) : k <= i /\ active[i] = active'[k] BY <1>1
    <3>2. sending[w].next <= i BY <1>4, <1>5, <2>1, <3>1
    <3>3. sending[w].message \notin Range(received[active[i]])
      BY <1>5, <2>1, <3>2 DEF SendsInv, AheadInv
    <3> QED BY <1>5, <2>1, <3>1, <3>3
  <2> QED BY <2>1 DEF SendsInv, AheadInv, SentOnce, Busy
<1>8. OwedInv'
  <2>1. ASSUME NEW w \in Writers, sending'[w].message # 0, ~sending'[w].shrank,
               NEW d \in sending'[w].owed
        PROVE  \E i \in 1..Len(active') : sending'[w].next <= i /\ active'[i] = d
    <3>1. Busy(w) /\ ~sending[w].shrank /\ d \in sending[w].owed BY <1>5, <2>1
    <3>2. active' = active BY <1>0, <1>5, <2>1, WithoutNone
    <3>3. PICK i \in 1..Len(active) : sending[w].next <= i /\ active[i] = d
      BY <3>1 DEF SendsInv, OwedInv
    <3> QED BY <1>5, <2>1, <3>2, <3>3
  <2> QED BY <2>1 DEF OwedInv, Busy
<1> QED BY <1>3, <1>6, <1>7, <1>8 DEF SendsInv

LEMMA DisconnectedKeeps ==
    ASSUME SendsInv, NEW c \in Sockets, Disconnected(c)
    PROVE  SendsInv'
<1>1. /\ socket[c] = "closed" /\ active' = Without(active, {c})
      /\ UNCHANGED <<socket, received, messages>>
  BY DEF Disconnected
<1>2. sending \in [Writers -> SendType] BY DEF SendsInv, MessageInv
<1>3. ASSUME NEW w \in Writers
      PROVE  /\ sending'[w] \in SendType
             /\ sending'[w].message = sending[w].message
             /\ sending'[w].next = sending[w].next
             /\ sending'[w].failed = sending[w].failed
             /\ \A d : d \in sending'[w].owed => d \in sending[w].owed
             /\ ~Busy(w) \/ sending'[w].shrank
  <2>1. sending[w] \in SendType BY <1>2
  <2>2. CASE Busy(w)
    <3>1. sending'[w] = [sending[w] EXCEPT !.owed = @ \ {c}, !.shrank = TRUE]
      BY <2>2 DEF Disconnected
    <3> QED BY <2>1, <3>1 DEF SendType
  <2>3. CASE ~Busy(w)
    <3>1. sending'[w] = sending[w] BY <2>3 DEF Disconnected
    <3> QED BY <2>1, <2>3, <3>1
  <2> QED BY <2>2, <2>3
<1>4. sending' \in [Writers -> SendType]
  <2>1. sending' = [w \in Writers |-> sending'[w]] BY DEF Disconnected
  <2> QED BY <1>3, <2>1
<1> QED BY <1>1, <1>3, <1>4, RemovalKeeps

LEMMA FinishKeeps ==
    ASSUME SendsInv, NEW w \in Writers, Finish(w)
    PROVE  SendsInv'
<1> DEFINE gone == sending[w].failed \cap Range(active)
<1>1. /\ active' = Without(active, gone) /\ sending' = Shrunk(w, gone)
      /\ UNCHANGED <<socket, received, messages>>
  BY DEF Finish
<1>2. \A c \in Sockets : c \in gone => socket[c] = "closed"
  BY DEF SendsInv, MessageInv
<1>3. gone \cap Range(active) = gone OBVIOUS
<1> HIDE DEF gone
<1>4. sending \in [Writers -> SendType] BY DEF SendsInv, MessageInv
<1>5. NotSending \in SendType BY DEF NotSending, SendType
<1>6. ASSUME NEW v \in Writers, v # w
      PROVE  /\ sending'[v] \in SendType
             /\ sending'[v].message = sending[v].message
             /\ sending'[v].next = sending[v].next
             /\ sending'[v].failed = sending[v].failed
             /\ \A d : d \in sending'[v].owed => d \in sending[v].owed
             /\ \/ ~Busy(v)
                \/ sending'[v].shrank
                \/ ~sending[v].shrank /\ gone = {}
  <2>1. sending[v] \in SendType BY <1>4
  <2>2. sending'[v] = [sending[v] EXCEPT !.owed = @ \ gone,
                                         !.shrank = @ \/ (gone # {} /\ Busy(v))]
    BY <1>1, <1>6 DEF Shrunk
  <2>3. /\ sending'[v].message = sending[v].message
        /\ sending'[v].next = sending[v].next
        /\ sending'[v].failed = sending[v].failed
        /\ sending'[v].owed = sending[v].owed \ gone
        /\ sending'[v].shrank = (sending[v].shrank \/ (gone # {} /\ Busy(v)))
    BY <2>1, <2>2 DEF SendType
  <2>4. sending'[v] \in SendType BY <2>1, <2>2, <2>3 DEF SendType
  <2>5. \/ ~Busy(v) \/ sending'[v].shrank
        \/ ~sending[v].shrank /\ gone = {}
    BY <2>3, Zenon
  <2> QED BY <2>3, <2>4, <2>5
<1>7. sending'[w] = NotSending BY <1>1 DEF Shrunk
<1>8. sending' \in [Writers -> SendType]
  <2>1. \A v \in Writers : sending'[v] \in SendType BY <1>5, <1>6, <1>7
  <2>2. sending' = [v \in Writers |-> sending'[v]] BY <1>1 DEF Shrunk
  <2> QED BY <2>1, <2>2
<1> QED BY <1>1, <1>2, <1>3, <1>6, <1>7, <1>8, RemovalKeeps

\* A turn of w's loop s: who gets the message did not have it, as the iterator
\* moves past.
LEMMA TurnKeeps ==
    ASSUME SendsInv, NEW w \in Writers, NEW s \in SendType,
           s.next \in 1..Len(active), s.message \in 1..MaxMessages,
           messages' \in 0..MaxMessages, messages <= messages', s.message <= messages',
           \A v \in Writers : v # w => sending[v].message # s.message,
           \A d \in s.failed : socket[d] = "closed",
           \A i \in 1..Len(active) :
              s.next <= i => s.message \notin Range(received[active[i]]),
           ~s.shrank => \A d \in s.owed :
              \E i \in 1..Len(active) : s.next <= i /\ active[i] = d,
           UNCHANGED socket, Turn(w, s)
    PROVE  SendsInv'
<1> DEFINE c == active[s.next]
           next == [s EXCEPT !.next = @ + 1, !.owed = @ \ {c},
                             !.failed = IF socket[c] = "open" THEN @ ELSE @ \cup {c}]
<1>1. /\ received' = [received EXCEPT ![c] =
             IF socket[c] = "open" THEN Append(@, s.message) ELSE @]
      /\ sending' = [sending EXCEPT ![w] = next]
      /\ UNCHANGED active
  BY DEF Turn
<1>2. /\ active \in Seq(Sockets) /\ IsInjective(active)
      /\ socket \in [Sockets -> {"new", "open", "closed"}]
      /\ received \in [Sockets -> Seq(1..MaxMessages)]
      /\ sending \in [Writers -> SendType]
      /\ messages \in Nat /\ messages' \in Nat
  BY DEF SendsInv, ListInv, MessageInv
<1>3. c \in Sockets /\ c \in Range(active) /\ s.message \notin Range(received[c])
  BY <1>2 DEF SendType, Range
<1>4. socket[c] # "new" BY <1>3 DEF SendsInv, ListInv
<1>5. /\ s.next \in Nat /\ s.message \in Nat
      /\ \A d : d \in s.owed => d \in Sockets
      /\ \A d : d \in s.failed => d \in Sockets
  BY DEF SendType
<1>6. /\ next.message = s.message /\ next.next = s.next + 1 /\ next.shrank = s.shrank
      /\ next.owed = s.owed \ {c}
      /\ next.failed = IF socket[c] = "open" THEN s.failed ELSE s.failed \cup {c}
      /\ next \in SendType
  <2>1. PICK m \in Nat, n \in Nat, f \in SUBSET Sockets, o \in SUBSET Sockets, h \in BOOLEAN :
           s = [message |-> m, next |-> n, failed |-> f, owed |-> o, shrank |-> h]
    BY DEF SendType
  <2>2. next = [message |-> s.message, next |-> s.next + 1,
                failed |-> IF socket[c] = "open" THEN s.failed ELSE s.failed \cup {c},
                owed |-> s.owed \ {c}, shrank |-> s.shrank]
    <3> DEFINE f2 == IF socket[c] = "open" THEN s.failed ELSE s.failed \cup {c}
               o2 == s.owed \ {c}
               n2 == s.next + 1
    <3>1. next = [s EXCEPT !.next = n2, !.owed = o2, !.failed = f2] OBVIOUS
    <3>2. s.message = m /\ s.shrank = h BY <2>1
    <3> HIDE DEF c, next, n2, o2, f2
    <3> DEFINE one == [s EXCEPT !.next = n2]
               two == [one EXCEPT !.owed = o2]
               three == [two EXCEPT !.failed = f2]
    <3>3. one = [message |-> m, next |-> n2, failed |-> f, owed |-> o, shrank |-> h]
      BY <2>1
    <3>4. two = [message |-> m, next |-> n2, failed |-> f, owed |-> o2, shrank |-> h]
      <4> HIDE DEF one
      <4> QED BY <3>3
    <3>5. three = [message |-> m, next |-> n2, failed |-> f2, owed |-> o2, shrank |-> h]
      <4> HIDE DEF two
      <4> QED BY <3>4
    <3>6. next = three BY <3>1
    <3> HIDE DEF three
    <3> QED BY <3>2, <3>5, <3>6 DEF n2, o2, f2
  <2>3. /\ next.message \in Nat /\ next.next \in Nat /\ next.shrank \in BOOLEAN
        /\ next.owed \in SUBSET Sockets /\ next.failed \in SUBSET Sockets
    <3> HIDE DEF next, c
    <3>1. s.shrank \in BOOLEAN BY DEF SendType
    <3>2. next.owed \in SUBSET Sockets BY <1>5, <2>2
    <3>3. next.failed \in SUBSET Sockets BY <1>3, <1>5, <2>2
    <3> QED BY <1>5, <2>2, <3>1, <3>2, <3>3
  <2> HIDE DEF next, c
  <2> QED BY <2>2, <2>3 DEF SendType
<1>7. /\ sending'[w] = next
      /\ \A v \in Writers : v # w => sending'[v] = sending[v]
      /\ sending' \in [Writers -> SendType]
  BY <1>1, <1>2, <1>6
<1>8. \A d \in Sockets : received'[d] =
         IF d = c /\ socket[c] = "open" THEN Append(received[d], s.message) ELSE received[d]
  BY <1>1, <1>2
<1>9. /\ Append(received[c], s.message) \in Seq(1..MaxMessages)
      /\ \A m : m \in Range(Append(received[c], s.message))
                  <=> m = s.message \/ m \in Range(received[c])
      /\ IsInjective(received[c]) /\ IsInjective(Append(received[c], s.message))
  <2>1. IsInjective(received[c]) BY <1>3 DEF SendsInv, AheadInv, SentOnce
  <2>2. received[c] \in Seq(1..MaxMessages) BY <1>2, <1>3
  <2>3. s.message \notin Range(received[c]) BY <1>3
  <2> DEFINE M == 1..MaxMessages
  <2>7. s.message \in M /\ received[c] \in Seq(M) BY <2>2
  <2> HIDE DEF c, next, M
  <2>4. Append(received[c], s.message) \in Seq(M)
    BY <2>1, <2>3, <2>7, AppendKeeps
  <2>5. IsInjective(Append(received[c], s.message))
    BY <2>1, <2>3, <2>7, AppendKeeps
  <2>6. \A m : m \in Range(Append(received[c], s.message))
                  <=> m = s.message \/ m \in Range(received[c])
    BY <2>1, <2>3, <2>7, AppendKeeps
  <2> QED BY <2>1, <2>4, <2>5, <2>6 DEF M
<1> HIDE DEF c, next
<1>10. \A d \in Sockets : /\ received'[d] \in Seq(1..MaxMessages)
                          /\ \A m : m \in Range(received'[d])
                                => m \in Range(received[d]) \/ (d = c /\ m = s.message)
  <2>1. ASSUME NEW d \in Sockets
        PROVE  /\ received'[d] \in Seq(1..MaxMessages)
               /\ \A m : m \in Range(received'[d])
                    => m \in Range(received[d]) \/ (d = c /\ m = s.message)
    <3>1. CASE d = c /\ socket[c] = "open" BY <1>8, <1>9, <3>1
    <3>2. CASE ~(d = c /\ socket[c] = "open") BY <1>2, <1>8, <3>2
    <3> QED BY <3>1, <3>2
  <2> QED BY <2>1
<1>11. ListInv'
  <2>1. ASSUME NEW d \in Sockets, socket[d] = "new" PROVE Range(received'[d]) = {}
    BY <1>4, <1>8, <2>1 DEF SendsInv, ListInv
  <2> QED BY <1>1, <2>1 DEF SendsInv, ListInv
<1>12. MessageInv'
  <2>1. received' \in [Sockets -> Seq(1..MaxMessages)]
    <3>1. received' = [d \in Sockets |-> received'[d]] BY <1>1, <1>2
    <3> QED BY <1>10, <3>1
  <2>2. ASSUME NEW d \in Sockets, NEW m \in 1..MaxMessages, m \in Range(received'[d])
        PROVE  m <= messages'
    <3>1. CASE m \in Range(received[d])
      <4>1. m <= messages BY <3>1 DEF SendsInv, MessageInv
      <4> QED BY <1>2, <4>1
    <3>2. CASE m = s.message BY <3>2
    <3> QED BY <1>10, <2>2, <3>1, <3>2
  <2>3. ASSUME NEW v \in Writers
        PROVE  /\ sending'[v].message <= messages'
               /\ sending'[v].message # 0 => sending'[v].next >= 1
               /\ \A d \in sending'[v].failed : socket'[d] = "closed"
               /\ \A u \in Writers :
                    sending'[v].message # 0 /\ u # v => sending'[u].message # sending'[v].message
    <3>1. CASE v = w
      <4>1. sending'[v].message <= messages' /\ sending'[v].next >= 1
        BY <1>2, <1>5, <1>6, <1>7, <3>1
      <4>2. \A d \in sending'[v].failed : socket'[d] = "closed"
        BY <1>2, <1>3, <1>4, <1>6, <1>7, <3>1
      <4>3. \A u \in Writers : u # v => sending'[u].message # sending'[v].message
        BY <1>6, <1>7, <3>1
      <4> QED BY <4>1, <4>2, <4>3
    <3>2. CASE v # w
      <4>1. sending'[v] = sending[v] BY <1>7, <3>2
      <4>2. sending[v].message <= messages /\ sending[v].message \in Nat
        BY <1>2 DEF SendsInv, MessageInv, SendType
      <4>3. sending'[v].message <= messages' BY <1>2, <4>1, <4>2
      <4>4. /\ sending'[v].message # 0 => sending'[v].next >= 1
            /\ \A d \in sending'[v].failed : socket'[d] = "closed"
        BY <4>1 DEF SendsInv, MessageInv, Busy
      <4>5. ASSUME NEW u \in Writers, sending'[v].message # 0, u # v
            PROVE  sending'[u].message # sending'[v].message
        <5>1. CASE u = w BY <1>6, <1>7, <3>2, <4>1, <5>1
        <5>2. CASE u # w BY <1>7, <4>1, <4>5, <5>2 DEF SendsInv, MessageInv, Busy
        <5> QED BY <5>1, <5>2
      <4> QED BY <4>3, <4>4, <4>5
    <3> QED BY <3>1, <3>2
  <2> QED BY <1>7, <2>1, <2>2, <2>3 DEF MessageInv, Busy
<1>13. AheadInv'
  <2>1. \A d \in Sockets : IsInjective(received'[d])
    BY <1>8, <1>9 DEF SendsInv, AheadInv, SentOnce
  <2>2. \A i \in 1..Len(active) : active[i] \in Sockets BY <1>2
  <2>3. ASSUME NEW v \in Writers, sending'[v].message # 0, NEW i \in 1..Len(active),
               sending'[v].next <= i
        PROVE  sending'[v].message \notin Range(received'[active[i]])
    <3>1. CASE v = w
      <4>1. s.next + 1 <= i /\ s.next <= i BY <1>5, <1>6, <1>7, <2>3, <3>1
      <4>2. active[i] # c
        <5>1. s.next \in DOMAIN active /\ i \in DOMAIN active /\ i # s.next
          BY <1>2, <1>5, <4>1
        <5> QED BY <1>2, <5>1 DEF IsInjective, c
      <4> QED BY <1>6, <1>7, <1>10, <2>2, <3>1, <4>1, <4>2
    <3>2. CASE v # w
      <4>1. sending'[v] = sending[v] BY <1>7, <3>2
      <4>2. sending[v].message \notin Range(received[active[i]])
        BY <2>3, <4>1 DEF SendsInv, AheadInv, Busy
      <4> QED BY <1>10, <2>2, <3>2, <4>1, <4>2
    <3> QED BY <3>1, <3>2
  <2> QED BY <1>1, <2>1, <2>3 DEF AheadInv, SentOnce, Busy
<1>14. OwedInv'
  <2>1. ASSUME NEW v \in Writers, sending'[v].message # 0, ~sending'[v].shrank,
               NEW d \in sending'[v].owed
        PROVE  \E i \in 1..Len(active) : sending'[v].next <= i /\ active[i] = d
    <3>1. CASE v = w
      <4>1. ~s.shrank /\ d \in s.owed /\ d # c BY <1>6, <1>7, <2>1, <3>1
      <4>2. PICK i \in 1..Len(active) : s.next <= i /\ active[i] = d BY <4>1
      <4>3. i # s.next BY <4>1, <4>2 DEF c
      <4>4. s.next + 1 <= i BY <1>5, <4>2, <4>3
      <4> QED BY <1>6, <1>7, <3>1, <4>2, <4>4
    <3>2. CASE v # w
      <4>1. sending'[v] = sending[v] BY <1>7, <3>2
      <4> QED BY <2>1, <4>1 DEF SendsInv, OwedInv, Busy
    <3> QED BY <3>1, <3>2
  <2> QED BY <1>1, <2>1 DEF OwedInv, Busy
<1> QED BY <1>11, <1>12, <1>13, <1>14 DEF SendsInv

LEMMA SendKeeps ==
    ASSUME SendsInv, NEW w \in Writers, Send(w)
    PROVE  SendsInv'
<1> DEFINE s == sending[w]
<1>1. s \in SendType /\ Busy(w) /\ messages \in 0..MaxMessages
  BY DEF SendsInv, MessageInv, Send
<1>2. s.message \in Nat /\ s.next \in Nat /\ s.message # 0 BY <1>1 DEF SendType, Busy
<1>3. s.message <= messages /\ s.next >= 1 BY <1>1 DEF SendsInv, MessageInv
<1>4. messages \in Nat /\ MaxMessages \in Nat /\ Len(active) \in Nat
  BY <1>1, MessagesAssumption DEF SendsInv, ListInv
<1>5. s.next \in 1..Len(active) BY <1>2, <1>3, <1>4 DEF Send
<1>6. s.message \in 1..MaxMessages BY <1>1, <1>2, <1>3, <1>4
<1>7. /\ messages' \in 0..MaxMessages /\ messages <= messages' /\ s.message <= messages'
      /\ UNCHANGED socket /\ Turn(w, s)
  BY <1>1, <1>3, <1>4 DEF Send
<1>8. /\ \A v \in Writers : v # w => sending[v].message # s.message
      /\ \A d \in s.failed : socket[d] = "closed"
  BY <1>1 DEF SendsInv, MessageInv
<1>9. \A i \in 1..Len(active) : s.next <= i => s.message \notin Range(received[active[i]])
  BY <1>1 DEF SendsInv, AheadInv
<1>10. ~s.shrank => \A d \in s.owed : \E i \in 1..Len(active) : s.next <= i /\ active[i] = d
  BY <1>1 DEF SendsInv, OwedInv
<1> HIDE DEF s
<1> QED BY <1>1, <1>5, <1>6, <1>7, <1>8, <1>9, <1>10, TurnKeeps

LEMMA StartBroadcastKeeps ==
    ASSUME SendsInv, NEW w \in Writers, StartBroadcast(w)
    PROVE  SendsInv'
<1>1. /\ messages' = messages + 1 /\ messages < MaxMessages /\ UNCHANGED socket
      /\ messages \in 0..MaxMessages /\ MaxMessages \in Nat
  BY MessagesAssumption DEF SendsInv, MessageInv, StartBroadcast
<1>2. messages' \in 0..MaxMessages /\ messages <= messages' /\ messages' \in Nat
  BY <1>1
<1>3. /\ active \in Seq(Sockets) /\ sending \in [Writers -> SendType]
      /\ received \in [Sockets -> Seq(1..MaxMessages)]
  BY DEF SendsInv, ListInv, MessageInv
<1>4. CASE active = <<>>
  <2>1. UNCHANGED <<active, socket, sending, received>> BY <1>4 DEF StartBroadcast
  <2>2. \A c \in Sockets, m \in 1..MaxMessages : m \in Range(received[c]) => m <= messages'
    BY <1>1 DEF SendsInv, MessageInv
  <2>3. \A v \in Writers : sending[v].message <= messages'
    <3>1. \A v \in Writers : sending[v].message \in Nat BY <1>3 DEF SendType
    <3> QED BY <1>1, <3>1 DEF SendsInv, MessageInv
  <2>4. MessageInv' BY <1>2, <2>1, <2>2, <2>3 DEF SendsInv, MessageInv, Busy
  <2> QED BY <2>1, <2>4 DEF SendsInv, ListInv, AheadInv, OwedInv, SentOnce, Busy
<1>5. CASE active # <<>>
  <2> DEFINE s == [message |-> messages', next |-> 1, failed |-> {},
                   owed |-> Range(active), shrank |-> FALSE]
  <2>1. Turn(w, s) BY <1>5 DEF StartBroadcast
  <2>2. \A d : d \in Range(active) => d \in Sockets BY <1>3 DEF Range
  <2>3. s \in SendType BY <1>2, <2>2 DEF SendType
  <2>4. Len(active) \in Nat /\ Len(active) # 0 BY <1>3, <1>5
  <2>5. s.next \in 1..Len(active) BY <2>4
  <2>6. s.message \in 1..MaxMessages /\ s.message <= messages' BY <1>1
  <2>7. \A v \in Writers : v # w => sending[v].message # s.message
    <3>1. \A v \in Writers : sending[v].message \in Nat BY <1>3 DEF SendType
    <3> QED BY <1>1, <3>1 DEF SendsInv, MessageInv
  <2>8. \A d \in s.failed : socket[d] = "closed" OBVIOUS
  <2>9. \A i \in 1..Len(active) : s.message \notin Range(received[active[i]])
    <3>1. \A i \in 1..Len(active) : active[i] \in Sockets BY <1>3
    <3>2. \A c \in Sockets : s.message \notin Range(received[c])
      BY <1>1, <2>6 DEF SendsInv, MessageInv
    <3> QED BY <3>1, <3>2
  <2>10. \A d \in s.owed : \E i \in 1..Len(active) : s.next <= i /\ active[i] = d
    BY <1>3 DEF Range
  <2> HIDE DEF s
  <2> QED BY <1>1, <1>2, <2>1, <2>3, <2>5, <2>6, <2>7, <2>8, <2>9, <2>10, TurnKeeps
<1> QED BY <1>4, <1>5

LEMMA AbandonKeeps ==
    ASSUME SendsInv, NEW w \in Writers, Abandon(w)
    PROVE  SendsInv'
<1>1. /\ sending' = [sending EXCEPT ![w] = NotSending]
      /\ UNCHANGED <<active, socket, received, messages>>
  BY DEF Abandon
<1>2. /\ sending \in [Writers -> SendType] /\ messages \in 0..MaxMessages
      /\ MaxMessages \in Nat
  BY MessagesAssumption DEF SendsInv, MessageInv
<1>3. /\ NotSending \in SendType /\ NotSending.message = 0 /\ NotSending.failed = {}
  BY DEF NotSending, SendType
<1>4. /\ sending' \in [Writers -> SendType] /\ sending'[w] = NotSending
      /\ \A v \in Writers : v # w => sending'[v] = sending[v]
  BY <1>1, <1>2, <1>3
<1>5. ListInv' BY <1>1 DEF SendsInv, ListInv
<1>6. MessageInv'
  <2>1. ASSUME NEW v \in Writers
        PROVE  /\ sending'[v].message <= messages
               /\ (Busy(v))' => Busy(v) /\ v # w /\ sending'[v].next >= 1
               /\ \A c \in sending'[v].failed : socket[c] = "closed"
    <3>1. CASE v = w BY <1>2, <1>3, <1>4, <3>1 DEF Busy
    <3>2. CASE v # w BY <1>4, <3>2 DEF SendsInv, MessageInv, Busy
    <3> QED BY <3>1, <3>2
  <2>2. ASSUME NEW v \in Writers, NEW u \in Writers, (Busy(v))', u # v
        PROVE  sending'[u].message # sending'[v].message
    <3>1. v # w /\ Busy(v) BY <2>1, <2>2
    <3>2. CASE u = w BY <1>3, <1>4, <3>1, <3>2 DEF Busy
    <3>3. CASE u # w BY <1>4, <2>2, <3>1, <3>3 DEF SendsInv, MessageInv
    <3> QED BY <3>2, <3>3
  <2> QED BY <1>1, <1>4, <2>1, <2>2 DEF SendsInv, MessageInv
<1>7. \A v \in Writers : (Busy(v))' => Busy(v) /\ sending'[v] = sending[v]
  <2>1. ~(Busy(w))' BY <1>3, <1>4 DEF Busy
  <2> QED BY <1>4, <2>1 DEF Busy
<1>8. AheadInv' BY <1>1, <1>7 DEF SendsInv, AheadInv, SentOnce
<1>9. OwedInv' BY <1>1, <1>7 DEF SendsInv, OwedInv
<1> QED BY <1>5, <1>6, <1>8, <1>9 DEF SendsInv

\* Every step of the sends keeps the invariant.
LEMMA SendsStep == SendsInv /\ [SendsNext]_sendVars => SendsInv'
<1> SUFFICES ASSUME SendsInv, [SendsNext]_sendVars PROVE SendsInv'
  OBVIOUS
<1>1. ASSUME NEW c \in Sockets, Accept(c) PROVE SendsInv' BY <1>1, AcceptKeeps
<1>2. ASSUME NEW c \in Sockets, Close(c) PROVE SendsInv' BY <1>2, CloseKeeps
<1>3. ASSUME NEW c \in Sockets, Disconnected(c) PROVE SendsInv'
  BY <1>3, DisconnectedKeeps
<1>4. ASSUME NEW w \in Writers, StartBroadcast(w) PROVE SendsInv'
  BY <1>4, StartBroadcastKeeps
<1>5. ASSUME NEW w \in Writers, Send(w) PROVE SendsInv' BY <1>5, SendKeeps
<1>6. ASSUME NEW w \in Writers, Finish(w) PROVE SendsInv' BY <1>6, FinishKeeps
<1>7. ASSUME NEW w \in Writers, Abandon(w) PROVE SendsInv' BY <1>7, AbandonKeeps
<1>8. CASE UNCHANGED sendVars
  BY <1>8 DEF sendVars, SendsInv, ListInv, MessageInv, AheadInv, OwedInv, SentOnce, Busy
<1> QED BY <1>1, <1>2, <1>3, <1>4, <1>5, <1>6, <1>7, <1>8 DEF SendsNext

\* What a client receives, it receives last, and it is a broadcast; nobody opens
\* a connection but by being accepted.
Received(c) == received'[c] # <<>> /\ Last(received'[c]) \in 1..messages'

LEMMA SendsGive ==
    ASSUME SendsInv, [SendsNext]_sendVars, NEW c \in Sockets
    PROVE  /\ Receives(c) => Received(c)
           /\ socket'[c] = "open" => socket[c] = "open" \/ Accepted(c)
<1>1. /\ received' \in [Sockets -> Seq(1..MaxMessages)] /\ messages' \in 0..MaxMessages
      /\ \A d \in Sockets, m \in 1..MaxMessages : m \in Range(received'[d]) => m <= messages'
  BY SendsStep DEF SendsInv, MessageInv
<1>2. received \in [Sockets -> Seq(1..MaxMessages)] /\ active \in Seq(Sockets)
      /\ socket \in [Sockets -> {"new", "open", "closed"}]
  BY DEF SendsInv, ListInv, MessageInv
<1>3. ASSUME NEW w \in Writers, NEW s, s.next \in 1..Len(active), Turn(w, s), Receives(c)
      PROVE  received'[c] # <<>>
  <2> DEFINE d == active[s.next]
  <2>1. d \in Sockets BY <1>2, <1>3
  <2>2. received' = [received EXCEPT ![d] =
             IF socket[d] = "open" THEN Append(@, s.message) ELSE @]
    BY <1>3 DEF Turn
  <2> HIDE DEF d
  <2>3. c = d /\ received'[c] = Append(received[c], s.message)
    BY <1>2, <1>3, <2>1, <2>2 DEF Receives
  <2>4. received[c] \in Seq(1..MaxMessages) BY <1>2
  <2>5. Len(received'[c]) = Len(received[c]) + 1 /\ Len(received[c]) \in Nat
    BY <2>3, <2>4
  <2> QED BY <2>5
<1>4. ASSUME Receives(c) PROVE received'[c] # <<>>
  <2>1. PICK w \in Writers : StartBroadcast(w) \/ Send(w)
    BY <1>4 DEF Receives, SendsNext, sendVars, Accept, Close, Disconnected, Finish, Abandon
  <2>2. CASE Send(w)
    <3>1. sending[w].next \in 1..Len(active)
      BY <1>2, <2>2 DEF Send, SendsInv, MessageInv, SendType
    <3> QED BY <1>3, <1>4, <2>2, <3>1 DEF Send
  <2>3. CASE StartBroadcast(w)
    <3> DEFINE s == [message |-> messages', next |-> 1, failed |-> {},
                     owed |-> Range(active), shrank |-> FALSE]
    <3>1. active # <<>> /\ Turn(w, s) BY <1>4, <2>3 DEF StartBroadcast, Receives
    <3>2. s.next \in 1..Len(active) BY <1>2, <3>1
    <3> HIDE DEF s
    <3> QED BY <1>3, <1>4, <3>1, <3>2
  <2> QED BY <2>1, <2>2, <2>3
<1>5. ASSUME Receives(c) PROVE Received(c)
  <2> DEFINE q == received'[c]
  <2>1. q # <<>> /\ q \in Seq(1..MaxMessages) BY <1>1, <1>4, <1>5
  <2> HIDE DEF q
  <2>2. Last(q) = q[Len(q)] BY DEF Last
  <2>3. Len(q) \in 1..Len(q) /\ DOMAIN q = 1..Len(q) /\ q[Len(q)] \in 1..MaxMessages
    <3>1. Len(q) \in Nat /\ Len(q) # 0 BY <2>1
    <3> DEFINE D == 1..MaxMessages
    <3>2. DOMAIN q = 1..Len(q) /\ \A i \in 1..Len(q) : q[i] \in D
      <4>1. q \in Seq(D) BY <2>1
      <4> HIDE DEF D
      <4> QED BY <4>1
    <3>3. Len(q) \in 1..Len(q) BY <3>1
    <3> QED BY <3>2, <3>3
  <2>4. Last(q) \in Range(q) BY <2>2, <2>3 DEF Range
  <2>5. Last(q) \in 1..MaxMessages /\ Last(q) <= messages'
    BY <1>1, <2>2, <2>3, <2>4 DEF q
  <2> QED BY <1>1, <2>1, <2>5 DEF Received, q
<1>6. ASSUME socket'[c] = "open", socket[c] # "open" PROVE Accepted(c)
  <2>1. ASSUME NEW d \in Sockets, Accept(d) PROVE Accepted(c)
    BY <1>2, <1>6, <2>1 DEF Accept, Accepted
  <2>2. ASSUME NEW d \in Sockets, Close(d) PROVE FALSE BY <1>2, <1>6, <2>2 DEF Close
  <2> QED
    BY <1>6, <2>1, <2>2 DEF SendsNext, sendVars, Disconnected, StartBroadcast, Send,
                            Finish, Abandon
<1> QED BY <1>5, <1>6

-----------------------------------------------------------------------------
(* The dashboards                                                            *)

\* {**g, **f}, key by key.
LEMMA OverIs ==
    ASSUME NEW f, NEW g, NEW k
    PROVE  Get(Over(f, g), k) = IF k \in DOMAIN f THEN f[k] ELSE Get(g, k)
BY DEF Over, Get

\* A payload is completed with every key of the cache that is preserved, and
\* loses no program name.
LEMMA CompletedIs ==
    ASSUME NEW payload
    PROVE  /\ \A k \in Kept : k \in DOMAIN cache => k \in DOMAIN Completed(payload)
           /\ Get(cache, "program") # None => Get(Completed(payload), "program") # None
<1> DEFINE full == Over(payload, Restricted(cache, Preserved))
<1>1. /\ DOMAIN full = DOMAIN payload \cup (DOMAIN cache \cap Preserved)
      /\ Preserved = Kept
  BY DEF Over, Restricted, Preserved, Kept
<1> HIDE DEF full
<1>2. CASE Get(full, "program") = None /\ Get(cache, "program") # None
  <2>1. Completed(payload) = [full EXCEPT !["program"] = cache["program"]]
    BY <1>2 DEF Completed, full
  <2>2. "program" \in DOMAIN cache /\ cache["program"] # None BY <1>2 DEF Get
  <2>3. DOMAIN Completed(payload) = DOMAIN full /\ "program" \in DOMAIN full
    BY <1>1, <2>1, <2>2 DEF Kept
  <2>4. Completed(payload)["program"] = cache["program"] BY <2>1, <2>3
  <2> QED BY <1>1, <2>2, <2>3, <2>4 DEF Get
<1>3. CASE ~(Get(full, "program") = None /\ Get(cache, "program") # None)
  <2>1. Completed(payload) = full BY <1>3 DEF Completed, full
  <2> QED BY <1>1, <1>3, <2>1 DEF Get
<1> QED BY <1>2, <1>3

\* The newest broadcast carries the cache, and no older one has a kept key that
\* the cache has not.
ContentsInv ==
    /\ \E S : contents \in Seq(S)
    /\ Len(contents) = messages
    /\ messages # 0 => contents[messages] = cache
    /\ \A m \in 1..messages, k \in Kept : k \in DOMAIN contents[m] => k \in DOMAIN cache

\* No dashboard shows a kept key that the cache has not.
ShownInv ==
    /\ \A c \in Sockets : heard[c] \in 0..messages
    /\ \A c \in Sockets, k \in Kept : Get(views[c], k) # None => k \in DOMAIN cache

ViewsInv == ContentsInv /\ ShownInv /\ ViewsFollow

ViewsStepped ==
    /\ ViewsInv'
    /\ Get(cache, "program") # None => Get(cache', "program") # None

LEMMA ViewsInitInv == SocketsInit => ViewsInv
<1> SUFFICES ASSUME SocketsInit PROVE ViewsInv
  OBVIOUS
<1>1. /\ contents = <<>> /\ messages = 0 /\ cache = Empty
      /\ views = [c \in Sockets |-> Empty] /\ heard = [c \in Sockets |-> 0]
      /\ \A c \in Sockets : socket[c] = "new"
  BY DEF SocketsInit, Init, SendsInit
<1>2. contents \in Seq({}) /\ Len(contents) = 0 BY <1>1
<1>3. \A k : Get(Empty, k) = None BY DEF Get, Empty
<1>4. ContentsInv BY <1>1, <1>2 DEF ContentsInv
<1>5. ShownInv BY <1>1, <1>3 DEF ShownInv
<1>6. ViewsFollow BY <1>1 DEF ViewsFollow, UpToDate
<1> QED BY <1>4, <1>5, <1>6 DEF ViewsInv

\* A step of the cache that is no broadcast: writers get on, the machine changes,
\* sends go on, clients come and go.
LEMMA QuietKeeps ==
    ASSUME ViewsInv, SendsInv, UNCHANGED <<cache, contents, messages>>
    PROVE  ContentsInv' /\ messages' \in Nat /\ messages <= messages'
<1>1. messages \in Nat BY MessagesAssumption DEF SendsInv, MessageInv
<1>2. ContentsInv' BY DEF ViewsInv, ContentsInv
<1> QED BY <1>1, <1>2

\* A broadcast: its payload has what the cache had.
LEMMA WriteKeeps ==
    ASSUME ViewsInv, SendsInv, NEW payload, cache' = Completed(payload),
           messages' = messages + 1, contents' = Append(contents, cache')
    PROVE  ContentsInv' /\ messages' \in Nat /\ messages <= messages'
<1>1. messages \in Nat BY MessagesAssumption DEF SendsInv, MessageInv
<1>2. PICK S : contents \in Seq(S) BY DEF ViewsInv, ContentsInv
<1>3. Len(contents) = messages BY DEF ViewsInv, ContentsInv
<1>4. /\ contents' \in Seq(S \cup {cache'}) /\ Len(contents') = messages + 1
      /\ contents'[messages + 1] = cache'
      /\ \A m \in 1..messages : contents'[m] = contents[m]
  <2>1. contents \in Seq(S \cup {cache'}) BY <1>2
  <2> QED BY <1>1, <1>3, <2>1
<1>5. \A k \in Kept : k \in DOMAIN cache => k \in DOMAIN cache' BY CompletedIs
<1>6. ASSUME NEW m \in 1..messages', NEW k \in Kept, k \in DOMAIN contents'[m]
      PROVE  k \in DOMAIN cache'
  <2>1. CASE m = messages + 1 BY <1>4, <1>6, <2>1
  <2>2. CASE m # messages + 1
    <3>1. m \in 1..messages BY <1>1, <2>2
    <3> QED BY <1>4, <1>5, <1>6, <3>1 DEF ViewsInv, ContentsInv
  <2> QED BY <2>1, <2>2
<1>7. ContentsInv' BY <1>4, <1>6 DEF ContentsInv
<1> QED BY <1>1, <1>7

\* Dashboards follow the broadcasts whether the step is one or not: kept keys
\* stay in the cache, and only a broadcast changes what they are.
LEMMA DashboardsKeep ==
    ASSUME ViewsInv, SendsInv, [SendsNext]_sendVars, Show, ContentsInv',
           messages' \in Nat, messages <= messages',
           \A k \in Kept : k \in DOMAIN cache => k \in DOMAIN cache',
           UNCHANGED cache \/ (messages' = messages + 1 /\ UNCHANGED socket)
    PROVE  ShownInv' /\ ViewsFollow'
<1>1. /\ heard' = [c \in Sockets |-> IF Accepted(c) THEN messages
                                      ELSE IF Receives(c) THEN Last(received'[c])
                                      ELSE heard[c]]
      /\ views' = [c \in Sockets |-> IF Accepted(c) THEN Snapshot
                                      ELSE IF Receives(c) THEN Over(contents'[heard'[c]], views[c])
                                      ELSE views[c]]
  BY DEF Show
<1>2. \A c \in Sockets : /\ Receives(c) => Received(c)
                         /\ socket'[c] = "open" => socket[c] = "open" \/ Accepted(c)
  BY SendsGive
<1>3. messages \in Nat BY MessagesAssumption DEF SendsInv, MessageInv
<1> DEFINE Follows(c, k) == /\ heard'[c] \in 0..messages'
                            /\ Get(views'[c], k) # None => k \in DOMAIN cache'
                            /\ (UpToDate(c))' => Get(views'[c], k) = Get(cache', k)
<1>4. ASSUME NEW c \in Sockets, NEW k \in Kept PROVE Follows(c, k)
  <2>0. /\ Get(views[c], k) # None => k \in DOMAIN cache /\ k \in DOMAIN cache'
        /\ heard[c] \in 0..messages
    BY DEF ViewsInv, ShownInv
  <2>1. CASE Accepted(c)
    <3>1. cache' = cache BY <2>1 DEF Accepted
    <3>2. heard'[c] = messages /\ views'[c] = Snapshot BY <1>1, <2>1
    <3> DEFINE row == [online |-> FALSE, program |-> None]
    <3>3. Get(row, k) = None BY DEF Get, Kept
    <3>4. Snapshot = Over(cache, row) BY DEF Snapshot
    <3> HIDE DEF row
    <3>5. Get(Over(cache, row), k) = IF k \in DOMAIN cache THEN cache[k] ELSE Get(row, k)
      BY OverIs
    <3>6. Get(Snapshot, k) = Get(cache, k) BY <3>3, <3>4, <3>5 DEF Get
    <3> QED BY <1>3, <3>1, <3>2, <3>6 DEF Get
  <2>2. CASE ~Accepted(c) /\ Receives(c)
    <3> DEFINE m == Last(received'[c])
               new == contents'[m]
    <3>1. m \in 1..messages' BY <1>2, <2>2 DEF Received
    <3>2. heard'[c] = m /\ views'[c] = Over(new, views[c]) BY <1>1, <2>2
    <3>3. k \in DOMAIN new => k \in DOMAIN cache' BY <3>1 DEF ContentsInv
    <3>4. m = messages' => new = cache' BY <3>1 DEF ContentsInv
    <3> HIDE DEF m, new
    <3>5. Get(Over(new, views[c]), k) = IF k \in DOMAIN new THEN new[k] ELSE Get(views[c], k)
      BY OverIs
    <3>6. Get(views'[c], k) # None => k \in DOMAIN cache' BY <2>0, <3>2, <3>3, <3>5
    <3>7. CASE m = messages'
      <4>1. new = cache' BY <3>4, <3>7
      <4>2. Get(views'[c], k) = IF k \in DOMAIN cache' THEN cache'[k] ELSE Get(views[c], k)
        BY <3>2, <3>5, <4>1
      <4>3. Get(views'[c], k) = Get(cache', k) BY <2>0, <4>2 DEF Get
      <4> QED BY <3>1, <3>2, <3>6, <4>3
    <3>8. CASE m # messages'
      <4>1. ~(UpToDate(c))' BY <3>2, <3>8 DEF UpToDate
      <4> QED BY <3>1, <3>2, <3>6, <4>1
    <3> QED BY <3>7, <3>8
  <2>3. CASE ~Accepted(c) /\ ~Receives(c)
    <3>1. heard'[c] = heard[c] /\ views'[c] = views[c] BY <1>1, <2>3
    <3>2. ASSUME (UpToDate(c))' PROVE Get(views[c], k) = Get(cache', k)
      <4>1. socket[c] = "open" /\ heard[c] = messages'
        BY <1>2, <2>3, <3>1, <3>2 DEF UpToDate
      <4>2. messages' = messages BY <1>3, <2>0, <4>1
      <4>3. cache' = cache BY <1>3, <4>2
      <4> QED BY <4>1, <4>2, <4>3 DEF ViewsInv, ViewsFollow, UpToDate
    <3> QED BY <1>3, <2>0, <3>1, <3>2
  <2> QED BY <2>1, <2>2, <2>3
<1> HIDE DEF Follows
<1>5. ASSUME NEW c \in Sockets PROVE heard'[c] \in 0..messages'
  <2>1. "table" \in Kept BY DEF Kept
  <2> QED BY <1>4, <2>1 DEF Follows
<1>6. ShownInv' BY <1>4, <1>5 DEF ShownInv, Follows
<1>7. ViewsFollow' BY <1>4 DEF ViewsFollow, Follows
<1> QED BY <1>6, <1>7

\* What a poll does before its broadcast leaves the cache.
LEMMA PollLeaves == Poll => UNCHANGED <<cache, contents, sendVars>>
BY DEF Poll, StartFast, EndFast, FailFast, StartTool, ReadTable, GiveUpTool, ChangeTools

\* What a broadcast caches is a completed payload.
LEMMA WriteIs ==
    ASSUME Write
    PROVE  /\ \E payload : cache' = Completed(payload)
           /\ contents' = Append(contents, cache')
           /\ \E w : StartBroadcast(w)
<1>1. contents' = Append(contents, cache') BY DEF Write
<1>2. ASSUME NEW c, BroadcastFast(c) PROVE \E payload : cache' = Completed(payload)
  BY <1>2 DEF BroadcastFast, Remember
<1>3. ASSUME NEW c, ReadMagazine(c) \/ MissMagazine(c) \/ BroadcastTool(c)
      PROVE  \E payload : cache' = Completed(payload)
  <2>1. CASE ReadMagazine(c) BY <2>1 DEF ReadMagazine, Store, Remember
  <2>2. CASE MissMagazine(c)
    <3>1. PICK data : Store(c, data) BY <2>2 DEF MissMagazine
    <3> QED BY <3>1 DEF Store, Remember
  <2>3. CASE BroadcastTool(c) BY <2>3 DEF BroadcastTool, Remember
  <2> QED BY <1>3, <2>1, <2>2, <2>3
<1>4. ASSUME FtpProgress \/ UpdateConfig PROVE \E payload : cache' = Completed(payload)
  BY <1>4 DEF FtpProgress, UpdateConfig, Remember
<1> QED BY <1>1, <1>2, <1>3, <1>4 DEF Write

\* Each step is one of the cache and one of the sends, or of one of them.
LEMMA StepsOfParts ==
    /\ SocketsInit => Init /\ SendsInit
    /\ [SocketsNext]_allVars => [Next]_vars /\ [SendsNext]_sendVars
<1>1. SocketsInit => Init /\ SendsInit BY DEF SocketsInit
<1>2. UNCHANGED allVars => UNCHANGED vars /\ UNCHANGED sendVars BY DEF allVars
<1>3. /\ \A c \in FastCallers : <<"fast", c>> \in Writers
      /\ \A c \in ToolCallers : <<"tool", c>> \in Writers
      /\ \A o \in Others : <<"other", o>> \in Writers
  BY WritersAssumption
<1>4. ASSUME Poll PROVE Next /\ UNCHANGED sendVars
  BY <1>4 DEF Poll, Next, Fast, Tool
<1>5. ASSUME NEW c \in ToolCallers, TimeOut(c) PROVE Next /\ SendsNext
  BY <1>3, <1>5 DEF TimeOut, Next, Tool, SendsNext
<1>6. ASSUME Write PROVE Next /\ SendsNext
  BY <1>3, <1>6 DEF Write, Next, Fast, Tool, SendsNext
<1>7. ASSUME Serve PROVE SendsNext /\ UNCHANGED vars BY <1>7 DEF Serve, SendsNext
<1> QED BY <1>1, <1>2, <1>4, <1>5, <1>6, <1>7 DEF SocketsNext, Manager

LEMMA ViewsStep ==
    ASSUME ViewsInv, SendsInv, [SocketsNext]_allVars
    PROVE  ViewsStepped
<1>1. [SendsNext]_sendVars BY StepsOfParts
<1>2. CASE SocketsNext /\ UNCHANGED <<cache, contents, messages>>
  <2>1. ContentsInv' /\ messages' \in Nat /\ messages <= messages' BY <1>2, QuietKeeps
  <2>2. Show BY <1>2 DEF SocketsNext
  <2>3. ShownInv' /\ ViewsFollow' BY <1>1, <1>2, <2>1, <2>2, DashboardsKeep
  <2> QED BY <1>2, <2>1, <2>3 DEF ViewsStepped, ViewsInv
<1>3. CASE Write /\ Show
  <2>1. PICK payload : cache' = Completed(payload) BY <1>3, WriteIs
  <2>2. contents' = Append(contents, cache') BY <1>3, WriteIs
  <2>3. messages' = messages + 1 /\ UNCHANGED socket
    BY <1>3, WriteIs DEF StartBroadcast
  <2>4. ContentsInv' /\ messages' \in Nat /\ messages <= messages'
    BY <2>1, <2>2, <2>3, WriteKeeps
  <2>5. /\ \A k \in Kept : k \in DOMAIN cache => k \in DOMAIN cache'
        /\ Get(cache, "program") # None => Get(cache', "program") # None
    BY <2>1, CompletedIs
  <2>6. ShownInv' /\ ViewsFollow' BY <1>1, <1>3, <2>3, <2>4, <2>5, DashboardsKeep
  <2> QED BY <2>4, <2>5, <2>6 DEF ViewsStepped, ViewsInv
<1>4. CASE UNCHANGED allVars
  <2>1. UNCHANGED <<cache, contents, messages, socket, views, heard>>
    BY <1>4 DEF allVars, vars, sendVars, dashboards
  <2> QED
    BY <2>1 DEF ViewsStepped, ViewsInv, ContentsInv, ShownInv, ViewsFollow, UpToDate
<1>5. CASE Show /\ (Poll \/ Serve \/ \E c \in ToolCallers : TimeOut(c))
  <2>1. Poll => UNCHANGED <<cache, contents, messages>> BY PollLeaves DEF sendVars
  <2>2. ASSUME NEW c \in ToolCallers, TimeOut(c) PROVE UNCHANGED <<cache, contents, messages>>
    BY <2>2 DEF TimeOut, GiveUpTool, Abandon
  <2>3. Serve => UNCHANGED <<cache, contents, messages>>
    BY DEF Serve, vars, Send, Finish, Accept, Close, Disconnected
  <2>4. SocketsNext BY <1>5 DEF SocketsNext, Manager
  <2> QED BY <1>2, <1>5, <2>1, <2>2, <2>3, <2>4
<1> QED BY <1>3, <1>4, <1>5 DEF SocketsNext, Manager

-----------------------------------------------------------------------------
(* The cache: types                                                          *)

\* A coroutine of a poll, and what it read so far.
PollShape(poll, callers) ==
    poll = [c \in callers |-> [pc |-> poll[c].pc, data |-> poll[c].data]]

CacheInv ==
    /\ TypeOK
    /\ PollShape(fast, FastCallers) /\ PollShape(tool, ToolCallers)

LEMMA OverTyped ==
    ASSUME NEW f, NEW g, EntryType(f), EntryType(g)
    PROVE  EntryType(Over(f, g))
<1> DEFINE e == Over(f, g)
<1>1. DOMAIN e = DOMAIN f \cup DOMAIN g BY DEF Over
<1>2. \A k \in DOMAIN e : e[k] = IF k \in DOMAIN f THEN f[k] ELSE g[k]
  BY DEF Over
<1> HIDE DEF e
<1>3. \A k : Get(e, k) = Get(f, k) \/ Get(e, k) = Get(g, k)
  BY <1>1, <1>2 DEF Get
<1>4. Get(e, "online") \in BOOLEAN \cup {None}
  BY <1>3 DEF EntryType
<1>5. /\ Get(e, "program") \in Programs \cup {None}
      /\ Get(e, "table") \in Versions \cup {None}
      /\ Get(e, "tools") \in Versions \cup {NoMagazine, None}
  BY <1>3 DEF EntryType
<1>6. DOMAIN e \subseteq {"online", "program", "table", "tools", "unified"}
  BY <1>1 DEF EntryType
<1>7. "unified" \in DOMAIN e => e["unified"] \in BOOLEAN
  BY <1>1, <1>2 DEF EntryType
<1> QED BY <1>4, <1>5, <1>6, <1>7 DEF EntryType, e

LEMMA RestrictedTyped ==
    ASSUME NEW f, NEW keys, EntryType(f)
    PROVE  EntryType(Restricted(f, keys))
<1> DEFINE e == Restricted(f, keys)
<1>1. DOMAIN e = DOMAIN f \cap keys /\ \A k \in DOMAIN e : e[k] = f[k]
  BY DEF Restricted
<1> HIDE DEF e
<1>2. \A k : Get(e, k) = Get(f, k) \/ Get(e, k) = None BY <1>1 DEF Get
<1>3. /\ Get(e, "program") \in Programs \cup {None}
      /\ Get(e, "table") \in Versions \cup {None}
      /\ Get(e, "tools") \in Versions \cup {NoMagazine, None}
      /\ Get(e, "online") \in BOOLEAN \cup {None}
  BY <1>2 DEF EntryType
<1>4. DOMAIN e \subseteq {"online", "program", "table", "tools", "unified"}
  BY <1>1 DEF EntryType
<1>5. "unified" \in DOMAIN e => e["unified"] \in BOOLEAN
  BY <1>1 DEF EntryType
<1> QED BY <1>3, <1>4, <1>5 DEF EntryType, e

LEMMA CompletedTyped ==
    ASSUME EntryType(cache), NEW payload, EntryType(payload)
    PROVE  EntryType(Completed(payload))
<1> DEFINE full == Over(payload, Restricted(cache, Preserved))
<1>1. EntryType(full) BY RestrictedTyped, OverTyped
<1> HIDE DEF full
<1>2. CASE Get(full, "program") = None /\ Get(cache, "program") # None
  <2> DEFINE e == [full EXCEPT !["program"] = cache["program"]]
  <2>1. Completed(payload) = e BY <1>2 DEF Completed, full
  <2>2. cache["program"] \in Programs BY <1>2 DEF EntryType, Get
  <2>3. DOMAIN e = DOMAIN full /\ \A k \in DOMAIN full : k # "program" => e[k] = full[k]
    OBVIOUS
  <2>4. "program" \in DOMAIN full => e["program"] = cache["program"] OBVIOUS
  <2> HIDE DEF e
  <2>5. \A k : k # "program" => Get(e, k) = Get(full, k) BY <2>3 DEF Get
  <2>6. Get(e, "program") \in Programs \cup {None} BY <2>2, <2>3, <2>4 DEF Get
  <2>7. "unified" \in DOMAIN e => e["unified"] \in BOOLEAN BY <1>1, <2>3 DEF EntryType
  <2>8. /\ Get(e, "online") = Get(full, "online") /\ Get(e, "table") = Get(full, "table")
        /\ Get(e, "tools") = Get(full, "tools")
    BY <2>5
  <2> QED BY <1>1, <2>1, <2>3, <2>6, <2>7, <2>8 DEF EntryType
<1>3. CASE ~(Get(full, "program") = None /\ Get(cache, "program") # None)
  <2>1. Completed(payload) = full BY <1>3 DEF Completed, full
  <2> QED BY <1>1, <2>1
<1> QED BY <1>2, <1>3

\* What a broadcast leaves is typed.
LEMMA BroadcastTyped ==
    ASSUME CacheInv, NEW payload, EntryType(payload), Remember(payload)
    PROVE  EntryType(cache')
BY CompletedTyped DEF CacheInv, TypeOK, Remember

\* Only the place of a coroutine changes.
LEMMA PlaceMoves ==
    ASSUME NEW poll, NEW callers, PollShape(poll, callers), NEW c \in callers, NEW pc
    PROVE  [poll[c] EXCEPT !.pc = pc] = [pc |-> pc, data |-> poll[c].data]
<1>1. PICK p, d : poll[c] = [pc |-> p, data |-> d] BY DEF PollShape
<1>2. poll[c].data = d BY <1>1
<1>3. [poll[c] EXCEPT !.pc = pc] = [pc |-> pc, data |-> d] BY <1>1
<1> QED BY <1>2, <1>3

\* What the cache holds is typed in the next state.
SharedTyped == EntryType(cache')

LEMMA SharedSame == CacheInv /\ UNCHANGED cache => SharedTyped
BY DEF CacheInv, TypeOK, SharedTyped

LEMMA FastKeeps ==
    ASSUME CacheInv, NEW c \in FastCallers, NEW p \in {"idle", "polling", "ended"},
           NEW data, EntryType(data), SharedTyped,
           fast' = [fast EXCEPT ![c] = [pc |-> p, data |-> data]],
           UNCHANGED <<version, tool>>, failures' \in 0..OfflineThreshold,
           succeeded' \in BOOLEAN, knownName' \in Programs \cup {None}
    PROVE  CacheInv'
<1>1. /\ PollShape(fast', FastCallers)
      /\ fast'[c].pc = p /\ fast'[c].data = data
      /\ \A d \in FastCallers : d # c => fast'[d] = fast[d]
  <2>1. /\ DOMAIN fast = FastCallers
        /\ \A d \in FastCallers : fast[d] = [pc |-> fast[d].pc, data |-> fast[d].data]
    BY DEF CacheInv, PollShape
  <2>2. /\ fast'[c] = [pc |-> p, data |-> data]
        /\ \A d \in FastCallers : d # c => fast'[d] = fast[d]
    BY <2>1
  <2>3. fast'[c].pc = p /\ fast'[c].data = data BY <2>2
  <2>4. ASSUME NEW d \in FastCallers
        PROVE  fast'[d] = [pc |-> fast'[d].pc, data |-> fast'[d].data]
    <3>1. CASE d = c BY <2>2, <2>3, <3>1
    <3>2. CASE d # c BY <2>1, <2>2, <3>2
    <3> QED BY <3>1, <3>2
  <2>5. fast' = [d \in FastCallers |-> fast'[d]] BY <2>1
  <2> QED BY <2>2, <2>3, <2>4, <2>5 DEF PollShape
<1>2. \A d \in FastCallers : /\ fast'[d].pc \in {"idle", "polling", "ended"}
                             /\ EntryType(fast'[d].data)
  BY <1>1 DEF CacheInv, TypeOK
<1>3. TypeOK' BY <1>2 DEF CacheInv, TypeOK, SharedTyped
<1> QED BY <1>1, <1>3 DEF CacheInv, PollShape, SharedTyped

LEMMA ToolKeeps ==
    ASSUME CacheInv, NEW c \in ToolCallers,
           NEW p \in {"idle", "reading", "magazine", "ended"},
           NEW data, EntryType(data), SharedTyped,
           tool' = [tool EXCEPT ![c] = [pc |-> p, data |-> data]],
           UNCHANGED <<version, pollerVars, fast>>
    PROVE  CacheInv'
<1>1. /\ PollShape(tool', ToolCallers)
      /\ tool'[c].pc = p /\ tool'[c].data = data
      /\ \A d \in ToolCallers : d # c => tool'[d] = tool[d]
  <2>1. /\ DOMAIN tool = ToolCallers
        /\ \A d \in ToolCallers : tool[d] = [pc |-> tool[d].pc, data |-> tool[d].data]
    BY DEF CacheInv, PollShape
  <2>2. /\ tool'[c] = [pc |-> p, data |-> data]
        /\ \A d \in ToolCallers : d # c => tool'[d] = tool[d]
    BY <2>1
  <2>3. tool'[c].pc = p /\ tool'[c].data = data BY <2>2
  <2>4. ASSUME NEW d \in ToolCallers
        PROVE  tool'[d] = [pc |-> tool'[d].pc, data |-> tool'[d].data]
    <3>1. CASE d = c BY <2>2, <2>3, <3>1
    <3>2. CASE d # c BY <2>1, <2>2, <3>2
    <3> QED BY <3>1, <3>2
  <2>5. tool' = [d \in ToolCallers |-> tool'[d]] BY <2>1
  <2> QED BY <2>2, <2>3, <2>4, <2>5 DEF PollShape
<1>2. \A d \in ToolCallers : /\ tool'[d].pc \in {"idle", "reading", "magazine", "ended"}
                             /\ EntryType(tool'[d].data)
  BY <1>1 DEF CacheInv, TypeOK
<1>3. TypeOK' BY <1>2 DEF CacheInv, TypeOK, SharedTyped, pollerVars
<1> QED BY <1>1, <1>3 DEF CacheInv, PollShape, SharedTyped

\* Entries that are not in the cache.
LEMMA EntriesTyped ==
    /\ EntryType(Empty)
    /\ \A online \in BOOLEAN :
         /\ EntryType([online |-> online])
         /\ \A program \in Programs \cup {None} :
              EntryType([online |-> online, program |-> program])
    /\ \A t \in Versions : EntryType([table |-> t])
    /\ \A t \in Versions \cup {NoMagazine}, u \in BOOLEAN :
         EntryType([tools |-> t, unified |-> u])
BY DEF EntryType, Get, Empty

LEMMA CacheInitInv == Init => CacheInv
<1> SUFFICES ASSUME Init PROVE CacheInv
  OBVIOUS
<1>1. /\ \A c \in FastCallers : fast[c] = [pc |-> "idle", data |-> Empty]
      /\ \A c \in ToolCallers : tool[c] = [pc |-> "idle", data |-> Empty]
  BY DEF Init, Idle
<1>2. PollShape(fast, FastCallers) /\ PollShape(tool, ToolCallers)
  BY <1>1 DEF Init, PollShape
<1>3. 1 \in Versions /\ 0 \in 0..OfflineThreshold
  BY VersionAssumption, ThresholdAssumption DEF Versions
<1>4. TypeOK
  <2>1. EntryType(Empty) BY EntriesTyped
  <2>2. ASSUME NEW c \in FastCallers PROVE fast[c].pc = "idle" /\ fast[c].data = Empty
    <3>1. fast[c] = [pc |-> "idle", data |-> Empty] BY <1>1
    <3> QED BY <3>1
  <2>3. ASSUME NEW c \in ToolCallers PROVE tool[c].pc = "idle" /\ tool[c].data = Empty
    <3>1. tool[c] = [pc |-> "idle", data |-> Empty] BY <1>1
    <3> QED BY <3>1
  <2> QED BY <1>1, <1>3, <2>1, <2>2, <2>3 DEF Init, TypeOK
<1> QED BY <1>2, <1>4 DEF CacheInv, Init

LEMMA FastStep ==
    ASSUME CacheInv, NEW c \in FastCallers, Fast(c)
    PROVE  CacheInv'
<1>0. /\ fast[c] = [pc |-> fast[c].pc, data |-> fast[c].data]
      /\ DOMAIN fast = FastCallers /\ EntryType(fast[c].data) /\ EntryType(cache)
      /\ failures \in 0..OfflineThreshold /\ succeeded \in BOOLEAN
      /\ knownName \in Programs \cup {None} /\ OfflineThreshold \in Nat
  BY ThresholdAssumption DEF CacheInv, PollShape, TypeOK
<1>1. CASE StartFast(c)
  <2>1. fast' = [fast EXCEPT ![c] = [pc |-> "polling", data |-> fast[c].data]]
    <3>1. fast' = [fast EXCEPT ![c] = [fast[c] EXCEPT !.pc = "polling"]]
      BY <1>1 DEF StartFast
    <3>2. PollShape(fast, FastCallers) BY DEF CacheInv
    <3> QED BY <3>1, <3>2, PlaceMoves
  <2>2. knownName' \in Programs \cup {None} BY <1>0, <1>1 DEF StartFast, NameRead
  <2>3. /\ UNCHANGED <<version, tool, failures, succeeded>> /\ SharedTyped
    BY <1>1, SharedSame DEF StartFast
  <2> QED BY <1>0, <2>1, <2>2, <2>3, FastKeeps
<1>2. CASE EndFast(c)
  <2>1. PICK program \in Programs \cup {None} :
           fast' = [fast EXCEPT ![c] = [pc |-> "ended", data |-> SuccessPayload(program)]]
    BY <1>2 DEF EndFast
  <2>2. EntryType(SuccessPayload(program))
    BY <1>0, EntriesTyped, RestrictedTyped, OverTyped DEF SuccessPayload
  <2>3. /\ UNCHANGED <<version, tool>> /\ SharedTyped
        /\ failures' \in 0..OfflineThreshold /\ succeeded' \in BOOLEAN
        /\ knownName' \in Programs \cup {None}
    BY <1>0, <1>2, SharedSame DEF EndFast
  <2> QED BY <1>0, <2>1, <2>2, <2>3, FastKeeps
<1>3. CASE FailFast(c)
  <2> DEFINE online == succeeded /\ failures' < OfflineThreshold
  <2>1. fast' = [fast EXCEPT ![c] = [pc |-> "ended", data |-> FailurePayload(online)]]
    BY <1>3 DEF FailFast
  <2>2. online \in BOOLEAN OBVIOUS
  <2> HIDE DEF online
  <2>3. EntryType(FailurePayload(online))
    <3>1. Get(cache, "table") \in Versions \cup {None} BY <1>0 DEF EntryType
    <3>2. Get(cache, "tools") \in Versions \cup {NoMagazine, None} BY <1>0 DEF EntryType
    <3> HIDE DEF Get
    <3>3. ASSUME NEW t \in Versions \cup {None}, NEW m \in Versions \cup {NoMagazine, None}
          PROVE  EntryType([online |-> online, program |-> knownName, table |-> t, tools |-> m])
      BY <1>0, <2>2, <3>3 DEF EntryType, Get
    <3> QED BY <3>1, <3>2, <3>3 DEF FailurePayload
  <2>4. /\ UNCHANGED <<version, tool, knownName, succeeded>> /\ SharedTyped
        /\ failures' \in 0..OfflineThreshold
    BY <1>0, <1>3, SharedSame DEF FailFast
  <2> QED BY <1>0, <2>1, <2>3, <2>4, FastKeeps
<1>4. CASE BroadcastFast(c)
  <2>1. SharedTyped BY <1>0, <1>4, BroadcastTyped DEF BroadcastFast, SharedTyped
  <2>2. fast' = [fast EXCEPT ![c] = [pc |-> "idle", data |-> Empty]]
    BY <1>4 DEF BroadcastFast, Idle
  <2>3. UNCHANGED <<version, tool, failures, succeeded, knownName>>
    BY <1>4 DEF BroadcastFast, pollerVars
  <2> QED BY <1>0, <2>1, <2>2, <2>3, EntriesTyped, FastKeeps
<1> QED BY <1>1, <1>2, <1>3, <1>4 DEF Fast

LEMMA MergedTyped ==
    ASSUME CacheInv, NEW data, EntryType(data)
    PROVE  EntryType(Merged(data))
<1>1. EntryType([online |-> DisplayOnline])
  <2>1. DisplayOnline \in BOOLEAN BY DEF DisplayOnline
  <2> QED BY <2>1, EntriesTyped
<1>2. EntryType(cache) BY DEF CacheInv, TypeOK
<1> QED BY <1>1, <1>2, OverTyped DEF Merged

LEMMA StoreKeeps ==
    ASSUME CacheInv, NEW c \in ToolCallers, NEW data, EntryType(data), Store(c, data)
    PROVE  CacheInv'
<1>1. SharedTyped BY MergedTyped, BroadcastTyped DEF Store, SharedTyped
<1>2. /\ tool' = [tool EXCEPT ![c] = [pc |-> "ended", data |-> data]]
      /\ UNCHANGED <<version, pollerVars, fast>>
  BY DEF Store
<1> QED BY <1>1, <1>2, ToolKeeps

LEMMA ToolStep ==
    ASSUME CacheInv, NEW c \in ToolCallers, Tool(c)
    PROVE  CacheInv'
<1>0. /\ tool[c] = [pc |-> tool[c].pc, data |-> tool[c].data]
      /\ DOMAIN tool = ToolCallers /\ EntryType(tool[c].data) /\ EntryType(cache)
      /\ version \in Versions
  BY DEF CacheInv, PollShape, TypeOK
<1>1. CASE StartTool(c)
  <2>1. tool' = [tool EXCEPT ![c] = [pc |-> "reading", data |-> tool[c].data]]
    <3>1. tool' = [tool EXCEPT ![c] = [tool[c] EXCEPT !.pc = "reading"]]
      BY <1>1 DEF StartTool
    <3>2. PollShape(tool, ToolCallers) BY DEF CacheInv
    <3> QED BY <3>1, <3>2, PlaceMoves
  <2>2. UNCHANGED <<version, pollerVars, fast>> /\ SharedTyped
    BY <1>1, SharedSame DEF StartTool
  <2> QED BY <1>0, <2>1, <2>2, ToolKeeps
<1>2. CASE ReadTable(c)
  <2>1. tool' = [tool EXCEPT ![c] = [pc |-> "magazine", data |-> [table |-> version]]]
    BY <1>2 DEF ReadTable
  <2>2. UNCHANGED <<version, pollerVars, fast>> /\ SharedTyped
    BY <1>2, SharedSame DEF ReadTable
  <2>3. EntryType([table |-> version]) BY <1>0, EntriesTyped
  <2> QED BY <2>1, <2>2, <2>3, ToolKeeps
<1>3. CASE GiveUpTool(c)
  <2>1. tool' = [tool EXCEPT ![c] = [pc |-> "idle", data |-> Empty]]
    BY <1>3 DEF GiveUpTool, Idle
  <2>2. UNCHANGED <<version, pollerVars, fast>> /\ SharedTyped
    BY <1>3, SharedSame DEF GiveUpTool
  <2> QED BY <2>1, <2>2, EntriesTyped, ToolKeeps
<1>4. CASE ReadMagazine(c)
  <2>1. EntryType([tools |-> version, unified |-> TRUE]) BY <1>0, EntriesTyped
  <2>2. EntryType(Over([tools |-> version, unified |-> TRUE], tool[c].data))
    BY <1>0, <2>1, OverTyped
  <2> QED BY <1>4, <2>2, StoreKeeps DEF ReadMagazine
<1>5. CASE MissMagazine(c)
  <2> DEFINE tools == IF Get(cache, "tools") = None THEN NoMagazine ELSE cache["tools"]
             keep  == Get(cache, "unified") = TRUE
             kept  == IF keep THEN tools ELSE NoMagazine
  <2>1. kept \in Versions \cup {NoMagazine} BY <1>0 DEF EntryType, Get
  <2>2. keep \in BOOLEAN OBVIOUS
  <2>3. Store(c, Over([tools |-> kept, unified |-> keep], tool[c].data))
    BY <1>5 DEF MissMagazine
  <2> HIDE DEF kept, keep
  <2>4. EntryType([tools |-> kept, unified |-> keep]) BY <2>1, <2>2, EntriesTyped
  <2>5. EntryType(Over([tools |-> kept, unified |-> keep], tool[c].data))
    BY <1>0, <2>4, OverTyped
  <2> QED BY <2>3, <2>5, StoreKeeps
<1>6. CASE BroadcastTool(c)
  <2>1. SharedTyped
    BY <1>0, <1>6, MergedTyped, BroadcastTyped DEF BroadcastTool, SharedTyped
  <2>2. /\ tool' = [tool EXCEPT ![c] = [pc |-> "idle", data |-> Empty]]
        /\ UNCHANGED <<version, pollerVars, fast>>
    BY <1>6 DEF BroadcastTool, Idle
  <2> QED BY <2>1, <2>2, EntriesTyped, ToolKeeps
<1> QED BY <1>1, <1>2, <1>3, <1>4, <1>5, <1>6 DEF Tool

LEMMA CacheStep == CacheInv /\ [Next]_vars => CacheInv'
<1> SUFFICES ASSUME CacheInv, [Next]_vars PROVE CacheInv'
  OBVIOUS
<1>1. ASSUME UNCHANGED <<pollerVars, fast, tool>>, SharedTyped, version' \in Versions
      PROVE  CacheInv'
  <2>1. TypeOK' BY <1>1 DEF CacheInv, TypeOK, SharedTyped, pollerVars
  <2> QED BY <1>1, <2>1 DEF CacheInv, PollShape, SharedTyped
<1>2. version \in Versions BY DEF CacheInv, TypeOK
<1>3. ASSUME NEW c \in FastCallers, Fast(c) PROVE CacheInv' BY <1>3, FastStep
<1>4. ASSUME NEW c \in ToolCallers, Tool(c) PROVE CacheInv' BY <1>4, ToolStep
<1>5. CASE FtpProgress
  <2>1. SharedTyped
    BY <1>5, EntriesTyped, BroadcastTyped DEF FtpProgress, SharedTyped
  <2> QED BY <1>1, <1>2, <1>5, <2>1 DEF FtpProgress
<1>6. CASE UpdateConfig
  <2>1. SharedTyped
    BY <1>6, BroadcastTyped DEF UpdateConfig, SharedTyped, CacheInv, TypeOK
  <2> QED BY <1>1, <1>2, <1>6, <2>1 DEF UpdateConfig
<1>7. CASE ChangeTools
  <2>1. version' \in Versions
    BY <1>2, <1>7, VersionAssumption DEF ChangeTools, Versions
  <2>2. SharedTyped BY <1>7, SharedSame DEF ChangeTools
  <2> QED BY <1>1, <1>7, <2>1, <2>2 DEF ChangeTools
<1>8. CASE UNCHANGED vars
  BY <1>1, <1>2, <1>8, SharedSame DEF vars, pollerVars
<1> QED BY <1>3, <1>4, <1>5, <1>6, <1>7, <1>8 DEF Next

-----------------------------------------------------------------------------
(* The theorems                                                              *)

\* The list of connections, the sockets and the messages have their types, and
\* the list holds every open connection once (connect, disconnect).
THEOREM SendsTyping == SocketsSpec => []SendsTypeOK
<1>1. SendsInv => SendsTypeOK
  BY DEF SendsInv, ListInv, MessageInv, SendsTypeOK
<1> QED BY <1>1, StepsOfParts, SendsInitInv, SendsStep, PTL DEF SocketsSpec

\* What is cached, waits to be broadcast or is shown holds the values its readers
\* expect (Dict[str, Any] in the code), whoever wrote the entry's keys.
THEOREM CacheTyping == SocketsSpec => []TypeOK
<1>1. CacheInv => TypeOK BY DEF CacheInv
<1> QED BY <1>1, StepsOfParts, CacheInitInv, CacheStep, PTL DEF SocketsSpec

\* A loop that ends has served everyone it owed a turn, unless somebody else
\* shortened the list.
LEMMA FinishServed ==
    ASSUME SendsInv, NEW w \in Writers, Finish(w), ~sending[w].shrank
    PROVE  sending[w].owed = {}
<1>1. Busy(w) /\ sending[w].next > Len(active) BY DEF Finish
<1>2. sending[w].next \in Nat /\ Len(active) \in Nat
  BY DEF SendsInv, ListInv, MessageInv, SendType
<1>3. \A d \in sending[w].owed : \E i \in 1..Len(active) : sending[w].next <= i
  BY <1>1 DEF SendsInv, OwedInv
<1> QED BY <1>1, <1>2, <1>3

\* broadcast_status serves nobody twice and skips nobody who stays connected,
\* however many broadcasts wait on the list at the same time, unless it is
\* shortened under the iterator by somebody else.
THEOREM ServedOnceHolds == SocketsSpec => ServedOnce
<1> DEFINE Served == /\ SentOnce'
                     /\ \A w \in Writers : Finish(w) /\ ~sending[w].shrank
                          => sending[w].owed = {}
<1>1. SendsInv /\ [SendsNext]_sendVars => [Served]_sendVars
  <2> SUFFICES ASSUME SendsInv, [SendsNext]_sendVars PROVE Served
    OBVIOUS
  <2>1. SentOnce' BY SendsStep DEF SendsInv, AheadInv
  <2> QED BY <2>1, FinishServed
<1>2. SocketsSpec => [][Served]_sendVars
  BY <1>1, StepsOfParts, SendsInitInv, SendsStep, PTL DEF SocketsSpec
<1> QED BY <1>2 DEF ServedOnce

\* A dashboard that heard the newest broadcast shows the cache's program, table
\* and magazine, whatever was skipped, overtaken or abandoned before, and no
\* writer, however late, brings a placeholder back for a program name.
THEOREM ViewsKeptHolds == SocketsSpec => ViewsKept
<1> DEFINE Follow == /\ ViewsFollow'
                     /\ Get(cache, "program") # None => Get(cache', "program") # None
<1>1. ViewsInv /\ SendsInv /\ [SocketsNext]_allVars => [Follow]_allVars /\ ViewsInv'
  <2> SUFFICES ASSUME ViewsInv, SendsInv, [SocketsNext]_allVars PROVE Follow /\ ViewsInv'
    OBVIOUS
  <2>1. ViewsStepped BY ViewsStep
  <2> QED BY <2>1 DEF ViewsStepped, ViewsInv
<1>2. SocketsSpec => [][Follow]_allVars
  BY <1>1, StepsOfParts, ViewsInitInv, SendsInitInv, SendsStep, PTL DEF SocketsSpec
<1> QED BY <1>2 DEF ViewsKept

=============================================================================
