---------------------------- MODULE PgPoolProofs ----------------------------
(***************************************************************************)
(* Proofs about PgPool, for any number of connections, queries and         *)
(* failures: type correctness; Inv is inductive, the safety properties     *)
(* follow from it, and every step keeps what the pool promises its callers.*)
(***************************************************************************)
EXTENDS PgPool, SequenceTheorems, FiniteSetTheorems, TLAPS

-----------------------------------------------------------------------------
(* What the operations on the pool's queues (std::deque and std::vector    *)
(* used as queues in src/pg) do to the elements: which there are, in which *)
(* order, and that none comes up twice.                                    *)

\* The elements of a sequence, by position.
LEMMA RangeByIndex ==
    ASSUME NEW S, NEW s \in Seq(S)
    PROVE  /\ DOMAIN s = 1..Len(s)
           /\ \A x : x \in Range(s) <=> \E i \in 1..Len(s) : s[i] = x
           /\ Range(s) \subseteq S
BY RangeEquality, RangeOfSeq, LenProperties

\* enqueue(): an element put in at position k of a queue moves those from k on
\* back by one.
LEMMA InsertAtByIndex ==
    ASSUME NEW S, NEW s \in Seq(S), NEW q \in S, NEW k \in 1..Len(s) + 1
    PROVE  /\ InsertAt(s, k, q) \in Seq(S)
           /\ Len(InsertAt(s, k, q)) = Len(s) + 1
           /\ \A i \in 1..Len(s) + 1 :
                InsertAt(s, k, q)[i] = IF i < k THEN s[i] ELSE IF i = k THEN q ELSE s[i - 1]
<1> DEFINE front == SubSeq(s, 1, k - 1)
           back  == SubSeq(s, k, Len(s))
           upto  == front \o <<q>>
<1>1. Len(s) \in Nat /\ \A i \in 1..Len(s) : s[i] \in S
  BY LenProperties, ElementOfSeq
<1>2. /\ front \in Seq(S) /\ Len(front) = k - 1
      /\ \A i \in 1..k - 1 : front[i] = s[i]
  <2>1. \A i \in 1..k - 1 : s[i] \in S
    BY <1>1
  <2> HIDE DEF front
  <2> QED BY <2>1, <1>1, SubSeqProperties DEF front
<1>3. /\ back \in Seq(S) /\ Len(back) = Len(s) - k + 1
      /\ \A i \in 1..Len(s) - k + 1 : back[i] = s[k + i - 1]
  <2>1. \A i \in k..Len(s) : s[i] \in S
    BY <1>1
  <2> HIDE DEF back
  <2> QED BY <2>1, <1>1, SubSeqProperties DEF back
<1> HIDE DEF front, back
<1>4. /\ <<q>> \in Seq(S) /\ Len(<<q>>) = 1 /\ <<q>>[1] = q
  OBVIOUS
<1>5. /\ upto \in Seq(S) /\ Len(upto) = k
      /\ \A i \in 1..k : upto[i] = IF i <= k - 1 THEN front[i] ELSE <<q>>[i - (k - 1)]
  BY <1>1, <1>2, <1>4, ConcatProperties
<1>6. \A i \in 1..k : upto[i] = IF i < k THEN s[i] ELSE q
  BY <1>1, <1>2, <1>4, <1>5
<1> HIDE DEF upto
<1>7. InsertAt(s, k, q) = upto \o back
  BY DEF InsertAt, upto, front, back
<1>8. /\ upto \o back \in Seq(S) /\ Len(upto \o back) = Len(upto) + Len(back)
      /\ \A i \in 1..Len(upto) + Len(back) :
            (upto \o back)[i] = IF i <= Len(upto) THEN upto[i] ELSE back[i - Len(upto)]
  BY <1>3, <1>5, ConcatProperties
<1> QED BY <1>1, <1>3, <1>5, <1>6, <1>7, <1>8

\* enqueue(): one element more, and it is new.
LEMMA InsertAtHolds ==
    ASSUME NEW S, NEW s \in Seq(S), NEW q \in S, NEW k \in 1..Len(s) + 1
    PROVE  /\ Range(InsertAt(s, k, q)) = Range(s) \cup {q}
           /\ IsInjective(s) /\ q \notin Range(s) => IsInjective(InsertAt(s, k, q))
<1> DEFINE t == InsertAt(s, k, q)
<1>1. Len(s) \in Nat
  BY LenProperties
<1>2. /\ t \in Seq(S) /\ Len(t) = Len(s) + 1
      /\ \A i \in 1..Len(s) + 1 :
            t[i] = IF i < k THEN s[i] ELSE IF i = k THEN q ELSE s[i - 1]
  BY SMTT(60), InsertAtByIndex
<1> HIDE DEF t
<1>3. /\ DOMAIN t = 1..Len(s) + 1 /\ DOMAIN s = 1..Len(s)
      /\ \A x : x \in Range(t) <=> \E i \in 1..Len(s) + 1 : t[i] = x
      /\ \A x : x \in Range(s) <=> \E i \in 1..Len(s) : s[i] = x
  BY <1>2, RangeByIndex
<1>4. ASSUME NEW x PROVE x \in Range(t) <=> x \in Range(s) \cup {q}
  <2>1. ASSUME NEW i \in 1..Len(s) + 1, t[i] = x PROVE x \in Range(s) \cup {q}
    <3>1. i < k => i \in 1..Len(s)
      BY <1>1
    <3>2. i > k => i - 1 \in 1..Len(s)
      BY <1>1
    <3> QED BY <1>1, <1>2, <1>3, <2>1, <3>1, <3>2
  <2>2. ASSUME NEW i \in 1..Len(s), s[i] = x PROVE x \in Range(t)
    <3>1. CASE i < k
      BY <1>1, <1>2, <1>3, <2>2, <3>1
    <3>2. CASE i >= k
      <4>1. i + 1 \in 1..Len(s) + 1 /\ t[i + 1] = s[i]
        BY <1>1, <1>2, <3>2
      <4> QED BY <1>3, <2>2, <4>1
    <3> QED BY <1>1, <3>1, <3>2
  <2>3. q \in Range(t)
    BY <1>1, <1>2, <1>3
  <2> QED BY <1>3, <2>1, <2>2, <2>3
<1>5. ASSUME IsInjective(s), q \notin Range(s),
             NEW i \in 1..Len(s) + 1, NEW j \in 1..Len(s) + 1, t[i] = t[j]
      PROVE  i = j
  <2> DEFINE from(n) == IF n < k THEN n ELSE n - 1
  <2>1. \A n \in 1..Len(s) + 1 : n # k => from(n) \in 1..Len(s) /\ t[n] = s[from(n)] /\ t[n] # q
    BY SMTT(60), <1>1, <1>2, <1>3, <1>5
  <2>2. t[k] = q
    BY <1>1, <1>2
  <2>3. CASE i # k /\ j # k
    <3>1. from(i) = from(j)
      BY <1>3, <1>5, <2>1, <2>3 DEF IsInjective
    <3> QED BY <1>1, <2>3, <3>1
  <2> QED BY <1>5, <2>1, <2>2, <2>3
<1> QED BY <1>3, <1>4, <1>5 DEF IsInjective, t

\* dispatch_queue(): n elements taken off the front.
LEMMA FrontTaken ==
    ASSUME NEW S, NEW s \in Seq(S), NEW n \in 0..Len(s)
    PROVE  /\ SubSeq(s, n + 1, Len(s)) \in Seq(S)
           /\ Len(SubSeq(s, n + 1, Len(s))) = Len(s) - n
           /\ \A i \in 1..Len(s) - n : SubSeq(s, n + 1, Len(s))[i] = s[n + i]
           /\ Range(s) = {s[i] : i \in 1..n} \cup Range(SubSeq(s, n + 1, Len(s)))
           /\ IsInjective(s) =>
                /\ IsInjective(SubSeq(s, n + 1, Len(s)))
                /\ {s[i] : i \in 1..n} \cap Range(SubSeq(s, n + 1, Len(s))) = {}
<1> DEFINE t == SubSeq(s, n + 1, Len(s))
<1>1. Len(s) \in Nat /\ \A i \in 1..Len(s) : s[i] \in S
  BY LenProperties, ElementOfSeq
<1>2. /\ t \in Seq(S) /\ Len(t) = Len(s) - n
      /\ \A i \in 1..Len(s) - n : t[i] = s[n + i]
  <2>1. \A i \in n + 1..Len(s) : s[i] \in S
    BY <1>1
  <2> HIDE DEF t
  <2>2. /\ t \in Seq(S)
        /\ Len(t) = IF n + 1 <= Len(s) THEN Len(s) - (n + 1) + 1 ELSE 0
        /\ \A i \in 1..Len(s) - (n + 1) + 1 : t[i] = s[n + 1 + i - 1]
    BY <2>1, <1>1, SubSeqProperties DEF t
  <2> QED BY SMTT(60), <1>1, <2>2
<1> HIDE DEF t
<1>3. /\ DOMAIN t = 1..Len(s) - n /\ DOMAIN s = 1..Len(s)
      /\ \A x : x \in Range(t) <=> \E i \in 1..Len(s) - n : t[i] = x
      /\ \A x : x \in Range(s) <=> \E i \in 1..Len(s) : s[i] = x
  BY <1>2, RangeByIndex
<1>4. \A x : x \in Range(t) <=> \E i \in n + 1..Len(s) : s[i] = x
  <2>1. \A i \in 1..Len(s) - n : n + i \in n + 1..Len(s)
    BY <1>1
  <2>2. \A i \in n + 1..Len(s) : i - n \in 1..Len(s) - n /\ t[i - n] = s[i]
    BY <1>1, <1>2
  <2> QED BY <1>2, <1>3, <2>1, <2>2
<1>5. Range(s) = {s[i] : i \in 1..n} \cup Range(t)
  <2>1. \A i : i \in 1..Len(s) <=> i \in 1..n \/ i \in n + 1..Len(s)
    BY <1>1
  <2> QED BY <1>3, <1>4, <2>1
<1>6. ASSUME IsInjective(s) PROVE IsInjective(t) /\ {s[i] : i \in 1..n} \cap Range(t) = {}
  <2>1. IsInjective(t)
    <3> SUFFICES ASSUME NEW i \in 1..Len(s) - n, NEW j \in 1..Len(s) - n, t[i] = t[j]
                 PROVE  i = j
      BY <1>3 DEF IsInjective
    <3>1. n + i \in 1..Len(s) /\ n + j \in 1..Len(s) /\ s[n + i] = s[n + j]
      BY <1>1, <1>2
    <3>2. n + i = n + j
      BY <1>3, <1>6, <3>1 DEF IsInjective
    <3> QED BY <1>1, <3>2
  <2>2. ASSUME NEW i \in 1..n, NEW j \in n + 1..Len(s), s[i] = s[j] PROVE FALSE
    BY <1>1, <1>3, <1>6, <2>2 DEF IsInjective
  <2> QED BY <1>4, <2>1, <2>2
<1> QED BY <1>2, <1>5, <1>6 DEF t

\* push_back(): one element more, and it is new.
LEMMA AppendHolds ==
    ASSUME NEW S, NEW s \in Seq(S), NEW q \in S
    PROVE  /\ Append(s, q) \in Seq(S)
           /\ Range(Append(s, q)) = Range(s) \cup {q}
           /\ IsInjective(s) /\ q \notin Range(s) => IsInjective(Append(s, q))
<1> DEFINE t == Append(s, q)
<1>1. /\ t \in Seq(S) /\ Len(t) = Len(s) + 1 /\ Len(s) \in Nat
      /\ \A i \in 1..Len(s) : t[i] = s[i]
      /\ t[Len(s) + 1] = q
  BY AppendProperties, LenProperties
<1> HIDE DEF t
<1>2. /\ DOMAIN t = 1..Len(s) + 1 /\ DOMAIN s = 1..Len(s)
      /\ \A x : x \in Range(t) <=> \E i \in 1..Len(s) + 1 : t[i] = x
      /\ \A x : x \in Range(s) <=> \E i \in 1..Len(s) : s[i] = x
  BY <1>1, RangeByIndex
<1>3. \A i : i \in 1..Len(s) + 1 <=> i \in 1..Len(s) \/ i = Len(s) + 1
  BY <1>1
<1>4. \A x : x \in Range(t) <=> x \in Range(s) \/ x = q
  BY <1>1, <1>2, <1>3
<1>5. IsInjective(s) /\ q \notin Range(s) => IsInjective(t)
  BY <1>1, <1>2, <1>3 DEF IsInjective
<1> QED BY <1>1, <1>4, <1>5 DEF t

\* pop_front(): the first element is gone, and is not among the others.
LEMMA TailHolds ==
    ASSUME NEW S, NEW s \in Seq(S), s # <<>>
    PROVE  /\ Tail(s) \in Seq(S) /\ Head(s) \in S
           /\ Range(s) = {Head(s)} \cup Range(Tail(s))
           /\ IsInjective(s) => IsInjective(Tail(s)) /\ Head(s) \notin Range(Tail(s))
<1>1. /\ Len(s) \in Nat \ {0} /\ 1 \in 0..Len(s)
      /\ Head(s) = s[1] /\ Head(s) \in S /\ Tail(s) \in Seq(S)
      /\ Tail(s) = SubSeq(s, 2, Len(s))
  BY LenProperties, HeadTailProperties, TailIsSubSeq, EmptySeq
<1>2. {s[i] : i \in 1..1} = {Head(s)}
  BY <1>1
<1> DEFINE t == SubSeq(s, 1 + 1, Len(s))
<1>3. /\ Range(s) = {s[i] : i \in 1..1} \cup Range(t)
      /\ IsInjective(s) => IsInjective(t) /\ {s[i] : i \in 1..1} \cap Range(t) = {}
  <2>1. 1 \in 0..Len(s)
    BY <1>1
  <2> QED BY <2>1, FrontTaken
<1>4. t = Tail(s)
  BY <1>1
<1> HIDE DEF t
<1> QED BY <1>1, <1>2, <1>3, <1>4

\* One queue after another.
LEMMA ConcatHolds ==
    ASSUME NEW S, NEW s \in Seq(S), NEW t \in Seq(S)
    PROVE  /\ s \o t \in Seq(S)
           /\ Range(s \o t) = Range(s) \cup Range(t)
           /\ IsInjective(s) /\ IsInjective(t) /\ Range(s) \cap Range(t) = {}
                => IsInjective(s \o t)
<1> DEFINE u == s \o t
<1>1. /\ u \in Seq(S) /\ Len(u) = Len(s) + Len(t) /\ Len(s) \in Nat /\ Len(t) \in Nat
      /\ \A i \in 1..Len(s) + Len(t) : u[i] = IF i <= Len(s) THEN s[i] ELSE t[i - Len(s)]
      /\ Range(u) = Range(s) \cup Range(t)
  BY ConcatProperties, LenProperties, RangeConcatenation
<1> HIDE DEF u
<1>2. ASSUME IsInjective(s), IsInjective(t), Range(s) \cap Range(t) = {},
             NEW i \in 1..Len(s) + Len(t), NEW j \in 1..Len(s) + Len(t), u[i] = u[j]
      PROVE  i = j
  <2>1. /\ DOMAIN s = 1..Len(s) /\ DOMAIN t = 1..Len(t)
        /\ \A x \in 1..Len(s) : s[x] \in Range(s)
        /\ \A x \in 1..Len(t) : t[x] \in Range(t)
    BY RangeByIndex
  <2>2. \A n \in 1..Len(s) + Len(t) :
           /\ n <= Len(s) => n \in 1..Len(s) /\ u[n] = s[n]
           /\ ~(n <= Len(s)) => n - Len(s) \in 1..Len(t) /\ u[n] = t[n - Len(s)]
    BY <1>1
  <2>3. CASE i <= Len(s) /\ j <= Len(s)
    BY <1>2, <2>1, <2>2, <2>3 DEF IsInjective
  <2>4. CASE ~(i <= Len(s)) /\ ~(j <= Len(s))
    <3>1. i - Len(s) = j - Len(s)
      BY <1>2, <2>1, <2>2, <2>4 DEF IsInjective
    <3> QED BY <1>1, <3>1
  <2>5. CASE (i <= Len(s)) # (j <= Len(s))
    BY <1>2, <2>1, <2>2, <2>5
  <2> QED BY <2>3, <2>4, <2>5
<1>3. DOMAIN u = 1..Len(s) + Len(t)
  BY <1>1, LenProperties
<1> QED BY <1>1, <1>2, <1>3 DEF IsInjective, u

-----------------------------------------------------------------------------
(* Types.                                                                  *)

\* How many connections are healthy, free or broken is a number.
LEMMA CountsAreNumbers ==
    /\ \A S \in SUBSET Conn : Cardinality(S) \in Nat
    /\ \A st : Healthy(st) \in Nat /\ Needed(st) \in Int
    /\ MaxFaults \in Nat /\ MinConns \in Nat \ {0}
<1>1. \A S \in SUBSET Conn : Cardinality(S) \in Nat
  BY ConstantsAssumption, FS_Subset, FS_CardinalityType
<1>2. ASSUME NEW st PROVE Healthy(st) \in Nat /\ Cardinality(Unused(st)) \in Nat
  BY <1>1 DEF Healthy, Unused
<1>3. ASSUME NEW st PROVE Needed(st) \in Int
  BY <1>2, ConstantsAssumption DEF Needed
<1> QED BY <1>1, <1>2, <1>3, ConstantsAssumption

\* ensure_min_connections() opens connections in free slots and leaves the
\* others alone.
LEMMA MinOpens ==
    ASSUME NEW st \in [Conn -> ConnStates], NEW fr \in SUBSET Conn,
           NEW bo \in BOOLEAN, NEW tm \in BOOLEAN, NEW f \in 0..MaxFaults,
           EnsureMin(st, fr, bo, tm, f)
    PROVE  /\ state' \in [Conn -> ConnStates]
           /\ fresh' \subseteq Conn /\ backoff' \in BOOLEAN /\ timer' \in BOOLEAN
           /\ faults' \in 0..MaxFaults
           /\ \A c \in Conn : state'[c] = st[c] \/ (st[c] = "none" /\ state'[c] = "Connecting")
<1> USE CountsAreNumbers
<1> DEFINE Opened ==
             /\ state' \in [Conn -> ConnStates]
             /\ \A c \in Conn : state'[c] = st[c] \/ (st[c] = "none" /\ state'[c] = "Connecting")
           Kept == fresh' \subseteq Conn /\ backoff' \in BOOLEAN /\ timer' \in BOOLEAN
                   /\ faults' \in 0..MaxFaults
<1>1. ASSUME NEW new \in SUBSET Unused(st),
             state' = [c \in Conn |-> IF c \in new THEN "Connecting" ELSE st[c]]
      PROVE  Opened
  BY <1>1 DEF Unused, ConnStates
<1>2. CASE Started(st, fr, bo, tm, f)
  BY <1>1, <1>2 DEF Started, Unused
<1>3. CASE Deferred(st, fr, tm, f)
  BY <1>3 DEF Deferred
<1>4. CASE ConnectRefused(st, fr, tm, f)
  <2>1. Kept
    BY <1>4 DEF ConnectRefused
  <2>2. Opened
    BY <1>1, <1>4 DEF ConnectRefused
  <2> QED BY <2>1, <2>2
<1>5. CASE EnsureMinThrows(st, fr, bo, tm, f)
  BY <1>1, <1>5 DEF EnsureMinThrows, Unused
<1>6. CASE state' = st /\ fresh' = fr /\ backoff' = bo /\ timer' = tm /\ faults' = f
  BY <1>6
<1> QED BY <1>2, <1>3, <1>4, <1>5, <1>6 DEF EnsureMin, EnsureMinReturns

\* enqueue() puts the query in the queue, once, and leaves the rest there.
LEMMA EnqueuedHolds ==
    ASSUME NEW s \in Seq(Query), NEW q \in Query, NEW t \in Enqueued(s, q)
    PROVE  /\ t \in Seq(Query)
           /\ Range(t) = Range(s) \cup {q}
           /\ IsInjective(s) /\ q \notin Range(s) => IsInjective(t)
BY InsertAtByIndex, InsertAtHolds DEF Enqueued

\* fail_stranded() keeps or takes out the queries of S, in their order.
LEMMA PickHolds ==
    ASSUME NEW s \in Seq(Query), NEW S, NEW f \in Picks(s, S)
    PROVE  /\ Only(s, f) \in Seq(Query)
           /\ Range(Only(s, f)) = Range(s) \cap S
           /\ IsInjective(s) => IsInjective(Only(s, f))
           /\ \A i, j \in DOMAIN Only(s, f) : i < j =>
                \E k, l \in DOMAIN s : k < l /\ Only(s, f)[i] = s[k] /\ Only(s, f)[j] = s[l]
<1>1. PICK n \in 0..Len(s) : f \in [1..n -> 1..Len(s)]
  BY DEF Picks
<1>2. /\ \A i, j \in 1..n : i < j => f[i] < f[j]
      /\ \A k : k \in Range(f) <=> k \in 1..Len(s) /\ s[k] \in S
  BY <1>1 DEF Picks
<1>3. /\ Len(s) \in Nat /\ \A i \in 1..Len(s) : s[i] \in Query
      /\ DOMAIN s = 1..Len(s)
      /\ \A x : x \in Range(s) <=> \E i \in 1..Len(s) : s[i] = x
  BY RangeByIndex, ElementOfSeq, LenProperties
<1>4. Only(s, f) = [i \in 1..n |-> s[f[i]]]
  BY <1>1 DEF Only
<1>5. Only(s, f) \in Seq(Query)
  <2>1. Only(s, f) \in [1..n -> Query]
    BY <1>1, <1>3, <1>4
  <2> QED BY <1>1, <2>1, SeqDef
<1>6. \A k : k \in Range(f) <=> \E i \in 1..n : f[i] = k
  BY <1>1 DEF Range
<1>7. \A x : x \in Range(Only(s, f)) <=> \E i \in 1..n : s[f[i]] = x
  BY <1>4 DEF Range
<1>8. Range(Only(s, f)) = Range(s) \cap S
  <2>1. ASSUME NEW i \in 1..n PROVE s[f[i]] \in Range(s) \cap S
    BY <1>1, <1>2, <1>3, <1>6
  <2>2. ASSUME NEW x \in Range(s) \cap S PROVE \E i \in 1..n : s[f[i]] = x
    BY <1>2, <1>3, <1>6
  <2> QED BY <1>7, <2>1, <2>2
<1>9. \A i, j \in 1..n : i # j => f[i] # f[j]
  <2> TAKE i, j \in 1..n
  <2>1. f[i] \in Int /\ f[j] \in Int /\ i \in Int /\ j \in Int
    BY <1>1
  <2> QED BY <1>2, <2>1
<1>10. IsInjective(s) => IsInjective(Only(s, f))
  BY <1>1, <1>3, <1>4, <1>9 DEF IsInjective
<1>11. \A i, j \in DOMAIN Only(s, f) : i < j =>
          \E k, l \in DOMAIN s : k < l /\ Only(s, f)[i] = s[k] /\ Only(s, f)[j] = s[l]
  BY <1>1, <1>2, <1>3, <1>4
<1> QED BY <1>5, <1>8, <1>10, <1>11

-----------------------------------------------------------------------------
(* TypeOK.                                                                 *)

\* A query off the connection c.
LEMMA FailInflightType ==
    ASSUME TypeOK, NEW c \in Conn, NEW part \in BOOLEAN, NEW refused \in {0, 1},
           FailInflight(c, part, refused)
    PROVE  /\ queue' \in Seq(Query) /\ lost' \in Seq(Query) /\ lostTimer' \in BOOLEAN
           /\ cur' \in [Conn -> Query \cup {NoQuery}]
<1>1. cur[c] \in Query \cup {NoQuery}
  BY DEF TypeOK
<1>2. cur[c] # NoQuery => Append(lost, cur[c]) \in Seq(Query)
  BY <1>1, AppendProperties DEF TypeOK
<1>3. cur[c] # NoQuery => \A t \in Enqueued(queue, cur[c]) : t \in Seq(Query)
  BY <1>1, EnqueuedHolds DEF TypeOK
<1>4. queue' \in Seq(Query)
  BY <1>3 DEF TypeOK, FailInflight
<1>5. lost' \in Seq(Query)
  BY <1>2 DEF TypeOK, FailInflight
<1>6. lostTimer' \in BOOLEAN
  BY DEF TypeOK, FailInflight
<1>7. cur' \in [Conn -> Query \cup {NoQuery}]
  BY DEF TypeOK, FailInflight
<1> QED BY <1>4, <1>5, <1>6, <1>7

\* The connection c reset or replaced.
LEMMA ReconnectOpens ==
    ASSUME TypeOK, NEW c \in Conn, NEW f \in 0..MaxFaults, Reconnect(c, f)
    PROVE  /\ state' \in [Conn -> ConnStates]
           /\ fresh' \subseteq Conn /\ backoff' \in BOOLEAN /\ timer' \in BOOLEAN
           /\ faults' \in 0..MaxFaults
           /\ state'[c] \in {"Connecting", "Error", "none"}
           /\ \A d \in Conn \ {c} :
                state'[d] = state[d] \/ (state[d] = "none" /\ state'[d] = "Connecting")
<1> DEFINE st == [state EXCEPT ![c] = "none"]
<1>1. /\ st \in [Conn -> ConnStates] /\ fresh \ {c} \in SUBSET Conn
      /\ backoff \in BOOLEAN /\ timer \in BOOLEAN
      /\ st[c] = "none" /\ \A d \in Conn \ {c} : st[d] = state[d]
  BY DEF TypeOK, ConnStates
<1>2. CASE state' = [state EXCEPT ![c] = "Connecting"] /\ fresh' = fresh \cup {c}
           /\ faults' = f /\ UNCHANGED <<backoff, timer>>
  BY <1>2 DEF TypeOK, ConnStates
<1>3. CASE f < MaxFaults /\ EnsureMin(st, fresh \ {c}, backoff, timer, f + 1)
  <2>1. f + 1 \in 0..MaxFaults
    BY <1>3, CountsAreNumbers
  <2> HIDE DEF st
  <2> QED BY <1>1, <1>3, <2>1, MinOpens
<1>4. CASE f < MaxFaults /\ state' = [state EXCEPT ![c] = "Error"]
           /\ fresh' = fresh \ {c} /\ faults' = f + 1 /\ UNCHANGED <<backoff, timer>>
  BY <1>4, CountsAreNumbers DEF TypeOK, ConnStates
<1> QED BY <1>2, <1>3, <1>4 DEF Reconnect

\* The connection c lost, with its query.
LEMMA LoseType ==
    ASSUME TypeOK, NEW c \in Conn, NEW part \in BOOLEAN, NEW whole \in BOOLEAN,
           NEW f \in Nat, Lose(c, part, whole, f), at' \in {"loop", "stallDrain"}, on = NoConn
    PROVE  TypeOK'
<1>1. PICK refused \in {0, 1} : /\ f + refused <= MaxFaults
                                /\ FailInflight(c, part, refused)
                                /\ Reconnect(c, f + refused)
  BY DEF Lose
<1>2. f + refused \in 0..MaxFaults
  BY <1>1, CountsAreNumbers
<1>3. /\ queue' \in Seq(Query) /\ lost' \in Seq(Query) /\ lostTimer' \in BOOLEAN
      /\ cur' \in [Conn -> Query \cup {NoQuery}]
  BY <1>1, FailInflightType
<1>4. /\ state' \in [Conn -> ConnStates]
      /\ fresh' \subseteq Conn /\ backoff' \in BOOLEAN /\ timer' \in BOOLEAN
      /\ faults' \in 0..MaxFaults
  BY <1>1, <1>2, ReconnectOpens
<1>5. UNCHANGED <<probed, waited>>
  BY <1>1 DEF Reconnect
<1>6. /\ partial' \in [Conn -> BOOLEAN] /\ pend' \in [Conn -> Query \cup {NoQuery}]
      /\ sent' \subseteq Conn /\ orphans' \subseteq Query \cup {NoQuery}
      /\ link' \in [Conn -> {"up", "cut", "closed"}]
      /\ srv' \in [Conn -> {"none", "running", "answered"}]
  BY DEF TypeOK, Lose, Forget
<1> QED BY <1>3, <1>4, <1>5, <1>6 DEF TypeOK, Lose, history, Places

\* The queue without its first queries.
LEMMA AfterType ==
    ASSUME TypeOK, NEW n \in 0..Len(queue)
    PROVE  /\ After(n) \in Seq(Query)
           /\ n < Len(queue) => queue[n + 1] \in Query /\ n + 1 \in 0..Len(queue)
<1>1. queue \in Seq(Query) /\ Len(queue) \in Nat
  BY LenProperties DEF TypeOK
<1>2. After(n) \in Seq(Query)
  BY <1>1, FrontTaken DEF After
<1> QED BY <1>1, <1>2, ElementOfSeq

\* The connections that failed to send, reset or left in Error.
LEMMA BrokenType ==
    ASSUME TypeOK, NEW B \in SUBSET Conn, NEW E \in SUBSET B
    PROVE  /\ Cost(B, E) \in Nat /\ faults \in Nat
           /\ AfterBroken(B, E) \in [Conn -> ConnStates]
           /\ fresh \cup (B \ E) \in SUBSET Conn
           /\ faults + Cost(B, E) <= MaxFaults => faults + Cost(B, E) \in 0..MaxFaults
           /\ BrokenOnTheWay(B) => /\ link' \in [Conn -> {"up", "cut", "closed"}]
                                  /\ sent' \subseteq Conn
<1>1. Cost(B, E) \in Nat
  <2>1. {c \in B : link[c] # "closed"} \in SUBSET Conn /\ E \in SUBSET Conn
    OBVIOUS
  <2>2. SendFails(B) \in Nat /\ Cardinality(E) \in Nat
    BY <2>1, CountsAreNumbers DEF SendFails
  <2> QED BY <2>2 DEF Cost
<1>2. faults \in Nat
  BY CountsAreNumbers DEF TypeOK
<1>3. faults + Cost(B, E) <= MaxFaults => faults + Cost(B, E) \in 0..MaxFaults
  BY <1>1, <1>2, CountsAreNumbers
<1> QED BY <1>1, <1>2, <1>3 DEF TypeOK, ConnStates, AfterBroken, BrokenOnTheWay

\* dispatch_queue() keeps the types, whatever calls it.
LEMMA DispatchQueueType ==
    ASSUME TypeOK, NEW c \in Conn, DispatchQueue(c), at' \in Places, on' \in Conn \cup {NoConn},
           at' \in {"handler", "dispatch"} <=> on' # NoConn
    PROVE  TypeOK'
<1> USE CountsAreNumbers
<1>1. ASSUME NEW n \in 0..Len(queue), CanceledInFront(n) PROVE canceledIds' \subseteq Query
  BY <1>1 DEF CanceledInFront, TypeOK
<1>2. CASE DispatchNothing(c)
  <2>1. queue' \in Seq(Query) /\ canceledIds' \subseteq Query
    BY <1>1, <1>2, AfterType DEF DispatchNothing
  <2> QED BY <1>2, <2>1 DEF DispatchNothing, TypeOK, conns, world, history
<1>3. CASE DispatchSends(c)
  <2>1. PICK n \in 0..Len(queue) - 1 :
           CanceledInFront(n) /\ queue' = After(n + 1) /\ Sent(c, queue[n + 1])
    BY <1>3 DEF DispatchSends
  <2>2. n \in 0..Len(queue) /\ n < Len(queue)
    BY LenProperties DEF TypeOK
  <2>3. queue' \in Seq(Query) /\ canceledIds' \subseteq Query /\ queue[n + 1] \in Query
    BY <1>1, <2>1, <2>2, AfterType
  <2>4. /\ cur' \in [Conn -> Query \cup {NoQuery}] /\ partial' \in [Conn -> BOOLEAN]
        /\ srv' \in [Conn -> {"none", "running", "answered"}]
    BY <2>1, <2>3 DEF Sent, TypeOK
  <2> QED BY <1>3, <2>3, <2>4 DEF DispatchSends, TypeOK, ConnStates, history
<1>4. CASE DispatchFails(c)
  <2>1. PICK n \in 0..Len(queue) - 1, E \in SUBSET {c} :
           /\ CanceledInFront(n)
           /\ queue' \in Enqueued(After(n + 1), queue[n + 1])
           /\ faults + Cost({c}, E) <= MaxFaults
           /\ faults' = faults + Cost({c}, E)
           /\ state' = AfterBroken({c}, E)
           /\ fresh' = fresh \cup ({c} \ E)
    BY <1>4 DEF DispatchFails
  <2>2. n \in 0..Len(queue) /\ n < Len(queue)
    BY LenProperties DEF TypeOK
  <2>3. queue' \in Seq(Query) /\ canceledIds' \subseteq Query
    BY <1>1, <2>1, <2>2, AfterType, EnqueuedHolds
  <2>4. /\ state' \in [Conn -> ConnStates] /\ fresh' \subseteq Conn /\ faults' \in 0..MaxFaults
        /\ link' \in [Conn -> {"up", "cut", "closed"}] /\ sent' \subseteq Conn
    <3>1. {c} \in SUBSET Conn /\ E \in SUBSET {c} /\ BrokenOnTheWay({c})
      BY <1>4 DEF DispatchFails
    <3> QED BY <2>1, <3>1, BrokenType
  <2> QED BY <1>4, <2>3, <2>4 DEF DispatchFails, TypeOK, history
<1> QED BY <1>2, <1>3, <1>4 DEF DispatchQueue

\* execute(), in the three ways it ends.
LEMMA ExecuteType ==
    ASSUME TypeOK, NEW q \in Query, ExecuteSends(q) \/ ExecuteQueues(q) \/ ExecuteThrows(q)
    PROVE  TypeOK'
<1> USE CountsAreNumbers
<1>1. Free \in SUBSET Conn
  BY DEF Free
<1>2. CASE ExecuteSends(q)
  <2>1. PICK B \in SUBSET Free, c \in Free : \E E \in SUBSET B :
           /\ c \notin B
           /\ BrokenOnTheWay(B)
           /\ Sent(c, q)
           /\ state' = [AfterBroken(B, E) EXCEPT ![c] = "Busy"]
           /\ fresh' = fresh \cup (B \ E)
           /\ faults + Cost(B, E) <= MaxFaults
           /\ faults' = faults + Cost(B, E)
    BY <1>2 DEF ExecuteSends
  <2>2. PICK E \in SUBSET B :
           /\ BrokenOnTheWay(B)
           /\ Sent(c, q)
           /\ state' = [AfterBroken(B, E) EXCEPT ![c] = "Busy"]
           /\ fresh' = fresh \cup (B \ E)
           /\ faults + Cost(B, E) <= MaxFaults
           /\ faults' = faults + Cost(B, E)
    BY <2>1
  <2>3. B \in SUBSET Conn /\ E \in SUBSET B /\ c \in Conn
    BY <1>1, <2>1, <2>2
  <2>4. /\ AfterBroken(B, E) \in [Conn -> ConnStates] /\ fresh' \subseteq Conn
        /\ faults' \in 0..MaxFaults
        /\ link' \in [Conn -> {"up", "cut", "closed"}] /\ sent' \subseteq Conn
    BY <2>2, <2>3, BrokenType
  <2>5. state' \in [Conn -> ConnStates]
    BY <2>2, <2>3, <2>4 DEF ConnStates
  <2>6. /\ cur' \in [Conn -> Query \cup {NoQuery}] /\ partial' \in [Conn -> BOOLEAN]
        /\ srv' \in [Conn -> {"none", "running", "answered"}]
    BY <2>2, <2>3 DEF Sent, TypeOK
  <2> QED BY <1>2, <2>4, <2>5, <2>6 DEF ExecuteSends, TypeOK, history
<1>3. ASSUME NEW E \in SUBSET Free, BrokenOnTheWay(Free),
             EnsureMin(AfterBroken(Free, E), fresh \cup (Free \ E), backoff, timer,
                       faults + Cost(Free, E)),
             faults + Cost(Free, E) <= MaxFaults
      PROVE  /\ state' \in [Conn -> ConnStates]
             /\ fresh' \subseteq Conn /\ backoff' \in BOOLEAN /\ timer' \in BOOLEAN
             /\ faults' \in 0..MaxFaults
             /\ link' \in [Conn -> {"up", "cut", "closed"}] /\ sent' \subseteq Conn
  <2>1. /\ AfterBroken(Free, E) \in [Conn -> ConnStates] /\ fresh \cup (Free \ E) \in SUBSET Conn
        /\ faults + Cost(Free, E) \in 0..MaxFaults
        /\ link' \in [Conn -> {"up", "cut", "closed"}] /\ sent' \subseteq Conn
    BY <1>1, <1>3, BrokenType
  <2>2. backoff \in BOOLEAN /\ timer \in BOOLEAN
    BY DEF TypeOK
  <2> QED BY ZenonT(60), <1>3, <2>1, <2>2, MinOpens
<1>4. CASE ExecuteQueues(q)
  <2>1. /\ state' \in [Conn -> ConnStates]
        /\ fresh' \subseteq Conn /\ backoff' \in BOOLEAN /\ timer' \in BOOLEAN
        /\ faults' \in 0..MaxFaults
        /\ link' \in [Conn -> {"up", "cut", "closed"}] /\ sent' \subseteq Conn
    BY <1>3, <1>4 DEF ExecuteQueues, EnsureMin
  <2>2. queue' \in Seq(Query)
    BY <1>4, EnqueuedHolds DEF ExecuteQueues, TypeOK
  <2> QED BY <1>4, <2>1, <2>2 DEF ExecuteQueues, TypeOK, history
<1>5. CASE ExecuteThrows(q)
  <2>1. told' \in [Query -> Nat]
    BY <1>5 DEF ExecuteThrows, TypeOK
  <2>2. CASE \E B \in SUBSET Free : \E E \in SUBSET B :
               /\ B # {}
               /\ BrokenOnTheWay(B)
               /\ state' = AfterBroken(B, E)
               /\ fresh' = fresh \cup (B \ E)
               /\ faults + Cost(B, E) < MaxFaults
               /\ faults' = faults + Cost(B, E) + 1
               /\ UNCHANGED <<backoff, timer>>
    <3> PICK B \in SUBSET Free : \E E \in SUBSET B :
            /\ B # {}
            /\ BrokenOnTheWay(B)
            /\ state' = AfterBroken(B, E)
            /\ fresh' = fresh \cup (B \ E)
            /\ faults + Cost(B, E) < MaxFaults
            /\ faults' = faults + Cost(B, E) + 1
            /\ UNCHANGED <<backoff, timer>>
      BY <2>2
    <3>1. PICK E \in SUBSET B :
            /\ BrokenOnTheWay(B)
            /\ state' = AfterBroken(B, E)
            /\ fresh' = fresh \cup (B \ E)
            /\ faults + Cost(B, E) < MaxFaults
            /\ faults' = faults + Cost(B, E) + 1
            /\ UNCHANGED <<backoff, timer>>
      OBVIOUS
    <3>2. B \in SUBSET Conn /\ E \in SUBSET B
      BY <1>1, <3>1
    <3>3. Cost(B, E) \in Nat /\ faults \in Nat
      BY <3>2, BrokenType
    <3>4. faults' \in 0..MaxFaults
      BY <3>1, <3>3
    <3>5. /\ state' \in [Conn -> ConnStates] /\ fresh' \subseteq Conn
          /\ link' \in [Conn -> {"up", "cut", "closed"}] /\ sent' \subseteq Conn
      BY <3>1, <3>2, BrokenType
    <3> QED BY <1>5, <2>1, <3>1, <3>4, <3>5 DEF ExecuteThrows, TypeOK
  <2>3. CASE \E E \in SUBSET Free :
               /\ BrokenOnTheWay(Free)
               /\ EnsureMinThrows(AfterBroken(Free, E), fresh \cup (Free \ E), backoff, timer,
                                  faults + Cost(Free, E))
    <3>1. PICK E \in SUBSET Free :
               /\ BrokenOnTheWay(Free)
               /\ EnsureMinThrows(AfterBroken(Free, E), fresh \cup (Free \ E), backoff, timer,
                                  faults + Cost(Free, E))
      BY <2>3
    <3>2. faults + Cost(Free, E) < MaxFaults
      BY <3>1 DEF EnsureMinThrows
    <3>3. Cost(Free, E) \in Nat /\ faults \in Nat
      BY <1>1, <3>1, BrokenType
    <3>4. faults + Cost(Free, E) <= MaxFaults
      BY <3>2, <3>3
    <3>5. /\ state' \in [Conn -> ConnStates]
          /\ fresh' \subseteq Conn /\ backoff' \in BOOLEAN /\ timer' \in BOOLEAN
          /\ faults' \in 0..MaxFaults
          /\ link' \in [Conn -> {"up", "cut", "closed"}] /\ sent' \subseteq Conn
      BY <1>3, <3>1, <3>4 DEF EnsureMin
    <3> QED BY <1>5, <2>1, <3>5 DEF ExecuteThrows, TypeOK
  <2> QED BY <1>5, <2>2, <2>3 DEF ExecuteThrows
<1> QED BY <1>2, <1>4, <1>5

\* ensure_min_connections() from a handler that changes nothing else of these.
LEMMA EnsureMinType ==
    ASSUME TypeOK, NEW st \in [Conn -> ConnStates], NEW fr \in SUBSET Conn,
           NEW bo \in BOOLEAN, NEW tm \in BOOLEAN, NEW f \in 0..MaxFaults,
           EnsureMin(st, fr, bo, tm, f),
           UNCHANGED <<queries, partial, pend, probed, waited, on>>,
           UNCHANGED <<link, srv, sent, orphans, history>>,
           at' \in Places, at' \in {"handler", "dispatch"} <=> on # NoConn
    PROVE  TypeOK'
<1>1. /\ state' \in [Conn -> ConnStates]
      /\ fresh' \subseteq Conn /\ backoff' \in BOOLEAN /\ timer' \in BOOLEAN
      /\ faults' \in 0..MaxFaults
  BY MinOpens
<1> QED BY <1>1 DEF TypeOK, queries, history

\* fail_stranded(), in the three ways it ends.
LEMMA FailStrandedType == TypeOK /\ FailStranded => TypeOK'
<1> SUFFICES ASSUME TypeOK, FailStranded PROVE TypeOK'
  OBVIOUS
<1> USE CountsAreNumbers
<1>1. queue \in Seq(Query) /\ lost \in Seq(Query)
  BY DEF TypeOK
<1>2. PICK kept \in Picks(queue, Query \ canceledIds) :
         StrandedWaits(kept) \/ StrandedProbes(kept) \/ StrandedFails(kept)
  BY DEF FailStranded
<1>3. Only(queue, kept) \in Seq(Query)
  BY <1>1, PickHolds
<1>4. ASSUME StrandedFail
      PROVE  /\ queue' \in Seq(Query) /\ lost' \in Seq(Query)
             /\ at' = "tell" /\ strandedCalls' \in Nat
  <2>1. PICK out \in Picks(queue, Query \ (canceledIds \cup detachedQ)) :
           lost' = lost \o Only(queue, out)
    BY <1>4 DEF StrandedFail
  <2>2. PICK left \in Picks(queue, detachedQ \ canceledIds) : queue' = Only(queue, left)
    BY <1>4 DEF StrandedFail
  <2>3. Only(queue, out) \in Seq(Query) /\ Only(queue, left) \in Seq(Query)
    BY <1>1, PickHolds
  <2> QED BY <1>1, <1>4, <2>1, <2>2, <2>3, ConcatProperties DEF StrandedFail
<1>5. /\ queue' \in Seq(Query) /\ lost' \in Seq(Query) /\ strandedCalls' \in Nat
      /\ at' \in {"loop", "tell"}
      /\ state' \in [Conn -> ConnStates] /\ faults' \in 0..MaxFaults
      /\ fresh' \subseteq Conn /\ backoff' \in BOOLEAN /\ timer' \in BOOLEAN
      /\ probed' \in BOOLEAN /\ waited' \in BOOLEAN
  <2>1. at = "loop" /\ strandedCalls \in Nat
    BY DEF FailStranded, Loop, TypeOK
  <2>2. CASE StrandedWaits(kept)
    <3>1. /\ queue' = Only(queue, kept)
          /\ UNCHANGED <<lost, at, state, fresh, backoff, timer, probed, faults>>
          /\ \/ UNCHANGED <<waited, strandedCalls>>
             \/ waited' = TRUE /\ strandedCalls' = strandedCalls + 1
      BY <2>2 DEF StrandedWaits
    <3>2. strandedCalls' \in Nat
      BY <2>1, <3>1
    <3>4. waited' \in BOOLEAN
      BY <3>1 DEF TypeOK
    <3>3. queue' \in Seq(Query) /\ lost' \in Seq(Query) /\ at' = "loop"
      BY <1>1, <1>3, <2>1, <3>1
    <3> QED BY <3>1, <3>2, <3>3, <3>4 DEF TypeOK
  <2>3. CASE StrandedProbes(kept)
    <3>1. \/ EnsureMinReturns(state, fresh, FALSE, FALSE, faults)
          \/ EnsureMinThrows(state, fresh, FALSE, FALSE, faults)
      BY <2>3 DEF StrandedProbes
    <3>2. EnsureMin(state, fresh, FALSE, FALSE, faults)
      BY <3>1 DEF EnsureMin
    <3>3. state \in [Conn -> ConnStates] /\ fresh \in SUBSET Conn /\ faults \in 0..MaxFaults
      BY DEF TypeOK
    <3>4. /\ state' \in [Conn -> ConnStates] /\ faults' \in 0..MaxFaults
          /\ fresh' \subseteq Conn /\ backoff' \in BOOLEAN /\ timer' \in BOOLEAN
      BY <3>2, <3>3, MinOpens
    <3>5. probed' \in BOOLEAN /\ waited' \in BOOLEAN
      BY <2>3 DEF StrandedProbes, TypeOK
    <3>6. \/ StrandedFail
          \/ /\ strandedCalls' = strandedCalls + 1 /\ queue' = Only(queue, kept)
             /\ UNCHANGED <<lost, at>>
      BY <2>3 DEF StrandedProbes
    <3> QED BY <1>1, <1>3, <1>4, <2>1, <3>4, <3>5, <3>6
  <2>4. CASE StrandedFails(kept)
    BY <1>4, <2>4 DEF StrandedFails, TypeOK
  <2> QED BY <1>2, <2>2, <2>3, <2>4
<1> QED BY <1>5 DEF FailStranded, Loop, TypeOK, Places

\* A history counts one more of x.
LEMMA OneMore ==
    ASSUME NEW f \in [Query -> Nat], NEW x
    PROVE  [f EXCEPT ![x] = f[x] + 1] \in [Query -> Nat]
<1> DEFINE g == [f EXCEPT ![x] = f[x] + 1]
<1>1. g = [y \in Query |-> g[y]]
  OBVIOUS
<1>2. ASSUME NEW y \in Query PROVE g[y] \in Nat
  <2>1. CASE y = x
    <3>1. f[y] \in Nat
      OBVIOUS
    <3>2. g[y] = f[y] + 1
      BY <2>1
    <3> QED BY <3>1, <3>2
  <2>2. CASE y # x
    BY <2>2
  <2> QED BY <2>1, <2>2
<1> HIDE DEF g
<1>3. g \in [Query -> Nat]
  BY <1>1, <1>2
<1> QED BY <1>3 DEF g

\* Every step keeps the types.
LEMMA TypeStep == TypeOK /\ [Next]_vars => TypeOK'
<1> SUFFICES ASSUME TypeOK, [Next]_vars PROVE TypeOK'
  OBVIOUS
<1> USE CountsAreNumbers
<1>1. CASE UNCHANGED vars
  BY <1>1 DEF vars, queries, conns, world, history, TypeOK
<1>2. ASSUME NEW q \in Query, User(q) PROVE TypeOK'
  <2>1. CASE ExecuteSends(q) \/ ExecuteQueues(q) \/ ExecuteThrows(q)
    BY <2>1, ExecuteType
  <2>2. CASE \E c \in Conn : CancelInFlight(q, c)
    <3>1. faults' \in 0..MaxFaults
      BY <2>2 DEF CancelInFlight, TypeOK
    <3>2. pend' \in [Conn -> Query \cup {NoQuery}]
      BY ZenonT(60), <2>2 DEF CancelInFlight, TypeOK
    <3> QED BY <2>2, <3>1, <3>2 DEF CancelInFlight, NotedCanceled, TypeOK
  <2>3. CASE CancelLost(q)
    BY <2>3 DEF CancelLost, NotedCanceled, TypeOK, conns, world
  <2>4. CASE CancelById(q)
    BY <2>4 DEF CancelById, NotedCanceled, TypeOK, conns, world
  <2> QED BY <1>2, <2>1, <2>2, <2>3, <2>4 DEF User, Cancel
<1>3. ASSUME NEW q \in Query, OrphanRuns(q) PROVE TypeOK'
  BY <1>3 DEF OrphanRuns, TypeOK, queries, conns
<1>4. CASE Detach
  <2>1. detachedQ' \subseteq Query
    BY <1>4, RangeByIndex DEF Detach, Queued, Lost, InFlight, TypeOK
  <2> QED BY <1>4, <2>1 DEF Detach, TypeOK, conns, world, history
<1>5. CASE FailStranded
  BY <1>5, FailStrandedType
<1>6. ASSUME NEW c \in Conn, OnConnection(c) PROVE TypeOK'
  <2>1. CASE ConnectOk(c)
    BY <2>1, ConstantsAssumption DEF ConnectOk, Loop, TypeOK, ConnStates, Places, queries, world
  <2>2. CASE ConnectFailed(c)
    <3> DEFINE st == [state EXCEPT ![c] = "none"]
               fr == IF c \in fresh THEN {} ELSE fresh
               bo == backoff \/ c \in fresh
    <3>1. faults + 1 \in 0..MaxFaults
      BY <2>2 DEF ConnectFailed, TypeOK
    <3>2. /\ st \in [Conn -> ConnStates] /\ fr \in SUBSET Conn
          /\ bo \in BOOLEAN /\ timer \in BOOLEAN
      BY DEF TypeOK, ConnStates
    <3>3. EnsureMin(st, fr, bo, timer, faults + 1)
      BY <2>2 DEF ConnectFailed
    <3>4. at' \in Places /\ (at' \in {"handler", "dispatch"} <=> on # NoConn)
      BY <2>2 DEF ConnectFailed, TypeOK
    <3> HIDE DEF st, fr, bo
    <3> QED BY <2>2, <3>1, <3>2, <3>3, <3>4, EnsureMinType DEF ConnectFailed
  <2>3. CASE Flush(c)
    <3>1. CASE Lose(c, FALSE, link[c] = "up", faults + 1) /\ UNCHANGED at
      <4>1. faults + 1 \in Nat /\ at' = "loop" /\ on = NoConn
        BY <2>3, <3>1 DEF Flush, Loop, TypeOK
      <4> QED BY <3>1, <4>1, LoseType
    <3>2. CASE ~(Lose(c, FALSE, link[c] = "up", faults + 1) /\ UNCHANGED at)
      BY <2>3, <3>2 DEF Flush, TypeOK, queries, history
    <3> QED BY <3>1, <3>2
  <2>4. CASE ResultArrives(c)
    BY <2>4, ConstantsAssumption DEF ResultArrives, Loop, TypeOK, ConnStates, Places
  <2>5. CASE ConnectionLost(c)
    <3>1. /\ faults \in Nat /\ at' = "loop" /\ on = NoConn
          /\ partial[c] \in BOOLEAN /\ Running(c) \in BOOLEAN
      BY <2>5 DEF ConnectionLost, Loop, TypeOK, Running
    <3> QED BY <2>5, <3>1, LoseType DEF ConnectionLost
  <2>6. CASE CancelLeaves(c)
    BY <2>6 DEF CancelLeaves, TypeOK, queries, conns, history
  <2>7. CASE CancelEnds(c)
    BY <2>7, ConstantsAssumption DEF CancelEnds, Loop, TypeOK, Places, queries, history
  <2>8. CASE CancelFails(c)
    <3>1. /\ faults + 1 \in Nat /\ at' = "loop" /\ on = NoConn
          /\ partial[c] \in BOOLEAN /\ Running(c) \in BOOLEAN
      BY <2>8 DEF CancelFails, Loop, TypeOK, Running
    <3> QED BY <2>8, <3>1, LoseType DEF CancelFails
  <2>9. CASE Stall(c)
    <3> DEFINE f == IF link[c] = "up" THEN faults + 1 ELSE faults
    <3>1. /\ f \in Nat /\ at' = "stallDrain" /\ on = NoConn
          /\ partial[c] \in BOOLEAN /\ Running(c) \in BOOLEAN
      BY <2>9 DEF Stall, Loop, TypeOK, Running
    <3>2. Lose(c, partial[c], Running(c), f)
      BY <2>9 DEF Stall
    <3> HIDE DEF f
    <3> QED BY <3>1, <3>2, LoseType
  <2>10. CASE HeartbeatReplaces(c)
    <3> DEFINE st == [state EXCEPT ![c] = "none"]
    <3>1. /\ st \in [Conn -> ConnStates] /\ fresh \in SUBSET Conn
          /\ backoff \in BOOLEAN /\ timer \in BOOLEAN /\ faults \in 0..MaxFaults
          /\ at' \in Places /\ (at' \in {"handler", "dispatch"} <=> on # NoConn)
      BY <2>10 DEF HeartbeatReplaces, TypeOK, ConnStates
    <3>2. EnsureMin(st, fresh, backoff, timer, faults)
      BY <2>10 DEF HeartbeatReplaces
    <3> HIDE DEF st
    <3> QED BY <2>10, <3>1, <3>2, EnsureMinType DEF HeartbeatReplaces
  <2>11. CASE Drain(c)
    BY <2>11, DispatchQueueType DEF Drain, TypeOK
  <2> QED BY <1>6, <2>1, <2>2, <2>3, <2>4, <2>5, <2>6, <2>7, <2>8, <2>9, <2>10, <2>11
          DEF OnConnection
<1>7. ASSUME NEW c \in Conn, Outside(c) PROVE TypeOK'
  <2>1. CASE ServerRuns(c)
    <3>1. ran' \in [Query -> Nat]
      BY <2>1, OneMore DEF ServerRuns, TypeOK
    <3> QED BY <2>1, <3>1 DEF ServerRuns, TypeOK, queries, conns
  <2>2. CASE CancelArrives(c)
    BY <2>2 DEF CancelArrives, TypeOK, queries, conns
  <2>3. CASE LinkBreaks(c)
    BY <2>3 DEF LinkBreaks, TypeOK, queries, conns, history
  <2>4. CASE CutIsNoticed(c)
    BY <2>4 DEF CutIsNoticed, TypeOK, queries, conns, history
  <2> QED BY <1>7, <2>1, <2>2, <2>3, <2>4 DEF Outside
<1>8. CASE OnThread
  <2>1. /\ state \in [Conn -> ConnStates] /\ fresh \in SUBSET Conn
        /\ backoff \in BOOLEAN /\ timer \in BOOLEAN /\ FALSE \in BOOLEAN
        /\ faults \in 0..MaxFaults
    BY DEF TypeOK
  <2>2. CASE Start
    <3>1. at' \in Places /\ (at' \in {"handler", "dispatch"} <=> on # NoConn)
      BY <2>2 DEF Start, TypeOK, Places
    <3> QED BY <2>1, <2>2, <3>1, EnsureMinType DEF Start
  <2>3. CASE HandlerReturns
    BY <2>3 DEF HandlerReturns, TypeOK, Places, queries, conns, world, history
  <2>4. CASE Dispatch
    <3>1. /\ on \in Conn /\ DispatchQueue(on)
          /\ at' \in Places /\ on' \in Conn \cup {NoConn}
          /\ at' \in {"handler", "dispatch"} <=> on' # NoConn
      BY <2>4 DEF Dispatch, TypeOK, Places
    <3> QED BY <3>1, DispatchQueueType
  <2>5. CASE ReconnectTimer
    <3>1. at' \in Places /\ (at' \in {"handler", "dispatch"} <=> on # NoConn)
      BY <2>5 DEF ReconnectTimer, TypeOK
    <3> QED BY <2>1, <2>5, <3>1, EnsureMinType DEF ReconnectTimer
  <2>6. CASE Heartbeat
    BY <2>6 DEF Heartbeat, Loop, TypeOK, Places, queries, conns, world, history
  <2>7. CASE HeartbeatRestores
    <3>1. at' \in Places /\ (at' \in {"handler", "dispatch"} <=> on # NoConn)
      BY <2>7 DEF HeartbeatRestores, TypeOK, Places
    <3> QED BY <2>1, <2>7, <3>1, EnsureMinType DEF HeartbeatRestores
  <2>8. CASE DrainEnds
    <3>1. queue' \in Seq(Query) /\ canceledIds' \subseteq Query
      BY <2>8, AfterType DEF DrainEnds, CanceledInFront, TypeOK
    <3> QED BY <2>8, <3>1 DEF DrainEnds, TypeOK, Places, conns, world, history
  <2>9. CASE LostTimer
    BY <2>9 DEF LostTimer, Loop, TypeOK, Places, conns, world, history
  <2>10. CASE TellLost
    <3>1. lost' \in Seq(Query) /\ Head(lost) \in Query
      BY <2>10, HeadTailProperties DEF TellLost, TypeOK
    <3>2. told' \in [Query -> Nat]
      <4>1. told' = told \/ told' = [told EXCEPT ![Head(lost)] = told[Head(lost)] + 1]
        BY <2>10 DEF TellLost
      <4>2. told \in [Query -> Nat]
        BY DEF TypeOK
      <4> QED BY <4>1, <4>2, OneMore
    <3> QED BY <2>10, <3>1, <3>2 DEF TellLost, TypeOK, Places, conns, world
  <2>11. CASE LostHandlerReturns
    BY <2>11 DEF LostHandlerReturns, TypeOK, Places, queries, conns, world, history
  <2>12. CASE AllToldOfLoss
    BY <2>12 DEF AllToldOfLoss, TypeOK, Places, queries, conns, world, history
  <2> QED BY <1>8, <2>2, <2>3, <2>4, <2>5, <2>6, <2>7, <2>8, <2>9, <2>10, <2>11, <2>12
          DEF OnThread
<1>9. CASE BackoffExpires
  BY <1>9 DEF BackoffExpires, TypeOK, queries, world, history
<1> QED BY <1>1, <1>2, <1>3, <1>4, <1>5, <1>6, <1>7, <1>8, <1>9 DEF Next

LEMMA TypeInit == Init => TypeOK
<1> SUFFICES ASSUME Init PROVE TypeOK
  OBVIOUS
<1>1. <<>> \in Seq(Query)
  OBVIOUS
<1>2. faults \in 0..MaxFaults /\ strandedCalls \in Nat
  BY CountsAreNumbers DEF Init
<1>3. told \in [Query -> Nat] /\ ran \in [Query -> Nat]
  BY DEF Init
<1>4. at \in Places /\ (at \in {"handler", "dispatch"} <=> on # NoConn)
  BY DEF Init, Places
<1> QED BY <1>1, <1>2, <1>3, <1>4 DEF Init, TypeOK, ConnStates

\* Every variable of PgPool keeps to its type, in every execution.
THEOREM TypeCorrect == Spec => []TypeOK
BY TypeInit, TypeStep, PTL DEF Spec

-----------------------------------------------------------------------------
(* The places of a query.                                                  *)

\* The queries on the connections when nothing changes but the one of c.
LEMMA TakenOff ==
    ASSUME TypeOK, OnePlace, NEW c \in Conn, cur' = [cur EXCEPT ![c] = NoQuery]
    PROVE  InFlight' = InFlight \ {cur[c]}
<1>1. \A d \in Conn : cur'[d] = IF d = c THEN NoQuery ELSE cur[d]
  BY DEF TypeOK
<1>2. \A d \in Conn : cur[d] = cur[c] /\ cur[d] # NoQuery => d = c
  BY DEF OnePlace
<1>3. ASSUME NEW x PROVE x \in InFlight' <=> x \in InFlight \ {cur[c]}
  <2>1. x \in InFlight' <=> x # NoQuery /\ \E d \in Conn : d # c /\ cur[d] = x
    BY <1>1 DEF InFlight
  <2>2. x \in InFlight \ {cur[c]} <=> x # NoQuery /\ x # cur[c] /\ \E d \in Conn : cur[d] = x
    BY DEF InFlight
  <2> QED BY <1>2, <2>1, <2>2
<1> QED BY <1>3

LEMMA PutOn ==
    ASSUME TypeOK, NEW c \in Conn, NEW q \in Query, cur[c] = NoQuery,
           cur' = [cur EXCEPT ![c] = q]
    PROVE  InFlight' = InFlight \cup {q}
<1>1. \A d \in Conn : cur'[d] = IF d = c THEN q ELSE cur[d]
  BY DEF TypeOK
<1>2. q # NoQuery
  BY ConstantsAssumption
<1>3. ASSUME NEW x PROVE x \in InFlight' <=> x \in InFlight \cup {q}
  <2>1. x \in InFlight' <=> x # NoQuery /\ \E d \in Conn : cur'[d] = x
    BY DEF InFlight
  <2>2. x \in InFlight <=> x # NoQuery /\ \E d \in Conn : cur[d] = x
    BY DEF InFlight
  <2> QED BY <1>1, <1>2, <2>1, <2>2
<1> QED BY <1>3

\* OnePlace, of the places as sets.
LEMMA PlacesDiffer ==
    ASSUME TypeOK
    PROVE  OnePlace <=>
             /\ IsInjective(queue) /\ IsInjective(lost)
             /\ Queued \cap Lost = {} /\ InFlight \cap (Queued \cup Lost) = {}
             /\ \A c, d \in Conn : cur[c] = cur[d] /\ cur[c] # NoQuery => c = d
<1>1. NoQuery \notin Queued \cup Lost
  BY ConstantsAssumption, RangeByIndex DEF TypeOK, Queued, Lost
<1> QED BY <1>1 DEF OnePlace, InFlight

\* The places hold queries, and these are on their way from a caller.
LEMMA PlacedAreQueries ==
    ASSUME TypeOK
    PROVE  /\ Queued \subseteq Query /\ Lost \subseteq Query /\ InFlight \subseteq Query
           /\ \A c \in Conn : cur[c] # NoQuery => cur[c] \in InFlight
           /\ \A x \in InFlight : \E c \in Conn : cur[c] = x
BY RangeByIndex DEF TypeOK, Queued, Lost, InFlight

\* OnePlace after a step, of the places as sets.
LEMMA OnePlaceNext ==
    ASSUME TypeOK', IsInjective(queue'), IsInjective(lost'),
           Queued' \cap Lost' = {}, InFlight' \cap (Queued' \cup Lost') = {},
           \A c, d \in Conn : cur'[c] = cur'[d] /\ cur'[c] # NoQuery => c = d
    PROVE  OnePlace'
<1>1. queue' \in Seq(Query) /\ lost' \in Seq(Query)
  BY DEF TypeOK
<1>2. NoQuery \notin Range(queue') \cup Range(lost')
  BY <1>1, ConstantsAssumption, RangeByIndex
<1>3. \A c \in Conn : cur'[c] = NoQuery \/ cur'[c] \in InFlight'
  BY DEF InFlight
<1> QED BY <1>2, <1>3 DEF OnePlace, Queued, Lost

-----------------------------------------------------------------------------
(* Steps that move no query.                                               *)

\* A step that leaves the queries, their marks and their sessions alone.
LEMMA CalmKeeps ==
    ASSUME Inv, TypeOK', StrandedAgrees',
           UNCHANGED <<queue, cur, lost, asked, marked, canceledIds, detached, detachedQ>>,
           UNCHANGED <<partial, pend, srv, orphans, told, canceled, ran, killed>>,
           \A c \in Conn : state'[c] = "Busy" <=> state[c] = "Busy",
           \A c \in Conn : pend[c] # NoQuery => state'[c] = state[c],
           \A c \in sent' : c \in sent \/ pend[c] # NoQuery
    PROVE  Inv'
<1>1. Queued' = Queued /\ Lost' = Lost /\ InFlight' = InFlight /\ Placed' = Placed
  BY DEF Queued, Lost, InFlight, Placed
<1>2. /\ OnePlace /\ NothingForgotten /\ CancelHitsItsOwn /\ UndetachedFirst
      /\ SessionsAgree /\ HistoryAgrees /\ RunAgrees /\ CancelAgrees /\ RequestsAgree
      /\ (~detached => detachedQ = {})
  BY DEF Inv, Agreements
<1>3. OnePlace'
  BY <1>1, <1>2 DEF OnePlace
<1>4. NothingForgotten'
  BY <1>1, <1>2 DEF NothingForgotten
<1>5. CancelHitsItsOwn' /\ UndetachedFirst' /\ (~detached => detachedQ = {})'
  BY <1>2 DEF CancelHitsItsOwn, UndetachedFirst
<1>6. SessionsAgree'
  BY <1>2 DEF SessionsAgree
<1>7. HistoryAgrees'
  BY <1>1, <1>2 DEF HistoryAgrees
<1>8. RunAgrees'
  BY <1>1, <1>2 DEF RunAgrees, Running
<1>9. CancelAgrees'
  BY <1>1, <1>2 DEF CancelAgrees
<1>10. RequestsAgree'
  <2>1. sent' \subseteq Conn
    BY DEF TypeOK
  <2> QED BY <1>2, <2>1 DEF RequestsAgree
<1> QED BY <1>3, <1>4, <1>5, <1>6, <1>7, <1>8, <1>9, <1>10 DEF Inv, Agreements

\* A connection that may be opened, replaced or come up has no query.
LEMMA NotBusyIsFree ==
    ASSUME Inv, NEW c \in Conn, state[c] \notin {"Ready", "Busy"}
    PROVE  pend[c] = NoQuery /\ cur[c] = NoQuery /\ srv[c] = "none" /\ ~partial[c] /\ c \notin sent
BY DEF Inv, Agreements, SessionsAgree, RequestsAgree, TypeOK

\* ensure_min_connections() from connections that differ from the pool's in
\* one that is not Ready or Busy.
LEMMA EnsureMinKeeps ==
    ASSUME Inv, TypeOK', NEW st \in [Conn -> ConnStates], NEW fr \in SUBSET Conn,
           NEW bo \in BOOLEAN, NEW tm \in BOOLEAN, NEW f \in 0..MaxFaults,
           EnsureMin(st, fr, bo, tm, f),
           \A c \in Conn : st[c] = state[c] \/ (/\ state[c] \notin {"Ready", "Busy"}
                                                /\ st[c] = "none"),
           UNCHANGED <<queries, partial, pend, probed, waited, on>>,
           UNCHANGED <<link, srv, sent, orphans, history>>
    PROVE  Inv'
<1>1. \A c \in Conn : state'[c] = st[c] \/ (st[c] = "none" /\ state'[c] = "Connecting")
  BY MinOpens
<1>2. \A c \in Conn : state'[c] = state[c]
                        \/ (/\ state[c] \notin {"Ready", "Busy"}
                            /\ state'[c] \in {"none", "Connecting"})
  BY <1>1
<1>3. \A c \in Conn : state'[c] = "Busy" <=> state[c] = "Busy"
  BY <1>2
<1>4. \A c \in Conn : pend[c] # NoQuery => state'[c] = state[c]
  BY <1>2, NotBusyIsFree
<1>5. StrandedAgrees'
  BY DEF Inv, Agreements, StrandedAgrees, history
<1> QED BY <1>3, <1>4, <1>5, CalmKeeps DEF queries, history

-----------------------------------------------------------------------------
(* The queues.                                                             *)

\* No query somebody waits for stands behind one nobody waits for.
InTurn(s) == detached => \A i, j \in DOMAIN s : i < j /\ s[i] \in detachedQ => s[j] \in detachedQ

\* enqueue() keeps the turns.
LEMMA EnqueuedInTurn ==
    ASSUME NEW s \in Seq(Query), NEW q \in Query, NEW t \in Enqueued(s, q), InTurn(s)
    PROVE  InTurn(t)
<1> SUFFICES ASSUME detached,
                    NEW i \in DOMAIN t, NEW j \in DOMAIN t, i < j, t[i] \in detachedQ
             PROVE  t[j] \in detachedQ
  BY DEF InTurn
<1>1. Len(s) \in Nat /\ DOMAIN s = 1..Len(s)
  BY LenProperties
<1>2. PICK k \in 1..Len(s) + 1 :
         /\ t = InsertAt(s, k, q)
         /\ IF detached /\ q \notin detachedQ
            THEN /\ \A n \in 1..k - 1 : s[n] \notin detachedQ
                 /\ k <= Len(s) => s[k] \in detachedQ
            ELSE k = Len(s) + 1
  BY DEF Enqueued
<1>3. /\ DOMAIN t = 1..Len(s) + 1
      /\ \A n \in 1..Len(s) + 1 :
            t[n] = IF n < k THEN s[n] ELSE IF n = k THEN q ELSE s[n - 1]
  <2>1. /\ t \in Seq(Query) /\ Len(t) = Len(s) + 1
        /\ \A n \in 1..Len(s) + 1 :
              t[n] = IF n < k THEN s[n] ELSE IF n = k THEN q ELSE s[n - 1]
    <3> DEFINE u == InsertAt(s, k, q)
    <3>1. /\ u \in Seq(Query) /\ Len(u) = Len(s) + 1
          /\ \A n \in 1..Len(s) + 1 :
                u[n] = IF n < k THEN s[n] ELSE IF n = k THEN q ELSE s[n - 1]
      BY InsertAtByIndex
    <3>2. t = u
      BY <1>2
    <3> HIDE DEF u
    <3> QED BY <3>1, <3>2
  <2> QED BY <2>1, LenProperties
<1>4. \A m, n \in 1..Len(s) : m < n /\ s[m] \in detachedQ => s[n] \in detachedQ
  BY <1>1 DEF InTurn
<1>5. i \in 1..Len(s) + 1 /\ j \in 1..Len(s) + 1
  BY <1>3
<1>6. CASE q \in detachedQ
  <2>1. k = Len(s) + 1
    BY <1>2, <1>6
  <2>2. CASE j = k
    BY <1>3, <1>5, <1>6, <2>2
  <2>3. CASE j # k
    BY <1>1, <1>3, <1>4, <1>5, <2>1, <2>3
  <2> QED BY <2>2, <2>3
<1>7. CASE q \notin detachedQ
  <2>1. i > k
    <3>1. i # k
      BY <1>3, <1>5, <1>7
    <3>2. ~(i < k)
      BY <1>1, <1>2, <1>3, <1>5, <1>7
    <3> QED BY <1>5, <3>1, <3>2
  <2>2. /\ t[i] = s[i - 1] /\ t[j] = s[j - 1]
        /\ i - 1 \in 1..Len(s) /\ j - 1 \in 1..Len(s) /\ i - 1 < j - 1
    BY <1>1, <1>3, <1>5, <2>1
  <2> QED BY <1>4, <2>2
<1> QED BY <1>6, <1>7

\* The queue less its first queries is in turn as well.
LEMMA AfterInTurn ==
    ASSUME TypeOK, NEW n \in 0..Len(queue), InTurn(queue)
    PROVE  InTurn(After(n))
<1>1. /\ queue \in Seq(Query) /\ Len(queue) \in Nat /\ DOMAIN queue = 1..Len(queue)
  BY LenProperties DEF TypeOK
<1>2. /\ DOMAIN After(n) = 1..Len(queue) - n
      /\ \A i \in 1..Len(queue) - n : After(n)[i] = queue[n + i]
  BY <1>1, FrontTaken, LenProperties DEF After
<1>3. \A i \in 1..Len(queue) - n : n + i \in 1..Len(queue)
  BY <1>1
<1> QED BY <1>1, <1>2, <1>3 DEF InTurn

\* A query that may be repeated, or was not sent whole, taken off c; or one
\* that is lost or let go.
LEMMA FailInflightMoves ==
    ASSUME Inv, TypeOK', NEW c \in Conn, NEW part \in BOOLEAN, NEW refused \in {0, 1},
           FailInflight(c, part, refused), UNCHANGED <<detached, detachedQ>>
    PROVE  /\ OnePlace' /\ InTurn(queue') /\ InFlight' = InFlight \ {cur[c]}
           /\ \/ /\ cur[c] \in marked \cup {NoQuery}
                 /\ Queued' = Queued /\ Lost' = Lost
              \/ /\ cur[c] \in Query \ marked /\ MayRepeat(cur[c], part)
                 /\ Queued' = Queued \cup {cur[c]} /\ Lost' = Lost
              \/ /\ cur[c] \in Query \ marked
                 /\ Queued' = Queued /\ Lost' = Lost \cup {cur[c]}
<1> DEFINE q == cur[c]
<1>1. /\ TypeOK /\ OnePlace /\ InTurn(queue) /\ queue \in Seq(Query) /\ lost \in Seq(Query)
      /\ q \in Query \cup {NoQuery}
  BY DEF Inv, TypeOK, UndetachedFirst, InTurn
<1>2. cur' = [cur EXCEPT ![c] = NoQuery]
  BY DEF FailInflight
<1>3. InFlight' = InFlight \ {q}
  BY <1>1, <1>2, TakenOff
<1>4. /\ IsInjective(queue) /\ IsInjective(lost)
      /\ Queued \cap Lost = {} /\ InFlight \cap (Queued \cup Lost) = {}
      /\ \A d, e \in Conn : cur[d] = cur[e] /\ cur[d] # NoQuery => d = e
  BY <1>1, PlacesDiffer
<1>5. \A d, e \in Conn : cur'[d] = cur'[e] /\ cur'[d] # NoQuery => d = e
  BY <1>1, <1>2, <1>4 DEF TypeOK
<1>6. q # NoQuery => q \in InFlight
  BY <1>1, PlacedAreQueries
<1>7. CASE q \in marked \cup {NoQuery}
  <2>1. queue' = queue /\ lost' = lost
    BY <1>7 DEF FailInflight
  <2>2. Queued' = Queued /\ Lost' = Lost
    BY <2>1 DEF Queued, Lost
  <2>3. OnePlace'
    BY <1>3, <1>4, <1>5, <2>1, <2>2, OnePlaceNext
  <2>4. InTurn(queue')
    BY <1>1, <2>1
  <2> QED BY <1>3, <1>7, <2>2, <2>3, <2>4
<1>8. CASE q \in Query \ marked /\ q # NoQuery /\ MayRepeat(q, part)
  <2>1. queue' \in Enqueued(queue, q) /\ lost' = lost
    BY <1>8 DEF FailInflight
  <2>2. q \notin Queued \cup Lost
    BY <1>4, <1>6, <1>8
  <2>3. Range(queue') = Range(queue) \cup {q} /\ IsInjective(queue')
    BY <1>1, <1>4, <1>8, <2>1, <2>2, EnqueuedHolds DEF Queued
  <2>4. Queued' = Queued \cup {q} /\ Lost' = Lost
    BY <2>1, <2>3 DEF Queued, Lost
  <2>5. OnePlace'
    BY <1>3, <1>4, <1>5, <2>1, <2>2, <2>3, <2>4, OnePlaceNext
  <2>6. InTurn(queue')
    BY <1>1, <1>8, <2>1, EnqueuedInTurn
  <2> QED BY <1>3, <1>8, <2>4, <2>5, <2>6
<1>9. CASE q \in Query \ marked /\ q # NoQuery /\ ~MayRepeat(q, part)
  <2>1. queue' = queue /\ lost' = Append(lost, q)
    BY <1>9 DEF FailInflight
  <2>2. q \notin Queued \cup Lost
    BY <1>4, <1>6, <1>9
  <2>3. Range(lost') = Range(lost) \cup {q} /\ IsInjective(lost')
    BY <1>1, <1>4, <1>9, <2>1, <2>2, AppendHolds DEF Lost
  <2>4. Queued' = Queued /\ Lost' = Lost \cup {q}
    BY <2>1, <2>3 DEF Queued, Lost
  <2>5. OnePlace'
    BY <1>3, <1>4, <1>5, <2>1, <2>2, <2>3, <2>4, OnePlaceNext
  <2>6. InTurn(queue')
    BY <1>1, <2>1
  <2> QED BY <1>3, <1>9, <2>4, <2>5, <2>6
<1> QED BY <1>1, <1>7, <1>8, <1>9

-----------------------------------------------------------------------------
(* A connection is lost.                                                   *)

\* The parts of Inv, by name.
LEMMA InvParts ==
    Inv <=> /\ TypeOK /\ OnePlace /\ NothingForgotten /\ CancelHitsItsOwn /\ UndetachedFirst
            /\ SessionsAgree /\ HistoryAgrees /\ RunAgrees /\ CancelAgrees /\ RequestsAgree
            /\ StrandedAgrees /\ (~detached => detachedQ = {})
BY DEF Inv, Agreements

\* The query on the connection is nowhere else, asked for, and not told.
LEMMA QueryOn ==
    ASSUME Inv, NEW c \in Conn, cur[c] # NoQuery
    PROVE  /\ cur[c] \in Query /\ cur[c] \in asked /\ told[cur[c]] = 0
           /\ cur[c] \in InFlight /\ cur[c] \notin Queued \cup Lost
           /\ state[c] = "Busy"
           /\ cur[c] \in canceled => cur[c] \in marked
           /\ cur[c] \notin canceledIds
<1>1. cur[c] \in Query /\ cur[c] \in InFlight /\ cur[c] \in Placed
  BY InvParts, PlacedAreQueries DEF Placed
<1> QED BY <1>1, InvParts DEF OnePlace, HistoryAgrees, SessionsAgree, CancelAgrees

\* A loss keeps the invariant: where the query goes back to the queue, nothing
\* of it has run or will, unless it may be repeated.
LEMMA LoseKeeps ==
    ASSUME Inv, TypeOK', NEW c \in Conn, NEW part \in BOOLEAN, NEW whole \in BOOLEAN,
           NEW f \in Nat, Lose(c, part, whole, f),
           part => partial[c] /\ ~whole,
           whole => partial[c] \/ Running(c)
    PROVE  Inv'
<1> DEFINE q == cur[c]
<1>1. PICK refused \in {0, 1} : FailInflight(c, part, refused) /\ Reconnect(c, f + refused)
                                  /\ f + refused \in 0..MaxFaults
  <2>1. PICK refused \in {0, 1} : FailInflight(c, part, refused) /\ Reconnect(c, f + refused)
                                  /\ f + refused <= MaxFaults
    BY DEF Lose
  <2> QED BY <2>1, CountsAreNumbers
<1>2. /\ UNCHANGED <<asked, marked, canceledIds, detached, detachedQ, history>>
      /\ Forget(c, whole)
  BY DEF Lose
<1>3. /\ OnePlace' /\ InTurn(queue') /\ InFlight' = InFlight \ {q}
      /\ \/ /\ q \in marked \cup {NoQuery}
            /\ Queued' = Queued /\ Lost' = Lost
         \/ /\ q \in Query \ marked /\ MayRepeat(q, part)
            /\ Queued' = Queued \cup {q} /\ Lost' = Lost
         \/ /\ q \in Query \ marked
            /\ Queued' = Queued /\ Lost' = Lost \cup {q}
  BY <1>1, <1>2, FailInflightMoves
<1>4. /\ state'[c] \in {"Connecting", "Error", "none"}
      /\ \A d \in Conn \ {c} :
           state'[d] = state[d] \/ (state[d] = "none" /\ state'[d] = "Connecting")
      /\ UNCHANGED <<probed, waited>>
  BY <1>1, ReconnectOpens, InvParts DEF Reconnect
<1>5. cur' = [cur EXCEPT ![c] = NoQuery]
  BY <1>1 DEF FailInflight
<1>6. /\ \A d \in Conn : cur'[d] = IF d = c THEN NoQuery ELSE cur[d]
      /\ \A d \in Conn : partial'[d] = IF d = c THEN FALSE ELSE partial[d]
      /\ \A d \in Conn : pend'[d] = IF d = c THEN NoQuery ELSE pend[d]
      /\ \A d \in Conn : srv'[d] = IF d = c THEN "none" ELSE srv[d]
      /\ sent' = sent \ {c}
      /\ orphans' = IF whole THEN orphans \cup {q} ELSE orphans
  BY <1>2, <1>5, InvParts DEF Forget, TypeOK
<1>7. /\ Placed' = Placed \/ (Placed' = Placed \ {q} /\ q \in marked \cup {NoQuery})
      /\ Placed' \subseteq Placed
  <2>1. q # NoQuery => q \in InFlight
    BY QueryOn
  <2>2. q \in Query => q # NoQuery
    BY ConstantsAssumption
  <2>3. q # NoQuery => q \notin Queued \cup Lost
    BY QueryOn
  <2>4. NoQuery \notin InFlight
    BY DEF InFlight
  <2>5. NoQuery \notin Queued \cup Lost
    BY InvParts, PlacedAreQueries, ConstantsAssumption
  <2> QED BY <1>3, <2>1, <2>2, <2>3, <2>4, <2>5 DEF Placed
<1>8. NothingForgotten'
  <2>1. marked \subseteq canceled
    BY InvParts DEF CancelAgrees
  <2>2. \A x \in asked : told[x] = 0 /\ x \notin canceled \cup detachedQ => x \in Placed
    BY InvParts DEF NothingForgotten, Placed
  <2>3. NoQuery \notin asked
    BY InvParts, ConstantsAssumption DEF TypeOK
  <2>4. \A x \in asked : told[x] = 0 /\ x \notin canceled \cup detachedQ => x \in Placed'
    BY <1>7, <2>1, <2>2, <2>3
  <2> QED BY <1>2, <2>4 DEF NothingForgotten, Placed, history
<1>9. CancelHitsItsOwn' /\ (~detached => detachedQ = {})' /\ StrandedAgrees' /\ UndetachedFirst'
  BY <1>2, <1>3, <1>4, InvParts
     DEF CancelHitsItsOwn, StrandedAgrees, history, UndetachedFirst, InTurn
<1>10. SessionsAgree'
  BY ZenonT(60), <1>4, <1>6, InvParts DEF SessionsAgree
<1>11. HistoryAgrees'
  <2>1. orphans' \subseteq asked
    <3>1. CASE whole
      <4>1. q # NoQuery
        BY <3>1, InvParts DEF SessionsAgree, Running
      <4> QED BY <1>6, <4>1, QueryOn, InvParts DEF HistoryAgrees
    <3>2. CASE ~whole
      BY <1>6, <3>2, InvParts DEF HistoryAgrees
    <3> QED BY <3>1, <3>2
  <2> QED BY <1>2, <1>7, <2>1, InvParts DEF HistoryAgrees, history
<1>12. CancelAgrees'
  <2>1. q # NoQuery => q \notin canceledIds /\ (q \in canceled => q \in marked)
    BY QueryOn
  <2>2. q \in Query => q # NoQuery
    BY ConstantsAssumption
  <2> QED BY <1>2, <1>3, <2>1, <2>2, InvParts DEF CancelAgrees, history
<1>13. RequestsAgree'
  BY <1>2, <1>4, <1>6, InvParts DEF RequestsAgree, history
<1>14. RunAgrees'
  <2> SUFFICES ASSUME NEW x \in Query \ Retryable
               PROVE  /\ ran[x] <= 1
                      /\ x \in Queued' \/ x \notin asked => ran[x] = 0 /\ x \notin orphans'
                      /\ x \in orphans' => ran[x] = 0 /\ x \notin InFlight'
                      /\ \A d \in Conn : cur'[d] = x /\ (partial'[d] \/ srv'[d] = "running")
                                            => ran[x] = 0
    BY <1>2 DEF RunAgrees, Running, history
  <2>1. /\ ran[x] <= 1
        /\ x \in Queued \/ x \notin asked => ran[x] = 0 /\ x \notin orphans
        /\ x \in orphans => ran[x] = 0 /\ x \notin InFlight
        /\ \A d \in Conn : cur[d] = x /\ (partial[d] \/ srv[d] = "running") => ran[x] = 0
    BY InvParts DEF RunAgrees, Running
  <2>2. CASE x = q
    <3>1. q # NoQuery
      BY <2>2, ConstantsAssumption
    <3>2. q \in InFlight /\ q \in asked /\ q \notin Queued \cup Lost
      BY <3>1, QueryOn
    <3>3. whole => ran[x] = 0
      BY <2>1, <2>2 DEF Running
    <3>4. x \in Queued' => part /\ ran[x] = 0
      BY <1>3, <2>1, <2>2, <3>2 DEF MayRepeat
    <3>5. x \notin orphans /\ x \notin InFlight'
      BY <1>3, <2>1, <2>2, <3>2
    <3>6. x \in orphans' => whole
      BY <1>6, <3>5
    <3>7. \A d \in Conn : cur'[d] = x /\ (partial'[d] \/ srv'[d] = "running") => ran[x] = 0
      BY <1>6, <2>1
    <3> QED BY <2>1, <2>2, <3>2, <3>3, <3>4, <3>5, <3>6, <3>7
  <2>3. CASE x # q
    <3>1. (x \in Queued' <=> x \in Queued) /\ (x \in InFlight' <=> x \in InFlight)
      BY <1>3, <2>3
    <3>2. x \in orphans' <=> x \in orphans
      BY <1>6, <2>3
    <3>3. \A d \in Conn : cur'[d] = x /\ (partial'[d] \/ srv'[d] = "running") => ran[x] = 0
      BY <1>6, <2>1, ConstantsAssumption
    <3> QED BY <2>1, <3>1, <3>2, <3>3
  <2> QED BY <2>2, <2>3
<1> QED BY <1>3, <1>8, <1>9, <1>10, <1>11, <1>12, <1>13, <1>14 DEF Inv, Agreements

-----------------------------------------------------------------------------
(* The queue changes, a query is sent.                                     *)

\* Connections change, none of them with a query or a cancel request.
Restful == /\ \A c \in Conn : state'[c] = "Busy" <=> state[c] = "Busy"
           /\ \A c \in Conn : pend[c] # NoQuery => state'[c] = state[c]

\* A connection that takes queries has none, and nothing of one.
LEMMA FreeHasNothing ==
    ASSUME Inv, NEW c \in Free
    PROVE  /\ c \in Conn /\ state[c] = "Ready" /\ pend[c] = NoQuery /\ c \notin sent
           /\ cur[c] = NoQuery /\ srv[c] = "none" /\ ~partial[c]
BY InvParts DEF Free, SessionsAgree, RequestsAgree

\* Connections that do not take the query are reset.
LEMMA BrokenAreRestful ==
    ASSUME Inv, NEW B \in SUBSET Free, NEW E \in SUBSET B
    PROVE  \A c \in Conn : /\ AfterBroken(B, E)[c] = "Busy" <=> state[c] = "Busy"
                           /\ pend[c] # NoQuery => AfterBroken(B, E)[c] = state[c]
                           /\ c \notin B => AfterBroken(B, E)[c] = state[c]
<1>1. \A c \in B : state[c] = "Ready" /\ pend[c] = NoQuery
  BY FreeHasNothing
<1>2. \A c \in Conn : AfterBroken(B, E)[c] =
         IF c \in E THEN "Error" ELSE IF c \in B THEN "Connecting" ELSE state[c]
  BY DEF AfterBroken
<1> QED BY <1>1, <1>2

\* What a query nobody asked for yet has left behind: nothing.
LEMMA NewQuery ==
    ASSUME Inv, NEW q \in Query, q \notin asked
    PROVE  /\ q \notin Placed /\ told[q] = 0
           /\ q \notin marked \cup canceledIds \cup canceled \cup detachedQ \cup orphans
           /\ q \notin Retryable => ran[q] = 0
BY InvParts DEF HistoryAgrees, RunAgrees

LEMMA StrandedSame ==
    ASSUME Inv, UNCHANGED <<probed, waited, strandedCalls>>
    PROVE  StrandedAgrees'
BY InvParts DEF StrandedAgrees

\* The queue takes the queries N in and gives canceled ones up.
LEMMA QueueKeeps ==
    ASSUME Inv, TypeOK', NEW N \in SUBSET Query, N \cap asked = {},
           UNCHANGED <<cur, lost, marked, detached, detachedQ, partial, pend, srv, orphans>>,
           UNCHANGED <<told, canceled, ran, killed>>, StrandedAgrees',
           asked' = asked \cup N,
           IsInjective(queue'), InTurn(queue'),
           Queued' \subseteq Queued \cup N, N \subseteq Queued',
           Queued \ Queued' \subseteq canceledIds,
           canceledIds' \subseteq canceledIds,
           Queued' \cap canceledIds' = Queued' \cap canceledIds,
           Restful, sent' \subseteq sent
    PROVE  Inv'
<1>1. \A x \in N : /\ x \notin Placed /\ told[x] = 0
                   /\ x \notin marked \cup canceledIds \cup canceled \cup detachedQ \cup orphans
                   /\ x \notin Retryable => ran[x] = 0
  BY NewQuery
<1>2. InFlight' = InFlight /\ Lost' = Lost
  BY DEF InFlight, Lost
<1>3. OnePlace'
  <2>1. /\ IsInjective(lost) /\ Queued \cap Lost = {} /\ InFlight \cap (Queued \cup Lost) = {}
        /\ \A c, d \in Conn : cur[c] = cur[d] /\ cur[c] # NoQuery => c = d
    BY InvParts, PlacesDiffer
  <2> QED BY <1>1, <1>2, <2>1, OnePlaceNext DEF Placed
<1>4. Queued \cap canceledIds = Queued \cap canceled
  BY InvParts DEF CancelAgrees
<1>5. NothingForgotten'
  BY <1>2, <1>4, InvParts DEF NothingForgotten
<1>6. CancelHitsItsOwn' /\ UndetachedFirst' /\ (~detached => detachedQ = {})' /\ StrandedAgrees'
  BY InvParts DEF CancelHitsItsOwn, UndetachedFirst, InTurn
<1>7. SessionsAgree'
  BY InvParts DEF SessionsAgree, Restful
<1>8. HistoryAgrees'
  BY <1>1, <1>2, InvParts DEF HistoryAgrees, Placed
<1>9. RunAgrees'
  <2> SUFFICES ASSUME NEW x \in Query \ Retryable
               PROVE  /\ ran[x] <= 1
                      /\ x \in Queued' \/ x \notin asked' => ran[x] = 0 /\ x \notin orphans
                      /\ x \in orphans => ran[x] = 0 /\ x \notin InFlight
                      /\ \A c \in Conn : cur[c] = x /\ (partial[c] \/ Running(c)) => ran[x] = 0
    BY <1>2 DEF RunAgrees, Running
  <2> QED BY <1>1, InvParts DEF RunAgrees
<1>10. CancelAgrees'
  BY <1>1, <1>2, <1>4, InvParts DEF CancelAgrees
<1>11. RequestsAgree'
  BY InvParts DEF RequestsAgree, Restful
<1> QED BY <1>3, <1>5, <1>6, <1>7, <1>8, <1>9, <1>10, <1>11 DEF Inv, Agreements

\* The query q goes out on c, from the queue or straight from its caller.
LEMMA SentKeeps ==
    ASSUME Inv, TypeOK', NEW c \in Free, NEW q \in Query, Sent(c, q),
           UNCHANGED <<lost, marked, detached, detachedQ, pend, orphans>>,
           UNCHANGED <<told, canceled, ran, killed, waited, probed, strandedCalls>>,
           asked' = asked \cup {q},
           q \notin InFlight \cup Lost, q \notin canceledIds \cup canceled, told[q] = 0,
           q \notin Retryable => ran[q] = 0 /\ q \notin orphans,
           IsInjective(queue'), InTurn(queue'),
           q \notin Queued', Queued' \subseteq Queued,
           Queued \ Queued' \subseteq canceledIds \cup {q},
           canceledIds' \subseteq canceledIds,
           Queued' \cap canceledIds' = Queued' \cap canceledIds,
           state'[c] = "Busy",
           \A d \in Conn \ {c} : /\ state'[d] = "Busy" <=> state[d] = "Busy"
                                 /\ pend[d] # NoQuery => state'[d] = state[d],
           sent' \subseteq sent
    PROVE  Inv'
<1>1. /\ c \in Conn /\ pend[c] = NoQuery /\ c \notin sent
      /\ cur[c] = NoQuery /\ srv[c] = "none" /\ ~partial[c]
  BY FreeHasNothing
<1>2. q # NoQuery
  BY ConstantsAssumption
<1>3. /\ cur' = [cur EXCEPT ![c] = q]
      /\ \A d \in Conn : cur'[d] = IF d = c THEN q ELSE cur[d]
      /\ \A d \in Conn \ {c} : partial'[d] = partial[d] /\ srv'[d] = srv[d]
      /\ partial'[c] => srv'[c] = "none"
  BY <1>1, InvParts DEF Sent, TypeOK
<1>4. InFlight' = InFlight \cup {q} /\ Lost' = Lost
  BY <1>1, <1>3, InvParts, PutOn DEF Lost
<1>5. OnePlace'
  <2>1. /\ IsInjective(lost) /\ Queued \cap Lost = {} /\ InFlight \cap (Queued \cup Lost) = {}
        /\ \A d, e \in Conn : cur[d] = cur[e] /\ cur[d] # NoQuery => d = e
    BY InvParts, PlacesDiffer
  <2>2. \A d \in Conn : cur[d] # q
    BY <1>2 DEF InFlight
  <2>3. \A d, e \in Conn : cur'[d] = cur'[e] /\ cur'[d] # NoQuery => d = e
    BY <1>3, <2>1, <2>2
  <2> QED BY <1>4, <2>1, <2>3, OnePlaceNext
<1>6. Queued \cap canceledIds = Queued \cap canceled
  BY InvParts DEF CancelAgrees
<1>7. NothingForgotten'
  BY <1>4, <1>6, InvParts DEF NothingForgotten
<1>8. CancelHitsItsOwn' /\ UndetachedFirst' /\ (~detached => detachedQ = {})' /\ StrandedAgrees'
  BY InvParts DEF CancelHitsItsOwn, UndetachedFirst, InTurn, StrandedAgrees
<1>9. SessionsAgree'
  BY <1>2, <1>3, InvParts DEF SessionsAgree
<1>10. HistoryAgrees'
  BY <1>4, InvParts DEF HistoryAgrees, Placed
<1>11. RunAgrees'
  <2> SUFFICES ASSUME NEW x \in Query \ Retryable
               PROVE  /\ ran[x] <= 1
                      /\ x \in Queued' \/ x \notin asked' => ran[x] = 0 /\ x \notin orphans
                      /\ x \in orphans => ran[x] = 0 /\ x \notin InFlight'
                      /\ \A d \in Conn : cur'[d] = x /\ (partial'[d] \/ srv'[d] = "running")
                                           => ran[x] = 0
    BY DEF RunAgrees, Running
  <2>1. /\ ran[x] <= 1
        /\ x \in Queued \/ x \notin asked => ran[x] = 0 /\ x \notin orphans
        /\ x \in orphans => ran[x] = 0 /\ x \notin InFlight
        /\ \A d \in Conn : cur[d] = x /\ (partial[d] \/ srv[d] = "running") => ran[x] = 0
    BY InvParts DEF RunAgrees, Running
  <2> QED BY <1>3, <1>4, <2>1
<1>12. CancelAgrees'
  BY <1>4, <1>6, InvParts DEF CancelAgrees
<1>13. RequestsAgree'
  BY <1>1, <1>3, InvParts DEF RequestsAgree
<1> QED BY <1>5, <1>7, <1>8, <1>9, <1>10, <1>11, <1>12, <1>13 DEF Inv, Agreements

-----------------------------------------------------------------------------
(* execute()                                                               *)

LEMMA ExecuteSendsKeeps ==
    ASSUME Inv, TypeOK', NEW q \in Query, ExecuteSends(q)
    PROVE  Inv'
<1>1. PICK B \in SUBSET Free, c \in Free : \E E \in SUBSET B :
         /\ c \notin B
         /\ BrokenOnTheWay(B)
         /\ Sent(c, q)
         /\ state' = [AfterBroken(B, E) EXCEPT ![c] = "Busy"]
  BY DEF ExecuteSends
<1>2. PICK E \in SUBSET B :
         /\ c \notin B
         /\ BrokenOnTheWay(B)
         /\ Sent(c, q)
         /\ state' = [AfterBroken(B, E) EXCEPT ![c] = "Busy"]
  BY <1>1
<1>3. /\ q \notin asked /\ asked' = asked \cup {q}
      /\ UNCHANGED <<queue, lost, marked, canceledIds, detached, detachedQ>>
      /\ UNCHANGED <<pend, probed, waited, orphans, told, canceled, ran, killed, strandedCalls>>
  BY DEF ExecuteSends, history
<1>4. /\ q \notin Placed /\ told[q] = 0
      /\ q \notin marked \cup canceledIds \cup canceled \cup detachedQ \cup orphans
      /\ q \notin Retryable => ran[q] = 0
  BY <1>3, NewQuery
<1>5. c \in Conn
  BY DEF Free
<1>6. /\ state'[c] = "Busy"
      /\ \A d \in Conn \ {c} : state'[d] = AfterBroken(B, E)[d]
  BY <1>2, <1>5 DEF AfterBroken
<1>7. \A d \in Conn \ {c} : /\ state'[d] = "Busy" <=> state[d] = "Busy"
                            /\ pend[d] # NoQuery => state'[d] = state[d]
  BY <1>6, BrokenAreRestful
<1>8. Queued' = Queued /\ IsInjective(queue') /\ InTurn(queue') /\ sent' \subseteq sent
  BY <1>2, <1>3, InvParts DEF Queued, OnePlace, UndetachedFirst, InTurn, BrokenOnTheWay
<1> QED BY <1>2, <1>3, <1>4, <1>6, <1>7, <1>8, SentKeeps DEF Placed

LEMMA ExecuteQueuesKeeps ==
    ASSUME Inv, TypeOK', NEW q \in Query, ExecuteQueues(q)
    PROVE  Inv'
<1>1. PICK E \in SUBSET Free :
         /\ BrokenOnTheWay(Free)
         /\ faults + Cost(Free, E) <= MaxFaults
         /\ EnsureMin(AfterBroken(Free, E), fresh \cup (Free \ E), backoff, timer,
                      faults + Cost(Free, E))
  BY DEF ExecuteQueues, EnsureMin
<1>2. /\ q \notin asked /\ asked' = asked \cup {q} /\ queue' \in Enqueued(queue, q)
      /\ UNCHANGED <<cur, lost, marked, canceledIds, detached, detachedQ>>
      /\ UNCHANGED <<partial, pend, srv, probed, waited, orphans>>
      /\ UNCHANGED <<told, canceled, ran, killed, strandedCalls>>
  BY DEF ExecuteQueues, history
<1>3. /\ q \notin Placed /\ told[q] = 0
      /\ q \notin marked \cup canceledIds \cup canceled \cup detachedQ \cup orphans
  BY <1>2, NewQuery
<1>4. Restful
  <2>1. Free \in SUBSET Conn
    BY DEF Free
  <2>2. /\ AfterBroken(Free, E) \in [Conn -> ConnStates] /\ fresh \cup (Free \ E) \in SUBSET Conn
        /\ faults + Cost(Free, E) \in 0..MaxFaults
    BY <1>1, <2>1, BrokenType, InvParts
  <2>3. backoff \in BOOLEAN /\ timer \in BOOLEAN
    BY InvParts DEF TypeOK
  <2>4. \A c \in Conn : \/ state'[c] = AfterBroken(Free, E)[c]
                        \/ AfterBroken(Free, E)[c] = "none" /\ state'[c] = "Connecting"
    BY <1>1, <2>2, <2>3, MinOpens
  <2>5. \A c \in Conn : /\ AfterBroken(Free, E)[c] = "Busy" <=> state[c] = "Busy"
                        /\ pend[c] # NoQuery => AfterBroken(Free, E)[c] = state[c]
    BY BrokenAreRestful
  <2>6. \A c \in Conn : pend[c] # NoQuery => state[c] \in {"Ready", "Busy"}
    BY InvParts DEF RequestsAgree
  <2>7. \A c \in Conn : state'[c] = "Busy" <=> state[c] = "Busy"
    BY <2>4, <2>5
  <2>8. \A c \in Conn : pend[c] # NoQuery => state'[c] = state[c]
    BY <2>4, <2>5, <2>6
  <2> QED BY <2>7, <2>8 DEF Restful
<1>5. /\ Queued' = Queued \cup {q} /\ IsInjective(queue') /\ InTurn(queue')
  <2>1. queue \in Seq(Query) /\ IsInjective(queue) /\ q \notin Range(queue) /\ InTurn(queue)
    BY <1>3, InvParts DEF TypeOK, OnePlace, Placed, Queued, UndetachedFirst, InTurn
  <2>2. /\ Range(queue') = Range(queue) \cup {q} /\ IsInjective(queue')
        /\ InTurn(queue')
    BY <1>2, <2>1, EnqueuedHolds, EnqueuedInTurn
  <2> QED BY <2>2 DEF Queued
<1>6. sent' \subseteq sent
  BY <1>1 DEF BrokenOnTheWay
<1>7. {q} \in SUBSET Query /\ {q} \cap asked = {} /\ asked' = asked \cup {q}
  BY <1>2
<1>8. StrandedAgrees'
  BY <1>2, StrandedSame
<1> QED BY <1>2, <1>4, <1>5, <1>6, <1>7, <1>8, QueueKeeps

LEMMA ExecuteThrowsKeeps ==
    ASSUME Inv, TypeOK', NEW q \in Query, ExecuteThrows(q)
    PROVE  Inv'
<1>1. /\ q \notin asked /\ asked' = asked \cup {q} /\ told' = [told EXCEPT ![q] = @ + 1]
      /\ UNCHANGED <<queue, cur, lost, marked, canceledIds, detached, detachedQ>>
      /\ UNCHANGED <<partial, pend, srv, probed, waited, orphans>>
      /\ UNCHANGED <<canceled, ran, killed, strandedCalls>>
  BY DEF ExecuteThrows
<1>2. /\ q \notin Placed /\ told[q] = 0
      /\ q \notin marked \cup canceledIds \cup canceled \cup detachedQ \cup orphans
      /\ q \notin Retryable => ran[q] = 0
  BY <1>1, NewQuery
<1>3. told'[q] = 1 /\ \A x \in Query \ {q} : told'[x] = told[x]
  BY <1>1, <1>2, InvParts DEF TypeOK
<1>4. Restful /\ sent' \subseteq sent
  <2>1. Free \in SUBSET Conn
    BY DEF Free
  <2>2. CASE \E B \in SUBSET Free : \E E \in SUBSET B :
               BrokenOnTheWay(B) /\ state' = AfterBroken(B, E)
    BY <2>2, BrokenAreRestful DEF Restful, BrokenOnTheWay
  <2>3. CASE \E E \in SUBSET Free :
               /\ BrokenOnTheWay(Free)
               /\ EnsureMinThrows(AfterBroken(Free, E), fresh \cup (Free \ E), backoff, timer,
                                  faults + Cost(Free, E))
    <3>1. PICK E \in SUBSET Free :
               /\ BrokenOnTheWay(Free)
               /\ EnsureMinThrows(AfterBroken(Free, E), fresh \cup (Free \ E), backoff, timer,
                                  faults + Cost(Free, E))
      BY <2>3
    <3>2. \A c \in Conn : \/ state'[c] = AfterBroken(Free, E)[c]
                          \/ AfterBroken(Free, E)[c] = "none" /\ state'[c] = "Connecting"
      BY <3>1 DEF EnsureMinThrows, Unused
    <3>3. \A c \in Conn : /\ AfterBroken(Free, E)[c] = "Busy" <=> state[c] = "Busy"
                          /\ pend[c] # NoQuery => AfterBroken(Free, E)[c] = state[c]
      BY BrokenAreRestful
    <3>4. \A c \in Conn : pend[c] # NoQuery => state[c] \in {"Ready", "Busy"}
      BY InvParts DEF RequestsAgree
    <3>5. \A c \in Conn : state'[c] = "Busy" <=> state[c] = "Busy"
      BY <3>2, <3>3
    <3>6. \A c \in Conn : pend[c] # NoQuery => state'[c] = state[c]
      BY <3>2, <3>3, <3>4
    <3> QED BY <3>1, <3>5, <3>6 DEF Restful, BrokenOnTheWay
  <2> QED BY <2>2, <2>3 DEF ExecuteThrows
<1>5. Queued' = Queued /\ Lost' = Lost /\ InFlight' = InFlight
  BY <1>1 DEF Queued, Lost, InFlight
<1>6. OnePlace' /\ CancelHitsItsOwn' /\ UndetachedFirst' /\ StrandedAgrees'
      /\ (~detached => detachedQ = {})'
  BY <1>1, <1>5, InvParts
     DEF OnePlace, CancelHitsItsOwn, UndetachedFirst, StrandedAgrees
<1>7. NothingForgotten'
  <2>1. asked \subseteq Query
    BY InvParts DEF TypeOK
  <2> QED BY <1>1, <1>3, <1>5, <2>1, InvParts DEF NothingForgotten
<1>8. SessionsAgree'
  BY <1>1, <1>4, InvParts DEF SessionsAgree, Restful
<1>9. HistoryAgrees'
  <2>1. Placed \subseteq Query
    BY InvParts, PlacedAreQueries DEF Placed
  <2>2. \A x \in Placed : told'[x] = 0
    BY <1>2, <1>3, <2>1, InvParts DEF HistoryAgrees
  <2>3. \A x \in Query : told'[x] <= 1
    BY <1>3, InvParts DEF HistoryAgrees
  <2> QED BY <1>1, <1>3, <1>5, <2>2, <2>3, InvParts DEF HistoryAgrees, Placed
<1>10. RunAgrees'
  BY <1>1, <1>2, <1>5, InvParts DEF RunAgrees, Running
<1>11. CancelAgrees'
  BY <1>1, <1>5, InvParts DEF CancelAgrees
<1>12. RequestsAgree'
  BY <1>1, <1>4, InvParts DEF RequestsAgree, Restful
<1> QED BY <1>6, <1>7, <1>8, <1>9, <1>10, <1>11, <1>12 DEF Inv, Agreements

-----------------------------------------------------------------------------
(* dispatch_queue()                                                        *)

\* The canceled queries leave the front of the queue, their ids with them.
LEMMA FrontDropped ==
    ASSUME Inv, NEW n \in 0..Len(queue), CanceledInFront(n)
    PROVE  /\ After(n) \in Seq(Query) /\ IsInjective(After(n)) /\ InTurn(After(n))
           /\ Range(After(n)) \subseteq Queued
           /\ Queued \ Range(After(n)) \subseteq canceledIds
           /\ canceledIds' \subseteq canceledIds
           /\ Range(After(n)) \cap canceledIds' = Range(After(n)) \cap canceledIds
<1> DEFINE front == {queue[i] : i \in 1..n}
           back  == Range(After(n))
<1>1. /\ TypeOK /\ queue \in Seq(Query) /\ IsInjective(queue) /\ InTurn(queue)
  BY InvParts DEF TypeOK, OnePlace, UndetachedFirst, InTurn
<1>2. After(n) \in Seq(Query) /\ InTurn(After(n))
  BY <1>1, AfterType, AfterInTurn
<1>3. Queued = front \cup back /\ IsInjective(After(n)) /\ front \cap back = {}
  BY <1>1, FrontTaken DEF After, Queued
<1>4. front \subseteq canceledIds /\ canceledIds' = canceledIds \ front
  BY DEF CanceledInFront
<1> QED BY <1>2, <1>3, <1>4

\* The first query left is not canceled, and in no other place.
LEMMA FrontSent ==
    ASSUME Inv, NEW n \in 0..Len(queue), n < Len(queue), CanceledInFront(n)
    PROVE  /\ queue[n + 1] \in Query /\ queue[n + 1] \in Queued
           /\ queue[n + 1] \notin canceledIds
           /\ After(n + 1) \in Seq(Query) /\ IsInjective(After(n + 1)) /\ InTurn(After(n + 1))
           /\ queue[n + 1] \notin Range(After(n + 1))
           /\ Range(After(n)) = Range(After(n + 1)) \cup {queue[n + 1]}
<1> DEFINE q == queue[n + 1]
<1>1. /\ TypeOK /\ queue \in Seq(Query) /\ IsInjective(queue) /\ InTurn(queue)
      /\ Len(queue) \in Nat /\ DOMAIN queue = 1..Len(queue)
  BY InvParts, LenProperties DEF TypeOK, OnePlace, UndetachedFirst, InTurn
<1>2. n + 1 \in 0..Len(queue) /\ n + 1 \in 1..Len(queue)
  BY <1>1
<1>3. q \in Query /\ q \in Queued
  BY <1>1, <1>2, RangeByIndex, ElementOfSeq DEF Queued
<1>4. /\ After(n + 1) \in Seq(Query) /\ InTurn(After(n + 1))
  BY <1>1, <1>2, AfterType, AfterInTurn
<1>5. /\ Queued = {queue[i] : i \in 1..n} \cup Range(After(n))
      /\ {queue[i] : i \in 1..n} \cap Range(After(n)) = {}
  BY <1>1, FrontTaken DEF After, Queued
<1>6. /\ Queued = {queue[i] : i \in 1..n + 1} \cup Range(After(n + 1))
      /\ {queue[i] : i \in 1..n + 1} \cap Range(After(n + 1)) = {}
      /\ IsInjective(After(n + 1))
  BY <1>1, <1>2, FrontTaken DEF After, Queued
<1>7. {queue[i] : i \in 1..n + 1} = {queue[i] : i \in 1..n} \cup {q}
  <2>1. 1..n + 1 = 1..n \cup {n + 1}
    OBVIOUS
  <2> QED BY <2>1
<1>8. q \notin {queue[i] : i \in 1..n}
  <2>1. \A i \in 1..n : i \in 1..Len(queue) /\ i # n + 1
    BY <1>2
  <2> QED BY <1>1, <1>2, <2>1 DEF IsInjective
<1>9. q \notin canceledIds
  BY DEF CanceledInFront
<1> QED BY <1>3, <1>4, <1>5, <1>6, <1>7, <1>8, <1>9

LEMMA QueueHasLength == Inv => Len(queue) \in Nat
<1>1. Inv => queue \in Seq(Query)
  BY InvParts DEF TypeOK
<1> QED BY <1>1, LenProperties

LEMMA DispatchQueueKeeps ==
    ASSUME Inv, TypeOK', NEW c \in Conn, DispatchQueue(c)
    PROVE  Inv'
<1>1. CASE DispatchNothing(c)
  <2>1. PICK n \in 0..Len(queue) : CanceledInFront(n) /\ queue' = After(n)
    BY <1>1 DEF DispatchNothing
  <2>2. /\ UNCHANGED <<cur, lost, asked, marked, detached, detachedQ>>
        /\ UNCHANGED <<state, partial, pend, probed, waited, srv, sent, orphans>>
        /\ UNCHANGED <<told, canceled, ran, killed, strandedCalls>>
    BY <1>1 DEF DispatchNothing, conns, world, history
  <2>3. Restful
    BY <2>2 DEF Restful
  <2>4. Queued' = Range(queue')
    BY DEF Queued
  <2>5. /\ IsInjective(queue') /\ InTurn(queue') /\ Queued' \subseteq Queued
        /\ Queued \ Queued' \subseteq canceledIds /\ canceledIds' \subseteq canceledIds
        /\ Queued' \cap canceledIds' = Queued' \cap canceledIds
    BY <2>1, <2>4, FrontDropped
  <2>6. {} \in SUBSET Query /\ asked' = asked \cup {} /\ StrandedAgrees'
    BY <2>2, StrandedSame
  <2> QED BY <2>2, <2>3, <2>5, <2>6, QueueKeeps
<1>2. CASE DispatchSends(c)
  <2>1. PICK n \in 0..Len(queue) - 1 :
           CanceledInFront(n) /\ queue' = After(n + 1) /\ Sent(c, queue[n + 1])
    BY <1>2 DEF DispatchSends
  <2> DEFINE q == queue[n + 1]
  <2>2. n \in 0..Len(queue) /\ n < Len(queue)
    BY QueueHasLength
  <2>3. /\ q \in Query /\ q \in Queued /\ q \notin canceledIds
        /\ IsInjective(queue') /\ InTurn(queue') /\ q \notin Range(queue')
        /\ Range(After(n)) = Range(queue') \cup {q}
    BY <2>1, <2>2, FrontSent
  <2>4. /\ Range(After(n)) \subseteq Queued
        /\ Queued \ Range(After(n)) \subseteq canceledIds
        /\ canceledIds' \subseteq canceledIds
        /\ Range(After(n)) \cap canceledIds' = Range(After(n)) \cap canceledIds
    BY <2>1, <2>2, FrontDropped
  <2>5. /\ q \notin InFlight \cup Lost /\ q \notin canceled /\ told[q] = 0 /\ q \in asked
        /\ q \notin Retryable => ran[q] = 0 /\ q \notin orphans
    <3>1. q \notin InFlight \cup Lost /\ q \in Placed
      <4>1. TypeOK /\ OnePlace
        BY InvParts
      <4>2. Queued \cap Lost = {} /\ InFlight \cap (Queued \cup Lost) = {}
        BY <4>1, PlacesDiffer
      <4> QED BY <2>3, <4>2 DEF Placed
    <3>2. q \notin canceled /\ told[q] = 0 /\ q \in asked
      BY <2>3, <3>1, InvParts DEF CancelAgrees, HistoryAgrees
    <3> QED BY <2>3, <3>1, <3>2, InvParts DEF RunAgrees
  <2>6. /\ c \in Free /\ state' = [state EXCEPT ![c] = "Busy"]
        /\ UNCHANGED <<lost, asked, marked, detached, detachedQ, pend, sent, orphans>>
        /\ UNCHANGED <<told, canceled, ran, killed, waited, probed, strandedCalls>>
    BY <1>2 DEF DispatchSends, history
  <2>7. state'[c] = "Busy" /\ \A d \in Conn \ {c} : state'[d] = state[d]
    BY <2>6, InvParts DEF TypeOK
  <2>8. asked' = asked \cup {q}
    BY <2>5, <2>6
  <2>9. Queued' = Range(queue')
    BY DEF Queued
  <2>10. /\ q \notin Queued' /\ Queued' \subseteq Queued
         /\ Queued \ Queued' \subseteq canceledIds \cup {q}
         /\ Queued' \cap canceledIds' = Queued' \cap canceledIds
    BY <2>3, <2>4, <2>9
  <2>11. \A d \in Conn \ {c} : /\ state'[d] = "Busy" <=> state[d] = "Busy"
                                /\ pend[d] # NoQuery => state'[d] = state[d]
    BY <2>7
  <2>12. Sent(c, q)
    BY <2>1
  <2> HIDE DEF q
  <2> QED BY <2>3, <2>4, <2>5, <2>6, <2>7, <2>8, <2>10, <2>11, <2>12, SentKeeps
<1>3. CASE DispatchFails(c)
  <2>1. PICK n \in 0..Len(queue) - 1, E \in SUBSET {c} :
           /\ CanceledInFront(n)
           /\ queue' \in Enqueued(After(n + 1), queue[n + 1])
           /\ state' = AfterBroken({c}, E)
    BY <1>3 DEF DispatchFails
  <2>2. n \in 0..Len(queue) /\ n < Len(queue)
    BY QueueHasLength
  <2>3. /\ queue[n + 1] \in Query /\ queue[n + 1] \in Queued
        /\ After(n + 1) \in Seq(Query) /\ IsInjective(After(n + 1)) /\ InTurn(After(n + 1))
        /\ queue[n + 1] \notin Range(After(n + 1))
        /\ Range(After(n)) = Range(After(n + 1)) \cup {queue[n + 1]}
    BY <2>1, <2>2, FrontSent
  <2>4. /\ Range(queue') = Range(After(n)) /\ IsInjective(queue') /\ InTurn(queue')
    BY <2>1, <2>3, EnqueuedHolds, EnqueuedInTurn
  <2>5. /\ Range(After(n)) \subseteq Queued
        /\ Queued \ Range(After(n)) \subseteq canceledIds
        /\ canceledIds' \subseteq canceledIds
        /\ Range(After(n)) \cap canceledIds' = Range(After(n)) \cap canceledIds
    BY <2>1, <2>2, FrontDropped
  <2>6. /\ c \in Free /\ sent' \subseteq sent
        /\ UNCHANGED <<cur, lost, asked, marked, detached, detachedQ>>
        /\ UNCHANGED <<partial, pend, probed, waited, srv, orphans>>
        /\ UNCHANGED <<told, canceled, ran, killed, strandedCalls>>
    BY <1>3 DEF DispatchFails, BrokenOnTheWay, history
  <2>7. Restful
    BY <2>1, <2>6, BrokenAreRestful DEF Restful
  <2>8. Queued' = Range(queue')
    BY DEF Queued
  <2>9. {} \in SUBSET Query /\ asked' = asked \cup {} /\ StrandedAgrees'
    BY <2>6, StrandedSame
  <2> QED BY <2>4, <2>5, <2>6, <2>7, <2>8, <2>9, QueueKeeps
<1> QED BY <1>1, <1>2, <1>3 DEF DispatchQueue

LEMMA DrainEndsKeeps == Inv /\ TypeOK' /\ DrainEnds => Inv'
<1> SUFFICES ASSUME Inv, TypeOK', DrainEnds PROVE Inv'
  OBVIOUS
<1>1. /\ UNCHANGED <<cur, lost, asked, marked, detached, detachedQ>>
      /\ UNCHANGED <<state, partial, pend, probed, waited, srv, sent, orphans>>
      /\ UNCHANGED <<told, canceled, ran, killed, strandedCalls>>
  BY DEF DrainEnds, conns, world, history
<1>2. Restful
  BY <1>1 DEF Restful
<1>3. Queued' = Range(queue') /\ Queued = Range(queue)
  BY DEF Queued
<1>4. /\ IsInjective(queue') /\ InTurn(queue') /\ Queued' \subseteq Queued
      /\ Queued \ Queued' \subseteq canceledIds /\ canceledIds' \subseteq canceledIds
      /\ Queued' \cap canceledIds' = Queued' \cap canceledIds
  <2>1. CASE \E n \in 0..Len(queue) : CanceledInFront(n) /\ queue' = After(n)
    BY <1>3, <2>1, FrontDropped
  <2>2. CASE UNCHANGED <<queue, canceledIds>>
    BY <1>3, <2>2, InvParts DEF OnePlace, UndetachedFirst, InTurn
  <2> QED BY <2>1, <2>2 DEF DrainEnds
<1>5. {} \in SUBSET Query /\ asked' = asked \cup {} /\ StrandedAgrees'
  BY <1>1, StrandedSame
<1> QED BY <1>1, <1>2, <1>4, <1>5, QueueKeeps

-----------------------------------------------------------------------------
(* cancel(), detach()                                                      *)

LEMMA CancelInFlightKeeps ==
    ASSUME Inv, TypeOK', NEW q \in Query, NEW c \in Conn, CancelInFlight(q, c)
    PROVE  Inv'
<1>1. /\ cur[c] = q /\ marked' = marked \cup {q}
      /\ UNCHANGED <<queue, cur, lost, asked, canceledIds, detached, detachedQ>>
      /\ UNCHANGED <<state, partial, probed, waited, srv, sent, orphans>>
      /\ UNCHANGED <<told, ran, killed, strandedCalls>>
  BY DEF CancelInFlight, NotedCanceled
<1>2. q # NoQuery
  BY ConstantsAssumption
<1>3. /\ q \in asked /\ told[q] = 0 /\ q \in InFlight /\ q \notin Queued \cup Lost
      /\ state[c] = "Busy" /\ q \notin canceledIds
  BY <1>1, <1>2, QueryOn
<1>4. canceled' = canceled \cup {q}
  BY <1>3 DEF CancelInFlight, NotedCanceled
<1>5. \A d \in Conn : pend'[d] = pend[d] \/ (d = c /\ pend'[d] = q)
  BY InvParts DEF CancelInFlight, TypeOK
<1>6. Queued' = Queued /\ Lost' = Lost /\ InFlight' = InFlight
  BY <1>1 DEF Queued, Lost, InFlight
<1>7. OnePlace' /\ CancelHitsItsOwn' /\ UndetachedFirst' /\ (~detached => detachedQ = {})'
  BY <1>1, <1>4, <1>6, InvParts DEF OnePlace, CancelHitsItsOwn, UndetachedFirst
<1>8. StrandedAgrees'
  BY <1>1, StrandedSame
<1>9. NothingForgotten'
  BY <1>1, <1>4, <1>6, InvParts DEF NothingForgotten
<1>10. SessionsAgree'
  BY <1>1, InvParts DEF SessionsAgree
<1>11. HistoryAgrees'
  BY <1>1, <1>3, <1>4, <1>6, InvParts DEF HistoryAgrees, Placed
<1>12. RunAgrees'
  BY <1>1, <1>6, InvParts DEF RunAgrees, Running
<1>13. CancelAgrees'
  BY <1>1, <1>3, <1>4, <1>6, InvParts DEF CancelAgrees
<1>14. RequestsAgree'
  BY <1>1, <1>2, <1>3, <1>4, <1>5, InvParts DEF RequestsAgree
<1> QED BY <1>7, <1>8, <1>9, <1>10, <1>11, <1>12, <1>13, <1>14 DEF Inv, Agreements

LEMMA CancelLostKeeps ==
    ASSUME Inv, TypeOK', NEW q \in Query, CancelLost(q)
    PROVE  Inv'
<1>1. /\ q \in Lost /\ marked' = marked \cup {q}
      /\ UNCHANGED <<queue, cur, lost, asked, canceledIds, detached, detachedQ>>
      /\ UNCHANGED <<state, partial, pend, probed, waited, srv, sent, orphans>>
      /\ UNCHANGED <<told, ran, killed, strandedCalls>>
  BY DEF CancelLost, NotedCanceled, conns, world
<1>2. q \notin Queued
  BY <1>1, InvParts DEF OnePlace
<1>3. q \in asked /\ told[q] = 0 /\ q \notin canceledIds
  BY <1>1, InvParts DEF HistoryAgrees, Placed, CancelAgrees
<1>4. canceled' = canceled \cup {q}
  BY <1>3 DEF CancelLost, NotedCanceled
<1>6. Queued' = Queued /\ Lost' = Lost /\ InFlight' = InFlight
  BY <1>1 DEF Queued, Lost, InFlight
<1>7. OnePlace' /\ CancelHitsItsOwn' /\ UndetachedFirst' /\ (~detached => detachedQ = {})'
  BY <1>1, <1>4, <1>6, InvParts DEF OnePlace, CancelHitsItsOwn, UndetachedFirst
<1>8. StrandedAgrees'
  BY <1>1, StrandedSame
<1>9. NothingForgotten'
  BY <1>1, <1>4, <1>6, InvParts DEF NothingForgotten
<1>10. SessionsAgree'
  BY <1>1, InvParts DEF SessionsAgree
<1>11. HistoryAgrees'
  BY <1>1, <1>3, <1>4, <1>6, InvParts DEF HistoryAgrees, Placed
<1>12. RunAgrees'
  BY <1>1, <1>6, InvParts DEF RunAgrees, Running
<1>13. CancelAgrees'
  BY <1>1, <1>2, <1>3, <1>4, <1>6, InvParts DEF CancelAgrees
<1>14. RequestsAgree'
  BY <1>1, <1>4, InvParts DEF RequestsAgree
<1> QED BY <1>7, <1>8, <1>9, <1>10, <1>11, <1>12, <1>13, <1>14 DEF Inv, Agreements

LEMMA CancelByIdKeeps ==
    ASSUME Inv, TypeOK', NEW q \in Query, CancelById(q)
    PROVE  Inv'
<1>1. /\ q \in asked /\ q \notin InFlight \cup Lost /\ canceledIds' = canceledIds \cup {q}
      /\ UNCHANGED <<queue, cur, lost, asked, marked, detached, detachedQ>>
      /\ UNCHANGED <<state, partial, pend, probed, waited, srv, sent, orphans>>
      /\ UNCHANGED <<told, ran, killed, strandedCalls>>
  BY DEF CancelById, NotedCanceled, conns, world
<1>2. canceled \subseteq canceled' /\ canceled' \subseteq canceled \cup {q}
  BY DEF CancelById, NotedCanceled
<1>3. q \in Queued => q \in canceled'
  BY InvParts DEF HistoryAgrees, Placed, CancelById, NotedCanceled
<1>6. Queued' = Queued /\ Lost' = Lost /\ InFlight' = InFlight
  BY <1>1 DEF Queued, Lost, InFlight
<1>7. OnePlace' /\ CancelHitsItsOwn' /\ UndetachedFirst' /\ (~detached => detachedQ = {})'
  BY <1>1, <1>2, <1>6, InvParts DEF OnePlace, CancelHitsItsOwn, UndetachedFirst
<1>8. StrandedAgrees'
  BY <1>1, StrandedSame
<1>9. NothingForgotten'
  BY <1>1, <1>2, <1>6, InvParts DEF NothingForgotten
<1>10. SessionsAgree'
  BY <1>1, InvParts DEF SessionsAgree
<1>11. HistoryAgrees'
  BY <1>1, <1>2, <1>6, InvParts DEF HistoryAgrees, Placed
<1>12. RunAgrees'
  BY <1>1, <1>6, InvParts DEF RunAgrees, Running
<1>13. CancelAgrees'
  BY <1>1, <1>2, <1>3, <1>6, InvParts DEF CancelAgrees
<1>14. RequestsAgree'
  BY <1>1, <1>2, InvParts DEF RequestsAgree
<1> QED BY <1>7, <1>8, <1>9, <1>10, <1>11, <1>12, <1>13, <1>14 DEF Inv, Agreements

LEMMA DetachKeeps == Inv /\ TypeOK' /\ Detach => Inv'
<1> SUFFICES ASSUME Inv, TypeOK', Detach PROVE Inv'
  OBVIOUS
<1>1. /\ ~detached /\ detached' = TRUE /\ detachedQ' = Placed
      /\ UNCHANGED <<queue, cur, lost, asked, marked, canceledIds>>
      /\ UNCHANGED <<state, partial, pend, probed, waited, srv, sent, orphans>>
      /\ UNCHANGED <<told, canceled, ran, killed, strandedCalls>>
  BY DEF Detach, Placed, conns, world, history
<1>2. detachedQ = {}
  BY <1>1, InvParts
<1>6. Queued' = Queued /\ Lost' = Lost /\ InFlight' = InFlight
  BY <1>1 DEF Queued, Lost, InFlight
<1>7. OnePlace' /\ CancelHitsItsOwn' /\ (~detached => detachedQ = {})'
  BY <1>1, <1>6, InvParts DEF OnePlace, CancelHitsItsOwn
<1>8. UndetachedFirst'
  <2>1. \A i \in DOMAIN queue : queue[i] \in Queued
    BY DEF Queued, Range
  <2> QED BY <1>1, <2>1 DEF UndetachedFirst, Placed
<1>9. StrandedAgrees'
  BY <1>1, StrandedSame
<1>10. NothingForgotten'
  BY <1>1, <1>2, <1>6, InvParts DEF NothingForgotten
<1>11. SessionsAgree'
  BY <1>1, InvParts DEF SessionsAgree
<1>12. HistoryAgrees'
  BY <1>1, <1>6, InvParts DEF HistoryAgrees, Placed
<1>13. RunAgrees'
  BY <1>1, <1>6, InvParts DEF RunAgrees, Running
<1>14. CancelAgrees'
  BY <1>1, <1>6, InvParts DEF CancelAgrees
<1>15. RequestsAgree'
  BY <1>1, InvParts DEF RequestsAgree
<1> QED BY <1>7, <1>8, <1>9, <1>10, <1>11, <1>12, <1>13, <1>14, <1>15 DEF Inv, Agreements

-----------------------------------------------------------------------------
(* Answers and losses are told.                                            *)

\* The handler of q is called, unless q was canceled or detached.
Heard(q) == IF q \in marked \cup detachedQ
            THEN told' = told ELSE told' = [told EXCEPT ![q] = @ + 1]

\* The query leaves the pool, and its caller hears of it or does not want to.
LEMMA HeardKeeps ==
    ASSUME Inv, TypeOK', NEW q \in Placed, Heard(q),
           Placed' = Placed \ {q}, Queued' \subseteq Queued, InFlight' \subseteq InFlight,
           Lost' \subseteq Lost, q \notin Queued,
           UNCHANGED <<queue, asked, marked, canceledIds, detached, detachedQ>>,
           UNCHANGED <<pend, probed, waited, sent, orphans>>,
           UNCHANGED <<canceled, ran, killed, strandedCalls>>,
           OnePlace', SessionsAgree',
           \A c \in Conn : /\ cur'[c] \in {cur[c], NoQuery}
                           /\ cur'[c] # NoQuery => srv'[c] = srv[c] /\ partial'[c] = partial[c]
                           /\ pend[c] # NoQuery => state'[c] \in {"Ready", "Busy"}
    PROVE  Inv'
<1>1. q \in Query /\ q \in asked /\ told[q] = 0
  BY InvParts, PlacedAreQueries DEF Placed, HistoryAgrees
<1>2. \A x \in Query : told'[x] = told[x] \/ (x = q /\ told'[x] = 1)
  BY <1>1, InvParts DEF Heard, TypeOK
<1>3. NothingForgotten'
  <2>1. q \in canceled \cup detachedQ \/ told'[q] = 1
    BY <1>1, InvParts DEF Heard, TypeOK, CancelAgrees
  <2>2. asked \subseteq Query
    BY InvParts DEF TypeOK
  <2>3. \A x \in asked : told[x] = 0 /\ x \notin canceled \cup detachedQ => x \in Placed
    BY InvParts DEF NothingForgotten, Placed
  <2>4. \A x \in asked : told'[x] = 0 /\ x \notin canceled \cup detachedQ => x \in Placed'
    BY <1>2, <2>1, <2>2, <2>3
  <2> QED BY <2>4 DEF NothingForgotten, Placed
<1>4. CancelHitsItsOwn' /\ UndetachedFirst' /\ (~detached => detachedQ = {})'
  BY InvParts DEF CancelHitsItsOwn, UndetachedFirst
<1>5. StrandedAgrees'
  BY StrandedSame
<1>6. HistoryAgrees'
  <2>1. Placed \subseteq Query
    BY InvParts, PlacedAreQueries DEF Placed
  <2>2. /\ Placed \subseteq asked /\ \A x \in Placed : told[x] = 0
        /\ \A x \in Query \ asked : told[x] = 0
        /\ marked \cup canceledIds \cup canceled \cup detachedQ \cup orphans \subseteq asked
        /\ \A x \in Query : told[x] <= 1
    BY InvParts DEF HistoryAgrees
  <2>3. \A x \in Placed' : told'[x] = 0
    BY <1>2, <2>1, <2>2
  <2>4. \A x \in Query \ asked : told'[x] = 0
    BY <1>1, <1>2, <2>2
  <2>5. \A x \in Query : told'[x] <= 1
    BY <1>2, <2>2
  <2> QED BY <2>2, <2>3, <2>4, <2>5 DEF HistoryAgrees
<1>7. RunAgrees'
  <2> SUFFICES ASSUME NEW x \in Query \ Retryable
               PROVE  /\ ran[x] <= 1
                      /\ x \in Queued' \/ x \notin asked => ran[x] = 0 /\ x \notin orphans
                      /\ x \in orphans => ran[x] = 0 /\ x \notin InFlight'
                      /\ \A c \in Conn : cur'[c] = x /\ (partial'[c] \/ srv'[c] = "running")
                                            => ran[x] = 0
    BY DEF RunAgrees, Running
  <2>1. /\ ran[x] <= 1
        /\ x \in Queued \/ x \notin asked => ran[x] = 0 /\ x \notin orphans
        /\ x \in orphans => ran[x] = 0 /\ x \notin InFlight
        /\ \A c \in Conn : cur[c] = x /\ (partial[c] \/ srv[c] = "running") => ran[x] = 0
    BY InvParts DEF RunAgrees, Running
  <2>2. x # NoQuery
    BY ConstantsAssumption
  <2> QED BY <2>1, <2>2
<1>8. CancelAgrees'
  <2>1. Queued' = Queued
    BY DEF Queued
  <2> QED BY <2>1, InvParts DEF CancelAgrees
<1>9. RequestsAgree'
  BY InvParts DEF RequestsAgree
<1> QED BY <1>3, <1>4, <1>5, <1>6, <1>7, <1>8, <1>9 DEF Inv, Agreements

LEMMA ResultArrivesKeeps ==
    ASSUME Inv, TypeOK', NEW c \in Conn, ResultArrives(c)
    PROVE  Inv'
<1>1. /\ state[c] = "Busy" /\ srv[c] = "answered"
      /\ UNCHANGED <<queue, lost, asked, marked, canceledIds, detached, detachedQ>>
      /\ UNCHANGED <<partial, pend, probed, waited, sent, orphans>>
      /\ UNCHANGED <<canceled, ran, killed, strandedCalls>>
      /\ cur' = [cur EXCEPT ![c] = NoQuery]
      /\ Heard(cur[c])
  BY DEF ResultArrives, Silent, Heard
<1>2. cur[c] # NoQuery /\ ~partial[c]
  BY <1>1, InvParts DEF SessionsAgree
<1>3. cur[c] \in InFlight /\ cur[c] \notin Queued \cup Lost /\ cur[c] \in Placed
  BY <1>2, QueryOn DEF Placed
<1>4. InFlight' = InFlight \ {cur[c]} /\ Queued' = Queued /\ Lost' = Lost
  BY <1>1, InvParts, TakenOff DEF Queued, Lost
<1>5. Placed' = Placed \ {cur[c]}
  BY <1>3, <1>4 DEF Placed
<1>6. \A d \in Conn : /\ cur'[d] = IF d = c THEN NoQuery ELSE cur[d]
                      /\ state'[d] = IF d = c THEN "Ready" ELSE state[d]
                      /\ srv'[d] = IF d = c THEN "none" ELSE srv[d]
  BY InvParts DEF ResultArrives, TypeOK
<1>7. OnePlace'
  <2>1. /\ IsInjective(queue) /\ IsInjective(lost)
        /\ Queued \cap Lost = {} /\ InFlight \cap (Queued \cup Lost) = {}
        /\ \A d, e \in Conn : cur[d] = cur[e] /\ cur[d] # NoQuery => d = e
    BY InvParts, PlacesDiffer
  <2>2. \A d, e \in Conn : cur'[d] = cur'[e] /\ cur'[d] # NoQuery => d = e
    BY <1>6, <2>1
  <2> QED BY <1>1, <1>4, <2>1, <2>2, OnePlaceNext
<1>8. SessionsAgree'
  BY <1>1, <1>2, <1>6, InvParts DEF SessionsAgree
<1>9. \A d \in Conn : /\ cur'[d] \in {cur[d], NoQuery}
                      /\ cur'[d] # NoQuery => srv'[d] = srv[d] /\ partial'[d] = partial[d]
                      /\ pend[d] # NoQuery => state'[d] \in {"Ready", "Busy"}
  BY <1>1, <1>6, InvParts DEF RequestsAgree
<1> QED BY <1>1, <1>3, <1>4, <1>5, <1>7, <1>8, <1>9, HeardKeeps

LEMMA TellLostKeeps == Inv /\ TypeOK' /\ TellLost => Inv'
<1> SUFFICES ASSUME Inv, TypeOK', TellLost PROVE Inv'
  OBVIOUS
<1>1. /\ lost # <<>> /\ lost' = Tail(lost)
      /\ UNCHANGED <<queue, cur, asked, marked, canceledIds, detached, detachedQ>>
      /\ UNCHANGED <<state, partial, pend, srv, probed, waited, sent, orphans>>
      /\ UNCHANGED <<canceled, ran, killed, strandedCalls>>
      /\ Heard(Head(lost))
  BY DEF TellLost, Silent, Heard, conns, world
<1>2. lost \in Seq(Query) /\ IsInjective(lost)
  BY InvParts DEF TypeOK, OnePlace
<1>3. /\ Range(lost) = {Head(lost)} \cup Range(lost')
      /\ IsInjective(lost') /\ Head(lost) \notin Range(lost')
  BY <1>1, <1>2, TailHolds
<1>4. /\ Queued' = Queued /\ InFlight' = InFlight
      /\ Lost' = Lost \ {Head(lost)} /\ Head(lost) \in Lost
  BY <1>1, <1>3 DEF Queued, InFlight, Lost
<1>5. /\ IsInjective(queue) /\ Queued \cap Lost = {} /\ InFlight \cap (Queued \cup Lost) = {}
      /\ \A d, e \in Conn : cur[d] = cur[e] /\ cur[d] # NoQuery => d = e
  BY InvParts, PlacesDiffer
<1>6. Placed' = Placed \ {Head(lost)} /\ Head(lost) \in Placed /\ Head(lost) \notin Queued
  BY <1>4, <1>5 DEF Placed
<1>7. OnePlace'
  BY <1>1, <1>3, <1>4, <1>5, OnePlaceNext
<1>8. SessionsAgree'
  BY <1>1, InvParts DEF SessionsAgree
<1>9. \A d \in Conn : /\ cur'[d] \in {cur[d], NoQuery}
                      /\ cur'[d] # NoQuery => srv'[d] = srv[d] /\ partial'[d] = partial[d]
                      /\ pend[d] # NoQuery => state'[d] \in {"Ready", "Busy"}
  BY <1>1, InvParts DEF RequestsAgree
<1> QED BY <1>1, <1>4, <1>6, <1>7, <1>8, <1>9, HeardKeeps

-----------------------------------------------------------------------------
(* fail_stranded()                                                         *)

\* Opening the minimum disturbs no connection with a query.
LEMMA MinRestful ==
    ASSUME Inv, NEW bo \in BOOLEAN, NEW tm \in BOOLEAN,
           EnsureMin(state, fresh, bo, tm, faults)
    PROVE  Restful
<1>1. state \in [Conn -> ConnStates] /\ fresh \in SUBSET Conn /\ faults \in 0..MaxFaults
  BY InvParts DEF TypeOK
<1>2. \A c \in Conn : state'[c] = state[c] \/ (state[c] = "none" /\ state'[c] = "Connecting")
  BY <1>1, MinOpens
<1>3. \A c \in Conn : pend[c] # NoQuery => state[c] \in {"Ready", "Busy"}
  BY InvParts DEF RequestsAgree
<1> QED BY <1>2, <1>3 DEF Restful

\* The queue less its canceled queries is in turn.
LEMMA KeptInTurn ==
    ASSUME Inv, NEW kept \in Picks(queue, Query \ canceledIds)
    PROVE  /\ IsInjective(Only(queue, kept)) /\ InTurn(Only(queue, kept))
           /\ Range(Only(queue, kept)) = Queued \ canceledIds
<1>1. /\ queue \in Seq(Query) /\ IsInjective(queue) /\ InTurn(queue) /\ Queued \subseteq Query
  BY InvParts, PlacedAreQueries DEF TypeOK, OnePlace, UndetachedFirst, InTurn
<1> DEFINE t == Only(queue, kept)
<1>2. /\ Range(t) = Range(queue) \cap (Query \ canceledIds) /\ IsInjective(t)
      /\ \A i, j \in DOMAIN t : i < j =>
            \E k, l \in DOMAIN queue : k < l /\ t[i] = queue[k] /\ t[j] = queue[l]
  BY <1>1, PickHolds
<1> HIDE DEF t
<1>3. InTurn(t)
  BY <1>1, <1>2 DEF InTurn
<1>4. Range(t) = Queued \ canceledIds
  BY <1>1, <1>2 DEF Queued
<1> QED BY <1>2, <1>3, <1>4 DEF t

\* The queries nobody waits for stay, those somebody waits for are lost.
LEMMA StrandedFailKeeps ==
    ASSUME Inv, TypeOK', StrandedFail, Restful, canceledIds' = canceledIds \ Queued,
           UNCHANGED <<cur, asked, marked, detached, detachedQ, partial, pend, srv, sent>>,
           UNCHANGED <<orphans, told, canceled, ran, killed>>
    PROVE  Inv'
<1>1. PICK out \in Picks(queue, Query \ (canceledIds \cup detachedQ)),
           left \in Picks(queue, detachedQ \ canceledIds) :
        /\ queue' = Only(queue, left)
        /\ lost' = lost \o Only(queue, out)
        /\ strandedCalls' = 0
  BY DEF StrandedFail
<1>2. /\ queue \in Seq(Query) /\ lost \in Seq(Query) /\ Queued \subseteq Query
      /\ IsInjective(queue) /\ IsInjective(lost)
      /\ Queued \cap Lost = {} /\ InFlight \cap (Queued \cup Lost) = {}
      /\ \A c, d \in Conn : cur[c] = cur[d] /\ cur[c] # NoQuery => c = d
  <2>1. TypeOK /\ OnePlace
    BY InvParts
  <2> QED BY <2>1, PlacesDiffer, PlacedAreQueries DEF TypeOK
<1> DEFINE failed == Only(queue, out)
<1>3. Range(queue') = Queued \cap (detachedQ \ canceledIds) /\ IsInjective(queue')
  BY <1>1, <1>2, PickHolds DEF Queued
<1>4. /\ failed \in Seq(Query) /\ IsInjective(failed)
      /\ Range(failed) = Queued \cap (Query \ (canceledIds \cup detachedQ))
  BY <1>1, <1>2, PickHolds DEF Queued
<1> HIDE DEF failed
<1>5. lost' = lost \o failed
  BY <1>1 DEF failed
<1>6. Range(lost') = Range(lost) \cup Range(failed) /\ IsInjective(lost')
  <2>1. Range(lost) \cap Range(failed) = {}
    BY <1>2, <1>4 DEF Lost
  <2> QED BY <1>2, <1>4, <1>5, <2>1, ConcatHolds
<1>7. /\ Queued' = Queued \cap (detachedQ \ canceledIds)
      /\ Lost' = Lost \cup (Queued \ (canceledIds \cup detachedQ))
      /\ InFlight' = InFlight
  BY <1>2, <1>3, <1>4, <1>6 DEF Queued, Lost, InFlight
<1>8. /\ Placed' \subseteq Placed /\ Placed \ canceledIds \subseteq Placed'
  BY <1>7 DEF Placed
<1>9. /\ Queued \cap canceledIds = Queued \cap canceled
      /\ (InFlight \cup Lost) \cap canceledIds = {}
      /\ (InFlight \cup Lost) \cap canceled \subseteq marked
      /\ marked \subseteq canceled
  BY InvParts DEF CancelAgrees
<1>10. OnePlace'
  BY <1>2, <1>3, <1>6, <1>7, OnePlaceNext
<1>11. NothingForgotten'
  <2>1. \A x \in asked : told[x] = 0 /\ x \notin canceled \cup detachedQ => x \in Placed
    BY InvParts DEF NothingForgotten, Placed
  <2>2. \A x \in asked : told[x] = 0 /\ x \notin canceled \cup detachedQ => x \in Placed'
    BY <1>7, <1>9, <2>1 DEF Placed
  <2> QED BY <2>2 DEF NothingForgotten, Placed
<1>12. CancelHitsItsOwn' /\ (~detached => detachedQ = {})'
  BY InvParts DEF CancelHitsItsOwn
<1>13. UndetachedFirst'
  <2>1. \A i \in DOMAIN queue' : queue'[i] \in Range(queue')
    BY DEF Range
  <2> QED BY <1>3, <2>1 DEF UndetachedFirst
<1>14. StrandedAgrees'
  BY <1>1 DEF StrandedAgrees
<1>15. SessionsAgree'
  BY InvParts DEF SessionsAgree, Restful
<1>16. HistoryAgrees'
  BY <1>8, InvParts DEF HistoryAgrees
<1>17. RunAgrees'
  BY <1>7, InvParts DEF RunAgrees, Running
<1>18. CancelAgrees'
  <2>1. (InFlight' \cup Lost') \cap canceled \subseteq marked
    BY <1>2, <1>7, <1>9
  <2>2. (InFlight' \cup Lost') \cap canceledIds' = {}
    BY <1>7, <1>9
  <2>3. Queued' \cap canceledIds' = Queued' \cap canceled
    BY <1>7, <1>9
  <2> QED BY <1>9, <2>1, <2>2, <2>3 DEF CancelAgrees
<1>19. RequestsAgree'
  BY InvParts DEF RequestsAgree, Restful
<1> QED BY <1>10, <1>11, <1>12, <1>13, <1>14, <1>15, <1>16, <1>17, <1>18, <1>19
        DEF Inv, Agreements

LEMMA FailStrandedKeeps == Inv /\ TypeOK' /\ FailStranded => Inv'
<1> SUFFICES ASSUME Inv, TypeOK', FailStranded PROVE Inv'
  OBVIOUS
<1>1. /\ canceledIds' = canceledIds \ Queued
      /\ UNCHANGED <<cur, asked, marked, detached, detachedQ, partial, pend, srv, sent>>
      /\ UNCHANGED <<orphans, told, canceled, ran, killed>>
  BY DEF FailStranded
<1>2. PICK kept \in Picks(queue, Query \ canceledIds) :
         StrandedWaits(kept) \/ StrandedProbes(kept) \/ StrandedFails(kept)
  BY DEF FailStranded
<1>3. /\ StrandedAgrees /\ strandedCalls \in Nat /\ waited \in BOOLEAN /\ probed \in BOOLEAN
      /\ state \in [Conn -> ConnStates]
  BY InvParts DEF TypeOK
\* Nothing is failed: only canceled queries leave the queue.
<1>4. ASSUME queue' = Only(queue, kept), lost' = lost, Restful, StrandedAgrees'
      PROVE  Inv'
  <2>1. IsInjective(queue') /\ InTurn(queue') /\ Queued' = Queued \ canceledIds
    BY <1>4, KeptInTurn DEF Queued
  <2>2. {} \in SUBSET Query /\ asked' = asked \cup {} /\ sent' \subseteq sent
    BY <1>1
  <2>3. /\ Queued' \subseteq Queued /\ Queued \ Queued' \subseteq canceledIds
        /\ canceledIds' \subseteq canceledIds
        /\ Queued' \cap canceledIds' = Queued' \cap canceledIds
    BY <1>1, <2>1
  <2> QED BY <1>1, <1>4, <2>1, <2>2, <2>3, QueueKeeps
<1>5. CASE StrandedWaits(kept)
  <2>1. queue' = Only(queue, kept) /\ lost' = lost /\ UNCHANGED <<state, probed>>
    BY <1>5 DEF StrandedWaits
  <2>2. Restful
    BY <2>1 DEF Restful
  <2>3. CASE UNCHANGED <<waited, strandedCalls>>
    BY <1>4, <2>1, <2>2, <2>3, StrandedSame
  <2>4. CASE ~waited /\ waited' = TRUE /\ strandedCalls' = strandedCalls + 1
    BY <1>3, <1>4, <2>1, <2>2, <2>4 DEF StrandedAgrees
  <2> QED BY <1>5, <2>3, <2>4 DEF StrandedWaits, Patient
<1>6. CASE StrandedProbes(kept)
  <2>1. ~probed /\ probed' = TRUE
    BY <1>6 DEF StrandedProbes
  <2>2. Restful
    <3>1. EnsureMin(state, fresh, FALSE, FALSE, faults)
      BY <1>6 DEF StrandedProbes, EnsureMin
    <3> QED BY <3>1, MinRestful
  <2>3. CASE /\ waited' \in BOOLEAN /\ (waited => waited')
             /\ strandedCalls' = strandedCalls + 1
             /\ queue' = Only(queue, kept) /\ lost' = lost
    <3>1. StrandedAgrees'
      BY <1>3, <2>1, <2>3 DEF StrandedAgrees
    <3> QED BY <1>4, <2>2, <2>3, <3>1
  <2>4. CASE StrandedFail
    BY <1>1, <2>2, <2>4, StrandedFailKeeps
  <2>5. waited' \in BOOLEAN
    BY DEF TypeOK
  <2>6. \/ /\ (waited => waited') /\ strandedCalls' = strandedCalls + 1
           /\ queue' = Only(queue, kept) /\ lost' = lost
        \/ StrandedFail
    BY <1>6 DEF StrandedProbes
  <2> QED BY <2>3, <2>4, <2>5, <2>6
<1>7. CASE StrandedFails(kept)
  <2>1. StrandedFail /\ state' = state
    BY <1>7 DEF StrandedFails
  <2>2. Restful
    BY <2>1 DEF Restful
  <2> QED BY <1>1, <2>1, <2>2, StrandedFailKeeps
<1> QED BY <1>2, <1>5, <1>6, <1>7

-----------------------------------------------------------------------------
(* The server and the network.                                             *)

\* A statement runs, in its session or left behind by one; a packet ends one.
LEMMA ServerKeeps ==
    ASSUME Inv, TypeOK', NEW c \in Conn, NEW q \in Query,
           ServerRuns(c) \/ OrphanRuns(q) \/ CancelArrives(c)
    PROVE  Inv'
<1>1. /\ UNCHANGED <<queue, cur, lost, asked, marked, canceledIds, detached, detachedQ>>
      /\ UNCHANGED <<state, partial, pend, probed, waited, sent>>
      /\ UNCHANGED <<told, canceled, strandedCalls>>
  BY DEF ServerRuns, OrphanRuns, CancelArrives, queries, conns
<1>2. Queued' = Queued /\ Lost' = Lost /\ InFlight' = InFlight /\ Placed' = Placed
  BY <1>1 DEF Queued, Lost, InFlight, Placed
<1>3. OnePlace' /\ UndetachedFirst' /\ (~detached => detachedQ = {})'
  BY <1>1, <1>2, InvParts DEF OnePlace, UndetachedFirst
<1>4. StrandedAgrees' /\ NothingForgotten' /\ CancelAgrees' /\ RequestsAgree'
  BY <1>1, <1>2, InvParts, StrandedSame DEF NothingForgotten, CancelAgrees, RequestsAgree
<1>5. orphans' \subseteq orphans
  BY DEF ServerRuns, OrphanRuns, CancelArrives
<1>6. HistoryAgrees'
  BY <1>1, <1>2, <1>5, InvParts DEF HistoryAgrees
<1>7. /\ \A d \in Conn : srv'[d] = srv[d] \/ (srv[d] = "running" /\ srv'[d] # "running")
      /\ ServerRuns(c) => srv[c] = "running" /\ srv'[c] # "running"
  BY InvParts DEF ServerRuns, OrphanRuns, CancelArrives, TypeOK
<1>8. SessionsAgree'
  BY <1>1, <1>7, InvParts DEF SessionsAgree
<1>9. CancelHitsItsOwn'
  <2>1. CASE killed' = killed
    BY <1>1, <2>1, InvParts DEF CancelHitsItsOwn
  <2>2. CASE CancelArrives(c)
    <3>1. c \in sent /\ srv[c] = "running" /\ killed' = killed \cup {cur[c]}
      BY <2>2 DEF CancelArrives
    <3>2. cur[c] # NoQuery
      BY <3>1, InvParts DEF SessionsAgree
    <3>3. cur[c] \in canceled
      BY <3>1, <3>2, InvParts DEF RequestsAgree
    <3> QED BY <1>1, <3>1, <3>3, InvParts DEF CancelHitsItsOwn
  <2> QED BY <2>1, <2>2 DEF ServerRuns, OrphanRuns
<1>10. RunAgrees'
  <2> SUFFICES ASSUME NEW x \in Query \ Retryable
               PROVE  /\ ran'[x] <= 1
                      /\ x \in Queued \/ x \notin asked => ran'[x] = 0 /\ x \notin orphans'
                      /\ x \in orphans' => ran'[x] = 0 /\ x \notin InFlight
                      /\ \A d \in Conn : cur[d] = x /\ (partial[d] \/ srv'[d] = "running")
                                            => ran'[x] = 0
    BY <1>1, <1>2 DEF RunAgrees, Running
  <2>1. /\ ran[x] <= 1
        /\ x \in Queued \/ x \notin asked => ran[x] = 0 /\ x \notin orphans
        /\ x \in orphans => ran[x] = 0 /\ x \notin InFlight
        /\ \A d \in Conn : cur[d] = x /\ (partial[d] \/ srv[d] = "running") => ran[x] = 0
    BY InvParts DEF RunAgrees, Running
  <2>2. x # NoQuery /\ ran \in [Query -> Nat]
    BY ConstantsAssumption, InvParts DEF TypeOK
  <2>3. CASE ran'[x] = ran[x]
    <3>1. \A d \in Conn : srv'[d] = "running" => srv[d] = "running"
      BY <1>7
    <3> QED BY <1>5, <2>1, <2>3, <3>1
  <2>4. CASE ServerRuns(c) /\ cur[c] = x
    <3>1. /\ ran[x] = 0 /\ ran'[x] = 1
      BY <1>7, <2>1, <2>2, <2>4 DEF ServerRuns
    <3>2. /\ x \in InFlight /\ x \in asked /\ x \notin Queued
      BY <2>2, <2>4, QueryOn
    <3>3. \A d \in Conn : cur[d] = x => d = c
      BY <2>2, <2>4, InvParts DEF OnePlace
    <3>4. ~partial[c] /\ srv'[c] # "running"
      BY <1>7, <2>4, InvParts DEF SessionsAgree
    <3> QED BY <1>5, <2>1, <3>1, <3>2, <3>3, <3>4
  <2>5. CASE OrphanRuns(q) /\ q = x
    <3>1. x \in orphans /\ x \notin orphans'
      BY <2>5 DEF OrphanRuns
    <3>2. ran'[x] = 1
      BY <2>1, <2>2, <2>5, <3>1 DEF OrphanRuns
    <3>3. \A d \in Conn : cur[d] # x
      BY <2>1, <2>2, <3>1 DEF InFlight
    <3> QED BY <2>1, <3>1, <3>2, <3>3
  <2> QED BY <2>2, <2>3, <2>4, <2>5 DEF ServerRuns, OrphanRuns, CancelArrives
<1> QED BY <1>3, <1>4, <1>6, <1>8, <1>9, <1>10 DEF Inv, Agreements

-----------------------------------------------------------------------------
(* Every step keeps the invariant.                                         *)

LEMMA OnConnectionKeeps ==
    ASSUME Inv, TypeOK', NEW c \in Conn, OnConnection(c)
    PROVE  Inv'
<1>1. /\ partial[c] \in BOOLEAN /\ Running(c) \in BOOLEAN /\ faults \in Nat
      /\ (partial[c] => ~Running(c))
      /\ state \in [Conn -> ConnStates] /\ fresh \in SUBSET Conn
      /\ backoff \in BOOLEAN /\ timer \in BOOLEAN /\ faults \in 0..MaxFaults
  <2>1. faults \in Nat
    BY CountsAreNumbers, InvParts DEF TypeOK
  <2> QED BY <2>1, InvParts DEF TypeOK, SessionsAgree, Running
<1> DEFINE gone == [state EXCEPT ![c] = "none"]
<1>2. /\ gone \in [Conn -> ConnStates]
      /\ \A d \in Conn : gone[d] = IF d = c THEN "none" ELSE state[d]
  BY <1>1 DEF ConnStates
<1>3. CASE ConnectOk(c)
  <2>1. /\ state[c] = "Connecting"
        /\ \A d \in Conn : state'[d] = IF d = c THEN "Ready" ELSE state[d]
        /\ strandedCalls' = 0 /\ waited' = FALSE /\ probed' = FALSE
        /\ UNCHANGED <<queries, partial, pend, world, told, canceled, ran, killed>>
    BY <1>1, <1>3 DEF ConnectOk
  <2>2. pend[c] = NoQuery
    BY <2>1, NotBusyIsFree
  <2>3. StrandedAgrees'
    BY <2>1 DEF StrandedAgrees
  <2>4. \A d \in Conn : /\ state'[d] = "Busy" <=> state[d] = "Busy"
                        /\ pend[d] # NoQuery => state'[d] = state[d]
    BY <2>1, <2>2
  <2> QED BY <2>1, <2>3, <2>4, CalmKeeps DEF queries, world
<1>4. CASE ConnectFailed(c)
  <2> DEFINE fr == IF c \in fresh THEN {} ELSE fresh
             bo == backoff \/ c \in fresh
  <2>1. state[c] = "Connecting" /\ EnsureMin(gone, fr, bo, timer, faults + 1)
    BY <1>4 DEF ConnectFailed
  <2>2. fr \in SUBSET Conn /\ bo \in BOOLEAN /\ faults + 1 \in 0..MaxFaults
    BY <1>1, <1>4, CountsAreNumbers DEF ConnectFailed
  <2>3. /\ UNCHANGED <<queries, partial, pend, probed, waited, on>>
        /\ UNCHANGED <<link, srv, sent, orphans, history>>
    BY <1>4 DEF ConnectFailed
  <2>4. \A d \in Conn : gone[d] = state[d] \/ (/\ state[d] \notin {"Ready", "Busy"}
                                              /\ gone[d] = "none")
    BY <1>2, <2>1
  <2> HIDE DEF gone, fr, bo
  <2> QED BY <1>1, <1>2, <2>1, <2>2, <2>3, <2>4, EnsureMinKeeps
<1>5. CASE Flush(c)
  <2>1. CASE Lose(c, FALSE, link[c] = "up", faults + 1)
    <3>1. partial[c] /\ (link[c] = "up") \in BOOLEAN /\ faults + 1 \in Nat
      BY <1>1, <1>5 DEF Flush
    <3> QED BY <2>1, <3>1, LoseKeeps
  <2>2. CASE /\ partial' = [partial EXCEPT ![c] = FALSE]
             /\ srv' = [srv EXCEPT ![c] = IF link[c] = "up" THEN "running" ELSE @]
             /\ UNCHANGED <<queries, state, pend, fresh, backoff, timer, probed, waited>>
             /\ UNCHANGED <<at, on, link, sent, orphans, faults, history>>
    <3>1. partial[c] /\ state[c] = "Busy"
      BY <1>5 DEF Flush
    <3>2. \A d \in Conn : /\ partial'[d] = IF d = c THEN FALSE ELSE partial[d]
                          /\ d # c => srv'[d] = srv[d]
      BY <2>2, InvParts DEF TypeOK
    <3>3. /\ UNCHANGED <<queue, cur, lost, asked, marked, canceledIds, detached, detachedQ>>
          /\ UNCHANGED <<told, canceled, ran, killed, strandedCalls>>
          /\ UNCHANGED <<state, pend, probed, waited, sent, orphans>>
      BY <2>2 DEF queries, history
    <3>4. Queued' = Queued /\ Lost' = Lost /\ InFlight' = InFlight /\ Placed' = Placed
      BY <3>3 DEF Queued, Lost, InFlight, Placed
    <3>5. OnePlace' /\ UndetachedFirst' /\ (~detached => detachedQ = {})' /\ CancelHitsItsOwn'
      BY <3>3, <3>4, InvParts DEF OnePlace, UndetachedFirst, CancelHitsItsOwn
    <3>6. /\ StrandedAgrees' /\ NothingForgotten' /\ CancelAgrees' /\ RequestsAgree'
          /\ HistoryAgrees'
      BY <3>3, <3>4, InvParts, StrandedSame
         DEF NothingForgotten, CancelAgrees, RequestsAgree, HistoryAgrees
    <3>7. SessionsAgree'
      BY <3>1, <3>2, <3>3, InvParts DEF SessionsAgree
    <3>8. RunAgrees'
      BY <3>1, <3>2, <3>3, <3>4, InvParts DEF RunAgrees, Running
    <3> QED BY <3>5, <3>6, <3>7, <3>8 DEF Inv, Agreements
  <2> QED BY <1>5, <2>1, <2>2 DEF Flush
<1>6. CASE ResultArrives(c)
  BY <1>6, ResultArrivesKeeps
<1>7. CASE ConnectionLost(c)
  BY <1>1, <1>7, LoseKeeps DEF ConnectionLost
<1>8. CASE CancelLeaves(c)
  <2>1. /\ pend[c] # NoQuery /\ sent' = sent \cup {c}
        /\ UNCHANGED <<queries, conns, srv, orphans, history>>
    BY <1>8 DEF CancelLeaves
  <2>2. StrandedAgrees'
    BY <2>1, StrandedSame DEF conns, history
  <2> QED BY <2>1, <2>2, CalmKeeps DEF queries, conns, history
<1>9. CASE CancelEnds(c)
  <2>1. /\ sent' = sent \ {c}
        /\ \A d \in Conn : pend'[d] = IF d = c THEN NoQuery ELSE pend[d]
        /\ UNCHANGED <<queue, cur, lost, asked, marked, canceledIds, detached, detachedQ>>
        /\ UNCHANGED <<told, canceled, ran, killed, strandedCalls>>
        /\ UNCHANGED <<state, partial, probed, waited, srv, orphans>>
    BY <1>9, InvParts DEF CancelEnds, queries, history, TypeOK
  <2>2. Queued' = Queued /\ Lost' = Lost /\ InFlight' = InFlight /\ Placed' = Placed
    BY <2>1 DEF Queued, Lost, InFlight, Placed
  <2>3. OnePlace' /\ UndetachedFirst' /\ (~detached => detachedQ = {})' /\ CancelHitsItsOwn'
    BY <2>1, <2>2, InvParts DEF OnePlace, UndetachedFirst, CancelHitsItsOwn
  <2>4. /\ StrandedAgrees' /\ NothingForgotten' /\ CancelAgrees' /\ HistoryAgrees'
    BY <2>1, <2>2, InvParts, StrandedSame DEF NothingForgotten, CancelAgrees, HistoryAgrees
  <2>5. SessionsAgree' /\ RunAgrees'
    BY <2>1, <2>2, InvParts DEF SessionsAgree, RunAgrees, Running
  <2>6. RequestsAgree'
    BY <2>1, InvParts DEF RequestsAgree
  <2> QED BY <2>3, <2>4, <2>5, <2>6 DEF Inv, Agreements
<1>10. CASE CancelFails(c)
  <2>1. Lose(c, partial[c], Running(c), faults + 1) /\ faults + 1 \in Nat
    BY <1>1, <1>10 DEF CancelFails
  <2> QED BY <1>1, <2>1, LoseKeeps
<1>11. CASE Stall(c)
  <2> DEFINE f == IF link[c] = "up" THEN faults + 1 ELSE faults
  <2>1. Lose(c, partial[c], Running(c), f) /\ f \in Nat
    BY <1>1, <1>11 DEF Stall
  <2> HIDE DEF f
  <2> QED BY <1>1, <2>1, LoseKeeps
<1>12. CASE HeartbeatReplaces(c)
  <2>1. state[c] = "Error" /\ EnsureMin(gone, fresh, backoff, timer, faults)
    BY <1>12 DEF HeartbeatReplaces
  <2>2. /\ UNCHANGED <<queries, partial, pend, probed, waited, on>>
        /\ UNCHANGED <<link, srv, sent, orphans, history>>
    BY <1>12 DEF HeartbeatReplaces
  <2>3. \A d \in Conn : gone[d] = state[d] \/ (/\ state[d] \notin {"Ready", "Busy"}
                                              /\ gone[d] = "none")
    BY <1>2, <2>1
  <2> HIDE DEF gone
  <2> QED BY <1>1, <1>2, <2>1, <2>2, <2>3, EnsureMinKeeps
<1>13. CASE Drain(c)
  BY <1>13, DispatchQueueKeeps DEF Drain
<1> QED BY <1>3, <1>4, <1>5, <1>6, <1>7, <1>8, <1>9, <1>10, <1>11, <1>12, <1>13
        DEF OnConnection

LEMMA OnThreadKeeps == Inv /\ TypeOK' /\ OnThread => Inv'
<1> SUFFICES ASSUME Inv, TypeOK', OnThread PROVE Inv'
  OBVIOUS
<1>1. /\ state \in [Conn -> ConnStates] /\ fresh \in SUBSET Conn
      /\ backoff \in BOOLEAN /\ timer \in BOOLEAN /\ faults \in 0..MaxFaults
      /\ \A c \in Conn : state[c] = state[c]
  BY InvParts DEF TypeOK
\* Only the thread moves on.
<1>2. ASSUME UNCHANGED <<queue, cur, lost, asked, marked, canceledIds, detached, detachedQ>>,
             UNCHANGED <<conns, world, history>>
      PROVE  Inv'
  <2>1. StrandedAgrees'
    BY <1>2, StrandedSame DEF conns, history
  <2> QED BY <1>2, <2>1, CalmKeeps DEF conns, world, history
\* The minimum is restored.
<1>3. ASSUME \E tm \in BOOLEAN : EnsureMin(state, fresh, backoff, tm, faults),
             UNCHANGED <<queries, partial, pend, probed, waited, on>>,
             UNCHANGED <<link, srv, sent, orphans, history>>
      PROVE  Inv'
  BY <1>1, <1>3, EnsureMinKeeps
<1>4. CASE Start
  BY <1>1, <1>3, <1>4 DEF Start
<1>5. CASE HandlerReturns \/ LostHandlerReturns \/ AllToldOfLoss \/ Heartbeat \/ LostTimer
  BY <1>2, <1>5
     DEF HandlerReturns, LostHandlerReturns, AllToldOfLoss, Heartbeat, LostTimer, queries
<1>6. CASE Dispatch
  <2>1. on \in Conn
    BY <1>6, InvParts DEF Dispatch, TypeOK
  <2> QED BY <1>6, <2>1, DispatchQueueKeeps DEF Dispatch
<1>7. CASE ReconnectTimer
  BY <1>1, <1>3, <1>7 DEF ReconnectTimer
<1>8. CASE HeartbeatRestores
  BY <1>1, <1>3, <1>8 DEF HeartbeatRestores
<1>9. CASE DrainEnds
  BY <1>9, DrainEndsKeeps
<1>10. CASE TellLost
  BY <1>10, TellLostKeeps
<1> QED BY <1>4, <1>5, <1>6, <1>7, <1>8, <1>9, <1>10 DEF OnThread

LEMMA InvStep == Inv /\ [Next]_vars => Inv'
<1> SUFFICES ASSUME Inv, [Next]_vars PROVE Inv'
  OBVIOUS
<1>1. TypeOK'
  BY InvParts, TypeStep
<1>2. CASE UNCHANGED vars
  <2>1. /\ UNCHANGED <<queries, conns, world, history>>
    BY <1>2 DEF vars
  <2>2. StrandedAgrees'
    BY <2>1, StrandedSame DEF conns, history
  <2> QED BY <1>1, <2>1, <2>2, CalmKeeps DEF queries, conns, world, history
<1>3. ASSUME NEW q \in Query, User(q) PROVE Inv'
  BY <1>1, <1>3, ExecuteSendsKeeps, ExecuteQueuesKeeps, ExecuteThrowsKeeps,
     CancelInFlightKeeps, CancelLostKeeps, CancelByIdKeeps DEF User, Cancel
<1>4. ASSUME NEW q \in Query, OrphanRuns(q) PROVE Inv'
  <2>1. PICK c \in Conn : TRUE
    <3>1. Conn # {}
      BY ConstantsAssumption, FS_EmptySet
    <3> QED BY <3>1
  <2> QED BY <1>1, <1>4, <2>1, ServerKeeps
<1>5. CASE Detach
  BY <1>1, <1>5, DetachKeeps
<1>6. CASE FailStranded
  BY <1>1, <1>6, FailStrandedKeeps
<1>7. ASSUME NEW c \in Conn, OnConnection(c) PROVE Inv'
  BY <1>1, <1>7, OnConnectionKeeps
<1>8. ASSUME NEW c \in Conn, LinkBreaks(c) \/ CutIsNoticed(c) PROVE Inv'
  <2>1. UNCHANGED <<queries, conns, srv, sent, orphans, history>>
    BY <1>8 DEF LinkBreaks, CutIsNoticed
  <2>2. StrandedAgrees'
    BY <2>1, StrandedSame DEF conns, history
  <2> QED BY <1>1, <2>1, <2>2, CalmKeeps DEF queries, conns, history
<1>9. ASSUME NEW c \in Conn, ServerRuns(c) \/ CancelArrives(c) PROVE Inv'
  <2>1. CASE \E q \in Query : TRUE
    BY <1>1, <1>9, <2>1, ServerKeeps
  <2>2. CASE ~\E q \in Query : TRUE
    <3>1. cur[c] = NoQuery /\ srv[c] = "running"
      BY <1>9, <2>2, InvParts DEF TypeOK, ServerRuns, CancelArrives
    <3> QED BY <3>1, InvParts DEF SessionsAgree
  <2> QED BY <2>1, <2>2
<1>10. CASE OnThread
  BY <1>1, <1>10, OnThreadKeeps
<1>11. CASE BackoffExpires
  <2>1. /\ UNCHANGED <<queries, state, partial, pend, probed, waited, world, history>>
    BY <1>11 DEF BackoffExpires
  <2>2. StrandedAgrees'
    BY <2>1, StrandedSame DEF history
  <2> QED BY <1>1, <2>1, <2>2, CalmKeeps DEF queries, world, history
<1> QED BY <1>2, <1>3, <1>4, <1>5, <1>6, <1>7, <1>8, <1>9, <1>10, <1>11 DEF Next, Outside

LEMMA InvInit == Init => Inv
<1> SUFFICES ASSUME Init PROVE Inv
  OBVIOUS
<1>1. TypeOK
  BY TypeInit
<1>2. Queued = {} /\ Lost = {} /\ InFlight = {} /\ Placed = {}
  BY DEF Init, Queued, Lost, InFlight, Placed, Range
<1>3. OnePlace
  BY <1>2 DEF Init, OnePlace, IsInjective
<1>4. NothingForgotten /\ CancelHitsItsOwn /\ UndetachedFirst /\ (~detached => detachedQ = {})
  BY DEF Init, NothingForgotten, CancelHitsItsOwn, UndetachedFirst
<1>5. SessionsAgree
  BY DEF Init, SessionsAgree
<1>6. HistoryAgrees /\ CancelAgrees
  BY <1>2 DEF Init, HistoryAgrees, CancelAgrees
<1>7. RunAgrees
  BY <1>2 DEF Init, RunAgrees, Running
<1>8. RequestsAgree /\ StrandedAgrees
  BY DEF Init, RequestsAgree, StrandedAgrees
<1> QED BY <1>1, <1>3, <1>4, <1>5, <1>6, <1>7, <1>8, InvParts

\* Inv holds of every state: it is inductive.
THEOREM InvCorrect == Spec => []Inv
BY InvInit, InvStep, PTL DEF Spec

-----------------------------------------------------------------------------
(* The safety properties, for any pool.                                    *)

\* No path through execute(), dispatch_queue(), a loss, a stop or a heartbeat
\* leaves a query with two owners.
THEOREM OnePlaceCorrect == Spec => []OnePlace
<1>1. Inv => OnePlace
  BY InvParts
<1> QED BY <1>1, InvCorrect, PTL

\* No path drops a query its caller still waits for.
THEOREM NothingForgottenCorrect == Spec => []NothingForgotten
<1>1. Inv => NothingForgotten
  BY InvParts
<1> QED BY <1>1, InvCorrect, PTL

\* Whatever is lost, reset and re-queued, a statement that may not be repeated
\* is run at most once.
THEOREM NotRunTwiceCorrect == Spec => []NotRunTwice
<1>1. Inv => NotRunTwice
  BY InvParts DEF RunAgrees, NotRunTwice
<1> QED BY <1>1, InvCorrect, PTL

\* No cancel packet ends the statement of another query.
THEOREM CancelHitsItsOwnCorrect == Spec => []CancelHitsItsOwn
<1>1. Inv => CancelHitsItsOwn
  BY InvParts
<1> QED BY <1>1, InvCorrect, PTL

\* enqueue(), fail_stranded() and the dispatching keep the queries somebody
\* waits for in front of the detached ones.
THEOREM UndetachedFirstCorrect == Spec => []UndetachedFirst
<1>1. Inv => UndetachedFirst
  BY InvParts
<1> QED BY <1>1, InvCorrect, PTL

\* fail_stranded() waits for a reconnect once and probes once per outage: its
\* third call in a row fails what is stranded.
THEOREM StrandedByThirdCorrect == Spec => []StrandedByThird
<1>1. Inv => StrandedByThird
  BY InvParts DEF StrandedAgrees, StrandedByThird, TypeOK
<1> QED BY <1>1, InvCorrect, PTL

\* Marks, sessions, requests and histories agree in every state.
THEOREM AgreementsCorrect == Spec => []Agreements
<1>1. Inv => Agreements
  BY DEF Inv
<1> QED BY <1>1, InvCorrect, PTL

-----------------------------------------------------------------------------
(* The pool implements AsyncQuery.                                         *)

\* A step that asks nothing, tells nobody and releases nobody stutters.
LEMMA UntoldStutters ==
    ASSUME UNCHANGED <<asked, told, canceled, detachedQ>>
    PROVE  UNCHANGED Promise!vars
BY DEF Promise!vars, Phase

\* A handler called, or not, is a Tell or a stutter.
LEMMA HeardTells ==
    ASSUME Inv, NEW q \in InFlight \cup Lost, Heard(q), UNCHANGED <<asked, canceled, detachedQ>>
    PROVE  [Promise!Next]_Promise!vars
<1>1. q \in Query /\ q \in asked /\ told[q] = 0 /\ told \in [Query -> Nat]
  BY InvParts, PlacedAreQueries DEF Placed, HistoryAgrees, TypeOK
<1>2. CASE q \in marked \cup detachedQ
  BY <1>2, UntoldStutters DEF Heard
<1>3. CASE q \notin marked \cup detachedQ
  <2>1. q \notin canceled
    BY <1>3, InvParts DEF CancelAgrees
  <2>2. told' = [told EXCEPT ![q] = @ + 1]
    BY <1>3 DEF Heard
  <2>3. Phase(q) = "waiting"
    BY <1>1, <1>3, <2>1 DEF Phase
  <2>4. told'[q] = 1 /\ \A x \in Query \ {q} : told'[x] = told[x]
    BY <1>1, <2>2
  <2>5. Phase(q)' = "told"
    BY <1>1, <2>4 DEF Phase
  <2>6. \A x \in Query \ {q} : Phase(x)' = Phase(x)
    BY <2>4 DEF Phase
  <2>7. Promise!Tell(q)
    BY <1>1, <2>2, <2>3, <2>5, <2>6 DEF Promise!Tell
  <2> QED BY <1>1, <2>7 DEF Promise!Next
<1> QED BY <1>2, <1>3

LEMMA ExecuteAsks ==
    ASSUME Inv, NEW q \in Query, ExecuteSends(q) \/ ExecuteQueues(q)
    PROVE  [Promise!Next]_Promise!vars
<1>1. /\ q \notin asked /\ asked' = asked \cup {q}
      /\ UNCHANGED <<told, canceled, detachedQ>>
  BY DEF ExecuteSends, ExecuteQueues, history
<1>2. told[q] = 0 /\ q \notin canceled \cup detachedQ
  BY <1>1, NewQuery
<1>3. Phase(q) = "new" /\ Phase(q)' = "waiting"
  BY <1>1, <1>2 DEF Phase
<1>4. \A x \in Query \ {q} : Phase(x)' = Phase(x)
  BY <1>1 DEF Phase
<1>5. Promise!Ask(q)
  BY <1>1, <1>3, <1>4 DEF Promise!Ask
<1> QED BY <1>5 DEF Promise!Next

\* execute() that throws tells its caller so.
LEMMA ExecuteThrowsTells ==
    ASSUME Inv, NEW q \in Query, ExecuteThrows(q)
    PROVE  [Promise!Next]_Promise!vars
<1>1. /\ q \notin asked /\ asked' = asked \cup {q} /\ told' = [told EXCEPT ![q] = @ + 1]
      /\ UNCHANGED <<canceled, detachedQ>>
  BY DEF ExecuteThrows
<1>2. told[q] = 0 /\ told \in [Query -> Nat]
  BY <1>1, NewQuery, InvParts DEF TypeOK
<1>3. told'[q] = 1 /\ \A x \in Query \ {q} : told'[x] = told[x]
  BY <1>1, <1>2
<1>4. Phase(q) = "new" /\ Phase(q)' = "told"
  BY <1>1, <1>3 DEF Phase
<1>5. \A x \in Query \ {q} : Phase(x)' = Phase(x)
  BY <1>1, <1>3 DEF Phase
<1>6. Promise!Tell(q)
  BY <1>1, <1>4, <1>5 DEF Promise!Tell
<1> QED BY <1>6 DEF Promise!Next

\* cancel() releases the query, or comes too late.
LEMMA CancelReleases ==
    ASSUME Inv, NEW q \in Query, Cancel(q)
    PROVE  [Promise!Next]_Promise!vars
<1>1. /\ canceled' = IF told[q] = 0 THEN canceled \cup {q} ELSE canceled
      /\ UNCHANGED <<asked, told, detachedQ>> /\ q \in asked
  <2>1. q \in Lost => q \in asked
    BY InvParts DEF HistoryAgrees, Placed
  <2> QED BY <2>1 DEF Cancel, CancelInFlight, CancelLost, CancelById, NotedCanceled
<1>2. told \in [Query -> Nat]
  BY InvParts DEF TypeOK
<1>3. CASE Phase(q) = "waiting"
  <2>1. Phase(q)' = "released"
    BY <1>1, <1>2, <1>3 DEF Phase
  <2>2. \A x \in Query \ {q} : Phase(x)' = Phase(x)
    BY <1>1 DEF Phase
  <2>3. Promise!Release({q})
    BY <1>1, <1>3, <2>1, <2>2 DEF Promise!Release
  <2> QED BY <2>3 DEF Promise!Next
<1>4. CASE Phase(q) # "waiting"
  <2>1. \A x \in Query : Phase(x)' = Phase(x)
    BY <1>1, <1>2, <1>4 DEF Phase
  <2> QED BY <1>1, <2>1 DEF Promise!vars
<1> QED BY <1>3, <1>4

\* detach() releases every query still waited for.
LEMMA DetachReleases == Inv /\ Detach => [Promise!Next]_Promise!vars
<1> SUFFICES ASSUME Inv, Detach PROVE [Promise!Next]_Promise!vars
  OBVIOUS
<1> DEFINE S == {x \in Query : Phase(x) = "waiting"}
<1>1. /\ detachedQ' = Placed /\ detachedQ = {}
      /\ UNCHANGED <<asked, told, canceled>>
  BY InvParts DEF Detach, Placed, history
<1>2. \A x \in S : Phase(x)' = "released"
  <2>1. \A x \in S : x \in asked /\ ~(told[x] > 0) /\ x \notin canceled
    BY DEF Phase
  <2>2. \A x \in S : x \in Placed
    <3>1. \A x \in Query : told[x] \in Nat
      BY InvParts DEF TypeOK
    <3>2. \A x \in S : told[x] = 0
      BY <2>1, <3>1
    <3> QED BY <1>1, <2>1, <3>2, InvParts DEF NothingForgotten, Placed
  <2> QED BY <1>1, <2>1, <2>2 DEF Phase
<1>3. \A x \in Query \ S : Phase(x)' = Phase(x)
  <2>1. \A x \in Placed : told[x] = 0 /\ x \in asked
    BY InvParts DEF HistoryAgrees
  <2> QED BY <1>1, <2>1 DEF Phase
<1>4. CASE S = {}
  BY <1>1, <1>3, <1>4 DEF Promise!vars
<1>5. CASE S # {}
  <2>1. Promise!Release(S)
    BY <1>1, <1>2, <1>3, <1>5 DEF Promise!Release
  <2> QED BY <2>1 DEF Promise!Next
<1> QED BY <1>4, <1>5

LEMMA StepKeepsPromise == Inv /\ [Next]_vars => [Promise!Next]_Promise!vars
<1> SUFFICES ASSUME Inv, [Next]_vars PROVE [Promise!Next]_Promise!vars
  OBVIOUS
<1>1. CASE UNCHANGED vars
  BY <1>1, UntoldStutters DEF vars, queries, history
<1>2. ASSUME NEW q \in Query, User(q) PROVE [Promise!Next]_Promise!vars
  BY <1>2, ExecuteAsks, ExecuteThrowsTells, CancelReleases DEF User
<1>3. ASSUME NEW q \in Query, OrphanRuns(q) PROVE [Promise!Next]_Promise!vars
  BY <1>3, UntoldStutters DEF OrphanRuns, queries
<1>4. CASE Detach
  BY <1>4, DetachReleases
<1>5. CASE FailStranded
  BY <1>5, UntoldStutters DEF FailStranded
<1>6. ASSUME NEW c \in Conn, ResultArrives(c) PROVE [Promise!Next]_Promise!vars
  <2>1. cur[c] # NoQuery
    BY <1>6, InvParts DEF SessionsAgree, ResultArrives
  <2>2. Heard(cur[c]) /\ UNCHANGED <<asked, canceled, detachedQ>>
    BY <1>6 DEF ResultArrives, Heard, Silent
  <2>3. cur[c] \in InFlight
    BY <2>1, QueryOn
  <2> QED BY <2>2, <2>3, HeardTells
<1>7. CASE TellLost
  <2>1. lost # <<>> /\ lost \in Seq(Query)
    BY <1>7, InvParts DEF TellLost, TypeOK
  <2>2. Head(lost) \in Lost
    BY <2>1, TailHolds DEF Lost
  <2>3. Heard(Head(lost)) /\ UNCHANGED <<asked, canceled, detachedQ>>
    BY <1>7 DEF TellLost, Heard, Silent
  <2> QED BY <2>2, <2>3, HeardTells
<1>8. ASSUME NEW c \in Conn, OnConnection(c), ~ResultArrives(c)
      PROVE  [Promise!Next]_Promise!vars
  <2>1. UNCHANGED <<asked, told, canceled, detachedQ>>
    BY <1>8 DEF OnConnection, ConnectOk, ConnectFailed, Flush, ConnectionLost, CancelLeaves,
       CancelEnds, CancelFails, Stall, HeartbeatReplaces, Drain, Lose, DispatchQueue,
       DispatchNothing, DispatchSends, DispatchFails, queries, history
  <2> QED BY <2>1, UntoldStutters
<1>9. ASSUME NEW c \in Conn, Outside(c) PROVE [Promise!Next]_Promise!vars
  BY <1>9, UntoldStutters
     DEF Outside, ServerRuns, CancelArrives, LinkBreaks, CutIsNoticed, queries, history
<1>10. CASE OnThread /\ ~TellLost
  BY <1>10, UntoldStutters
     DEF OnThread, Start, HandlerReturns, Dispatch, ReconnectTimer, Heartbeat,
         HeartbeatRestores, DrainEnds, LostTimer, LostHandlerReturns, AllToldOfLoss,
         DispatchQueue, DispatchNothing, DispatchSends, DispatchFails, queries, history
<1>11. CASE BackoffExpires
  BY <1>11, UntoldStutters DEF BackoffExpires, queries, history
<1> QED BY <1>1, <1>2, <1>3, <1>4, <1>5, <1>6, <1>7, <1>8, <1>9, <1>10, <1>11 DEF Next

LEMMA InitKeepsPromise == Init => Promise!Init
BY DEF Init, Promise!Init, Phase

\* Whatever happens to the connections, execute()'s callers see AsyncQuery: a
\* query is told at most once, and never after cancel() or detach().
THEOREM KeepsPromiseCorrect == Spec => KeepsPromise
BY InitKeepsPromise, StepKeepsPromise, InvCorrect, PTL DEF Spec, KeepsPromise, Promise!Spec
=============================================================================
