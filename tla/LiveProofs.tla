----------------------------- MODULE LiveProofs -----------------------------
(* Theorems about the live streams, for every number of sessions, names    *)
(* and configurations.                                                     *)
EXTENDS Live, FiniteSetTheorems, SequenceTheorems, TLAPS

USE DEF life, world

\* An HTTP player that its publisher has dropped keeps a pointer to the stream,
\* which may be freed and made again.  With one name it is the same stream then.
OneName == \A m, n \in Names : m = n

-----------------------------------------------------------------------------
(* Selecting elements of a sequence.                                       *)

LEMMA RankGrows ==
  ASSUME NEW n \in Nat, NEW P \in SUBSET (1 .. n),
         NEW i \in P, NEW j \in P, i < j
  PROVE  Rank(P, i) < Rank(P, j)
<1> DEFINE Low == {k \in P : k <= i}
           High == {k \in P : k <= j}
<1>1. IsFiniteSet(1 .. n)
  BY FS_Interval
<1>2. IsFiniteSet(High) /\ Cardinality(High) \in Nat
  <2>1. High \in SUBSET (1 .. n)
    OBVIOUS
  <2> QED
    BY <1>1, <2>1, FS_Subset, FS_CardinalityType
<1>3. j \in High /\ Low \in SUBSET (High \ {j})
  <2>1. \A k \in P : k \in Int
    OBVIOUS
  <2>2. \A k \in P : k <= i => k <= j /\ k # j
    BY <2>1
  <2>3. j <= j
    BY <2>1
  <2>4. \A k \in Low : k \in High \ {j}
    BY <2>2
  <2> QED
    BY <2>3, <2>4, Zenon
<1> HIDE DEF Low, High
<1>4. IsFiniteSet(High \ {j}) /\ Cardinality(High \ {j}) = Cardinality(High) - 1
  BY <1>2, <1>3, FS_RemoveElement
<1>5. Cardinality(Low) <= Cardinality(High) - 1
  <2>1. Cardinality(Low) <= Cardinality(High \ {j})
    BY <1>3, <1>4, FS_Subset
  <2> QED
    BY <1>4, <2>1
<1>6. Cardinality(Low) \in Nat
  BY <1>3, <1>4, FS_Subset, FS_CardinalityType
<1>7. Cardinality(Low) < Cardinality(High)
  BY <1>2, <1>5, <1>6
<1> QED
  BY <1>7 DEF Rank, Low, High

\* Every number up to the size of a set of positions is the rank of exactly
\* one of them.
LEMMA RankIsOnto ==
  ASSUME NEW n \in Nat, NEW P \in SUBSET (1 .. n)
  PROVE  /\ Cardinality(P) \in Nat
         /\ \A i \in P : Rank(P, i) \in 1 .. Cardinality(P)
         /\ \A i, j \in P : Rank(P, i) = Rank(P, j) => i = j
         /\ \A k \in 1 .. Cardinality(P) : \E i \in P : Rank(P, i) = k
<1>1. IsFiniteSet(1 .. n)
  BY FS_Interval
<1>2. IsFiniteSet(P) /\ Cardinality(P) \in Nat
  BY <1>1, FS_Subset, FS_CardinalityType
<1>3. ASSUME NEW i \in P PROVE Rank(P, i) \in 1 .. Cardinality(P)
  <2> DEFINE Low == {k \in P : k <= i}
  <2>1. Low \in SUBSET P /\ i \in Low
    OBVIOUS
  <2> HIDE DEF Low
  <2>2. IsFiniteSet(Low) /\ Cardinality(Low) <= Cardinality(P) /\ Cardinality(Low) \in Nat
    BY <1>2, <2>1, FS_Subset, FS_CardinalityType
  <2>3. Cardinality(Low) # 0
    BY <2>1, <2>2, FS_EmptySet
  <2>4. Cardinality(Low) \in 1 .. Cardinality(P)
    BY <1>2, <2>2, <2>3
  <2> QED
    BY <2>4 DEF Rank, Low
<1>4. ASSUME NEW i \in P, NEW j \in P, Rank(P, i) = Rank(P, j) PROVE i = j
  <2>1. i \in Int /\ j \in Int /\ Rank(P, i) \in Int
    BY <1>2, <1>3
  <2>2. ASSUME i < j PROVE FALSE
    <3>1. Rank(P, i) < Rank(P, j)
      BY <2>2, RankGrows
    <3> QED
      BY <1>4, <2>1, <3>1
  <2>3. ASSUME j < i PROVE FALSE
    <3>1. Rank(P, j) < Rank(P, i)
      BY <2>3, RankGrows
    <3> QED
      BY <1>4, <2>1, <3>1
  <2> QED
    BY <2>1, <2>2, <2>3
<1> DEFINE r == [i \in P |-> Rank(P, i)]
           N == 1 .. Cardinality(P)
<1>5. r \in Injection(P, N)
  BY <1>3, <1>4 DEF Injection, IsInjective
<1>6. IsFiniteSet(N) /\ Cardinality(N) = Cardinality(P)
  <2>1. /\ IsFiniteSet(1 .. Cardinality(P))
        /\ Cardinality(1 .. Cardinality(P))
           = IF 1 > Cardinality(P) THEN 0 ELSE Cardinality(P) - 1 + 1
    BY <1>2, FS_Interval
  <2> QED
    BY <1>2, <2>1
<1>7. r \in Surjection(P, N)
  <2> HIDE DEF r, N
  <2> QED
    BY <1>5, <1>6, FS_Injection
<1>8. \A k \in N : \E i \in P : Rank(P, i) = k
  BY <1>7 DEF Surjection
<1> QED
  BY <1>2, <1>3, <1>4, <1>8

LEMMA KeptProperties ==
  ASSUME NEW S, NEW q \in Seq(S), NEW set
  PROVE  /\ Kept(q, set) \in Seq(S) /\ Range(Kept(q, set)) = Range(q) \cap set
         /\ IsInjective(q) => IsInjective(Kept(q, set))
<1> DEFINE P == {i \in DOMAIN q : q[i] \in set}
           n == Cardinality(P)
           Nth(k) == CHOOSE i \in P : Rank(P, i) = k
<1>1. DOMAIN q = 1 .. Len(q) /\ Len(q) \in Nat /\ \A i \in 1 .. Len(q) : q[i] \in S
  OBVIOUS
<1>2. P \in SUBSET (1 .. Len(q))
  BY <1>1
<1>3. /\ n \in Nat
      /\ \A i \in P : Rank(P, i) \in 1 .. n
      /\ \A i, j \in P : Rank(P, i) = Rank(P, j) => i = j
      /\ \A k \in 1 .. n : \E i \in P : Rank(P, i) = k
  <2> HIDE DEF P
  <2> QED
    BY <1>1, <1>2, RankIsOnto
<1>4. Kept(q, set) = [k \in 1 .. n |-> q[Nth(k)]]
  BY DEF Kept
<1>5. \A i \in P : i \in DOMAIN q /\ q[i] \in set
  OBVIOUS
<1>6. \A i \in DOMAIN q : q[i] \in set => i \in P
  OBVIOUS
<1> HIDE DEF P, n
<1>7. \A k \in 1 .. n : Nth(k) \in P /\ Rank(P, Nth(k)) = k
  BY <1>3
<1>8. \A i \in P : Nth(Rank(P, i)) = i
  BY <1>3, <1>7
<1> HIDE DEF Nth
<1>9. Kept(q, set) \in Seq(S)
  <2>1. \A k \in 1 .. n : q[Nth(k)] \in S
    BY <1>1, <1>2, <1>7
  <2>2. Kept(q, set) \in [1 .. n -> S]
    BY <1>4, <2>1
  <2> QED
    BY <1>3, <2>2
<1>10. DOMAIN Kept(q, set) = 1 .. n
  BY <1>4
<1>11. \A x \in Range(Kept(q, set)) : x \in Range(q) \cap set
  BY <1>4, <1>5, <1>7, <1>10 DEF Range
<1>12. ASSUME NEW x \in Range(q) \cap set PROVE x \in Range(Kept(q, set))
  <2>1. PICK i \in DOMAIN q : q[i] = x
    BY <1>12 DEF Range
  <2>2. i \in P /\ Rank(P, i) \in 1 .. n
    BY <1>3, <1>6, <2>1
  <2>3. Kept(q, set)[Rank(P, i)] = x
    BY <1>4, <1>8, <2>1, <2>2
  <2> QED
    BY <1>10, <2>2, <2>3 DEF Range
<1>13. ASSUME IsInjective(q) PROVE IsInjective(Kept(q, set))
  <2> SUFFICES ASSUME NEW a \in 1 .. n, NEW b \in 1 .. n,
                      Kept(q, set)[a] = Kept(q, set)[b]
               PROVE  a = b
    BY <1>10 DEF IsInjective
  <2>1. q[Nth(a)] = q[Nth(b)]
    BY <1>4
  <2>2. Nth(a) = Nth(b)
    BY <1>5, <1>7, <1>13, <2>1 DEF IsInjective
  <2> QED
    BY <1>7, <2>2
<1> QED
  BY <1>9, <1>11, <1>12, <1>13

LEMMA EmptyRange ==
  ASSUME NEW S, NEW q \in Seq(S)
  PROVE  q = <<>> <=> Range(q) = {}
<1>1. DOMAIN q = 1 .. Len(q) /\ Len(q) \in Nat /\ (q = <<>> <=> Len(q) = 0)
  OBVIOUS
<1>2. Len(q) # 0 => 1 \in DOMAIN q
  BY <1>1
<1>3. q = <<>> => Range(q) = {}
  BY <1>1 DEF Range
<1>4. q # <<>> => Range(q) # {}
  BY <1>1, <1>2 DEF Range
<1> QED
  BY <1>3, <1>4

\* A new first element.
LEMMA PrependNew ==
  ASSUME NEW S, NEW q \in Seq(S), NEW e \in S
  PROVE  /\ <<e>> \o q \in Seq(S) /\ Range(<<e>> \o q) = Range(q) \cup {e}
         /\ <<e>> \o q # <<>> /\ Head(<<e>> \o q) = e
         /\ IsInjective(q) /\ e \notin Range(q) => IsInjective(<<e>> \o q)
<1> DEFINE p == <<e>> \o q
<1>1. /\ p \in Seq(S) /\ Len(q) \in Nat /\ Len(p) = Len(q) + 1
      /\ DOMAIN q = 1 .. Len(q) /\ DOMAIN p = 1 .. Len(q) + 1
      /\ p[1] = e /\ \A i \in 1 .. Len(q) : p[i + 1] = q[i]
  OBVIOUS
<1> HIDE DEF p
<1>2. p # <<>> /\ Head(p) = e
  BY <1>1
<1>3. \A j \in 1 .. Len(q) + 1 :
        j = 1 \/ (j - 1 \in 1 .. Len(q) /\ p[j] = q[j - 1])
  <2> SUFFICES ASSUME NEW j \in 1 .. Len(q) + 1, j # 1
               PROVE  j - 1 \in 1 .. Len(q) /\ p[j] = q[j - 1]
    OBVIOUS
  <2>1. j - 1 \in 1 .. Len(q) /\ (j - 1) + 1 = j
    BY <1>1
  <2> QED
    BY <1>1, <2>1
<1>4. Range(p) = Range(q) \cup {e}
  <2>1. ASSUME NEW x \in Range(p) PROVE x \in Range(q) \cup {e}
    <3>1. PICK j \in 1 .. Len(q) + 1 : x = p[j]
      BY <1>1, <2>1 DEF Range
    <3> QED
      BY <1>1, <1>3, <3>1 DEF Range
  <2>2. e \in Range(p)
    BY <1>1 DEF Range
  <2>3. ASSUME NEW x \in Range(q) PROVE x \in Range(p)
    <3>1. PICK i \in 1 .. Len(q) : x = q[i]
      BY <1>1, <2>3 DEF Range
    <3>2. i + 1 \in 1 .. Len(q) + 1 /\ p[i + 1] = x
      BY <1>1, <3>1
    <3> QED
      BY <1>1, <3>2 DEF Range
  <2> QED
    BY <2>1, <2>2, <2>3
<1>5. ASSUME IsInjective(q), e \notin Range(q) PROVE IsInjective(p)
  <2> SUFFICES ASSUME NEW a \in 1 .. Len(q) + 1, NEW b \in 1 .. Len(q) + 1, p[a] = p[b]
               PROVE  a = b
    BY <1>1 DEF IsInjective
  <2>1. \A i \in 1 .. Len(q) : q[i] # e
    BY <1>1, <1>5 DEF Range
  <2>2. CASE a = 1 \/ b = 1
    BY <1>1, <1>3, <2>1, <2>2
  <2>3. CASE a # 1 /\ b # 1
    <3>1. a - 1 \in DOMAIN q /\ b - 1 \in DOMAIN q /\ q[a - 1] = q[b - 1]
      BY <1>1, <1>3, <2>3
    <3>2. a - 1 = b - 1
      BY <1>5, <3>1 DEF IsInjective
    <3> QED
      BY <3>2
  <2> QED
    BY <2>2, <2>3
<1> QED
  BY <1>1, <1>2, <1>4, <1>5 DEF p

LEMMA TailOfInjective ==
  ASSUME NEW S, NEW q \in Seq(S), q # <<>>, IsInjective(q)
  PROVE  /\ Head(q) \in S /\ Tail(q) \in Seq(S)
         /\ IsInjective(Tail(q)) /\ Head(q) \in Range(q)
         /\ Range(Tail(q)) = Range(q) \ {Head(q)}
<1>1. /\ Tail(q) \in Seq(S) /\ Head(q) = q[1] /\ Len(q) \in Nat \ {0}
      /\ DOMAIN q = 1 .. Len(q) /\ DOMAIN Tail(q) = 1 .. Len(q) - 1
      /\ \A i \in 1 .. Len(q) - 1 : Tail(q)[i] = q[i + 1]
  OBVIOUS
<1>2. Head(q) \in S /\ Head(q) \in Range(q)
  BY <1>1 DEF Range
<1>3. IsInjective(Tail(q))
  BY <1>1 DEF IsInjective
<1>4. Range(Tail(q)) \subseteq Range(q) \ {Head(q)}
  BY <1>1 DEF IsInjective, Range
<1>5. ASSUME NEW x \in Range(q) \ {Head(q)} PROVE x \in Range(Tail(q))
  <2>1. PICK i \in 1 .. Len(q) : q[i] = x
    BY <1>1, <1>5 DEF Range
  <2>2. i - 1 \in 1 .. Len(q) - 1 /\ Tail(q)[i - 1] = x
    BY <1>1, <1>5, <2>1
  <2> QED
    BY <1>1, <2>2 DEF Range
<1> QED
  BY <1>1, <1>2, <1>3, <1>4, <1>5

-----------------------------------------------------------------------------
(* The inductive invariant.                                                *)

\* A stream is on while its publisher is.
StatusOK == \A t \in Streams :
  /\ stream[t].pub = None => ~stream[t].active
  /\ stream[t].pub # None => ctx[stream[t].pub].active = stream[t].active

\* Stream t is the only one there will be.
OnlyStream(t) == \A n \in Names :
  table[n] = t \/ (table[n] = None /\ free # <<>> /\ Head(free) = t)

\* The HTTP players, those that were dropped from the list included.
HttpOK == \A s \in Http :
  /\ ~ctx[s].publishing
  /\ Joined(s) => /\ open[s]
                  /\ s \in Members(ctx[s].stream) \/ ~ctx[s].active
                  /\ OnlyStream(ctx[s].stream)

ReaderOK == reader # None => open[reader]

LiveInv ==
  /\ TypeOK /\ StreamsAccounted /\ MembersOpen /\ OrphansFinalized
  /\ IdleTimerSound /\ HttpFollows /\ StatusOK /\ HttpOK /\ ReaderOK

-----------------------------------------------------------------------------
(* What the operations on streams do to a record of the variables.         *)

Worlds == [ctx : [Sessions -> CtxType], publisher : [Http -> Sessions \cup {None}],
           timer : [Sessions -> BOOLEAN], table : [Names -> Streams \cup {None}],
           free : Seq(Streams), stream : [Streams -> StreamType]]

\* Status, list and publisher of the other streams, and the part of the other
\* contexts that says where they belong.
SameStreams(w, v, t) == \A u \in Streams \ {t} : v.stream[u] = w.stream[u]
SamePlaces(w, v) == \A x \in Sessions :
  v.ctx[x].stream = w.ctx[x].stream /\ v.ctx[x].publishing = w.ctx[x].publishing

LEMMA WorldType == TypeOK => World \in Worlds
BY DEF TypeOK, World, Worlds

LEMMA FlagType ==
  ASSUME NEW N, NEW L, NEW P, NEW a \in BOOLEAN,
         NEW z \in [name : N, list : L, active : BOOLEAN, pub : P]
  PROVE  [z EXCEPT !.active = a] \in [name : N, list : L, active : BOOLEAN, pub : P]
OBVIOUS

\* ngx_rtmp_live_set_status(s, a): it reaches the members of t and the flag of t.
StatusSet(w, v, s, a, t) ==
  /\ v \in Worlds /\ v.table = w.table /\ v.free = w.free
  /\ SamePlaces(w, v) /\ SameStreams(w, v, t)
  /\ \A x \in Sessions :
       v.ctx[x].active = IF x \in Players(w, s) \cup {s} THEN a ELSE w.ctx[x].active
  /\ \A x \in Sessions \ (Players(w, s) \cup {s}) : v.ctx[x] = w.ctx[x]
  /\ \A x \in Http :
       v.publisher[x] = IF x \in Players(w, s) THEN s ELSE w.publisher[x]
  /\ v.stream[t].name = w.stream[t].name /\ v.stream[t].list = w.stream[t].list
  /\ v.stream[t].pub = w.stream[t].pub
  /\ v.stream[t].active = IF w.ctx[s].publishing THEN a ELSE w.stream[t].active
  /\ v.timer = Timer(w, s, a)

LEMMA SetStatusFields ==
  ASSUME NEW w \in Worlds, NEW s \in Sessions, NEW a \in BOOLEAN, NEW t \in Streams, w.ctx[s].stream = t,
         NEW v, v = SetStatus(w, s, a),
         conf.drop \in BOOLEAN, w.ctx[s].active # a
  PROVE  StatusSet(w, v, s, a, t)
<1> DEFINE A == Players(w, s) \cup {s}
           C == [x \in Sessions |-> IF x \in A THEN [w.ctx[x] EXCEPT !.active = a]
                                              ELSE w.ctx[x]]
           St == IF w.ctx[s].publishing THEN [w.stream EXCEPT ![t].active = a]
                                        ELSE w.stream
<1>1. /\ v.ctx = C /\ v.publisher = Publisher(w, s) /\ v.stream = St
      /\ v.timer = Timer(w, s, a) /\ v.table = w.table /\ v.free = w.free
      /\ v = [ctx |-> C, publisher |-> Publisher(w, s), timer |-> Timer(w, s, a),
              table |-> w.table, free |-> w.free, stream |-> St]
  BY DEF SetStatus, Worlds
<1>2. /\ w.ctx \in [Sessions -> CtxType] /\ w.stream \in [Streams -> StreamType]
      /\ w.publisher \in [Http -> Sessions \cup {None}]
      /\ w.timer \in [Sessions -> BOOLEAN]
      /\ w.table \in [Names -> Streams \cup {None}] /\ w.free \in Seq(Streams)
  BY DEF Worlds
<1> HIDE DEF A
<1>3. C \in [Sessions -> CtxType]
  BY <1>2 DEF CtxType
<1>4. St \in [Streams -> StreamType]
  <2>1. [w.stream[t] EXCEPT !.active = a] \in StreamType
    <3>1. w.stream[t] \in StreamType
      BY <1>2
    <3> QED
      BY <3>1, FlagType, Zenon DEF StreamType
  <2>2. [w.stream EXCEPT ![t].active = a]
          = [w.stream EXCEPT ![t] = [w.stream[t] EXCEPT !.active = a]]
    BY <1>2
  <2> QED
    BY <1>2, <2>1, <2>2
<1>5. Timer(w, s, a) \in [Sessions -> BOOLEAN]
  BY <1>2 DEF Timer
<1>6. Publisher(w, s) \in [Http -> Sessions \cup {None}]
  BY <1>2 DEF Publisher
<1>7. v \in Worlds
  BY <1>1, <1>2, <1>3, <1>4, <1>5, <1>6 DEF Worlds
<1>8. SamePlaces(w, v)
  BY <1>1, <1>2 DEF SamePlaces, CtxType
<1>9. SameStreams(w, v, t)
  BY <1>1, <1>2 DEF SameStreams
<1>10. \A x \in Sessions :
         v.ctx[x].active = IF x \in Players(w, s) \cup {s} THEN a ELSE w.ctx[x].active
  <2>1. \A x \in Sessions : v.ctx[x].active = IF x \in A THEN a ELSE w.ctx[x].active
    BY <1>1, <1>2 DEF CtxType
  <2> QED
    BY <2>1 DEF A
<1>11. \A x \in Http : v.publisher[x] = IF x \in Players(w, s) THEN s ELSE w.publisher[x]
  BY <1>1 DEF Publisher
<1>12. /\ v.stream[t].name = w.stream[t].name /\ v.stream[t].list = w.stream[t].list
       /\ v.stream[t].pub = w.stream[t].pub
       /\ v.stream[t].active = IF w.ctx[s].publishing THEN a ELSE w.stream[t].active
  BY <1>1, <1>2 DEF StreamType
<1>13. \A x \in Sessions \ (Players(w, s) \cup {s}) : v.ctx[x] = w.ctx[x]
  BY <1>1 DEF A
<1> HIDE DEF C, St
<1> QED
  BY <1>1, <1>7, <1>8, <1>9, <1>10, <1>11, <1>12, <1>13 DEF StatusSet

LEMMA WithoutType ==
  ASSUME NEW q \in Seq(Sessions), NEW set
  PROVE  Kept(q, set) \in Seq(Sessions)
BY KeptProperties

\* Session s is out of the lists of t, and its context names no stream.
HasLeft(w, v, s, t) ==
  /\ v \in Worlds /\ v.table = w.table /\ v.free = w.free
  /\ v.ctx = w.ctx /\ v.publisher = w.publisher /\ v.timer = w.timer
  /\ SameStreams(w, v, t)
  /\ v.stream[t].name = w.stream[t].name
  /\ v.stream[t].active = w.stream[t].active
  /\ v.stream[t].list = Without(w.stream[t].list, s)
  /\ v.stream[t].pub = IF w.ctx[s].publishing THEN None ELSE w.stream[t].pub

LEMMA LeaveFields ==
  ASSUME NEW w \in Worlds, NEW s \in Sessions, NEW t \in Streams, w.ctx[s].stream = t,
         NEW v, v = Leave(w, s)
  PROVE  HasLeft(w, v, s, t)
<1> DEFINE list == Without(w.stream[t].list, s)
           pub == IF w.ctx[s].publishing THEN None ELSE w.stream[t].pub
<1>1. /\ w.stream \in [Streams -> StreamType] /\ w.stream[t] \in StreamType
      /\ w.stream[t].list \in Seq(Sessions)
  BY DEF Worlds, StreamType
<1>2. list \in Seq(Sessions)
  BY <1>1, WithoutType DEF Without
<1>3. pub \in Sessions \cup {None}
  BY <1>1 DEF StreamType
<1>4. v = [w EXCEPT !.stream[t].list = list, !.stream[t].pub = pub]
  BY <1>1 DEF Leave, Worlds, StreamType
<1> HIDE DEF list, pub
<1>5. /\ v.ctx = w.ctx /\ v.publisher = w.publisher /\ v.timer = w.timer
      /\ v.table = w.table /\ v.free = w.free
      /\ v.stream = [w.stream EXCEPT ![t].list = list, ![t].pub = pub]
      /\ v = [ctx |-> w.ctx, publisher |-> w.publisher, timer |-> w.timer,
              table |-> w.table, free |-> w.free, stream |-> v.stream]
  BY <1>4 DEF Worlds
<1>6. v.stream \in [Streams -> StreamType]
  <2>1. [w.stream[t] EXCEPT !.list = list, !.pub = pub] \in StreamType
    BY <1>1, <1>2, <1>3 DEF StreamType
  <2>2. v.stream = [w.stream EXCEPT ![t] = [w.stream[t] EXCEPT !.list = list, !.pub = pub]]
    BY <1>1, <1>5
  <2> QED
    BY <1>1, <2>1, <2>2
<1>7. v \in Worlds
  BY <1>5, <1>6 DEF Worlds
<1>8. SameStreams(w, v, t)
  BY <1>1, <1>5 DEF SameStreams
<1>9. /\ v.stream[t].name = w.stream[t].name /\ v.stream[t].active = w.stream[t].active
      /\ v.stream[t].list = list /\ v.stream[t].pub = pub
  BY <1>1, <1>5 DEF StreamType
<1> QED
  BY <1>5, <1>7, <1>8, <1>9 DEF list, pub, HasLeft

\* The HTTP players of t are dropped when s is its publisher.
HttpDropped(w, v, s, t) ==
  /\ v \in Worlds /\ v.table = w.table /\ v.free = w.free
  /\ v.publisher = w.publisher /\ v.timer = w.timer
  /\ SamePlaces(w, v) /\ SameStreams(w, v, t)
  /\ \A x \in Sessions :
       v.ctx[x].active = IF x \in Range(w.stream[t].list) \cap Http
                            /\ w.stream[t].active
                         THEN FALSE ELSE w.ctx[x].active
  /\ v.stream[t].name = w.stream[t].name
  /\ v.stream[t].active = w.stream[t].active
  /\ v.stream[t].pub = w.stream[t].pub
  /\ v.stream[t].list = Kept(w.stream[t].list, Rtmp)

LEMMA DropHttpFields ==
  ASSUME NEW w \in Worlds, NEW s \in Sessions, NEW t \in Streams, w.ctx[s].stream = t,
         NEW v, v = DropHttp(w, s)
  PROVE  HttpDropped(w, v, s, t)
<1> DEFINE list == Kept(w.stream[t].list, Rtmp)
           gone == Range(w.stream[t].list) \cap Http
           C == [x \in Sessions |-> IF x \in gone /\ w.stream[t].active
                  THEN [w.ctx[x] EXCEPT !.active = FALSE] ELSE w.ctx[x]]
<1>1. /\ w.stream \in [Streams -> StreamType] /\ w.stream[t] \in StreamType
      /\ w.stream[t].list \in Seq(Sessions) /\ w.ctx \in [Sessions -> CtxType]
  BY DEF Worlds, StreamType
<1>2. list \in Seq(Sessions)
  BY <1>1, WithoutType
<1>3. v = [w EXCEPT !.ctx = C, !.stream[t].list = list]
  BY <1>1 DEF DropHttp, Worlds, StreamType
<1> HIDE DEF list, gone
<1>4. C \in [Sessions -> CtxType]
  BY <1>1 DEF CtxType
<1>5. /\ v.ctx = C /\ v.publisher = w.publisher /\ v.timer = w.timer
      /\ v.table = w.table /\ v.free = w.free
      /\ v.stream = [w.stream EXCEPT ![t].list = list]
      /\ v = [ctx |-> C, publisher |-> w.publisher, timer |-> w.timer,
              table |-> w.table, free |-> w.free, stream |-> v.stream]
  BY <1>3 DEF Worlds
<1>6 v.stream \in [Streams -> StreamType]
  <2>1. [w.stream[t] EXCEPT !.list = list] \in StreamType
    BY <1>1, <1>2 DEF StreamType
  <2>2. v.stream = [w.stream EXCEPT ![t] = [w.stream[t] EXCEPT !.list = list]]
    BY <1>1, <1>5
  <2> QED
    BY <1>1, <2>1, <2>2
<1>7. v \in Worlds
  BY <1>4, <1>5, <1>6 DEF Worlds
<1>8. SamePlaces(w, v)
  BY <1>1, <1>5 DEF SamePlaces, CtxType
<1>9. SameStreams(w, v, t)
  BY <1>1, <1>5 DEF SameStreams
<1>10. /\ v.stream[t].name = w.stream[t].name /\ v.stream[t].active = w.stream[t].active
       /\ v.stream[t].list = list /\ v.stream[t].pub = w.stream[t].pub
  BY <1>1, <1>5 DEF StreamType
<1>11. \A x \in Sessions :
         v.ctx[x].active = IF x \in Range(w.stream[t].list) \cap Http /\ w.stream[t].active
                           THEN FALSE ELSE w.ctx[x].active
  <2>1. \A x \in Sessions :
          v.ctx[x].active = IF x \in gone /\ w.stream[t].active THEN FALSE
                                                                ELSE w.ctx[x].active
    BY <1>1, <1>5 DEF CtxType
  <2> QED
    BY <2>1 DEF gone
<1>12. v.stream[t].list = Kept(w.stream[t].list, Rtmp)
  BY <1>10 DEF list
<1> QED
  BY <1>5, <1>7, <1>8, <1>9, <1>10, <1>11, <1>12 DEF HttpDropped

\* HTTP player s is off the list of t; the flag of t decides what becomes of its own.
Unlinked(w, v, s, t) ==
  /\ v \in Worlds /\ v.table = w.table /\ v.free = w.free
  /\ v.publisher = w.publisher /\ v.timer = w.timer
  /\ v.ctx[s].stream = None
  /\ \A x \in Sessions \ {s} : v.ctx[x] = w.ctx[x]
  /\ SameStreams(w, v, t)
  /\ v.stream[t].name = w.stream[t].name
  /\ v.stream[t].active = w.stream[t].active
  /\ v.stream[t].pub = w.stream[t].pub
  /\ v.stream[t].list = Without(w.stream[t].list, s)

LEMMA UnlinkHttpFields ==
  ASSUME NEW w \in Worlds, NEW s \in Sessions, NEW t \in Streams, w.ctx[s].stream = t,
         NEW v, v = UnlinkHttp(w, s)
  PROVE  Unlinked(w, v, s, t)
<1> DEFINE list == Without(w.stream[t].list, s)
           a == IF w.stream[t].active THEN FALSE ELSE w.ctx[s].active
<1>1. /\ w.stream \in [Streams -> StreamType] /\ w.stream[t] \in StreamType
      /\ w.stream[t].list \in Seq(Sessions) /\ w.ctx \in [Sessions -> CtxType]
      /\ a \in BOOLEAN
  BY DEF Worlds, StreamType, CtxType
<1>2. list \in Seq(Sessions)
  BY <1>1, WithoutType DEF Without
<1>3. v = [w EXCEPT !.ctx[s].stream = None, !.ctx[s].active = a, !.stream[t].list = list]
  BY <1>1 DEF UnlinkHttp, Worlds, StreamType, CtxType
<1> HIDE DEF list, a
<1>4. /\ v.ctx = [w.ctx EXCEPT ![s].stream = None, ![s].active = a]
      /\ v.publisher = w.publisher /\ v.timer = w.timer
      /\ v.table = w.table /\ v.free = w.free
      /\ v.stream = [w.stream EXCEPT ![t].list = list]
      /\ v = [ctx |-> v.ctx, publisher |-> w.publisher, timer |-> w.timer,
              table |-> w.table, free |-> w.free, stream |-> v.stream]
  BY <1>3 DEF Worlds
<1>5 v.stream \in [Streams -> StreamType]
  <2>1. [w.stream[t] EXCEPT !.list = list] \in StreamType
    BY <1>1, <1>2 DEF StreamType
  <2>2. v.stream = [w.stream EXCEPT ![t] = [w.stream[t] EXCEPT !.list = list]]
    BY <1>1, <1>4
  <2> QED
    BY <1>1, <2>1, <2>2
<1>6. v.ctx \in [Sessions -> CtxType]
  BY <1>1, <1>4 DEF CtxType
<1>7. v \in Worlds
  BY <1>4, <1>5, <1>6 DEF Worlds
<1>8. v.ctx[s].stream = None /\ \A x \in Sessions \ {s} : v.ctx[x] = w.ctx[x]
  BY <1>1, <1>4 DEF CtxType
<1>9. SameStreams(w, v, t)
  BY <1>1, <1>4 DEF SameStreams
<1>10. /\ v.stream[t].name = w.stream[t].name /\ v.stream[t].active = w.stream[t].active
       /\ v.stream[t].list = list /\ v.stream[t].pub = w.stream[t].pub
  BY <1>1, <1>4 DEF StreamType
<1> QED
  BY <1>4, <1>7, <1>8, <1>9, <1>10 DEF list, Unlinked

\* A struct is freed only when it is empty.
Freed(w, v, s, t) ==
  /\ v \in Worlds /\ v.publisher = w.publisher /\ v.timer = w.timer
  /\ v.stream = w.stream
  /\ \A x \in Sessions \ {s} : v.ctx[x] = w.ctx[x]
  /\ v.ctx[s].stream = None \/ (~InUse(w, t) /\ w.table[w.stream[t].name] = None)
  /\ IF InUse(w, t) \/ w.table[w.stream[t].name] = None
     THEN v.table = w.table /\ v.free = w.free
     ELSE /\ v.table = [w.table EXCEPT ![w.stream[t].name] = None]
          /\ v.free = <<t>> \o w.free

LEMMA FreeFields ==
  ASSUME NEW w \in Worlds, NEW s \in Sessions, NEW t \in Streams, w.ctx[s].stream = t,
         NEW v, v = FreeIfEmpty(w, s)
  PROVE  Freed(w, v, s, t)
<1> DEFINE name == w.stream[t].name
           C == [w.ctx EXCEPT ![s].stream = None]
<1>1. /\ w.ctx \in [Sessions -> CtxType] /\ name \in Names /\ w.free \in Seq(Streams)
      /\ w.table \in [Names -> Streams \cup {None}]
  BY DEF Worlds, StreamType
<1>2. /\ C \in [Sessions -> CtxType] /\ C[s].stream = None
      /\ \A x \in Sessions \ {s} : C[x] = w.ctx[x]
  BY <1>1 DEF CtxType
<1> HIDE DEF C
<1>3. CASE InUse(w, t)
  <2>1. v = [w EXCEPT !.ctx[s].stream = None]
    BY <1>3 DEF FreeIfEmpty
  <2>2. /\ v.ctx = C /\ v.publisher = w.publisher /\ v.timer = w.timer
        /\ v.table = w.table /\ v.free = w.free /\ v.stream = w.stream
        /\ v \in Worlds
    BY <1>2, <2>1 DEF Worlds, C
  <2> QED
    BY <1>2, <1>3, <2>2 DEF Freed
<1>4. CASE ~InUse(w, t) /\ w.table[name] = None
  <2>1. v = w
    BY <1>4 DEF FreeIfEmpty
  <2> QED
    BY <1>4, <2>1 DEF Freed
<1>5. CASE ~InUse(w, t) /\ w.table[name] # None
  <2>1. v = [w EXCEPT !.ctx[s].stream = None, !.table[name] = None, !.free = <<t>> \o @]
    BY <1>5 DEF FreeIfEmpty
  <2>2. /\ v.ctx = C /\ v.publisher = w.publisher /\ v.timer = w.timer
        /\ v.table = [w.table EXCEPT ![name] = None] /\ v.free = <<t>> \o w.free
        /\ v.stream = w.stream
        /\ v = [ctx |-> v.ctx, publisher |-> w.publisher, timer |-> w.timer,
                table |-> v.table, free |-> v.free, stream |-> w.stream]
    BY <2>1 DEF Worlds, C
  <2>3. v \in Worlds
    <3>1. <<t>> \o w.free \in Seq(Streams)
      BY <1>1, PrependNew
    <3>2. [w.table EXCEPT ![name] = None] \in [Names -> Streams \cup {None}]
      BY <1>1
    <3>3. w.publisher \in [Http -> Sessions \cup {None}] /\ w.timer \in [Sessions -> BOOLEAN]
          /\ w.stream \in [Streams -> StreamType]
      BY DEF Worlds
    <3> HIDE DEF name
    <3> QED
      BY <1>2, <2>2, <3>1, <3>2, <3>3 DEF Worlds
  <2> QED
    BY <1>2, <1>5, <2>2, <2>3 DEF Freed
<1> QED
  BY <1>3, <1>4, <1>5

-----------------------------------------------------------------------------
(* Closing the stream of a session.                                        *)

\* A stream that has an RTMP member, or that the only name may find, is the one
\* in the table under its name.
LEMMA MemberInTable ==
  ASSUME LiveInv, NEW s \in Sessions, Joined(s)
  PROVE  LET t == ctx[s].stream IN
         /\ t \in Streams
         /\ s \in Members(t) => table[stream[t].name] = t
         /\ table[stream[t].name] = None \/ table[stream[t].name] = t
<1> USE DEF LiveInv
<1> DEFINE t == ctx[s].stream
<1>1. t \in Streams
  BY DEF TypeOK, CtxType, Joined
<1>2. s \in Members(t) => table[stream[t].name] = t
  <2> SUFFICES ASSUME s \in Members(t) PROVE table[stream[t].name] = t
    OBVIOUS
  <2>1. stream[t].list # <<>>
    BY <1>1, EmptyRange DEF TypeOK, StreamType, Members
  <2>2. PICK n \in Names : table[n] = t
    BY <1>1, <2>1 DEF StreamsAccounted
  <2> QED
    BY <1>1, <2>2, ConstantsAssumption DEF StreamsAccounted
<1>3. table[stream[t].name] = None \/ table[stream[t].name] = t
  <2>1. CASE s \in Rtmp
    BY <1>1, <1>2, <2>1 DEF MembersOpen
  <2>2. CASE s \in Http
    <3>1. stream[t].name \in Names /\ OnlyStream(t)
      BY <1>1, <2>2 DEF TypeOK, StreamType, HttpOK
    <3> QED
      BY <3>1 DEF OnlyStream
  <2> QED
    BY <2>1, <2>2 DEF Sessions
<1> QED
  BY <1>1, <1>2, <1>3

\* What CloseStream(World, s) leaves behind, for a session that has joined t:
\* its publisher takes the HTTP players off the list; the struct is freed only
\* when it is empty.
Closed(v, s) ==
  LET t == ctx[s].stream
      P == ctx[s].publishing
      name == stream[t].name
  IN /\ v \in Worlds /\ v.publisher = publisher
     /\ \A x \in Sessions \ {s} :
          /\ v.ctx[x].stream = ctx[x].stream /\ v.ctx[x].publishing = ctx[x].publishing
          /\ ~(P /\ x \in Members(t)) => v.ctx[x].active = ctx[x].active
          /\ P /\ x \in Members(t) /\ x \in Http => ~v.ctx[x].active
     /\ v.timer = IF P THEN [timer EXCEPT ![s] = FALSE] ELSE timer
     /\ \A u \in Streams \ {t} : v.stream[u] = stream[u]
     /\ v.stream[t].name = name
     /\ v.stream[t].pub = IF P THEN None ELSE stream[t].pub
     /\ v.stream[t].active = IF P THEN FALSE ELSE stream[t].active
     /\ IsInjective(v.stream[t].list)
     /\ Range(v.stream[t].list) = {x \in Members(t) : x # s /\ (P => x \in Rtmp)}
     /\ s \in Rtmp => v.ctx[s].stream = None
     /\ \/ v.table = table /\ v.free = free
        \/ /\ v.stream[t].list = <<>> /\ v.stream[t].pub = None /\ table[name] = t
           /\ v.table = [table EXCEPT ![name] = None] /\ v.free = <<t>> \o free

\* FreeIfEmpty applied to what Leave and SetStatus have made of the world.
Ready(u, s) ==
  LET t == ctx[s].stream
      P == ctx[s].publishing
  IN /\ u \in Worlds /\ u.publisher = publisher
     /\ u.table = table /\ u.free = free /\ u.ctx[s].stream = t
     /\ \A x \in Sessions \ {s} :
          /\ u.ctx[x].stream = ctx[x].stream /\ u.ctx[x].publishing = ctx[x].publishing
          /\ ~(P /\ x \in Members(t)) => u.ctx[x].active = ctx[x].active
          /\ P /\ x \in Members(t) /\ x \in Http => ~u.ctx[x].active
     /\ u.timer = IF P THEN [timer EXCEPT ![s] = FALSE] ELSE timer
     /\ \A y \in Streams \ {t} : u.stream[y] = stream[y]
     /\ u.stream[t].name = stream[t].name
     /\ u.stream[t].pub = IF P THEN None ELSE stream[t].pub
     /\ u.stream[t].active = IF P THEN FALSE ELSE stream[t].active
     /\ IsInjective(u.stream[t].list)
     /\ Range(u.stream[t].list) = {x \in Members(t) : x # s /\ (P => x \in Rtmp)}

LEMMA ReadyClosed ==
  ASSUME LiveInv, NEW s \in Sessions, Joined(s), NEW u, Ready(u, s)
  PROVE  Closed(FreeIfEmpty(u, s), s)
<1> DEFINE t == ctx[s].stream
           name == stream[t].name
           v == FreeIfEmpty(u, s)
<1>1. /\ t \in Streams /\ (s \in Members(t) => table[name] = t)
      /\ table[name] = None \/ table[name] = t
  BY MemberInTable
<1>2. u \in Worlds /\ u.ctx[s].stream = t /\ u.table = table /\ u.free = free
      /\ u.stream[t].name = name
  BY DEF Ready
<1>3. /\ v \in Worlds /\ v.publisher = u.publisher /\ v.timer = u.timer
      /\ v.stream = u.stream
      /\ \A x \in Sessions \ {s} : v.ctx[x] = u.ctx[x]
      /\ v.ctx[s].stream = None \/ (~InUse(u, t) /\ table[name] = None)
      /\ IF InUse(u, t) \/ table[name] = None
         THEN v.table = table /\ v.free = free
         ELSE /\ v.table = [table EXCEPT ![name] = None]
              /\ v.free = <<t>> \o free
  <2>1. t \in Streams /\ u \in Worlds /\ u.ctx[s].stream = t
    BY <1>1, <1>2
  <2>2. v = FreeIfEmpty(u, s)
    OBVIOUS
  <2> HIDE DEF v, t
  <2>4. Freed(u, v, s, t)
    BY <1>1, <2>1, <2>2, FreeFields
  <2>3. /\ v \in Worlds /\ v.publisher = u.publisher /\ v.timer = u.timer
        /\ v.stream = u.stream
        /\ \A x \in Sessions \ {s} : v.ctx[x] = u.ctx[x]
        /\ v.ctx[s].stream = None \/ (~InUse(u, t) /\ u.table[u.stream[t].name] = None)
        /\ IF InUse(u, t) \/ u.table[u.stream[t].name] = None
           THEN v.table = u.table /\ v.free = u.free
           ELSE /\ v.table = [u.table EXCEPT ![u.stream[t].name] = None]
                /\ v.free = <<t>> \o u.free
    BY <2>4 DEF Freed
  <2> QED
    BY <1>2, <2>3
<1>4. s \in Rtmp => v.ctx[s].stream = None
  <2> SUFFICES ASSUME s \in Rtmp PROVE v.ctx[s].stream = None
    OBVIOUS
  <2>1. s \in Members(t)
    BY <1>1 DEF LiveInv, MembersOpen
  <2> QED
    BY <1>1, <1>3, <2>1, ConstantsAssumption
<1>5. \/ v.table = table /\ v.free = free
      \/ /\ v.stream[t].list = <<>> /\ v.stream[t].pub = None /\ table[name] = t
         /\ v.table = [table EXCEPT ![name] = None] /\ v.free = <<t>> \o free
  BY <1>1, <1>3 DEF InUse
<1> HIDE DEF v
<1> QED
  BY <1>3, <1>4, <1>5 DEF Closed, Ready, v

\* The parts of the current world.
LEMMA WorldFields ==
  /\ World.ctx = ctx /\ World.publisher = publisher /\ World.timer = timer
  /\ World.table = table /\ World.free = free /\ World.stream = stream
BY DEF World

LEMMA PublisherClosed ==
  ASSUME LiveInv, NEW s \in Sessions, Joined(s), ctx[s].publishing
  PROVE  Closed(CloseStream(World, s), s)
<1> USE DEF LiveInv
<1> DEFINE t == ctx[s].stream
           d == DropHttp(World, s)
           l == Leave(d, s)
           u == SetStatus(l, s, FALSE)
           rest == {x \in Members(t) : x # s /\ x \in Rtmp}
<1>1. /\ s \in Rtmp /\ s \notin Http /\ t \in Streams /\ t # None
      /\ s \in Members(t) /\ stream[t].pub = s
  <2>1. s \in Rtmp /\ s \notin Http
    BY ConstantsAssumption DEF HttpOK, Sessions
  <2>2. t \in Streams /\ t # None
    BY MemberInTable, ConstantsAssumption
  <2> QED
    BY <2>1, <2>2 DEF MembersOpen
<1>2. ctx[s].active = stream[t].active
  BY <1>1, ConstantsAssumption DEF StatusOK
<1>3. World \in Worlds /\ conf.drop \in BOOLEAN
  BY WorldType, ConstantsAssumption DEF TypeOK, Configurations
<1>d. d = DropHttp(World, s)
  OBVIOUS
<1>l. l = Leave(d, s)
  OBVIOUS
<1>u. u = SetStatus(l, s, FALSE)
  OBVIOUS
<1>t. World.ctx[s].stream = t /\ ctx[s].stream = t
  BY WorldFields
<1>m. Members(t) = Range(stream[t].list)
  BY DEF Members
<1> HIDE DEF t, d, l, u
<1>4. /\ d \in Worlds /\ d.table = table /\ d.free = free
      /\ d.publisher = publisher /\ d.timer = timer
      /\ SamePlaces(World, d) /\ SameStreams(World, d, t)
      /\ \A x \in Sessions :
           d.ctx[x].active = IF x \in Members(t) \cap Http /\ stream[t].active
                             THEN FALSE ELSE ctx[x].active
      /\ d.stream[t].name = stream[t].name /\ d.stream[t].active = stream[t].active
      /\ d.stream[t].pub = stream[t].pub
      /\ d.stream[t].list = Kept(stream[t].list, Rtmp)
  <2>2. HttpDropped(World, d, s, t)
    BY <1>1, <1>3, <1>d, <1>t, DropHttpFields
  <2>1. /\ d \in Worlds /\ d.table = World.table /\ d.free = World.free
        /\ d.publisher = World.publisher /\ d.timer = World.timer
        /\ SamePlaces(World, d) /\ SameStreams(World, d, t)
        /\ \A x \in Sessions :
             d.ctx[x].active = IF x \in Range(World.stream[t].list) \cap Http
                                  /\ World.stream[t].active
                               THEN FALSE ELSE World.ctx[x].active
        /\ d.stream[t].name = World.stream[t].name
        /\ d.stream[t].active = World.stream[t].active
        /\ d.stream[t].pub = World.stream[t].pub
        /\ d.stream[t].list = Kept(World.stream[t].list, Rtmp)
    BY <2>2 DEF HttpDropped
  <2> QED
    BY <2>1, <1>m, WorldFields
<1>6. /\ \A x \in Sessions : /\ d.ctx[x].stream = ctx[x].stream
                             /\ d.ctx[x].publishing = ctx[x].publishing
      /\ \A y \in Streams \ {t} : d.stream[y] = stream[y]
      /\ d.ctx[s].stream = t /\ d.ctx[s].publishing
  BY <1>4, <1>t, WorldFields DEF SamePlaces, SameStreams
<1>5. CloseStream(World, s) = FreeIfEmpty(u, s)
  <2>1. FlvClose(World, s) = d
    BY <1>1, <1>d, WorldFields DEF FlvClose
  <2>2. LiveClose(d, s) = FreeIfEmpty(u, s)
    BY <1>1, <1>6, <1>l, <1>u DEF LiveClose
  <2> QED
    BY <1>1, <1>t, <2>1, <2>2 DEF CloseStream
<1>7. /\ l \in Worlds /\ l.table = table /\ l.free = free
      /\ l.ctx = d.ctx /\ l.publisher = publisher /\ l.timer = timer
      /\ \A y \in Streams \ {t} : l.stream[y] = stream[y]
      /\ l.stream[t].name = stream[t].name /\ l.stream[t].active = stream[t].active
      /\ l.stream[t].list = Without(d.stream[t].list, s)
      /\ l.stream[t].pub = None
  <2>2. HasLeft(d, l, s, t)
    BY <1>1, <1>4, <1>6, <1>l, LeaveFields
  <2>1. /\ l \in Worlds /\ l.table = d.table /\ l.free = d.free
        /\ l.ctx = d.ctx /\ l.publisher = d.publisher /\ l.timer = d.timer
        /\ SameStreams(d, l, t)
        /\ l.stream[t].name = d.stream[t].name
        /\ l.stream[t].active = d.stream[t].active
        /\ l.stream[t].list = Without(d.stream[t].list, s)
        /\ l.stream[t].pub = IF d.ctx[s].publishing THEN None ELSE d.stream[t].pub
    BY <2>2 DEF HasLeft
  <2> QED
    BY <1>4, <1>6, <2>1 DEF SameStreams
<1>8. IsInjective(l.stream[t].list) /\ Range(l.stream[t].list) = rest
  <2>1. stream[t].list \in Seq(Sessions) /\ IsInjective(stream[t].list)
    BY <1>1 DEF TypeOK, StreamType, MembersOpen
  <2>2. /\ d.stream[t].list \in Seq(Sessions) /\ IsInjective(d.stream[t].list)
        /\ Range(d.stream[t].list) = Members(t) \cap Rtmp
    BY <1>4, <1>m, <2>1, KeptProperties
  <2>3. /\ IsInjective(l.stream[t].list)
        /\ Range(l.stream[t].list) = Range(d.stream[t].list) \cap (Sessions \ {s})
    BY <1>7, <2>2, KeptProperties DEF Without
  <2> QED
    BY <2>2, <2>3 DEF Sessions
<1>9. \A x \in Members(t) \cap Http : d.ctx[x].active = FALSE /\ x \in Sessions
  <2> SUFFICES ASSUME NEW x \in Members(t) \cap Http
               PROVE  d.ctx[x].active = FALSE /\ x \in Sessions
    OBVIOUS
  <2>1. x \in Sessions /\ ctx[x].active = stream[t].active
    BY <1>1 DEF HttpFollows, Sessions
  <2>2. stream[t].active \in BOOLEAN
    BY <1>1 DEF TypeOK, StreamType
  <2> QED
    BY <1>4, <2>1, <2>2
<1>10. \A x \in Sessions : x \notin Members(t) => d.ctx[x].active = ctx[x].active
  BY <1>4
<1>11. Ready(u, s)
  <2>1. CASE l.ctx[s].active = FALSE
    <3>1. u = l
      BY <1>u, <2>1 DEF SetStatus
    <3>2. ctx[s].active = FALSE /\ stream[t].active = FALSE
      BY <1>1, <1>2, <1>4, <1>7, <2>1
    <3>3. timer = [timer EXCEPT ![s] = FALSE]
      <4>1. timer \in [Sessions -> BOOLEAN] /\ timer[s] = FALSE
        BY <1>1, <3>2 DEF TypeOK, IdleTimerSound
      <4> QED
        BY <4>1
    <3>4. \A x \in Sessions \ {s} :
            /\ l.ctx[x].stream = ctx[x].stream /\ l.ctx[x].publishing = ctx[x].publishing
            /\ x \notin Members(t) => l.ctx[x].active = ctx[x].active
            /\ x \in Members(t) /\ x \in Http => ~l.ctx[x].active
      BY <1>6, <1>7, <1>9, <1>10
    <3>5. l.ctx[s].stream = t
      BY <1>6, <1>7
    <3> QED
      BY <1>7, <1>8, <1>t, <3>1, <3>2, <3>3, <3>4, <3>5 DEF Ready
  <2>2. CASE l.ctx[s].active # FALSE
    <3>1. l.ctx[s].stream = t /\ l.ctx[s].publishing /\ FALSE \in BOOLEAN
      BY <1>6, <1>7
    <3>8. StatusSet(l, u, s, FALSE, t)
      BY <1>1, <1>3, <1>7, <1>u, <2>2, <3>1, SetStatusFields
    <3>2. /\ u \in Worlds /\ u.table = l.table /\ u.free = l.free
          /\ SamePlaces(l, u) /\ SameStreams(l, u, t)
          /\ \A x \in Sessions :
               u.ctx[x].active = IF x \in Players(l, s) \cup {s} THEN FALSE
                                                                ELSE l.ctx[x].active
          /\ \A x \in Http :
               u.publisher[x] = IF x \in Players(l, s) THEN s ELSE l.publisher[x]
          /\ u.stream[t].name = l.stream[t].name /\ u.stream[t].list = l.stream[t].list
          /\ u.stream[t].pub = l.stream[t].pub
          /\ u.stream[t].active = IF l.ctx[s].publishing THEN FALSE ELSE l.stream[t].active
          /\ u.timer = Timer(l, s, FALSE)
      BY <3>8 DEF StatusSet
    <3>3. \A x \in Players(l, s) : x \in rest
      BY <1>8, <3>1 DEF Players
    <3>4. u.publisher = publisher
      <4>1. \A x \in Http : u.publisher[x] = publisher[x]
        BY <1>7, <3>2, <3>3, ConstantsAssumption
      <4>2. u.publisher \in [Http -> Sessions \cup {None}]
            /\ publisher \in [Http -> Sessions \cup {None}]
        BY <3>2 DEF Worlds, TypeOK
      <4> QED
        BY <4>1, <4>2
    <3>5. u.timer = [timer EXCEPT ![s] = FALSE]
      BY <1>7, <3>1, <3>2 DEF Timer
    <3>6. ASSUME NEW x \in Sessions \ {s}
          PROVE  /\ u.ctx[x].stream = ctx[x].stream
                 /\ u.ctx[x].publishing = ctx[x].publishing
                 /\ x \notin Members(t) => u.ctx[x].active = ctx[x].active
                 /\ x \in Members(t) /\ x \in Http => ~u.ctx[x].active
      <4>1. u.ctx[x].stream = ctx[x].stream /\ u.ctx[x].publishing = ctx[x].publishing
        BY <1>6, <1>7, <3>2 DEF SamePlaces
      <4>2. ASSUME x \notin Members(t) PROVE u.ctx[x].active = ctx[x].active
        <5>1. x \notin Players(l, s) \cup {s}
          BY <3>3, <4>2
        <5>2. u.ctx[x].active = l.ctx[x].active
          BY <3>2, <5>1
        <5>3. l.ctx[x].active = d.ctx[x].active /\ d.ctx[x].active = ctx[x].active
          BY <1>7, <1>10, <4>2
        <5> QED
          BY <5>2, <5>3
      <4>3. ASSUME x \in Members(t), x \in Http PROVE ~u.ctx[x].active
        BY <1>7, <1>9, <3>2, <4>3
      <4> QED
        BY <4>1, <4>2, <4>3
    <3>7. /\ u.ctx[s].stream = t
          /\ \A y \in Streams \ {t} : u.stream[y] = stream[y]
      BY <1>7, <3>1, <3>2 DEF SamePlaces, SameStreams
    <3>9. /\ u.table = table /\ u.free = free /\ u.stream[t].name = stream[t].name
          /\ u.stream[t].pub = None /\ u.stream[t].active = FALSE
          /\ IsInjective(u.stream[t].list) /\ Range(u.stream[t].list) = rest
      BY <1>7, <1>8, <3>1, <3>2
    <3>10. u \in Worlds
      BY <3>2
    <3> QED
      BY <1>t, <3>4, <3>5, <3>6, <3>7, <3>9, <3>10 DEF Ready
  <2> QED
    BY <2>1, <2>2
<1> QED
  BY <1>5, <1>11, ReadyClosed

\* A player that FlvClose does not concern: an RTMP player, or an HTTP player
\* that its publisher has dropped.
LEMMA PlayerClosed ==
  ASSUME LiveInv, NEW s \in Sessions, Joined(s), ~ctx[s].publishing,
         FlvClose(World, s) = World
  PROVE  Closed(CloseStream(World, s), s)
<1> USE DEF LiveInv
<1> DEFINE t == ctx[s].stream
           l == Leave(World, s)
           u == IF stream[t].active THEN SetStatus(l, s, FALSE) ELSE l
           rest == {x \in Members(t) : x # s}
<1>1. t \in Streams /\ t # None
  BY MemberInTable, ConstantsAssumption
<1>2. World \in Worlds /\ conf.drop \in BOOLEAN
  BY WorldType, ConstantsAssumption DEF TypeOK, Configurations
<1>l. l = Leave(World, s)
  OBVIOUS
<1>u. u = IF stream[t].active THEN SetStatus(l, s, FALSE) ELSE l
  OBVIOUS
<1>t. World.ctx[s].stream = t /\ ctx[s].stream = t
  BY WorldFields
<1>m. Members(t) = Range(stream[t].list)
  BY DEF Members
<1> HIDE DEF t, l, u
<1>3. CloseStream(World, s) = FreeIfEmpty(u, s)
  BY <1>1, <1>t, <1>l, <1>u, WorldFields DEF CloseStream, LiveClose
<1>4. /\ l \in Worlds /\ l.table = table /\ l.free = free
      /\ l.ctx = ctx /\ l.publisher = publisher /\ l.timer = timer
      /\ \A y \in Streams \ {t} : l.stream[y] = stream[y]
      /\ l.stream[t].name = stream[t].name /\ l.stream[t].active = stream[t].active
      /\ l.stream[t].list = Without(stream[t].list, s)
      /\ l.stream[t].pub = stream[t].pub
  <2>1. HasLeft(World, l, s, t)
    BY <1>1, <1>2, <1>l, <1>t, LeaveFields
  <2> QED
    BY <2>1, WorldFields DEF HasLeft, SameStreams
<1>5. IsInjective(l.stream[t].list) /\ Range(l.stream[t].list) = rest
  <2>1. stream[t].list \in Seq(Sessions) /\ IsInjective(stream[t].list)
    BY <1>1 DEF TypeOK, StreamType, MembersOpen
  <2>2. /\ IsInjective(l.stream[t].list)
        /\ Range(l.stream[t].list) = Members(t) \cap (Sessions \ {s})
    BY <1>4, <1>m, <2>1, KeptProperties DEF Without
  <2>3. Members(t) \subseteq Sessions
    BY <1>1 DEF MembersOpen, TypeOK, StreamType, Members, Range
  <2> QED
    BY <2>2, <2>3
<1>6. Ready(l, s)
  BY <1>4, <1>5, <1>t DEF Ready
<1>7. Ready(u, s)
  <2>1. CASE ~stream[t].active \/ l.ctx[s].active = FALSE
    <3>1. u = l
      BY <1>u, <2>1 DEF SetStatus
    <3> QED
      BY <1>6, <3>1
  <2>2. CASE stream[t].active /\ l.ctx[s].active # FALSE
    <3>1. StatusSet(l, u, s, FALSE, t)
      BY <1>1, <1>2, <1>4, <1>t, <1>u, <2>2, SetStatusFields
    <3>2. Players(l, s) = {} /\ l.ctx[s].publishing = ctx[s].publishing
      BY <1>4 DEF Players
    <3>3. /\ u \in Worlds /\ u.table = table /\ u.free = free
          /\ u.timer = timer
          /\ u.stream[t].name = stream[t].name /\ u.stream[t].list = l.stream[t].list
          /\ u.stream[t].pub = stream[t].pub /\ u.stream[t].active = stream[t].active
          /\ \A y \in Streams \ {t} : u.stream[y] = stream[y]
      BY <1>4, <3>1, <3>2 DEF StatusSet, SameStreams, Timer
    <3>4. u.publisher = publisher
      <4>1. \A x \in Http : u.publisher[x] = publisher[x]
        BY <1>4, <3>1, <3>2 DEF StatusSet
      <4>2. u.publisher \in [Http -> Sessions \cup {None}]
            /\ publisher \in [Http -> Sessions \cup {None}]
        BY <3>3 DEF Worlds, TypeOK
      <4> QED
        BY <4>1, <4>2
    <3>5. \A x \in Sessions : /\ u.ctx[x].stream = ctx[x].stream
                              /\ u.ctx[x].publishing = ctx[x].publishing
                              /\ x # s => u.ctx[x].active = ctx[x].active
      BY <1>4, <3>1, <3>2 DEF StatusSet, SamePlaces
    <3> QED
      BY <1>5, <1>t, <3>3, <3>4, <3>5 DEF Ready
  <2> QED
    BY <2>1, <2>2
<1> QED
  BY <1>3, <1>7, ReadyClosed

LEMMA HttpPlayerClosed ==
  ASSUME LiveInv, NEW s \in Http, Joined(s), s \in Members(ctx[s].stream)
  PROVE  Closed(CloseStream(World, s), s)
<1> USE DEF LiveInv
<1> DEFINE t == ctx[s].stream
           d == UnlinkHttp(World, s)
<1>1. /\ s \in Sessions /\ s \notin Rtmp /\ ~ctx[s].publishing
      /\ t \in Streams /\ t # None
  <2>1. s \in Sessions /\ s \notin Rtmp /\ ~ctx[s].publishing
    BY ConstantsAssumption DEF HttpOK, Sessions
  <2> QED
    BY <2>1, MemberInTable, ConstantsAssumption
<1>2. World \in Worlds
  BY WorldType
<1>d. d = UnlinkHttp(World, s)
  OBVIOUS
<1>t. World.ctx[s].stream = t /\ ctx[s].stream = t
  BY WorldFields
<1>m. Members(t) = Range(stream[t].list)
  BY DEF Members
<1> HIDE DEF t, d
<1>3. Unlinked(World, d, s, t)
  BY <1>1, <1>2, <1>d, <1>t, UnlinkHttpFields
<1>4. CloseStream(World, s) = d
  <2>1. FlvClose(World, s) = d
    BY <1>1, <1>d, <1>m, <1>t, WorldFields DEF FlvClose
  <2>2. d.ctx[s].stream = None
    BY <1>3 DEF Unlinked
  <2> QED
    BY <1>1, <1>t, <2>1, <2>2 DEF CloseStream, LiveClose
<1>5. /\ d \in Worlds /\ d.table = table /\ d.free = free
      /\ d.publisher = publisher /\ d.timer = timer
      /\ \A x \in Sessions \ {s} : d.ctx[x] = ctx[x]
      /\ \A y \in Streams \ {t} : d.stream[y] = stream[y]
      /\ d.stream[t].name = stream[t].name /\ d.stream[t].active = stream[t].active
      /\ d.stream[t].pub = stream[t].pub
      /\ d.stream[t].list = Without(stream[t].list, s)
  BY <1>3, WorldFields DEF Unlinked, SameStreams
<1>6. /\ IsInjective(d.stream[t].list)
      /\ Range(d.stream[t].list) = {x \in Members(t) : x # s}
  <2>1. stream[t].list \in Seq(Sessions) /\ IsInjective(stream[t].list)
    BY <1>1 DEF TypeOK, StreamType, MembersOpen
  <2>2. /\ IsInjective(d.stream[t].list)
        /\ Range(d.stream[t].list) = Members(t) \cap (Sessions \ {s})
    BY <1>5, <1>m, <2>1, KeptProperties DEF Without
  <2>3. Members(t) \subseteq Sessions
    BY <1>1 DEF MembersOpen, TypeOK, StreamType, Members, Range
  <2> QED
    BY <2>2, <2>3
<1>7. Closed(d, s)
  BY <1>1, <1>5, <1>6, <1>t DEF Closed
<1> QED
  BY <1>4, <1>7

LEMMA StreamClosed ==
  ASSUME LiveInv, NEW s \in Sessions, Joined(s)
  PROVE  Closed(CloseStream(World, s), s)
<1> USE DEF LiveInv
<1>1. CASE ctx[s].publishing
  BY <1>1, PublisherClosed
<1>2. CASE ~ctx[s].publishing /\ s \in Http /\ s \in Members(ctx[s].stream)
  BY <1>2, HttpPlayerClosed
<1>3. CASE ~ctx[s].publishing /\ ~(s \in Http /\ s \in Members(ctx[s].stream))
  <2>1. FlvClose(World, s) = World
    BY <1>3, WorldFields DEF FlvClose, Members
  <2> QED
    BY <1>3, <2>1, PlayerClosed
<1> QED
  BY <1>1, <1>2, <1>3

-----------------------------------------------------------------------------
(* Steps that leave the streams as they are.                               *)

\* The types of the variables that are not in a world.
LifeTyped ==
  /\ conf' = conf
  /\ open' \in [Sessions -> BOOLEAN] /\ destroyed' \in [Sessions -> BOOLEAN]
  /\ posted' \in Seq(Sessions) /\ reader' \in Rtmp \cup {None}
  /\ reader' # None => open'[reader']

\* Sessions that are in a stream stay there as they are; the others may come
\* and go.
Quiet ==
  /\ LifeTyped /\ UNCHANGED <<table, free, stream>>
  /\ ctx' \in [Sessions -> CtxType] /\ publisher' \in [Http -> Sessions \cup {None}]
  /\ timer' \in [Sessions -> BOOLEAN]
  /\ \A x \in Sessions :
       /\ ctx'[x].stream = ctx[x].stream
       /\ ctx'[x].publishing => ctx[x].publishing
       /\ timer'[x] => timer[x]
       /\ timer[x] => timer'[x] \/ destroyed'[x]
       /\ Joined(x) => /\ ctx'[x].publishing = ctx[x].publishing
                       /\ ctx'[x].active = ctx[x].active
                       /\ open[x] => open'[x]
                       /\ destroyed[x] => destroyed'[x]
  /\ \A x \in Http : Joined(x) => publisher'[x] = publisher[x]

LEMMA MemberJoined ==
  ASSUME LiveInv, NEW t \in Streams, NEW x \in Members(t)
  PROVE  x \in Sessions /\ ctx[x].stream = t /\ Joined(x) /\ open[x]
<1>1. x \in Sessions
  BY DEF LiveInv, TypeOK, StreamType, Members, Range
<1> QED
  BY <1>1, ConstantsAssumption DEF LiveInv, MembersOpen, Joined

LEMMA QuietStep == LiveInv /\ Quiet => LiveInv'
<1> SUFFICES ASSUME LiveInv, Quiet PROVE LiveInv'
  OBVIOUS
<1>1. \A t \in Streams : Members(t)' = Members(t)
  BY DEF Members, Quiet
<1>2. \A t \in Streams : \A x \in Members(t) :
        x \in Sessions /\ ctx[x].stream = t /\ Joined(x) /\ open[x]
  BY MemberJoined
<1>3. \A x \in Sessions : Joined(x)' <=> Joined(x)
  BY DEF Joined, Quiet
<1>4. Rtmp \subseteq Sessions /\ Http \subseteq Sessions
  BY DEF Sessions
<1>5. TypeOK'
  BY DEF LiveInv, Quiet, LifeTyped, TypeOK
<1>6. StreamsAccounted'
  BY DEF LiveInv, Quiet, StreamsAccounted
<1>7. MembersOpen'
  <2> SUFFICES ASSUME NEW t \in Streams
               PROVE  /\ IsInjective(stream'[t].list)
                      /\ \A s \in Rtmp : ctx'[s].stream = t <=> s \in Members(t)'
                      /\ \A s \in Members(t)' :
                           /\ open'[s] /\ ctx'[s].stream = t
                           /\ ctx'[s].publishing <=> stream'[t].pub = s
                      /\ stream'[t].pub # None => stream'[t].pub \in Members(t)'
    BY DEF MembersOpen
  <2> QED
    BY <1>1, <1>2, <1>4 DEF LiveInv, Quiet, MembersOpen
<1>8. OrphansFinalized'
  <2>1. \A s \in Rtmp : Joined(s) => ctx[s].stream \in Streams
    BY <1>4 DEF LiveInv, TypeOK, CtxType, Joined
  <2> QED
    BY <1>3, <1>4, <2>1 DEF LiveInv, Quiet, LifeTyped, OrphansFinalized
<1>9. IdleTimerSound'
  BY <1>3, <1>4 DEF LiveInv, Quiet, LifeTyped, IdleTimerSound
<1>10. HttpFollows'
  <2> SUFFICES ASSUME NEW t \in Streams, NEW s \in Members(t)' \cap Http
               PROVE  /\ ctx'[s].active = stream'[t].active
                      /\ stream'[t].active => /\ publisher'[s] = stream'[t].pub
                                              /\ open'[publisher'[s]]
    BY DEF HttpFollows
  <2>1. s \in Members(t) /\ s \in Sessions /\ Joined(s)
    BY <1>1, <1>2
  <2>2. /\ ctx'[s].active = stream'[t].active
        /\ stream'[t].active => publisher'[s] = stream'[t].pub
    BY <2>1 DEF LiveInv, Quiet, HttpFollows
  <2>3. stream[t].active => stream[t].pub \in Members(t)
    BY DEF LiveInv, StatusOK, MembersOpen
  <2> QED
    BY <1>2, <2>2, <2>3 DEF Quiet
<1>11. StatusOK'
  <2> SUFFICES ASSUME NEW t \in Streams
               PROVE  /\ stream'[t].pub = None => ~stream'[t].active
                      /\ stream'[t].pub # None =>
                           ctx'[stream'[t].pub].active = stream'[t].active
    BY DEF StatusOK
  <2>1. stream[t].pub # None => stream[t].pub \in Members(t)
    BY DEF LiveInv, MembersOpen
  <2> QED
    BY <1>2, <2>1 DEF LiveInv, Quiet, StatusOK
<1>12. HttpOK'
  <2> SUFFICES ASSUME NEW s \in Http
               PROVE  /\ ~ctx'[s].publishing
                      /\ Joined(s)' => /\ open'[s]
                                       /\ s \in Members(ctx[s].stream)' \/ ~ctx'[s].active
                                       /\ OnlyStream(ctx[s].stream)'
    BY DEF HttpOK
  <2>1. ~ctx'[s].publishing
    BY <1>4 DEF LiveInv, Quiet, HttpOK
  <2>2. ASSUME Joined(s)'
        PROVE  /\ open'[s]
               /\ s \in Members(ctx[s].stream)' \/ ~ctx'[s].active
               /\ OnlyStream(ctx[s].stream)'
    <3>1. Joined(s) /\ s \in Sessions
      BY <1>3, <1>4, <2>2
    <3>2. /\ open[s]
          /\ s \in Members(ctx[s].stream) \/ ~ctx[s].active
          /\ OnlyStream(ctx[s].stream)
      BY <3>1 DEF LiveInv, HttpOK
    <3>6. /\ ctx'[s].stream = ctx[s].stream /\ ctx'[s].active = ctx[s].active
          /\ open[s] => open'[s]
      BY <3>1 DEF Quiet
    <3>3. ctx'[s].stream = ctx[s].stream /\ ctx'[s].active = ctx[s].active /\ open'[s]
      BY <3>2, <3>6
    <3>4. OnlyStream(ctx[s].stream)'
      BY <3>2, <3>3 DEF OnlyStream, Quiet
    <3>5. s \in Members(ctx[s].stream)' <=> s \in Members(ctx[s].stream)
      BY <3>3 DEF Members, Quiet
    <3> QED
      BY <3>2, <3>3, <3>4, <3>5
  <2> QED
    BY <2>1, <2>2, Zenon
<1>13. ReaderOK'
  BY DEF Quiet, LifeTyped, ReaderOK
<1> QED
  BY <1>5, <1>6, <1>7, <1>8, <1>9, <1>10, <1>11, <1>12, <1>13 DEF LiveInv

-----------------------------------------------------------------------------
(* Steps in which a session leaves its stream.                             *)

\* The step is the departure of s, which v describes.  A publisher that departs
\* closes the RTMP players of the stream.
Departed(v, s) ==
  /\ Closed(v, s) /\ LifeTyped
  /\ table' = v.table /\ free' = v.free /\ stream' = v.stream /\ timer' = v.timer
  /\ ctx' \in [Sessions -> CtxType] /\ publisher' \in [Http -> Sessions \cup {None}]
  /\ ctx'[s].stream = None
  /\ s \in Http => ~ctx'[s].publishing
  /\ \A x \in Sessions \ {s} :
       ctx'[x] = v.ctx[x] /\ open'[x] = open[x] /\ (destroyed[x] => destroyed'[x])
  /\ \A x \in Http \ {s} : publisher'[x] = publisher[x]
  /\ ctx[s].publishing =>
       \A x \in Members(ctx[s].stream) \cap Rtmp : x # s => destroyed'[x]

LEMMA DepartedStep ==
  ASSUME Http = {} \/ OneName, LiveInv, NEW s \in Sessions, Joined(s),
         NEW v, Departed(v, s)
  PROVE  LiveInv'
<1>t. PICK t \in Streams, name \in Names, P \in BOOLEAN :
        ctx[s].stream = t /\ ctx[s].publishing = P /\ stream[t].name = name
  <2>1. /\ ctx[s].stream \in Streams /\ ctx[s].publishing \in BOOLEAN
        /\ stream[ctx[s].stream].name \in Names
    BY MemberInTable DEF LiveInv, TypeOK, StreamType, CtxType
  <2> QED
    BY <2>1
<1>1. /\ s \in Rtmp => s \in Members(t)
      /\ P => s \in Rtmp /\ stream[t].pub = s
  <2>1. s \in Rtmp => s \in Members(t)
    BY <1>t DEF LiveInv, MembersOpen
  <2>2. P => s \in Rtmp
    BY <1>t DEF LiveInv, HttpOK, Sessions
  <2> QED
    BY <1>t, <2>1, <2>2 DEF LiveInv, MembersOpen
<1>2. /\ \A x \in Sessions \ {s} :
           /\ ctx'[x].stream = ctx[x].stream /\ ctx'[x].publishing = ctx[x].publishing
           /\ ~(P /\ x \in Members(t)) => ctx'[x].active = ctx[x].active
           /\ P /\ x \in Members(t) /\ x \in Http => ~ctx'[x].active
           /\ open'[x] = open[x]
           /\ destroyed[x] => destroyed'[x]
      /\ ctx'[s].stream = None
      /\ timer' = IF P THEN [timer EXCEPT ![s] = FALSE] ELSE timer
      /\ \A u \in Streams \ {t} : stream'[u] = stream[u]
      /\ stream'[t].name = name
      /\ stream'[t].pub = IF P THEN None ELSE stream[t].pub
      /\ stream'[t].active = IF P THEN FALSE ELSE stream[t].active
      /\ IsInjective(stream'[t].list)
      /\ Members(t)' = {x \in Members(t) : x # s /\ (P => x \in Rtmp)}
      /\ P => \A x \in Members(t) \cap Rtmp : x # s => destroyed'[x]
  <2>1. /\ \A x \in Sessions \ {s} :
             /\ v.ctx[x].stream = ctx[x].stream /\ v.ctx[x].publishing = ctx[x].publishing
             /\ ~(P /\ x \in Members(t)) => v.ctx[x].active = ctx[x].active
             /\ P /\ x \in Members(t) /\ x \in Http => ~v.ctx[x].active
        /\ v.timer = IF P THEN [timer EXCEPT ![s] = FALSE] ELSE timer
        /\ \A u \in Streams \ {t} : v.stream[u] = stream[u]
        /\ v.stream[t].name = name
        /\ v.stream[t].pub = IF P THEN None ELSE stream[t].pub
        /\ v.stream[t].active = IF P THEN FALSE ELSE stream[t].active
        /\ IsInjective(v.stream[t].list)
        /\ Range(v.stream[t].list) = {x \in Members(t) : x # s /\ (P => x \in Rtmp)}
    <3>1. Closed(v, s)
      BY DEF Departed
    <3> QED
      BY <1>t, <3>1 DEF Closed
  <2>2. /\ timer' = v.timer /\ stream' = v.stream /\ ctx'[s].stream = None
        /\ \A x \in Sessions \ {s} :
             ctx'[x] = v.ctx[x] /\ open'[x] = open[x] /\ (destroyed[x] => destroyed'[x])
    BY DEF Departed
  <2>3. P => \A x \in Members(t) \cap Rtmp : x # s => destroyed'[x]
    BY <1>t DEF Departed
  <2>4. ASSUME NEW x \in Sessions \ {s}
        PROVE  /\ ctx'[x].stream = ctx[x].stream /\ ctx'[x].publishing = ctx[x].publishing
               /\ ~(P /\ x \in Members(t)) => ctx'[x].active = ctx[x].active
               /\ P /\ x \in Members(t) /\ x \in Http => ~ctx'[x].active
               /\ open'[x] = open[x]
               /\ destroyed[x] => destroyed'[x]
    BY <2>1, <2>2
  <2>5. Members(t)' = {x \in Members(t) : x # s /\ (P => x \in Rtmp)}
    BY <2>1, <2>2 DEF Members
  <2>6. /\ timer' = IF P THEN [timer EXCEPT ![s] = FALSE] ELSE timer
        /\ \A u \in Streams \ {t} : stream'[u] = stream[u]
        /\ stream'[t].name = name
        /\ stream'[t].pub = IF P THEN None ELSE stream[t].pub
        /\ stream'[t].active = IF P THEN FALSE ELSE stream[t].active
        /\ IsInjective(stream'[t].list)
    BY <2>1, <2>2
  <2> QED
    BY <2>2, <2>3, <2>4, <2>5, <2>6
<1>3. \/ table' = table /\ free' = free
      \/ /\ stream'[t].list = <<>> /\ stream'[t].pub = None /\ table[name] = t
         /\ table' = [table EXCEPT ![name] = None] /\ free' = <<t>> \o free
  BY <1>t DEF Departed, Closed
<1>4. /\ \A u \in Streams : \A x \in Members(u) :
           x \in Sessions /\ ctx[x].stream = u /\ Joined(x) /\ open[x]
      /\ \A u \in Streams \ {t} : Members(u)' = Members(u) /\ s \notin Members(u)
  BY <1>2, <1>t, MemberJoined DEF Members
<1>5. \A x \in Sessions \ {s} : Joined(x)' <=> Joined(x)
  BY <1>2 DEF Joined
<1>6. Rtmp \subseteq Sessions /\ Http \subseteq Sessions /\ ~Joined(s)'
  BY <1>2 DEF Sessions, Joined
<1>7. TypeOK'
  BY DEF Departed, Closed, LiveInv, TypeOK, LifeTyped, Worlds
<1>8. StreamsAccounted'
  <2>1. \A u \in Streams : stream'[u].name = stream[u].name
    BY <1>2, <1>t
  <2>2. \A u \in Streams : stream[u].list = <<>> => Members(u) = {}
    BY EmptyRange DEF LiveInv, TypeOK, StreamType, Members
  <2>3. ASSUME NEW u \in Range(free)
        PROVE  stream'[u].list = <<>> /\ stream'[u].pub = None
    <3>1. u \in Streams /\ stream[u].list = <<>> /\ stream[u].pub = None
      BY <2>3 DEF LiveInv, TypeOK, StreamsAccounted, Range
    <3>2. Members(u) = {}
      BY <2>2, <3>1
    <3>3. CASE u # t
      BY <1>2, <3>1, <3>3
    <3>4. CASE u = t
      <4>1. stream'[t].list \in Seq(Sessions) /\ Members(t)' = {}
        BY <1>1, <1>2, <1>7, <3>2, <3>4 DEF TypeOK, StreamType
      <4>2. stream'[t].list = <<>>
        BY <4>1, EmptyRange DEF Members
      <4> QED
        BY <1>2, <3>1, <3>4, <4>2
    <3> QED
      BY <3>3, <3>4
  <2>4. CASE table' = table /\ free' = free
    BY <2>1, <2>3, <2>4 DEF LiveInv, TypeOK, StreamsAccounted
  <2>5. CASE /\ stream'[t].list = <<>> /\ stream'[t].pub = None /\ table[name] = t
             /\ table' = [table EXCEPT ![name] = None] /\ free' = <<t>> \o free
    <3>1. free \in Seq(Streams) /\ t \notin Range(free) /\ IsInjective(free)
      BY <1>1, <2>5 DEF LiveInv, TypeOK, StreamsAccounted
    <3>2. Range(free') = Range(free) \cup {t} /\ IsInjective(free')
      BY <1>1, <2>5, <3>1, PrependNew
    <3>3. /\ \A n \in Names : table'[n] = IF n = name THEN None ELSE table[n]
          /\ \A n \in Names : table[n] = t => n = name
      BY <1>1, <1>t, <2>5, ConstantsAssumption DEF LiveInv, TypeOK, StreamsAccounted
    <3>4. ASSUME NEW u \in Streams
          PROVE  u \in Range(free') <=> \A n \in Names : table'[n] # u
      <4>1. u \in Range(free) <=> \A n \in Names : table[n] # u
        BY DEF LiveInv, StreamsAccounted
      <4>2. CASE u = t
        BY <1>1, <3>2, <3>3, <4>2, ConstantsAssumption
      <4>3. CASE u # t
        BY <1>1, <2>5, <3>2, <3>3, <4>1, <4>3, ConstantsAssumption
      <4> QED
        BY <4>2, <4>3
    <3>5. ASSUME NEW n \in Names, table'[n] # None PROVE stream'[table'[n]].name = n
      <4>1. table'[n] = table[n] /\ table[n] \in Streams /\ stream[table[n]].name = n
        BY <3>3, <3>5 DEF LiveInv, TypeOK, StreamsAccounted
      <4> QED
        BY <2>1, <4>1
    <3> QED
      BY <2>3, <2>5, <3>2, <3>4, <3>5 DEF StreamsAccounted
  <2> QED
    BY <1>3, <2>4, <2>5
<1>9. MembersOpen'
  <2> SUFFICES ASSUME NEW u \in Streams
               PROVE  /\ IsInjective(stream'[u].list)
                      /\ \A x \in Rtmp : ctx'[x].stream = u <=> x \in Members(u)'
                      /\ \A x \in Members(u)' :
                           /\ open'[x] /\ ctx'[x].stream = u
                           /\ ctx'[x].publishing <=> stream'[u].pub = x
                      /\ stream'[u].pub # None => stream'[u].pub \in Members(u)'
    BY DEF MembersOpen
  <2>1. /\ IsInjective(stream[u].list)
        /\ \A x \in Rtmp : ctx[x].stream = u <=> x \in Members(u)
        /\ \A x \in Members(u) :
             /\ open[x] /\ ctx[x].stream = u
             /\ ctx[x].publishing <=> stream[u].pub = x
        /\ stream[u].pub # None => stream[u].pub \in Members(u)
    BY DEF LiveInv, MembersOpen
  <2>2. CASE u # t
    <3>1. /\ stream'[u] = stream[u] /\ Members(u)' = Members(u) /\ s \notin Members(u)
          /\ \A x \in Members(u) : x \in Sessions \ {s}
      BY <1>2, <1>4, <2>2
    <3>2. \A x \in Rtmp : ctx'[x].stream = u <=> x \in Members(u)
      BY <1>2, <1>6, <2>1, <3>1, ConstantsAssumption
    <3>3. \A x \in Members(u) :
            /\ open'[x] /\ ctx'[x].stream = u
            /\ ctx'[x].publishing <=> stream'[u].pub = x
      BY <1>2, <2>1, <3>1
    <3> QED
      BY <2>1, <3>1, <3>2, <3>3
  <2>3. CASE u = t
    <3>1. \A x \in Members(t)' : x \in Members(t) /\ x \in Sessions \ {s}
      BY <1>2, <1>4, <2>3
    <3>2. \A x \in Rtmp : ctx'[x].stream = t <=> x \in Members(t)'
      BY <1>1, <1>2, <1>6, <2>1, <2>3, ConstantsAssumption
    <3>3. ASSUME NEW x \in Members(t)'
          PROVE  /\ open'[x] /\ ctx'[x].stream = t
                 /\ ctx'[x].publishing <=> stream'[t].pub = x
      <4>1. /\ open[x] /\ ctx[x].stream = t /\ x # s /\ x # None
            /\ ctx[x].publishing <=> stream[t].pub = x
        BY <2>1, <2>3, <3>1, ConstantsAssumption
      <4>2. /\ open'[x] = open[x] /\ ctx'[x].stream = ctx[x].stream
            /\ ctx'[x].publishing = ctx[x].publishing
        BY <1>2, <3>1
      <4> QED
        BY <1>1, <1>2, <4>1, <4>2
    <3>4. stream'[t].pub # None => stream'[t].pub \in Members(t)'
      <4> SUFFICES ASSUME stream'[t].pub # None PROVE stream'[t].pub \in Members(t)'
        OBVIOUS
      <4>1. ~P /\ stream'[t].pub = stream[t].pub /\ stream[t].pub \in Members(t)
        BY <1>2, <2>1, <2>3
      <4>2. stream[t].pub # s
        BY <1>t, <2>1, <2>3, <4>1
      <4> QED
        BY <1>2, <4>1, <4>2
    <3> QED
      BY <1>2, <2>3, <3>2, <3>3, <3>4
  <2> QED
    BY <2>2, <2>3
<1>10. OrphansFinalized'
  <2> SUFFICES ASSUME ~conf.idle, NEW x \in Rtmp, Joined(x)',
                      stream'[ctx'[x].stream].pub = None
               PROVE  destroyed'[x]
    BY DEF OrphansFinalized, Departed, LifeTyped
  <2>1. /\ x \in Sessions \ {s} /\ Joined(x) /\ ctx'[x].stream = ctx[x].stream
        /\ destroyed[x] => destroyed'[x]
    BY <1>2, <1>5, <1>6
  <2>2. ctx[x].stream \in Streams /\ x \in Members(ctx[x].stream)
    BY <2>1 DEF LiveInv, TypeOK, CtxType, Joined, MembersOpen
  <2>3. CASE ctx[x].stream = t /\ P
    BY <1>2, <2>1, <2>2, <2>3
  <2>4. CASE ~(ctx[x].stream = t /\ P)
    <3>1. stream[ctx[x].stream].pub = None
      BY <1>2, <2>1, <2>2, <2>4
    <3>2. destroyed[x]
      BY <2>1, <3>1 DEF LiveInv, OrphansFinalized
    <3> QED
      BY <2>1, <3>2
  <2> QED
    BY <2>3, <2>4
<1>11. IdleTimerSound'
  <2> SUFFICES ASSUME NEW x \in Rtmp
               PROVE  /\ timer'[x] => /\ open'[x] /\ Joined(x)' /\ ctx'[x].publishing
                                      /\ ctx'[x].active
                      /\ conf.drop /\ Joined(x)' /\ ctx'[x].publishing /\ ctx'[x].active =>
                           timer'[x] \/ destroyed'[x]
    BY DEF IdleTimerSound, Departed, LifeTyped
  <2>1. /\ timer[x] => open[x] /\ Joined(x) /\ ctx[x].publishing /\ ctx[x].active
        /\ conf.drop /\ Joined(x) /\ ctx[x].publishing /\ ctx[x].active =>
             timer[x] \/ destroyed[x]
    BY DEF LiveInv, IdleTimerSound
  <2>2. timer \in [Sessions -> BOOLEAN] /\ x \in Sessions
    BY <1>6 DEF LiveInv, TypeOK
  <2>3. CASE x = s
    <3>1. timer'[x] = FALSE
      BY <1>2, <1>t, <2>1, <2>2, <2>3
    <3> QED
      BY <1>6, <2>3, <3>1
  <2>4. CASE x # s
    <3>1. timer'[x] = timer[x]
      BY <1>2, <2>2, <2>4
    <3>2. /\ open'[x] = open[x] /\ (Joined(x)' <=> Joined(x))
          /\ ctx'[x].publishing = ctx[x].publishing
          /\ destroyed[x] => destroyed'[x]
      BY <1>2, <1>5, <2>2, <2>4
    <3>3. ctx[x].publishing /\ Joined(x) => ctx'[x].active = ctx[x].active
      <4> SUFFICES ASSUME ctx[x].publishing, P, x \in Members(t) PROVE FALSE
        BY <1>2, <2>2, <2>4
      <4> QED
        BY <1>1, <2>4 DEF LiveInv, MembersOpen
    <3> QED
      BY <2>1, <3>1, <3>2, <3>3
  <2> QED
    BY <2>3, <2>4
<1>12. HttpFollows'
  <2> SUFFICES ASSUME NEW u \in Streams, NEW x \in Members(u)' \cap Http
               PROVE  /\ ctx'[x].active = stream'[u].active
                      /\ stream'[u].active => /\ publisher'[x] = stream'[u].pub
                                              /\ open'[publisher'[x]]
    BY DEF HttpFollows
  <2>1. /\ x \in Members(u) /\ x \in Sessions \ {s} /\ (u = t => ~P)
        /\ publisher'[x] = publisher[x]
    <3>1. x \in Members(u) /\ x \in Sessions \ {s} /\ (u = t => ~P)
      BY <1>2, <1>4, ConstantsAssumption
    <3> QED
      BY <3>1 DEF Departed
  <2>2. /\ ctx[x].active = stream[u].active
        /\ stream[u].active => publisher[x] = stream[u].pub
    BY <2>1 DEF LiveInv, HttpFollows
  <2>3. /\ stream'[u].active = stream[u].active /\ stream'[u].pub = stream[u].pub
    BY <1>2, <2>1
  <2>4. ctx'[x].active = ctx[x].active
    <3>1. ~(P /\ x \in Members(t))
      BY <1>4, <1>1, <2>1
    <3> QED
      BY <1>2, <2>1, <3>1
  <2>5. stream[u].active => stream'[u].pub # None
    BY <2>3 DEF LiveInv, StatusOK
  <2>6. stream'[u].pub # None => open'[stream'[u].pub]
    BY <1>9 DEF MembersOpen
  <2> QED
    BY <2>1, <2>2, <2>3, <2>4, <2>5, <2>6
<1>13. StatusOK'
  <2> SUFFICES ASSUME NEW u \in Streams
               PROVE  /\ stream'[u].pub = None => ~stream'[u].active
                      /\ stream'[u].pub # None =>
                           ctx'[stream'[u].pub].active = stream'[u].active
    BY DEF StatusOK
  <2>1. CASE u = t /\ P
    BY <1>2, <2>1
  <2>2. CASE ~(u = t /\ P)
    <3>1. stream'[u].pub = stream[u].pub /\ stream'[u].active = stream[u].active
      BY <1>2, <2>2
    <3>2. ASSUME stream[u].pub # None
          PROVE  ctx'[stream[u].pub].active = ctx[stream[u].pub].active
      <4>1. stream[u].pub \in Members(u) /\ stream[u].pub \in Members(u)'
        BY <1>9, <3>1, <3>2 DEF LiveInv, MembersOpen
      <4>2. stream[u].pub \in Sessions \ {s} /\ ctx[stream[u].pub].stream = u
        BY <1>2, <1>4, <4>1
      <4>3. ~(P /\ stream[u].pub \in Members(t))
        BY <1>1, <1>4, <2>2, <4>2
      <4> QED
        BY <1>2, <4>2, <4>3
    <3> QED
      BY <3>1, <3>2 DEF LiveInv, StatusOK
  <2> QED
    BY <2>1, <2>2
<1>14. HttpOK'
  <2> SUFFICES ASSUME NEW x \in Http
               PROVE  /\ ~ctx'[x].publishing
                      /\ Joined(x)' => /\ open'[x]
                                       /\ x \in Members(ctx[x].stream)' \/ ~ctx'[x].active
                                       /\ OnlyStream(ctx[x].stream)'
    BY DEF HttpOK
  <2>1. CASE x = s
    BY <1>6, <2>1 DEF Departed
  <2>2. CASE x # s
    <3>1. /\ x \in Sessions \ {s} /\ ctx'[x].stream = ctx[x].stream
          /\ ctx'[x].publishing = ctx[x].publishing /\ open'[x] = open[x]
          /\ Joined(x)' <=> Joined(x)
      BY <1>2, <1>5, <1>6, <2>2
    <3>2. ~ctx'[x].publishing
      BY <3>1 DEF LiveInv, HttpOK
    <3>3. ASSUME Joined(x)'
          PROVE  /\ open'[x]
                 /\ x \in Members(ctx[x].stream)' \/ ~ctx'[x].active
                 /\ OnlyStream(ctx[x].stream)'
      <4>0. PICK y \in Streams : y = ctx[x].stream
        BY <3>1, <3>3 DEF LiveInv, TypeOK, CtxType, Joined
      <4>1. /\ open[x] /\ OnlyStream(y)
            /\ x \in Members(y) \/ ~ctx[x].active
        BY <3>1, <3>3, <4>0 DEF LiveInv, HttpOK
      <4>2. x \in Members(y)' \/ ~ctx'[x].active
        <5>1. CASE x \in Members(t) /\ P
          BY <1>2, <3>1, <5>1
        <5>2. CASE ~(x \in Members(t) /\ P)
          <6>1. ctx'[x].active = ctx[x].active
            BY <1>2, <3>1, <5>2
          <6>2. x \in Members(y) => x \in Members(y)'
            <7>1. CASE y = t
              <8>1. x \in Members(y) => ~P
                BY <5>2, <7>1
              <8> QED
                BY <1>2, <2>2, <7>1, <8>1
            <7>2. CASE y # t
              BY <1>4, <4>1, <7>2
            <7> QED
              BY <7>1, <7>2
          <6> QED
            BY <4>1, <6>1, <6>2
        <5> QED
          BY <5>1, <5>2
      <4>3. OnlyStream(y)'
        <5>1. CASE table' = table /\ free' = free
          BY <4>1, <5>1 DEF OnlyStream
        <5>2. CASE /\ stream'[t].list = <<>> /\ stream'[t].pub = None /\ table[name] = t
                   /\ table' = [table EXCEPT ![name] = None] /\ free' = <<t>> \o free
          <6>1. \A n \in Names : n = name
            BY DEF OneName
          <6>2. y = t
            BY <4>1, <5>2, ConstantsAssumption DEF OnlyStream
          <6>3. table'[name] = None
            BY <5>2 DEF LiveInv, TypeOK
          <6>4. free' # <<>> /\ Head(free') = t
            BY <5>2, PrependNew DEF LiveInv, TypeOK
          <6> QED
            BY <6>1, <6>2, <6>3, <6>4 DEF OnlyStream
        <5> QED
          BY <1>3, <5>1, <5>2
      <4>4. ctx'[x].stream = y
        BY <3>1, <4>0
      <4>5. x \in Members(ctx[x].stream)' <=> x \in Members(y)'
        BY <4>4 DEF Members
      <4>6. OnlyStream(ctx[x].stream)' <=> OnlyStream(y)'
        BY <4>4 DEF OnlyStream
      <4> QED
        BY <3>1, <4>1, <4>2, <4>3, <4>5, <4>6
    <3> QED
      BY <3>2, <3>3, Zenon
  <2> QED
    BY <2>1, <2>2
<1>15. ReaderOK'
  BY DEF Departed, LifeTyped, ReaderOK
<1> QED
  BY <1>7, <1>8, <1>9, <1>10, <1>11, <1>12, <1>13, <1>14, <1>15 DEF LiveInv

-----------------------------------------------------------------------------
(* Steps that switch a session on or off: a publisher switches its stream  *)
(* and the players of it, too.                                             *)

\* The players that a publisher s tells of its state.
Told(s) == {x \in Members(ctx[s].stream) : ctx[s].publishing /\ ~ctx[x].publishing}

Switched(s, a) ==
  /\ LifeTyped /\ UNCHANGED <<table, free>>
  /\ ctx' \in [Sessions -> CtxType] /\ publisher' \in [Http -> Sessions \cup {None}]
  /\ timer' \in [Sessions -> BOOLEAN] /\ stream' \in [Streams -> StreamType]
  /\ \A x \in Sessions :
       /\ ctx'[x].stream = ctx[x].stream /\ ctx'[x].publishing = ctx[x].publishing
       /\ ctx'[x].active = IF x \in Told(s) \cup {s} THEN a ELSE ctx[x].active
       /\ open'[x] = open[x]
       /\ destroyed[x] => destroyed'[x]
  /\ \A x \in Http : publisher'[x] = IF x \in Told(s) THEN s ELSE publisher[x]
  /\ timer' = IF ctx[s].publishing THEN [timer EXCEPT ![s] = a /\ conf.drop] ELSE timer
  /\ \A u \in Streams :
       /\ stream'[u].name = stream[u].name /\ stream'[u].list = stream[u].list
       /\ stream'[u].pub = stream[u].pub
       /\ stream'[u].active = IF u = ctx[s].stream /\ ctx[s].publishing
                              THEN a ELSE stream[u].active

LEMMA SwitchedStep ==
  ASSUME LiveInv, NEW s \in Rtmp, Joined(s), NEW a \in BOOLEAN, Switched(s, a)
  PROVE  LiveInv'
<1>t. PICK t \in Streams, P \in BOOLEAN :
        ctx[s].stream = t /\ ctx[s].publishing = P
  <2>1. ctx[s].stream \in Streams /\ ctx[s].publishing \in BOOLEAN
    BY MemberInTable DEF LiveInv, TypeOK, StreamType, CtxType, Sessions
  <2> QED
    BY <2>1
<1> DEFINE told == {x \in Members(t) : P /\ ~ctx[x].publishing}
<1>1. /\ s \in Members(t) /\ s \in Sessions /\ open[s]
      /\ P => stream[t].pub = s
      /\ Rtmp \subseteq Sessions /\ Http \subseteq Sessions
      /\ conf.drop \in BOOLEAN
  BY <1>t, ConstantsAssumption
     DEF LiveInv, MembersOpen, Sessions, TypeOK, Configurations
<1>2. /\ LifeTyped /\ UNCHANGED <<table, free>>
      /\ \A x \in Sessions :
           /\ ctx'[x].stream = ctx[x].stream /\ ctx'[x].publishing = ctx[x].publishing
           /\ ctx'[x].active = IF x \in told \cup {s} THEN a ELSE ctx[x].active
           /\ open'[x] = open[x]
           /\ destroyed[x] => destroyed'[x]
      /\ \A x \in Http : publisher'[x] = IF x \in told THEN s ELSE publisher[x]
      /\ timer' = IF P THEN [timer EXCEPT ![s] = a /\ conf.drop] ELSE timer
      /\ \A u \in Streams :
           /\ stream'[u].name = stream[u].name /\ stream'[u].list = stream[u].list
           /\ stream'[u].pub = stream[u].pub
           /\ stream'[u].active = IF u = t /\ P THEN a ELSE stream[u].active
  <2>1. Told(s) = told
    BY <1>t DEF Told
  <2> HIDE DEF told
  <2> QED
    BY <1>t, <2>1 DEF Switched
<1>x. \A x : x \in told <=> x \in Members(t) /\ P /\ ~ctx[x].publishing
  OBVIOUS
<1> HIDE DEF told
<1>3. /\ \A u \in Streams : \A x \in Members(u) :
           x \in Sessions /\ ctx[x].stream = u /\ Joined(x) /\ open[x]
      /\ \A u \in Streams : Members(u)' = Members(u)
  BY <1>2, MemberJoined DEF Members
<1>4. \A x \in Sessions : Joined(x)' <=> Joined(x)
  BY <1>2 DEF Joined
<1>5. TypeOK'
  BY DEF Switched, LiveInv, TypeOK, LifeTyped
<1>6. StreamsAccounted'
  <2>1. \A u \in Range(free) : u \in Streams
    BY DEF LiveInv, TypeOK, Range
  <2>2. \A n \in Names : table[n] # None => table[n] \in Streams
    BY DEF LiveInv, TypeOK
  <2> QED
    BY <1>2, <2>1, <2>2 DEF LiveInv, StreamsAccounted
<1>7. MembersOpen'
  <2> SUFFICES ASSUME NEW u \in Streams
               PROVE  /\ IsInjective(stream'[u].list)
                      /\ \A x \in Rtmp : ctx'[x].stream = u <=> x \in Members(u)'
                      /\ \A x \in Members(u)' :
                           /\ open'[x] /\ ctx'[x].stream = u
                           /\ ctx'[x].publishing <=> stream'[u].pub = x
                      /\ stream'[u].pub # None => stream'[u].pub \in Members(u)'
    BY DEF MembersOpen
  <2> QED
    BY <1>1, <1>2, <1>3 DEF LiveInv, MembersOpen
<1>8. OrphansFinalized'
  <2> SUFFICES ASSUME ~conf.idle, NEW x \in Rtmp, Joined(x)',
                      stream'[ctx'[x].stream].pub = None
               PROVE  destroyed'[x]
    BY <1>2 DEF OrphansFinalized, LifeTyped
  <2>1. /\ x \in Sessions /\ Joined(x) /\ ctx'[x].stream = ctx[x].stream
        /\ destroyed[x] => destroyed'[x]
    BY <1>1, <1>2, <1>4
  <2>2. ctx[x].stream \in Streams
    BY <2>1 DEF LiveInv, TypeOK, CtxType, Joined
  <2>3. stream[ctx[x].stream].pub = None
    BY <1>2, <2>1, <2>2
  <2> QED
    BY <2>1, <2>3 DEF LiveInv, OrphansFinalized
<1>9. IdleTimerSound'
  <2> SUFFICES ASSUME NEW x \in Rtmp
               PROVE  /\ timer'[x] => /\ open'[x] /\ Joined(x)' /\ ctx'[x].publishing
                                      /\ ctx'[x].active
                      /\ conf.drop /\ Joined(x)' /\ ctx'[x].publishing /\ ctx'[x].active =>
                           timer'[x] \/ destroyed'[x]
    BY <1>2 DEF IdleTimerSound, LifeTyped
  <2>1. /\ timer[x] => open[x] /\ Joined(x) /\ ctx[x].publishing /\ ctx[x].active
        /\ conf.drop /\ Joined(x) /\ ctx[x].publishing /\ ctx[x].active =>
             timer[x] \/ destroyed[x]
    BY DEF LiveInv, IdleTimerSound
  <2>2. timer \in [Sessions -> BOOLEAN] /\ x \in Sessions
    BY <1>1 DEF LiveInv, TypeOK
  <2>3. CASE x = s /\ P
    <3>1. timer'[x] = (a /\ conf.drop) /\ ctx'[x].active = a
      BY <1>2, <2>2, <2>3
    <3>2. open'[x] /\ Joined(x)' /\ ctx'[x].publishing
      BY <1>1, <1>2, <1>4, <1>t, <2>3
    <3> QED
      BY <1>1, <3>1, <3>2
  <2>4. CASE x = s /\ ~P
    <3>1. ctx'[x].publishing = FALSE /\ timer'[x] = timer[x]
      BY <1>1, <1>2, <1>t, <2>4
    <3> QED
      BY <1>t, <2>1, <2>4, <3>1
  <2>5. CASE x # s
    <3>1. timer'[x] = timer[x]
      BY <1>2, <2>2, <2>5
    <3>2. /\ open'[x] = open[x] /\ (Joined(x)' <=> Joined(x))
          /\ ctx'[x].publishing = ctx[x].publishing
          /\ destroyed[x] => destroyed'[x]
      BY <1>2, <1>4, <2>2
    <3>3. ctx[x].publishing => ctx'[x].active = ctx[x].active
      BY <1>2, <1>x, <2>2, <2>5
    <3> QED
      BY <2>1, <3>1, <3>2, <3>3
  <2> QED
    BY <2>3, <2>4, <2>5
<1>10. HttpFollows'
  <2> SUFFICES ASSUME NEW u \in Streams, NEW x \in Members(u)' \cap Http
               PROVE  /\ ctx'[x].active = stream'[u].active
                      /\ stream'[u].active => /\ publisher'[x] = stream'[u].pub
                                              /\ open'[publisher'[x]]
    BY DEF HttpFollows
  <2>1. x \in Members(u) /\ x \in Sessions /\ x # s /\ ~ctx[x].publishing
    BY <1>1, <1>3, ConstantsAssumption DEF LiveInv, HttpOK
  <2>2. /\ ctx[x].active = stream[u].active
        /\ stream[u].active => publisher[x] = stream[u].pub /\ open[publisher[x]]
    BY <2>1 DEF LiveInv, HttpFollows
  <2>3. CASE u = t /\ P
    <3>1. x \in told
      BY <1>x, <2>1, <2>3
    <3>2. ctx'[x].active = a /\ stream'[u].active = a /\ publisher'[x] = s /\ open'[s]
      BY <1>1, <1>2, <2>1, <2>3, <3>1
    <3> QED
      BY <1>1, <1>2, <2>3, <3>2
  <2>4. CASE ~(u = t /\ P)
    <3>1. x \notin told
      BY <1>3, <1>x, <2>1, <2>4
    <3>2. /\ ctx'[x].active = ctx[x].active /\ publisher'[x] = publisher[x]
          /\ stream'[u].active = stream[u].active /\ stream'[u].pub = stream[u].pub
      BY <1>2, <2>1, <2>4, <3>1
    <3>3. stream[u].active => publisher[x] \in Sessions
      BY <2>2 DEF LiveInv, StatusOK, TypeOK, StreamType
    <3>4. stream[u].active => open'[publisher[x]]
      BY <1>2, <2>2, <3>3
    <3> QED
      BY <2>2, <3>2, <3>4
  <2> QED
    BY <2>3, <2>4
<1>11. StatusOK'
  <2> SUFFICES ASSUME NEW u \in Streams
               PROVE  /\ stream'[u].pub = None => ~stream'[u].active
                      /\ stream'[u].pub # None =>
                           ctx'[stream'[u].pub].active = stream'[u].active
    BY DEF StatusOK
  <2>1. CASE u = t /\ P
    <3>1. stream'[u].pub = s /\ stream'[u].active = a /\ ctx'[s].active = a
      BY <1>1, <1>2, <2>1
    <3> QED
      BY <1>1, <3>1, ConstantsAssumption
  <2>2. CASE ~(u = t /\ P)
    <3>1. stream'[u].pub = stream[u].pub /\ stream'[u].active = stream[u].active
      BY <1>2, <2>2
    <3>2. ASSUME stream[u].pub # None
          PROVE  ctx'[stream[u].pub].active = ctx[stream[u].pub].active
      <4>1. stream[u].pub \in Members(u) /\ ctx[stream[u].pub].publishing
        BY <3>2 DEF LiveInv, MembersOpen
      <4>2. stream[u].pub \in Sessions /\ ctx[stream[u].pub].stream = u
        BY <1>3, <4>1
      <4>3. stream[u].pub # s
        BY <1>t, <2>2, <4>1, <4>2
      <4> QED
        BY <1>2, <1>x, <4>1, <4>2, <4>3
    <3> QED
      BY <3>1, <3>2 DEF LiveInv, StatusOK
  <2> QED
    BY <2>1, <2>2
<1>12. HttpOK'
  <2> SUFFICES ASSUME NEW x \in Http
               PROVE  /\ ~ctx'[x].publishing
                      /\ Joined(x)' => /\ open'[x]
                                       /\ x \in Members(ctx[x].stream)' \/ ~ctx'[x].active
                                       /\ OnlyStream(ctx[x].stream)'
    BY DEF HttpOK
  <2>1. /\ x \in Sessions /\ x # s /\ ctx'[x].stream = ctx[x].stream
        /\ ctx'[x].publishing = ctx[x].publishing /\ open'[x] = open[x]
        /\ Joined(x)' <=> Joined(x)
    BY <1>1, <1>2, <1>4, ConstantsAssumption
  <2>2. ~ctx'[x].publishing
    BY <2>1 DEF LiveInv, HttpOK
  <2>3. ASSUME Joined(x)'
        PROVE  /\ open'[x]
               /\ x \in Members(ctx[x].stream)' \/ ~ctx'[x].active
               /\ OnlyStream(ctx[x].stream)'
    <3>0. PICK y \in Streams : y = ctx[x].stream
      BY <2>1, <2>3 DEF LiveInv, TypeOK, CtxType, Joined
    <3>1. /\ open[x] /\ OnlyStream(y)
          /\ x \in Members(y) \/ ~ctx[x].active
      BY <2>1, <2>3, <3>0 DEF LiveInv, HttpOK
    <3>2. x \in Members(y)' \/ ~ctx'[x].active
      <4>1. CASE x \in told
        BY <1>3, <1>x, <3>0, <4>1
      <4>2. CASE x \notin told
        <5>1. ctx'[x].active = ctx[x].active
          BY <1>2, <2>1, <4>2
        <5> QED
          BY <1>3, <3>1, <5>1
      <4> QED
        BY <4>1, <4>2
    <3>3. OnlyStream(y)'
      BY <1>2, <3>1 DEF OnlyStream
    <3>4. x \in Members(ctx[x].stream)' <=> x \in Members(y)'
      BY <2>1, <3>0 DEF Members
    <3>5. OnlyStream(ctx[x].stream)' <=> OnlyStream(y)'
      BY <2>1, <3>0 DEF OnlyStream
    <3> QED
      BY <2>1, <3>1, <3>2, <3>3, <3>4, <3>5
  <2> QED
    BY <2>2, <2>3, Zenon
<1>13. ReaderOK'
  BY <1>2 DEF LifeTyped, ReaderOK
<1> QED
  BY <1>5, <1>6, <1>7, <1>8, <1>9, <1>10, <1>11, <1>12, <1>13 DEF LiveInv

-----------------------------------------------------------------------------
(* Steps in which a session enters a stream.                               *)

\* The struct that ngx_rtmp_live_get_stream returns is that of the name, or
\* the first free one.  A free struct is empty already: it only gets its name.
Found(v, n, t) ==
  /\ v \in Worlds
  /\ v.ctx = ctx /\ v.publisher = publisher /\ v.timer = timer
  /\ \A u \in Streams \ {t} : v.stream[u] = stream[u]
  /\ v.stream[t].name = n /\ v.stream[t].list = stream[t].list
  /\ v.stream[t].pub = stream[t].pub /\ v.stream[t].active = stream[t].active
  /\ \/ table[n] = t /\ v.table = table /\ v.free = free
     \/ /\ table[n] = None /\ free # <<>> /\ Head(free) = t
        /\ v.table = [table EXCEPT ![n] = t] /\ v.free = Tail(free)

LEMMA StreamFound ==
  ASSUME LiveInv, NEW n \in Names, CanGet(n), NEW v, v = GetStream(World, n)
  PROVE  /\ v.table[n] \in Streams /\ Found(v, n, v.table[n])
         /\ table[n] = None => stream[v.table[n]].pub = None
<1>1. World \in Worlds /\ table \in [Names -> Streams \cup {None}] /\ free \in Seq(Streams)
      /\ stream \in [Streams -> StreamType]
  BY WorldType DEF LiveInv, TypeOK
<1>2. CASE table[n] # None
  <2>1. v = World
    BY <1>2, WorldFields DEF GetStream
  <2>2. table[n] \in Streams /\ stream[table[n]].name = n
    BY <1>1, <1>2 DEF LiveInv, StreamsAccounted
  <2> QED
    BY <1>1, <1>2, <2>1, <2>2, WorldFields DEF Found
<1>3. CASE table[n] = None
  <2>1. free # <<>>
    BY <1>3 DEF CanGet
  <2>2. PICK t \in Streams : t = Head(free)
    BY <1>1, <2>1
  <2>3. t \in Range(free)
    BY <1>1, <2>1, <2>2, TailOfInjective DEF LiveInv, StreamsAccounted
  <2>4. stream[t].list = <<>> /\ stream[t].pub = None /\ stream[t].active = FALSE
    <3>1. stream[t].list = <<>> /\ stream[t].pub = None
      BY <2>3 DEF LiveInv, StreamsAccounted
    <3>2. stream[t].active \in BOOLEAN
      BY <1>1 DEF StreamType
    <3> QED
      BY <3>1, <3>2 DEF LiveInv, StatusOK
  <2>5. v = [World EXCEPT !.table[n] = t, !.free = Tail(free), !.stream[t] = NewStream(n)]
    BY <1>3, <2>2, WorldFields DEF GetStream
  <2>6. /\ v.ctx = ctx /\ v.publisher = publisher /\ v.timer = timer
        /\ v.table = [table EXCEPT ![n] = t] /\ v.free = Tail(free)
        /\ v.stream = [stream EXCEPT ![t] = NewStream(n)]
        /\ v = [ctx |-> ctx, publisher |-> publisher, timer |-> timer,
                table |-> v.table, free |-> v.free, stream |-> v.stream]
    BY <2>5 DEF World
  <2>7. NewStream(n) \in StreamType
    <3>1. <<>> \in Seq(Sessions)
      OBVIOUS
    <3> QED
      BY <3>1 DEF NewStream, StreamType
  <2>8. v \in Worlds
    <3>1. v.table \in [Names -> Streams \cup {None}] /\ v.free \in Seq(Streams)
          /\ v.stream \in [Streams -> StreamType]
      BY <1>1, <2>1, <2>6, <2>7
    <3>2. ctx \in [Sessions -> CtxType] /\ publisher \in [Http -> Sessions \cup {None}]
          /\ timer \in [Sessions -> BOOLEAN]
      BY DEF LiveInv, TypeOK
    <3> QED
      BY <2>6, <3>1, <3>2 DEF Worlds
  <2>9. /\ \A u \in Streams \ {t} : v.stream[u] = stream[u]
        /\ v.stream[t] = NewStream(n) /\ v.table[n] = t
    BY <1>1, <2>6
  <2>10. /\ v.stream[t].name = n /\ v.stream[t].list = stream[t].list
         /\ v.stream[t].pub = stream[t].pub /\ v.stream[t].active = stream[t].active
    <3>1. /\ NewStream(n).name = n /\ NewStream(n).list = <<>>
          /\ NewStream(n).pub = None /\ NewStream(n).active = FALSE
      BY DEF NewStream
    <3> QED
      BY <2>4, <2>9, <3>1
  <2>11. Found(v, n, t)
    BY <1>3, <2>1, <2>2, <2>6, <2>8, <2>9, <2>10 DEF Found
  <2> QED
    BY <2>4, <2>9, <2>11
<1> QED
  BY <1>2, <1>3

LEMMA FoundAccounted ==
  ASSUME LiveInv, NEW n \in Names, NEW t \in Streams, NEW v, Found(v, n, t),
         table' = v.table, free' = v.free,
         \A u \in Streams : stream'[u].name = v.stream[u].name,
         \A u \in Streams \ {t} :
           stream'[u].list = stream[u].list /\ stream'[u].pub = stream[u].pub
  PROVE  /\ StreamsAccounted'
         /\ t \in Range(free) \/ table[n] = t
<1>1. /\ \A u \in Streams \ {t} : stream'[u].name = stream[u].name
      /\ stream'[t].name = n
  BY DEF Found
<1>2. /\ table \in [Names -> Streams \cup {None}] /\ free \in Seq(Streams)
      /\ IsInjective(free)
      /\ \A u \in Streams : u \in Range(free) <=> \A m \in Names : table[m] # u
      /\ \A m \in Names : table[m] # None => table[m] \in Streams /\ stream[table[m]].name = m
      /\ \A u \in Range(free) : u \in Streams /\ stream[u].list = <<>> /\ stream[u].pub = None
  BY DEF LiveInv, TypeOK, StreamsAccounted, Range
<1>3. CASE table[n] = t /\ v.table = table /\ v.free = free
  <2>1. \A m \in Names : table[m] = t => m = n
    BY <1>2, <1>3, ConstantsAssumption
  <2>2. t \notin Range(free)
    BY <1>2, <1>3
  <2>3. \A m \in Names : table[m] # None => stream'[table[m]].name = m
    BY <1>1, <1>2, <2>1
  <2>4. \A u \in Range(free) : stream'[u].list = <<>> /\ stream'[u].pub = None
    BY <1>2, <2>2
  <2> QED
    BY <1>2, <1>3, <2>3, <2>4 DEF StreamsAccounted
<1>4. CASE /\ table[n] = None /\ free # <<>> /\ Head(free) = t
           /\ v.table = [table EXCEPT ![n] = t] /\ v.free = Tail(free)
  <2>1. /\ IsInjective(free') /\ t \in Range(free) /\ Range(free') = Range(free) \ {t}
    BY <1>2, <1>4, TailOfInjective
  <2>2. \A m \in Names : table'[m] = IF m = n THEN t ELSE table[m]
    BY <1>2, <1>4
  <2>3. \A m \in Names : table[m] # t
    BY <1>2, <2>1
  <2>4. ASSUME NEW u \in Streams
        PROVE  u \in Range(free') <=> \A m \in Names : table'[m] # u
    <3>1. CASE u = t
      BY <2>1, <2>2, <3>1
    <3>2. CASE u # t
      BY <1>2, <1>4, <2>1, <2>2, <3>2, ConstantsAssumption
    <3> QED
      BY <3>1, <3>2
  <2>5. \A m \in Names : table'[m] # None => stream'[table'[m]].name = m
    BY <1>1, <1>2, <2>2, <2>3
  <2>6. \A u \in Range(free') : stream'[u].list = <<>> /\ stream'[u].pub = None
    BY <1>2, <2>1
  <2> QED
    BY <2>1, <2>4, <2>5, <2>6 DEF StreamsAccounted
<1> QED
  BY <1>3, <1>4 DEF Found

LEMMA FoundOnly ==
  ASSUME LiveInv, OneName, NEW n \in Names, NEW t \in Streams, NEW v, Found(v, n, t),
         table' = v.table, free' = v.free
  PROVE  /\ OnlyStream(t)'
         /\ \A y \in Streams : OnlyStream(y) => OnlyStream(y)'
<1>1. \A m \in Names : m = n
  BY DEF OneName
<1>2. table'[n] = t
  BY DEF Found, LiveInv, TypeOK
<1>3. OnlyStream(t)'
  BY <1>1, <1>2 DEF OnlyStream
<1>4. \A y \in Streams : OnlyStream(y) => y = t
  BY ConstantsAssumption DEF OnlyStream, Found
<1> QED
  BY <1>3, <1>4

\* Session s has joined stream t, that the name n finds.
Entered(v, s, n, t, P) ==
  /\ Found(v, n, t) /\ LifeTyped
  /\ table' = v.table /\ free' = v.free /\ timer' = timer
  /\ ctx' \in [Sessions -> CtxType] /\ publisher' \in [Http -> Sessions \cup {None}]
  /\ stream' \in [Streams -> StreamType]
  /\ open'[s] /\ ctx'[s].stream = t /\ ctx'[s].publishing = P
  /\ \A x \in Sessions \ {s} :
       ctx'[x] = ctx[x] /\ open'[x] = open[x] /\ (destroyed[x] => destroyed'[x])
  /\ \A x \in Http \ {s} : publisher'[x] = publisher[x]
  /\ \A u \in Streams \ {t} : stream'[u] = stream[u]
  /\ stream'[t].name = n /\ stream'[t].list = <<s>> \o stream[t].list
  /\ stream'[t].pub = IF P THEN s ELSE stream[t].pub
  /\ stream'[t].active = stream[t].active
  /\ P => s \in Rtmp /\ ~ctx'[s].active /\ stream[t].pub = None
  /\ s \in Http => ctx'[s].active = stream[t].active /\ publisher'[s] = stream[t].pub
  /\ s \in Rtmp /\ ~P => conf.idle \/ stream[t].pub # None

LEMMA EnteredStep ==
  ASSUME Http = {} \/ OneName, LiveInv, NEW s \in Sessions, ~Joined(s),
         NEW n \in Names, NEW t \in Streams, NEW P \in BOOLEAN, NEW v,
         Entered(v, s, n, t, P)
  PROVE  LiveInv'
<1>1. /\ LifeTyped /\ Found(v, n, t)
      /\ open'[s] /\ ctx'[s].stream = t /\ ctx'[s].publishing = P
      /\ \A x \in Sessions \ {s} :
           ctx'[x] = ctx[x] /\ open'[x] = open[x] /\ (destroyed[x] => destroyed'[x])
      /\ \A u \in Streams \ {t} : stream'[u] = stream[u]
      /\ stream'[t].pub = IF P THEN s ELSE stream[t].pub
      /\ stream'[t].active = stream[t].active
      /\ P => s \in Rtmp /\ ~ctx'[s].active /\ stream[t].pub = None
      /\ timer' = timer
  BY DEF Entered
<1>2. Rtmp \subseteq Sessions /\ Http \subseteq Sessions /\ None \notin Sessions
  BY ConstantsAssumption DEF Sessions
<1>3. /\ \A u \in Streams : \A x \in Members(u) :
           x \in Sessions \ {s} /\ ctx[x].stream = u /\ Joined(x) /\ open[x]
      /\ \A u \in Streams \ {t} : Members(u)' = Members(u)
      /\ Members(t)' = Members(t) \cup {s} /\ IsInjective(stream'[t].list)
  <2>1. \A u \in Streams : \A x \in Members(u) :
          x \in Sessions \ {s} /\ ctx[x].stream = u /\ Joined(x) /\ open[x]
    BY MemberJoined
  <2>2. \A u \in Streams \ {t} : Members(u)' = Members(u)
    BY <1>1 DEF Members
  <2>3. /\ stream[t].list \in Seq(Sessions) /\ IsInjective(stream[t].list)
        /\ s \notin Range(stream[t].list)
    BY <2>1 DEF LiveInv, TypeOK, StreamType, MembersOpen, Members
  <2>4. stream'[t].list = <<s>> \o stream[t].list
    BY DEF Entered
  <2>5. /\ Range(stream'[t].list) = Range(stream[t].list) \cup {s}
        /\ IsInjective(stream'[t].list)
    BY <2>3, <2>4, PrependNew
  <2> QED
    BY <2>1, <2>2, <2>5 DEF Members
<1>4. \A x \in Sessions \ {s} : Joined(x)' <=> Joined(x)
  BY <1>1 DEF Joined
<1>5. TypeOK'
  <2>1. timer \in [Sessions -> BOOLEAN] /\ conf \in Configurations
    BY DEF LiveInv, TypeOK
  <2> QED
    BY <2>1 DEF Entered, Found, Worlds, TypeOK, LifeTyped
<1>6. StreamsAccounted'
  <2>1. table' = v.table /\ free' = v.free
    BY DEF Entered
  <2>2. \A u \in Streams : stream'[u].name = v.stream[u].name
    BY DEF Entered, Found
  <2> QED
    BY <1>1, <2>1, <2>2, FoundAccounted
<1>7. MembersOpen'
  <2> SUFFICES ASSUME NEW u \in Streams
               PROVE  /\ IsInjective(stream'[u].list)
                      /\ \A x \in Rtmp : ctx'[x].stream = u <=> x \in Members(u)'
                      /\ \A x \in Members(u)' :
                           /\ open'[x] /\ ctx'[x].stream = u
                           /\ ctx'[x].publishing <=> stream'[u].pub = x
                      /\ stream'[u].pub # None => stream'[u].pub \in Members(u)'
    BY DEF MembersOpen
  <2>1. /\ IsInjective(stream[u].list)
        /\ \A x \in Rtmp : ctx[x].stream = u <=> x \in Members(u)
        /\ \A x \in Members(u) :
             /\ open[x] /\ ctx[x].stream = u
             /\ ctx[x].publishing <=> stream[u].pub = x
        /\ stream[u].pub # None => stream[u].pub \in Members(u)
    BY DEF LiveInv, MembersOpen
  <2>2. CASE u # t
    <3>1. stream'[u] = stream[u] /\ Members(u)' = Members(u)
      BY <1>1, <1>3, <2>2
    <3>2. \A x \in Rtmp : ctx'[x].stream = u <=> x \in Members(u)
      BY <1>1, <1>2, <1>3, <2>1, <2>2
    <3>3. \A x \in Members(u) :
            /\ open'[x] /\ ctx'[x].stream = u
            /\ ctx'[x].publishing <=> stream'[u].pub = x
      BY <1>1, <1>3, <2>1, <3>1
    <3> QED
      BY <2>1, <3>1, <3>2, <3>3
  <2>3. CASE u = t
    <3>1. \A x \in Rtmp : ctx'[x].stream = t <=> x \in Members(t)'
      BY <1>1, <1>2, <1>3, <2>1, <2>3
    <3>2. ASSUME NEW x \in Members(t)'
          PROVE  /\ open'[x] /\ ctx'[x].stream = t
                 /\ ctx'[x].publishing <=> stream'[t].pub = x
      <4>1. CASE x = s
        <5>1. stream[t].pub # s
          BY <1>2, <1>3, <2>1, <2>3
        <5> QED
          BY <1>1, <4>1, <5>1
      <4>2. CASE x # s
        <5>1. x \in Members(t) /\ x \in Sessions \ {s} /\ x # None
          BY <1>2, <1>3, <4>2
        <5>2. /\ open[x] /\ ctx[x].stream = t
              /\ ctx[x].publishing <=> stream[t].pub = x
          BY <2>1, <2>3, <5>1
        <5> QED
          BY <1>1, <4>2, <5>1, <5>2
      <4> QED
        BY <4>1, <4>2
    <3>3. stream'[t].pub # None => stream'[t].pub \in Members(t)'
      BY <1>1, <1>3, <2>1, <2>3
    <3> QED
      BY <1>3, <2>3, <3>1, <3>2, <3>3
  <2> QED
    BY <2>2, <2>3
<1>8. OrphansFinalized'
  <2> SUFFICES ASSUME ~conf.idle, NEW x \in Rtmp, Joined(x)',
                      stream'[ctx'[x].stream].pub = None
               PROVE  destroyed'[x]
    BY <1>1 DEF OrphansFinalized, LifeTyped
  <2>1. CASE x = s
    <3>1. stream'[t].pub = None
      BY <1>1, <2>1
    <3>2. ~P /\ stream[t].pub = None
      BY <1>1, <1>2, <3>1
    <3> QED
      BY <2>1, <3>2 DEF Entered
  <2>2. CASE x # s
    <3>1. /\ x \in Sessions \ {s} /\ Joined(x) /\ ctx'[x].stream = ctx[x].stream
          /\ destroyed[x] => destroyed'[x]
      BY <1>1, <1>2, <1>4, <2>2
    <3>2. ctx[x].stream \in Streams
      BY <3>1 DEF LiveInv, TypeOK, CtxType, Joined
    <3>3. stream[ctx[x].stream].pub = None
      BY <1>1, <1>2, <3>1, <3>2
    <3> QED
      BY <3>1, <3>3 DEF LiveInv, OrphansFinalized
  <2> QED
    BY <2>1, <2>2
<1>9. IdleTimerSound'
  <2> SUFFICES ASSUME NEW x \in Rtmp
               PROVE  /\ timer'[x] => /\ open'[x] /\ Joined(x)' /\ ctx'[x].publishing
                                      /\ ctx'[x].active
                      /\ conf.drop /\ Joined(x)' /\ ctx'[x].publishing /\ ctx'[x].active =>
                           timer'[x] \/ destroyed'[x]
    BY <1>1 DEF IdleTimerSound, LifeTyped
  <2>1. /\ timer[x] => open[x] /\ Joined(x) /\ ctx[x].publishing /\ ctx[x].active
        /\ conf.drop /\ Joined(x) /\ ctx[x].publishing /\ ctx[x].active =>
             timer[x] \/ destroyed[x]
    BY DEF LiveInv, IdleTimerSound
  <2>2. CASE x = s
    BY <1>1, <2>1, <2>2
  <2>3. CASE x # s
    <3>1. x \in Sessions \ {s}
      BY <1>2, <2>3
    <3>2. /\ open'[x] = open[x] /\ (Joined(x)' <=> Joined(x)) /\ ctx'[x] = ctx[x]
          /\ destroyed[x] => destroyed'[x]
      BY <1>1, <1>4, <3>1
    <3> QED
      BY <1>1, <2>1, <3>2
  <2> QED
    BY <2>2, <2>3
<1>10. StatusOK'
  <2> SUFFICES ASSUME NEW u \in Streams
               PROVE  /\ stream'[u].pub = None => ~stream'[u].active
                      /\ stream'[u].pub # None =>
                           ctx'[stream'[u].pub].active = stream'[u].active
    BY DEF StatusOK
  <2>1. CASE u = t /\ P
    <3>1. ~stream[t].active /\ stream[t].active \in BOOLEAN /\ ctx'[s].active \in BOOLEAN
      BY <1>1, <1>5, <2>1 DEF LiveInv, StatusOK, TypeOK, StreamType, CtxType
    <3> QED
      BY <1>1, <1>2, <2>1, <3>1
  <2>2. CASE ~(u = t /\ P)
    <3>1. stream'[u].pub = stream[u].pub /\ stream'[u].active = stream[u].active
      BY <1>1, <2>2
    <3>2. stream[u].pub # None => stream[u].pub \in Sessions \ {s}
      BY <1>3 DEF LiveInv, MembersOpen
    <3> QED
      BY <1>1, <3>1, <3>2 DEF LiveInv, StatusOK
  <2> QED
    BY <2>1, <2>2
<1>11. HttpFollows'
  <2> SUFFICES ASSUME NEW u \in Streams, NEW x \in Members(u)' \cap Http
               PROVE  /\ ctx'[x].active = stream'[u].active
                      /\ stream'[u].active => /\ publisher'[x] = stream'[u].pub
                                              /\ open'[publisher'[x]]
    BY DEF HttpFollows
  <2>1. stream'[u].active => stream'[u].pub # None /\ open'[stream'[u].pub]
    BY <1>7, <1>10 DEF MembersOpen, StatusOK
  <2>2. stream'[u].active => ~(u = t /\ P)
    BY <1>1 DEF LiveInv, StatusOK
  <2>3. CASE x = s
    <3>1. u = t /\ ~P
      BY <1>1, <1>3, <2>3, ConstantsAssumption
    <3> QED
      BY <1>1, <2>1, <2>3, <3>1 DEF Entered
  <2>4. CASE x # s
    <3>1. x \in Members(u) /\ ctx'[x] = ctx[x] /\ publisher'[x] = publisher[x]
      BY <1>1, <1>2, <1>3, <2>4 DEF Entered
    <3>2. /\ ctx[x].active = stream[u].active
          /\ stream[u].active => publisher[x] = stream[u].pub
      BY <3>1 DEF LiveInv, HttpFollows
    <3>3. stream'[u].active = stream[u].active
      BY <1>1
    <3>4. stream'[u].active => stream'[u].pub = stream[u].pub
      BY <1>1, <2>2
    <3> QED
      BY <2>1, <3>1, <3>2, <3>3, <3>4
  <2> QED
    BY <2>3, <2>4
<1>12. HttpOK'
  <2> SUFFICES ASSUME NEW x \in Http
               PROVE  /\ ~ctx'[x].publishing
                      /\ Joined(x)' => /\ open'[x]
                                       /\ x \in Members(ctx[x].stream)' \/ ~ctx'[x].active
                                       /\ OnlyStream(ctx[x].stream)'
    BY DEF HttpOK
  <2>1. /\ OnlyStream(t)'
        /\ \A y \in Streams : OnlyStream(y) => OnlyStream(y)'
    <3>1. OneName /\ table' = v.table /\ free' = v.free
      BY DEF Entered
    <3> QED
      BY <1>1, <3>1, FoundOnly
  <2>2. CASE x = s
    <3>1. ~P
      BY <1>1, <2>2, ConstantsAssumption
    <3>2. s \in Members(ctx[s].stream)' <=> s \in Members(t)'
      BY <1>1 DEF Members
    <3>3. OnlyStream(ctx[s].stream)' <=> OnlyStream(t)'
      BY <1>1 DEF OnlyStream
    <3> QED
      BY <1>1, <1>3, <2>1, <2>2, <3>1, <3>2, <3>3
  <2>3. CASE x # s
    <3>1. /\ x \in Sessions \ {s} /\ ctx'[x] = ctx[x] /\ open'[x] = open[x]
          /\ Joined(x)' <=> Joined(x)
      BY <1>1, <1>2, <1>4, <2>3
    <3>2. ~ctx'[x].publishing
      BY <3>1 DEF LiveInv, HttpOK
    <3>3. ASSUME Joined(x)'
          PROVE  /\ open'[x]
                 /\ x \in Members(ctx[x].stream)' \/ ~ctx'[x].active
                 /\ OnlyStream(ctx[x].stream)'
      <4>0. PICK y \in Streams : y = ctx[x].stream
        BY <3>1, <3>3 DEF LiveInv, TypeOK, CtxType, Joined
      <4>1. /\ open[x] /\ OnlyStream(y)
            /\ x \in Members(y) \/ ~ctx[x].active
        BY <3>1, <3>3, <4>0 DEF LiveInv, HttpOK
      <4>2. x \in Members(y)' \/ ~ctx'[x].active
        BY <1>3, <3>1, <4>1
      <4>3. OnlyStream(y)'
        BY <2>1, <4>1
      <4>4. x \in Members(ctx[x].stream)' <=> x \in Members(y)'
        BY <3>1, <4>0 DEF Members
      <4>5. OnlyStream(ctx[x].stream)' <=> OnlyStream(y)'
        BY <3>1, <4>0 DEF OnlyStream
      <4> QED
        BY <3>1, <4>1, <4>2, <4>3, <4>4, <4>5
    <3> QED
      BY <3>2, <3>3, Zenon
  <2> QED
    BY <2>2, <2>3
<1>13. ReaderOK'
  BY <1>1 DEF LifeTyped, ReaderOK
<1> QED
  BY <1>5, <1>6, <1>7, <1>8, <1>9, <1>10, <1>11, <1>12, <1>13 DEF LiveInv

\* A stream that is looked up and not joined.
LEMMA FoundStep ==
  ASSUME Http = {} \/ OneName, LiveInv, NEW n \in Names, NEW t \in Streams,
         NEW v, Found(v, n, t), SetWorld(v), UNCHANGED <<conf, life, reader>>
  PROVE  LiveInv'
<1>1. /\ UNCHANGED <<conf, open, destroyed, posted, reader, ctx, publisher, timer>>
      /\ table' = v.table /\ free' = v.free /\ stream' = v.stream
      /\ v \in Worlds
      /\ \A u \in Streams : stream'[u].list = stream[u].list
           /\ stream'[u].pub = stream[u].pub /\ stream'[u].active = stream[u].active
  BY DEF Found, SetWorld
<1>2. \A u \in Streams : Members(u)' = Members(u)
  BY <1>1 DEF Members
<1>3. \A x \in Sessions : Joined(x)' <=> Joined(x)
  BY <1>1 DEF Joined
<1>4. Rtmp \subseteq Sessions /\ Http \subseteq Sessions
  BY DEF Sessions
<1>5. \A x \in Sessions : Joined(x) => ctx[x].stream \in Streams
  BY DEF LiveInv, TypeOK, CtxType, Joined
<1>6. TypeOK'
  BY <1>1 DEF LiveInv, TypeOK, Worlds
<1>7. StreamsAccounted'
  BY <1>1, FoundAccounted
<1>8. MembersOpen'
  BY <1>1, <1>2 DEF LiveInv, MembersOpen
<1>9. OrphansFinalized'
  BY <1>1, <1>3, <1>4, <1>5 DEF LiveInv, OrphansFinalized
<1>10. IdleTimerSound'
  BY <1>1, <1>3, <1>4 DEF LiveInv, IdleTimerSound
<1>11. HttpFollows'
  BY <1>1, <1>2 DEF LiveInv, HttpFollows
<1>12. StatusOK'
  BY <1>1 DEF LiveInv, StatusOK
<1>13. HttpOK'
  <2> SUFFICES ASSUME NEW x \in Http
               PROVE  /\ ~ctx'[x].publishing
                      /\ Joined(x)' => /\ open'[x]
                                       /\ x \in Members(ctx[x].stream)' \/ ~ctx'[x].active
                                       /\ OnlyStream(ctx[x].stream)'
    BY DEF HttpOK
  <2>1. \A y \in Streams : OnlyStream(y) => OnlyStream(y)'
    BY <1>1, FoundOnly
  <2>2. ~ctx'[x].publishing
    BY <1>1 DEF LiveInv, HttpOK
  <2>3. ASSUME Joined(x)'
        PROVE  /\ open'[x]
               /\ x \in Members(ctx[x].stream)' \/ ~ctx'[x].active
               /\ OnlyStream(ctx[x].stream)'
    <3>0. PICK y \in Streams : y = ctx[x].stream
      BY <1>3, <1>4, <1>5, <2>3
    <3>1. /\ open[x] /\ OnlyStream(y)
          /\ x \in Members(y) \/ ~ctx[x].active
      BY <1>3, <1>4, <2>3, <3>0 DEF LiveInv, HttpOK
    <3>2. x \in Members(ctx[x].stream)' <=> x \in Members(y)'
      BY <1>1, <3>0 DEF Members
    <3>3. OnlyStream(ctx[x].stream)' <=> OnlyStream(y)'
      BY <1>1, <3>0 DEF OnlyStream
    <3> QED
      BY <1>1, <1>2, <2>1, <3>1, <3>2, <3>3
  <2> QED
    BY <2>2, <2>3, Zenon
<1>14. ReaderOK'
  BY <1>1 DEF LiveInv, ReaderOK
<1> QED
  BY <1>6, <1>7, <1>8, <1>9, <1>10, <1>11, <1>12, <1>13, <1>14 DEF LiveInv

-----------------------------------------------------------------------------
(* Every action is one of these steps.                                     *)

\* Every step is of one of the five kinds.
StepKind ==
  \/ Quiet
  \/ \E s \in Rtmp, a \in BOOLEAN : Joined(s) /\ Switched(s, a)
  \/ \E s \in Sessions : \E v : Joined(s) /\ Departed(v, s)
  \/ \E s \in Sessions, n \in Names, t \in Streams, P \in BOOLEAN : \E v :
       ~Joined(s) /\ Entered(v, s, n, t, P)
  \/ \E n \in Names, t \in Streams : \E v :
       Found(v, n, t) /\ SetWorld(v) /\ UNCHANGED <<conf, life, reader>>

\* What finalising sessions does to the life variables.
Finalized(q) ==
  /\ destroyed' \in [Sessions -> BOOLEAN] /\ posted' \in Seq(Sessions)
  /\ \A x \in Sessions : (destroyed[x] => destroyed'[x])
                         /\ (x \in Range(q) => destroyed'[x])

LEMMA PostCloseStep ==
  ASSUME TypeOK, NEW q \in Seq(Sessions), PostClose(q)
  PROVE  Finalized(q)
<1>1. Kept(q, Sessions \ Range(posted)) \in Seq(Sessions)
  BY KeptProperties
<1>2. posted' \in Seq(Sessions)
  BY <1>1 DEF PostClose, TypeOK
<1> QED
  BY <1>2 DEF PostClose, TypeOK, Finalized

LEMMA FinalizeAllStep ==
  ASSUME TypeOK, NEW q \in Seq(Sessions), FinalizeAll(q)
  PROVE  Finalized(q)
<1>1. Kept(q, Alive) \in Seq(Sessions) /\ Range(Kept(q, Alive)) = Range(q) \cap Alive
  BY KeptProperties
<1>2. Finalized(Kept(q, Alive))
  BY <1>1, PostCloseStep DEF FinalizeAll
<1>3. Range(q) \subseteq Sessions
  BY DEF Range
<1> QED
  BY <1>1, <1>2, <1>3 DEF Finalized, Alive

LEMMA FinalizeSomeStep ==
  ASSUME TypeOK, NEW q \in Seq(Sessions), NEW set, FinalizeSome(q, set)
  PROVE  Finalized(<<>>)
<1>1. PICK r \in SUBSET set : FinalizeAll(Kept(q, r))
  BY DEF FinalizeSome
<1>2. Kept(q, r) \in Seq(Sessions)
  BY KeptProperties
<1>3. Finalized(Kept(q, r))
  BY <1>1, <1>2, FinalizeAllStep
<1>4. Range(<<>>) = {}
  <2>1. <<>> \in Seq({})
    OBVIOUS
  <2> QED
    BY <2>1, EmptyRange
<1> QED
  BY <1>3, <1>4 DEF Finalized

LEMMA StatusStep ==
  ASSUME LiveInv, NEW s \in Rtmp, Joined(s), NEW a \in BOOLEAN, NEW w \in Worlds,
         w.publisher = publisher, w.timer = timer, w.table = table, w.free = free,
         w.stream = stream,
         \A x \in Sessions : /\ w.ctx[x].stream = ctx[x].stream
                             /\ w.ctx[x].publishing = ctx[x].publishing
                             /\ w.ctx[x].active = ctx[x].active,
         SetWorld(SetStatus(w, s, a)), UNCHANGED <<conf, open, reader>>, Finalized(<<>>)
  PROVE  StepKind
<1>1. s \in Sessions /\ ctx[s].stream \in Streams /\ Joined(s)
  BY MemberInTable DEF Sessions
<1>2. /\ LifeTyped
      /\ \A x \in Sessions : open'[x] = open[x] /\ (destroyed[x] => destroyed'[x])
  BY DEF LiveInv, TypeOK, ReaderOK, LifeTyped, Finalized
<1>3. conf.drop \in BOOLEAN
  BY ConstantsAssumption DEF LiveInv, TypeOK, Configurations
<1>v. PICK v : v = SetStatus(w, s, a)
  OBVIOUS
<1>4. /\ ctx' = v.ctx /\ publisher' = v.publisher /\ timer' = v.timer
      /\ table' = v.table /\ free' = v.free /\ stream' = v.stream
  BY <1>v DEF SetWorld
<1>5. CASE w.ctx[s].active = a
  <2>1. v = w
    BY <1>5, <1>v DEF SetStatus
  <2>2. Quiet
    BY <1>2, <1>4, <2>1 DEF Quiet, Worlds
  <2> QED
    BY <2>2 DEF StepKind
<1>6. CASE w.ctx[s].active # a
  <2>1. PICK t \in Streams : t = ctx[s].stream
    BY <1>1
  <2>2. StatusSet(w, v, s, a, t)
    BY <1>1, <1>3, <1>6, <1>v, <2>1, SetStatusFields
  <2>3. Players(w, s) = Told(s)
    <3>1. \A x \in Members(t) : x \in Sessions
      BY MemberJoined
    <3> QED
      BY <1>1, <2>1, <3>1 DEF Players, Told, Members
  <2>4. /\ UNCHANGED <<table, free>>
        /\ ctx' \in [Sessions -> CtxType] /\ publisher' \in [Http -> Sessions \cup {None}]
        /\ timer' \in [Sessions -> BOOLEAN] /\ stream' \in [Streams -> StreamType]
    BY <1>4, <2>2 DEF StatusSet, Worlds
  <2>5. ASSUME NEW x \in Sessions
        PROVE  /\ ctx'[x].stream = ctx[x].stream /\ ctx'[x].publishing = ctx[x].publishing
               /\ ctx'[x].active = IF x \in Told(s) \cup {s} THEN a ELSE ctx[x].active
    BY <1>4, <2>2, <2>3 DEF StatusSet, SamePlaces
  <2>6. \A x \in Http : publisher'[x] = IF x \in Told(s) THEN s ELSE publisher[x]
    BY <1>4, <2>2, <2>3 DEF StatusSet
  <2>7. timer' = IF ctx[s].publishing THEN [timer EXCEPT ![s] = a /\ conf.drop] ELSE timer
    BY <1>1, <1>4, <2>2 DEF StatusSet, Timer
  <2>8. ASSUME NEW u \in Streams
        PROVE  /\ stream'[u].name = stream[u].name /\ stream'[u].list = stream[u].list
               /\ stream'[u].pub = stream[u].pub
               /\ stream'[u].active = IF u = ctx[s].stream /\ ctx[s].publishing
                                      THEN a ELSE stream[u].active
    <3>1. CASE u = t
      BY <1>1, <1>4, <2>1, <2>2, <3>1 DEF StatusSet
    <3>2. CASE u # t
      BY <1>4, <2>1, <2>2, <3>2 DEF StatusSet, SameStreams
    <3> QED
      BY <3>1, <3>2
  <2>9. Switched(s, a)
    BY <1>2, <2>4, <2>5, <2>6, <2>7, <2>8 DEF Switched
  <2> QED
    BY <2>9 DEF StepKind
<1> QED
  BY <1>5, <1>6

LEMMA PauseStep ==
  ASSUME LiveInv, NEW s \in Rtmp, NEW pause \in BOOLEAN, Pause(s, pause), conf' = conf
  PROVE  StepKind
<1>1. PICK w : w = [World EXCEPT !.ctx[s].paused = pause]
  OBVIOUS
<1>2. ctx \in [Sessions -> CtxType] /\ s \in Sessions
  BY DEF LiveInv, TypeOK, Sessions
<1>3. /\ w.publisher = publisher /\ w.timer = timer /\ w.table = table /\ w.free = free
      /\ w.stream = stream /\ w.ctx = [ctx EXCEPT ![s].paused = pause]
      /\ w = [ctx |-> w.ctx, publisher |-> publisher, timer |-> timer,
              table |-> table, free |-> free, stream |-> stream]
  BY <1>1 DEF World
<1>4. w.ctx \in [Sessions -> CtxType]
  BY <1>2, <1>3 DEF CtxType
<1>5. w \in Worlds
  BY <1>3, <1>4 DEF Worlds, LiveInv, TypeOK
<1>6. \A x \in Sessions : /\ w.ctx[x].stream = ctx[x].stream
                          /\ w.ctx[x].publishing = ctx[x].publishing
                          /\ w.ctx[x].active = ctx[x].active
  BY <1>2, <1>3 DEF CtxType
<1>7. PICK a \in BOOLEAN : a = ~pause
  OBVIOUS
<1>8. /\ SetWorld(SetStatus(w, s, a)) /\ UNCHANGED <<conf, open, reader>> /\ Joined(s)
      /\ \E q : FinalizeSome(<<s>> \o Without(w.stream[w.ctx[s].stream].list, s), q)
  BY <1>1, <1>7 DEF Pause, Switch
<1>9. Finalized(<<>>)
  <2>1. stream[ctx[s].stream].list \in Seq(Sessions)
    <3>1. ctx[s].stream \in Streams
      BY <1>2, <1>8, MemberInTable
    <3> QED
      BY <3>1 DEF LiveInv, TypeOK, StreamType
  <2>2. Without(w.stream[w.ctx[s].stream].list, s) \in Seq(Sessions)
    BY <1>2, <1>3, <1>6, <2>1, KeptProperties DEF Without
  <2>3. <<s>> \o Without(w.stream[w.ctx[s].stream].list, s) \in Seq(Sessions)
    BY <1>2, <2>2, PrependNew
  <2> QED
    BY <1>8, <2>3, FinalizeSomeStep DEF LiveInv
<1> QED
  BY <1>3, <1>5, <1>6, <1>8, <1>9, StatusStep

LEMMA StreamEventStep ==
  ASSUME LiveInv, NEW s \in Rtmp, NEW begin \in BOOLEAN, StreamEvent(s, begin),
         conf' = conf
  PROVE  StepKind
<1>1. /\ SetWorld(SetStatus(World, s, begin)) /\ UNCHANGED <<conf, open, reader>>
      /\ Joined(s) /\ s \in Sessions
      /\ \E q : FinalizeSome(<<s>> \o Without(World.stream[World.ctx[s].stream].list, s), q)
  BY DEF StreamEvent, Switch, Sessions
<1>2. World \in Worlds
  BY WorldType DEF LiveInv
<1>3. Finalized(<<>>)
  <2>1. stream[ctx[s].stream].list \in Seq(Sessions)
    <3>1. ctx[s].stream \in Streams
      BY <1>1, MemberInTable
    <3> QED
      BY <3>1 DEF LiveInv, TypeOK, StreamType
  <2>2. Without(World.stream[World.ctx[s].stream].list, s) \in Seq(Sessions)
    BY <2>1, KeptProperties, WorldFields DEF Without
  <2>3. <<s>> \o Without(World.stream[World.ctx[s].stream].list, s) \in Seq(Sessions)
    BY <1>1, <2>2, PrependNew
  <2> QED
    BY <1>1, <2>3, FinalizeSomeStep DEF LiveInv
<1> QED
  BY <1>1, <1>2, <1>3, WorldFields, StatusStep

LEMMA AudioVideoStep ==
  ASSUME LiveInv, NEW s \in Rtmp, AudioVideo(s), conf' = conf
  PROVE  StepKind
<1>1. PICK t \in Streams : t = ctx[s].stream
  BY MemberInTable DEF AudioVideo, Sessions
<1>2. UNCHANGED <<conf, open, reader>> /\ Joined(s)
  BY DEF AudioVideo
<1>3. Finalized(<<>>)
  <2>1. stream[t].list \in Seq(Sessions)
    BY DEF LiveInv, TypeOK, StreamType
  <2>2. PICK refused, failed :
          FinalizeAll(Kept(stream[t].list, refused) \o Kept(stream[t].list, failed))
    BY <1>1 DEF AudioVideo
  <2>3. /\ Kept(stream[t].list, refused) \in Seq(Sessions)
        /\ Kept(stream[t].list, failed) \in Seq(Sessions)
    BY <2>1, KeptProperties
  <2>4. Kept(stream[t].list, refused) \o Kept(stream[t].list, failed) \in Seq(Sessions)
    BY <2>3
  <2>5. Finalized(Kept(stream[t].list, refused) \o Kept(stream[t].list, failed))
    BY <2>2, <2>4, FinalizeAllStep DEF LiveInv
  <2>6. Range(<<>>) = {}
    <3>1. <<>> \in Seq({})
      OBVIOUS
    <3> QED
      BY <3>1, EmptyRange
  <2> QED
    BY <2>5, <2>6 DEF Finalized
<1>4. CASE ~stream[t].active
  <2>1. SetWorld(SetStatus(World, s, TRUE))
    BY <1>1, <1>4 DEF AudioVideo
  <2>2. World \in Worlds
    BY WorldType DEF LiveInv
  <2> QED
    BY <1>2, <1>3, <2>1, <2>2, WorldFields, StatusStep
<1>5. CASE stream[t].active
  <2>1. UNCHANGED world
    BY <1>1, <1>5, WorldFields DEF AudioVideo, SetWorld
  <2>2. Quiet
    BY <1>2, <1>3, <2>1 DEF LiveInv, TypeOK, ReaderOK, Quiet, LifeTyped, Finalized
  <2> QED
    BY <2>2 DEF StepKind
<1> QED
  BY <1>4, <1>5

LEMMA LifeStep ==
  ASSUME LiveInv, NEW s \in Sessions, conf' = conf,
         \/ Connect(s) \/ (BeginRecv(s) /\ s \in Rtmp) \/ EndRecv \/ RecvError
         \/ HangUp(s) \/ IdlePublisher(s)
  PROVE  StepKind
<1> USE DEF LiveInv
<1>1. \A q \in Seq(Sessions) : FinalizeAll(q) => Finalized(q)
  BY FinalizeAllStep
<1>2. <<s>> \in Seq(Sessions) /\ s \in Range(<<s>>)
  BY DEF Range
<1>3. CASE Connect(s)
  <2>1. Quiet
    BY <1>3 DEF Connect, TypeOK, ReaderOK, Quiet, LifeTyped
  <2> QED
    BY <2>1 DEF StepKind
<1>4. CASE BeginRecv(s) /\ s \in Rtmp
  <2>1. Quiet
    BY <1>4 DEF BeginRecv, TypeOK, ReaderOK, Quiet, LifeTyped
  <2> QED
    BY <2>1 DEF StepKind
<1>5. CASE EndRecv
  <2>1. Quiet
    BY <1>5 DEF EndRecv, TypeOK, ReaderOK, Quiet, LifeTyped
  <2> QED
    BY <2>1 DEF StepKind
<1>6. CASE RecvError
  <2>1. reader \in Sessions
    BY <1>6 DEF RecvError, TypeOK, Sessions
  <2>2. <<reader>> \in Seq(Sessions)
    BY <2>1
  <2>3. Finalized(<<reader>>)
    BY <1>1, <1>6, <2>2 DEF RecvError
  <2>4. Quiet
    BY <1>6, <2>3 DEF RecvError, TypeOK, ReaderOK, Quiet, LifeTyped, Finalized
  <2> QED
    BY <2>4 DEF StepKind
<1>7. CASE HangUp(s)
  <2>1. Finalized(<<s>>)
    BY <1>1, <1>2, <1>7 DEF HangUp
  <2>2. Quiet
    BY <1>7, <2>1 DEF HangUp, TypeOK, ReaderOK, Quiet, LifeTyped, Finalized
  <2> QED
    BY <2>2 DEF StepKind
<1>8. CASE IdlePublisher(s)
  <2>1. Finalized(<<s>>)
    BY <1>1, <1>2, <1>8 DEF IdlePublisher
  <2>2. destroyed'[s]
    BY <1>2, <2>1 DEF Finalized
  <2>3. /\ timer' \in [Sessions -> BOOLEAN] /\ timer' = [timer EXCEPT ![s] = FALSE]
        /\ timer \in [Sessions -> BOOLEAN]
    BY <1>8 DEF IdlePublisher, TypeOK
  <2>4. \A x \in Sessions : /\ timer'[x] => timer[x]
                            /\ timer[x] => timer'[x] \/ destroyed'[x]
    BY <2>2, <2>3
  <2>5. Quiet
    BY <1>8, <2>1, <2>3, <2>4
       DEF IdlePublisher, TypeOK, ReaderOK, Quiet, LifeTyped, Finalized
  <2> QED
    BY <2>5 DEF StepKind
<1> QED
  BY <1>3, <1>4, <1>5, <1>6, <1>7, <1>8

LEMMA RefusedStep ==
  ASSUME LiveInv, NEW s \in Rtmp, NEW n \in Names, conf' = conf,
         PublishRefused(s, n) \/ PlayNotFound(s, n)
  PROVE  StepKind
<1> USE DEF LiveInv
<1>1. /\ s \in Sessions /\ ~Joined(s) /\ ctx' = [ctx EXCEPT ![s] = NoCtx]
      /\ UNCHANGED <<open, reader, publisher, timer, table, free, stream>>
  BY DEF PublishRefused, PlayNotFound, Sessions
<1>2. Finalized(<<>>)
  <2>0. Range(<<>>) = {}
    <3>1. <<>> \in Seq({})
      OBVIOUS
    <3> QED
      BY <3>1, EmptyRange
  <2>1. CASE PublishRefused(s, n)
    BY <2>0, <2>1 DEF PublishRefused, Finalized, TypeOK
  <2>2. CASE PlayNotFound(s, n)
    <3>1. <<s>> \in Seq(Sessions)
      BY <1>1
    <3>2. Finalized(<<s>>)
      BY <2>2, <3>1, FinalizeAllStep DEF PlayNotFound
    <3> QED
      BY <2>0, <3>2 DEF Finalized
  <2> QED
    BY <2>1, <2>2
<1>3. /\ NoCtx \in CtxType /\ NoCtx.stream = None /\ NoCtx.publishing = FALSE
  BY DEF NoCtx, CtxType
<1>4. ctx \in [Sessions -> CtxType] /\ ctx[s].stream = None
  BY <1>1 DEF TypeOK, Joined
<1>5. /\ ctx' \in [Sessions -> CtxType]
      /\ \A x \in Sessions : /\ ctx'[x].stream = ctx[x].stream
                             /\ ctx'[x].publishing => ctx[x].publishing
                             /\ Joined(x) => ctx'[x] = ctx[x]
  BY <1>1, <1>3, <1>4
<1>6. Quiet
  BY <1>1, <1>2, <1>5 DEF TypeOK, ReaderOK, Quiet, LifeTyped, Finalized
<1> QED
  BY <1>6 DEF StepKind

\* The context of s has entered the list of t.
Linked(w, v, s, t, P) ==
  /\ v \in Worlds /\ v.table = w.table /\ v.free = w.free
  /\ v.publisher = w.publisher /\ v.timer = w.timer
  /\ SameStreams(w, v, t)
  /\ \A x \in Sessions \ {s} : v.ctx[x] = w.ctx[x]
  /\ v.ctx[s].stream = t /\ v.ctx[s].publishing = P /\ v.ctx[s].active = FALSE
  /\ v.stream[t].name = w.stream[t].name /\ v.stream[t].active = w.stream[t].active
  /\ v.stream[t].list = <<s>> \o w.stream[t].list
  /\ v.stream[t].pub = IF P THEN s ELSE w.stream[t].pub

LEMMA LinkFields ==
  ASSUME NEW w \in Worlds, NEW s \in Sessions, NEW t \in Streams, NEW P \in BOOLEAN,
         NEW v, v = Link(w, s, t, P)
  PROVE  Linked(w, v, s, t, P)
<1> DEFINE c == [NoCtx EXCEPT !.stream = t, !.publishing = P]
           list == <<s>> \o w.stream[t].list
           pub == IF P THEN s ELSE w.stream[t].pub
<1>1. /\ w.stream \in [Streams -> StreamType] /\ w.stream[t] \in StreamType
      /\ w.stream[t].list \in Seq(Sessions) /\ w.ctx \in [Sessions -> CtxType]
      /\ pub \in Sessions \cup {None}
  BY DEF Worlds, StreamType
<1>2. list \in Seq(Sessions)
  BY <1>1, PrependNew
<1>3. /\ c \in CtxType /\ c.stream = t /\ c.publishing = P /\ c.active = FALSE
  BY DEF NoCtx, CtxType
<1>4. v = [w EXCEPT !.ctx[s] = c, !.stream[t].list = list, !.stream[t].pub = pub]
  BY <1>1 DEF Link, Worlds, StreamType
<1> HIDE DEF c, list, pub
<1>5. /\ v.ctx = [w.ctx EXCEPT ![s] = c]
      /\ v.publisher = w.publisher /\ v.timer = w.timer
      /\ v.table = w.table /\ v.free = w.free
      /\ v.stream = [w.stream EXCEPT ![t].list = list, ![t].pub = pub]
      /\ v = [ctx |-> v.ctx, publisher |-> w.publisher, timer |-> w.timer,
              table |-> w.table, free |-> w.free, stream |-> v.stream]
  BY <1>4 DEF Worlds
<1>6. v.stream \in [Streams -> StreamType]
  <2>1. [w.stream[t] EXCEPT !.list = list, !.pub = pub] \in StreamType
    BY <1>1, <1>2 DEF StreamType
  <2>2. v.stream = [w.stream EXCEPT ![t] = [w.stream[t] EXCEPT !.list = list, !.pub = pub]]
    BY <1>1, <1>5
  <2> QED
    BY <1>1, <2>1, <2>2
<1>7. /\ v.ctx \in [Sessions -> CtxType] /\ v.ctx[s] = c
      /\ \A x \in Sessions \ {s} : v.ctx[x] = w.ctx[x]
  BY <1>1, <1>3, <1>5
<1>8. v \in Worlds
  BY <1>5, <1>6, <1>7 DEF Worlds
<1>9. SameStreams(w, v, t)
  BY <1>1, <1>5 DEF SameStreams
<1>10. /\ v.stream[t].name = w.stream[t].name /\ v.stream[t].active = w.stream[t].active
       /\ v.stream[t].list = list /\ v.stream[t].pub = pub
  BY <1>1, <1>5 DEF StreamType
<1> QED
  BY <1>3, <1>5, <1>7, <1>8, <1>9, <1>10 DEF Linked, list, pub

\* What the name n stands for when somebody joins it.
LEMMA PublisherFound ==
  ASSUME LiveInv, NEW n \in Names, NEW t \in Streams, NEW v, Found(v, n, t),
         table[n] = None => stream[t].pub = None
  PROVE  Published(n) <=> stream[t].pub # None
BY ConstantsAssumption DEF Found, Published

\* What ngx_rtmp_live_join makes of the current world.
Joins(w, v, s, n, t, P) ==
  /\ v \in Worlds /\ v.table = w.table /\ v.free = w.free /\ v.timer = timer
  /\ v.publisher = publisher
  /\ v.ctx[s].stream = t /\ v.ctx[s].publishing = P /\ v.ctx[s].active = FALSE
  /\ \A x \in Sessions \ {s} : v.ctx[x] = ctx[x]
  /\ \A u \in Streams \ {t} : v.stream[u] = stream[u]
  /\ v.stream[t].name = n /\ v.stream[t].list = <<s>> \o stream[t].list
  /\ v.stream[t].pub = IF P THEN s ELSE stream[t].pub
  /\ v.stream[t].active = stream[t].active

LEMMA LinkJoins ==
  ASSUME LiveInv, NEW s \in Sessions, NEW n \in Names, NEW t \in Streams,
         NEW P \in BOOLEAN, NEW w, Found(w, n, t), NEW v, v = Link(w, s, t, P)
  PROVE  Joins(w, v, s, n, t, P)
<1>1. w \in Worlds
  BY DEF Found
<1>2. Linked(w, v, s, t, P)
  BY <1>1, LinkFields
<1> QED
  BY <1>2 DEF Found, Linked, SameStreams, Joins

LEMMA PublishStep ==
  ASSUME LiveInv, NEW s \in Rtmp, NEW n \in Names,
         Publish(s, n), conf' = conf
  PROVE  StepKind
<1>w. PICK w : w = GetStream(World, n)
  OBVIOUS
<1>1. /\ reader = s /\ ~Joined(s) /\ ~Published(n) /\ CanGet(n)
      /\ SetWorld(Link(w, s, w.table[n], TRUE)) /\ UNCHANGED <<conf, life, reader>>
  BY <1>w DEF Publish
<1>2. /\ s \in Sessions /\ s \notin Http /\ open[s]
  BY <1>1, ConstantsAssumption DEF LiveInv, ReaderOK, Sessions
<1>3. PICK t \in Streams : /\ t = w.table[n] /\ Found(w, n, t)
                           /\ table[n] = None => stream[t].pub = None
  BY <1>1, <1>w, StreamFound
<1>4. PICK v : v = Link(w, s, t, TRUE)
  OBVIOUS
<1>5. Joins(w, v, s, n, t, TRUE)
  BY <1>2, <1>3, <1>4, LinkJoins
<1>6. stream[t].pub = None
  BY <1>1, <1>3, PublisherFound
<1>7. /\ ctx' = v.ctx /\ publisher' = v.publisher /\ timer' = v.timer
      /\ table' = v.table /\ free' = v.free /\ stream' = v.stream
  BY <1>1, <1>3, <1>4 DEF SetWorld
<1>8. LifeTyped
  BY <1>1 DEF LiveInv, TypeOK, ReaderOK, LifeTyped
<1>9. /\ v \in Worlds /\ v.table = w.table /\ v.free = w.free /\ v.timer = timer
      /\ v.publisher = publisher
      /\ v.ctx[s].stream = t /\ v.ctx[s].publishing = TRUE /\ v.ctx[s].active = FALSE
      /\ \A x \in Sessions \ {s} : v.ctx[x] = ctx[x]
      /\ \A u \in Streams \ {t} : v.stream[u] = stream[u]
      /\ v.stream[t].name = n /\ v.stream[t].list = <<s>> \o stream[t].list
      /\ v.stream[t].pub = s /\ v.stream[t].active = stream[t].active
  BY <1>5 DEF Joins
<1>10. Entered(w, s, n, t, TRUE)
  BY <1>1, <1>2, <1>3, <1>6, <1>7, <1>8, <1>9 DEF Entered, Worlds
<1> QED
  BY <1>1, <1>2, <1>10 DEF StepKind

LEMMA PlayStep ==
  ASSUME LiveInv, NEW s \in Rtmp, NEW n \in Names,
         Play(s, n), conf' = conf
  PROVE  StepKind
<1>w. PICK w : w = GetStream(World, n)
  OBVIOUS
<1>1. /\ reader = s /\ ~Joined(s) /\ ~NotFound(n) /\ CanGet(n)
      /\ IF w.stream[w.table[n]].active
         THEN Switch(Link(w, s, w.table[n], FALSE), s, TRUE)
         ELSE SetWorld(Link(w, s, w.table[n], FALSE)) /\ UNCHANGED <<destroyed, posted>>
      /\ UNCHANGED <<conf, open, reader>>
  BY <1>w DEF Play
<1>2. /\ s \in Sessions /\ s \notin Http /\ open[s]
      /\ conf.drop \in BOOLEAN
  BY <1>1, ConstantsAssumption
     DEF LiveInv, ReaderOK, Sessions, TypeOK, Configurations
<1>3. PICK t \in Streams : /\ t = w.table[n] /\ Found(w, n, t)
                           /\ table[n] = None => stream[t].pub = None
  BY <1>1, <1>w, StreamFound
<1>4. PICK l : l = Link(w, s, t, FALSE)
  OBVIOUS
<1>5. Joins(w, l, s, n, t, FALSE)
  BY <1>2, <1>3, <1>4, LinkJoins
<1>6. conf.idle \/ stream[t].pub # None
  BY <1>1, <1>3, PublisherFound DEF NotFound
<1>7. /\ l \in Worlds /\ l.table = w.table /\ l.free = w.free /\ l.timer = timer
      /\ l.publisher = publisher
      /\ l.ctx[s].stream = t /\ l.ctx[s].publishing = FALSE /\ l.ctx[s].active = FALSE
      /\ \A x \in Sessions \ {s} : l.ctx[x] = ctx[x]
      /\ \A u \in Streams \ {t} : l.stream[u] = stream[u]
      /\ l.stream[t].name = n /\ l.stream[t].list = <<s>> \o stream[t].list
      /\ l.stream[t].pub = stream[t].pub /\ l.stream[t].active = stream[t].active
  BY <1>5 DEF Joins
<1>8. CASE ~w.stream[t].active
  <2>1. /\ ctx' = l.ctx /\ publisher' = l.publisher /\ timer' = l.timer
        /\ table' = l.table /\ free' = l.free /\ stream' = l.stream
        /\ UNCHANGED <<destroyed, posted>>
    BY <1>1, <1>3, <1>4, <1>8 DEF SetWorld
  <2>2. LifeTyped
    BY <1>1, <2>1 DEF LiveInv, TypeOK, ReaderOK, LifeTyped
  <2>3. Entered(w, s, n, t, FALSE)
    BY <1>1, <1>2, <1>3, <1>6, <1>7, <2>1, <2>2 DEF Entered, Worlds
  <2> QED
    BY <1>1, <1>2, <2>3 DEF StepKind
<1>9. CASE w.stream[t].active
  <2>1. PICK v : v = SetStatus(l, s, TRUE)
    OBVIOUS
  <2>2. StatusSet(l, v, s, TRUE, t)
    BY <1>2, <1>7, <2>1, SetStatusFields
  <2>3. Players(l, s) = {}
    BY <1>7 DEF Players
  <2>4. /\ ctx' = v.ctx /\ publisher' = v.publisher /\ timer' = v.timer
        /\ table' = v.table /\ free' = v.free /\ stream' = v.stream
        /\ \E q : FinalizeSome(<<s>> \o Without(l.stream[t].list, s), q)
    BY <1>1, <1>3, <1>4, <1>7, <1>9, <2>1 DEF Switch, SetWorld
  <2>5. Finalized(<<>>)
    <3>1. Without(l.stream[t].list, s) \in Seq(Sessions)
      BY <1>7, KeptProperties DEF Without, Worlds, StreamType
    <3>2. <<s>> \o Without(l.stream[t].list, s) \in Seq(Sessions)
      BY <1>2, <3>1, PrependNew
    <3> QED
      BY <2>4, <3>2, FinalizeSomeStep DEF LiveInv
  <2>6. LifeTyped
    BY <1>1, <2>5 DEF LiveInv, TypeOK, ReaderOK, LifeTyped, Finalized
  <2>7. /\ v \in Worlds /\ v.table = w.table /\ v.free = w.free /\ v.timer = timer
    BY <1>7, <2>2 DEF StatusSet, Timer
  <2>8. /\ v.ctx[s].stream = t /\ v.ctx[s].publishing = FALSE
        /\ \A x \in Sessions \ {s} : v.ctx[x] = ctx[x]
    BY <1>2, <1>7, <2>2, <2>3 DEF StatusSet, SamePlaces
  <2>9. \A x \in Http : v.publisher[x] = publisher[x]
    BY <1>7, <2>2, <2>3 DEF StatusSet
  <2>10. /\ \A u \in Streams \ {t} : v.stream[u] = stream[u]
         /\ v.stream[t].name = n /\ v.stream[t].list = <<s>> \o stream[t].list
         /\ v.stream[t].pub = stream[t].pub /\ v.stream[t].active = stream[t].active
    BY <1>7, <2>2 DEF StatusSet, SameStreams
  <2>11. \A x \in Sessions : open'[x] = open[x] /\ (destroyed[x] => destroyed'[x])
    BY <1>1, <2>5 DEF Finalized
  <2>12. Entered(w, s, n, t, FALSE)
    BY <1>2, <1>3, <1>6, <2>4, <2>6, <2>7, <2>8, <2>9, <2>10, <2>11 DEF Entered, Worlds
  <2> QED
    BY <1>1, <1>2, <2>12 DEF StepKind
<1> QED
  BY <1>8, <1>9

LEMMA HttpPlayStep ==
  ASSUME LiveInv, NEW s \in Http, NEW n \in Names,
         HttpPlay(s, n), conf' = conf
  PROVE  StepKind
<1>w. PICK w : w = GetStream(World, n)
  OBVIOUS
<1>1. /\ reader = None /\ ~open[s] /\ CanGet(n)
      /\ SetWorld([Link(w, s, w.table[n], FALSE) EXCEPT
                     !.ctx[s].active = w.stream[w.table[n]].active,
                     !.publisher[s] = w.stream[w.table[n]].pub])
      /\ open' = [open EXCEPT ![s] = TRUE]
      /\ UNCHANGED <<conf, destroyed, posted, reader>>
  BY <1>w DEF HttpPlay
<1>2. /\ s \in Sessions /\ s \notin Rtmp /\ ~Joined(s)
  BY <1>1, ConstantsAssumption DEF LiveInv, HttpOK, Sessions
<1>3. PICK t \in Streams : /\ t = w.table[n] /\ Found(w, n, t)
                           /\ table[n] = None => stream[t].pub = None
  BY <1>1, <1>w, StreamFound
<1>4. PICK l : l = Link(w, s, t, FALSE)
  OBVIOUS
<1>5. Joins(w, l, s, n, t, FALSE)
  BY <1>2, <1>3, <1>4, LinkJoins
<1>6. /\ w.stream[t].active = stream[t].active /\ w.stream[t].pub = stream[t].pub
  BY <1>3 DEF Found
<1>7. /\ l \in Worlds /\ l.table = w.table /\ l.free = w.free /\ l.timer = timer
      /\ l.publisher = publisher
      /\ l.ctx[s].stream = t /\ l.ctx[s].publishing = FALSE /\ l.ctx[s].active = FALSE
      /\ \A x \in Sessions \ {s} : l.ctx[x] = ctx[x]
      /\ \A u \in Streams \ {t} : l.stream[u] = stream[u]
      /\ l.stream[t].name = n /\ l.stream[t].list = <<s>> \o stream[t].list
      /\ l.stream[t].pub = stream[t].pub /\ l.stream[t].active = stream[t].active
  BY <1>5 DEF Joins
<1>8. PICK v : v = [l EXCEPT !.ctx[s].active = stream[t].active,
                             !.publisher[s] = stream[t].pub]
  OBVIOUS
<1>9. /\ ctx' = v.ctx /\ publisher' = v.publisher /\ timer' = v.timer
      /\ table' = v.table /\ free' = v.free /\ stream' = v.stream
  BY <1>1, <1>3, <1>4, <1>6, <1>8 DEF SetWorld
<1>10. /\ v.ctx = [l.ctx EXCEPT ![s].active = stream[t].active]
       /\ v.publisher = [l.publisher EXCEPT ![s] = stream[t].pub]
       /\ v.timer = l.timer /\ v.table = l.table /\ v.free = l.free /\ v.stream = l.stream
  BY <1>7, <1>8 DEF Worlds
<1>11. /\ stream[t].active \in BOOLEAN /\ stream[t].pub \in Sessions \cup {None}
       /\ l.ctx \in [Sessions -> CtxType] /\ l.stream \in [Streams -> StreamType]
       /\ l.publisher \in [Http -> Sessions \cup {None}]
  BY <1>7 DEF LiveInv, TypeOK, StreamType, Worlds
<1>12. /\ ctx' \in [Sessions -> CtxType]
       /\ ctx'[s].stream = t /\ ctx'[s].publishing = FALSE
       /\ ctx'[s].active = stream[t].active
       /\ \A x \in Sessions \ {s} : ctx'[x] = ctx[x]
  BY <1>2, <1>7, <1>9, <1>10, <1>11 DEF CtxType
<1>13. /\ publisher' \in [Http -> Sessions \cup {None}]
       /\ publisher'[s] = stream[t].pub
       /\ \A x \in Http \ {s} : publisher'[x] = publisher[x]
  BY <1>7, <1>9, <1>10, <1>11
<1>14. /\ open' \in [Sessions -> BOOLEAN] /\ open'[s]
       /\ \A x \in Sessions \ {s} : open'[x] = open[x]
  BY <1>1, <1>2 DEF LiveInv, TypeOK
<1>15. LifeTyped
  BY <1>1, <1>14 DEF LiveInv, TypeOK, LifeTyped
<1>16. /\ table' = w.table /\ free' = w.free /\ timer' = timer
       /\ stream' \in [Streams -> StreamType]
       /\ \A u \in Streams \ {t} : stream'[u] = stream[u]
       /\ stream'[t].name = n /\ stream'[t].list = <<s>> \o stream[t].list
       /\ stream'[t].pub = stream[t].pub /\ stream'[t].active = stream[t].active
  BY <1>7, <1>9, <1>10, <1>11
<1>17. \A x \in Sessions \ {s} :
         ctx'[x] = ctx[x] /\ open'[x] = open[x] /\ (destroyed[x] => destroyed'[x])
  BY <1>1, <1>12, <1>14
<1>18. Entered(w, s, n, t, FALSE)
  BY <1>2, <1>3, <1>12, <1>13, <1>14, <1>15, <1>16, <1>17 DEF Entered
<1> QED
  BY <1>2, <1>18 DEF StepKind

LEMMA HttpNotReadyStep ==
  ASSUME LiveInv, NEW n \in Names, HttpNotReady(n), conf' = conf
  PROVE  StepKind
<1>w. PICK w : w = GetStream(World, n)
  OBVIOUS
<1>1. CanGet(n) /\ SetWorld(w) /\ UNCHANGED <<conf, life, reader>>
  BY <1>w DEF HttpNotReady
<1>2. PICK t \in Streams : Found(w, n, t)
  BY <1>1, <1>w, StreamFound
<1> QED
  BY <1>1, <1>2 DEF StepKind

\* The members that are finalised with their publisher.
LEMMA EndedMembers ==
  ASSUME LiveInv, NEW s \in Sessions
  PROVE  /\ EndedWith(s) \in Seq(Sessions)
         /\ Joined(s) /\ ctx[s].publishing =>
              \A x \in Members(ctx[s].stream) \cap Rtmp :
                x \in Range(EndedWith(s)) \/ destroyed[x]
<1>1. CASE Joined(s) /\ ctx[s].publishing
  <2>1. PICK t \in Streams : t = ctx[s].stream
    BY <1>1, MemberInTable
  <2>2. stream[t].list \in Seq(Sessions)
    BY DEF LiveInv, TypeOK, StreamType
  <2>3. EndedWith(s) = Kept(stream[t].list, Http \cup Alive)
    BY <1>1, <2>1 DEF EndedWith
  <2>4. /\ EndedWith(s) \in Seq(Sessions)
        /\ Range(EndedWith(s)) = Members(t) \cap (Http \cup Alive)
    BY <2>2, <2>3, KeptProperties DEF Members
  <2> QED
    BY <2>1, <2>4 DEF Alive, Sessions
<1>2. CASE ~(Joined(s) /\ ctx[s].publishing)
  <2>1. EndedWith(s) = <<>>
    BY <1>2 DEF EndedWith
  <2>2. <<>> \in Seq(Sessions)
    OBVIOUS
  <2> QED
    BY <1>2, <2>1, <2>2
<1> QED
  BY <1>1, <1>2

LEMMA CloseStreamStep ==
  ASSUME LiveInv, NEW s \in Rtmp, CloseStreamCmd(s), conf' = conf
  PROVE  StepKind
<1>1. /\ Joined(s) /\ s \in Sessions /\ s \notin Http
      /\ UNCHANGED <<conf, open, reader>>
  BY ConstantsAssumption DEF CloseStreamCmd, Sessions
<1>v. PICK v : v = CloseStream(World, s)
  OBVIOUS
<1>2. Closed(v, s)
  BY <1>1, <1>v, StreamClosed
<1>3. /\ ctx' = v.ctx /\ publisher' = v.publisher /\ timer' = v.timer
      /\ table' = v.table /\ free' = v.free /\ stream' = v.stream
  BY <1>v DEF CloseStreamCmd, SetWorld
<1>4. Finalized(EndedWith(s))
  <2>1. CASE EndedWith(s) # <<>>
    <3>1. PostClose(EndedWith(s)) /\ EndedWith(s) \in Seq(Sessions) /\ TypeOK
      BY <1>1, <2>1, EndedMembers DEF CloseStreamCmd, LiveInv
    <3> QED
      BY <3>1, PostCloseStep
  <2>2. CASE EndedWith(s) = <<>>
    <3>1. FinalizeSome(<<s>>, ToldByClose(s)) /\ <<s>> \in Seq(Sessions) /\ TypeOK
      BY <1>1, <2>2 DEF CloseStreamCmd, LiveInv
    <3>2. Finalized(<<>>)
      BY <3>1, FinalizeSomeStep
    <3> QED
      BY <2>2, <3>2
  <2> QED
    BY <2>1, <2>2
<1>5. LifeTyped
  BY <1>1, <1>4 DEF LiveInv, TypeOK, ReaderOK, LifeTyped, Finalized
<1>6. ctx[s].publishing =>
        \A x \in Members(ctx[s].stream) \cap Rtmp : x # s => destroyed'[x]
  <2>1. \A x \in Rtmp : x \in Sessions
    BY DEF Sessions
  <2> QED
    BY <1>1, <1>4, <2>1, EndedMembers DEF Finalized
<1>7. /\ v.ctx \in [Sessions -> CtxType] /\ v.publisher \in [Http -> Sessions \cup {None}]
      /\ v.publisher = publisher /\ v.ctx[s].stream = None
  BY <1>1, <1>2 DEF Closed, Worlds
<1>8. \A x \in Sessions \ {s} :
        ctx'[x] = v.ctx[x] /\ open'[x] = open[x] /\ (destroyed[x] => destroyed'[x])
  BY <1>1, <1>3, <1>4 DEF Finalized
<1>9. Departed(v, s)
  BY <1>1, <1>2, <1>3, <1>5, <1>6, <1>7, <1>8 DEF Departed
<1> QED
  BY <1>1, <1>9 DEF StepKind

LEMMA CloseStep ==
  ASSUME LiveInv, Close, conf' = conf
  PROVE  StepKind
<1>1. posted \in Seq(Sessions) /\ posted # <<>> /\ reader = None /\ reader' = None
  BY DEF LiveInv, TypeOK, Close
<1>2. PICK s \in Sessions : s = Head(posted)
  BY <1>1
<1>v. PICK v : v = CloseStream(World, s)
  OBVIOUS
<1>3. /\ SetWorld([v EXCEPT !.ctx[s] = NoCtx,
                            !.publisher = [x \in Http |-> IF x = s THEN None ELSE @[x]]])
      /\ posted' = Tail(posted) \o Kept(EndedWith(s), Sessions \ Range(posted))
      /\ destroyed' = [x \in Sessions |->
           x # s /\ (destroyed[x] \/ x \in Range(EndedWith(s)))]
      /\ open' = [open EXCEPT ![s] = FALSE]
  BY <1>2, <1>v DEF Close
<1>4. EndedWith(s) \in Seq(Sessions)
  BY EndedMembers
<1>5. LifeTyped
  <2>1. Tail(posted) \in Seq(Sessions)
    BY <1>1
  <2>2. Kept(EndedWith(s), Sessions \ Range(posted)) \in Seq(Sessions)
    BY <1>4, KeptProperties
  <2>5. Tail(posted) \o Kept(EndedWith(s), Sessions \ Range(posted)) \in Seq(Sessions)
    BY <2>1, <2>2
  <2>3. posted' \in Seq(Sessions)
    BY <1>3, <2>5, Zenon
  <2>4. open' \in [Sessions -> BOOLEAN] /\ destroyed' \in [Sessions -> BOOLEAN]
    BY <1>3 DEF LiveInv, TypeOK
  <2> QED
    BY <1>1, <2>3, <2>4 DEF LifeTyped
<1>6. /\ \A x \in Sessions \ {s} : /\ open'[x] = open[x]
                                   /\ destroyed[x] => destroyed'[x]
                                   /\ x \in Range(EndedWith(s)) => destroyed'[x]
  BY <1>3 DEF LiveInv, TypeOK
<1>7. Joined(s) => Closed(v, s)
  BY <1>v, StreamClosed
<1>8. ~Joined(s) => v = World
  BY <1>v, WorldFields DEF CloseStream, Joined
<1>9. v \in Worlds /\ v.publisher = publisher
  <2>1. World \in Worlds
    BY WorldType DEF LiveInv
  <2> QED
    BY <1>7, <1>8, <2>1, WorldFields DEF Closed
<1>10. /\ ctx' = [v.ctx EXCEPT ![s] = NoCtx]
       /\ publisher' = [x \in Http |-> IF x = s THEN None ELSE v.publisher[x]]
       /\ timer' = v.timer /\ table' = v.table /\ free' = v.free /\ stream' = v.stream
  BY <1>3, <1>9 DEF SetWorld, Worlds
<1>11. /\ NoCtx \in CtxType /\ NoCtx.stream = None /\ NoCtx.publishing = FALSE
  BY DEF NoCtx, CtxType
<1>12. /\ ctx' \in [Sessions -> CtxType] /\ ctx'[s] = NoCtx
       /\ \A x \in Sessions \ {s} : ctx'[x] = v.ctx[x]
       /\ publisher' \in [Http -> Sessions \cup {None}]
       /\ \A x \in Http \ {s} : publisher'[x] = publisher[x]
  BY <1>9, <1>10, <1>11 DEF Worlds
<1>13. CASE Joined(s)
  <2>1. ctx[s].publishing =>
          \A x \in Members(ctx[s].stream) \cap Rtmp : x # s => destroyed'[x]
    <3>1. \A x \in Rtmp : x \in Sessions
      BY DEF Sessions
    <3> QED
      BY <1>6, <1>13, <3>1, EndedMembers
  <2>2. ctx'[s].stream = None /\ ~ctx'[s].publishing
    BY <1>11, <1>12
  <2>3. \A x \in Sessions \ {s} :
          ctx'[x] = v.ctx[x] /\ open'[x] = open[x] /\ (destroyed[x] => destroyed'[x])
    BY <1>6, <1>12
  <2>4. Closed(v, s)
    BY <1>7, <1>13
  <2>5. Departed(v, s)
    BY <1>5, <1>10, <1>12, <2>1, <2>2, <2>3, <2>4 DEF Departed
  <2> QED
    BY <1>13, <2>5 DEF StepKind
<1>14. CASE ~Joined(s)
  <2>1. v = World
    BY <1>8, <1>14
  <2>2. /\ UNCHANGED <<timer, table, free, stream>> /\ timer' \in [Sessions -> BOOLEAN]
        /\ \A x \in Sessions \ {s} : ctx'[x] = ctx[x]
        /\ ctx[s].stream = None
    BY <1>10, <1>12, <1>14, <2>1, WorldFields DEF LiveInv, TypeOK, Joined
  <2>3. ASSUME NEW x \in Sessions
        PROVE  /\ ctx'[x].stream = ctx[x].stream
               /\ ctx'[x].publishing => ctx[x].publishing
               /\ Joined(x) => /\ ctx'[x].publishing = ctx[x].publishing
                               /\ ctx'[x].active = ctx[x].active
                               /\ open[x] => open'[x]
                               /\ destroyed[x] => destroyed'[x]
    <3>1. CASE x = s
      BY <1>11, <1>12, <1>14, <2>2, <3>1
    <3>2. CASE x # s
      BY <1>6, <2>2, <3>2
    <3> QED
      BY <3>1, <3>2
  <2>4. \A x \in Http : Joined(x) => publisher'[x] = publisher[x]
    BY <1>12, <1>14
  <2>5. Quiet
    BY <1>5, <1>12, <2>2, <2>3, <2>4 DEF Quiet
  <2> QED
    BY <2>5 DEF StepKind
<1> QED
  BY <1>13, <1>14


-----------------------------------------------------------------------------
LEMMA InitLive == Init => LiveInv
<1> SUFFICES ASSUME Init PROVE LiveInv
  OBVIOUS
<1>1. /\ NoCtx \in CtxType /\ NoCtx.stream = None /\ NoCtx.publishing = FALSE
      /\ NoCtx.active = FALSE
  BY DEF NoCtx, CtxType
<1>2. PICK n \in Names : stream = [t \in Streams |-> NewStream(n)]
  BY DEF Init
<1>3. /\ NewStream(n) \in StreamType /\ NewStream(n).list = <<>>
      /\ NewStream(n).pub = None /\ NewStream(n).active = FALSE
  <2>1. <<>> \in Seq(Sessions)
    OBVIOUS
  <2> QED
    BY <2>1 DEF NewStream, StreamType
<1>4. \A t \in Streams : stream[t] = NewStream(n) /\ Members(t) = {} /\ IsInjective(stream[t].list)
  <2>1. \A t \in Streams : stream[t] = NewStream(n)
    BY <1>2
  <2>2. <<>> \in Seq(Sessions) /\ DOMAIN <<>> = {}
    OBVIOUS
  <2>3. Range(<<>>) = {} /\ IsInjective(<<>>)
    BY <2>2, EmptyRange DEF IsInjective
  <2> QED
    BY <1>3, <2>1, <2>3 DEF Members
<1>5. \A s \in Sessions : ctx[s] = NoCtx /\ ~Joined(s)
  BY <1>1 DEF Init, Joined
<1>6. Rtmp \subseteq Sessions /\ Http \subseteq Sessions
  BY DEF Sessions
<1>7. PICK q \in [1 .. Cardinality(Streams) -> Streams] : IsInjective(q) /\ free = q
  BY DEF Init
<1>8. Cardinality(Streams) \in Nat
  BY ConstantsAssumption, FS_CardinalityType
<1>9. free \in Seq(Streams)
  BY <1>7, <1>8
<1>10. TypeOK
  <2>1. <<>> \in Seq(Sessions)
    OBVIOUS
  <2>2. conf \in Configurations /\ reader = None /\ posted = <<>>
        /\ open \in [Sessions -> BOOLEAN] /\ destroyed \in [Sessions -> BOOLEAN]
        /\ timer \in [Sessions -> BOOLEAN] /\ table \in [Names -> Streams \cup {None}]
        /\ publisher \in [Http -> Sessions \cup {None}]
    BY DEF Init
  <2>3. ctx \in [Sessions -> CtxType] /\ stream \in [Streams -> StreamType]
    BY <1>1, <1>2, <1>3 DEF Init
  <2> QED
    BY <1>9, <2>1, <2>2, <2>3 DEF TypeOK
<1>11. StreamsAccounted
  <2>1. Range(free) = Streams
    <3>1. /\ IsFiniteSet(1 .. Cardinality(Streams))
          /\ Cardinality(1 .. Cardinality(Streams)) = Cardinality(Streams)
      <4>1. /\ IsFiniteSet(1 .. Cardinality(Streams))
            /\ Cardinality(1 .. Cardinality(Streams))
               = IF 1 > Cardinality(Streams) THEN 0 ELSE Cardinality(Streams) - 1 + 1
        BY <1>8, FS_Interval
      <4> QED
        BY <1>8, <4>1
    <3>2. free \in Injection(1 .. Cardinality(Streams), Streams)
      BY <1>7 DEF Injection
    <3>3. free \in Surjection(1 .. Cardinality(Streams), Streams)
      BY <3>1, <3>2, ConstantsAssumption, FS_Injection
    <3> QED
      BY <1>7, <3>3 DEF Surjection, Range
  <2>2. \A m \in Names : table[m] = None
    BY DEF Init
  <2> QED
    BY <1>3, <1>4, <1>7, <2>1, <2>2, ConstantsAssumption DEF StreamsAccounted
<1>12. MembersOpen
  BY <1>1, <1>3, <1>4, <1>5, <1>6, ConstantsAssumption DEF MembersOpen
<1>13. OrphansFinalized /\ HttpFollows /\ ReaderOK
  BY <1>4, <1>5, <1>6 DEF OrphansFinalized, HttpFollows, ReaderOK, Init
<1>14. IdleTimerSound
  BY <1>1, <1>5, <1>6 DEF IdleTimerSound, Init
<1>15. StatusOK
  BY <1>3, <1>4 DEF StatusOK
<1>16. HttpOK
  BY <1>1, <1>5, <1>6 DEF HttpOK
<1> QED
  BY <1>10, <1>11, <1>12, <1>13, <1>14, <1>15, <1>16 DEF LiveInv

LEMMA EveryStep ==
  ASSUME LiveInv, [Next]_vars
  PROVE  StepKind
<1>1. CASE UNCHANGED vars
  <2>1. Quiet
    BY <1>1 DEF vars, Quiet, LifeTyped, LiveInv, TypeOK, ReaderOK
  <2> QED
    BY <2>1 DEF StepKind
<1>2. ASSUME NEW s \in Rtmp, conf' = conf,
             \/ Connect(s) \/ BeginRecv(s) \/ CloseStreamCmd(s) \/ AudioVideo(s)
             \/ \E n \in Names : Message(s, n)
             \/ \E on \in BOOLEAN : Pause(s, on) \/ StreamEvent(s, on)
      PROVE  StepKind
  <2>1. s \in Sessions
    BY DEF Sessions
  <2>2. CASE Connect(s) \/ BeginRecv(s)
    BY <1>2, <2>1, <2>2, LifeStep
  <2>3. CASE CloseStreamCmd(s)
    BY <1>2, <2>3, CloseStreamStep
  <2>4. CASE AudioVideo(s)
    BY <1>2, <2>4, AudioVideoStep
  <2>5. ASSUME NEW n \in Names, Message(s, n) PROVE StepKind
    BY <1>2, <2>5, PublishStep, PlayStep, RefusedStep DEF Message
  <2>6. ASSUME NEW on \in BOOLEAN, Pause(s, on) \/ StreamEvent(s, on) PROVE StepKind
    BY <1>2, <2>6, PauseStep, StreamEventStep
  <2> QED
    BY <1>2, <2>2, <2>3, <2>4, <2>5, <2>6
<1>3. ASSUME NEW n \in Names, conf' = conf,
             HttpNotReady(n) \/ \E s \in Http : HttpPlay(s, n)
      PROVE  StepKind
  BY <1>3, HttpNotReadyStep, HttpPlayStep
<1>4. ASSUME NEW s \in Sessions, conf' = conf, IdlePublisher(s) \/ HangUp(s) PROVE StepKind
  BY <1>4, LifeStep
<1>5. ASSUME conf' = conf, EndRecv \/ RecvError PROVE StepKind
  <2>1. reader \in Sessions
    BY <1>5 DEF EndRecv, RecvError, LiveInv, TypeOK, Sessions
  <2> QED
    BY <1>5, <2>1, LifeStep
<1>6. ASSUME conf' = conf, Close PROVE StepKind
  BY <1>6, CloseStep
<1> QED
  BY <1>1, <1>2, <1>3, <1>4, <1>5, <1>6 DEF Next, Step

LEMMA StepLive ==
  ASSUME Http = {} \/ OneName, LiveInv, StepKind
  PROVE  LiveInv'
<1>1. CASE Quiet
  BY <1>1, QuietStep
<1>2. CASE \E s \in Rtmp, a \in BOOLEAN : Joined(s) /\ Switched(s, a)
  BY <1>2, SwitchedStep
<1>3. CASE \E s \in Sessions : \E v : Joined(s) /\ Departed(v, s)
  BY <1>3, DepartedStep
<1>4. CASE \E s \in Sessions, n \in Names, t \in Streams, P \in BOOLEAN : \E v :
             ~Joined(s) /\ Entered(v, s, n, t, P)
  BY <1>4, EnteredStep
<1>5. CASE \E n \in Names, t \in Streams : \E v :
             Found(v, n, t) /\ SetWorld(v) /\ UNCHANGED <<conf, life, reader>>
  BY <1>5, FoundStep
<1> QED
  BY <1>1, <1>2, <1>3, <1>4, <1>5 DEF StepKind

-----------------------------------------------------------------------------
(* The channels that the streams implement.                                *)

PubOf(n) == IF InTable(n) THEN stream[table[n]].pub ELSE None
SubsOf(n) == IF InTable(n) THEN {s \in Members(table[n]) : ~ctx[s].publishing} ELSE {}
AirOf(n) == InTable(n) /\ stream[table[n]].active

SamePub(n) == PubOf(n)' = PubOf(n)
SameSubs(n) == SubsOf(n)' = SubsOf(n)
SameAir(n) == AirOf(n)' = AirOf(n)
SameChannel(n) == SamePub(n) /\ SameSubs(n) /\ SameAir(n)

LEMMA ChannelsSame ==
  ASSUME \A n \in Names : SameChannel(n)
  PROVE  UNCHANGED Channels!channels
<1>1. \A n \in Names : SamePub(n) /\ SameSubs(n) /\ SameAir(n)
  BY DEF SameChannel
<1>2. [n \in Names |-> PubOf(n)]' = [n \in Names |-> PubOf(n)]
  BY <1>1 DEF SamePub
<1>3. [n \in Names |-> SubsOf(n)]' = [n \in Names |-> SubsOf(n)]
  BY <1>1 DEF SameSubs
<1>4. [n \in Names |-> AirOf(n)]' = [n \in Names |-> AirOf(n)]
  BY <1>1 DEF SameAir
<1> QED
  BY <1>2, <1>3, <1>4 DEF PubOf, SubsOf, AirOf, Channels!channels

LEMMA ChannelSwitches ==
  ASSUME NEW n \in Names, PubOf(n) # None, AirOf(n)' = ~AirOf(n),
         \A m \in Names : SamePub(m) /\ SameSubs(m) /\ (m # n => SameAir(m))
  PROVE  Channels!Switch(n)
<1> DEFINE air == [m \in Names |-> AirOf(m)]
<1>1. [m \in Names |-> PubOf(m)]' = [m \in Names |-> PubOf(m)]
  BY DEF SamePub
<1>2. [m \in Names |-> SubsOf(m)]' = [m \in Names |-> SubsOf(m)]
  BY DEF SameSubs
<1>3. air' = [air EXCEPT ![n] = ~air[n]]
  BY DEF SameAir
<1>4. [m \in Names |-> PubOf(m)][n] # None
  OBVIOUS
<1> QED
  BY <1>1, <1>2, <1>3, <1>4 DEF PubOf, SubsOf, AirOf, Channels!Switch

LEMMA ChannelUnpublished ==
  ASSUME NEW n \in Names, PubOf(n) # None, PubOf(n)' = None, AirOf(n)' = FALSE,
         SubsOf(n)' \subseteq SubsOf(n),
         \A m \in Names : m # n => SameChannel(m)
  PROVE  Channels!Unpublish(n)
<1> DEFINE pub == [m \in Names |-> PubOf(m)]
           subs == [m \in Names |-> SubsOf(m)]
           air == [m \in Names |-> AirOf(m)]
<1>1. \A m \in Names : m # n => SamePub(m) /\ SameSubs(m) /\ SameAir(m)
  BY DEF SameChannel
<1>2. pub' = [pub EXCEPT ![n] = None] /\ pub[n] # None
  BY <1>1 DEF SamePub
<1>3. air' = [air EXCEPT ![n] = FALSE]
  BY <1>1 DEF SameAir
<1>4. subs' = [subs EXCEPT ![n] = SubsOf(n)'] /\ SubsOf(n)' \in SUBSET subs[n]
  BY <1>1 DEF SameSubs
<1>5. \E rest \in SUBSET subs[n] : subs' = [subs EXCEPT ![n] = rest]
  BY <1>4
<1> QED
  BY <1>2, <1>3, <1>5 DEF PubOf, SubsOf, AirOf, Channels!Unpublish

LEMMA ChannelUnsubscribed ==
  ASSUME NEW n \in Names, NEW s \in SubsOf(n), SamePub(n), SameAir(n),
         SubsOf(n)' = SubsOf(n) \ {s},
         \A m \in Names : m # n => SameChannel(m)
  PROVE  Channels!Unsubscribe(s, n)
<1> DEFINE subs == [m \in Names |-> SubsOf(m)]
<1>1. \A m \in Names : SamePub(m) /\ SameAir(m) /\ (m # n => SameSubs(m))
  BY DEF SameChannel
<1>2. [m \in Names |-> PubOf(m)]' = [m \in Names |-> PubOf(m)]
  BY <1>1 DEF SamePub
<1>3. [m \in Names |-> AirOf(m)]' = [m \in Names |-> AirOf(m)]
  BY <1>1 DEF SameAir
<1>4. subs' = [subs EXCEPT ![n] = subs[n] \ {s}] /\ s \in subs[n]
  BY <1>1 DEF SameSubs
<1> QED
  BY <1>2, <1>3, <1>4 DEF PubOf, SubsOf, AirOf, Channels!Unsubscribe

LEMMA ChannelSubscribed ==
  ASSUME NEW n \in Names, NEW s, SamePub(n), SameAir(n),
         \A m \in Names : PubOf(m) # s /\ s \notin SubsOf(m),
         SubsOf(n)' = SubsOf(n) \cup {s},
         \A m \in Names : m # n => SameChannel(m)
  PROVE  Channels!Subscribe(s, n)
<1> DEFINE pub == [m \in Names |-> PubOf(m)]
           subs == [m \in Names |-> SubsOf(m)]
<1>1. \A m \in Names : SamePub(m) /\ SameAir(m) /\ (m # n => SameSubs(m))
  BY DEF SameChannel
<1>2. pub' = pub
  BY <1>1 DEF SamePub
<1>3. [m \in Names |-> AirOf(m)]' = [m \in Names |-> AirOf(m)]
  BY <1>1 DEF SameAir
<1>4. subs' = [subs EXCEPT ![n] = subs[n] \cup {s}]
  BY <1>1 DEF SameSubs
<1>5. \A m \in Names : pub[m] # s /\ s \notin subs[m]
  OBVIOUS
<1> QED
  BY <1>2, <1>3, <1>4, <1>5
     DEF PubOf, SubsOf, AirOf, Channels!Subscribe, Channels!Free

LEMMA ChannelPublished ==
  ASSUME NEW n \in Names, NEW s, SameSubs(n), SameAir(n),
         \A m \in Names : PubOf(m) # s /\ s \notin SubsOf(m),
         PubOf(n) = None, PubOf(n)' = s,
         \A m \in Names : m # n => SameChannel(m)
  PROVE  Channels!Publish(s, n)
<1> DEFINE pub == [m \in Names |-> PubOf(m)]
           subs == [m \in Names |-> SubsOf(m)]
<1>1. \A m \in Names : SameSubs(m) /\ SameAir(m) /\ (m # n => SamePub(m))
  BY DEF SameChannel
<1>2. pub' = [pub EXCEPT ![n] = s] /\ pub[n] = None
  BY <1>1 DEF SamePub
<1>3. [m \in Names |-> AirOf(m)]' = [m \in Names |-> AirOf(m)]
  BY <1>1 DEF SameAir
<1>4. subs' = subs
  BY <1>1 DEF SameSubs
<1>5. \A m \in Names : pub[m] # s /\ s \notin subs[m]
  OBVIOUS
<1> QED
  BY <1>2, <1>3, <1>4, <1>5
     DEF PubOf, SubsOf, AirOf, Channels!Publish, Channels!Free

\* The struct of a name, and no other name has it.
LEMMA TableFacts ==
  ASSUME LiveInv, NEW n \in Names, InTable(n)
  PROVE  /\ table[n] \in Streams /\ stream[table[n]].name = n
         /\ \A m \in Names : table[m] = table[n] => m = n
BY DEF LiveInv, TypeOK, StreamsAccounted, InTable

LEMMA PartsSame ==
  ASSUME LiveInv, NEW n \in Names,
         InTable(n) =>
           /\ table'[n] = table[n]
           /\ stream'[table[n]].pub = stream[table[n]].pub
           /\ stream'[table[n]].list = stream[table[n]].list
           /\ \A x \in Members(table[n]) : ctx'[x].publishing = ctx[x].publishing,
         ~InTable(n) => table'[n] = None
  PROVE  /\ SamePub(n) /\ SameSubs(n)
         /\ \/ InTable(n) /\ stream'[table[n]].active # stream[table[n]].active
            \/ SameAir(n)
<1>1. CASE ~InTable(n)
  BY <1>1 DEF InTable, SamePub, SameSubs, SameAir, PubOf, SubsOf, AirOf
<1>2. CASE InTable(n)
  <2>1. PICK t \in Streams : t = table[n]
    BY <1>2, TableFacts
  <2>2. Members(t)' = Members(t) /\ InTable(n)' /\ table'[n] = t
    BY <1>2, <2>1 DEF Members, InTable
  <2>3. \A x \in Members(t) : ctx'[x].publishing = ctx[x].publishing
    BY <1>2, <2>1
  <2>4. SubsOf(n) = {x \in Members(t) : ~ctx[x].publishing}
    BY <1>2, <2>1 DEF SubsOf
  <2>5. SubsOf(n)' = {x \in Members(t)' : ~ctx'[x].publishing}
    BY <2>2 DEF SubsOf, Members
  <2>6. SameSubs(n)
    BY <2>2, <2>3, <2>4, <2>5 DEF SameSubs
  <2>7. SamePub(n)
    BY <1>2, <2>1, <2>2 DEF SamePub, PubOf
  <2>8. stream'[t].active = stream[t].active => SameAir(n)
    BY <1>2, <2>1, <2>2 DEF SameAir, AirOf
  <2> QED
    BY <1>2, <2>1, <2>6, <2>7, <2>8
<1> QED
  BY <1>1, <1>2

LEMMA QuietChannels ==
  ASSUME LiveInv, Quiet
  PROVE  UNCHANGED Channels!channels
<1>1. ASSUME NEW n \in Names PROVE SameChannel(n)
  <2>1. InTable(n) => \A x \in Members(table[n]) : ctx'[x].publishing = ctx[x].publishing
    BY TableFacts, MemberJoined DEF Quiet
  <2>2. table' = table /\ stream' = stream /\ (~InTable(n) => table[n] = None)
    BY DEF Quiet, InTable
  <2> QED
    BY <2>1, <2>2, PartsSame DEF SameChannel
<1> QED
  BY <1>1, ChannelsSame

LEMMA SwitchedChannels ==
  ASSUME LiveInv, NEW s \in Rtmp, Joined(s), NEW a \in BOOLEAN, Switched(s, a)
  PROVE  Channels!Next \/ UNCHANGED Channels!channels
<1>t. PICK t \in Streams, P \in BOOLEAN :
        ctx[s].stream = t /\ ctx[s].publishing = P
  <2>1. ctx[s].stream \in Streams /\ ctx[s].publishing \in BOOLEAN
    BY MemberInTable DEF LiveInv, TypeOK, StreamType, CtxType, Sessions
  <2> QED
    BY <2>1
<1>1. ASSUME NEW n \in Names
      PROVE  /\ SamePub(n) /\ SameSubs(n)
             /\ \/ InTable(n) /\ stream'[table[n]].active # stream[table[n]].active
                \/ SameAir(n)
  <2>1. InTable(n) => /\ table'[n] = table[n]
                      /\ stream'[table[n]].pub = stream[table[n]].pub
                      /\ stream'[table[n]].list = stream[table[n]].list
    BY TableFacts DEF Switched
  <2>2. InTable(n) => \A x \in Members(table[n]) : ctx'[x].publishing = ctx[x].publishing
    BY TableFacts, MemberJoined DEF Switched
  <2>3. ~InTable(n) => table'[n] = None
    BY DEF Switched, InTable
  <2> QED
    BY <2>1, <2>2, <2>3, PartsSame
<1>2. CASE P /\ a # stream[t].active
  <2>1. PICK n \in Names : n = stream[t].name
    BY DEF LiveInv, TypeOK, StreamType
  <2>2. /\ s \in Members(t) /\ stream[t].pub = s
    BY <1>t, <1>2 DEF LiveInv, MembersOpen
  <2>3. table[n] = t /\ InTable(n)
    BY <1>t, <2>1, <2>2, MemberInTable, ConstantsAssumption DEF Sessions, InTable
  <2>4. PubOf(n) # None
    BY <2>2, <2>3, ConstantsAssumption DEF PubOf, Sessions
  <2>5. AirOf(n)' = ~AirOf(n)
    <3>1. stream'[t].active = a /\ table'[n] = t /\ InTable(n)'
      BY <1>t, <1>2, <2>3 DEF Switched, InTable
    <3>2. stream[t].active \in BOOLEAN
      BY DEF LiveInv, TypeOK, StreamType
    <3> QED
      BY <1>2, <2>3, <3>1, <3>2 DEF AirOf
  <2>6. \A m \in Names : m # n => SameAir(m)
    <3>1. \A m \in Names : m # n /\ InTable(m) => table[m] # t /\ table[m] \in Streams
      BY <2>3, TableFacts
    <3>2. \A u \in Streams : u # t => stream'[u].active = stream[u].active
      BY <1>t DEF Switched
    <3> QED
      BY <1>1, <3>1, <3>2
  <2>7. Channels!Switch(n)
    BY <1>1, <2>4, <2>5, <2>6, ChannelSwitches
  <2> QED
    BY <2>7 DEF Channels!Next
<1>3. CASE ~(P /\ a # stream[t].active)
  <2>1. \A u \in Streams : stream'[u].active = stream[u].active
    BY <1>t, <1>3 DEF Switched
  <2>2. \A n \in Names : SameChannel(n)
    BY <1>1, <2>1, TableFacts DEF SameChannel
  <2> QED
    BY <2>2, ChannelsSame
<1> QED
  BY <1>2, <1>3

LEMMA DepartedChannels ==
  ASSUME LiveInv, LiveInv', NEW s \in Sessions, Joined(s), NEW v, Departed(v, s)
  PROVE  Channels!Next \/ UNCHANGED Channels!channels
<1>t. PICK t \in Streams, name \in Names, P \in BOOLEAN :
        ctx[s].stream = t /\ ctx[s].publishing = P /\ stream[t].name = name
  <2>1. /\ ctx[s].stream \in Streams /\ ctx[s].publishing \in BOOLEAN
        /\ stream[ctx[s].stream].name \in Names
    BY MemberInTable DEF LiveInv, TypeOK, StreamType, CtxType
  <2> QED
    BY <2>1
<1>1. /\ \A x \in Sessions \ {s} : ctx'[x].publishing = ctx[x].publishing
      /\ \A u \in Streams \ {t} : stream'[u] = stream[u]
      /\ stream'[t].pub = IF P THEN None ELSE stream[t].pub
      /\ stream'[t].active = IF P THEN FALSE ELSE stream[t].active
      /\ Range(stream'[t].list) = {x \in Members(t) : x # s /\ (P => x \in Rtmp)}
      /\ \/ table' = table
         \/ /\ stream'[t].list = <<>> /\ stream'[t].pub = None /\ table[name] = t
            /\ table' = [table EXCEPT ![name] = None]
  <2>1. /\ Closed(v, s) /\ table' = v.table /\ stream' = v.stream
        /\ \A x \in Sessions \ {s} : ctx'[x] = v.ctx[x]
    BY DEF Departed
  <2> QED
    BY <1>t, <2>1 DEF Closed
<1>2. /\ table \in [Names -> Streams \cup {None}]
      /\ \A n \in Names : InTable(n) <=> table[n] # None
  BY DEF LiveInv, TypeOK, InTable
<1>3. ASSUME NEW n \in Names, n # name PROVE SameChannel(n) /\ table'[n] = table[n]
  <2>1. table'[n] = table[n]
    BY <1>1, <1>2, <1>3
  <2>2. InTable(n) => table[n] \in Streams \ {t}
    BY <1>3, <1>t, TableFacts
  <2>3. InTable(n) => \A x \in Members(table[n]) : ctx'[x].publishing = ctx[x].publishing
    <3> SUFFICES ASSUME InTable(n), NEW x \in Members(table[n])
                 PROVE  ctx'[x].publishing = ctx[x].publishing
      OBVIOUS
    <3>1. x \in Sessions /\ ctx[x].stream = table[n]
      BY <2>2, MemberJoined
    <3> QED
      BY <1>1, <1>t, <2>2, <3>1
  <2>4. InTable(n) => stream'[table[n]] = stream[table[n]]
    BY <1>1, <2>2
  <2> QED
    BY <1>2, <2>1, <2>3, <2>4, PartsSame DEF SameChannel
<1>4. /\ s \in Members(t) => table[name] = t
      /\ table[name] = None \/ table[name] = t
  BY <1>t, MemberInTable
<1>5. CASE table[name] = None
  <2>1. table'[name] = None
    BY <1>1, <1>2, <1>5, ConstantsAssumption
  <2>2. SameChannel(name)
    BY <1>2, <1>5, <2>1, PartsSame DEF SameChannel
  <2> QED
    BY <1>3, <2>2, ChannelsSame
<1>6. CASE table[name] = t
  <2>1. /\ PubOf(name) = stream[t].pub /\ AirOf(name) = stream[t].active
        /\ SubsOf(name) = {x \in Members(t) : ~ctx[x].publishing}
    <3>1. InTable(name)
      BY <1>2, <1>6, ConstantsAssumption
    <3>2. stream[t].active \in BOOLEAN
      BY DEF LiveInv, TypeOK, StreamType
    <3> QED
      BY <1>6, <3>1, <3>2 DEF PubOf, AirOf, SubsOf
  <2>2. /\ PubOf(name)' = stream'[t].pub /\ AirOf(name)' = stream'[t].active
        /\ SubsOf(name)' = {x \in SubsOf(name) : x # s /\ (P => x \in Rtmp)}
    <3>1. stream'[t].active \in BOOLEAN
      BY DEF LiveInv, TypeOK, StreamType
    <3>2. \A x \in Members(t) : x # s => ctx'[x].publishing = ctx[x].publishing
      BY <1>1, MemberJoined
    <3>3. {x \in Range(stream'[t].list) : ~ctx'[x].publishing}
          = {x \in SubsOf(name) : x # s /\ (P => x \in Rtmp)}
      BY <1>1, <2>1, <3>2
    <3>4. CASE table' = table
      <4>1. InTable(name)' /\ table'[name] = t
        BY <1>2, <1>6, <3>4, ConstantsAssumption DEF InTable
      <4> QED
        BY <3>1, <3>3, <4>1 DEF PubOf, AirOf, SubsOf, Members
    <3>5. CASE /\ stream'[t].list = <<>> /\ stream'[t].pub = None
               /\ table' = [table EXCEPT ![name] = None]
      <4>1. ~InTable(name)' /\ table'[name] = None
        BY <1>2, <3>5 DEF InTable
      <4>2. ~stream'[t].active
        BY <3>5 DEF LiveInv, StatusOK
      <4>3. Range(stream'[t].list) = {}
        <5>1. <<>> \in Seq({})
          OBVIOUS
        <5> QED
          BY <3>5, <5>1, EmptyRange
      <4>4. /\ PubOf(name)' = None /\ AirOf(name)' = FALSE /\ SubsOf(name)' = {}
        BY <4>1 DEF PubOf, AirOf, SubsOf
      <4> QED
        BY <3>1, <3>3, <3>5, <4>2, <4>3, <4>4
    <3> QED
      BY <1>1, <3>4, <3>5
  <2>3. CASE P
    <3>1. stream[t].pub = s
      <4>1. s \in Members(t)
        BY <1>t, <2>3 DEF LiveInv, HttpOK, MembersOpen, Sessions
      <4> QED
        <5>1. ctx[s].publishing <=> stream[t].pub = s
          BY <4>1 DEF LiveInv, MembersOpen
        <5> QED
          BY <1>t, <2>3, <5>1
    <3>2. PubOf(name) # None /\ PubOf(name)' = None /\ AirOf(name)' = FALSE
      BY <1>1, <2>1, <2>2, <2>3, <3>1, ConstantsAssumption
    <3>3. SubsOf(name)' \subseteq SubsOf(name)
      BY <2>2
    <3>4. Channels!Unpublish(name)
      BY <1>3, <3>2, <3>3, ChannelUnpublished
    <3> QED
      BY <3>4 DEF Channels!Next
  <2>4. CASE ~P
    <3>1. SamePub(name) /\ SameAir(name) /\ SubsOf(name)' = SubsOf(name) \ {s}
      <4>1. PubOf(name)' = PubOf(name) /\ AirOf(name)' = AirOf(name)
        BY <1>1, <2>1, <2>2, <2>4
      <4>2. SubsOf(name)' = SubsOf(name) \ {s}
        BY <2>2, <2>4
      <4> QED
        BY <4>1, <4>2 DEF SamePub, SameAir
    <3>2. CASE s \in SubsOf(name)
      <4>1. Channels!Unsubscribe(s, name)
        BY <1>3, <3>1, <3>2, ChannelUnsubscribed
      <4> QED
        BY <4>1 DEF Channels!Next
    <3>3. CASE s \notin SubsOf(name)
      <4>1. SameChannel(name)
        BY <3>1, <3>3 DEF SameChannel, SameSubs
      <4> QED
        BY <1>3, <4>1, ChannelsSame
    <3> QED
      BY <3>2, <3>3
  <2> QED
    BY <2>3, <2>4
<1> QED
  BY <1>4, <1>5, <1>6

\* A struct that is found for the first time is that of an empty channel.
LEMMA FoundParts ==
  ASSUME LiveInv, NEW n \in Names, NEW t \in Streams, NEW v, Found(v, n, t),
         table' = v.table
  PROVE  /\ table'[n] = t
         /\ \A m \in Names : m # n =>
              table'[m] = table[m] /\ (InTable(m) => table[m] \in Streams \ {t})
         /\ PubOf(n) = stream[t].pub /\ AirOf(n) = stream[t].active
         /\ SubsOf(n) = {x \in Members(t) : ~ctx[x].publishing}
<1>1. /\ table \in [Names -> Streams \cup {None}] /\ free \in Seq(Streams)
      /\ \A m \in Names : InTable(m) <=> table[m] # None
      /\ stream[t].active \in BOOLEAN
  BY DEF LiveInv, TypeOK, StreamType, InTable
<1>2. CASE table[n] = t /\ v.table = table
  <2>1. InTable(n)
    BY <1>1, <1>2, ConstantsAssumption
  <2>2. \A m \in Names : m # n => (InTable(m) => table[m] \in Streams \ {t})
    BY <1>2, <2>1, TableFacts
  <2> QED
    BY <1>1, <1>2, <2>1, <2>2 DEF PubOf, AirOf, SubsOf
<1>3. CASE /\ table[n] = None /\ free # <<>> /\ Head(free) = t
           /\ v.table = [table EXCEPT ![n] = t]
  <2>1. t \in Range(free)
    BY <1>1, <1>3, TailOfInjective DEF LiveInv, StreamsAccounted
  <2>2. /\ \A m \in Names : table[m] # t
        /\ stream[t].list = <<>> /\ stream[t].pub = None
    BY <2>1 DEF LiveInv, StreamsAccounted
  <2>3. stream[t].active = FALSE
    BY <1>1, <2>2 DEF LiveInv, StatusOK
  <2>4. Members(t) = {}
    <3>1. <<>> \in Seq({})
      OBVIOUS
    <3> QED
      BY <2>2, <3>1, EmptyRange DEF Members
  <2>5. ~InTable(n)
    BY <1>1, <1>3
  <2>6. PubOf(n) = None /\ AirOf(n) = FALSE /\ SubsOf(n) = {}
    BY <2>5 DEF PubOf, AirOf, SubsOf
  <2>7. \A m \in Names : m # n =>
          table'[m] = table[m] /\ (InTable(m) => table[m] \in Streams \ {t})
    BY <1>1, <1>3, <2>2
  <2>8. table'[n] = t
    BY <1>1, <1>3
  <2> QED
    BY <2>2, <2>3, <2>4, <2>6, <2>7, <2>8
<1> QED
  BY <1>2, <1>3 DEF Found

LEMMA FoundChannels ==
  ASSUME LiveInv, NEW n \in Names, NEW t \in Streams,
         NEW v, Found(v, n, t), SetWorld(v)
  PROVE  UNCHANGED Channels!channels
<1>1. /\ table' = v.table /\ ctx' = ctx
      /\ \A u \in Streams : stream'[u].list = stream[u].list
           /\ stream'[u].pub = stream[u].pub /\ stream'[u].active = stream[u].active
  BY DEF Found, SetWorld
<1>2. /\ table'[n] = t
      /\ \A m \in Names : m # n =>
           table'[m] = table[m] /\ (InTable(m) => table[m] \in Streams \ {t})
      /\ PubOf(n) = stream[t].pub /\ AirOf(n) = stream[t].active
      /\ SubsOf(n) = {x \in Members(t) : ~ctx[x].publishing}
  BY <1>1, FoundParts
<1>3. ASSUME NEW m \in Names, m # n PROVE SameChannel(m)
  <2>1. ~InTable(m) => table'[m] = None
    BY <1>2, <1>3 DEF InTable
  <2>2. InTable(m) => table'[m] = table[m] /\ table[m] \in Streams
    BY <1>2, <1>3
  <2> QED
    BY <1>1, <2>1, <2>2, PartsSame DEF SameChannel
<1>4. SameChannel(n)
  <2>1. InTable(n)' /\ Members(t)' = Members(t)
    BY <1>1, <1>2, ConstantsAssumption DEF InTable, Members
  <2>2. /\ PubOf(n)' = stream'[t].pub /\ (AirOf(n)' <=> stream'[t].active)
        /\ SubsOf(n)' = {x \in Members(t)' : ~ctx'[x].publishing}
    BY <1>2, <2>1 DEF PubOf, AirOf, SubsOf, Members
  <2>3. AirOf(n)' = AirOf(n)
    BY <1>1, <1>2, <2>2 DEF AirOf
  <2> QED
    BY <1>1, <1>2, <2>1, <2>2, <2>3 DEF SameChannel, SamePub, SameSubs, SameAir
<1> QED
  BY <1>3, <1>4, ChannelsSame

LEMMA EnteredChannels ==
  ASSUME LiveInv, LiveInv', NEW s \in Sessions, ~Joined(s), NEW n \in Names,
         NEW t \in Streams, NEW P \in BOOLEAN, NEW v, Entered(v, s, n, t, P)
  PROVE  Channels!Next \/ UNCHANGED Channels!channels
<1>1. /\ Found(v, n, t) /\ table' = v.table
      /\ ctx'[s].publishing = P /\ \A x \in Sessions \ {s} : ctx'[x] = ctx[x]
      /\ \A u \in Streams \ {t} : stream'[u] = stream[u]
      /\ stream'[t].pub = IF P THEN s ELSE stream[t].pub
      /\ stream'[t].active = stream[t].active
      /\ stream'[t].list = <<s>> \o stream[t].list
      /\ P => stream[t].pub = None
  BY DEF Entered
<1>2. /\ table'[n] = t
      /\ \A m \in Names : m # n =>
           table'[m] = table[m] /\ (InTable(m) => table[m] \in Streams \ {t})
      /\ PubOf(n) = stream[t].pub /\ AirOf(n) = stream[t].active
      /\ SubsOf(n) = {x \in Members(t) : ~ctx[x].publishing}
  BY <1>1, FoundParts
<1>3. \A u \in Streams : \A x \in Members(u) : x \in Sessions \ {s}
  BY MemberJoined
<1>4. ASSUME NEW m \in Names, m # n PROVE SameChannel(m)
  <2>1. ~InTable(m) => table'[m] = None
    BY <1>2, <1>4 DEF InTable
  <2>2. InTable(m) => table'[m] = table[m] /\ table[m] \in Streams \ {t}
    BY <1>2, <1>4
  <2>3. InTable(m) => /\ stream'[table[m]] = stream[table[m]]
                      /\ \A x \in Members(table[m]) : ctx'[x].publishing = ctx[x].publishing
    BY <1>1, <1>3, <2>2
  <2> QED
    BY <2>1, <2>2, <2>3, PartsSame DEF SameChannel
<1>5. Members(t)' = Members(t) \cup {s}
  <2>1. stream[t].list \in Seq(Sessions)
    BY DEF LiveInv, TypeOK, StreamType
  <2> QED
    BY <1>1, <2>1, PrependNew DEF Members
<1>6. /\ PubOf(n)' = stream'[t].pub /\ AirOf(n)' = AirOf(n)
      /\ SubsOf(n)' = {x \in Members(t)' : ~ctx'[x].publishing}
  <2>1. InTable(n)' /\ stream[t].active \in BOOLEAN
    BY <1>2, ConstantsAssumption DEF InTable, LiveInv, TypeOK, StreamType
  <2>2. /\ PubOf(n)' = stream'[t].pub /\ (AirOf(n)' <=> stream'[t].active)
        /\ SubsOf(n)' = {x \in Members(t)' : ~ctx'[x].publishing}
    BY <1>2, <2>1 DEF PubOf, AirOf, SubsOf, Members
  <2>3. AirOf(n)' = AirOf(n)
    BY <1>1, <1>2, <2>2 DEF AirOf
  <2> QED
    BY <2>2, <2>3
<1>7. SubsOf(n)' = IF P THEN SubsOf(n) ELSE SubsOf(n) \cup {s}
  BY <1>1, <1>2, <1>3, <1>5, <1>6
<1>8. \A m \in Names : PubOf(m) # s /\ s \notin SubsOf(m)
  <2> SUFFICES ASSUME NEW m \in Names, InTable(m)
               PROVE  stream[table[m]].pub # s /\ s \notin Members(table[m])
    BY ConstantsAssumption DEF PubOf, SubsOf
  <2>1. table[m] \in Streams
    BY TableFacts
  <2>2. stream[table[m]].pub # None => stream[table[m]].pub \in Members(table[m])
    BY <2>1 DEF LiveInv, MembersOpen
  <2> QED
    BY <1>3, <2>1, <2>2, ConstantsAssumption
<1>9. CASE P
  <2>1. SameSubs(n) /\ SameAir(n) /\ PubOf(n) = None /\ PubOf(n)' = s
    BY <1>1, <1>2, <1>6, <1>7, <1>9 DEF SameSubs, SameAir
  <2>2. Channels!Publish(s, n)
    BY <1>4, <1>8, <2>1, ChannelPublished
  <2> QED
    BY <2>2 DEF Channels!Next
<1>10. CASE ~P
  <2>1. SamePub(n) /\ SameAir(n) /\ SubsOf(n)' = SubsOf(n) \cup {s}
    BY <1>1, <1>2, <1>6, <1>7, <1>10 DEF SamePub, SameAir
  <2>2. Channels!Subscribe(s, n)
    BY <1>4, <1>8, <2>1, ChannelSubscribed
  <2> QED
    BY <2>2 DEF Channels!Next
<1> QED
  BY <1>9, <1>10

LEMMA StepChannels ==
  ASSUME LiveInv, LiveInv', StepKind
  PROVE  Channels!Next \/ UNCHANGED Channels!channels
<1>1. CASE Quiet
  BY <1>1, QuietChannels
<1>2. CASE \E s \in Rtmp, a \in BOOLEAN : Joined(s) /\ Switched(s, a)
  BY <1>2, SwitchedChannels
<1>3. CASE \E s \in Sessions : \E v : Joined(s) /\ Departed(v, s)
  BY <1>3, DepartedChannels
<1>4. CASE \E s \in Sessions, n \in Names, t \in Streams, P \in BOOLEAN : \E v :
             ~Joined(s) /\ Entered(v, s, n, t, P)
  BY <1>4, EnteredChannels
<1>5. CASE \E n \in Names, t \in Streams : \E v :
             Found(v, n, t) /\ SetWorld(v) /\ UNCHANGED <<conf, life, reader>>
  BY <1>5, FoundChannels
<1> QED
  BY <1>1, <1>2, <1>3, <1>4, <1>5 DEF StepKind

LEMMA InitChannels == Init => Channels!Init
<1> SUFFICES ASSUME Init PROVE Channels!Init
  OBVIOUS
<1>1. \A n \in Names : ~InTable(n)
  BY DEF Init, InTable
<1> QED
  BY <1>1 DEF Channels!Init

-----------------------------------------------------------------------------
(* The theorems.                                                           *)

LEMMA LiveInvariant ==
  ASSUME Http = {} \/ OneName
  PROVE  Spec => []LiveInv
<1>1. LiveInv /\ [Next]_vars => LiveInv'
  BY EveryStep, StepLive
<1> QED
  BY <1>1, InitLive, PTL DEF Spec

\* The variables keep their types.
THEOREM TypeCorrect ==
  ASSUME Http = {} \/ OneName
  PROVE  Spec => []TypeOK
<1>1. LiveInv => TypeOK
  BY DEF LiveInv
<1> QED
  BY <1>1, LiveInvariant, PTL

\* ngx_rtmp_live_get_stream takes a struct from the free list and
\* ngx_rtmp_live_close_stream puts an empty one back: none is lost, found under
\* two names, or made a new stream while it has members.
THEOREM StructsAreAccounted ==
  ASSUME Http = {} \/ OneName
  PROVE  Spec => []StreamsAccounted
<1>1. LiveInv => StreamsAccounted
  BY DEF LiveInv
<1> QED
  BY <1>1, LiveInvariant, PTL

\* The lists that ngx_rtmp_live_av and ngx_rtmp_live_set_status follow hold the
\* contexts of open sessions only, each in the stream it points to, and pub_ctx
\* is the one member that publishes.
THEOREM ListsHoldOpenSessions ==
  ASSUME Http = {} \/ OneName
  PROVE  Spec => []MembersOpen
<1>1. LiveInv => MembersOpen
  BY DEF LiveInv
<1> QED
  BY <1>1, LiveInvariant, PTL

\* Without idle_streams, ngx_rtmp_live_close_stream has ended every player of
\* a stream that has no publisher.
THEOREM NoOrphans ==
  ASSUME Http = {} \/ OneName
  PROVE  Spec => []OrphansFinalized
<1>1. LiveInv => OrphansFinalized
  BY DEF LiveInv
<1> QED
  BY <1>1, LiveInvariant, PTL

\* ngx_rtmp_live_set_status and ngx_rtmp_live_close_stream leave the timer of
\* ngx_rtmp_live_idle running for a publisher in its stream only, so that it
\* never expires in a freed context.
THEOREM TimerOfPublisher ==
  ASSUME Http = {} \/ OneName
  PROVE  Spec => []IdleTimerSound
<1>1. LiveInv => IdleTimerSound
  BY DEF LiveInv
<1> QED
  BY <1>1, LiveInvariant, PTL

\* ngx_http_flv_live_join and ngx_rtmp_live_set_status keep an HTTP player that
\* is in a list in step with its stream, and its s->publisher an open session.
THEOREM HttpPlayersFollow ==
  ASSUME Http = {} \/ OneName
  PROVE  Spec => []HttpFollows
<1>1. LiveInv => HttpFollows
  BY DEF LiveInv
<1> QED
  BY <1>1, LiveInvariant, PTL

\* Joining, switching and leaving streams, with the hash table, the member
\* lists and the recycled structs, implement one channel per name: every step
\* is a step of LiveChannels or changes no channel.
THEOREM StreamsAreChannels ==
  ASSUME Http = {} \/ OneName
  PROVE  Spec => ChannelsKept
<1>1. LiveInv /\ LiveInv' /\ [Next]_vars => [Channels!Next]_(Channels!channels)
  BY EveryStep, StepChannels
<1>2. Spec => []LiveInv
  BY LiveInvariant
<1> QED
  BY <1>1, <1>2, InitChannels, PTL DEF Spec, ChannelsKept, Channels!Spec

====
