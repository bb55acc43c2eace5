-------------------------- MODULE DashboardProofs ---------------------------
(***************************************************************************)
(* Proofs about the dashboard: what a browser's view is when everything    *)
(* that is on its way has been applied, and why that is the bridge's state *)
(* or about to become it.                                                  *)
(***************************************************************************)
EXTENDS DashboardProperties, FiniteSetTheorems, WellFoundedInduction, TLAPS

-----------------------------------------------------------------------------
(***************************************************************************)
(* Induction over the natural numbers.  The induction rules of the library *)
(* take an operator; these take the set of the numbers that have the       *)
(* property.                                                               *)
(***************************************************************************)

\* A set of natural numbers that is not empty has a least element.
LEMMA LeastNumber ==
  ASSUME NEW T, T \subseteq Nat, T # {}
  PROVE  \E n \in T : \A m \in T : n <= m
<1>1. PICK k \in T : k \in Nat
  OBVIOUS
<1> DEFINE upTo == {0..n : n \in T \cap 0..k}
<1>2. IsWellFoundedOn(StrictSubsetOrdering(0..k), SUBSET (0..k))
  <2>1. IsFiniteSet(0..k)
    BY <1>1, FS_Interval
  <2>2. FiniteSubsetsOf(0..k) = SUBSET (0..k)
    BY <2>1, FS_FiniteSubsetsOfFinite
  <2>3. IsWellFoundedOn(StrictSubsetOrdering(0..k), FiniteSubsetsOf(0..k))
    BY FS_StrictSubsetOrderingWellFounded
  <2> QED BY <2>2, <2>3
<1>3. upTo \subseteq SUBSET (0..k) /\ upTo # {}
  <2>1. k \in T \cap 0..k
    BY <1>1
  <2> QED BY <2>1
<1>4. PICK first \in upTo : \A s \in upTo : <<s, first>> \notin StrictSubsetOrdering(0..k)
  <2> HIDE DEF upTo
  <2> QED BY <1>2, <1>3, WFMin
<1>5. PICK n \in T \cap 0..k : first = 0..n
  BY <1>4
<1>6. ASSUME NEW m \in T, m < n PROVE FALSE
  <2>1. m \in 0..k /\ 0..m \in upTo
    BY <1>1, <1>5, <1>6
  <2>2. n \in 0..n /\ n \notin 0..m
    BY <1>1, <1>5, <1>6
  <2>3. (0..m) \subseteq (0..n) /\ 0..m # 0..n
    BY <1>5, <1>6, <2>2
  <2>4. <<0..m, first>> \in StrictSubsetOrdering(0..k)
    BY <2>1, <2>3, <1>3, <1>5 DEF StrictSubsetOrdering
  <2> QED BY <2>1, <2>4, <1>4
<1> QED BY <1>5, <1>6

\* A set that holds zero and, with a number, the next one holds them all.
LEMMA Induction ==
  ASSUME NEW T, 0 \in T, \A n \in Nat : n \in T => n + 1 \in T
  PROVE  \A n \in Nat : n \in T
<1> DEFINE left == {n \in Nat : n \notin T}
<1>1. SUFFICES ASSUME left # {} PROVE FALSE
  OBVIOUS
<1>2. PICK n \in left : \A m \in left : n <= m
  <2>1. left \subseteq Nat
    OBVIOUS
  <2> HIDE DEF left
  <2> QED BY <1>1, <2>1, LeastNumber
<1>3. n \in Nat /\ n # 0 /\ n - 1 \in Nat
  BY <1>2
<1>4. n - 1 \notin left
  BY <1>2, <1>3
<1> QED BY <1>2, <1>3, <1>4

-----------------------------------------------------------------------------
(***************************************************************************)
(* The reducer over a batch.                                               *)
(***************************************************************************)

\* f[m] is what the first m envelopes of a batch make of a view.
IsFold(f, view_, batch, n) ==
  f = [m \in 0..n |-> IF m = 0 THEN view_ ELSE applyEnvelope(f[m - 1], batch[m])]

\* Such an f exists for every length.
LEMMA FoldExists ==
  ASSUME NEW view_, NEW batch, NEW n \in Nat
  PROVE  \E f : IsFold(f, view_, batch, n)
<1> DEFINE has == {k \in Nat : \E f : IsFold(f, view_, batch, k)}
<1>1. 0 \in has
  <2> DEFINE f == [m \in 0..0 |-> view_]
  <2>1. IsFold(f, view_, batch, 0)
    BY DEF IsFold
  <2> QED BY <2>1
<1>2. ASSUME NEW k \in Nat, k \in has
      PROVE  k + 1 \in has
  <2>1. PICK f : IsFold(f, view_, batch, k)
    BY <1>2
  <2> DEFINE g == [m \in 0..(k + 1) |->
                     IF m = k + 1 THEN applyEnvelope(f[k], batch[k + 1]) ELSE f[m]]
  <2>2. \A m \in 0..(k + 1) :
          g[m] = IF m = 0 THEN view_ ELSE applyEnvelope(g[m - 1], batch[m])
    <3> SUFFICES ASSUME NEW m \in 0..(k + 1)
                 PROVE  g[m] = IF m = 0 THEN view_ ELSE applyEnvelope(g[m - 1], batch[m])
      OBVIOUS
    <3>1. CASE m = k + 1
      <4>1. g[m] = applyEnvelope(f[k], batch[k + 1]) /\ g[k] = f[k] /\ m - 1 = k /\ m # 0
        BY <3>1
      <4> QED BY <4>1, <3>1
    <3>2. CASE m # k + 1
      <4>1. m \in 0..k /\ g[m] = f[m]
        BY <3>2
      <4>2. f[m] = IF m = 0 THEN view_ ELSE applyEnvelope(f[m - 1], batch[m])
        BY <4>1, <2>1 DEF IsFold
      <4>3. m # 0 => g[m - 1] = f[m - 1]
        BY <4>1
      <4> HIDE DEF g
      <4> QED BY <4>1, <4>2, <4>3
    <3> QED BY <3>1, <3>2
  <2>3. g = [m \in 0..(k + 1) |->
               IF m = 0 THEN view_ ELSE applyEnvelope(g[m - 1], batch[m])]
    <3>1. DOMAIN g = 0..(k + 1) /\ g = [m \in 0..(k + 1) |-> g[m]]
      OBVIOUS
    <3> HIDE DEF g
    <3> QED BY <2>2, <3>1
  <2>4. \E h : IsFold(h, view_, batch, k + 1)
    <3> HIDE DEF g
    <3> QED BY <2>3 DEF IsFold
  <2> QED BY <2>4
<1>3. \A k \in Nat : k \in has
  <2> HIDE DEF has
  <2> QED BY <1>1, <1>2, Induction
<1> QED BY <1>3

\* The reducer's batch is the last value of such an f.
LEMMA FoldOf ==
  ASSUME NEW view_, NEW batch, Len(batch) \in Nat
  PROVE  \E f : IsFold(f, view_, batch, Len(batch)) /\ applyBatch(view_, batch) = f[Len(batch)]
<1> DEFINE after == CHOOSE f : IsFold(f, view_, batch, Len(batch))
<1>1. IsFold(after, view_, batch, Len(batch))
  BY FoldExists
<1>2. applyBatch(view_, batch) = after[Len(batch)]
  BY DEF applyBatch, IsFold
<1> HIDE DEF after
<1> QED BY <1>1, <1>2

\* The first k envelopes of c are those of b after its first d.
Follows(c, k, b, d) == \A m \in 1..k : c[m] = b[m + d]

\* Two folds over the same envelopes that start alike stay alike.
LEMMA FoldsAgree ==
  ASSUME NEW v, NEW b, NEW n \in Nat, NEW f, IsFold(f, v, b, n),
         NEW w, NEW c, NEW k \in Nat, NEW g, IsFold(g, w, c, k),
         NEW d \in Nat, k + d <= n, w = f[d],
         Follows(c, k, b, d)
  PROVE  g[k] = f[k + d]
<1> DEFINE same == {m \in Nat : m <= k => g[m] = f[m + d]}
<1>1. 0 \in same
  <2>1. g[0] = w
    BY DEF IsFold
  <2> QED BY <2>1
<1>2. ASSUME NEW m \in Nat, m \in same
      PROVE  m + 1 \in same
  <2>1. CASE m + 1 <= k
    <3>1. g[m + 1] = applyEnvelope(g[m], c[m + 1])
      <4>1. m + 1 \in 0..k /\ m + 1 # 0 /\ (m + 1) - 1 = m
        BY <2>1
      <4> QED BY <4>1 DEF IsFold
    <3>2. f[m + 1 + d] = applyEnvelope(f[m + d], b[m + 1 + d])
      <4>1. m + 1 + d \in 0..n /\ m + 1 + d # 0 /\ (m + 1 + d) - 1 = m + d
        BY <2>1
      <4> QED BY <4>1 DEF IsFold
    <3>3. c[m + 1] = b[m + 1 + d] /\ g[m] = f[m + d]
      BY <2>1, <1>2 DEF Follows
    <3> QED BY <3>1, <3>2, <3>3
  <2>2. CASE ~(m + 1 <= k)
    BY <2>2
  <2> QED BY <2>1, <2>2
<1>3. \A m \in Nat : m \in same
  <2> HIDE DEF same
  <2> QED BY <1>1, <1>2, Induction
<1> QED BY <1>3

\* No envelope leaves the view as it is.
LEMMA NothingApplied ==
  ASSUME NEW v
  PROVE  applyBatch(v, <<>>) = v
<1>1. PICK f : IsFold(f, v, <<>>, Len(<<>>)) /\ applyBatch(v, <<>>) = f[Len(<<>>)]
  BY FoldOf
<1> QED BY <1>1 DEF IsFold

\* The envelope that came last is applied last.
LEMMA LastApplied ==
  ASSUME NEW S, NEW v, NEW b \in Seq(S), NEW e \in S
  PROVE  applyBatch(v, Append(b, e)) = applyEnvelope(applyBatch(v, b), e)
<1> DEFINE c == Append(b, e)
<1>1. Len(b) \in Nat /\ Len(c) = Len(b) + 1 /\ c[Len(b) + 1] = e
      /\ \A i \in 1..Len(b) : c[i] = b[i]
  OBVIOUS
<1> HIDE DEF c
<1>2. PICK f : IsFold(f, v, c, Len(c)) /\ applyBatch(v, c) = f[Len(c)]
  BY <1>1, FoldOf
<1>3. PICK g : IsFold(g, v, b, Len(b)) /\ applyBatch(v, b) = g[Len(b)]
  BY <1>1, FoldOf
<1>4. f[0] = v
  BY <1>1, <1>2 DEF IsFold
<1>5. g[Len(b)] = f[Len(b) + 0]
  <2>1. Len(b) + 0 <= Len(c) /\ 0 \in Nat /\ v = f[0]
    BY <1>1, <1>4
  <2>2. Follows(b, Len(b), c, 0)
    BY <1>1 DEF Follows
  <2>3. Len(b) \in Nat /\ Len(c) \in Nat /\ IsFold(f, v, c, Len(c)) /\ IsFold(g, v, b, Len(b))
    BY <1>1, <1>2, <1>3
  <2> QED BY <2>1, <2>2, <2>3, FoldsAgree
<1>6. f[Len(c)] = applyEnvelope(f[Len(b)], e)
  <2>1. Len(c) \in 0..Len(c) /\ Len(c) # 0 /\ Len(c) - 1 = Len(b)
    BY <1>1
  <2> QED BY <1>1, <1>2, <2>1 DEF IsFold
<1> QED BY <1>1, <1>2, <1>3, <1>5, <1>6 DEF c

\* The envelope that came first is applied first.
LEMMA FirstApplied ==
  ASSUME NEW S, NEW v, NEW b \in Seq(S), b # <<>>
  PROVE  applyBatch(v, b) = applyBatch(applyEnvelope(v, Head(b)), Tail(b))
<1> DEFINE w == applyEnvelope(v, Head(b))
           c == Tail(b)
<1>1. Len(b) \in Nat /\ Len(b) >= 1 /\ Len(c) = Len(b) - 1 /\ Len(c) \in Nat /\ Head(b) = b[1]
      /\ \A i \in 1..Len(c) : c[i] = b[i + 1]
  OBVIOUS
<1> HIDE DEF c
<1>2. PICK f : IsFold(f, v, b, Len(b)) /\ applyBatch(v, b) = f[Len(b)]
  BY <1>1, FoldOf
<1>3. f[1] = w
  <2>1. f[0] = v
    BY <1>1, <1>2 DEF IsFold
  <2>2. 1 \in 0..Len(b) /\ 1 - 1 = 0
    BY <1>1
  <2> QED BY <1>1, <1>2, <2>1, <2>2 DEF IsFold
<1> HIDE DEF w
<1>4. PICK g : IsFold(g, w, c, Len(c)) /\ applyBatch(w, c) = g[Len(c)]
  BY <1>1, FoldOf
<1>5. g[Len(c)] = f[Len(c) + 1]
  <2>1. Len(c) + 1 <= Len(b) /\ 1 \in Nat /\ w = f[1]
    BY <1>1, <1>3
  <2>2. Follows(c, Len(c), b, 1)
    BY <1>1 DEF Follows
  <2>3. Len(b) \in Nat /\ Len(c) \in Nat /\ IsFold(f, v, b, Len(b)) /\ IsFold(g, w, c, Len(c))
    BY <1>1, <1>2, <1>4
  <2> QED BY <2>1, <2>2, <2>3, FoldsAgree
<1> QED BY <1>1, <1>2, <1>4, <1>5 DEF w, c

-----------------------------------------------------------------------------
(***************************************************************************)
(* The registry without some sockets.                                      *)
(***************************************************************************)

In(list, x) == \E i \in DOMAIN list : list[i] = x

\* f[m] is what is kept of the first m sockets of a list.
IsKept(f, list, S, n) ==
  f = [m \in 0..n |-> IF m = 0 THEN <<>>
                      ELSE IF list[m] \in S THEN f[m - 1]
                      ELSE Append(f[m - 1], list[m])]

\* One more socket kept or left out.
Keep(seq, x, S) == IF x \in S THEN seq ELSE Append(seq, x)

\* Such an f exists for every length.
LEMMA KeptExists ==
  ASSUME NEW list, NEW S, NEW n \in Nat
  PROVE  \E f : IsKept(f, list, S, n)
<1> DEFINE has == {k \in Nat : \E f : IsKept(f, list, S, k)}
<1>1. 0 \in has
  <2> DEFINE f == [m \in 0..0 |-> <<>>]
  <2>1. IsKept(f, list, S, 0)
    BY DEF IsKept
  <2> QED BY <2>1
<1>2. ASSUME NEW k \in Nat, k \in has
      PROVE  k + 1 \in has
  <2>1. PICK f : IsKept(f, list, S, k)
    BY <1>2
  <2> DEFINE g == [m \in 0..(k + 1) |->
                     IF m = k + 1 THEN Keep(f[k], list[k + 1], S) ELSE f[m]]
  <2>2. \A m \in 0..(k + 1) :
          g[m] = IF m = 0 THEN <<>> ELSE Keep(g[m - 1], list[m], S)
    <3> SUFFICES ASSUME NEW m \in 0..(k + 1)
                 PROVE  g[m] = IF m = 0 THEN <<>> ELSE Keep(g[m - 1], list[m], S)
      OBVIOUS
    <3>1. CASE m = k + 1
      <4>1. g[m] = Keep(f[k], list[k + 1], S) /\ g[k] = f[k] /\ m - 1 = k /\ m # 0
        BY <3>1
      <4> QED BY <4>1, <3>1
    <3>2. CASE m # k + 1
      <4>1. m \in 0..k /\ g[m] = f[m]
        BY <3>2
      <4>2. f[m] = IF m = 0 THEN <<>> ELSE Keep(f[m - 1], list[m], S)
        BY <4>1, <2>1 DEF IsKept, Keep
      <4>3. m # 0 => g[m - 1] = f[m - 1]
        BY <4>1
      <4> HIDE DEF g
      <4> QED BY <4>1, <4>2, <4>3
    <3> QED BY <3>1, <3>2
  <2>3. DOMAIN g = 0..(k + 1) /\ g = [m \in 0..(k + 1) |-> g[m]]
    OBVIOUS
  <2>4. \E h : IsKept(h, list, S, k + 1)
    <3> HIDE DEF g
    <3>1. g = [m \in 0..(k + 1) |-> IF m = 0 THEN <<>> ELSE Keep(g[m - 1], list[m], S)]
      BY <2>2, <2>3
    <3> QED BY <3>1 DEF IsKept, Keep
  <2> QED BY <2>4
<1>3. \A k \in Nat : k \in has
  <2> HIDE DEF has
  <2> QED BY <1>1, <1>2, Induction
<1> QED BY <1>3

\* What a list of sockets and the part kept of it have to do with each other.
PartOf(kept, list, n, S) ==
  /\ kept \in Seq(Sockets)
  /\ \A x : In(kept, x) <=> x \notin S /\ \E i \in 1..n : list[i] = x
  /\ IsInjective(list) => IsInjective(kept)

\* One more socket of the list, kept or left out.
LEMMA OneMoreKept ==
  ASSUME NEW list \in Seq(Sockets), NEW n \in Nat, n + 1 <= Len(list), NEW S,
         NEW kept, PartOf(kept, list, n, S)
  PROVE  PartOf(Keep(kept, list[n + 1], S), list, n + 1, S)
<1> DEFINE x == list[n + 1]
<1>1. x \in Sockets /\ kept \in Seq(Sockets) /\ n + 1 \in DOMAIN list
  BY DEF PartOf
<1>2. \A y : (\E i \in 1..(n + 1) : list[i] = y) <=> (y = x \/ \E i \in 1..n : list[i] = y)
  OBVIOUS
<1>3. CASE x \in S
  <2>1. Keep(kept, x, S) = kept
    BY <1>3 DEF Keep
  <2>2. \A y : In(kept, y) <=> y \notin S /\ \E i \in 1..(n + 1) : list[i] = y
    BY <1>2, <1>3 DEF PartOf
  <2> QED BY <2>1, <2>2 DEF PartOf
<1>4. CASE x \notin S
  <2> DEFINE more == Append(kept, x)
  <2>1. Keep(kept, x, S) = more
    BY <1>4 DEF Keep
  <2>2. more \in Seq(Sockets) /\ Len(more) = Len(kept) + 1 /\ more[Len(kept) + 1] = x
        /\ DOMAIN more = 1..(Len(kept) + 1) /\ DOMAIN kept = 1..Len(kept) /\ Len(kept) \in Nat
        /\ \A i \in 1..Len(kept) : more[i] = kept[i]
    BY <1>1
  <2> HIDE DEF more
  <2>3. \A y : In(more, y) <=> In(kept, y) \/ y = x
    BY <2>2 DEF In
  <2>4. \A y : In(more, y) <=> y \notin S /\ \E i \in 1..(n + 1) : list[i] = y
    BY <1>2, <1>4, <2>3 DEF PartOf
  <2>5. ASSUME IsInjective(list) PROVE IsInjective(more)
    <3>1. ~In(kept, x)
      <4>1. ASSUME In(kept, x) PROVE FALSE
        <5>1. PICK i \in 1..n : list[i] = x
          BY <4>1 DEF PartOf
        <5>2. i \in DOMAIN list /\ i # n + 1
          BY <5>1
        <5> QED BY <5>1, <5>2, <1>1, <2>5 DEF IsInjective
      <4> QED BY <4>1
    <3>2. IsInjective(kept)
      BY <2>5 DEF PartOf
    <3>3. \A i \in 1..Len(kept) : kept[i] # x
      BY <3>1, <2>2 DEF In
    <3> QED BY <2>2, <3>2, <3>3 DEF IsInjective
  <2> QED BY <2>1, <2>2, <2>4, <2>5 DEF PartOf
<1> QED BY <1>3, <1>4

\* Purging S takes the sockets of S out of the registry and no other; it
\* lists no socket twice.
LEMMA WithoutKeeps ==
  ASSUME connections \in Seq(Sockets), NEW S
  PROVE  /\ Without(S) \in Seq(Sockets)
         /\ \A x : In(Without(S), x) <=> In(connections, x) /\ x \notin S
         /\ IsInjective(connections) => IsInjective(Without(S))
<1>1. Len(connections) \in Nat /\ DOMAIN connections = 1..Len(connections)
  OBVIOUS
<1> DEFINE kept == CHOOSE f : IsKept(f, connections, S, Len(connections))
<1>2. IsKept(kept, connections, S, Len(connections))
  BY <1>1, KeptExists
<1>3. Without(S) = kept[Len(connections)]
  BY DEF Without, IsKept
<1> HIDE DEF kept
<1> DEFINE good == {n \in Nat : n <= Len(connections) => PartOf(kept[n], connections, n, S)}
<1>4. 0 \in good
  <2>1. kept[0] = <<>>
    BY <1>1, <1>2 DEF IsKept
  <2>2. PartOf(<<>>, connections, 0, S)
    BY DEF PartOf, In, IsInjective
  <2> QED BY <2>1, <2>2
<1>5. ASSUME NEW n \in Nat, n \in good
      PROVE  n + 1 \in good
  <2>1. CASE n + 1 <= Len(connections)
    <3>1. kept[n + 1] = Keep(kept[n], connections[n + 1], S)
      <4>1. n + 1 \in 0..Len(connections) /\ n + 1 # 0 /\ (n + 1) - 1 = n
        BY <1>1, <2>1
      <4> QED BY <1>2, <4>1 DEF IsKept, Keep
    <3>2. PartOf(kept[n], connections, n, S)
      BY <1>1, <1>5, <2>1
    <3>3. PartOf(kept[n + 1], connections, n + 1, S)
      BY <2>1, <3>1, <3>2, OneMoreKept
    <3> QED BY <3>3
  <2>2. CASE ~(n + 1 <= Len(connections))
    BY <2>2
  <2> QED BY <2>1, <2>2
<1>6. PartOf(Without(S), connections, Len(connections), S)
  <2>1. \A n \in Nat : n \in good
    <3> HIDE DEF good
    <3> QED BY <1>4, <1>5, Induction
  <2> QED BY <1>1, <1>3, <2>1
<1> QED BY <1>1, <1>6 DEF PartOf, In

-----------------------------------------------------------------------------
(***************************************************************************)
(* The inductive invariants.                                               *)
(***************************************************************************)

AStatus == [type : {"system:status"}, phase : Phases \union {NoPhase},
            upstream : {"connected", "disconnected"}]

Envelope == AStatus \union Message \union [type : {"sdn:topology:sync"}, phase : {"static"}]

View ==
  [phase : Phases \union {NoPhase}, upstream : {"null", "connected", "disconnected"},
   topology : Phases \union {NoPhase, "static", "empty"}, incident : Ports \union {NoIncident}]

\* Types of what TypeOK leaves open.
Typed ==
  /\ TypeOK
  /\ envelopes \in Seq(Envelope)
  /\ wire \in [Sockets -> Seq(Envelope)]
  /\ pending \in [Browsers -> Seq(Envelope)]
  /\ view \in [Browsers -> View]
  /\ seamless \in [Browsers -> BOOLEAN]
  /\ reported \subseteq Ports
  /\ envelopes = <<>> => targets = <<>>

Registered(s) == endpoint[s] \in {"registered", "greeted", "live"}

\* The registry holds registered sessions, each once, and all that are up.
Registry ==
  /\ IsInjective(connections)
  /\ \A s \in Sockets : In(connections, s) => Registered(s)
  /\ \A s \in alive : Registered(s) => In(connections, s)

\* A connection has one owner at each end: a failed one is down, one that is
\* down carries nothing, and no new one takes the place of one in use.
Apart ==
  /\ stale \intersect alive = {}
  /\ \A s \in alive : endpoint[s] # "none"
  /\ \A s \in Sockets \ alive : wire[s] = <<>>
  /\ \A s \in Sockets : In(targets, s) => endpoint[s] # "accepted"
  /\ \A b, c \in Browsers : socket[b] = socket[c] /\ socket[b] # NoSocket => b = c

\* What the browser will show when it has received and applied all that was
\* written to its socket.
Delivered(b) == applyBatch(applyBatch(view[b], pending[b]), wire[socket[b]])

\* The multicast has yet to send an envelope of this type to s.
Coming(s, type) ==
  \/ envelopes # <<>> /\ envelopes[1].type = type /\ In(targets, s)
  \/ In(connections, s) /\ \E i \in DOMAIN envelopes : i > 1 /\ envelopes[i].type = type

\* What is being multicast is not out of date.
EnvelopesCurrent ==
  \A i \in DOMAIN envelopes :
    /\ envelopes[i].type = "system:status" => envelopes[i] = status_payload
    /\ envelopes[i].type = "sdn:topology:sync" => envelopes[i].phase = topology
    /\ envelopes[i].type = "sdn:anomaly:alert" => envelopes[i].port \in reported

StatusArrives(b) ==
  \/ Delivered(b).phase = phase /\ Delivered(b).upstream = status_payload.upstream
  \/ endpoint[socket[b]] \in {"accepted", "registered", "greeted"}
  \/ Coming(socket[b], "system:status")

TopologyArrives(b) ==
  \/ Delivered(b).topology = topology
  \/ endpoint[socket[b]] \in {"accepted", "registered"}
  \/ Coming(socket[b], "sdn:topology:sync")

\* A connected browser is going to show the bridge's state: it was written
\* to its socket, or the endpoint or the multicast is going to.
Arrives ==
  \A b \in Browsers : socket[b] \in alive => StatusArrives(b) /\ TopologyArrives(b)

\* A page that lost no connection has heard nothing before it registers.
Untouched ==
  \A b \in Browsers :
    seamless[b] /\ (socket[b] = NoSocket \/ endpoint[socket[b]] = "accepted")
      => /\ view[b] = initialState
         /\ pending[b] = <<>>
         /\ socket[b] # NoSocket => wire[socket[b]] = <<>>

\* Such a page knows the last phase, or none.
PhaseKnown(b) ==
  \/ Delivered(b).phase \in {phase, NoPhase}
  \/ Coming(socket[b], "system:status")

\* Its incident is of the present attack, or the status that closes it comes.
IncidentArrives(b) ==
  \/ Delivered(b).incident \in reported \union {NoIncident}
  \/ /\ phase \in CLOSED_PHASES
     /\ Delivered(b).phase # phase
     /\ Coming(socket[b], "system:status")

Incidents ==
  /\ phase \in CLOSED_PHASES => reported = {}
  /\ \A b \in Browsers : seamless[b] /\ socket[b] \in alive => PhaseKnown(b) /\ IncidentArrives(b)

IInv == Typed /\ Registry /\ Apart /\ EnvelopesCurrent /\ Arrives /\ Untouched /\ Incidents

-----------------------------------------------------------------------------
(***************************************************************************)
(* What one envelope does to a view.                                       *)
(***************************************************************************)

\* A status sets the phase and the badge, and closes the incident when it
\* brings a closed phase; a sync sets the topology; an alert can open an
\* incident; nothing else changes a view.
Effect(v, e, w) ==
  /\ w \in View
  /\ e.type = "system:status"
       => /\ w.phase = e.phase /\ w.upstream = e.upstream
          /\ e.phase \in CLOSED_PHASES /\ e.phase # v.phase => w.incident = NoIncident
  /\ e.type # "system:status" => w.phase = v.phase /\ w.upstream = v.upstream
  /\ e.type = "sdn:topology:sync" => w.topology = e.phase
  /\ e.type # "sdn:topology:sync" => w.topology = v.topology
  /\ \/ w.incident \in {v.incident, NoIncident}
     \/ e.type = "sdn:anomaly:alert" /\ w.incident = e.port

\* So applyEnvelope does.
LEMMA ApplyEffect ==
  ASSUME NEW v \in View, NEW e \in Envelope
  PROVE  Effect(v, e, applyEnvelope(v, e))
<1>1. CASE e.type = "system:status"
  <2>1. e \in AStatus
    BY <1>1 DEF Envelope, Message
  <2>2. applyEnvelope(v, e) = applyStatus(v, e)
    BY <1>1 DEF applyEnvelope
  <2>3. CASE e.phase = v.phase
    <3> DEFINE w == [v EXCEPT !.upstream = e.upstream]
    <3>1. w \in View /\ w.phase = v.phase /\ w.upstream = e.upstream
          /\ w.topology = v.topology /\ w.incident = v.incident
      BY <2>1 DEF View, AStatus
    <3>2. applyStatus(v, e) = w
      BY <2>3 DEF applyStatus
    <3> HIDE DEF w
    <3> QED BY <1>1, <2>2, <2>3, <3>1, <3>2 DEF Effect
  <2>4. CASE e.phase # v.phase
    <3> DEFINE closed == IF e.phase \in CLOSED_PHASES THEN NoIncident ELSE v.incident
               w == [v EXCEPT !.upstream = e.upstream, !.phase = e.phase, !.incident = closed]
    <3>1. w \in View /\ w.phase = e.phase /\ w.upstream = e.upstream
          /\ w.topology = v.topology /\ w.incident = closed
      BY <2>1 DEF View, AStatus
    <3>2. applyStatus(v, e) = w
      BY <2>4 DEF applyStatus
    <3> HIDE DEF w
    <3> QED BY <1>1, <2>2, <2>4, <3>1, <3>2 DEF Effect
  <2> QED BY <2>3, <2>4
<1>2. CASE e.type = "sdn:anomaly:alert"
  <2>1. e.port \in Ports
    BY <1>2 DEF Envelope, AStatus, Message
  <2>2. applyEnvelope(v, e) = openIncident(v, e)
    BY <1>2 DEF applyEnvelope
  <2>3. CASE v.incident = NoIncident
    <3> DEFINE w == [v EXCEPT !.incident = e.port]
    <3>1. w \in View /\ w.phase = v.phase /\ w.upstream = v.upstream
          /\ w.topology = v.topology /\ w.incident = e.port
      BY <2>1 DEF View
    <3>2. openIncident(v, e) = w
      BY <2>3 DEF openIncident
    <3> HIDE DEF w
    <3> QED BY <1>2, <2>2, <3>1, <3>2 DEF Effect
  <2>4. CASE v.incident # NoIncident
    <3>1. openIncident(v, e) = v
      BY <2>4 DEF openIncident
    <3> QED BY <1>2, <2>2, <3>1 DEF Effect
  <2> QED BY <2>3, <2>4
<1>3. CASE e.type = "sdn:topology:sync"
  <2>1. e.phase \in Phases \union {NoPhase, "static"}
    BY <1>3 DEF Envelope, AStatus, Message
  <2> DEFINE w == [v EXCEPT !.topology = e.phase]
  <2>2. w \in View /\ w.phase = v.phase /\ w.upstream = v.upstream
        /\ w.topology = e.phase /\ w.incident = v.incident
    BY <2>1 DEF View
  <2>3. applyEnvelope(v, e) = w
    BY <1>3 DEF applyEnvelope
  <2> HIDE DEF w
  <2> QED BY <1>3, <2>2, <2>3 DEF Effect
<1>4. CASE e.type \notin {"system:status", "sdn:anomaly:alert", "sdn:topology:sync"}
  <2>1. applyEnvelope(v, e) = v
    BY <1>4 DEF applyEnvelope
  <2> QED BY <1>4, <2>1 DEF Effect
<1> QED BY <1>1, <1>2, <1>3, <1>4

\* A batch makes a view of a view.
LEMMA BatchTyped ==
  ASSUME NEW v \in View, NEW b \in Seq(Envelope)
  PROVE  applyBatch(v, b) \in View
<1>1. Len(b) \in Nat /\ \A i \in 1..Len(b) : b[i] \in Envelope
  OBVIOUS
<1>2. PICK f : IsFold(f, v, b, Len(b)) /\ applyBatch(v, b) = f[Len(b)]
  BY <1>1, FoldOf
<1> DEFINE good == {n \in Nat : n <= Len(b) => f[n] \in View}
<1>3. 0 \in good
  BY <1>1, <1>2 DEF IsFold
<1>4. ASSUME NEW n \in Nat, n \in good
      PROVE  n + 1 \in good
  <2>1. CASE n + 1 <= Len(b)
    <3>1. n + 1 \in 0..Len(b) /\ n + 1 # 0 /\ (n + 1) - 1 = n
      BY <1>1, <2>1
    <3>2. f[n + 1] = applyEnvelope(f[n], b[n + 1])
      BY <1>2, <3>1 DEF IsFold
    <3>3. f[n] \in View /\ b[n + 1] \in Envelope
      BY <1>1, <1>4, <2>1
    <3>4. f[n + 1] \in View
      BY <3>2, <3>3, ApplyEffect DEF Effect
    <3> QED BY <3>4
  <2>2. CASE ~(n + 1 <= Len(b))
    BY <2>2
  <2> QED BY <2>1, <2>2
<1>5. \A n \in Nat : n \in good
  <2> HIDE DEF good
  <2> QED BY <1>3, <1>4, Induction
<1> QED BY <1>1, <1>2, <1>5

\* So is what will have been delivered.
LEMMA DeliveredTyped ==
  ASSUME Typed, NEW b \in Browsers, socket[b] \in Sockets
  PROVE  Delivered(b) \in View
<1>1. view[b] \in View /\ pending[b] \in Seq(Envelope) /\ wire[socket[b]] \in Seq(Envelope)
  BY DEF Typed
<1> QED BY <1>1, BatchTyped DEF Delivered

\* The messages of Redis, the snapshots and the status are envelopes.
LEMMA Envelopes ==
  /\ \A m \in Messages : m \in Envelope
  /\ \A p \in Phases \union {NoPhase}, c \in BOOLEAN :
       Status(p, c) \in Envelope /\ Status(p, c).type = "system:status"
  /\ Typed => /\ status_payload \in Envelope /\ status_payload.type = "system:status"
              /\ topology_snapshot \in Envelope
<1>1. \A m \in Messages : m \in Envelope
  BY BridgeAssumption DEF Envelope
<1>2. \A p \in Phases \union {NoPhase}, c \in BOOLEAN :
        Status(p, c) \in Envelope /\ Status(p, c).type = "system:status"
  BY DEF Status, Envelope, AStatus
<1>3. ASSUME Typed
      PROVE  /\ status_payload \in Envelope /\ status_payload.type = "system:status"
             /\ topology_snapshot \in Envelope
  <2>1. phase \in Phases \union {NoPhase} /\ connected \in BOOLEAN
        /\ topology \in Phases \union {NoPhase, "static"}
    BY <1>3 DEF Typed, TypeOK
  <2>2. topology_snapshot \in Envelope
    BY <2>1 DEF topology_snapshot, Envelope, Message
  <2> QED BY <1>2, <2>1, <2>2 DEF status_payload
<1> QED BY <1>1, <1>2, <1>3

-----------------------------------------------------------------------------
(***************************************************************************)
(* The steps by what they do to connections: every action is one of these. *)
(***************************************************************************)

ends_vars == <<endpoint, browser_vars>>

\* What has changed is said, and said right; what is reported is forgotten
\* only when the phase is closed.
Announces ==
  /\ EnvelopesCurrent'
  /\ phase' # phase \/ connected' # connected
       => \E i \in DOMAIN envelopes' : envelopes'[i].type = "system:status"
  /\ topology' # topology
       => \E i \in DOMAIN envelopes' : envelopes'[i].type = "sdn:topology:sync"
  /\ phase' # phase => phase' # NoPhase
  /\ phase' \in CLOSED_PHASES => reported' = {} \/ UNCHANGED <<phase, reported>>
  /\ reported \subseteq reported' \/ phase' \in CLOSED_PHASES

\* A message or a change of the connection to Redis enters the multicast.
Starts(es) ==
  /\ idle
  /\ es \in Seq(Envelope) /\ es # <<>>
  /\ broadcast(es)
  /\ phase' \in Phases \union {NoPhase}
  /\ topology' \in Phases \union {NoPhase, "static"}
  /\ connected' \in BOOLEAN
  /\ reported' \subseteq Ports
  /\ UNCHANGED <<connections, socket_vars, ends_vars>>
  /\ Announces

Sends == BroadcastSend /\ UNCHANGED <<bridge_vars, ends_vars, reported>>
Purges == BroadcastEnds /\ UNCHANGED <<bridge_vars, ends_vars, reported>>

Registers(s) ==
  /\ Goes(s, "accepted", "registered")
  /\ connections' = Append(connections, s)
  /\ UNCHANGED <<socket_vars, broadcast_vars, bridge_vars, browser_vars, reported>>

\* A snapshot goes to a registered session.
Greets(s, from, to, e) ==
  /\ from \in {"registered", "greeted"} /\ to \in {"greeted", "live"}
  /\ e \in Envelope
  /\ Goes(s, from, to)
  /\ send_to(s, e)
  /\ UNCHANGED <<alive, broadcast_vars, bridge_vars, browser_vars, reported>>

Leaves(s) ==
  /\ s \notin alive
  /\ Goes(s, "live", "none")
  /\ disconnect(s)
  /\ UNCHANGED <<socket_vars, broadcast_vars, bridge_vars, browser_vars, reported>>

Loses(s) ==
  /\ Drop({s})
  /\ UNCHANGED <<connections, broadcast_vars, bridge_vars, ends_vars, reported>>

Opened(b, s) == Opens(b, s) /\ socket[b] = NoSocket
Closes(b) == Closed(b) /\ UNCHANGED reported

Restarts ==
  /\ Drop(Sockets)
  /\ connections' = <<>> /\ envelopes' = <<>> /\ targets' = <<>> /\ stale' = {}
  /\ phase' = NoPhase /\ topology' = "static" /\ connected' = FALSE
  /\ endpoint' = [s \in Sockets |-> "none"]
  /\ UNCHANGED <<browser_vars, reported>>

Reloads(b) ==
  /\ socket' = [socket EXCEPT ![b] = NoSocket]
  /\ pending' = [pending EXCEPT ![b] = <<>>]
  /\ view' = [view EXCEPT ![b] = initialState]
  /\ seamless' = [seamless EXCEPT ![b] = TRUE]
  /\ UNCHANGED <<hub_vars, bridge_vars, endpoint, reported>>

Stutters == UNCHANGED <<hub_vars, bridge_vars, endpoint, browser_vars, reported>>

Kinds ==
  \/ \E es \in Seq(Envelope) : Starts(es)
  \/ Sends
  \/ Purges
  \/ \E s \in Sockets :
       \/ Registers(s)
       \/ Greets(s, "registered", "greeted", topology_snapshot)
       \/ Greets(s, "greeted", "live", status_payload)
       \/ Leaves(s) \/ Loses(s)
  \/ \E b \in Browsers, s \in Sockets : Opened(b, s)
  \/ \E b \in Browsers : Receive(b) \/ Flush(b) \/ Closes(b) \/ Reloads(b)
  \/ Restarts
  \/ Stutters

\* A message leaves the phase as it is or names one.
LEMMA ObserveTyped ==
  ASSUME phase \in Phases \union {NoPhase}, NEW m \in Messages
  PROVE  observe(m) \in Phases \union {phase}
<1>1. m \in Message
  BY BridgeAssumption
<1>2. CASE m.type = "sdn:anomaly:alert"
  BY <1>2 DEF observe, Phases, NoPhase
<1>3. CASE m.type = "sdn:control:command"
  <2>1. CASE m.action \in {"ISOLATE", "REROUTE"}
    BY <1>3, <2>1 DEF observe, Phases
  <2>2. CASE m.action = "RESTORE"
    BY <1>3, <2>2 DEF observe, Phases
  <2>3. CASE m.action \notin {"ISOLATE", "REROUTE", "RESTORE"}
    BY <1>3, <2>3 DEF observe, Phases
  <2> QED BY <2>1, <2>2, <2>3
<1>4. CASE m.type = "sdn:topology:sync"
  <2>1. m.phase \in Phases \union {NoPhase}
    BY <1>1, <1>4 DEF Message
  <2> QED BY <1>4, <2>1 DEF observe, Phases, NoPhase
<1>5. CASE m.type = "sdn:stats:port"
  BY <1>5 DEF observe, Phases, NoPhase
<1> QED BY <1>1, <1>2, <1>3, <1>4, <1>5 DEF Message

\* Relaying a message starts a multicast of it, with the new status when the
\* phase changed.
LEMMA RelayStarts ==
  ASSUME Typed, NEW m \in Messages, Relay(m)
  PROVE  /\ phase' = observe(m) /\ phase' \in Phases \union {phase}
         /\ envelopes' = IF phase' # phase THEN <<m, Status(phase', connected)>> ELSE <<m>>
         /\ Starts(envelopes')
<1>1. /\ idle /\ phase' = observe(m) /\ UNCHANGED <<connected, connections, socket_vars>>
      /\ topology' = IF m.type = "sdn:topology:sync" THEN m.phase ELSE topology
      /\ broadcast(IF phase' # phase THEN <<m, Status(phase', connected)>> ELSE <<m>>)
      /\ UNCHANGED ends_vars
      /\ reported' = IF phase' \in CLOSED_PHASES THEN {}
                     ELSE IF m.type = "sdn:anomaly:alert" THEN reported \union {m.port}
                     ELSE reported
  BY DEF Relay, handle_message, Receives, ends_vars
<1>2. phase' \in Phases \union {phase} /\ phase' \in Phases \union {NoPhase}
  BY <1>1, ObserveTyped DEF Typed, TypeOK
<1>3. connected \in BOOLEAN /\ m \in Envelope /\ m \in Message
  BY Envelopes, BridgeAssumption DEF Typed, TypeOK
<1>4. Status(phase', connected) \in Envelope
  BY <1>2, <1>3, Envelopes
<1>5. envelopes' = IF phase' # phase THEN <<m, Status(phase', connected)>> ELSE <<m>>
  BY <1>1 DEF broadcast
<1>6. envelopes' \in Seq(Envelope) /\ envelopes' # <<>>
  BY <1>3, <1>4, <1>5
<1>7. topology' \in Phases \union {NoPhase, "static"}
  <2>1. m.type = "sdn:topology:sync" => m.phase \in Phases \union {NoPhase}
    BY <1>3 DEF Message
  <2> QED BY <1>1, <2>1 DEF Typed, TypeOK
<1>8. reported' \subseteq Ports
  <2>1. m.type = "sdn:anomaly:alert" => m.port \in Ports
    BY <1>3 DEF Message
  <2> QED BY <1>1, <2>1 DEF Typed
<1>9. broadcast(envelopes')
  BY <1>1, <1>5
<1>10. Announces
  <2>1. /\ envelopes'[1] = m /\ 1 \in DOMAIN envelopes' /\ DOMAIN envelopes' \subseteq {1, 2}
        /\ 2 \in DOMAIN envelopes' <=> phase' # phase
        /\ 2 \in DOMAIN envelopes' => envelopes'[2] = Status(phase', connected)
    BY <1>5
  <2>2. m.type # "system:status"
    BY <1>3 DEF Message
  <2>3. Status(phase', connected).type = "system:status"
        /\ status_payload' = Status(phase', connected)
    BY <1>1 DEF Status, status_payload
  <2>4. m.type = "sdn:anomaly:alert" => m.port \in reported'
    <3>1. m.type = "sdn:anomaly:alert" => phase' \notin CLOSED_PHASES
      BY <1>1 DEF observe, CLOSED_PHASES
    <3> QED BY <1>1, <3>1
  <2>5. EnvelopesCurrent'
    BY <1>1, <2>1, <2>2, <2>3, <2>4 DEF EnvelopesCurrent
  <2> QED BY <1>1, <1>2, <2>1, <2>3, <2>5 DEF Announces, Phases, NoPhase
<1> QED BY <1>1, <1>2, <1>3, <1>5, <1>6, <1>7, <1>8, <1>9, <1>10 DEF Starts

\* So does a change of the connection to Redis, with the status alone.
LEMMA RedisStarts ==
  ASSUME Typed, NEW c \in BOOLEAN, set_connected(c), UNCHANGED <<ends_vars, reported>>
  PROVE  /\ envelopes' = <<Status(phase, c)>> /\ connected' = c /\ UNCHANGED <<phase, topology>>
         /\ Starts(envelopes')
<1>1. Status(phase, c) \in Envelope
  BY Envelopes DEF Typed, TypeOK
<1>2. envelopes' = <<Status(phase, c)>> /\ broadcast(envelopes')
  BY DEF set_connected, broadcast
<1>3. envelopes' \in Seq(Envelope) /\ envelopes' # <<>>
  BY <1>1, <1>2
<1>4. Announces
  <2>1. /\ envelopes'[1] = Status(phase, c) /\ DOMAIN envelopes' = {1}
        /\ status_payload' = Status(phase, c) /\ Status(phase, c).type = "system:status"
    BY <1>2 DEF set_connected, status_payload, Status
  <2>2. EnvelopesCurrent'
    BY <2>1 DEF EnvelopesCurrent
  <2> QED BY <2>1, <2>2 DEF Announces, set_connected
<1> QED BY <1>2, <1>3, <1>4 DEF set_connected, Starts, Typed, TypeOK

\* Every step is of one of these kinds.
LEMMA StepKinds ==
  ASSUME Typed, [Next]_vars
  PROVE  Kinds
<1>1. CASE \E m \in Messages : Relay(m)
  <2>1. Starts(envelopes')
    BY <1>1, RelayStarts
  <2>2. envelopes' \in Seq(Envelope)
    BY <2>1 DEF Starts
  <2> QED BY <2>1, <2>2 DEF Kinds
<1>2. CASE BridgeSubscribes
  <2>1. Starts(envelopes')
    BY <1>2, RedisStarts DEF BridgeSubscribes, RedisSubscribed, ends_vars, bound_vars
  <2>2. envelopes' \in Seq(Envelope)
    BY <2>1 DEF Starts
  <2> QED BY <2>1, <2>2 DEF Kinds
<1>3. CASE RedisDrops
  <2>1. Starts(envelopes')
    BY <1>3, RedisStarts DEF RedisDrops, RedisLost, Fault, ends_vars
  <2>2. envelopes' \in Seq(Envelope)
    BY <2>1 DEF Starts
  <2> QED BY <2>1, <2>2 DEF Kinds
<1>4. CASE Multicast
  <2>1. Sends \/ Purges
    BY <1>4 DEF Multicast, Sends, Purges, ends_vars, bound_vars
  <2> QED BY <2>1 DEF Kinds
<1>5. ASSUME NEW s \in Sockets, EndpointStep(s) \/ ServerNotices(s) \/ ServerLoses(s)
      PROVE  Kinds
  <2>1. CASE Register(s)
    <3>1. Registers(s)
      BY <2>1 DEF Register, Registers, bound_vars
    <3> QED BY <3>1 DEF Kinds
  <2>2. CASE SendTopology(s)
    <3>1. Greets(s, "registered", "greeted", topology_snapshot)
      BY <2>2, Envelopes DEF SendTopology, Greets, bound_vars
    <3> QED BY <3>1 DEF Kinds
  <2>3. CASE SendStatus(s)
    <3>1. Greets(s, "greeted", "live", status_payload)
      BY <2>3, Envelopes DEF SendStatus, Greets, bound_vars
    <3> QED BY <3>1 DEF Kinds
  <2>4. CASE EndpointEnds(s)
    <3>1. Leaves(s)
      BY <2>4 DEF EndpointEnds, Leaves, bound_vars
    <3> QED BY <3>1 DEF Kinds
  <2>5. CASE ServerNotices(s)
    <3>1. Loses(s)
      BY <2>5 DEF ServerNotices, Loses, bound_vars, ends_vars
    <3> QED BY <3>1 DEF Kinds
  <2>6. CASE ServerLoses(s)
    <3>1. Loses(s)
      BY <2>6 DEF ServerLoses, Loses, Fault, ends_vars
    <3> QED BY <3>1 DEF Kinds
  <2> QED BY <1>5, <2>1, <2>2, <2>3, <2>4, <2>5, <2>6 DEF EndpointStep
<1>6. ASSUME NEW b \in Browsers, BrowserStep(b) \/ BrowserLoses(b) \/ Reload(b)
      PROVE  Kinds
  <2>1. CASE Connect(b)
    <3>1. PICK s \in Sockets : Opened(b, s)
      BY <2>1 DEF Connect, Opened
    <3> QED BY <3>1 DEF Kinds
  <2>2. CASE Receive(b)
    BY <2>2 DEF Kinds
  <2>3. CASE Flush(b)
    BY <2>3 DEF Kinds
  <2>4. CASE BrowserNotices(b)
    <3>1. Closes(b)
      BY <2>4 DEF BrowserNotices, Closes, bound_vars
    <3> QED BY <3>1 DEF Kinds
  <2>5. CASE BrowserLoses(b)
    <3>1. Closes(b)
      BY <2>5 DEF BrowserLoses, Closes, Fault
    <3> QED BY <3>1 DEF Kinds
  <2>6. CASE Reload(b)
    <3>1. Reloads(b)
      BY <2>6 DEF Reload, Reloads, Fault
    <3> QED BY <3>1 DEF Kinds
  <2> QED BY <1>6, <2>1, <2>2, <2>3, <2>4, <2>5, <2>6 DEF BrowserStep
<1>7. CASE ServerRestarts
  <2>1. Restarts
    BY <1>7 DEF ServerRestarts, Restarts, Fault
  <2> QED BY <2>1 DEF Kinds
<1>8. CASE UNCHANGED vars
  <2>1. Stutters
    BY <1>8 DEF vars, Stutters, bound_vars
  <2> QED BY <2>1 DEF Kinds
<1> QED BY <1>1, <1>2, <1>3, <1>4, <1>5, <1>6, <1>7, <1>8 DEF Next

-----------------------------------------------------------------------------
(***************************************************************************)
(* Types.                                                                  *)
(***************************************************************************)

\* What no step but those of its owner changes keeps its type.
TypedHub ==
  /\ connections \in Seq(Sockets) /\ targets \in Seq(Sockets)
  /\ alive \subseteq Sockets /\ stale \subseteq Sockets
  /\ envelopes \in Seq(Envelope)
  /\ envelopes = <<>> => targets = <<>>

TypedWire ==
  /\ wire \in [Sockets -> Seq(Envelope)]
  /\ \A s \in Sockets : Len(wire[s]) <= HighWater

TypedBridge ==
  /\ phase \in Phases \union {NoPhase}
  /\ topology \in Phases \union {NoPhase, "static"}
  /\ connected \in BOOLEAN
  /\ reported \subseteq Ports

TypedEnds ==
  /\ endpoint \in [Sockets -> {"none", "accepted", "registered", "greeted", "live"}]
  /\ socket \in [Browsers -> Sockets \union {NoSocket}]
  /\ pending \in [Browsers -> Seq(Envelope)]
  /\ view \in [Browsers -> View]
  /\ seamless \in [Browsers -> BOOLEAN]
  /\ \A b \in Browsers : Len(pending[b]) <= MaxPending

\* Typed, part by part, of a state and of the next.
LEMMA TypedParts ==
  /\ Typed <=> TypedHub /\ TypedWire /\ TypedBridge /\ TypedEnds
  /\ Typed' <=> TypedHub' /\ TypedWire' /\ TypedBridge' /\ TypedEnds'
BY DEF Typed, TypeOK, TypedHub, TypedWire, TypedBridge, TypedEnds

\* A send appends to a wire that has room.
LEMMA SendTyped ==
  ASSUME TypedWire, NEW s \in Sockets, NEW e \in Envelope, Writable(s), send_json(s, e)
  PROVE  TypedWire'
<1>1. wire' \in [Sockets -> Seq(Envelope)]
  BY DEF TypedWire, send_json
<1>2. ASSUME NEW r \in Sockets PROVE Len(wire'[r]) <= HighWater
  <2>1. CASE r = s
    <3>1. wire'[r] = Append(wire[s], e) /\ wire[s] \in Seq(Envelope)
      BY <2>1 DEF TypedWire, send_json
    <3>2. Len(wire'[r]) = Len(wire[s]) + 1 /\ Len(wire[s]) \in Nat
      BY <3>1
    <3> QED BY <3>2, HubAssumption DEF Writable
  <2>2. CASE r # s
    BY <2>2 DEF TypedWire, send_json
  <2> QED BY <2>1, <2>2
<1> QED BY <1>1, <1>2 DEF TypedWire

\* Every step of the hub, an endpoint, the bridge or a browser keeps the types.
LEMMA TypedStep ==
  ASSUME Typed, Kinds
  PROVE  Typed'
<1>0. TypedHub /\ TypedWire /\ TypedBridge /\ TypedEnds
  BY TypedParts
<1> USE <1>0
<1>1. ASSUME NEW es \in Seq(Envelope), Starts(es) PROVE Typed'
  <2>1. TypedHub'
    BY <1>1 DEF Starts, broadcast, socket_vars, TypedHub, idle
  <2>2. TypedWire'
    BY <1>1 DEF Starts, socket_vars, TypedWire
  <2>3. TypedBridge'
    BY <1>1 DEF Starts, TypedBridge
  <2>4. TypedEnds'
    BY <1>1 DEF Starts, ends_vars, browser_vars, TypedEnds
  <2> QED BY <2>1, <2>2, <2>3, <2>4, TypedParts
<1>2. CASE Sends
  <2>1. /\ targets # <<>> /\ targets' = Tail(targets)
        /\ \/ Writable(Head(targets)) /\ send_json(Head(targets), Head(envelopes))
              /\ UNCHANGED stale
           \/ Head(targets) \notin alive /\ stale' = stale \union {Head(targets)} /\ UNCHANGED wire
        /\ UNCHANGED <<connections, alive, envelopes>>
    BY <1>2 DEF Sends, BroadcastSend
  <2>2. Head(targets) \in Sockets /\ Tail(targets) \in Seq(Sockets) /\ envelopes # <<>>
        /\ Head(envelopes) \in Envelope
    BY <2>1 DEF TypedHub
  <2>3. TypedHub'
    BY <2>1, <2>2 DEF TypedHub
  <2>4. TypedWire'
    BY <2>1, <2>2, SendTyped DEF TypedWire
  <2>5. TypedBridge'
    BY <1>2 DEF Sends, bridge_vars, TypedBridge
  <2>6. TypedEnds'
    BY <1>2 DEF Sends, ends_vars, browser_vars, TypedEnds
  <2> QED BY <2>3, <2>4, <2>5, <2>6, TypedParts
<1>3. CASE Purges
  <2>1. /\ ~idle /\ targets = <<>>
        /\ connections' = Without(stale)
        /\ envelopes' = Tail(envelopes)
        /\ targets' = IF Len(envelopes) > 1 THEN connections' ELSE <<>>
        /\ stale' = {}
        /\ UNCHANGED socket_vars
    BY <1>3 DEF Purges, BroadcastEnds
  <2>2. connections' \in Seq(Sockets)
    BY <2>1, WithoutKeeps DEF TypedHub
  <2>3. envelopes' \in Seq(Envelope) /\ (envelopes' = <<>> => ~(Len(envelopes) > 1))
    BY <2>1 DEF TypedHub, idle
  <2>4. TypedHub'
    BY <2>1, <2>2, <2>3 DEF TypedHub, socket_vars
  <2>5. TypedWire'
    BY <2>1 DEF TypedWire, socket_vars
  <2>6. TypedBridge'
    BY <1>3 DEF Purges, bridge_vars, TypedBridge
  <2>7. TypedEnds'
    BY <1>3 DEF Purges, ends_vars, browser_vars, TypedEnds
  <2> QED BY <2>4, <2>5, <2>6, <2>7, TypedParts
<1>4. ASSUME NEW s \in Sockets, Registers(s) PROVE Typed'
  <2>1. TypedHub'
    BY <1>4 DEF Registers, socket_vars, broadcast_vars, TypedHub
  <2>2. TypedWire'
    BY <1>4 DEF Registers, socket_vars, TypedWire
  <2>3. TypedBridge'
    BY <1>4 DEF Registers, bridge_vars, TypedBridge
  <2>4. TypedEnds'
    BY <1>4 DEF Registers, Goes, browser_vars, TypedEnds
  <2> QED BY <2>1, <2>2, <2>3, <2>4, TypedParts
<1>5. ASSUME NEW s \in Sockets, NEW from, NEW to, NEW e, Greets(s, from, to, e) PROVE Typed'
  <2>1. TypedHub'
    <3>1. connections' \in Seq(Sockets)
      BY <1>5, WithoutKeeps DEF Greets, send_to, disconnect, TypedHub
    <3> QED BY <1>5, <3>1 DEF Greets, broadcast_vars, TypedHub
  <2>2. TypedWire'
    <3>1. (Writable(s) /\ send_json(s, e)) \/ UNCHANGED wire
      BY <1>5 DEF Greets, send_to
    <3> QED BY <1>5, <3>1, SendTyped DEF TypedWire, Greets
  <2>3. TypedBridge'
    BY <1>5 DEF Greets, bridge_vars, TypedBridge
  <2>4. TypedEnds'
    BY <1>5 DEF Greets, Goes, browser_vars, TypedEnds
  <2> QED BY <2>1, <2>2, <2>3, <2>4, TypedParts
<1>6. ASSUME NEW s \in Sockets, Leaves(s) PROVE Typed'
  <2>1. TypedHub'
    BY <1>6, WithoutKeeps DEF Leaves, disconnect, socket_vars, broadcast_vars, TypedHub
  <2>2. TypedWire'
    BY <1>6 DEF Leaves, socket_vars, TypedWire
  <2>3. TypedBridge'
    BY <1>6 DEF Leaves, bridge_vars, TypedBridge
  <2>4. TypedEnds'
    BY <1>6 DEF Leaves, Goes, browser_vars, TypedEnds
  <2> QED BY <2>1, <2>2, <2>3, <2>4, TypedParts
<1>7. ASSUME NEW S \in SUBSET Sockets, Drop(S) PROVE TypedWire'
  <2>1. wire' \in [Sockets -> Seq(Envelope)]
    BY <1>7 DEF Drop, TypedWire
  <2>2. ASSUME NEW s \in Sockets PROVE Len(wire'[s]) <= HighWater
    BY <1>7, HubAssumption DEF Drop, TypedWire
  <2> QED BY <2>1, <2>2 DEF TypedWire
<1>8. ASSUME NEW s \in Sockets, Loses(s) PROVE Typed'
  <2>1. TypedHub'
    BY <1>8 DEF Loses, Drop, broadcast_vars, TypedHub
  <2>2. TypedWire'
    BY <1>7, <1>8 DEF Loses
  <2>3. TypedBridge'
    BY <1>8 DEF Loses, bridge_vars, TypedBridge
  <2>4. TypedEnds'
    BY <1>8 DEF Loses, ends_vars, browser_vars, TypedEnds
  <2> QED BY <2>1, <2>2, <2>3, <2>4, TypedParts
<1>9. CASE Restarts
  <2>1. TypedHub'
    BY <1>9 DEF Restarts, Drop, TypedHub
  <2>2. TypedWire'
    BY <1>7, <1>9 DEF Restarts
  <2>3. TypedBridge'
    BY <1>9 DEF Restarts, TypedBridge
  <2>4. TypedEnds'
    BY <1>9 DEF Restarts, browser_vars, TypedEnds
  <2> QED BY <2>1, <2>2, <2>3, <2>4, TypedParts
<1>10. ASSUME NEW b \in Browsers, NEW s \in Sockets, Opened(b, s) PROVE Typed'
  <2>1. TypedHub'
    BY <1>10 DEF Opened, Opens, broadcast_vars, TypedHub
  <2>2. TypedWire'
    BY <1>10 DEF Opened, Opens, TypedWire
  <2>3. TypedBridge'
    BY <1>10 DEF Opened, Opens, bridge_vars, bound_vars, TypedBridge
  <2>4. TypedEnds'
    BY <1>10 DEF Opened, Opens, TypedEnds
  <2> QED BY <2>1, <2>2, <2>3, <2>4, TypedParts
<1>11. ASSUME NEW b \in Browsers, Receive(b) PROVE Typed'
  <2>1. TypedHub'
    BY <1>11 DEF Receive, broadcast_vars, TypedHub
  <2> DEFINE s == socket[b]
  <2>2. /\ s \in Sockets /\ wire[s] \in Seq(Envelope) /\ wire[s] # <<>>
        /\ pending[b] \in Seq(Envelope) /\ Len(pending[b]) < MaxPending
        /\ pending' = [pending EXCEPT ![b] = Append(@, Head(wire[s]))]
        /\ wire' = [wire EXCEPT ![s] = Tail(@)]
    BY <1>11 DEF Receive, TypedEnds, TypedWire
  <2>3. Head(wire[s]) \in Envelope /\ Tail(wire[s]) \in Seq(Envelope)
        /\ Len(Tail(wire[s])) = Len(wire[s]) - 1 /\ Len(wire[s]) \in Nat /\ Len(pending[b]) \in Nat
    BY <2>2
  <2> HIDE DEF s
  <2>4. TypedWire'
    <3>1. wire' \in [Sockets -> Seq(Envelope)]
      BY <2>2, <2>3 DEF TypedWire
    <3>2. ASSUME NEW r \in Sockets PROVE Len(wire'[r]) <= HighWater
      <4>1. CASE r = s
        <5>1. Len(wire'[r]) = Len(wire[s]) - 1 /\ Len(wire[s]) <= HighWater
          BY <2>2, <2>3, <4>1 DEF TypedWire
        <5> QED BY <2>3, <5>1, HubAssumption
      <4>2. CASE r # s
        BY <2>2, <4>2 DEF TypedWire
      <4> QED BY <4>1, <4>2
    <3> QED BY <3>1, <3>2 DEF TypedWire
  <2>5. TypedBridge'
    BY <1>11 DEF Receive, bridge_vars, bound_vars, TypedBridge
  <2>6. TypedEnds'
    <3>1. pending' \in [Browsers -> Seq(Envelope)]
      BY <2>2, <2>3 DEF TypedEnds
    <3>2. ASSUME NEW c \in Browsers PROVE Len(pending'[c]) <= MaxPending
      <4>1. CASE c = b
        <5>1. Len(pending'[c]) = Len(pending[b]) + 1
          BY <2>2, <2>3, <4>1 DEF TypedEnds
        <5> QED BY <2>2, <2>3, <5>1, DashboardAssumption
      <4>2. CASE c # b
        BY <2>2, <4>2 DEF TypedEnds
      <4> QED BY <4>1, <4>2
    <3> QED BY <1>11, <3>1, <3>2 DEF Receive, TypedEnds
  <2> QED BY <2>1, <2>4, <2>5, <2>6, TypedParts
<1>12. ASSUME NEW b \in Browsers, Flush(b) PROVE Typed'
  <2>1. TypedHub'
    BY <1>12 DEF Flush, hub_vars, socket_vars, broadcast_vars, TypedHub
  <2>2. TypedWire'
    BY <1>12 DEF Flush, hub_vars, socket_vars, TypedWire
  <2>3. TypedBridge'
    BY <1>12 DEF Flush, bridge_vars, bound_vars, TypedBridge
  <2>4. TypedEnds'
    <3>1. applyBatch(view[b], pending[b]) \in View
      BY BatchTyped DEF TypedEnds
    <3>2. view' \in [Browsers -> View]
      BY <1>12, <3>1 DEF Flush, TypedEnds
    <3>3. pending' \in [Browsers -> Seq(Envelope)]
      BY <1>12 DEF Flush, TypedEnds
    <3>4. \A c \in Browsers : Len(pending'[c]) <= MaxPending
      BY <1>12, DashboardAssumption DEF Flush, TypedEnds
    <3> QED BY <1>12, <3>2, <3>3, <3>4 DEF Flush, TypedEnds
  <2> QED BY <2>1, <2>2, <2>3, <2>4, TypedParts
<1>13. ASSUME NEW b \in Browsers, Closes(b) PROVE Typed'
  <2>1. TypedHub'
    BY <1>13 DEF Closes, Closed, hub_vars, socket_vars, broadcast_vars, TypedHub
  <2>2. TypedWire'
    BY <1>13 DEF Closes, Closed, hub_vars, socket_vars, TypedWire
  <2>3. TypedBridge'
    BY <1>13 DEF Closes, Closed, bridge_vars, TypedBridge
  <2>4. TypedEnds'
    BY <1>13 DEF Closes, Closed, TypedEnds
  <2> QED BY <2>1, <2>2, <2>3, <2>4, TypedParts
<1>14. ASSUME NEW b \in Browsers, Reloads(b) PROVE Typed'
  <2>1. TypedHub'
    BY <1>14 DEF Reloads, hub_vars, socket_vars, broadcast_vars, TypedHub
  <2>2. TypedWire'
    BY <1>14 DEF Reloads, hub_vars, socket_vars, TypedWire
  <2>3. TypedBridge'
    BY <1>14 DEF Reloads, bridge_vars, TypedBridge
  <2>4. TypedEnds'
    <3>1. initialState \in View
      BY DEF initialState, View
    <3>2. pending' \in [Browsers -> Seq(Envelope)] /\ view' \in [Browsers -> View]
      BY <1>14, <3>1 DEF Reloads, TypedEnds
    <3>3. \A c \in Browsers : Len(pending'[c]) <= MaxPending
      BY <1>14, DashboardAssumption DEF Reloads, TypedEnds
    <3> QED BY <1>14, <3>2, <3>3 DEF Reloads, TypedEnds
  <2> QED BY <2>1, <2>2, <2>3, <2>4, TypedParts
<1>15. CASE Stutters
  <2>1. TypedHub' /\ TypedWire'
    BY <1>15 DEF Stutters, hub_vars, socket_vars, broadcast_vars, TypedHub, TypedWire
  <2>2. TypedBridge' /\ TypedEnds'
    BY <1>15 DEF Stutters, bridge_vars, browser_vars, TypedBridge, TypedEnds
  <2> QED BY <2>1, <2>2, TypedParts
<1> QED
  BY <1>1, <1>2, <1>3, <1>4, <1>5, <1>6, <1>8, <1>9, <1>10, <1>11, <1>12, <1>13, <1>14, <1>15
  DEF Kinds

-----------------------------------------------------------------------------
(***************************************************************************)
(* The registry, and who owns a connection.                                *)
(***************************************************************************)

\* What a list holds after its first element was taken, or one more added.
LEMMA InLists ==
  ASSUME NEW S, NEW list \in Seq(S)
  PROVE  /\ \A x : In(list, x) => x \in S
         /\ list # <<>> => /\ In(list, Head(list))
                           /\ \A x : In(list, x) <=> x = Head(list) \/ In(Tail(list), x)
         /\ \A y \in S : \A x : In(Append(list, y), x) <=> In(list, x) \/ x = y
         /\ ~\E x : In(<<>>, x)
<1>1. \A x : In(list, x) => x \in S
  BY DEF In
<1>2. ASSUME list # <<>>
      PROVE  /\ In(list, Head(list))
             /\ \A x : In(list, x) <=> x = Head(list) \/ In(Tail(list), x)
  <2> DEFINE rest == Tail(list)
  <2>1. Len(list) \in Nat /\ Len(list) >= 1 /\ DOMAIN list = 1..Len(list) /\ Head(list) = list[1]
        /\ DOMAIN rest = 1..(Len(list) - 1) /\ \A i \in DOMAIN rest : rest[i] = list[i + 1]
    BY <1>2
  <2> HIDE DEF rest
  <2>2. ASSUME NEW i \in DOMAIN list, i # 1 PROVE i - 1 \in DOMAIN rest /\ rest[i - 1] = list[i]
    BY <2>1, <2>2
  <2>3. \A i \in DOMAIN rest : i + 1 \in DOMAIN list
    BY <2>1
  <2>4. 1 \in DOMAIN list
    BY <2>1
  <2>5. ASSUME NEW x, In(list, x) PROVE x = Head(list) \/ In(rest, x)
    BY <2>1, <2>2, <2>5 DEF In
  <2>6. ASSUME NEW x, x = Head(list) \/ In(rest, x) PROVE In(list, x)
    BY <2>1, <2>3, <2>4, <2>6 DEF In
  <2> QED BY <2>5, <2>6 DEF rest
<1>3. ASSUME NEW y \in S, NEW x
      PROVE  In(Append(list, y), x) <=> In(list, x) \/ x = y
  <2> DEFINE more == Append(list, y)
  <2>1. Len(list) \in Nat /\ DOMAIN list = 1..Len(list) /\ DOMAIN more = 1..(Len(list) + 1)
        /\ more[Len(list) + 1] = y /\ \A i \in DOMAIN list : more[i] = list[i]
    OBVIOUS
  <2> HIDE DEF more
  <2>2. In(more, x) <=> In(list, x) \/ x = y
    BY <2>1 DEF In
  <2> QED BY <2>2 DEF more
<1>4. ~\E x : In(<<>>, x)
  BY DEF In
<1> QED BY <1>1, <1>2, <1>3, <1>4

\* A socket that is not in a list can be added without listing one twice.
LEMMA OneMoreListed ==
  ASSUME NEW S, NEW list \in Seq(S), NEW y \in S, IsInjective(list), ~In(list, y),
         NEW more, more = Append(list, y)
  PROVE  IsInjective(more)
<1>1. Len(list) \in Nat /\ DOMAIN list = 1..Len(list) /\ DOMAIN more = 1..(Len(list) + 1)
      /\ more[Len(list) + 1] = y /\ \A i \in DOMAIN list : more[i] = list[i]
  OBVIOUS
<1>2. \A i \in DOMAIN list : list[i] # y
  BY DEF In
<1>3. ASSUME NEW i \in DOMAIN more, NEW j \in DOMAIN more, more[i] = more[j]
      PROVE  i = j
  <2>1. CASE i \in DOMAIN list /\ j \in DOMAIN list
    BY <1>1, <1>3, <2>1 DEF IsInjective
  <2>2. CASE i = Len(list) + 1 \/ j = Len(list) + 1
    BY <1>1, <1>2, <1>3, <2>2
  <2> QED BY <1>1, <2>1, <2>2
<1> QED BY <1>3 DEF IsInjective

\* Only sessions that are down leave the registry while their endpoint runs.
LEMMA RegistryStep ==
  ASSUME Typed, Registry, Apart, Kinds
  PROVE  Registry'
<1>0. connections \in Seq(Sockets) /\ alive \subseteq Sockets /\ endpoint \in
        [Sockets -> {"none", "accepted", "registered", "greeted", "live"}]
  BY DEF Typed, TypeOK
<1>1. ASSUME UNCHANGED <<connections, alive, endpoint>> PROVE Registry'
  BY <1>1 DEF Registry, Registered
<1>2. ASSUME NEW es \in Seq(Envelope), Starts(es) PROVE Registry'
  BY <1>1, <1>2 DEF Starts, ends_vars, socket_vars
<1>3. CASE Sends
  BY <1>1, <1>3 DEF Sends, BroadcastSend, ends_vars
<1>4. CASE Purges
  <2>1. connections' = Without(stale) /\ UNCHANGED <<alive, endpoint>>
    BY <1>4 DEF Purges, BroadcastEnds, ends_vars, socket_vars
  <2>2. \A s \in alive : s \notin stale
    BY DEF Apart
  <2> QED BY <1>0, <2>1, <2>2, WithoutKeeps DEF Registry, Registered
<1>5. ASSUME NEW s \in Sockets, Registers(s) PROVE Registry'
  <2>1. /\ endpoint[s] = "accepted" /\ endpoint' = [endpoint EXCEPT ![s] = "registered"]
        /\ connections' = Append(connections, s) /\ UNCHANGED alive
    BY <1>5 DEF Registers, Goes, socket_vars
  <2>2. ~In(connections, s)
    BY <2>1 DEF Registry, Registered
  <2>3. IsInjective(connections')
    <3>1. IsInjective(connections)
      BY DEF Registry
    <3> QED BY <1>0, <2>1, <2>2, <3>1, OneMoreListed
  <2>4. \A r : In(connections', r) <=> In(connections, r) \/ r = s
    BY <1>0, <2>1, InLists
  <2>5. \A r \in Sockets : Registered(r)' <=> Registered(r) \/ r = s
    BY <1>0, <2>1 DEF Registered
  <2> QED BY <1>0, <2>1, <2>3, <2>4, <2>5 DEF Registry
<1>6. ASSUME NEW s \in Sockets, NEW from, NEW to, NEW e, Greets(s, from, to, e) PROVE Registry'
  <2>1. /\ endpoint[s] = from /\ endpoint' = [endpoint EXCEPT ![s] = to] /\ UNCHANGED alive
        /\ from \in {"registered", "greeted"} /\ to \in {"greeted", "live"}
        /\ \/ UNCHANGED connections
           \/ s \notin alive /\ connections' = Without({s})
    BY <1>6 DEF Greets, Goes, send_to, disconnect
  <2>2. \A r \in Sockets : Registered(r)' <=> Registered(r)
    BY <1>0, <2>1 DEF Registered
  <2>3. CASE UNCHANGED connections
    BY <1>0, <2>1, <2>2, <2>3 DEF Registry
  <2>4. CASE s \notin alive /\ connections' = Without({s})
    <3>1. \A r : In(connections', r) <=> In(connections, r) /\ r # s
      BY <1>0, <2>4, WithoutKeeps
    <3>2. IsInjective(connections')
      BY <1>0, <2>4, WithoutKeeps DEF Registry
    <3> QED BY <1>0, <2>1, <2>2, <2>4, <3>1, <3>2 DEF Registry
  <2> QED BY <2>1, <2>3, <2>4
<1>7. ASSUME NEW s \in Sockets, Leaves(s) PROVE Registry'
  <2>1. /\ s \notin alive /\ endpoint' = [endpoint EXCEPT ![s] = "none"] /\ UNCHANGED alive
        /\ connections' = Without({s})
    BY <1>7 DEF Leaves, Goes, disconnect, socket_vars
  <2>2. \A r : In(connections', r) <=> In(connections, r) /\ r # s
    BY <1>0, <2>1, WithoutKeeps
  <2>3. IsInjective(connections')
    BY <1>0, <2>1, WithoutKeeps DEF Registry
  <2>4. \A r \in Sockets : r # s => (Registered(r)' <=> Registered(r))
    BY <1>0, <2>1 DEF Registered
  <2> QED BY <1>0, <2>1, <2>2, <2>3, <2>4 DEF Registry
<1>8. ASSUME NEW s \in Sockets, Loses(s) PROVE Registry'
  BY <1>8 DEF Loses, Drop, ends_vars, Registry, Registered
<1>9. CASE Restarts
  <2>1. connections' = <<>> /\ alive' = {}
    BY <1>0, <1>9 DEF Restarts, Drop
  <2> QED BY <2>1 DEF Registry, IsInjective, In
<1>10. ASSUME NEW b \in Browsers, NEW s \in Sockets, Opened(b, s) PROVE Registry'
  <2>1. /\ endpoint[s] = "none" /\ endpoint' = [endpoint EXCEPT ![s] = "accepted"]
        /\ alive' = alive \union {s} /\ UNCHANGED connections
    BY <1>10 DEF Opened, Opens, Fresh
  <2>2. \A r \in Sockets : Registered(r)' <=> Registered(r)
    BY <1>0, <2>1 DEF Registered
  <2>3. ~Registered(s)
    BY <2>1 DEF Registered
  <2> QED BY <1>0, <2>1, <2>2, <2>3 DEF Registry
<1>11. ASSUME NEW b \in Browsers, Receive(b) \/ Flush(b) \/ Closes(b) \/ Reloads(b) PROVE Registry'
  BY <1>1, <1>11 DEF Receive, Flush, Closes, Closed, Reloads, hub_vars, socket_vars
<1>12. CASE Stutters
  BY <1>1, <1>12 DEF Stutters, hub_vars, socket_vars
<1> QED
  BY <1>2, <1>3, <1>4, <1>5, <1>6, <1>7, <1>8, <1>9, <1>10, <1>11, <1>12 DEF Kinds

\* A failed socket is never one that came up again, and a new one is nobody's.
LEMMA ApartStep ==
  ASSUME Typed, Registry, Apart, Kinds
  PROVE  Apart'
<1>0. /\ connections \in Seq(Sockets) /\ targets \in Seq(Sockets) /\ alive \subseteq Sockets
      /\ wire \in [Sockets -> Seq(Envelope)]
      /\ endpoint \in [Sockets -> {"none", "accepted", "registered", "greeted", "live"}]
      /\ socket \in [Browsers -> Sockets \union {NoSocket}]
  BY DEF Typed, TypeOK
<1>00. ASSUME NEW s \in Sockets, In(connections, s) PROVE endpoint[s] # "accepted"
  BY <1>00 DEF Registry, Registered
<1>1. ASSUME NEW es \in Seq(Envelope), Starts(es) PROVE Apart'
  <2>1. /\ stale' = {} /\ targets' = connections
        /\ UNCHANGED <<alive, wire, endpoint, socket>>
    BY <1>1 DEF Starts, broadcast, ends_vars, socket_vars, browser_vars
  <2> QED BY <1>0, <1>00, <2>1 DEF Apart
<1>2. CASE Sends
  <2>1. /\ targets # <<>> /\ targets' = Tail(targets) /\ UNCHANGED <<alive, endpoint, socket>>
        /\ \/ Head(targets) \in alive /\ UNCHANGED stale
              /\ wire' = [wire EXCEPT ![Head(targets)] = Append(@, Head(envelopes))]
           \/ Head(targets) \notin alive /\ stale' = stale \union {Head(targets)} /\ UNCHANGED wire
    BY <1>2 DEF Sends, BroadcastSend, Writable, send_json, ends_vars, browser_vars
  <2>2. \A s : In(targets', s) => In(targets, s)
    BY <1>0, <2>1, InLists
  <2>3. \A s \in Sockets \ alive' : wire'[s] = <<>>
    BY <1>0, <2>1 DEF Apart
  <2>4. stale' \intersect alive' = {}
    BY <2>1 DEF Apart
  <2> QED BY <2>1, <2>2, <2>3, <2>4 DEF Apart
<1>3. CASE Purges
  <2>1. /\ stale' = {} /\ UNCHANGED <<alive, wire, endpoint, socket>>
        /\ connections' = Without(stale)
        /\ targets' = connections' \/ targets' = <<>>
    BY <1>3 DEF Purges, BroadcastEnds, ends_vars, socket_vars, browser_vars
  <2>2. \A s : In(targets', s) => In(connections, s)
    <3>1. \A s : In(connections', s) => In(connections, s)
      BY <1>0, <2>1, WithoutKeeps
    <3>2. ~\E s : In(<<>>, s)
      BY DEF In
    <3> QED BY <2>1, <3>1, <3>2
  <2> QED BY <1>0, <1>00, <2>1, <2>2 DEF Apart
<1>4. ASSUME NEW s \in Sockets, NEW to, Goes(s, endpoint[s], to), to \notin {"none", "accepted"},
             \/ UNCHANGED wire
             \/ s \in alive /\ \E e : wire' = [wire EXCEPT ![s] = Append(@, e)],
             UNCHANGED <<alive, stale, targets, socket>>
      PROVE  Apart'
  <2>1. \A r \in Sockets : endpoint'[r] = IF r = s THEN to ELSE endpoint[r]
    BY <1>0, <1>4 DEF Goes
  <2>2. \A r \in Sockets \ alive : wire'[r] = wire[r]
    BY <1>0, <1>4
  <2> QED BY <1>0, <1>4, <2>1, <2>2 DEF Apart
<1>5. ASSUME NEW s \in Sockets, Registers(s) PROVE Apart'
  <2>1. Goes(s, endpoint[s], "registered") /\ UNCHANGED <<wire, alive, stale, targets, socket>>
    BY <1>5 DEF Registers, Goes, socket_vars, broadcast_vars, browser_vars
  <2> QED BY <1>4, <2>1
<1>6. ASSUME NEW s \in Sockets, NEW from, NEW to, NEW e, Greets(s, from, to, e) PROVE Apart'
  <2>1. Goes(s, endpoint[s], to) /\ to \notin {"none", "accepted"}
        /\ UNCHANGED <<alive, stale, targets, socket>>
    BY <1>6 DEF Greets, Goes, broadcast_vars, browser_vars
  <2>2. \/ UNCHANGED wire
        \/ s \in alive /\ wire' = [wire EXCEPT ![s] = Append(@, e)]
    BY <1>6 DEF Greets, send_to, Writable, send_json
  <2> QED BY <1>4, <2>1, <2>2
<1>7. ASSUME NEW s \in Sockets, Leaves(s) PROVE Apart'
  <2>1. /\ s \notin alive /\ UNCHANGED <<alive, wire, stale, targets, socket>>
        /\ endpoint' = [endpoint EXCEPT ![s] = "none"]
    BY <1>7 DEF Leaves, Goes, socket_vars, broadcast_vars, browser_vars
  <2>2. \A r \in Sockets : endpoint'[r] = IF r = s THEN "none" ELSE endpoint[r]
    BY <1>0, <2>1
  <2> QED BY <1>0, <2>1, <2>2 DEF Apart
<1>8. ASSUME NEW S \in SUBSET Sockets, Drop(S), UNCHANGED <<stale, targets, endpoint, socket>>
      PROVE  Apart'
  <2>1. \A s \in Sockets \ alive' : wire'[s] = <<>>
    BY <1>8 DEF Drop, Apart
  <2> QED BY <1>8, <2>1 DEF Drop, Apart
<1>9. ASSUME NEW s \in Sockets, Loses(s) PROVE Apart'
  BY <1>8, <1>9 DEF Loses, broadcast_vars, ends_vars, browser_vars
<1>10. CASE Restarts
  <2>1. /\ alive' = {} /\ stale' = {} /\ targets' = <<>> /\ UNCHANGED socket
        /\ \A s \in Sockets : wire'[s] = <<>> /\ endpoint'[s] = "none"
    BY <1>0, <1>10 DEF Restarts, Drop, browser_vars
  <2> QED BY <2>1 DEF Apart, In
<1>11. ASSUME NEW b \in Browsers, NEW s \in Sockets, Opened(b, s) PROVE Apart'
  <2>1. /\ s \notin stale /\ ~In(targets, s) /\ \A c \in Browsers : socket[c] # s
        /\ \A r \in Sockets : endpoint'[r] = IF r = s THEN "accepted" ELSE endpoint[r]
        /\ \A c \in Browsers : socket'[c] = IF c = b THEN s ELSE socket[c]
        /\ alive' = alive \union {s} /\ UNCHANGED <<wire, stale, targets>>
    BY <1>0, <1>11 DEF Opened, Opens, Fresh, In, broadcast_vars
  <2> QED BY <1>0, <2>1 DEF Apart
<1>12. ASSUME NEW b \in Browsers, Receive(b) PROVE Apart'
  <2>1. /\ socket[b] \in Sockets /\ wire[socket[b]] # <<>>
        /\ wire' = [wire EXCEPT ![socket[b]] = Tail(@)]
        /\ UNCHANGED <<alive, stale, targets, endpoint, socket>>
    BY <1>0, <1>12 DEF Receive, broadcast_vars
  <2>2. socket[b] \in alive
    BY <2>1 DEF Apart
  <2>3. \A s \in Sockets \ alive : wire'[s] = wire[s]
    BY <1>0, <2>1, <2>2
  <2> QED BY <1>0, <2>1, <2>3 DEF Apart
<1>13. ASSUME UNCHANGED <<alive, wire, stale, targets, endpoint, socket>> PROVE Apart'
  BY <1>13 DEF Apart
<1>14. ASSUME NEW b \in Browsers, Flush(b) PROVE Apart'
  BY <1>13, <1>14 DEF Flush, hub_vars, socket_vars, broadcast_vars
<1>15. ASSUME NEW b \in Browsers, Closes(b) \/ Reloads(b) PROVE Apart'
  <2>1. /\ UNCHANGED <<alive, wire, stale, targets, endpoint>>
        /\ \A c \in Browsers : socket'[c] = IF c = b THEN NoSocket ELSE socket[c]
    BY <1>0, <1>15 DEF Closes, Closed, Reloads, hub_vars, socket_vars, broadcast_vars
  <2> QED BY <2>1 DEF Apart
<1>16. CASE Stutters
  BY <1>13, <1>16 DEF Stutters, hub_vars, socket_vars, broadcast_vars, browser_vars
<1> QED
  BY <1>1, <1>2, <1>3, <1>5, <1>6, <1>7, <1>9, <1>10, <1>11, <1>12, <1>14, <1>15, <1>16 DEF Kinds

-----------------------------------------------------------------------------
(***************************************************************************)
(* What a step does to a connection that stays up.                         *)
(***************************************************************************)

\* An envelope that tells of the bridge as it is.
Current(e) ==
  /\ e.type = "system:status" => e = status_payload
  /\ e.type = "sdn:topology:sync" => e.phase = topology
  /\ e.type = "sdn:anomaly:alert" => e.port \in reported

SameBridge == UNCHANGED <<phase, topology, connected, reported>>

\* The multicast of a change begins.
Announced(b) ==
  /\ Starts(envelopes')
  /\ Delivered(b)' = Delivered(b)
  /\ endpoint'[socket[b]] = endpoint[socket[b]]

\* One envelope more is written to the socket, by the multicast or the endpoint.
Heard(b) ==
  /\ SameBridge
  /\ \E e \in Envelope :
       /\ Current(e)
       /\ Effect(Delivered(b), e, Delivered(b)')
       /\ \A type : Coming(socket[b], type) => Coming(socket[b], type)' \/ e.type = type
       /\ \/ endpoint'[socket[b]] = endpoint[socket[b]] /\ endpoint[socket[b]] # "accepted"
          \/ /\ endpoint[socket[b]] = "registered" /\ endpoint'[socket[b]] = "greeted"
             /\ e.type = "sdn:topology:sync"
          \/ /\ endpoint[socket[b]] = "greeted" /\ endpoint'[socket[b]] = "live"
             /\ e.type = "system:status"

\* Nothing is, and what was to come still is.
Quiet(b) ==
  /\ SameBridge
  /\ Delivered(b)' = Delivered(b)
  /\ \A type : Coming(socket[b], type) => Coming(socket[b], type)'
  /\ \/ endpoint'[socket[b]] = endpoint[socket[b]]
     \/ endpoint[socket[b]] = "accepted" /\ endpoint'[socket[b]] = "registered"

\* The snapshots are current.
LEMMA SnapshotsCurrent == Typed => Current(status_payload) /\ Current(topology_snapshot)
BY DEF Current, status_payload, topology_snapshot, Status

\* Reading the socket or painting leaves what will be shown as it is.
LEMMA DeliveredSame ==
  ASSUME Typed, Apart, NEW b \in Browsers, socket[b] \in Sockets, UNCHANGED socket,
         \/ UNCHANGED <<view, pending>> /\ wire'[socket[b]] = wire[socket[b]]
         \/ \E c \in Browsers : Receive(c) \/ Flush(c)
  PROVE  Delivered(b)' = Delivered(b)
<1> DEFINE s == socket[b]
<1>0. /\ view \in [Browsers -> View] /\ pending \in [Browsers -> Seq(Envelope)]
      /\ wire \in [Sockets -> Seq(Envelope)] /\ socket'[b] = s
  BY DEF Typed
<1>1. CASE view'[b] = view[b] /\ pending'[b] = pending[b] /\ wire'[s] = wire[s]
  BY <1>0, <1>1 DEF Delivered
<1>2. ASSUME NEW c \in Browsers, Receive(c) PROVE Delivered(b)' = Delivered(b)
  <2>1. /\ socket[c] # NoSocket /\ wire[socket[c]] # <<>> /\ UNCHANGED view
        /\ pending' = [pending EXCEPT ![c] = Append(@, Head(wire[socket[c]]))]
        /\ wire' = [wire EXCEPT ![socket[c]] = Tail(@)]
    BY <1>2 DEF Receive
  <2>2. CASE c = b
    <3> DEFINE w == wire[s] p == pending[b] v == view[b]
    <3>1. w \in Seq(Envelope) /\ p \in Seq(Envelope) /\ w # <<>> /\ Head(w) \in Envelope
      BY <1>0, <2>1, <2>2
    <3>2. pending'[b] = Append(p, Head(w)) /\ wire'[s] = Tail(w) /\ view'[b] = v
      BY <1>0, <2>1, <2>2
    <3> HIDE DEF w, p, v
    <3>3. applyBatch(v, Append(p, Head(w))) = applyEnvelope(applyBatch(v, p), Head(w))
      BY <3>1, LastApplied
    <3>4. applyBatch(applyBatch(v, p), w)
            = applyBatch(applyEnvelope(applyBatch(v, p), Head(w)), Tail(w))
      BY <3>1, FirstApplied
    <3>5. Delivered(b)' = applyBatch(applyBatch(v, Append(p, Head(w))), Tail(w))
      BY <1>0, <3>2 DEF Delivered
    <3>6. Delivered(b) = applyBatch(applyBatch(v, p), w)
      BY DEF Delivered, w, p, v
    <3> QED BY <3>3, <3>4, <3>5, <3>6
  <2>3. CASE c # b
    <3>1. socket[c] # s
      BY <2>1, <2>3 DEF Apart
    <3>2. pending'[b] = pending[b] /\ wire'[s] = wire[s]
      BY <1>0, <2>1, <2>3, <3>1
    <3> QED BY <1>1, <2>1, <3>2
  <2> QED BY <2>2, <2>3
<1>3. ASSUME NEW c \in Browsers, Flush(c) PROVE Delivered(b)' = Delivered(b)
  <2>1. /\ UNCHANGED wire
        /\ view' = [view EXCEPT ![c] = applyBatch(@, pending[c])]
        /\ pending' = [pending EXCEPT ![c] = <<>>]
    BY <1>3 DEF Flush, hub_vars, socket_vars
  <2>2. CASE c = b
    <3>1. view'[b] = applyBatch(view[b], pending[b]) /\ pending'[b] = <<>> /\ wire'[s] = wire[s]
      BY <1>0, <2>1, <2>2
    <3>2. applyBatch(view'[b], pending'[b]) = applyBatch(view[b], pending[b])
      BY <3>1, NothingApplied
    <3> QED BY <1>0, <3>1, <3>2 DEF Delivered
  <2>3. CASE c # b
    <3>1. view'[b] = view[b] /\ pending'[b] = pending[b]
      BY <1>0, <2>1, <2>3
    <3> QED BY <1>1, <2>1, <3>1
  <2> QED BY <2>2, <2>3
<1> QED BY <1>0, <1>1, <1>2, <1>3

\* Writing an envelope to the socket applies it last.
LEMMA DeliveredMore ==
  ASSUME Typed, NEW b \in Browsers, socket[b] \in Sockets, UNCHANGED browser_vars,
         NEW e \in Envelope, wire'[socket[b]] = Append(wire[socket[b]], e)
  PROVE  Effect(Delivered(b), e, Delivered(b)')
<1> DEFINE w == wire[socket[b]] v == applyBatch(view[b], pending[b])
<1>1. w \in Seq(Envelope)
  BY DEF Typed
<1>2. Delivered(b)' = applyBatch(v, Append(w, e))
  BY DEF Delivered, browser_vars
<1>3. Delivered(b) = applyBatch(v, w)
  BY DEF Delivered
<1>4. Delivered(b) \in View
  BY DeliveredTyped
<1> HIDE DEF w, v
<1>5. Delivered(b)' = applyEnvelope(Delivered(b), e)
  BY <1>1, <1>2, <1>3, LastApplied
<1>6. Effect(Delivered(b), e, applyEnvelope(Delivered(b), e))
  BY <1>4, ApplyEffect
<1> QED BY <1>5, <1>6

\* What was to come to s still is, where s stays among targets and connections.
LEMMA ComingSame ==
  ASSUME NEW s, UNCHANGED envelopes, In(targets, s) => In(targets', s),
         In(connections, s) => In(connections', s)
  PROVE  \A type : Coming(s, type) => Coming(s, type)'
BY DEF Coming

\* A connection that stays up is announced to, hears something, or is left
\* alone.
LEMMA SameConnection ==
  ASSUME Typed, Registry, Apart, EnvelopesCurrent, Kinds,
         NEW b \in Browsers, socket[b] \in alive, socket'[b] = socket[b], socket[b] \in alive'
  PROVE  Announced(b) \/ Heard(b) \/ Quiet(b)
<1>00. PICK s \in Sockets : s = socket[b]
  BY DEF Typed, TypeOK
<1>0. /\ s = socket[b] /\ s = socket'[b]
      /\ s \in Sockets /\ s \in alive /\ s \in alive' /\ alive \subseteq Sockets
      /\ wire \in [Sockets -> Seq(Envelope)] /\ connections \in Seq(Sockets)
      /\ targets \in Seq(Sockets) /\ envelopes \in Seq(Envelope) /\ NoSocket \notin Sockets
      /\ endpoint \in [Sockets -> {"none", "accepted", "registered", "greeted", "live"}]
      /\ socket \in [Browsers -> Sockets \union {NoSocket}]
  BY <1>00, DashboardAssumption DEF Typed, TypeOK
<1>1. ASSUME SameBridge, UNCHANGED <<wire, browser_vars, envelopes>>,
             In(targets, s) => In(targets', s), In(connections, s) => In(connections', s),
             \/ endpoint'[s] = endpoint[s]
             \/ endpoint[s] = "accepted" /\ endpoint'[s] = "registered"
      PROVE  Quiet(b)
  <2>1. Delivered(b)' = Delivered(b)
    BY <1>0, <1>1, DeliveredSame DEF browser_vars
  <2>2. \A type : Coming(s, type) => Coming(s, type)'
    BY <1>1, ComingSame
  <2>3. socket'[b] = socket[b]
    BY <1>1 DEF browser_vars
  <2>4. \A type : Coming(socket[b], type) => Coming(socket[b], type)'
    BY <1>0, <2>2, <2>3 DEF Coming
  <2> QED BY <1>0, <1>1, <2>1, <2>4 DEF Quiet
<1>2. ASSUME NEW es \in Seq(Envelope), Starts(es) PROVE Announced(b)
  <2>1. UNCHANGED <<view, pending, socket>> /\ UNCHANGED wire /\ UNCHANGED endpoint
        /\ es = envelopes'
    BY <1>2 DEF Starts, ends_vars, browser_vars, socket_vars, broadcast
  <2>2. Delivered(b)' = Delivered(b)
    BY <1>0, <2>1, DeliveredSame
  <2> QED BY <1>2, <2>1, <2>2 DEF Announced
<1>3. CASE Sends
  <2>1. /\ targets # <<>> /\ targets' = Tail(targets) /\ UNCHANGED <<connections, envelopes>>
        /\ UNCHANGED <<phase, topology, connected, reported, endpoint>> /\ UNCHANGED browser_vars
        /\ \/ wire' = [wire EXCEPT ![Head(targets)] = Append(@, Head(envelopes))]
           \/ Head(targets) \notin alive /\ UNCHANGED wire
    BY <1>3 DEF Sends, BroadcastSend, send_json, ends_vars, bridge_vars
  <2>2. envelopes # <<>> /\ In(targets, Head(targets)) /\ Head(targets) \in Sockets
        /\ \A r : In(targets, r) <=> r = Head(targets) \/ In(targets', r)
    BY <1>0, <2>1, InLists DEF Typed
  <2>3. CASE Head(targets) = s
    <3> DEFINE e == Head(envelopes)
    <3>1. wire'[s] = Append(wire[s], e) /\ e = envelopes[1] /\ e \in Envelope
          /\ 1 \in DOMAIN envelopes
      BY <1>0, <2>1, <2>2, <2>3
    <3>2. Effect(Delivered(b), e, Delivered(b)')
      BY <1>0, <2>1, <3>1, DeliveredMore
    <3>3. Current(e)
      BY <3>1 DEF EnvelopesCurrent, Current
    <3>4. \A type : Coming(s, type) => Coming(s, type)' \/ e.type = type
      BY <2>1, <3>1 DEF Coming
    <3>5. endpoint[s] # "accepted" /\ endpoint'[s] = endpoint[s]
      BY <1>0, <2>1, <2>2, <2>3 DEF Apart
    <3>6. \A type : Coming(socket[b], type) => Coming(socket[b], type)' \/ e.type = type
      BY <1>0, <2>1, <3>4 DEF Coming, browser_vars
    <3> HIDE DEF e
    <3> QED BY <1>0, <2>1, <3>1, <3>2, <3>3, <3>5, <3>6 DEF Heard, SameBridge
  <2>4. CASE Head(targets) # s
    <3>1. wire'[s] = wire[s] /\ (In(targets, s) => In(targets', s))
      BY <1>0, <2>1, <2>2, <2>4
    <3>2. Delivered(b)' = Delivered(b)
      BY <1>0, <2>1, <3>1, DeliveredSame DEF browser_vars
    <3>3. \A type : Coming(s, type) => Coming(s, type)'
      BY <2>1, <3>1, ComingSame
    <3>4. \A type : Coming(socket[b], type) => Coming(socket[b], type)'
      BY <1>0, <2>1, <3>3 DEF Coming, browser_vars
    <3> QED BY <2>1, <3>2, <3>4 DEF Quiet, SameBridge
  <2> QED BY <2>3, <2>4
<1>4. CASE Purges
  <2>1. /\ targets = <<>> /\ envelopes # <<>> /\ connections' = Without(stale)
        /\ envelopes' = Tail(envelopes)
        /\ targets' = IF Len(envelopes) > 1 THEN connections' ELSE <<>>
        /\ UNCHANGED <<phase, topology, connected, reported, endpoint>> /\ UNCHANGED browser_vars
        /\ UNCHANGED wire
    BY <1>4 DEF Purges, BroadcastEnds, idle, ends_vars, bridge_vars, socket_vars
  <2>2. In(connections, s) => In(connections', s)
    <3>1. s \notin stale
      BY <1>0 DEF Apart
    <3> QED BY <1>0, <2>1, <3>1, WithoutKeeps
  <2>3. ASSUME NEW type, Coming(s, type) PROVE Coming(s, type)'
    <3>1. ~In(targets, s)
      BY <2>1 DEF In
    <3>2. PICK i \in DOMAIN envelopes : i > 1 /\ envelopes[i].type = type /\ In(connections, s)
      BY <2>3, <3>1 DEF Coming
    <3>3. /\ i - 1 \in DOMAIN envelopes' /\ envelopes'[i - 1] = envelopes[i] /\ Len(envelopes) > 1
          /\ envelopes' # <<>> /\ i \in Nat
      BY <1>0, <2>1, <3>2
    <3>4. targets' = connections' /\ In(targets', s) /\ In(connections', s)
      BY <2>1, <2>2, <3>2, <3>3
    <3>5. CASE i = 2
      BY <3>2, <3>3, <3>4, <3>5 DEF Coming
    <3>6. CASE i # 2
      <4>1. i - 1 > 1
        BY <3>2, <3>3, <3>6
      <4> QED BY <3>2, <3>3, <3>4, <4>1 DEF Coming
    <3> QED BY <3>5, <3>6
  <2>4. Delivered(b)' = Delivered(b)
    BY <1>0, <2>1, DeliveredSame DEF browser_vars
  <2>5. \A type : Coming(socket[b], type) => Coming(socket[b], type)'
    BY <1>0, <2>1, <2>3 DEF Coming, browser_vars
  <2> QED BY <2>1, <2>4, <2>5 DEF Quiet, SameBridge
<1>5. ASSUME NEW r \in Sockets, Registers(r) PROVE Quiet(b)
  <2>1. /\ endpoint[r] = "accepted" /\ endpoint' = [endpoint EXCEPT ![r] = "registered"]
        /\ connections' = Append(connections, r)
        /\ UNCHANGED <<wire, browser_vars, envelopes>> /\ UNCHANGED targets /\ SameBridge
    BY <1>5 DEF Registers, Goes, socket_vars, broadcast_vars, bridge_vars, SameBridge
  <2>2. In(connections, s) => In(connections', s)
    BY <1>0, <2>1, InLists
  <2>3. \/ endpoint'[s] = endpoint[s]
        \/ endpoint[s] = "accepted" /\ endpoint'[s] = "registered"
    BY <1>0, <2>1
  <2> QED BY <1>1, <2>1, <2>2, <2>3
<1>6. ASSUME NEW r \in Sockets, NEW from, NEW to, NEW e, Greets(r, from, to, e), Current(e),
             \/ from = "registered" /\ to = "greeted" /\ e.type = "sdn:topology:sync"
             \/ from = "greeted" /\ to = "live" /\ e.type = "system:status"
      PROVE  Heard(b) \/ Quiet(b)
  <2>1. /\ endpoint[r] = from /\ endpoint' = [endpoint EXCEPT ![r] = to] /\ e \in Envelope
        /\ UNCHANGED envelopes /\ UNCHANGED targets /\ UNCHANGED browser_vars /\ SameBridge
        /\ \/ wire' = [wire EXCEPT ![r] = Append(@, e)] /\ UNCHANGED connections
           \/ r \notin alive /\ connections' = Without({r}) /\ UNCHANGED wire
    BY <1>6 DEF Greets, Goes, send_to, send_json, disconnect, broadcast_vars, bridge_vars,
                SameBridge
  <2>2. In(connections, s) => In(connections', s)
    BY <1>0, <2>1, WithoutKeeps
  <2>3. CASE r = s
    <3>1. wire'[s] = Append(wire[s], e)
      BY <1>0, <2>1, <2>3
    <3>2. Effect(Delivered(b), e, Delivered(b)')
      BY <1>0, <2>1, <3>1, DeliveredMore
    <3>3. \A type : Coming(s, type) => Coming(s, type)'
      BY <2>1, <2>2, ComingSame
    <3>4. endpoint[s] = from /\ endpoint'[s] = to
      BY <1>0, <2>1, <2>3
    <3>5. \A type : Coming(socket[b], type) => Coming(socket[b], type)' \/ e.type = type
      BY <1>0, <2>1, <3>3 DEF Coming, browser_vars
    <3> QED BY <1>0, <1>6, <2>1, <3>2, <3>4, <3>5 DEF Heard
  <2>4. CASE r # s
    <3>1. wire'[s] = wire[s] /\ endpoint'[s] = endpoint[s]
      BY <1>0, <2>1, <2>4
    <3>2. Delivered(b)' = Delivered(b)
      BY <1>0, <2>1, <3>1, DeliveredSame DEF browser_vars
    <3>3. \A type : Coming(s, type) => Coming(s, type)'
      BY <2>1, <2>2, ComingSame
    <3>4. \A type : Coming(socket[b], type) => Coming(socket[b], type)'
      BY <1>0, <2>1, <3>3 DEF Coming, browser_vars
    <3> QED BY <1>0, <2>1, <3>1, <3>2, <3>4 DEF Quiet
  <2> QED BY <2>3, <2>4
<1>7. ASSUME NEW r \in Sockets, Leaves(r) PROVE Quiet(b)
  <2>1. /\ r # s /\ endpoint' = [endpoint EXCEPT ![r] = "none"] /\ connections' = Without({r})
        /\ UNCHANGED <<wire, browser_vars, envelopes>> /\ UNCHANGED targets /\ SameBridge
    BY <1>0, <1>7 DEF Leaves, Goes, disconnect, socket_vars, broadcast_vars, bridge_vars, SameBridge
  <2>2. In(connections, s) => In(connections', s)
    BY <1>0, <2>1, WithoutKeeps
  <2>3. endpoint'[s] = endpoint[s]
    BY <1>0, <2>1
  <2> QED BY <1>1, <2>1, <2>2, <2>3
<1>8. ASSUME SameBridge, wire'[s] = wire[s], UNCHANGED <<connections, envelopes, targets>>,
             UNCHANGED <<view, pending, socket>>, endpoint'[s] = endpoint[s]
      PROVE  Quiet(b)
  <2>1. Delivered(b)' = Delivered(b)
    BY <1>0, <1>8, DeliveredSame
  <2>2. \A type : Coming(socket[b], type) => Coming(socket[b], type)'
    BY <1>8 DEF Coming
  <2> QED BY <1>0, <1>8, <2>1, <2>2 DEF Quiet
<1>9. ASSUME NEW r \in Sockets, Loses(r) PROVE Quiet(b)
  <2>1. /\ wire' = [q \in Sockets |-> IF q \in {r} THEN <<>> ELSE wire[q]] /\ r # s
        /\ UNCHANGED <<connections, envelopes, targets>> /\ UNCHANGED <<view, pending, socket>>
        /\ UNCHANGED endpoint /\ SameBridge
    BY <1>0, <1>9 DEF Loses, Drop, broadcast_vars, bridge_vars, ends_vars, browser_vars, SameBridge
  <2>2. wire'[s] = wire[s]
    BY <1>0, <2>1
  <2> QED BY <1>8, <2>1, <2>2
<1>10. CASE Restarts
  <2>1. alive' = {}
    BY <1>0, <1>10 DEF Restarts, Drop
  <2> QED BY <1>0, <2>1
<1>11. ASSUME NEW c \in Browsers, NEW r \in Sockets, Opened(c, r) PROVE Quiet(b)
  <2>1. /\ r # s /\ c # b /\ socket' = [socket EXCEPT ![c] = r]
        /\ endpoint' = [endpoint EXCEPT ![r] = "accepted"]
        /\ UNCHANGED <<connections, envelopes, targets, wire, view, pending>> /\ SameBridge
    BY <1>0, <1>11 DEF Opened, Opens, Fresh, broadcast_vars, bridge_vars, bound_vars, SameBridge
  <2>2. socket'[b] = s /\ endpoint'[s] = endpoint[s]
    BY <1>0, <2>1
  <2>3. Delivered(b)' = Delivered(b)
    BY <1>0, <2>1, <2>2 DEF Delivered
  <2>4. \A type : Coming(socket[b], type) => Coming(socket[b], type)'
    BY <1>0, <2>1, <2>2 DEF Coming
  <2> QED BY <1>0, <2>1, <2>2, <2>3, <2>4 DEF Quiet
<1>12. ASSUME NEW c \in Browsers, Receive(c) \/ Flush(c) PROVE Quiet(b)
  <2>1. /\ SameBridge /\ UNCHANGED <<connections, envelopes, targets>> /\ UNCHANGED socket
        /\ UNCHANGED endpoint
    BY <1>12 DEF Receive, Flush, broadcast_vars, bridge_vars, bound_vars, hub_vars, SameBridge
  <2>2. Delivered(b)' = Delivered(b)
    BY <1>0, <1>12, <2>1, DeliveredSame
  <2>3. \A type : Coming(socket[b], type) => Coming(socket[b], type)'
    BY <2>1 DEF Coming
  <2> QED BY <2>1, <2>2, <2>3 DEF Quiet
<1>13. ASSUME NEW c \in Browsers, Closes(c) \/ Reloads(c) PROVE Quiet(b)
  <2>1. c # b
    BY <1>0, <1>13 DEF Closes, Closed, Reloads
  <2>2. /\ SameBridge /\ UNCHANGED <<connections, envelopes, targets, wire, endpoint>>
        /\ view'[b] = view[b] /\ pending'[b] = pending[b] /\ socket'[b] = socket[b]
    BY <1>0, <1>13, <2>1
    DEF Closes, Closed, Reloads, broadcast_vars, bridge_vars, hub_vars, socket_vars, SameBridge,
        Typed
  <2>3. Delivered(b)' = Delivered(b)
    BY <2>2 DEF Delivered
  <2>4. \A type : Coming(socket[b], type) => Coming(socket[b], type)'
    BY <2>2 DEF Coming
  <2> QED BY <2>2, <2>3, <2>4 DEF Quiet
<1>14. CASE Stutters
  BY <1>8, <1>14
  DEF Stutters, broadcast_vars, bridge_vars, hub_vars, socket_vars, browser_vars, SameBridge
<1>15. ASSUME NEW r \in Sockets,
              \/ Greets(r, "registered", "greeted", topology_snapshot)
              \/ Greets(r, "greeted", "live", status_payload)
       PROVE  Heard(b) \/ Quiet(b)
  <2>1. topology_snapshot.type = "sdn:topology:sync" /\ status_payload.type = "system:status"
    BY DEF topology_snapshot, status_payload, Status
  <2> QED BY <1>6, <1>15, <2>1, SnapshotsCurrent
<1> QED
  BY <1>2, <1>3, <1>4, <1>5, <1>7, <1>9, <1>10, <1>11, <1>12, <1>13, <1>14, <1>15 DEF Kinds

\* A connection that was not there before has just been accepted.
LEMMA NewConnection ==
  ASSUME Typed, Apart, Kinds, NEW b \in Browsers, socket'[b] \in alive',
         ~(socket[b] \in alive /\ socket'[b] = socket[b])
  PROVE  endpoint'[socket'[b]] = "accepted"
<1>0. /\ alive \subseteq Sockets /\ NoSocket \notin Sockets
      /\ endpoint \in [Sockets -> {"none", "accepted", "registered", "greeted", "live"}]
      /\ socket \in [Browsers -> Sockets \union {NoSocket}]
  BY DashboardAssumption DEF Typed, TypeOK
<1>1. ASSUME alive' \subseteq alive, socket'[b] = socket[b] \/ socket'[b] = NoSocket PROVE FALSE
  BY <1>0, <1>1
<1>2. ASSUME NEW es \in Seq(Envelope), Starts(es) PROVE FALSE
  BY <1>1, <1>2 DEF Starts, ends_vars, browser_vars, socket_vars
<1>3. CASE Sends \/ Purges
  BY <1>1, <1>3
  DEF Sends, Purges, BroadcastSend, BroadcastEnds, ends_vars, browser_vars, socket_vars
<1>4. ASSUME NEW s \in Sockets, Registers(s) \/ Leaves(s) \/ Loses(s) PROVE FALSE
  BY <1>1, <1>4 DEF Registers, Leaves, Loses, Drop, ends_vars, browser_vars, socket_vars
<1>5. ASSUME NEW s \in Sockets, NEW from, NEW to, NEW e, Greets(s, from, to, e) PROVE FALSE
  BY <1>1, <1>5 DEF Greets, browser_vars
<1>6. CASE Restarts
  BY <1>1, <1>6 DEF Restarts, Drop, browser_vars
<1>7. ASSUME NEW c \in Browsers, NEW s \in Sockets, Opened(c, s)
      PROVE  endpoint'[socket'[b]] = "accepted"
  <2>1. /\ socket' = [socket EXCEPT ![c] = s] /\ alive' = alive \union {s}
        /\ endpoint' = [endpoint EXCEPT ![s] = "accepted"] /\ socket[b] # s
    BY <1>7 DEF Opened, Opens, Fresh
  <2>2. CASE c = b
    BY <1>0, <2>1, <2>2
  <2>3. CASE c # b
    BY <1>0, <2>1, <2>3
  <2> QED BY <2>2, <2>3
<1>8. ASSUME NEW c \in Browsers, Receive(c) \/ Flush(c) PROVE FALSE
  BY <1>1, <1>8 DEF Receive, Flush, hub_vars, socket_vars
<1>9. ASSUME NEW c \in Browsers, Closes(c) \/ Reloads(c) PROVE FALSE
  <2>1. UNCHANGED alive /\ socket' = [socket EXCEPT ![c] = NoSocket]
    BY <1>9 DEF Closes, Closed, Reloads, hub_vars, socket_vars
  <2>2. socket'[b] = socket[b] \/ socket'[b] = NoSocket
    BY <1>0, <2>1
  <2> QED BY <1>1, <2>1, <2>2
<1>10. CASE Stutters
  BY <1>1, <1>10 DEF Stutters, hub_vars, socket_vars, browser_vars
<1> QED
  BY <1>2, <1>3, <1>4, <1>5, <1>6, <1>7, <1>8, <1>9, <1>10 DEF Kinds

\* What is being multicast stays current.
LEMMA EnvelopesStep ==
  ASSUME Typed, EnvelopesCurrent, Kinds
  PROVE  EnvelopesCurrent'
<1>0. envelopes \in Seq(Envelope)
  BY DEF Typed
<1>1. ASSUME UNCHANGED envelopes, SameBridge PROVE EnvelopesCurrent'
  BY <1>1 DEF EnvelopesCurrent, SameBridge, status_payload
<1>2. ASSUME NEW es \in Seq(Envelope), Starts(es) PROVE EnvelopesCurrent'
  BY <1>2 DEF Starts, Announces
<1>3. CASE Sends
  BY <1>1, <1>3 DEF Sends, BroadcastSend, bridge_vars, SameBridge
<1>4. CASE Purges
  <2>1. envelopes # <<>> /\ envelopes' = Tail(envelopes) /\ SameBridge
    BY <1>4 DEF Purges, BroadcastEnds, idle, bridge_vars, SameBridge
  <2>2. \A i \in DOMAIN envelopes' : i + 1 \in DOMAIN envelopes /\ envelopes'[i] = envelopes[i + 1]
    BY <1>0, <2>1
  <2>3. status_payload' = status_payload
    BY <2>1 DEF SameBridge, status_payload
  <2> QED BY <2>1, <2>2, <2>3 DEF EnvelopesCurrent, SameBridge
<1>5. ASSUME NEW s \in Sockets, Registers(s) \/ Leaves(s) \/ Loses(s) PROVE EnvelopesCurrent'
  BY <1>1, <1>5 DEF Registers, Leaves, Loses, broadcast_vars, bridge_vars, SameBridge
<1>6. ASSUME NEW s \in Sockets, NEW from, NEW to, NEW e, Greets(s, from, to, e)
      PROVE  EnvelopesCurrent'
  BY <1>1, <1>6 DEF Greets, broadcast_vars, bridge_vars, SameBridge
<1>7. CASE Restarts
  <2>1. envelopes' = <<>>
    BY <1>7 DEF Restarts
  <2> QED BY <2>1 DEF EnvelopesCurrent
<1>8. ASSUME NEW c \in Browsers, NEW s \in Sockets, Opened(c, s) PROVE EnvelopesCurrent'
  BY <1>1, <1>8 DEF Opened, Opens, broadcast_vars, bridge_vars, bound_vars, SameBridge
<1>9. ASSUME NEW c \in Browsers, Receive(c) \/ Flush(c) PROVE EnvelopesCurrent'
  BY <1>1, <1>9 DEF Receive, Flush, hub_vars, broadcast_vars, bridge_vars, bound_vars, SameBridge
<1>10. ASSUME NEW c \in Browsers, Closes(c) \/ Reloads(c) PROVE EnvelopesCurrent'
  BY <1>1, <1>10
  DEF Closes, Closed, Reloads, hub_vars, broadcast_vars, bridge_vars, SameBridge
<1>11. CASE Stutters
  BY <1>1, <1>11 DEF Stutters, hub_vars, broadcast_vars, bridge_vars, SameBridge
<1> QED
  BY <1>2, <1>3, <1>4, <1>5, <1>6, <1>7, <1>8, <1>9, <1>10, <1>11 DEF Kinds

\* An announcement reaches every registered session; while it was not made,
\* nothing was on its way.
LEMMA AnnouncedTo ==
  ASSUME Typed, Registry, Apart, NEW b \in Browsers, socket[b] \in alive, socket'[b] = socket[b],
         Announced(b)
  PROVE  /\ \A type : ~Coming(socket[b], type)
         /\ endpoint[socket[b]] # "accepted"
              => \A type : (\E i \in DOMAIN envelopes' : envelopes'[i].type = type)
                             => Coming(socket[b], type)'
<1>1. /\ envelopes = <<>> /\ envelopes' # <<>> /\ targets' = connections
      /\ UNCHANGED connections /\ envelopes' \in Seq(Envelope)
  BY DEF Announced, Starts, idle, broadcast
<1>2. \A type : ~Coming(socket[b], type)
  BY <1>1 DEF Coming
<1>3. ASSUME endpoint[socket[b]] # "accepted", NEW type,
             NEW i \in DOMAIN envelopes', envelopes'[i].type = type
      PROVE  Coming(socket[b], type)'
  <2>1. In(connections, socket[b])
    <3>1. socket[b] \in Sockets /\ endpoint[socket[b]] # "none"
          /\ endpoint[socket[b]] \in {"none", "accepted", "registered", "greeted", "live"}
      BY DEF Apart, Typed, TypeOK
    <3> QED BY <1>3, <3>1 DEF Registry, Registered
  <2>2. In(targets', socket'[b]) /\ In(connections', socket'[b])
    BY <1>1, <2>1
  <2>3. i = 1 \/ i > 1
    BY <1>1
  <2> QED BY <1>1, <1>3, <2>2, <2>3 DEF Coming
<1> QED BY <1>2, <1>3

\* A connected browser goes on being about to show the bridge's state.
LEMMA ArrivesStep ==
  ASSUME Typed, Registry, Apart, EnvelopesCurrent, Arrives, Kinds
  PROVE  Arrives'
<1> SUFFICES ASSUME NEW b \in Browsers, socket'[b] \in alive'
             PROVE  StatusArrives(b)' /\ TopologyArrives(b)'
  BY DEF Arrives
<1>1. CASE ~(socket[b] \in alive /\ socket'[b] = socket[b])
  <2>1. endpoint'[socket'[b]] = "accepted"
    BY <1>1, NewConnection
  <2> QED BY <2>1 DEF StatusArrives, TopologyArrives
<1>2. CASE socket[b] \in alive /\ socket'[b] = socket[b]
  <2>0. StatusArrives(b) /\ TopologyArrives(b) /\ socket[b] \in alive /\ socket'[b] = socket[b]
    BY <1>2 DEF Arrives
  <2>1. Announced(b) \/ Heard(b) \/ Quiet(b)
    BY <1>2, SameConnection
  <2>2. CASE Announced(b)
    <3>1. /\ \A type : ~Coming(socket[b], type)
          /\ endpoint[socket[b]] # "accepted"
              => \A type : (\E i \in DOMAIN envelopes' : envelopes'[i].type = type)
                             => Coming(socket[b], type)'
      BY <1>2, <2>2, AnnouncedTo
    <3>2. /\ Delivered(b)' = Delivered(b) /\ endpoint'[socket'[b]] = endpoint[socket[b]]
          /\ Announces
      BY <2>0, <2>2 DEF Announced, Starts
    <3>3. CASE endpoint[socket[b]] = "accepted"
      BY <3>2, <3>3 DEF StatusArrives, TopologyArrives
    <3>4. CASE endpoint[socket[b]] # "accepted"
      <4>1. StatusArrives(b)'
        <5>1. CASE UNCHANGED <<phase, connected>>
          <6>1. status_payload' = status_payload
            BY <5>1 DEF status_payload
          <6> QED BY <2>0, <3>1, <3>2, <5>1, <6>1 DEF StatusArrives
        <5>2. CASE ~UNCHANGED <<phase, connected>>
          <6>1. Coming(socket[b], "system:status")'
            BY <3>1, <3>2, <3>4, <5>2 DEF Announces
          <6> QED BY <6>1 DEF StatusArrives
        <5> QED BY <5>1, <5>2
      <4>2. TopologyArrives(b)'
        <5>1. CASE UNCHANGED topology
          BY <2>0, <3>1, <3>2, <5>1 DEF TopologyArrives
        <5>2. CASE ~UNCHANGED topology
          <6>1. Coming(socket[b], "sdn:topology:sync")'
            BY <3>1, <3>2, <3>4, <5>2 DEF Announces
          <6> QED BY <6>1 DEF TopologyArrives
        <5> QED BY <5>1, <5>2
      <4> QED BY <4>1, <4>2
    <3> QED BY <3>3, <3>4
  <2>3. CASE Heard(b)
    <3>1. PICK e \in Envelope :
            /\ Current(e)
            /\ Effect(Delivered(b), e, Delivered(b)')
            /\ \A type : Coming(socket[b], type) => Coming(socket[b], type)' \/ e.type = type
            /\ \/ endpoint'[socket[b]] = endpoint[socket[b]] /\ endpoint[socket[b]] # "accepted"
               \/ /\ endpoint[socket[b]] = "registered" /\ endpoint'[socket[b]] = "greeted"
                  /\ e.type = "sdn:topology:sync"
               \/ /\ endpoint[socket[b]] = "greeted" /\ endpoint'[socket[b]] = "live"
                  /\ e.type = "system:status"
      BY <2>3 DEF Heard
    <3>2. SameBridge /\ status_payload' = status_payload
          /\ status_payload.phase = phase
      BY <2>3 DEF Heard, SameBridge, status_payload, Status
    <3>3. /\ UNCHANGED <<phase, topology>>
          /\ e.type = "system:status"
               => /\ Delivered(b)'.phase = phase
                  /\ Delivered(b)'.upstream = status_payload.upstream
          /\ e.type # "system:status"
               => /\ Delivered(b)'.phase = Delivered(b).phase
                  /\ Delivered(b)'.upstream = Delivered(b).upstream
          /\ e.type = "sdn:topology:sync" => Delivered(b)'.topology = topology
          /\ e.type # "sdn:topology:sync" => Delivered(b)'.topology = Delivered(b).topology
      BY <3>1, <3>2 DEF Effect, Current, SameBridge
    <3>4. StatusArrives(b)'
      <4>1. CASE e.type = "system:status"
        BY <3>2, <3>3, <4>1 DEF StatusArrives
      <4>2. CASE e.type # "system:status"
        <5>1. Coming(socket[b], "system:status") => Coming(socket[b], "system:status")'
          BY <3>1, <4>2
        <5>2. endpoint[socket[b]] \in {"accepted", "registered", "greeted"}
                => endpoint'[socket'[b]] \in {"accepted", "registered", "greeted"}
          BY <2>0, <3>1, <4>2
        <5> QED BY <2>0, <3>2, <3>3, <4>2, <5>1, <5>2 DEF StatusArrives
      <4> QED BY <4>1, <4>2
    <3>5. TopologyArrives(b)'
      <4>1. CASE e.type = "sdn:topology:sync"
        BY <3>3, <4>1 DEF TopologyArrives
      <4>2. CASE e.type # "sdn:topology:sync"
        <5>1. Coming(socket[b], "sdn:topology:sync") => Coming(socket[b], "sdn:topology:sync")'
          BY <3>1, <4>2
        <5>2. endpoint[socket[b]] \in {"accepted", "registered"}
                => endpoint'[socket'[b]] \in {"accepted", "registered"}
          BY <2>0, <3>1, <4>2
        <5> QED BY <2>0, <3>3, <4>2, <5>1, <5>2 DEF TopologyArrives
      <4> QED BY <4>1, <4>2
    <3> QED BY <3>4, <3>5
  <2>4. CASE Quiet(b)
    <3>1. /\ UNCHANGED <<phase, topology>> /\ status_payload' = status_payload
          /\ Delivered(b)' = Delivered(b)
          /\ \A type : Coming(socket[b], type) => Coming(socket[b], type)'
          /\ \/ endpoint'[socket'[b]] = endpoint[socket[b]]
             \/ endpoint'[socket'[b]] = "registered"
      BY <2>0, <2>4 DEF Quiet, SameBridge, status_payload
    <3>2. StatusArrives(b)'
      BY <2>0, <3>1 DEF StatusArrives
    <3>3. TopologyArrives(b)'
      BY <2>0, <3>1 DEF TopologyArrives
    <3> QED BY <3>2, <3>3
  <2> QED BY <2>1, <2>2, <2>3, <2>4
<1> QED BY <1>1, <1>2

-----------------------------------------------------------------------------
(***************************************************************************)
(* Pages that lost no connection.                                          *)
(***************************************************************************)

\* Nothing is written to a socket before its session is registered.
LEMMA UntouchedStep ==
  ASSUME Typed, Apart, Untouched, Kinds
  PROVE  Untouched'
<1>0. /\ alive \subseteq Sockets /\ NoSocket \notin Sockets /\ targets \in Seq(Sockets)
      /\ endpoint \in [Sockets -> {"none", "accepted", "registered", "greeted", "live"}]
      /\ socket \in [Browsers -> Sockets \union {NoSocket}]
      /\ wire \in [Sockets -> Seq(Envelope)] /\ pending \in [Browsers -> Seq(Envelope)]
      /\ view \in [Browsers -> View] /\ seamless \in [Browsers -> BOOLEAN]
  BY DashboardAssumption DEF Typed, TypeOK
<1> SUFFICES ASSUME NEW b \in Browsers, seamless'[b],
                    socket'[b] = NoSocket \/ endpoint'[socket'[b]] = "accepted"
             PROVE  /\ view'[b] = initialState /\ pending'[b] = <<>>
                    /\ socket'[b] # NoSocket => wire'[socket'[b]] = <<>>
  BY DEF Untouched
<1>1. ASSUME seamless[b], socket'[b] = socket[b],
             socket[b] = NoSocket \/ endpoint[socket[b]] = "accepted",
             view'[b] = view[b], pending'[b] = pending[b],
             socket[b] # NoSocket => wire'[socket[b]] = wire[socket[b]] \/ wire'[socket[b]] = <<>>
      PROVE  /\ view'[b] = initialState /\ pending'[b] = <<>>
             /\ socket'[b] # NoSocket => wire'[socket'[b]] = <<>>
  BY <1>1 DEF Untouched
<1>2. ASSUME NEW es \in Seq(Envelope), Starts(es)
      PROVE  /\ view'[b] = initialState /\ pending'[b] = <<>>
             /\ socket'[b] # NoSocket => wire'[socket'[b]] = <<>>
  BY <1>1, <1>2 DEF Starts, ends_vars, browser_vars, socket_vars
<1>3. CASE Sends
  <2>1. /\ targets # <<>> /\ UNCHANGED <<endpoint, socket, pending, view, seamless>>
        /\ \/ wire' = [wire EXCEPT ![Head(targets)] = Append(@, Head(envelopes))]
           \/ UNCHANGED wire
    BY <1>3 DEF Sends, BroadcastSend, send_json, ends_vars, browser_vars
  <2>2. Head(targets) \in Sockets /\ In(targets, Head(targets))
    BY <1>0, <2>1, InLists
  <2>3. socket[b] # Head(targets)
    BY <1>0, <2>1, <2>2 DEF Apart
  <2>4. socket[b] # NoSocket => wire'[socket[b]] = wire[socket[b]]
    BY <1>0, <2>1, <2>2, <2>3
  <2> QED BY <1>1, <2>1, <2>4
<1>4. CASE Purges
  BY <1>1, <1>4 DEF Purges, BroadcastEnds, ends_vars, browser_vars, socket_vars
<1>5. ASSUME NEW s \in Sockets, NEW to, endpoint' = [endpoint EXCEPT ![s] = to],
             to # "accepted", UNCHANGED <<socket, pending, view, seamless>>,
             UNCHANGED wire \/ \E e : wire' = [wire EXCEPT ![s] = Append(@, e)]
      PROVE  /\ view'[b] = initialState /\ pending'[b] = <<>>
             /\ socket'[b] # NoSocket => wire'[socket'[b]] = <<>>
  <2>1. socket[b] # s /\ (socket[b] # NoSocket => endpoint'[socket[b]] = endpoint[socket[b]])
    BY <1>0, <1>5
  <2>2. socket[b] # NoSocket => wire'[socket[b]] = wire[socket[b]]
    BY <1>0, <1>5, <2>1
  <2> QED BY <1>1, <1>5, <2>1, <2>2
<1>6. ASSUME NEW s \in Sockets, Registers(s) \/ Leaves(s)
      PROVE  /\ view'[b] = initialState /\ pending'[b] = <<>>
             /\ socket'[b] # NoSocket => wire'[socket'[b]] = <<>>
  <2>1. PICK to \in {"registered", "none"} : endpoint' = [endpoint EXCEPT ![s] = to]
    BY <1>6 DEF Registers, Leaves, Goes
  <2>2. UNCHANGED <<socket, pending, view, seamless>> /\ UNCHANGED wire
    BY <1>6 DEF Registers, Leaves, browser_vars, socket_vars
  <2> QED BY <1>5, <2>1, <2>2
<1>7. ASSUME NEW s \in Sockets, NEW from, NEW to, NEW e, Greets(s, from, to, e)
      PROVE  /\ view'[b] = initialState /\ pending'[b] = <<>>
             /\ socket'[b] # NoSocket => wire'[socket'[b]] = <<>>
  <2>1. /\ endpoint' = [endpoint EXCEPT ![s] = to] /\ to # "accepted"
        /\ UNCHANGED <<socket, pending, view, seamless>>
        /\ UNCHANGED wire \/ wire' = [wire EXCEPT ![s] = Append(@, e)]
    BY <1>7 DEF Greets, Goes, send_to, send_json, browser_vars
  <2> QED BY <1>5, <2>1
<1>8. ASSUME NEW s \in Sockets, Loses(s)
      PROVE  /\ view'[b] = initialState /\ pending'[b] = <<>>
             /\ socket'[b] # NoSocket => wire'[socket'[b]] = <<>>
  <2>1. /\ UNCHANGED <<endpoint, socket, pending, view, seamless>>
        /\ \A r \in Sockets : wire'[r] = wire[r] \/ wire'[r] = <<>>
    BY <1>8 DEF Loses, Drop, ends_vars, browser_vars
  <2> QED BY <1>0, <1>1, <2>1
<1>9. CASE Restarts
  <2>1. /\ UNCHANGED <<socket, pending, view, seamless>>
        /\ \A r \in Sockets : endpoint'[r] = "none"
    BY <1>9 DEF Restarts, browser_vars
  <2>2. socket[b] = NoSocket
    BY <1>0, <2>1
  <2> QED BY <1>1, <2>1, <2>2
<1>10. ASSUME NEW c \in Browsers, NEW s \in Sockets, Opened(c, s)
       PROVE  /\ view'[b] = initialState /\ pending'[b] = <<>>
              /\ socket'[b] # NoSocket => wire'[socket'[b]] = <<>>
  <2>1. /\ socket[c] = NoSocket /\ endpoint[s] = "none" /\ socket[b] # s
        /\ socket' = [socket EXCEPT ![c] = s] /\ endpoint' = [endpoint EXCEPT ![s] = "accepted"]
        /\ UNCHANGED <<wire, pending, view, seamless>>
    BY <1>10 DEF Opened, Opens, Fresh
  <2>2. CASE c = b
    <3>1. view[b] = initialState /\ pending[b] = <<>>
      BY <2>1, <2>2 DEF Untouched
    <3>2. s \notin alive /\ wire[s] = <<>>
      BY <2>1 DEF Apart
    <3> QED BY <1>0, <2>1, <2>2, <3>1, <3>2
  <2>3. CASE c # b
    <3>1. socket'[b] = socket[b] /\ (socket[b] # NoSocket => endpoint'[socket[b]] = endpoint[socket[b]])
      BY <1>0, <2>1, <2>3
    <3> QED BY <1>1, <2>1, <3>1
  <2> QED BY <2>2, <2>3
<1>11. ASSUME NEW c \in Browsers, Receive(c)
       PROVE  /\ view'[b] = initialState /\ pending'[b] = <<>>
              /\ socket'[b] # NoSocket => wire'[socket'[b]] = <<>>
  <2>1. /\ socket[c] # NoSocket /\ wire[socket[c]] # <<>>
        /\ UNCHANGED <<endpoint, socket, view, seamless>>
        /\ pending' = [pending EXCEPT ![c] = Append(@, Head(wire[socket[c]]))]
        /\ wire' = [wire EXCEPT ![socket[c]] = Tail(@)]
    BY <1>11 DEF Receive
  <2>2. socket[b] # socket[c] /\ c # b
    BY <2>1 DEF Untouched
  <2>3. pending'[b] = pending[b] /\ (socket[b] # NoSocket => wire'[socket[b]] = wire[socket[b]])
    BY <1>0, <2>1, <2>2
  <2> QED BY <1>1, <2>1, <2>3
<1>12. ASSUME NEW c \in Browsers, Flush(c)
       PROVE  /\ view'[b] = initialState /\ pending'[b] = <<>>
              /\ socket'[b] # NoSocket => wire'[socket'[b]] = <<>>
  <2>1. /\ pending[c] # <<>> /\ UNCHANGED <<endpoint, socket, seamless, wire>>
        /\ view' = [view EXCEPT ![c] = applyBatch(@, pending[c])]
        /\ pending' = [pending EXCEPT ![c] = <<>>]
    BY <1>12 DEF Flush, hub_vars, socket_vars
  <2>2. c # b
    BY <2>1 DEF Untouched
  <2>3. pending'[b] = pending[b] /\ view'[b] = view[b]
    BY <1>0, <2>1, <2>2
  <2> QED BY <1>1, <2>1, <2>3
<1>13. ASSUME NEW c \in Browsers, Closes(c) \/ Reloads(c)
       PROVE  /\ view'[b] = initialState /\ pending'[b] = <<>>
              /\ socket'[b] # NoSocket => wire'[socket'[b]] = <<>>
  <2>1. CASE c = b /\ Closes(c)
    <3>1. seamless' = [seamless EXCEPT ![b] = FALSE]
      BY <2>1 DEF Closes, Closed
    <3> QED BY <1>0, <3>1
  <2>2. CASE c = b /\ Reloads(c)
    BY <1>0, <2>2 DEF Reloads
  <2>3. CASE c # b
    <3>1. /\ seamless'[b] = seamless[b] /\ socket'[b] = socket[b] /\ view'[b] = view[b]
          /\ pending'[b] = pending[b] /\ UNCHANGED <<endpoint, wire>>
      BY <1>0, <1>13, <2>3 DEF Closes, Closed, Reloads, hub_vars, socket_vars
    <3> QED BY <1>1, <3>1
  <2> QED BY <1>13, <2>1, <2>2, <2>3
<1>14. CASE Stutters
  BY <1>1, <1>14 DEF Stutters, hub_vars, socket_vars, browser_vars
<1> QED
  BY <1>2, <1>3, <1>4, <1>6, <1>7, <1>8, <1>9, <1>10, <1>11, <1>12, <1>13, <1>14 DEF Kinds

\* A page that keeps its connection stays as seamless as it was.
LEMMA SeamlessStep ==
  ASSUME Typed, Kinds, NEW b \in Browsers, socket[b] \in alive, socket'[b] = socket[b]
  PROVE  seamless'[b] = seamless[b]
<1>0. /\ socket[b] # NoSocket /\ socket \in [Browsers -> Sockets \union {NoSocket}]
      /\ seamless \in [Browsers -> BOOLEAN]
  BY DashboardAssumption DEF Typed, TypeOK
<1>1. ASSUME NEW es \in Seq(Envelope), Starts(es) PROVE seamless'[b] = seamless[b]
  BY <1>1 DEF Starts, ends_vars, browser_vars
<1>2. CASE Sends \/ Purges
  BY <1>2 DEF Sends, Purges, ends_vars, browser_vars
<1>3. ASSUME NEW s \in Sockets, Registers(s) \/ Leaves(s) \/ Loses(s)
      PROVE  seamless'[b] = seamless[b]
  BY <1>3 DEF Registers, Leaves, Loses, ends_vars, browser_vars
<1>4. ASSUME NEW s \in Sockets, NEW from, NEW to, NEW e, Greets(s, from, to, e)
      PROVE  seamless'[b] = seamless[b]
  BY <1>4 DEF Greets, browser_vars
<1>5. CASE Restarts \/ Stutters
  BY <1>5 DEF Restarts, Stutters, browser_vars
<1>6. ASSUME NEW c \in Browsers, NEW s \in Sockets, Opened(c, s) PROVE seamless'[b] = seamless[b]
  BY <1>6 DEF Opened, Opens
<1>7. ASSUME NEW c \in Browsers, Receive(c) \/ Flush(c) PROVE seamless'[b] = seamless[b]
  BY <1>7 DEF Receive, Flush
<1>8. ASSUME NEW c \in Browsers, Closes(c) \/ Reloads(c) PROVE seamless'[b] = seamless[b]
  <2>1. c # b
    BY <1>0, <1>8 DEF Closes, Closed, Reloads
  <2> QED BY <1>0, <1>8, <2>1 DEF Closes, Closed, Reloads
<1> QED BY <1>1, <1>2, <1>3, <1>4, <1>5, <1>6, <1>7, <1>8 DEF Kinds

\* In a closed phase nothing is reported.
LEMMA ClosedStep ==
  ASSUME Typed, Registry, Apart, phase \in CLOSED_PHASES => reported = {}, Kinds
  PROVE  phase' \in CLOSED_PHASES => reported' = {}
<1>1. ASSUME UNCHANGED <<phase, reported>> PROVE phase' \in CLOSED_PHASES => reported' = {}
  BY <1>1
<1>2. ASSUME NEW es \in Seq(Envelope), Starts(es)
      PROVE  phase' \in CLOSED_PHASES => reported' = {}
  BY <1>1, <1>2 DEF Starts, Announces
<1>3. CASE Sends \/ Purges
  BY <1>1, <1>3 DEF Sends, Purges, bridge_vars
<1>4. ASSUME NEW s \in Sockets, Registers(s) \/ Leaves(s) \/ Loses(s)
      PROVE  phase' \in CLOSED_PHASES => reported' = {}
  BY <1>1, <1>4 DEF Registers, Leaves, Loses, bridge_vars
<1>5. ASSUME NEW s \in Sockets, NEW from, NEW to, NEW e, Greets(s, from, to, e)
      PROVE  phase' \in CLOSED_PHASES => reported' = {}
  BY <1>1, <1>5 DEF Greets, bridge_vars
<1>6. CASE Restarts
  BY <1>6 DEF Restarts, NoPhase, CLOSED_PHASES
<1>7. ASSUME NEW c \in Browsers, NEW s \in Sockets, Opened(c, s)
      PROVE  phase' \in CLOSED_PHASES => reported' = {}
  BY <1>1, <1>7 DEF Opened, Opens, bridge_vars, bound_vars
<1>8. ASSUME NEW c \in Browsers, Receive(c) \/ Flush(c) \/ Closes(c) \/ Reloads(c)
      PROVE  phase' \in CLOSED_PHASES => reported' = {}
  BY <1>1, <1>8 DEF Receive, Flush, Closes, Closed, Reloads, bridge_vars, bound_vars
<1>9. CASE Stutters
  BY <1>1, <1>9 DEF Stutters, bridge_vars
<1> QED BY <1>2, <1>3, <1>4, <1>5, <1>6, <1>7, <1>8, <1>9 DEF Kinds

\* What an untouched page will show is the initial view.
LEMMA UntouchedDelivered ==
  ASSUME Untouched, NEW b \in Browsers, seamless[b], socket[b] # NoSocket,
         endpoint[socket[b]] = "accepted"
  PROVE  Delivered(b).phase = NoPhase /\ Delivered(b).incident = NoIncident
<1>1. view[b] = initialState /\ pending[b] = <<>> /\ wire[socket[b]] = <<>>
  BY DEF Untouched
<1>2. Delivered(b) = initialState
  BY <1>1, NothingApplied DEF Delivered
<1> QED BY <1>2 DEF initialState

\* The same of the next state.
LEMMA UntouchedDeliveredNext ==
  ASSUME Untouched', NEW b \in Browsers, seamless'[b], socket'[b] # NoSocket,
         endpoint'[socket'[b]] = "accepted"
  PROVE  Delivered(b)'.phase = NoPhase /\ Delivered(b)'.incident = NoIncident
<1>1. view'[b] = initialState /\ pending'[b] = <<>> /\ wire'[socket'[b]] = <<>>
  BY DEF Untouched
<1>2. Delivered(b)' = initialState
  BY <1>1, NothingApplied DEF Delivered
<1> QED BY <1>2 DEF initialState

\* A seamless page's incident stays one of the present attack, or about to
\* be closed.
LEMMA IncidentsStep ==
  ASSUME Typed, Typed', Registry, Apart, EnvelopesCurrent, Untouched, Untouched', Incidents, Kinds
  PROVE  Incidents'
<1>1. phase' \in CLOSED_PHASES => reported' = {}
  BY ClosedStep DEF Incidents
<1> SUFFICES ASSUME NEW b \in Browsers, seamless'[b], socket'[b] \in alive'
             PROVE  PhaseKnown(b)' /\ IncidentArrives(b)'
  BY <1>1 DEF Incidents
<1>2. CASE ~(socket[b] \in alive /\ socket'[b] = socket[b])
  <2>1. endpoint'[socket'[b]] = "accepted"
    BY <1>2, NewConnection
  <2>2. socket'[b] # NoSocket
    BY DashboardAssumption DEF Typed, TypeOK
  <2>3. Delivered(b)'.phase = NoPhase /\ Delivered(b)'.incident = NoIncident
    BY <2>1, <2>2, UntouchedDeliveredNext
  <2> QED BY <2>3 DEF PhaseKnown, IncidentArrives
<1>3. CASE socket[b] \in alive /\ socket'[b] = socket[b]
  <2>0. seamless[b] /\ PhaseKnown(b) /\ IncidentArrives(b) /\ socket[b] \in alive
        /\ socket'[b] = socket[b] /\ socket[b] # NoSocket
        /\ (phase \in CLOSED_PHASES => reported = {})
    BY <1>3, SeamlessStep, DashboardAssumption DEF Incidents, Typed, TypeOK
  <2>1. Announced(b) \/ Heard(b) \/ Quiet(b)
    BY <1>3, SameConnection
  <2>2. CASE Announced(b)
    <3>1. /\ \A type : ~Coming(socket[b], type)
          /\ endpoint[socket[b]] # "accepted"
              => \A type : (\E i \in DOMAIN envelopes' : envelopes'[i].type = type)
                             => Coming(socket[b], type)'
      BY <1>3, <2>2, AnnouncedTo
    <3>2. Delivered(b)' = Delivered(b) /\ Announces
      BY <2>2 DEF Announced, Starts
    <3>3. Delivered(b).phase \in {phase, NoPhase}
          /\ Delivered(b).incident \in reported \union {NoIncident}
      BY <2>0, <3>1 DEF PhaseKnown, IncidentArrives
    <3>4. CASE endpoint[socket[b]] = "accepted"
      <4>1. Delivered(b).phase = NoPhase /\ Delivered(b).incident = NoIncident
        BY <2>0, <3>4, UntouchedDelivered
      <4> QED BY <3>2, <4>1 DEF PhaseKnown, IncidentArrives
    <3>5. CASE endpoint[socket[b]] # "accepted" /\ phase' # phase
      <4>1. Coming(socket[b], "system:status")' /\ phase' # NoPhase
        BY <3>1, <3>2, <3>5 DEF Announces
      <4>2. Delivered(b)'.phase # phase'
        BY <3>2, <3>3, <3>5, <4>1
      <4>3. reported \subseteq reported' \/ phase' \in CLOSED_PHASES
        BY <3>2 DEF Announces
      <4> QED BY <3>2, <3>3, <4>1, <4>2, <4>3 DEF PhaseKnown, IncidentArrives
    <3>6. CASE phase' = phase
      <4>1. reported \subseteq reported'
        BY <2>0, <3>2, <3>6 DEF Announces
      <4> QED BY <3>2, <3>3, <3>6, <4>1 DEF PhaseKnown, IncidentArrives
    <3> QED BY <3>4, <3>5, <3>6
  <2>3. CASE Heard(b)
    <3>1. PICK e \in Envelope :
            /\ Current(e)
            /\ Effect(Delivered(b), e, Delivered(b)')
            /\ \A type : Coming(socket[b], type) => Coming(socket[b], type)' \/ e.type = type
      BY <2>3 DEF Heard
    <3>2. UNCHANGED <<phase, reported>> /\ status_payload.phase = phase
      BY <2>3 DEF Heard, SameBridge, status_payload, Status
    <3>3. CASE e.type = "system:status"
      <4>1. /\ Delivered(b)'.phase = phase
            /\ Delivered(b)'.incident \in {Delivered(b).incident, NoIncident}
            /\ phase \in CLOSED_PHASES /\ phase # Delivered(b).phase
                 => Delivered(b)'.incident = NoIncident
        BY <3>1, <3>2, <3>3 DEF Effect, Current
      <4>2. PhaseKnown(b)'
        BY <3>2, <4>1 DEF PhaseKnown
      <4>3. IncidentArrives(b)'
        BY <2>0, <3>2, <4>1 DEF IncidentArrives
      <4> QED BY <4>2, <4>3
    <3>4. CASE e.type # "system:status"
      <4>1. /\ Delivered(b)'.phase = Delivered(b).phase
            /\ Delivered(b)'.incident \in {Delivered(b).incident, NoIncident} \union reported
        BY <3>1, <3>4 DEF Effect, Current
      <4>2. Coming(socket[b], "system:status") => Coming(socket[b], "system:status")'
        BY <3>1, <3>4
      <4>3. PhaseKnown(b)'
        BY <2>0, <3>2, <4>1, <4>2 DEF PhaseKnown
      <4>4. IncidentArrives(b)'
        BY <2>0, <3>2, <4>1, <4>2 DEF IncidentArrives
      <4> QED BY <4>3, <4>4
    <3> QED BY <3>3, <3>4
  <2>4. CASE Quiet(b)
    <3>1. /\ UNCHANGED <<phase, reported>> /\ Delivered(b)' = Delivered(b)
          /\ Coming(socket[b], "system:status") => Coming(socket[b], "system:status")'
      BY <2>4 DEF Quiet, SameBridge
    <3> QED BY <2>0, <3>1 DEF PhaseKnown, IncidentArrives
  <2> QED BY <2>1, <2>2, <2>3, <2>4
<1> QED BY <1>2, <1>3

-----------------------------------------------------------------------------
(***************************************************************************)
(* The theorems.                                                           *)
(***************************************************************************)

\* The invariant holds at first, when nobody is connected.
LEMMA InitIInv == Init => IInv
<1> SUFFICES ASSUME Init PROVE IInv
  OBVIOUS
<1> USE DEF Init, HubInit, BridgeInit
<1>1. Typed
  <2>1. TypedHub
    BY DEF TypedHub
  <2>2. TypedWire
    BY HubAssumption DEF TypedWire
  <2>3. TypedBridge
    BY DEF TypedBridge
  <2>4. TypedEnds
    <3>1. initialState \in View
      BY DEF initialState, View
    <3> QED BY <3>1, DashboardAssumption DEF TypedEnds
  <2> QED BY <2>1, <2>2, <2>3, <2>4, TypedParts
<1>2. Registry
  BY DEF Registry, IsInjective, In
<1>3. Apart
  BY DEF Apart, In
<1>4. EnvelopesCurrent /\ Arrives
  BY DEF EnvelopesCurrent, Arrives
<1>5. Untouched
  BY DEF Untouched
<1>6. Incidents
  BY DEF Incidents, NoPhase, CLOSED_PHASES
<1> QED BY <1>1, <1>2, <1>3, <1>4, <1>5, <1>6 DEF IInv

\* Every step keeps it.
LEMMA NextIInv == IInv /\ [Next]_vars => IInv'
<1> SUFFICES ASSUME IInv, [Next]_vars PROVE IInv'
  OBVIOUS
<1>1. Kinds
  BY StepKinds DEF IInv
<1>2. Typed'
  BY <1>1, TypedStep DEF IInv
<1>3. Registry' /\ Apart' /\ EnvelopesCurrent' /\ Arrives'
  BY <1>1, RegistryStep, ApartStep, EnvelopesStep, ArrivesStep DEF IInv
<1>4. Untouched'
  BY <1>1, UntouchedStep DEF IInv
<1>5. Incidents'
  BY <1>1, <1>2, <1>4, IncidentsStep DEF IInv
<1> QED BY <1>2, <1>3, <1>4, <1>5 DEF IInv

\* So it always holds.
LEMMA AlwaysIInv == Spec => []IInv
<1>1. Init => IInv
  BY InitIInv
<1>2. IInv /\ [Next]_vars => IInv'
  BY NextIInv
<1> QED BY <1>1, <1>2, PTL DEF Spec

\* Every variable keeps its type, and no buffer on the way to a browser is
\* filled beyond its bound.
THEOREM DashboardTypeCorrect == Spec => []TypeOK
<1>1. IInv => TypeOK
  BY DEF IInv, Typed
<1> QED BY <1>1, AlwaysIInv, PTL

\* The registry lists each session once, and none whose endpoint has ended,
\* however sends fail, endpoints end and sockets are purged.
THEOREM RegistryIsExact == Spec => []RegistryExact
<1>1. IInv => RegistryExact
  <2> SUFFICES ASSUME IInv PROVE RegistryExact
    OBVIOUS
  <2>1. \A i \in DOMAIN connections : connections[i] \in Sockets
    BY DEF IInv, Typed, TypeOK
  <2> QED BY <2>1 DEF IInv, Registry, RegistryExact, Registered, In
<1> QED BY <1>1, AlwaysIInv, PTL

\* No failure of another session takes one that is up out of the registry.
THEOREM LiveSessionsStay == Spec => []LiveStayRegistered
<1>1. IInv => LiveStayRegistered
  BY DEF IInv, Registry, LiveStayRegistered, Registered, In
<1> QED BY <1>1, AlwaysIInv, PTL

\* A browser that has caught up shows the bridge's phase, topology and badge:
\* whatever the order of registration, snapshots, multicasts, faults and
\* reconnections, what it has applied ends with the bridge's state.
THEOREM BrowsersAreInSync == Spec => []InSync
<1>1. IInv => InSync
  <2> SUFFICES ASSUME IInv, NEW b \in Browsers, Settled(b) PROVE Shows(b)
    BY DEF InSync
  <2>1. /\ socket[b] \in alive /\ endpoint[socket[b]] = "live" /\ envelopes = <<>>
        /\ wire[socket[b]] = <<>> /\ pending[b] = <<>>
    BY DEF Settled, idle
  <2>2. Delivered(b) = view[b]
    BY <2>1, NothingApplied DEF Delivered
  <2>3. \A type : ~Coming(socket[b], type)
    BY <2>1 DEF Coming
  <2>4. StatusArrives(b) /\ TopologyArrives(b)
    BY <2>1 DEF IInv, Arrives
  <2> QED BY <2>1, <2>2, <2>3, <2>4 DEF StatusArrives, TopologyArrives, Shows
<1> QED BY <1>1, AlwaysIInv, PTL

\* While a page keeps its connection, the incident it shows is of the attack
\* that goes on: its port was reported since the phase was last closed.
THEOREM IncidentsFollow == Spec => []IncidentFollows
<1>1. IInv => IncidentFollows
  <2> SUFFICES ASSUME IInv, NEW b \in Browsers, Settled(b), seamless[b] PROVE IncidentCurrent(b)
    BY DEF IncidentFollows
  <2>1. /\ socket[b] \in alive /\ envelopes = <<>>
        /\ wire[socket[b]] = <<>> /\ pending[b] = <<>>
    BY DEF Settled, idle
  <2>2. Delivered(b) = view[b]
    BY <2>1, NothingApplied DEF Delivered
  <2>3. ~Coming(socket[b], "system:status")
    BY <2>1 DEF Coming
  <2>4. IncidentArrives(b)
    BY <2>1 DEF IInv, Incidents
  <2> QED BY <2>2, <2>3, <2>4 DEF IncidentArrives, IncidentCurrent
<1> QED BY <1>1, AlwaysIInv, PTL
=============================================================================
