------------------------- MODULE UsbDiscoveryProofs -------------------------
(***************************************************************************)
(* Proofs about UsbDiscovery, for any number of ports, any budget, any lag *)
(* of the events and messages and any number of replugs and rescans.       *)
(***************************************************************************)
EXTENDS UsbDiscovery, FiniteSetTheorems, SequenceTheorems, TLAPS

-----------------------------------------------------------------------------
(* The inductive invariant. *)

\* An event about the camera in p is in h; the last one of h about its port;
\* that one tells whether a camera is there, K being the ports with one.
Awaits(h, p) == \E i \in DOMAIN h : h[i].cam = p
LastEvent(h, i) == \A j \in DOMAIN h : j > i => h[j].cam # h[i].cam
EventsTell(h, K) == \A i \in DOMAIN h : LastEvent(h, i) => (h[i].arrived <=> h[i].cam \in K)

About(m, p) == m.kind # "kSentinel" /\ m.cam = p
Given(m) == IF m.kind = "kUpdate" THEN m.readiness ELSE Nowhere

\* When all messages of q are taken, what Dart has of p, now v, is one of V.
Learns(q, v, p, V) ==
  /\ (\A i \in DOMAIN q : ~About(q[i], p)) => v \in V
  /\ \A i \in DOMAIN q :
       About(q[i], p) /\ (\A j \in DOMAIN q : j > i => ~About(q[j], p)) => Given(q[i]) \in V

\* Of a port no event is about, the worker knows whether there is a camera,
\* and so will Dart; of one that does not settle it will know the stage.
InStep(p) ==
  /\ p \in present =>
       Learns(port, current[p], p, IF p \in settling THEN Readiness ELSE {seen[p]})
  /\ p \notin present => Learns(port, current[p], p, {Nowhere}) /\ p \notin settling

Snapshot ==
  ~closing => EventsTell(hotplug, present) /\ \A p \in Ports : ~Awaits(hotplug, p) => InStep(p)

\* Where the loops of the worker are.
Enumerating ==
  pc = "enumerate" =>
    /\ todo \in Seq(Ports) /\ todo # <<>>
    /\ ~closing => \A k \in DOMAIN todo : todo[k] \in present \/ Awaits(hotplug, todo[k])
Settling ==
  /\ pc = "settle" =>
       /\ todo \in Seq(Nat) /\ Len(todo) \in 1..Len(pending)
       /\ \A k \in DOMAIN todo : todo[k] = Len(pending) - Len(todo) + k
  /\ \A i \in DOMAIN pending : pending[i].last # "kL3Ready"

\* The arrivals that settle, whose ready record is under way and that have come
\* out of ready are different ones.
Same(x, y) == x.cam = y.cam /\ x.nth = y.nth
IsReady(m) == m.kind = "kUpdate" /\ m.readiness = "kL3Ready"
Once ==
  /\ \A i \in DOMAIN pending :
       /\ pending[i].nth <= arrivals[pending[i].cam]
       /\ \A j \in DOMAIN pending : Same(pending[i], pending[j]) => i = j
  /\ \A i \in DOMAIN port : IsReady(port[i]) =>
       /\ port[i].nth <= arrivals[port[i].cam]
       /\ \A j \in DOMAIN pending : ~Same(port[i], pending[j])
       /\ \A j \in DOMAIN port : IsReady(port[j]) /\ Same(port[i], port[j]) => i = j
  /\ \A i \in DOMAIN ready :
       /\ ready[i].nth <= arrivals[ready[i].cam]
       /\ \A j \in DOMAIN pending : ~Same(ready[i], pending[j])
       /\ \A j \in DOMAIN port : IsReady(port[j]) => ~Same(ready[i], port[j])
       /\ \A j \in DOMAIN ready : Same(ready[i], ready[j]) => i = j

\* Before the sentinel only updates are posted, and of every camera that was
\* there at the start: s is where the sentinel is, or will be.
Reported(q, v, p, s) == v # Nowhere \/ \E i \in DOMAIN q : i < s /\ q[i].cam = p
LookedAt(s) ==
  /\ IF pc = "start" THEN s = Len(port) + 1 ELSE s <= Len(port) /\ port[s] = Sentinel
  /\ \A i \in DOMAIN port : i < s => port[i].kind = "kUpdate"
  /\ \A p \in present : plugs[p] = 1 => Reported(port, current[p], p, s)
Looked == ~started /\ ~closing => \E s \in 1..Len(port) + 1 : LookedAt(s)

Numbered == \A p \in Ports : plugs[p] <= upsets + 1

UsbInv == TypeOK /\ Numbered /\ Snapshot /\ Enumerating /\ Settling /\ Once /\ Looked

-----------------------------------------------------------------------------
(* The stages, and what is read of them. *)

LEMMA StageFacts ==
  /\ DOMAIN Stages = 1..5
  /\ Stages \in Seq(Readiness)
  /\ Readiness = {"kAbsent", "kUsbPresent", "kNetdevBound", "kHostAddressed", "kL3Ready"}
  /\ Level("kAbsent") = 1 /\ Level("kUsbPresent") = 2 /\ Level("kNetdevBound") = 3
  /\ Level("kHostAddressed") = 4 /\ Level("kL3Ready") = 5
<1>1. DOMAIN Stages = 1..5
  BY DEF Stages
<1>2. Readiness = {"kAbsent", "kUsbPresent", "kNetdevBound", "kHostAddressed", "kL3Ready"}
  <2>1. Readiness = {Stages[n] : n \in 1..5}
    BY <1>1 DEF Readiness, Range
  <2> QED
    BY <2>1 DEF Stages
<1>3. \A n \in 1..5 : Level(Stages[n]) = n
  <2> SUFFICES ASSUME NEW n \in 1..5 PROVE Level(Stages[n]) = n
    OBVIOUS
  <2>1. \A m \in 1..5 : Stages[m] = Stages[n] => m = n
    BY DEF Stages
  <2> QED
    BY <1>1, <2>1 DEF Level
<1>4. Stages \in Seq(Readiness)
  BY <1>2 DEF Stages
<1> QED
  <2>1. /\ Stages[1] = "kAbsent" /\ Stages[2] = "kUsbPresent" /\ Stages[3] = "kNetdevBound"
        /\ Stages[4] = "kHostAddressed" /\ Stages[5] = "kL3Ready"
    BY DEF Stages
  <2> QED
    BY <1>1, <1>2, <1>3, <1>4, <2>1

\* What Advance and Lapse leave is a stage, of a camera that is there.
LEMMA NextStage ==
  ASSUME NEW r \in Readiness \ {"kAbsent"}
  PROVE  /\ r # "kL3Ready" => Stages[Level(r) + 1] \in Readiness \ {"kAbsent"}
         /\ Level(r) > Level("kUsbPresent") => Stages[Level(r) - 1] \in Readiness \ {"kAbsent"}
<1>1. /\ Stages[1] = "kAbsent" /\ Stages[2] = "kUsbPresent" /\ Stages[3] = "kNetdevBound"
      /\ Stages[4] = "kHostAddressed" /\ Stages[5] = "kL3Ready"
  BY DEF Stages
<1> QED
  BY <1>1, StageFacts

LEMMA Reading ==
  ASSUME TypeOK, NEW p \in Ports, NEW bound \in BOOLEAN, NEW probe \in BOOLEAN
  PROVE  /\ advance_readiness(p, bound, probe) \in Readiness
         /\ ~probe => advance_readiness(p, bound, probe) # "kL3Ready"
         /\ resolve_netdev(p, bound) \in BOOLEAN
         /\ build(p) \in Readiness /\ build(p) # "kL3Ready"
<1>1. kernel[p] \in Readiness
  BY DEF TypeOK
<1>2. \A b \in BOOLEAN, c \in BOOLEAN :
        /\ advance_readiness(p, b, c) \in Readiness
        /\ ~c => advance_readiness(p, b, c) # "kL3Ready"
  BY <1>1, StageFacts DEF advance_readiness
<1> QED
  BY <1>2 DEF build, resolve_netdev

LEMMA NowhereNotReadiness == Nowhere \notin Readiness
BY StageFacts DEF Nowhere

-----------------------------------------------------------------------------
(* Sequences. *)

\* SetToSeq lists the elements of a finite set, each once.
LEMMA SetToSeqFacts ==
  ASSUME NEW S, IsFiniteSet(S)
  PROVE  /\ SetToSeq(S) \in Seq(S)
         /\ \A i, j \in DOMAIN SetToSeq(S) : SetToSeq(S)[i] = SetToSeq(S)[j] => i = j
         /\ \A x \in S : \E i \in DOMAIN SetToSeq(S) : SetToSeq(S)[i] = x
         /\ S # {} => SetToSeq(S) # <<>>
<1> DEFINE n == Cardinality(S)
           f == SetToSeq(S)
<1>1. n \in Nat /\ ExistsBijection(1..n, S)
  BY FS_CardinalityType
<1>2. PICK g : g \in Bijection(1..n, S)
  BY <1>1 DEF ExistsBijection
<1>3. g \in [1..n -> S] /\ IsInjective(g)
  BY <1>2 DEF Bijection, Injection, IsInjective
<1>4. f \in [1..n -> S] /\ IsInjective(f)
  BY <1>3 DEF SetToSeq
<1>5. f \in Injection(1..n, S)
  BY <1>4 DEF Injection, IsInjective
<1>6. IsFiniteSet(1..n) /\ Cardinality(1..n) = n
  BY <1>1, FS_Interval
<1>7. f \in Surjection(1..n, S)
  BY <1>5, <1>6, FS_Injection
<1>8. DOMAIN f = 1..n /\ \A x \in S : \E i \in 1..n : f[i] = x
  BY <1>7 DEF Surjection
<1>9. f \in Seq(S)
  BY <1>1, <1>4
<1>10. \A i, j \in DOMAIN f : f[i] = f[j] => i = j
  BY <1>4 DEF IsInjective
<1>11. S # {} => f # <<>>
  <2> SUFFICES ASSUME f = <<>>, NEW x \in S PROVE FALSE
    OBVIOUS
  <2>1. DOMAIN f # {}
    <3> HIDE DEF f, n
    <3> QED
      BY <1>8
  <2>2. DOMAIN (<<>>) = {}
    OBVIOUS
  <2> QED
    BY <2>1, <2>2, Zenon
<1> QED
  <2>1. \A x \in S : \E i \in DOMAIN f : f[i] = x
    <3> HIDE DEF f, n
    <3> QED
      BY <1>8
  <2> QED
    BY <1>9, <1>10, <1>11, <2>1

\* rank numbers the elements of a finite set of numbers.
LEMMA RankFacts ==
  ASSUME NEW I \in SUBSET Nat, IsFiniteSet(I)
  PROVE  /\ Cardinality(I) \in Nat
         /\ \A n \in 1..Cardinality(I) : \E i \in I : rank(I, i) = n
<1> DEFINE r == [i \in I |-> rank(I, i)]
           N == Cardinality(I)
           B(i) == {j \in I : j <= i}
<1>1. N \in Nat
  BY FS_CardinalityType
<1>2. \A i \in I : IsFiniteSet(B(i)) /\ Cardinality(B(i)) \in 1..N
  <2> SUFFICES ASSUME NEW i \in I PROVE IsFiniteSet(B(i)) /\ Cardinality(B(i)) \in 1..N
    OBVIOUS
  <2>1. B(i) \in SUBSET I /\ B(i) # {}
    OBVIOUS
  <2>2. IsFiniteSet(B(i)) /\ Cardinality(B(i)) <= N
    BY <2>1, FS_Subset
  <2>3. Cardinality(B(i)) \in Nat /\ Cardinality(B(i)) # 0
    BY <2>1, <2>2, FS_CardinalityType, FS_EmptySet
  <2> QED
    BY <1>1, <2>2, <2>3
<1>3. r \in [I -> 1..N]
  BY <1>2 DEF rank
<1>4. \A i, j \in I : i < j => r[i] # r[j]
  <2> SUFFICES ASSUME NEW i \in I, NEW j \in I, i < j, r[i] = r[j] PROVE FALSE
    OBVIOUS
  <2>1. B(i) \in SUBSET B(j) /\ j \in B(j) /\ j \notin B(i)
    <3>1. i \in Nat /\ j \in Nat /\ \A k \in I : k \in Nat
      OBVIOUS
    <3>2. \A k \in I : k <= i => k <= j
      BY <3>1
    <3>3. j <= j /\ ~(j <= i)
      BY <3>1
    <3> QED
      BY <3>2, <3>3
  <2>2. Cardinality(B(j)) = Cardinality(B(i))
    BY DEF rank
  <2>3. IsFiniteSet(B(j))
    BY <1>2
  <2> HIDE DEF B
  <2>4. B(j) = B(i)
    BY <2>1, <2>2, <2>3, FS_Subset
  <2> QED
    BY <2>1, <2>4
<1>5. r \in Injection(I, 1..N)
  <2> HIDE DEF r, N
  <2>1. \A i, j \in I : r[i] = r[j] => i = j
    BY <1>4
  <2> QED
    BY <1>3, <2>1 DEF Injection, IsInjective
<1>6. IsFiniteSet(1..N) /\ Cardinality(1..N) = N
  BY <1>1, FS_Interval
<1>7. r \in Surjection(I, 1..N)
  BY <1>5, <1>6, FS_Injection
<1>8. \A n \in 1..N : \E i \in I : r[i] = n
  BY <1>7 DEF Surjection
<1> QED
  BY <1>1, <1>8

\* forget(p) keeps the elements of other ports, each in one place.
LEMMA ForgetFacts ==
  ASSUME TypeOK, NEW p \in Ports
  PROVE  /\ forget(p) \in Seq(Pending)
         /\ \E f \in [DOMAIN forget(p) -> staying(p)] :
              /\ \A n \in DOMAIN forget(p) : forget(p)[n] = pending[f[n]]
              /\ \A m, n \in DOMAIN forget(p) : f[m] = f[n] => m = n
         /\ \A i \in staying(p) : \E n \in DOMAIN forget(p) : forget(p)[n] = pending[i]
<1> DEFINE I == staying(p)
           N == Cardinality(I)
           f == [n \in 1..N |-> CHOOSE i \in I : rank(I, i) = n]
<1>1. I \in SUBSET Nat /\ IsFiniteSet(I) /\ I \subseteq DOMAIN pending
  <2>1. pending \in Seq(Pending)
    BY DEF TypeOK
  <2>2. I \in SUBSET (1..Len(pending)) /\ Len(pending) \in Nat /\ DOMAIN pending = 1..Len(pending)
    BY <2>1 DEF staying
  <2>3. IsFiniteSet(1..Len(pending))
    BY <2>2, FS_Interval
  <2> HIDE DEF I
  <2>4. IsFiniteSet(I)
    BY <2>2, <2>3, FS_Subset
  <2>5. 1..Len(pending) \in SUBSET Nat
    BY <2>2
  <2> QED
    BY <2>2, <2>4, <2>5
<1>2. N \in Nat /\ \A n \in 1..N : \E i \in I : rank(I, i) = n
  <2> HIDE DEF I
  <2> QED
    BY <1>1, RankFacts
<1>3. \A n \in 1..N : f[n] \in I /\ rank(I, f[n]) = n
  BY <1>2
<1>4. f \in [1..N -> I]
  BY <1>3
<1>5. \A m, n \in 1..N : f[m] = f[n] => m = n
  BY <1>3
<1>6. forget(p) = [n \in 1..N |-> pending[f[n]]]
  BY DEF forget
<1>7. \A i \in DOMAIN pending : pending[i] \in Pending
  BY DEF TypeOK
<1> HIDE DEF I, f
<1>8. forget(p) \in [1..N -> Pending]
  BY <1>1, <1>4, <1>6, <1>7
<1>9. forget(p) \in Seq(Pending) /\ DOMAIN forget(p) = 1..N
  BY <1>2, <1>8
<1>10. f \in Surjection(1..N, I)
  <2>1. f \in Injection(1..N, I)
    BY <1>4, <1>5 DEF Injection, IsInjective
  <2>2. IsFiniteSet(1..N) /\ Cardinality(1..N) = N
    BY <1>2, FS_Interval
  <2> QED
    BY <1>1, <2>1, <2>2, FS_Injection
<1>11. \A i \in I : \E n \in 1..N : f[n] = i
  BY <1>10 DEF Surjection
<1>12. \A i \in I : \E n \in 1..N : forget(p)[n] = pending[i]
  BY <1>6, <1>11
<1>13. f \in [DOMAIN forget(p) -> staying(p)]
  BY <1>4, <1>9 DEF I
<1>14. \A n \in DOMAIN forget(p) : forget(p)[n] = pending[f[n]]
  BY <1>6, <1>9
<1>15. \A m, n \in DOMAIN forget(p) : f[m] = f[n] => m = n
  BY <1>5, <1>9
<1>16. \A i \in staying(p) : \E n \in DOMAIN forget(p) : forget(p)[n] = pending[i]
  BY <1>9, <1>12 DEF I
<1> HIDE DEF N
<1> QED
  BY <1>9, <1>13, <1>14, <1>15, <1>16

LEMMA RemoveAtFacts ==
  ASSUME NEW S, NEW s \in Seq(S), NEW i \in 1..Len(s)
  PROVE  /\ RemoveAt(s, i) \in Seq(S)
         /\ Len(RemoveAt(s, i)) = Len(s) - 1
         /\ \A k \in 1..Len(s) - 1 : RemoveAt(s, i)[k] = IF k < i THEN s[k] ELSE s[k + 1]
<1> DEFINE a == SubSeq(s, 1, i - 1)
           b == SubSeq(s, i + 1, Len(s))
<1>1. Len(s) \in Nat /\ i \in Nat /\ i <= Len(s) /\ 1 <= i
  OBVIOUS
<1>2. /\ a \in Seq(S) /\ Len(a) = i - 1
      /\ \A k \in 1..i - 1 : a[k] = s[k]
  BY <1>1
<1>3. /\ b \in Seq(S) /\ Len(b) = Len(s) - i
      /\ \A k \in 1..Len(s) - i : b[k] = s[i + k]
  BY <1>1
<1>4. RemoveAt(s, i) = a \o b
  BY DEF RemoveAt
<1> HIDE DEF a, b
<1>5. /\ a \o b \in Seq(S) /\ Len(a \o b) = Len(s) - 1
      /\ \A k \in 1..Len(s) - 1 : (a \o b)[k] = IF k <= i - 1 THEN a[k] ELSE b[k - (i - 1)]
  <2>1. Len(a) + Len(b) = Len(s) - 1
    BY <1>1, <1>2, <1>3
  <2>2. /\ a \o b \in Seq(S) /\ Len(a \o b) = Len(a) + Len(b)
        /\ \A k \in 1..Len(a) + Len(b) : (a \o b)[k] = IF k <= Len(a) THEN a[k] ELSE b[k - Len(a)]
    BY <1>2, <1>3, ConcatProperties, Zenon
  <2> QED
    BY <1>2, <2>1, <2>2, Zenon
<1>6. \A k \in 1..Len(s) - 1 : (a \o b)[k] = IF k < i THEN s[k] ELSE s[k + 1]
  <2> SUFFICES ASSUME NEW k \in 1..Len(s) - 1
               PROVE (a \o b)[k] = IF k < i THEN s[k] ELSE s[k + 1]
    OBVIOUS
  <2>1. CASE k < i
    BY <1>1, <1>2, <1>5, <2>1
  <2>2. CASE ~(k < i)
    <3>1. k - (i - 1) \in 1..Len(s) - i /\ i + (k - (i - 1)) = k + 1
      BY <1>1, <2>2
    <3> QED
      BY <1>1, <1>3, <1>5, <2>2, <3>1
  <2> QED
    BY <2>1, <2>2
<1> QED
  BY <1>4, <1>5, <1>6

\* A message more: what Dart learns of p is what it says, if it is about p.
LEMMA LearnsAppend ==
  ASSUME NEW S, NEW q \in Seq(S), NEW m \in S, NEW v, NEW p, NEW V
  PROVE  /\ About(m, p) /\ Given(m) \in V => Learns(Append(q, m), v, p, V)
         /\ ~About(m, p) /\ Learns(q, v, p, V) => Learns(Append(q, m), v, p, V)
<1> DEFINE t == Append(q, m)
           n == Len(q)
<1>1. /\ n \in Nat /\ DOMAIN q = 1..n /\ DOMAIN t = 1..n + 1
      /\ t[n + 1] = m /\ \A i \in 1..n : t[i] = q[i]
  OBVIOUS
<1> HIDE DEF t, n
<1>2. ASSUME About(m, p), Given(m) \in V PROVE Learns(t, v, p, V)
  <2>1. \A i \in 1..n + 1 : (\A j \in 1..n + 1 : j > i => ~About(t[j], p)) => i = n + 1
    BY <1>1, <1>2
  <2> QED
    BY <1>1, <1>2, <2>1 DEF Learns
<1>3. ASSUME ~About(m, p), Learns(q, v, p, V) PROVE Learns(t, v, p, V)
  <2>1. (\A i \in DOMAIN t : ~About(t[i], p)) => v \in V
    BY <1>1, <1>3 DEF Learns
  <2>2. ASSUME NEW i \in DOMAIN t, About(t[i], p), \A j \in DOMAIN t : j > i => ~About(t[j], p)
        PROVE  Given(t[i]) \in V
    <3>1. i \in 1..n
      BY <1>1, <1>3, <2>2
    <3>2. About(q[i], p) /\ \A j \in DOMAIN q : j > i => ~About(q[j], p)
      BY <1>1, <2>2, <3>1
    <3> QED
      BY <1>1, <1>3, <3>1, <3>2 DEF Learns
  <2> QED
    BY <2>1, <2>2 DEF Learns
<1> QED
  BY <1>2, <1>3 DEF t

\* A message taken, and what it says of p with it.
LEMMA LearnsTail ==
  ASSUME NEW S, NEW q \in Seq(S), q # <<>>, NEW v, NEW w, NEW p, NEW V, Learns(q, v, p, V),
         w = IF About(Head(q), p) THEN Given(Head(q)) ELSE v
  PROVE  Learns(Tail(q), w, p, V)
<1> DEFINE t == Tail(q)
           n == Len(q)
<1>1. /\ n \in Nat \ {0} /\ DOMAIN q = 1..n /\ DOMAIN t = 1..n - 1
      /\ Head(q) = q[1] /\ \A i \in 1..n - 1 : t[i] = q[i + 1]
  OBVIOUS
<1> HIDE DEF t, n
<1>2. \A i \in 1..n : i = 1 \/ (i - 1 \in 1..n - 1 /\ q[i] = t[i - 1])
  BY <1>1
<1>3. ASSUME \A i \in DOMAIN t : ~About(t[i], p) PROVE w \in V
  <2>1. \A i \in 1..n : i > 1 => ~About(q[i], p)
    <3> SUFFICES ASSUME NEW i \in 1..n, i > 1 PROVE ~About(q[i], p)
      OBVIOUS
    <3>1. i - 1 \in DOMAIN t /\ q[i] = t[i - 1]
      BY <1>1, <1>2
    <3> QED
      BY <1>3, <3>1
  <2>2. CASE About(q[1], p)
    <3>1. 1 \in DOMAIN q /\ w = Given(q[1])
      BY <1>1, <2>2
    <3> QED
      BY <1>1, <2>1, <2>2, <3>1 DEF Learns
  <2>3. CASE ~About(q[1], p)
    <3>1. \A i \in DOMAIN q : ~About(q[i], p)
      BY <1>1, <2>1, <2>3
    <3> QED
      BY <1>1, <2>3, <3>1 DEF Learns
  <2> QED
    BY <2>2, <2>3
<1>4. ASSUME NEW i \in DOMAIN t, About(t[i], p), \A j \in DOMAIN t : j > i => ~About(t[j], p)
      PROVE  Given(t[i]) \in V
  <2>1. i + 1 \in 1..n /\ q[i + 1] = t[i]
    BY <1>1
  <2>2. ASSUME NEW j \in 1..n, j > i + 1 PROVE ~About(q[j], p)
    <3>1. j - 1 \in 1..n - 1 /\ j - 1 > i /\ q[j] = t[j - 1]
      BY <1>1, <1>2, <2>1, <2>2
    <3> QED
      BY <1>1, <1>4, <3>1
  <2> QED
    BY <1>1, <1>4, <2>1, <2>2 DEF Learns
<1> QED
  BY <1>3, <1>4 DEF Learns, t

\* An event more, of the camera in e.cam coming or going.
LEMMA EventAppend ==
  ASSUME NEW h \in Seq(Event), NEW e \in Event, NEW K, NEW K2, EventsTell(h, K),
         e.arrived <=> e.cam \in K2,
         \A p \in Ports \ {e.cam} : p \in K <=> p \in K2
  PROVE  /\ EventsTell(Append(h, e), K2)
         /\ \A p : Awaits(Append(h, e), p) <=> Awaits(h, p) \/ p = e.cam
<1> DEFINE t == Append(h, e)
           n == Len(h)
<1>1. /\ n \in Nat /\ DOMAIN h = 1..n /\ DOMAIN t = 1..n + 1
      /\ t[n + 1] = e /\ \A i \in 1..n : t[i] = h[i]
  OBVIOUS
<1>2. \A i \in 1..n : h[i].cam \in Ports
  <2>1. \A i \in 1..n : h[i] \in Event
    BY <1>1
  <2> QED
    BY <2>1 DEF Event
<1> HIDE DEF t, n
<1>3. ASSUME NEW i \in 1..n + 1, LastEvent(t, i) PROVE t[i].arrived <=> t[i].cam \in K2
  <2>1. CASE i = n + 1
    BY <1>1, <2>1
  <2>2. CASE i # n + 1
    <3>1. i \in 1..n /\ n + 1 > i
      BY <1>1, <2>2
    <3>2. t[i].cam # e.cam
      BY <1>1, <1>3, <3>1 DEF LastEvent
    <3>3. LastEvent(h, i)
      BY <1>1, <1>3, <3>1 DEF LastEvent
    <3> QED
      BY <1>1, <1>2, <3>1, <3>2, <3>3 DEF EventsTell
  <2> QED
    BY <2>1, <2>2
<1>4. EventsTell(t, K2)
  BY <1>1, <1>3 DEF EventsTell
<1>5. ASSUME NEW p PROVE Awaits(t, p) <=> Awaits(h, p) \/ p = e.cam
  BY <1>1 DEF Awaits
<1> QED
  BY <1>4, <1>5 DEF t

\* An event taken; the last one about a port tells what is there.
LEMMA EventTail ==
  ASSUME NEW h \in Seq(Event), h # <<>>, NEW K, EventsTell(h, K)
  PROVE  /\ EventsTell(Tail(h), K)
         /\ \A p : Awaits(h, p) <=> Awaits(Tail(h), p) \/ p = Head(h).cam
         /\ ~Awaits(Tail(h), Head(h).cam) => (Head(h).arrived <=> Head(h).cam \in K)
<1> DEFINE t == Tail(h)
           n == Len(h)
<1>1. /\ n \in Nat \ {0} /\ DOMAIN h = 1..n /\ DOMAIN t = 1..n - 1
      /\ Head(h) = h[1] /\ \A i \in 1..n - 1 : t[i] = h[i + 1]
  OBVIOUS
<1> HIDE DEF t, n
<1>2. \A i \in 1..n : i = 1 \/ (i - 1 \in 1..n - 1 /\ h[i] = t[i - 1])
  BY <1>1
<1>3. ASSUME NEW i \in 1..n - 1, LastEvent(t, i) PROVE t[i].arrived <=> t[i].cam \in K
  <2>1. i + 1 \in 1..n /\ h[i + 1] = t[i]
    BY <1>1
  <2>2. ASSUME NEW j \in 1..n, j > i + 1 PROVE h[j].cam # t[i].cam
    <3>1. j - 1 \in 1..n - 1 /\ j - 1 > i /\ h[j] = t[j - 1]
      BY <1>1, <1>2, <2>1, <2>2
    <3> QED
      BY <1>1, <1>3, <3>1 DEF LastEvent
  <2>3. LastEvent(h, i + 1)
    BY <1>1, <2>1, <2>2 DEF LastEvent
  <2> QED
    BY <1>1, <2>1, <2>3 DEF EventsTell
<1>4. EventsTell(t, K)
  BY <1>1, <1>3 DEF EventsTell
<1>5. ASSUME NEW p PROVE Awaits(h, p) <=> Awaits(t, p) \/ p = h[1].cam
  <2>1. Awaits(t, p) => Awaits(h, p)
    <3> SUFFICES ASSUME NEW i \in 1..n - 1, t[i].cam = p PROVE Awaits(h, p)
      BY <1>1 DEF Awaits
    <3>1. i + 1 \in 1..n /\ h[i + 1] = t[i]
      BY <1>1
    <3> QED
      BY <1>1, <3>1 DEF Awaits
  <2>2. p = h[1].cam => Awaits(h, p)
    BY <1>1 DEF Awaits
  <2>3. Awaits(h, p) => Awaits(t, p) \/ p = h[1].cam
    BY <1>1, <1>2 DEF Awaits
  <2> QED
    BY <2>1, <2>2, <2>3
<1>6. ASSUME ~Awaits(t, h[1].cam) PROVE h[1].arrived <=> h[1].cam \in K
  <2>1. LastEvent(h, 1)
    BY <1>1, <1>2, <1>6 DEF LastEvent, Awaits
  <2> QED
    BY <1>1, <2>1 DEF EventsTell
<1> QED
  BY <1>1, <1>4, <1>5, <1>6 DEF t

-----------------------------------------------------------------------------
(* Types. *)

LEMMA Messages ==
  /\ Sentinel \in Message /\ Sentinel.kind = "kSentinel"
  /\ \A p \in Ports : Left(p) \in Message /\ Left(p).kind = "kLeft" /\ Left(p).cam = p
  /\ \A p \in Ports, n \in Nat, r \in Readiness :
       /\ Update(p, n, r) \in Message
       /\ Update(p, n, r).kind = "kUpdate" /\ Update(p, n, r).cam = p
       /\ Update(p, n, r).nth = n /\ Update(p, n, r).readiness = r
  /\ \A m \in Message :
       /\ m.kind \in {"kSentinel", "kLeft", "kUpdate"}
       /\ m.kind = "kSentinel" => m = Sentinel
       /\ m.kind # "kSentinel" => m.cam \in Ports
       /\ m.kind = "kUpdate" => m.nth \in Nat /\ m.readiness \in Readiness
BY DEF Message, Sentinel, Left, Update

LEMMA Arrivals ==
  ASSUME TypeOK, NEW p \in Ports, NEW n \in Nat
  PROVE  arrival(p, n) \in Pending /\ arrival(p, n).cam = p /\ arrival(p, n).nth = n
         /\ arrival(p, n).last = build(p)
<1>1. build(p) \in Readiness /\ resolve_netdev(p, FALSE) \in BOOLEAN
  BY Reading
<1>2. 0 \in 0..Budget
  BY UsbAssumption
<1> QED
  BY <1>1, <1>2 DEF arrival, Pending

\* The finite set of events with which Created fills the queue of libusb.
LEMMA EventsFinite ==
  ASSUME NEW A \in SUBSET Ports
  PROVE  IsFiniteSet({[cam |-> p, arrived |-> TRUE] : p \in A})
<1> DEFINE T == {[cam |-> p, arrived |-> TRUE] : p \in A}
           f == [p \in A |-> [cam |-> p, arrived |-> TRUE]]
<1>1. IsFiniteSet(A)
  BY UsbAssumption, FS_Subset
<1>2. f \in Surjection(A, T)
  BY DEF Surjection
<1> HIDE DEF T, f
<1>3. IsFiniteSet(T)
  BY <1>1, <1>2, FS_Surjection
<1> QED
  BY <1>3 DEF T

LEMMA PresentFinite == present \in SUBSET Ports /\ IsFiniteSet(present)
<1>1. present \in SUBSET Ports
  BY DEF present
<1> QED
  BY <1>1, UsbAssumption, FS_Subset

\* What gopro_discovery_create() leaves: ps are the cameras there.
LEMMA CreatedFacts ==
  ASSUME Init, Created
  PROVE  \E ps \in Seq(present) :
           /\ \A i, j \in DOMAIN ps : ps[i] = ps[j] => i = j
           /\ \A p \in present : \E i \in DOMAIN ps : ps[i] = p
           /\ pending = [i \in DOMAIN ps |-> arrival(ps[i], 1)]
           /\ port = [i \in DOMAIN ps |-> Update(ps[i], 1, build(ps[i]))]
           /\ arrivals = [p \in Ports |-> IF p \in Range(ps) THEN 1 ELSE 0]
<1> DEFINE ps == SetToSeq(present)
<1>1. /\ ps \in Seq(present)
      /\ \A i, j \in DOMAIN ps : ps[i] = ps[j] => i = j
      /\ \A p \in present : \E i \in DOMAIN ps : ps[i] = p
  <2> HIDE DEF ps
  <2> QED
    BY PresentFinite, SetToSeqFacts DEF ps
<1>2. /\ pending = [i \in DOMAIN ps |-> arrival(ps[i], 1)]
      /\ port = [i \in DOMAIN ps |-> Update(ps[i], 1, build(ps[i]))]
      /\ arrivals = [p \in Ports |-> IF p \in Range(ps) THEN 1 ELSE 0]
  BY DEF Created, enumerate_at_start
<1> HIDE DEF ps
<1> QED
  BY <1>1, <1>2

LEMMA CreatedEvents ==
  ASSUME Init, Created
  PROVE  /\ hotplug \in Seq(Event)
         /\ \A i \in DOMAIN hotplug : hotplug[i].cam \in present /\ hotplug[i].arrived = TRUE
<1> DEFINE A == (present \ {pending[i].cam : i \in DOMAIN pending}) \cup twice
           T == {[cam |-> p, arrived |-> TRUE] : p \in A}
<1>1. A \subseteq present
  BY DEF Created
<1>2. IsFiniteSet(T)
  <2>1. A \in SUBSET Ports
    BY <1>1 DEF present
  <2> HIDE DEF A
  <2> QED
    BY <2>1, EventsFinite
<1>3. hotplug = SetToSeq(T)
  BY DEF Created
<1>4. \A e \in T : e \in Event /\ e.cam \in present /\ e.arrived = TRUE
  <2> HIDE DEF A
  <2>1. present \subseteq Ports
    BY DEF present
  <2>2. ASSUME NEW p \in A
        PROVE  LET e == [cam |-> p, arrived |-> TRUE]
               IN  e \in Event /\ e.cam \in present /\ e.arrived = TRUE
    <3>1. p \in Ports /\ p \in present
      BY <1>1, <2>1
    <3> QED
      BY <3>1 DEF Event
  <2> QED
    BY <2>2, Zenon
<1> HIDE DEF T
<1>5. hotplug \in Seq(T)
  BY <1>2, <1>3, SetToSeqFacts
<1>6. Len(hotplug) \in Nat /\ DOMAIN hotplug = 1..Len(hotplug) /\ \A i \in DOMAIN hotplug : hotplug[i] \in T
  BY <1>5
<1>7. hotplug \in Seq(Event)
  BY <1>4, <1>5, <1>6
<1> QED
  BY <1>4, <1>6, <1>7

LEMMA InitType == Init => TypeOK
<1> SUFFICES ASSUME Init PROVE TypeOK
  OBVIOUS
<1>1. {0, 1} \subseteq Nat /\ MaxUpsets \in Nat /\ MaxRescans \in Nat /\ MaxPlugs \in Nat /\ MaxPlugs >= 1
  BY UsbAssumption DEF MaxPlugs
<1>2. /\ kernel \in [Ports -> Readiness] /\ plugs \in [Ports -> 1..MaxPlugs]
      /\ upsets \in 0..MaxUpsets /\ rescans \in 0..MaxRescans
      /\ current \in [Ports -> Readiness \cup {Nowhere}]
      /\ ready \in Seq([cam : Ports, nth : Nat])
      /\ rescan \in BOOLEAN /\ stop \in BOOLEAN /\ started \in BOOLEAN
  <2>1. 1 \in 1..MaxPlugs /\ 0 \in 0..MaxUpsets /\ 0 \in 0..MaxRescans
    BY <1>1
  <2>2. <<>> \in Seq([cam : Ports, nth : Nat])
    OBVIOUS
  <2> QED
    BY <2>1, <2>2, Zenon DEF Init
<1>3. \A p \in Ports : /\ build(p) \in Readiness
                       /\ arrival(p, 1) \in Pending
  <2> SUFFICES ASSUME NEW p \in Ports PROVE build(p) \in Readiness /\ arrival(p, 1) \in Pending
    OBVIOUS
  <2>1. kernel[p] \in Readiness
    BY <1>2
  <2>2. build(p) \in Readiness
    BY <2>1, StageFacts DEF build, advance_readiness
  <2>3. resolve_netdev(p, FALSE) \in BOOLEAN /\ 0 \in 0..Budget
    BY UsbAssumption DEF resolve_netdev
  <2> QED
    BY <2>2, <2>3 DEF arrival, Pending
<1>4. seen \in [Ports -> Readiness]
  BY <1>3 DEF Init
<1>5. CASE Created
  <2>1. PICK ps \in Seq(present) :
           /\ pending = [i \in DOMAIN ps |-> arrival(ps[i], 1)]
           /\ port = [i \in DOMAIN ps |-> Update(ps[i], 1, build(ps[i]))]
           /\ arrivals = [p \in Ports |-> IF p \in Range(ps) THEN 1 ELSE 0]
    BY <1>5, CreatedFacts
  <2>2. DOMAIN ps = 1..Len(ps) /\ Len(ps) \in Nat /\ \A i \in DOMAIN ps : ps[i] \in Ports
    BY <2>1 DEF present
  <2>3. \A i \in DOMAIN ps : arrival(ps[i], 1) \in Pending /\ Update(ps[i], 1, build(ps[i])) \in Message
    BY <1>3, <2>2, Messages
  <2>4. pending \in Seq(Pending) /\ port \in Seq(Message)
    BY <2>1, <2>2, <2>3
  <2>5. arrivals \in [Ports -> Nat]
    BY <2>1
  <2>6. hotplug \in Seq(Event)
    BY <1>5, CreatedEvents
  <2>7. twice \subseteq Ports
    BY <1>5 DEF Created, present
  <2>8. pc = "start" /\ closing \in BOOLEAN /\ closed \in BOOLEAN
    BY <1>5 DEF Created
  <2> QED
    BY <1>2, <1>4, <2>4, <2>5, <2>6, <2>7, <2>8 DEF TypeOK
<1>6. CASE Refused
  BY <1>2, <1>4, <1>6 DEF Refused, TypeOK
<1> QED
  BY <1>5, <1>6 DEF Init

\* Where the loop over pending is.
LEMMA SettleAt ==
  ASSUME TypeOK, Settling, pc = "settle"
  PROVE  /\ Head(todo) \in 1..Len(pending) /\ Head(todo) = Len(pending) - Len(todo) + 1
         /\ pending[Head(todo)] \in Pending /\ pending[Head(todo)].last # "kL3Ready"
         /\ advance_readiness(pending[Head(todo)].cam, pending[Head(todo)].bound, TRUE) \in Readiness
<1>1. /\ todo \in Seq(Nat) /\ Len(todo) \in 1..Len(pending) /\ pending \in Seq(Pending)
      /\ \A k \in DOMAIN todo : todo[k] = Len(pending) - Len(todo) + k
  BY DEF Settling, TypeOK
<1>2. 1 \in DOMAIN todo /\ Head(todo) = todo[1]
  BY <1>1
<1>3. Head(todo) \in 1..Len(pending) /\ Head(todo) = Len(pending) - Len(todo) + 1
  BY <1>1, <1>2
<1>4. pending[Head(todo)] \in Pending /\ pending[Head(todo)].last # "kL3Ready"
  BY <1>1, <1>3 DEF Settling
<1>5. pending[Head(todo)].cam \in Ports /\ pending[Head(todo)].bound \in BOOLEAN
  BY <1>4 DEF Pending
<1> QED
  BY <1>3, <1>4, <1>5, Reading

LEMMA EnumerateAt ==
  ASSUME Enumerating, pc = "enumerate"
  PROVE  /\ Head(todo) \in Ports
         /\ ~closing => Head(todo) \in present \/ Awaits(hotplug, Head(todo))
<1>1. /\ todo \in Seq(Ports) /\ todo # <<>>
      /\ ~closing => \A k \in DOMAIN todo : todo[k] \in present \/ Awaits(hotplug, todo[k])
  BY DEF Enumerating
<1>2. 1 \in DOMAIN todo /\ Head(todo) = todo[1]
  BY <1>1
<1> QED
  BY <1>1, <1>2

LEMMA TypeStep ==
  ASSUME TypeOK, Numbered, Enumerating, Settling, [Next]_usbVars
  PROVE  TypeOK'
<1> USE DEF TypeOK, kernelVars, workerVars, dartVars, history
<1>0. MaxPlugs = MaxUpsets + 1 /\ MaxUpsets \in Nat /\ MaxRescans \in Nat /\ Budget \in Nat
  BY UsbAssumption DEF MaxPlugs
<1>1. CASE Start
  <2>1. Append(port, Sentinel) \in Seq(Message)
    BY Messages
  <2> QED
    BY <1>1, <2>1 DEF Start
<1>2. CASE Top
  BY <1>2 DEF Top
<1>3. CASE Pump
  <2> DEFINE e == Head(hotplug)
             p == e.cam
  <2>1. e \in Event /\ p \in Ports /\ Tail(hotplug) \in Seq(Event)
    <3>1. e \in Event /\ Tail(hotplug) \in Seq(Event)
      BY <1>3 DEF Pump
    <3> QED
      BY <3>1 DEF Event
  <2>2. /\ hotplug' = Tail(hotplug)
        /\ IF e.arrived THEN Arrived(p) ELSE Departed(p)
        /\ UNCHANGED <<pc, todo, kernel, plugs, upsets, twice, rescan, stop, dartVars>>
    BY <1>3 DEF Pump
  <2> HIDE DEF e
  <2>3. CASE Arrived(p)
    <3>1. arrivals[p] + 1 \in Nat /\ build(p) \in Readiness
      <4>1. build(p) \in Readiness
        BY <2>1, Reading
      <4>2. arrivals[p] \in Nat
        BY <2>1
      <4> QED
        BY <4>1, <4>2
    <3>2. arrivals' \in [Ports -> Nat] /\ arrivals'[p] \in Nat
      BY <2>1, <2>3, <3>1 DEF Arrived
    <3>3. pending' \in Seq(Pending)
      <4>1. arrival(p, arrivals'[p]) \in Pending
        BY <2>1, <3>2, Arrivals
      <4> QED
        BY <2>3, <4>1 DEF Arrived
    <3>4. port' \in Seq(Message)
      <4>1. Update(p, arrivals'[p], build(p)) \in Message
        BY <2>1, <3>1, <3>2, Messages
      <4> QED
        BY <2>3, <4>1 DEF Arrived
    <3>5. seen' \in [Ports -> Readiness]
      BY <2>1, <2>3, <3>1 DEF Arrived
    <3> QED
      BY <2>1, <2>2, <3>2, <3>3, <3>4, <3>5
  <2>4. CASE Departed(p)
    <3>1. pending' \in Seq(Pending)
      BY <2>1, <2>4, ForgetFacts DEF Departed
    <3>2. port' \in Seq(Message)
      BY <2>1, <2>4, Messages DEF Departed
    <3> QED
      BY <2>1, <2>2, <2>4, <3>1, <3>2 DEF Departed
  <2> QED
    BY <2>2, <2>3, <2>4
<1>4. CASE PumpEnds
  <2>1. pc' \in {"start", "top", "pump", "enumerate", "settle", "ended"}
    BY <1>4 DEF PumpEnds, unlessDone
  <2> QED
    BY <1>4, <2>1 DEF PumpEnds
<1>5. CASE Enumerate
  <2> DEFINE p == Head(todo)
  <2>1. p \in Ports /\ build(p) \in Readiness
    BY <1>5, EnumerateAt, Reading DEF Enumerate
  <2>2. Update(p, arrivals[p], build(p)) \in Message
    BY <2>1, Messages
  <2>3. port' = Append(port, Update(p, arrivals[p], build(p))) /\ seen' = [seen EXCEPT ![p] = build(p)]
    BY <1>5 DEF Enumerate
  <2>4. pc' \in {"start", "top", "pump", "enumerate", "settle", "ended"}
    BY <1>5 DEF Enumerate, unlessDone
  <2>5. UNCHANGED <<pending, kernelVars, rescan, stop, dartVars, arrivals>>
    BY <1>5 DEF Enumerate
  <2> HIDE DEF p
  <2>6. port' \in Seq(Message) /\ seen' \in [Ports -> Readiness]
    BY <2>1, <2>2, <2>3
  <2> QED
    BY <2>4, <2>5, <2>6
<1>6. CASE Settle
  <2> DEFINE i == Head(todo)
             e == pending[i]
             after == advance_readiness(e.cam, e.bound, TRUE)
             done  == settled(after) \/ abandoned(e)
             next  == [e EXCEPT !.age = aged(e), !.last = after,
                                !.bound = resolve_netdev(e.cam, e.bound)]
  <2>1. i \in 1..Len(pending) /\ e \in Pending /\ after \in Readiness
    BY <1>6, SettleAt DEF Settle
  <2>2. /\ port' \in {port, Append(port, Update(e.cam, e.nth, after))}
        /\ pending' = IF done THEN RemoveAt(pending, i) ELSE [pending EXCEPT ![i] = next]
        /\ seen' = [seen EXCEPT ![e.cam] = after]
    BY <1>6 DEF Settle
  <2>3. pc' \in {"start", "top", "pump", "enumerate", "settle", "ended"}
    BY <1>6 DEF Settle, unlessDone
  <2>4. UNCHANGED <<kernelVars, rescan, stop, dartVars, arrivals>>
    BY <1>6 DEF Settle
  <2>5. e.cam \in Ports /\ e.nth \in Nat /\ e.age \in 0..Budget
    BY <2>1 DEF Pending
  <2>6. ~done => next \in Pending
    <3> SUFFICES ASSUME ~done PROVE next \in Pending
      OBVIOUS
    <3>1. aged(e) \in 0..Budget
      <4>1. ~(e.age >= Budget) /\ aged(e) = e.age + 1
        BY DEF aged, abandoned
      <4> HIDE DEF e
      <4> QED
        BY <1>0, <2>5, <4>1, SMTT(40)
    <3>2. resolve_netdev(e.cam, e.bound) \in BOOLEAN
      BY <2>1, <2>5, Reading DEF Pending
    <3> HIDE DEF after
    <3> QED
      BY <2>1, <3>1, <3>2 DEF Pending
  <2> HIDE DEF i, e, after, done, next
  <2>7. pending' \in Seq(Pending)
    <3>1. RemoveAt(pending, i) \in Seq(Pending)
      BY <2>1, RemoveAtFacts
    <3>2. ~done => [pending EXCEPT ![i] = next] \in Seq(Pending)
      BY <2>1, <2>6
    <3> QED
      BY <2>2, <3>1, <3>2
  <2>8. port' \in Seq(Message)
    <3>1. Update(e.cam, e.nth, after) \in Message
      BY <2>1, <2>5, Messages
    <3>2. port \in Seq(Message) /\ Append(port, Update(e.cam, e.nth, after)) \in Seq(Message)
      BY <3>1
    <3> QED
      BY <2>2, <3>2
  <2>9. seen' \in [Ports -> Readiness]
    BY <2>1, <2>2, <2>5
  <2> QED
    BY <2>3, <2>4, <2>7, <2>8, <2>9
<1>7. CASE OnMessage
  <2> DEFINE e == Head(port)
  <2>1. e \in Message /\ Tail(port) \in Seq(Message) /\ port' = Tail(port)
    BY <1>7 DEF OnMessage
  <2>2. UNCHANGED <<kernelVars, workerVars, rescan, stop, closing, closed, rescans, history>>
    BY <1>7 DEF OnMessage
  <2>3. \/ started' = TRUE /\ UNCHANGED <<current, ready>>
        \/ /\ e.kind = "kUpdate"
           /\ current' = [current EXCEPT ![e.cam] = e.readiness]
           /\ ready' \in {ready, Append(ready, [cam |-> e.cam, nth |-> e.nth])}
           /\ UNCHANGED started
        \/ /\ e.kind = "kLeft"
           /\ current' = [current EXCEPT ![e.cam] = Nowhere]
           /\ UNCHANGED <<started, ready>>
    BY <1>7 DEF OnMessage
  <2> HIDE DEF e
  <2>4. e.kind # "kSentinel" => e.cam \in Ports
    BY <2>1, Messages
  <2>5. e.kind = "kUpdate" => e.nth \in Nat /\ e.readiness \in Readiness
    BY <2>1, Messages
  <2>6. current' \in [Ports -> Readiness \cup {Nowhere}]
    BY <2>3, <2>4, <2>5
  <2>7. ready' \in Seq([cam : Ports, nth : Nat])
    <3>1. ready \in Seq([cam : Ports, nth : Nat])
      OBVIOUS
    <3>2. e.kind = "kUpdate" => [cam |-> e.cam, nth |-> e.nth] \in [cam : Ports, nth : Nat]
      BY <2>4, <2>5
    <3>3. e.kind = "kUpdate" =>
            Append(ready, [cam |-> e.cam, nth |-> e.nth]) \in Seq([cam : Ports, nth : Nat])
      BY <3>1, <3>2
    <3> QED
      BY <2>3, <3>1, <3>3
  <2>8. started' \in BOOLEAN
    BY <2>3
  <2> QED
    BY <2>1, <2>2, <2>6, <2>7, <2>8
<1>8. CASE Rescan
  BY <1>0, <1>8 DEF Rescan
<1>9. CASE Close
  BY <1>9 DEF Close
<1>10. CASE Joined
  BY <1>10 DEF Joined, released
<1>11. ASSUME NEW p \in Restless, Plug(p) \/ Unplug(p) \/ Advance(p) \/ Lapse(p)
       PROVE  TypeOK'
  <2>0. p \in Ports /\ UNCHANGED <<workerVars, rescan, stop, port, dartVars, history, twice>>
    BY <1>11, UsbAssumption DEF Plug, Unplug, Advance, Lapse, kernelStep
  <2>1. {"kUsbPresent", "kAbsent"} \subseteq Readiness
    BY StageFacts
  <2>2. [cam |-> p, arrived |-> TRUE] \in Event /\ [cam |-> p, arrived |-> FALSE] \in Event
    BY <2>0 DEF Event
  <2>3. CASE Plug(p)
    <3>1. plugs[p] + 1 \in 1..MaxPlugs /\ upsets + 1 \in 0..MaxUpsets
      BY <1>0, <2>0, <2>3 DEF Plug, Numbered
    <3> QED
      BY <2>0, <2>1, <2>2, <2>3, <3>1 DEF Plug
  <2>4. CASE Unplug(p)
    BY <2>0, <2>1, <2>2, <2>4 DEF Unplug
  <2>5. CASE Advance(p)
    <3>1. kernel[p] \in Readiness \ {"kAbsent"} /\ kernel[p] # "kL3Ready"
      BY <2>0, <2>5 DEF Advance, present
    <3>2. Stages[Level(kernel[p]) + 1] \in Readiness
      BY <3>1, NextStage
    <3> QED
      BY <2>0, <2>5, <3>2 DEF Advance
  <2>6. CASE Lapse(p)
    <3>1. kernel[p] \in Readiness /\ Level(kernel[p]) > Level("kUsbPresent")
      BY <2>0, <2>6 DEF Lapse
    <3>2. kernel[p] # "kAbsent"
      BY <3>1, StageFacts
    <3>3. Stages[Level(kernel[p]) - 1] \in Readiness
      BY <3>1, <3>2, NextStage
    <3>4. upsets + 1 \in 0..MaxUpsets
      BY <1>0, <2>6 DEF Lapse
    <3> QED
      BY <2>0, <2>6, <3>3, <3>4 DEF Lapse
  <2> QED
    BY <1>11, <2>3, <2>4, <2>5, <2>6
<1>12. CASE UNCHANGED usbVars
  BY <1>12 DEF usbVars
<1> QED
  BY <1>1, <1>2, <1>3, <1>4, <1>5, <1>6, <1>7, <1>8, <1>9, <1>10, <1>11, <1>12 DEF Next, WorkerStep

LEMMA NumberedStep ==
  ASSUME TypeOK, Numbered, [Next]_usbVars
  PROVE  Numbered'
<1>1. /\ plugs \in [Ports -> 1..MaxPlugs] /\ upsets \in 0..MaxUpsets
      /\ MaxUpsets \in Nat /\ MaxPlugs = MaxUpsets + 1
  BY UsbAssumption DEF TypeOK, MaxPlugs
<1>2. \/ UNCHANGED <<plugs, upsets>>
      \/ UNCHANGED plugs /\ upsets' = upsets + 1
      \/ upsets' = upsets + 1 /\ \E p \in Ports : plugs' = [plugs EXCEPT ![p] = @ + 1]
  BY UsbAssumption DEF Next, WorkerStep, Start, Top, Pump, PumpEnds, Enumerate, Settle, OnMessage, Rescan,
     Close, Joined, Plug, Unplug, Advance, Lapse, usbVars, kernelVars
<1>3. CASE UNCHANGED <<plugs, upsets>>
  BY <1>3 DEF Numbered
<1>4. CASE UNCHANGED plugs /\ upsets' = upsets + 1
  BY <1>1, <1>4 DEF Numbered
<1>5. CASE upsets' = upsets + 1 /\ \E p \in Ports : plugs' = [plugs EXCEPT ![p] = @ + 1]
  BY <1>1, <1>5 DEF Numbered
<1> QED
  BY <1>2, <1>3, <1>4, <1>5

-----------------------------------------------------------------------------
(* The snapshot that Dart keeps. *)

\* A step that neither moves the camera in p nor says anything of it.
LEMMA StaysInStep ==
  ASSUME TypeOK, NEW p \in Ports, InStep(p),
         p \in present' <=> p \in present, p \in settling' <=> p \in settling,
         seen'[p] = seen[p], current'[p] = current[p],
         port' = port \/ \E m \in Message : ~About(m, p) /\ port' = Append(port, m)
  PROVE  InStep(p)'
<1> DEFINE V == IF p \in settling THEN Readiness ELSE {seen[p]}
<1>1. ASSUME NEW W, Learns(port, current[p], p, W) PROVE Learns(port', current'[p], p, W)
  <2>1. CASE port' = port
    BY <1>1, <2>1
  <2>2. CASE \E m \in Message : ~About(m, p) /\ port' = Append(port, m)
    <3>1. PICK m \in Message : ~About(m, p) /\ port' = Append(port, m)
      BY <2>2
    <3>2. port \in Seq(Message)
      BY DEF TypeOK
    <3> QED
      BY <1>1, <3>1, <3>2, LearnsAppend
  <2> QED
    BY <2>1, <2>2
<1>2. V = IF p \in settling' THEN Readiness ELSE {seen'[p]}
  OBVIOUS
<1>3. p \in present => Learns(port, current[p], p, V)
  BY DEF InStep
<1>4. p \notin present => Learns(port, current[p], p, {Nowhere}) /\ p \notin settling
  BY DEF InStep
<1> HIDE DEF V
<1>5. p \in present' => Learns(port', current'[p], p, V)
  BY <1>1, <1>3
<1>6. p \notin present' => Learns(port', current'[p], p, {Nowhere}) /\ p \notin settling'
  BY <1>1, <1>4
<1> QED
  BY <1>2, <1>5, <1>6 DEF InStep

\* ctx->pending after an arrival, a departure and a turn of the loop.
LEMMA SettlingAfter ==
  ASSUME TypeOK, TypeOK', NEW p \in Ports
  PROVE  /\ UNCHANGED pending => settling' = settling
         /\ \A n \in Nat : pending' = Append(pending, arrival(p, n)) => settling' = settling \cup {p}
         /\ pending' = forget(p) => settling' = settling \ {p}
<1>0. pending \in Seq(Pending) /\ pending' \in Seq(Pending)
  BY DEF TypeOK
<1>1. UNCHANGED pending => settling' = settling
  BY DEF settling
<1>2. ASSUME NEW n \in Nat, pending' = Append(pending, arrival(p, n)) PROVE settling' = settling \cup {p}
  <2>1. arrival(p, n) \in Pending /\ arrival(p, n).cam = p
    BY Arrivals
  <2>2. /\ DOMAIN pending = 1..Len(pending) /\ DOMAIN pending' = 1..Len(pending) + 1
        /\ Len(pending) \in Nat /\ pending'[Len(pending) + 1].cam = p
        /\ \A i \in 1..Len(pending) : pending'[i] = pending[i]
    BY <1>0, <1>2, <2>1
  <2>3. ASSUME NEW q PROVE q \in settling' <=> q \in settling \cup {p}
    BY <2>2 DEF settling
  <2> QED
    BY <2>3
<1>3. ASSUME pending' = forget(p) PROVE settling' = settling \ {p}
  <2>1. PICK f \in [DOMAIN pending' -> staying(p)] : \A n \in DOMAIN pending' : pending'[n] = pending[f[n]]
    BY <1>3, ForgetFacts
  <2>2. \A i \in staying(p) : \E n \in DOMAIN pending' : pending'[n] = pending[i]
    BY <1>3, ForgetFacts
  <2>3. \A i : i \in staying(p) <=> i \in DOMAIN pending /\ pending[i].cam # p
    BY DEF staying
  <2>4. ASSUME NEW q \in settling' PROVE q \in settling \ {p}
    <3>1. PICK n \in DOMAIN pending' : pending'[n].cam = q
      BY DEF settling
    <3>2. f[n] \in staying(p) /\ pending[f[n]].cam = q
      BY <2>1, <3>1
    <3> QED
      BY <2>3, <3>2 DEF settling
  <2>5. ASSUME NEW q \in settling \ {p} PROVE q \in settling'
    <3>1. PICK i \in DOMAIN pending : pending[i].cam = q
      BY DEF settling
    <3>2. PICK n \in DOMAIN pending' : pending'[n] = pending[i]
      BY <2>2, <2>3, <3>1
    <3> QED
      BY <3>1, <3>2 DEF settling
  <2> QED
    BY <2>4, <2>5
<1> QED
  BY <1>1, <1>2, <1>3

\* A turn of the loop over pending: another camera settles as before, and one
\* that no longer does is posted.
LEMMA SettleTurn ==
  ASSUME TypeOK, Settling, Settle
  PROVE  \E p \in Ports, n \in Nat, after \in Readiness :
           /\ p \in settling /\ seen' = [seen EXCEPT ![p] = after]
           /\ \A q : q # p => (q \in settling' <=> q \in settling)
           /\ \/ port' = Append(port, Update(p, n, after))
              \/ port' = port /\ p \in settling'
<1> DEFINE i == Head(todo)
           e == pending[i]
           after == advance_readiness(e.cam, e.bound, TRUE)
           done  == settled(after) \/ abandoned(e)
           next  == [e EXCEPT !.age = aged(e), !.last = after,
                              !.bound = resolve_netdev(e.cam, e.bound)]
<1>1. i \in 1..Len(pending) /\ e \in Pending /\ e.last # "kL3Ready" /\ after \in Readiness
  BY SettleAt DEF Settle
<1>2. /\ port' = IF after # e.last \/ (done /\ final_record(e, after))
                 THEN Append(port, Update(e.cam, e.nth, after)) ELSE port
      /\ pending' = IF done THEN RemoveAt(pending, i) ELSE [pending EXCEPT ![i] = next]
      /\ seen' = [seen EXCEPT ![e.cam] = after]
  BY DEF Settle
<1>3. e.cam \in Ports /\ e.nth \in Nat
  BY <1>1 DEF Pending
<1>4. next.cam = e.cam
  BY <1>1 DEF Pending
<1>5. pending \in Seq(Pending) /\ Len(pending) \in Nat /\ DOMAIN pending = 1..Len(pending)
  BY DEF TypeOK
<1> HIDE DEF i, after, next
<1>6. e.cam \in settling
  BY <1>1, <1>5 DEF settling
<1>7. done \/ after # e.last => port' = Append(port, Update(e.cam, e.nth, after))
  BY <1>1, <1>2 DEF final_record
<1> HIDE DEF e, done
<1>8. CASE done
  <2> DEFINE r == RemoveAt(pending, i)
             N == Len(pending)
  <2>1. r \in Seq(Pending) /\ Len(r) = N - 1
        /\ \A k \in 1..N - 1 : r[k] = IF k < i THEN pending[k] ELSE pending[k + 1]
    BY <1>1, <1>5, RemoveAtFacts
  <2>2. pending' = r /\ DOMAIN r = 1..N - 1
    BY <1>2, <1>8, <2>1
  <2>3. i \in 1..N /\ N \in Nat /\ pending[i] = e
    BY <1>1, <1>5 DEF e
  <2> HIDE DEF r, N
  <2>4. ASSUME NEW q, q # e.cam PROVE q \in settling' <=> q \in settling
    <3>1. ASSUME q \in settling PROVE q \in settling'
      <4>1. PICK k \in 1..N : pending[k].cam = q
        BY <1>5, <3>1 DEF settling, N
      <4>2. k # i
        BY <2>3, <2>4, <4>1
      <4>3. CASE k < i
        <5>1. k \in 1..N - 1 /\ r[k] = pending[k]
          BY <2>1, <2>3, <4>3
        <5> QED
          BY <2>2, <4>1, <5>1 DEF settling
      <4>4. CASE k > i
        <5>1. k - 1 \in 1..N - 1 /\ ~(k - 1 < i) /\ (k - 1) + 1 = k
          BY <2>3, <4>4
        <5>2. r[k - 1] = pending[k]
          BY <2>1, <5>1
        <5> QED
          BY <2>2, <4>1, <5>1, <5>2 DEF settling
      <4> QED
        BY <2>3, <4>2, <4>3, <4>4
    <3>2. ASSUME q \in settling' PROVE q \in settling
      <4>1. PICK k \in 1..N - 1 : r[k].cam = q
        BY <2>2, <3>2 DEF settling
      <4>2. PICK l \in 1..N : r[k] = pending[l]
        <5>1. k \in 1..N /\ k + 1 \in 1..N
          BY <2>3
        <5> QED
          BY <2>1, <5>1
      <4> QED
        BY <1>5, <4>1, <4>2 DEF settling, N
    <3> QED
      BY <3>1, <3>2
  <2> QED
    BY <1>1, <1>2, <1>3, <1>6, <1>7, <1>8, <2>4
<1>9. CASE ~done
  <2>1. pending' = [pending EXCEPT ![i] = next]
    BY <1>2, <1>9
  <2>2. DOMAIN pending' = DOMAIN pending /\ \A k \in DOMAIN pending : pending'[k].cam = pending[k].cam
    BY <1>1, <1>4, <1>5, <2>1 DEF e
  <2>3. settling' = settling
    BY <2>2 DEF settling
  <2>4. port' = Append(port, Update(e.cam, e.nth, after)) \/ port' = port
    BY <1>2
  <2> QED
    BY <1>1, <1>2, <1>3, <1>6, <2>3, <2>4
<1> QED
  BY <1>8, <1>9

LEMMA SnapshotInit == Init => Snapshot
<1> SUFFICES ASSUME Init, ~closing
             PROVE  EventsTell(hotplug, present) /\ \A p \in Ports : ~Awaits(hotplug, p) => InStep(p)
  BY DEF Snapshot
<1>0. Created /\ TypeOK
  BY InitType DEF Init, Refused
<1>1. EventsTell(hotplug, present)
  BY <1>0, CreatedEvents DEF EventsTell
<1>2. PICK ps \in Seq(present) :
        /\ \A p \in present : \E i \in DOMAIN ps : ps[i] = p
        /\ pending = [i \in DOMAIN ps |-> arrival(ps[i], 1)]
        /\ port = [i \in DOMAIN ps |-> Update(ps[i], 1, build(ps[i]))]
  BY <1>0, CreatedFacts
<1>3. \A i \in DOMAIN ps : /\ ps[i] \in present /\ pending[i].cam = ps[i]
                           /\ port[i].kind = "kUpdate" /\ port[i].cam = ps[i]
                           /\ port[i].readiness \in Readiness
  <2> SUFFICES ASSUME NEW i \in DOMAIN ps
               PROVE  /\ ps[i] \in present /\ pending[i].cam = ps[i]
                      /\ port[i].kind = "kUpdate" /\ port[i].cam = ps[i]
                      /\ port[i].readiness \in Readiness
    OBVIOUS
  <2>1. ps[i] \in present /\ ps[i] \in Ports
    BY DEF present
  <2>2. build(ps[i]) \in Readiness
    BY <1>0, <2>1, Reading
  <2>3. 1 \in Nat
    OBVIOUS
  <2>4. arrival(ps[i], 1).cam = ps[i]
    BY <1>0, <2>1, <2>3, Arrivals
  <2>5. LET m == Update(ps[i], 1, build(ps[i]))
        IN  m.kind = "kUpdate" /\ m.cam = ps[i] /\ m.readiness \in Readiness
    BY <2>1, <2>2, <2>3, Messages
  <2> QED
    BY <1>2, <2>1, <2>4, <2>5
<1>4. DOMAIN pending = DOMAIN ps /\ DOMAIN port = DOMAIN ps
  BY <1>2
<1>5. ASSUME NEW p \in Ports PROVE InStep(p)
  <2>1. current[p] = Nowhere
    BY DEF Init
  <2>2. CASE p \in present
    <3>1. PICK i \in DOMAIN ps : ps[i] = p
      BY <1>2, <2>2
    <3>2. p \in settling
      BY <1>3, <1>4, <3>1 DEF settling
    <3>3. About(port[i], p)
      BY <1>3, <3>1 DEF About
    <3>4. Learns(port, current[p], p, Readiness)
      BY <1>3, <1>4, <3>3 DEF Learns, Given
    <3> QED
      BY <2>2, <3>2, <3>4 DEF InStep
  <2>3. CASE p \notin present
    <3>1. \A i \in DOMAIN port : ~About(port[i], p)
      BY <1>3, <1>4, <2>3 DEF About
    <3>2. Learns(port, current[p], p, {Nowhere})
      BY <2>1, <3>1 DEF Learns
    <3>3. p \notin settling
      BY <1>3, <1>4, <2>3 DEF settling
    <3> QED
      BY <2>3, <3>2, <3>3 DEF InStep
  <2> QED
    BY <2>2, <2>3
<1> QED
  BY <1>1, <1>5

\* An update of a camera that is there, by enumerate() or a turn of the loop.
LEMMA UpdateInStep ==
  ASSUME TypeOK, TypeOK', NEW p \in Ports, NEW n \in Nat, NEW r \in Readiness,
         port' = Append(port, Update(p, n, r)), seen'[p] = r, p \in present'
  PROVE  InStep(p)'
<1>1. Update(p, n, r) \in Message /\ About(Update(p, n, r), p) /\ Given(Update(p, n, r)) = r
  BY Messages DEF About, Given
<1>2. \A V : r \in V => Learns(port', current'[p], p, V)
  <2>1. port \in Seq(Message)
    BY DEF TypeOK
  <2> QED
    BY <1>1, <2>1, LearnsAppend
<1>3. Learns(port', current'[p], p, IF p \in settling' THEN Readiness ELSE {seen'[p]})
  BY <1>2
<1> QED
  BY <1>3 DEF InStep

LEMMA SnapshotStep ==
  ASSUME TypeOK, TypeOK', Snapshot, Enumerating, Settling, [Next]_usbVars
  PROVE  Snapshot'
<1> SUFFICES ASSUME ~closing'
             PROVE  /\ EventsTell(hotplug', present')
                    /\ \A p \in Ports : ~Awaits(hotplug', p) => InStep(p)'
  BY DEF Snapshot
<1>0. ~closing
  BY DEF Next, WorkerStep, Start, Top, Pump, PumpEnds, Enumerate, Settle, OnMessage, Rescan, Close,
     Joined, Plug, Unplug, Advance, Lapse, kernelStep, usbVars, dartVars
<1>a. /\ EventsTell(hotplug, present)
      /\ \A p \in Ports : ~Awaits(hotplug, p) => InStep(p)
  BY <1>0 DEF Snapshot
<1>b. hotplug \in Seq(Event) /\ port \in Seq(Message)
  BY DEF TypeOK
<1>1. ASSUME UNCHANGED <<hotplug, kernel, pending, seen, current>>,
             port' = port \/ port' = Append(port, Sentinel)
      PROVE  /\ EventsTell(hotplug', present')
             /\ \A p \in Ports : ~Awaits(hotplug', p) => InStep(p)'
  <2>1. present' = present /\ settling' = settling
    BY <1>1 DEF present, settling
  <2>2. Sentinel \in Message /\ \A p \in Ports : ~About(Sentinel, p)
    BY Messages DEF About
  <2> QED
    BY <1>a, <1>1, <2>1, <2>2, StaysInStep
<1>2. CASE Start \/ Top \/ PumpEnds \/ Rescan \/ UNCHANGED usbVars
  BY <1>1, <1>2 DEF Start, Top, PumpEnds, Rescan, usbVars, kernelVars, workerVars, dartVars, history
<1>3. CASE Pump
  <2> DEFINE e == Head(hotplug)
  <2>0. PICK c \in Ports : c = e.cam
    <3>1. hotplug # <<>> /\ e \in Event
      BY <1>3, <1>b DEF Pump
    <3> QED
      BY <3>1 DEF Event
  <2>1. hotplug # <<>> /\ c \in Ports
    BY <1>3 DEF Pump
  <2>2. /\ hotplug' = Tail(hotplug)
        /\ IF e.arrived THEN Arrived(c) ELSE Departed(c)
        /\ current' = current /\ present' = present
    BY <1>3, <2>0 DEF Pump, dartVars, present
  <2>3. /\ EventsTell(hotplug', present)
        /\ \A p : Awaits(hotplug, p) <=> Awaits(hotplug', p) \/ p = c
        /\ ~Awaits(hotplug', c) => (e.arrived <=> c \in present)
    BY <1>a, <1>b, <2>0, <2>1, <2>2, EventTail
  <2> HIDE DEF e
  <2>4. CASE e.arrived /\ Arrived(c)
    <3>1. arrivals'[c] \in Nat /\ build(c) \in Readiness
      BY <2>1, Reading DEF TypeOK
    <3>2. settling' = settling \cup {c}
      BY <2>1, <2>4, <3>1, SettlingAfter DEF Arrived
    <3>3. port' = Append(port, Update(c, arrivals'[c], build(c)))
      BY <2>4 DEF Arrived
    <3>4. seen'[c] = build(c) /\ \A p \in Ports : p # c => seen'[p] = seen[p]
      BY <2>1, <2>4 DEF Arrived, TypeOK
    <3>5. Update(c, arrivals'[c], build(c)) \in Message
          /\ \A p : p # c => ~About(Update(c, arrivals'[c], build(c)), p)
      BY <2>1, <3>1, Messages DEF About
    <3>6. ASSUME NEW p \in Ports, ~Awaits(hotplug', p), p # c PROVE InStep(p)'
      <4>1. InStep(p)
        BY <1>a, <2>3, <3>6
      <4> QED
        BY <2>2, <3>2, <3>3, <3>4, <3>5, <3>6, <4>1, StaysInStep
    <3>7. ASSUME ~Awaits(hotplug', c) PROVE InStep(c)'
      <4>1. c \in present'
        BY <2>2, <2>3, <2>4, <3>7
      <4> QED
        BY <2>1, <3>1, <3>3, <3>4, <4>1, UpdateInStep
    <3> QED
      BY <2>2, <2>3, <3>6, <3>7
  <2>5. CASE ~e.arrived /\ Departed(c)
    <3>1. settling' = settling \ {c}
      BY <2>1, <2>5, SettlingAfter DEF Departed
    <3>2. port' = Append(port, Left(c)) /\ seen' = seen
      BY <2>5 DEF Departed, history
    <3>3. /\ Left(c) \in Message /\ About(Left(c), c) /\ Given(Left(c)) = Nowhere
          /\ \A p : p # c => ~About(Left(c), p)
      BY <2>1, Messages DEF About, Given
    <3>4. ASSUME NEW p \in Ports, ~Awaits(hotplug', p), p # c PROVE InStep(p)'
      <4>1. InStep(p)
        BY <1>a, <2>3, <3>4
      <4> QED
        BY <2>2, <3>1, <3>2, <3>3, <3>4, <4>1, StaysInStep
    <3>5. ASSUME ~Awaits(hotplug', c) PROVE InStep(c)'
      <4>1. c \notin present' /\ c \notin settling'
        BY <2>2, <2>3, <2>5, <3>1, <3>5
      <4>2. Learns(port', current'[c], c, {Nowhere})
        BY <1>b, <3>2, <3>3, LearnsAppend
      <4> QED
        BY <4>1, <4>2 DEF InStep
    <3> QED
      BY <2>2, <2>3, <3>4, <3>5
  <2> QED
    BY <2>2, <2>4, <2>5
<1>4. CASE Enumerate
  <2> DEFINE c == Head(todo)
             m == Update(c, arrivals[c], build(c))
  <2>1. c \in Ports /\ (c \in present \/ Awaits(hotplug, c)) /\ build(c) \in Readiness
    BY <1>0, <1>4, EnumerateAt, Reading DEF Enumerate
  <2>2. /\ port' = Append(port, m) /\ seen' = [seen EXCEPT ![c] = build(c)]
        /\ UNCHANGED <<hotplug, current>> /\ present' = present /\ settling' = settling
    BY <1>4 DEF Enumerate, kernelVars, dartVars, present, settling
  <2>3. m \in Message /\ arrivals[c] \in Nat /\ \A p : p # c => ~About(m, p)
    <3>1. arrivals[c] \in Nat
      BY <2>1 DEF TypeOK
    <3> QED
      BY <2>1, <3>1, Messages DEF About
  <2>4. seen'[c] = build(c) /\ \A p \in Ports : p # c => seen'[p] = seen[p]
    BY <2>1, <2>2 DEF TypeOK
  <2> HIDE DEF c
  <2>5. ASSUME NEW p \in Ports, ~Awaits(hotplug', p) PROVE InStep(p)'
    <3>1. CASE p = c
      BY <2>1, <2>2, <2>3, <2>4, <2>5, <3>1, UpdateInStep
    <3>2. CASE p # c
      <4>1. InStep(p)
        BY <1>a, <2>2, <2>5
      <4> HIDE DEF m
      <4> QED
        BY <2>2, <2>3, <2>4, <3>2, <4>1, StaysInStep
    <3> QED
      BY <3>1, <3>2
  <2> QED
    BY <1>a, <2>2, <2>5
<1>5. CASE Settle
  <2>1. PICK c \in Ports, n \in Nat, after \in Readiness :
           /\ c \in settling /\ seen' = [seen EXCEPT ![c] = after]
           /\ \A q : q # c => (q \in settling' <=> q \in settling)
           /\ \/ port' = Append(port, Update(c, n, after))
              \/ port' = port /\ c \in settling'
    BY <1>5, SettleTurn
  <2>2. UNCHANGED <<hotplug, current>> /\ present' = present
    BY <1>5 DEF Settle, kernelVars, dartVars, present
  <2>3. Update(c, n, after) \in Message /\ \A p : p # c => ~About(Update(c, n, after), p)
    BY Messages DEF About
  <2>4. seen'[c] = after /\ \A p \in Ports : p # c => seen'[p] = seen[p]
    BY <2>1 DEF TypeOK
  <2>5. ASSUME NEW p \in Ports, ~Awaits(hotplug', p) PROVE InStep(p)'
    <3>0. InStep(p)
      BY <1>a, <2>2, <2>5
    <3>1. CASE p = c
      <4>1. p \in present'
        BY <2>1, <2>2, <3>0, <3>1 DEF InStep
      <4>2. CASE port' = Append(port, Update(c, n, after))
        BY <2>4, <3>1, <4>1, <4>2, UpdateInStep
      <4>3. CASE port' = port /\ c \in settling'
        BY <2>1, <2>2, <3>0, <3>1, <4>1, <4>3 DEF InStep
      <4> QED
        BY <2>1, <4>2, <4>3
    <3>2. CASE p # c
      BY <2>1, <2>2, <2>3, <2>4, <3>0, <3>2, StaysInStep
    <3> QED
      BY <3>1, <3>2
  <2> QED
    BY <1>a, <2>2, <2>5
<1>6. CASE OnMessage
  <2> DEFINE e == Head(port)
  <2>1. port # <<>> /\ e \in Message /\ port' = Tail(port)
    BY <1>6, <1>b DEF OnMessage
  <2>2. UNCHANGED <<hotplug, seen>> /\ present' = present /\ settling' = settling
    BY <1>6 DEF OnMessage, kernelVars, workerVars, history, present, settling
  <2>3. \/ e.kind = "kSentinel" /\ current' = current
        \/ e.kind = "kUpdate" /\ current' = [current EXCEPT ![e.cam] = e.readiness]
        \/ e.kind = "kLeft" /\ current' = [current EXCEPT ![e.cam] = Nowhere]
    BY <1>6 DEF OnMessage
  <2> HIDE DEF e
  <2>4. current \in [Ports -> Readiness \cup {Nowhere}] /\ (e.kind # "kSentinel" => e.cam \in Ports)
    BY <2>1, Messages DEF TypeOK
  <2>5. \A p \in Ports : current'[p] = IF About(e, p) THEN Given(e) ELSE current[p]
    BY <2>3, <2>4 DEF About, Given
  <2>6. ASSUME NEW p \in Ports, NEW V, Learns(port, current[p], p, V) PROVE Learns(port', current'[p], p, V)
    BY <1>b, <2>1, <2>5, <2>6, LearnsTail DEF e
  <2>7. ASSUME NEW p \in Ports, ~Awaits(hotplug', p) PROVE InStep(p)'
    <3>0. InStep(p)
      BY <1>a, <2>2, <2>7
    <3> QED
      BY <2>2, <2>6, <3>0 DEF InStep
  <2> QED
    BY <1>a, <2>2, <2>7
<1>7. CASE Close \/ Joined
  BY <1>0, <1>7 DEF Close, Joined
<1>8. ASSUME NEW c \in Restless, Plug(c) \/ Unplug(c) \/ Advance(c) \/ Lapse(c)
      PROVE  /\ EventsTell(hotplug', present')
             /\ \A p \in Ports : ~Awaits(hotplug', p) => InStep(p)'
  <2>0. c \in Ports /\ UNCHANGED <<port, current, seen>> /\ settling' = settling
    BY <1>8, UsbAssumption DEF Plug, Unplug, Advance, Lapse, kernelStep, dartVars, history, workerVars, settling
  <2>1. kernel \in [Ports -> Readiness]
    BY DEF TypeOK
  <2>2. ASSUME NEW r \in BOOLEAN, hotplug' = Append(hotplug, [cam |-> c, arrived |-> r]),
               r <=> c \in present', \A p \in Ports \ {c} : p \in present <=> p \in present'
        PROVE  /\ EventsTell(hotplug', present')
               /\ \A p \in Ports : ~Awaits(hotplug', p) => InStep(p)'
    <3> DEFINE e == [cam |-> c, arrived |-> r]
    <3>1. e \in Event /\ e.cam = c /\ e.arrived = r
      BY <2>0 DEF Event
    <3> HIDE DEF e
    <3>2. /\ EventsTell(hotplug', present')
          /\ \A p : Awaits(hotplug', p) <=> Awaits(hotplug, p) \/ p = c
      <4>1. hotplug' = Append(hotplug, e)
        BY <2>2 DEF e
      <4> QED
        BY <1>a, <1>b, <2>2, <3>1, <4>1, EventAppend
    <3>3. ASSUME NEW p \in Ports, ~Awaits(hotplug', p) PROVE InStep(p)'
      <4>1. p # c /\ InStep(p) /\ (p \in present <=> p \in present')
        BY <1>a, <2>2, <3>2, <3>3
      <4> QED
        BY <2>0, <4>1, StaysInStep
    <3> QED
      BY <3>2, <3>3
  <2>3. CASE Plug(c)
    <3>1. c \in present' /\ \A p \in Ports \ {c} : p \in present <=> p \in present'
      BY <2>0, <2>1, <2>3 DEF Plug, present
    <3> QED
      BY <2>2, <2>3, <3>1 DEF Plug
  <2>4. CASE Unplug(c)
    <3>1. c \notin present' /\ \A p \in Ports \ {c} : p \in present <=> p \in present'
      BY <2>0, <2>1, <2>4 DEF Unplug, present
    <3> QED
      BY <2>2, <2>4, <3>1 DEF Unplug
  <2>5. CASE Advance(c) \/ Lapse(c)
    <3>1. PICK r \in Readiness \ {"kAbsent"} : kernel' = [kernel EXCEPT ![c] = r]
      <4>1. CASE Advance(c)
        <5>1. kernel[c] \in Readiness \ {"kAbsent"} /\ kernel[c] # "kL3Ready"
          BY <2>0, <2>1, <4>1 DEF Advance, present
        <5> QED
          BY <4>1, <5>1, NextStage DEF Advance
      <4>2. CASE Lapse(c)
        <5>1. kernel[c] \in Readiness /\ Level(kernel[c]) > Level("kUsbPresent")
          BY <2>0, <2>1, <4>2 DEF Lapse
        <5>2. kernel[c] # "kAbsent"
          BY <5>1, StageFacts
        <5> QED
          BY <4>2, <5>1, <5>2, NextStage DEF Lapse
      <4> QED
        BY <2>5, <4>1, <4>2
    <3>2. c \in present
      <4>1. Lapse(c) => kernel[c] # "kAbsent"
        BY <2>0, StageFacts DEF Lapse
      <4> QED
        BY <2>0, <2>5, <4>1 DEF Advance, present
    <3>3. present' = present
      BY <2>0, <2>1, <3>1, <3>2 DEF present
    <3>4. hotplug' = hotplug
      BY <2>5 DEF Advance, Lapse
    <3> QED
      BY <1>a, <2>0, <3>3, <3>4, StaysInStep
  <2> QED
    BY <1>8, <2>3, <2>4, <2>5
<1> QED
  BY <1>2, <1>3, <1>4, <1>5, <1>6, <1>7, <1>8 DEF Next, WorkerStep

-----------------------------------------------------------------------------
(* The loops of the worker. *)

\* What the kernel does is told by an event, if it is seen at all.
LEMMA KernelMoves ==
  ASSUME TypeOK, NEW c \in Restless, Plug(c) \/ Unplug(c) \/ Advance(c) \/ Lapse(c)
  PROVE  /\ UNCHANGED <<workerVars, rescan, stop, port, dartVars, history>>
         /\ \A p \in Ports : p \in present => p \in present' \/ Awaits(hotplug', p)
         /\ \A p \in Ports : Awaits(hotplug, p) => Awaits(hotplug', p)
         /\ \A p \in Ports : p \in present' /\ plugs'[p] = 1 => p \in present /\ plugs[p] = 1
<1>0. c \in Ports /\ UNCHANGED <<workerVars, rescan, stop, port, dartVars, history>>
  BY UsbAssumption DEF Plug, Unplug, Advance, Lapse, kernelStep
<1>1. /\ kernel \in [Ports -> Readiness] /\ plugs \in [Ports -> 1..MaxPlugs] /\ MaxPlugs \in Nat
      /\ hotplug \in Seq(Event)
  BY UsbAssumption DEF TypeOK, MaxPlugs
<1>2. /\ \A p \in Ports : p # c => kernel'[p] = kernel[p] /\ plugs'[p] = plugs[p]
      /\ \/ hotplug' = hotplug /\ plugs' = plugs /\ c \in present
         \/ Plug(c) \/ Unplug(c)
  <2>1. Lapse(c) => kernel[c] # "kAbsent"
    BY <1>0, StageFacts DEF Lapse
  <2> QED
    BY <1>0, <1>1, <2>1 DEF Plug, Unplug, Advance, Lapse, present
<1>3. \A p \in Ports : Awaits(hotplug, p) => Awaits(hotplug', p)
  <2>1. ASSUME NEW e \in Event, hotplug' = Append(hotplug, e), NEW p, Awaits(hotplug, p)
        PROVE  Awaits(hotplug', p)
    <3>1. PICK i \in DOMAIN hotplug : hotplug[i].cam = p
      BY <2>1 DEF Awaits
    <3>2. i \in DOMAIN hotplug' /\ hotplug'[i] = hotplug[i]
      BY <1>1, <2>1
    <3> QED
      BY <3>1, <3>2 DEF Awaits
  <2>2. [cam |-> c, arrived |-> TRUE] \in Event /\ [cam |-> c, arrived |-> FALSE] \in Event
    BY <1>0 DEF Event
  <2>3. \/ hotplug' = hotplug \/ hotplug' = Append(hotplug, [cam |-> c, arrived |-> TRUE])
        \/ hotplug' = Append(hotplug, [cam |-> c, arrived |-> FALSE])
    BY DEF Plug, Unplug, Advance, Lapse
  <2> QED
    BY <2>1, <2>2, <2>3
<1>4. Unplug(c) => Awaits(hotplug', c)
  <2> SUFFICES ASSUME Unplug(c) PROVE Awaits(hotplug', c)
    OBVIOUS
  <2>1. hotplug' = Append(hotplug, [cam |-> c, arrived |-> FALSE])
    BY DEF Unplug
  <2>2. Len(hotplug) + 1 \in DOMAIN hotplug' /\ hotplug'[Len(hotplug) + 1].cam = c
    BY <1>1, <2>1
  <2> QED
    BY <2>2 DEF Awaits
<1>5. \A p \in Ports : p \in present => p \in present' \/ Awaits(hotplug', p)
  <2> SUFFICES ASSUME NEW p \in Ports, p \in present, p \notin present' PROVE Awaits(hotplug', p)
    OBVIOUS
  <2>1. p = c
    BY <1>2 DEF present
  <2>2. ~Plug(c)
    BY <2>1 DEF Plug, present
  <2>3. CASE Advance(c)
    <3>1. kernel[c] \in Readiness \ {"kAbsent"} /\ kernel[c] # "kL3Ready"
      BY <1>0, <1>1, <2>3 DEF Advance, present
    <3>2. kernel'[c] # "kAbsent"
      BY <1>0, <1>1, <2>3, <3>1, NextStage DEF Advance
    <3> QED
      BY <1>0, <2>1, <3>2 DEF present
  <2>4. CASE Lapse(c)
    <3>1. kernel[c] \in Readiness \ {"kAbsent"} /\ Level(kernel[c]) > Level("kUsbPresent")
      BY <1>0, <1>1, <2>1, <2>4 DEF Lapse, present
    <3>2. kernel'[c] # "kAbsent"
      BY <1>0, <1>1, <2>4, <3>1, NextStage DEF Lapse
    <3> QED
      BY <1>0, <2>1, <3>2 DEF present
  <2> QED
    BY <1>4, <2>1, <2>2, <2>3, <2>4
<1>6. \A p \in Ports : p \in present' /\ plugs'[p] = 1 => p \in present /\ plugs[p] = 1
  <2> SUFFICES ASSUME NEW p \in Ports, p \in present', plugs'[p] = 1
               PROVE  p \in present /\ plugs[p] = 1
    OBVIOUS
  <2>1. CASE p # c
    BY <1>2, <2>1 DEF present
  <2>2. CASE p = c
    <3>1. ~Plug(c)
      BY <1>0, <1>1, <2>2 DEF Plug
    <3>2. Unplug(c) => c \notin present'
      BY <1>0, <1>1 DEF Unplug, present
    <3> QED
      BY <1>2, <2>2, <3>1, <3>2
  <2> QED
    BY <2>1, <2>2
<1> QED
  BY <1>0, <1>3, <1>5, <1>6

LEMMA EnumeratingStep ==
  ASSUME TypeOK, Enumerating, [Next]_usbVars
  PROVE  Enumerating'
<1> SUFFICES ASSUME pc' = "enumerate"
             PROVE  /\ todo' \in Seq(Ports) /\ todo' # <<>>
                    /\ ~closing' => \A k \in DOMAIN todo' : todo'[k] \in present' \/ Awaits(hotplug', todo'[k])
  BY DEF Enumerating
<1>1. CASE PumpEnds
  <2>1. todo' = SetToSeq(present) /\ present # {} /\ present' = present
    BY <1>1 DEF PumpEnds, unlessDone, kernelVars, present
  <2>2. todo' \in Seq(present) /\ todo' # <<>>
    BY <2>1, PresentFinite, SetToSeqFacts
  <2>3. \A k \in DOMAIN todo' : todo'[k] \in present
    BY <2>2
  <2>4. todo' \in Seq(Ports)
    <3>1. \A x \in present : x \in Ports
      BY DEF present
    <3> HIDE DEF present
    <3> QED
      BY <2>2, <3>1
  <2> QED
    BY <2>1, <2>2, <2>3, <2>4
<1>2. CASE Enumerate
  <2>1. /\ todo \in Seq(Ports)
        /\ ~closing => \A k \in DOMAIN todo : todo[k] \in present \/ Awaits(hotplug, todo[k])
    BY <1>2 DEF Enumerate, Enumerating
  <2>2. todo' = Tail(todo) /\ Len(todo) > 1
    BY <1>2 DEF Enumerate, unlessDone
  <2>3. UNCHANGED <<closing, hotplug>> /\ present' = present
    BY <1>2 DEF Enumerate, kernelVars, dartVars, present
  <2>4. todo' \in Seq(Ports) /\ todo' # <<>>
    <3>0. Len(todo) \in Nat /\ todo # <<>>
      BY <2>1, <2>2
    <3>1. Len(todo) \in Nat /\ Tail(todo) \in Seq(Ports) /\ Len(Tail(todo)) = Len(todo) - 1
      BY <2>1, <3>0, HeadTailProperties
    <3>2. Len(Tail(todo)) # 0
      BY <2>2, <3>1
    <3>3. Len(<<>>) = 0
      OBVIOUS
    <3>4. Tail(todo) # <<>>
      BY <3>2, <3>3, Zenon
    <3> QED
      BY <2>2, <3>1, <3>4, Zenon
  <2>5. \A k \in DOMAIN todo' : k + 1 \in DOMAIN todo /\ todo'[k] = todo[k + 1]
    BY <2>1, <2>2
  <2> QED
    BY <2>1, <2>3, <2>4, <2>5
<1>3. CASE OnMessage \/ Rescan \/ Close \/ Joined \/ UNCHANGED usbVars
  <2>1. UNCHANGED <<pc, todo>>
    BY <1>3 DEF OnMessage, Rescan, Close, Joined, usbVars, workerVars
  <2>2. ~closing' => ~closing /\ hotplug' = hotplug /\ present' = present
    BY <1>3 DEF OnMessage, Rescan, Close, Joined, usbVars, dartVars, kernelVars, present
  <2> QED
    BY <2>1, <2>2 DEF Enumerating
<1>4. ASSUME NEW c \in Restless, Plug(c) \/ Unplug(c) \/ Advance(c) \/ Lapse(c)
      PROVE  /\ todo' \in Seq(Ports) /\ todo' # <<>>
             /\ ~closing' => \A k \in DOMAIN todo' : todo'[k] \in present' \/ Awaits(hotplug', todo'[k])
  <2>1. UNCHANGED <<pc, todo, closing>>
    BY <1>4, KernelMoves DEF workerVars, dartVars
  <2>2. \A p \in Ports : p \in present \/ Awaits(hotplug, p) => p \in present' \/ Awaits(hotplug', p)
    BY <1>4, KernelMoves
  <2>3. todo \in Seq(Ports) /\ todo # <<>>
    BY <2>1 DEF Enumerating
  <2>4. \A k \in DOMAIN todo : todo[k] \in Ports
    BY <2>3
  <2> QED
    BY <2>1, <2>2, <2>3, <2>4 DEF Enumerating
<1>5. CASE Start \/ Top \/ Pump \/ Settle
  BY <1>5 DEF Start, Top, Pump, Settle, unlessDone
<1> QED
  BY <1>1, <1>2, <1>3, <1>4, <1>5 DEF Next, WorkerStep

\* Each turn of the loop is at one of the last entries of pending.
LEMMA SettlingStep ==
  ASSUME TypeOK, Settling, Enumerating, [Next]_usbVars
  PROVE  Settling'
<1>0. /\ pending \in Seq(Pending) /\ Len(pending) \in Nat /\ DOMAIN pending = 1..Len(pending)
      /\ \A i \in DOMAIN pending : pending[i].last # "kL3Ready"
  BY DEF TypeOK, Settling
<1>1. ASSUME UNCHANGED pending, pc' = "settle" => pc = "settle" /\ todo' = todo PROVE Settling'
  BY <1>1 DEF Settling
<1>2. CASE Start \/ Top \/ OnMessage \/ Rescan \/ Close \/ Joined \/ UNCHANGED usbVars
  <2>1. UNCHANGED pending
    BY <1>2 DEF Start, Top, OnMessage, Rescan, Close, Joined, usbVars, workerVars
  <2>2. pc' = "settle" => pc = "settle" /\ todo' = todo
    BY <1>2 DEF Start, Top, OnMessage, Rescan, Close, Joined, usbVars, workerVars
  <2> QED
    BY <1>1, <2>1, <2>2
<1>3. ASSUME NEW c \in Restless, Plug(c) \/ Unplug(c) \/ Advance(c) \/ Lapse(c) PROVE Settling'
  BY <1>1, <1>3, KernelMoves DEF workerVars
<1>4. ASSUME UNCHANGED pending, pc' = "settle" => pending # <<>> /\ todo' = startSettling PROVE Settling'
  <2>1. ASSUME pc' = "settle" PROVE /\ todo' \in Seq(Nat) /\ Len(todo') \in 1..Len(pending)
                                    /\ Len(todo') = Len(pending)
                                    /\ \A k \in DOMAIN todo' : todo'[k] = k
    <3>1. todo' = [i \in 1..Len(pending) |-> i] /\ Len(pending) # 0
      BY <1>0, <1>4, <2>1 DEF startSettling
    <3> QED
      BY <1>0, <3>1
  <2>2. pc' = "settle" =>
          /\ todo' \in Seq(Nat) /\ Len(todo') \in 1..Len(pending)
          /\ \A k \in DOMAIN todo' : todo'[k] = Len(pending) - Len(todo') + k
    BY <1>0, <2>1
  <2> QED
    BY <1>0, <1>4, <2>2 DEF Settling
<1>5. CASE PumpEnds \/ Enumerate
  <2>1. UNCHANGED pending
    BY <1>5 DEF PumpEnds, Enumerate
  <2>2. pc' = "settle" => pending # <<>> /\ todo' = startSettling
    BY <1>5 DEF PumpEnds, Enumerate, unlessDone
  <2> QED
    BY <1>4, <2>1, <2>2
<1>6. CASE Pump
  <2> DEFINE e == Head(hotplug)
             c == e.cam
  <2>1. c \in Ports
    <3>1. e \in Event
      BY <1>6 DEF Pump, TypeOK
    <3> QED
      BY <3>1 DEF Event
  <2>2. pc' # "settle" /\ (Arrived(c) \/ Departed(c))
    BY <1>6 DEF Pump
  <2> HIDE DEF c
  <2>3. ASSUME Arrived(c) PROVE \A i \in DOMAIN pending' : pending'[i].last # "kL3Ready"
    <3>1. arrivals'[c] \in Nat
      BY <2>1, <2>3 DEF Arrived, TypeOK
    <3>2. arrival(c, arrivals'[c]).last # "kL3Ready" /\ arrival(c, arrivals'[c]) \in Pending
      <4>1. arrival(c, arrivals'[c]).last = build(c) /\ arrival(c, arrivals'[c]) \in Pending
        BY <2>1, <3>1, Arrivals
      <4>2. build(c) # "kL3Ready"
        BY <2>1, Reading
      <4> QED
        BY <4>1, <4>2
    <3>3. pending' = Append(pending, arrival(c, arrivals'[c]))
      BY <2>3 DEF Arrived
    <3>4. \A i \in DOMAIN pending' : (i \in DOMAIN pending /\ pending'[i] = pending[i])
                                     \/ pending'[i] = arrival(c, arrivals'[c])
      BY <1>0, <3>2, <3>3
    <3> QED
      BY <1>0, <3>2, <3>4
  <2>4. ASSUME Departed(c) PROVE \A i \in DOMAIN pending' : pending'[i].last # "kL3Ready"
    <3>1. pending' = forget(c)
      BY <2>4 DEF Departed
    <3>2. PICK f \in [DOMAIN pending' -> staying(c)] : \A n \in DOMAIN pending' : pending'[n] = pending[f[n]]
      BY <2>1, <3>1, ForgetFacts
    <3>3. staying(c) \subseteq DOMAIN pending
      BY DEF staying
    <3>4. \A n \in DOMAIN pending' : f[n] \in DOMAIN pending
      BY <3>2, <3>3
    <3> QED
      BY <1>0, <3>2, <3>4
  <2> QED
    BY <2>2, <2>3, <2>4 DEF Settling
<1>7. CASE Settle
  <2> DEFINE i == Head(todo)
             e == pending[i]
             after == advance_readiness(e.cam, e.bound, TRUE)
             done  == settled(after) \/ abandoned(e)
             next  == [e EXCEPT !.age = aged(e), !.last = after,
                                !.bound = resolve_netdev(e.cam, e.bound)]
             N == Len(pending)
             M == Len(todo)
  <2>1. i \in 1..N /\ i = N - M + 1 /\ e \in Pending
    BY <1>7, SettleAt DEF Settle
  <2>2. /\ pending' = IF done THEN RemoveAt(pending, i) ELSE [pending EXCEPT ![i] = next]
        /\ todo' = IF done THEN [k \in DOMAIN Tail(todo) |-> Tail(todo)[k] - 1] ELSE Tail(todo)
        /\ pc' = unlessDone("settle", Tail(todo))
    BY <1>7 DEF Settle
  <2>3. /\ todo \in Seq(Nat) /\ M \in 1..N /\ \A k \in 1..M : todo[k] = N - M + k
    BY <1>7 DEF Settle, Settling
  <2>4. ~done => next.last # "kL3Ready"
    BY <2>1 DEF settled, Pending
  <2>5. N \in Nat /\ M \in Nat
    BY <1>0, <2>3
  <2>6. /\ Tail(todo) \in Seq(Nat) /\ Len(Tail(todo)) = M - 1 /\ DOMAIN Tail(todo) = 1..M - 1
        /\ \A k \in 1..M - 1 : Tail(todo)[k] = todo[k + 1]
    BY <2>3, <2>5
  <2>7. \A k \in 1..M - 1 : Tail(todo)[k] = N - M + 1 + k
    <3> SUFFICES ASSUME NEW k \in 1..M - 1 PROVE Tail(todo)[k] = N - M + 1 + k
      OBVIOUS
    <3>1. k + 1 \in 1..M
      BY <2>5
    <3> HIDE DEF N, M
    <3> QED
      BY <2>3, <2>5, <2>6, <3>1
  <2> HIDE DEF i, e, done, next, N, M, after
  <2>8. M - 1 \in Nat /\ M - 1 <= N - 1
    BY <2>3, <2>5
  <2>9. pc' = "settle" => M - 1 # 0
    BY <2>2, <2>6 DEF unlessDone
  <2>10. CASE done
    <3>1. /\ pending' \in Seq(Pending) /\ Len(pending') = N - 1
          /\ \A k \in 1..N - 1 : pending'[k] = IF k < i THEN pending[k] ELSE pending[k + 1]
      BY <1>0, <2>1, <2>2, <2>10, RemoveAtFacts DEF N
    <3>2. \A k \in DOMAIN pending' : pending'[k].last # "kL3Ready"
      <4> SUFFICES ASSUME NEW k \in 1..N - 1 PROVE pending'[k].last # "kL3Ready"
        BY <3>1
      <4>1. k \in 1..N /\ k + 1 \in 1..N
        BY <2>5
      <4>2. pending'[k] = pending[k] \/ pending'[k] = pending[k + 1]
        BY <3>1
      <4> QED
        BY <1>0, <4>1, <4>2 DEF N
    <3>3. todo' = [k \in 1..M - 1 |-> Tail(todo)[k] - 1]
      BY <2>2, <2>6, <2>10
    <3>4. todo' = [k \in 1..M - 1 |-> N - M + k]
      <4>1. \A k \in 1..M - 1 : Tail(todo)[k] - 1 = N - M + k
        <5> SUFFICES ASSUME NEW k \in 1..M - 1 PROVE Tail(todo)[k] - 1 = N - M + k
          OBVIOUS
        <5>1. (N - M + 1 + k) - 1 = N - M + k
          BY <2>5
        <5> QED
          BY <2>7, <5>1
      <4> QED
        BY <3>3, <4>1
    <3>5. /\ todo' \in Seq(Nat) /\ Len(todo') = M - 1 /\ DOMAIN todo' = 1..M - 1
          /\ \A k \in 1..M - 1 : todo'[k] = N - M + k
      <4>1. \A k \in 1..M - 1 : N - M + k \in Nat
        BY <2>3, <2>5
      <4> QED
        BY <2>8, <3>4, <4>1
    <3>6. pc' = "settle" => Len(todo') \in 1..Len(pending')
      BY <2>5, <2>8, <2>9, <3>1, <3>5
    <3>7. \A k \in DOMAIN todo' : todo'[k] = Len(pending') - Len(todo') + k
      BY <2>5, <3>1, <3>5
    <3> QED
      BY <3>2, <3>5, <3>6, <3>7 DEF Settling
  <2>11. CASE ~done
    <3>1. pending' = [pending EXCEPT ![i] = next] /\ todo' = Tail(todo)
      BY <2>2, <2>11
    <3>2. Len(pending') = N /\ DOMAIN pending' = DOMAIN pending
      BY <1>0, <3>1 DEF N
    <3>3. \A k \in DOMAIN pending' : pending'[k].last # "kL3Ready"
      BY <1>0, <2>1, <2>4, <2>11, <3>1, <3>2 DEF N
    <3>4. pc' = "settle" => Len(todo') \in 1..Len(pending')
      BY <2>5, <2>6, <2>8, <2>9, <3>1, <3>2
    <3>5. \A k \in DOMAIN todo' : todo'[k] = Len(pending') - Len(todo') + k
      <4>1. Len(todo') = M - 1 /\ DOMAIN todo' = 1..M - 1
        BY <2>6, <3>1
      <4>2. \A k \in 1..M - 1 : todo'[k] = N - (M - 1) + k
        <5> SUFFICES ASSUME NEW k \in 1..M - 1 PROVE todo'[k] = N - (M - 1) + k
          OBVIOUS
        <5>1. N - M + 1 + k = N - (M - 1) + k
          BY <2>5
        <5> QED
          BY <2>7, <3>1, <5>1
      <4> QED
        BY <3>2, <4>1, <4>2
    <3> QED
      BY <2>6, <3>1, <3>3, <3>4, <3>5 DEF Settling
  <2> QED
    BY <2>10, <2>11
<1> QED
  BY <1>2, <1>3, <1>5, <1>6, <1>7 DEF Next, WorkerStep

-----------------------------------------------------------------------------
(* Arrivals come out of the ready stream once. *)

\* A step that lets entries of pending go, changes none of their labels, and
\* posts a ready record at most of one that it lets go.
LEMMA OnceMoves ==
  ASSUME TypeOK, Once, UNCHANGED <<ready, arrivals>>,
         NEW f \in [DOMAIN pending' -> DOMAIN pending],
         \A n \in DOMAIN pending' : Same(pending'[n], pending[f[n]]),
         \A m, n \in DOMAIN pending' : f[m] = f[n] => m = n,
         port' = port \/ \E m \in Message :
           /\ port' = Append(port, m)
           /\ IsReady(m) => \E i \in DOMAIN pending :
                              Same(m, pending[i]) /\ \A n \in DOMAIN pending' : f[n] # i
  PROVE  Once'
<1>1. \A i \in DOMAIN pending' :
        /\ pending'[i].nth <= arrivals'[pending'[i].cam]
        /\ \A j \in DOMAIN pending' : Same(pending'[i], pending'[j]) => i = j
  BY DEF Once, Same
<1>2. \A x : (\A i \in DOMAIN pending : ~Same(x, pending[i])) => \A n \in DOMAIN pending' : ~Same(x, pending'[n])
  BY DEF Same
<1>3. CASE port' = port
  BY <1>1, <1>2, <1>3 DEF Once
<1>4. CASE port' # port
  <2>1. PICK m \in Message :
           /\ port' = Append(port, m)
           /\ IsReady(m) => \E i \in DOMAIN pending :
                              Same(m, pending[i]) /\ \A n \in DOMAIN pending' : f[n] # i
    BY <1>4
  <2> DEFINE N == Len(port)
  <2>2. /\ N \in Nat /\ DOMAIN port = 1..N /\ DOMAIN port' = 1..N + 1
        /\ port'[N + 1] = m /\ \A k \in 1..N : port'[k] = port[k]
    <3>1. port \in Seq(Message)
      BY DEF TypeOK
    <3> QED
      BY <2>1, <3>1
  <2> HIDE DEF N
  <2>3. \A k \in DOMAIN port' : (k \in DOMAIN port /\ port'[k] = port[k]) \/ (k = N + 1 /\ port'[k] = m)
    <3>1. \A k \in 1..N + 1 : k \in 1..N \/ k = N + 1
      BY <2>2
    <3> QED
      BY <2>2, <3>1
  <2>4. CASE ~IsReady(m)
    <3>1. \A k \in DOMAIN port' : IsReady(port'[k]) => k \in DOMAIN port /\ port'[k] = port[k]
      BY <2>3, <2>4
    <3> QED
      BY <1>1, <1>2, <3>1 DEF Once
  <2>5. CASE IsReady(m)
    <3>1. PICK i \in DOMAIN pending : Same(m, pending[i]) /\ \A n \in DOMAIN pending' : f[n] # i
      BY <2>1, <2>5
    <3>2. m.nth <= arrivals'[m.cam]
      BY <3>1 DEF Once, Same
    <3>3. \A n \in DOMAIN pending' : ~Same(m, pending'[n])
      BY <3>1 DEF Once, Same
    <3>4. \A k \in DOMAIN port : IsReady(port[k]) => ~Same(port[k], m) /\ ~Same(m, port[k])
      BY <3>1 DEF Once, Same
    <3>5. \A k \in DOMAIN ready : ~Same(ready[k], m)
      BY <3>1 DEF Once, Same
    <3>6. \A k \in DOMAIN port' : IsReady(port'[k]) =>
            /\ port'[k].nth <= arrivals'[port'[k].cam]
            /\ \A j \in DOMAIN pending' : ~Same(port'[k], pending'[j])
            /\ \A j \in DOMAIN port' : IsReady(port'[j]) /\ Same(port'[k], port'[j]) => k = j
      <4> SUFFICES ASSUME NEW k \in DOMAIN port', IsReady(port'[k])
                   PROVE  /\ port'[k].nth <= arrivals'[port'[k].cam]
                          /\ \A j \in DOMAIN pending' : ~Same(port'[k], pending'[j])
                          /\ \A j \in DOMAIN port' : IsReady(port'[j]) /\ Same(port'[k], port'[j]) => k = j
        OBVIOUS
      <4>1. CASE k \in DOMAIN port /\ port'[k] = port[k]
        <5>1. \A j \in DOMAIN port' : IsReady(port'[j]) /\ Same(port'[k], port'[j]) => k = j
          BY <2>3, <3>4, <4>1 DEF Once
        <5>2. port'[k].nth <= arrivals'[port'[k].cam]
          BY <4>1 DEF Once
        <5>3. \A j \in DOMAIN pending : ~Same(port[k], pending[j])
          BY <4>1 DEF Once
        <5> QED
          BY <1>2, <4>1, <5>1, <5>2, <5>3
      <4>2. CASE k = N + 1 /\ port'[k] = m
        BY <2>3, <3>2, <3>3, <3>4, <4>2
      <4> QED
        BY <2>3, <4>1, <4>2
    <3>7. \A k \in DOMAIN ready' :
            /\ ready'[k].nth <= arrivals'[ready'[k].cam]
            /\ \A j \in DOMAIN pending' : ~Same(ready'[k], pending'[j])
            /\ \A j \in DOMAIN port' : IsReady(port'[j]) => ~Same(ready'[k], port'[j])
            /\ \A j \in DOMAIN ready' : Same(ready'[k], ready'[j]) => k = j
      <4> SUFFICES ASSUME NEW k \in DOMAIN ready
                   PROVE  /\ ready[k].nth <= arrivals[ready[k].cam]
                          /\ \A j \in DOMAIN pending' : ~Same(ready[k], pending'[j])
                          /\ \A j \in DOMAIN port' : IsReady(port'[j]) => ~Same(ready[k], port'[j])
                          /\ \A j \in DOMAIN ready : Same(ready[k], ready[j]) => k = j
        OBVIOUS
      <4>1. \A j \in DOMAIN port' : IsReady(port'[j]) => ~Same(ready[k], port'[j])
        BY <2>3, <3>5 DEF Once
      <4>2. \A j \in DOMAIN pending : ~Same(ready[k], pending[j])
        BY DEF Once
      <4> QED
        BY <1>2, <4>1, <4>2 DEF Once
    <3> QED
      BY <1>1, <3>6, <3>7 DEF Once
  <2> QED
    BY <2>4, <2>5
<1> QED
  BY <1>3, <1>4

LEMMA OnceInit == Init => Once
<1> SUFFICES ASSUME Init PROVE Once
  OBVIOUS
<1>0. TypeOK /\ ready = <<>>
  BY InitType DEF Init
<1>1. CASE Created
  <2>1. PICK ps \in Seq(present) :
          /\ \A i, j \in DOMAIN ps : ps[i] = ps[j] => i = j
          /\ pending = [i \in DOMAIN ps |-> arrival(ps[i], 1)]
          /\ port = [i \in DOMAIN ps |-> Update(ps[i], 1, build(ps[i]))]
          /\ arrivals = [p \in Ports |-> IF p \in Range(ps) THEN 1 ELSE 0]
    BY <1>1, CreatedFacts
  <2>2. DOMAIN pending = DOMAIN ps /\ DOMAIN port = DOMAIN ps
    BY <2>1
  <2>3. ASSUME NEW i \in DOMAIN ps
        PROVE  /\ ps[i] \in Ports /\ arrivals[ps[i]] = 1
               /\ pending[i].cam = ps[i] /\ pending[i].nth = 1 /\ ~IsReady(port[i])
    <3>1. ps[i] \in present /\ ps[i] \in Ports
      BY DEF present
    <3>2. build(ps[i]) \in Readiness /\ build(ps[i]) # "kL3Ready"
      BY <1>0, <3>1, Reading
    <3>3. 1 \in Nat
      OBVIOUS
    <3>4. arrival(ps[i], 1).cam = ps[i] /\ arrival(ps[i], 1).nth = 1
      BY <1>0, <3>1, <3>3, Arrivals
    <3>5. ~IsReady(Update(ps[i], 1, build(ps[i])))
      BY <3>1, <3>2, <3>3, Messages DEF IsReady
    <3>6. arrivals[ps[i]] = 1
      BY <2>1, <3>1 DEF Range
    <3> QED
      BY <2>1, <3>1, <3>4, <3>5, <3>6
  <2>4. \A i \in DOMAIN pending :
          /\ pending[i].nth <= arrivals[pending[i].cam]
          /\ \A j \in DOMAIN pending : Same(pending[i], pending[j]) => i = j
    <3>1. \A i, j \in DOMAIN ps : ps[i] = ps[j] => i = j
      BY <2>1
    <3> QED
      BY <2>2, <2>3, <3>1 DEF Same
  <2>5. DOMAIN ready = {}
    BY <1>0
  <2> QED
    BY <2>2, <2>3, <2>4, <2>5 DEF Once
<1>2. CASE Refused
  <2>1. DOMAIN ready = {} /\ DOMAIN pending = {} /\ DOMAIN port = {}
    BY <1>0, <1>2 DEF Refused
  <2> QED
    BY <2>1 DEF Once
<1> QED
  BY <1>1, <1>2 DEF Init

\* A camera that is found ready is let go as it is posted.
LEMMA OnceSettle ==
  ASSUME TypeOK, TypeOK', Settling, Once, Settle
  PROVE  Once'
<1> DEFINE i == Head(todo)
           e == pending[i]
           after == advance_readiness(e.cam, e.bound, TRUE)
           done  == settled(after) \/ abandoned(e)
           next  == [e EXCEPT !.age = aged(e), !.last = after,
                              !.bound = resolve_netdev(e.cam, e.bound)]
           m == Update(e.cam, e.nth, after)
           N == Len(pending)
<1>1. i \in 1..N /\ e \in Pending /\ after \in Readiness
  BY SettleAt DEF Settle
<1>2. /\ port' = port \/ port' = Append(port, m)
      /\ pending' = IF done THEN RemoveAt(pending, i) ELSE [pending EXCEPT ![i] = next]
      /\ UNCHANGED <<ready, arrivals>>
  BY DEF Settle, dartVars
<1>3. e.cam \in Ports /\ e.nth \in Nat
  BY <1>1 DEF Pending
<1>4. next.cam = e.cam /\ next.nth = e.nth
  BY <1>1 DEF Pending
<1>5. m \in Message /\ m.cam = e.cam /\ m.nth = e.nth /\ (IsReady(m) => after = "kL3Ready")
  <2> HIDE DEF e, after
  <2> QED
    BY <1>1, <1>3, Messages DEF IsReady
<1>6. after = "kL3Ready" => done
  BY DEF settled
<1>7. pending \in Seq(Pending) /\ N \in Nat /\ DOMAIN pending = 1..N
  BY DEF TypeOK
<1>8. Same(m, pending[i])
  BY <1>5 DEF Same
<1> HIDE DEF i, e, after, done, next, m, N
<1>9. CASE done
  <2> DEFINE f == [n \in 1..N - 1 |-> IF n < i THEN n ELSE n + 1]
  <2>1. /\ pending' \in Seq(Pending) /\ Len(pending') = N - 1
        /\ \A k \in 1..N - 1 : pending'[k] = IF k < i THEN pending[k] ELSE pending[k + 1]
    BY <1>1, <1>2, <1>7, <1>9, RemoveAtFacts DEF N
  <2>2. DOMAIN pending' = 1..N - 1
    BY <2>1
  <2>3. f \in [1..N - 1 -> 1..N]
    BY <1>1, <1>7
  <2>4. /\ \A n \in 1..N - 1 : Same(pending'[n], pending[f[n]]) /\ f[n] # i
        /\ \A k, n \in 1..N - 1 : f[k] = f[n] => k = n
    BY <1>1, <1>7, <2>1 DEF Same
  <2> HIDE DEF f
  <2>5. IsReady(m) => \E k \in DOMAIN pending : Same(m, pending[k]) /\ \A n \in DOMAIN pending' : f[n] # k
    BY <1>1, <1>7, <1>8, <2>2, <2>4
  <2> QED
    <3>1. port' = port \/ \E k \in Message :
            /\ port' = Append(port, k)
            /\ IsReady(k) => \E l \in DOMAIN pending :
                               Same(k, pending[l]) /\ \A n \in DOMAIN pending' : f[n] # l
      BY <1>2, <1>5, <2>5
    <3>2. /\ f \in [DOMAIN pending' -> DOMAIN pending]
          /\ \A n \in DOMAIN pending' : Same(pending'[n], pending[f[n]])
          /\ \A k, n \in DOMAIN pending' : f[k] = f[n] => k = n
      BY <1>7, <2>2, <2>3, <2>4
    <3> QED
      BY <1>2, <3>1, <3>2, OnceMoves
<1>10. CASE ~done
  <2> DEFINE f == [n \in 1..N |-> n]
  <2>1. pending' = [pending EXCEPT ![i] = next] /\ DOMAIN pending' = 1..N
    BY <1>2, <1>7, <1>10
  <2>2. f \in [1..N -> 1..N] /\ (\A k, n \in 1..N : f[k] = f[n] => k = n)
    OBVIOUS
  <2>3. \A n \in 1..N : Same(pending'[n], pending[f[n]])
    BY <1>1, <1>4, <1>7, <2>1 DEF Same, e
  <2> HIDE DEF f
  <2>4. port' = port \/ \E k \in Message : port' = Append(port, k) /\ ~IsReady(k)
    BY <1>2, <1>5, <1>6, <1>10
  <2>5. /\ f \in [DOMAIN pending' -> DOMAIN pending]
        /\ \A n \in DOMAIN pending' : Same(pending'[n], pending[f[n]])
        /\ \A k, n \in DOMAIN pending' : f[k] = f[n] => k = n
    BY <1>7, <2>1, <2>2, <2>3
  <2> QED
    BY <1>2, <2>4, <2>5, OnceMoves
<1> QED
  BY <1>9, <1>10

\* An arrival that has not been before.
LEMMA OnceArrived ==
  ASSUME TypeOK, TypeOK', Once, NEW p \in Ports, Arrived(p), UNCHANGED ready
  PROVE  Once'
<1> DEFINE n == arrivals'[p]
           a == arrival(p, n)
           m == Update(p, n, build(p))
           N == Len(pending)
           M == Len(port)
<1>1. arrivals[p] \in Nat /\ n = arrivals[p] + 1 /\ n \in Nat
  BY DEF Arrived, TypeOK
<1>2. \A q \in Ports : arrivals[q] \in Nat /\ arrivals'[q] \in Nat /\ arrivals[q] <= arrivals'[q]
  <2>1. arrivals' = [arrivals EXCEPT ![p] = @ + 1] /\ arrivals \in [Ports -> Nat]
    BY DEF Arrived, TypeOK
  <2> HIDE DEF n
  <2> QED
    BY <2>1
<1>3. a \in Pending /\ a.cam = p /\ a.nth = n
  BY <1>1, Arrivals
<1>4. m \in Message /\ ~IsReady(m)
  <2>1. build(p) \in Readiness /\ build(p) # "kL3Ready"
    BY Reading
  <2> HIDE DEF n
  <2> QED
    BY <1>1, <2>1, Messages DEF IsReady
<1>5. pending' = Append(pending, a) /\ port' = Append(port, m)
  BY DEF Arrived
<1>6. /\ pending \in Seq(Pending) /\ port \in Seq(Message)
      /\ ready \in Seq([cam : Ports, nth : Nat])
  BY DEF TypeOK
<1> HIDE DEF n, a, m
<1>7. /\ N \in Nat /\ DOMAIN pending = 1..N /\ DOMAIN pending' = 1..N + 1
      /\ pending'[N + 1] = a /\ \A i \in 1..N : pending'[i] = pending[i] /\ pending[i] \in Pending
  BY <1>3, <1>5, <1>6
<1>8. /\ M \in Nat /\ DOMAIN port = 1..M /\ DOMAIN port' = 1..M + 1
      /\ port'[M + 1] = m /\ \A i \in 1..M : port'[i] = port[i] /\ port[i] \in Message
  BY <1>4, <1>5, <1>6
<1>9. \A i \in DOMAIN ready : ready[i].cam \in Ports /\ ready[i].nth \in Nat
  <2> DEFINE Arrival == [cam : Ports, nth : Nat]
  <2>1. \A i \in DOMAIN ready : ready[i] \in Arrival
    <3> HIDE DEF Arrival
    <3>1. ready \in Seq(Arrival)
      BY <1>6 DEF Arrival
    <3> QED
      BY <3>1
  <2> QED
    BY <2>1
<1> HIDE DEF N, M
<1>10. \A x : x.cam \in Ports /\ x.nth \in Nat /\ x.nth <= arrivals[x.cam] =>
                x.nth <= arrivals'[x.cam] /\ ~Same(x, a) /\ ~Same(a, x)
  BY <1>1, <1>2, <1>3 DEF Same
<1>11. \A i \in DOMAIN port' : IsReady(port'[i]) => i \in DOMAIN port /\ port'[i] = port[i]
  BY <1>4, <1>8
<1>12. \A i \in DOMAIN pending' : (i \in DOMAIN pending /\ pending'[i] = pending[i])
                                  \/ (i = N + 1 /\ pending'[i] = a)
  <2>1. \A i \in 1..N + 1 : i \in 1..N \/ i = N + 1
    BY <1>7
  <2> QED
    BY <1>7, <2>1
<1>13. \A i \in DOMAIN pending : pending[i].cam \in Ports /\ pending[i].nth \in Nat
  BY <1>7 DEF Pending
<1>14. \A i \in DOMAIN port : IsReady(port[i]) => port[i].cam \in Ports /\ port[i].nth \in Nat
  BY <1>8, Messages DEF IsReady
<1>15. \A i \in DOMAIN pending' :
        /\ pending'[i].nth <= arrivals'[pending'[i].cam]
        /\ \A j \in DOMAIN pending' : Same(pending'[i], pending'[j]) => i = j
  <2>1. \A i \in DOMAIN pending : /\ pending[i].nth <= arrivals'[pending[i].cam]
                                  /\ ~Same(pending[i], a) /\ ~Same(a, pending[i])
    BY <1>10, <1>13 DEF Once
  <2>2. a.nth <= arrivals'[a.cam]
    BY <1>1, <1>3 DEF n
  <2> QED
    BY <1>12, <2>1, <2>2 DEF Once
<1>16. \A i \in DOMAIN port' : IsReady(port'[i]) =>
         /\ port'[i].nth <= arrivals'[port'[i].cam]
         /\ \A j \in DOMAIN pending' : ~Same(port'[i], pending'[j])
         /\ \A j \in DOMAIN port' : IsReady(port'[j]) /\ Same(port'[i], port'[j]) => i = j
  <2>1. \A i \in DOMAIN port : IsReady(port[i]) =>
          port[i].nth <= arrivals'[port[i].cam] /\ ~Same(port[i], a)
    BY <1>10, <1>14 DEF Once
  <2> QED
    BY <1>11, <1>12, <2>1 DEF Once
<1>17. \A i \in DOMAIN ready' :
         /\ ready'[i].nth <= arrivals'[ready'[i].cam]
         /\ \A j \in DOMAIN pending' : ~Same(ready'[i], pending'[j])
         /\ \A j \in DOMAIN port' : IsReady(port'[j]) => ~Same(ready'[i], port'[j])
         /\ \A j \in DOMAIN ready' : Same(ready'[i], ready'[j]) => i = j
  <2>1. \A i \in DOMAIN ready : ready[i].nth <= arrivals'[ready[i].cam] /\ ~Same(ready[i], a)
    BY <1>9, <1>10 DEF Once
  <2> QED
    BY <1>11, <1>12, <2>1 DEF Once
<1> QED
  BY <1>15, <1>16, <1>17 DEF Once

\* A ready record is taken, and its camera comes out, or is dropped.
LEMMA OnceOnMessage ==
  ASSUME TypeOK, Once, OnMessage
  PROVE  Once'
<1> DEFINE e == Head(port)
           x == [cam |-> e.cam, nth |-> e.nth]
           M == Len(port)
           R == Len(ready)
<1>1. port # <<>> /\ port' = Tail(port) /\ UNCHANGED <<pending, arrivals>>
  BY DEF OnMessage, workerVars, history
<1>2. ready' = ready \/ (IsReady(e) /\ ready' = Append(ready, x))
  <2>1. CASE e.kind = "kUpdate" /\ ready' = IF passes(e) THEN Append(ready, x) ELSE ready
    BY <2>1 DEF passes, IsReady
  <2> QED
    BY <2>1 DEF OnMessage
<1>3. port \in Seq(Message) /\ ready \in Seq([cam : Ports, nth : Nat])
  BY DEF TypeOK
<1>4. /\ M \in Nat \ {0} /\ DOMAIN port = 1..M /\ DOMAIN port' = 1..M - 1
      /\ e = port[1] /\ \A k \in 1..M - 1 : port'[k] = port[k + 1]
  BY <1>1, <1>3
<1>5. x.cam = e.cam /\ x.nth = e.nth
  OBVIOUS
<1> HIDE DEF e, x, M
<1>6. \A k \in DOMAIN port' : k + 1 \in DOMAIN port /\ k + 1 # 1 /\ port'[k] = port[k + 1] /\ k \in Nat
  BY <1>4
<1>7. \A k \in DOMAIN port' : IsReady(port'[k]) =>
        /\ port'[k].nth <= arrivals'[port'[k].cam]
        /\ \A j \in DOMAIN pending' : ~Same(port'[k], pending'[j])
        /\ \A j \in DOMAIN port' : IsReady(port'[j]) /\ Same(port'[k], port'[j]) => k = j
  <2> SUFFICES ASSUME NEW k \in DOMAIN port', IsReady(port'[k])
               PROVE  /\ port'[k].nth <= arrivals'[port'[k].cam]
                      /\ \A j \in DOMAIN pending' : ~Same(port'[k], pending'[j])
                      /\ \A j \in DOMAIN port' : IsReady(port'[j]) /\ Same(port'[k], port'[j]) => k = j
    OBVIOUS
  <2>1. k + 1 \in DOMAIN port /\ port'[k] = port[k + 1] /\ IsReady(port[k + 1])
    BY <1>6
  <2>2. ASSUME NEW j \in DOMAIN port', IsReady(port'[j]) /\ Same(port'[k], port'[j]) PROVE k = j
    <3>1. j + 1 \in DOMAIN port /\ port'[j] = port[j + 1]
      BY <1>6
    <3>2. k + 1 = j + 1
      BY <2>1, <2>2, <3>1 DEF Once
    <3> QED
      BY <1>6, <3>2
  <2> QED
    BY <1>1, <2>1, <2>2 DEF Once
<1>8. CASE ready' = ready
  <2>1. \A i \in DOMAIN ready, k \in DOMAIN port' : IsReady(port'[k]) => ~Same(ready[i], port'[k])
    BY <1>6 DEF Once
  <2> QED
    BY <1>1, <1>7, <1>8, <2>1 DEF Once
<1>9. CASE IsReady(e) /\ ready' = Append(ready, x)
  <2>0. x \in [cam : Ports, nth : Nat]
    <3>1. e \in Message
      BY <1>3, <1>4
    <3>2. e.cam \in Ports /\ e.nth \in Nat
      BY <1>9, <3>1, Messages DEF IsReady
    <3> QED
      BY <3>2 DEF x
  <2>1. /\ R \in Nat /\ DOMAIN ready = 1..R /\ DOMAIN ready' = 1..R + 1
        /\ ready'[R + 1] = x /\ \A i \in 1..R : ready'[i] = ready[i]
    BY <1>3, <1>9, <2>0
  <2> HIDE DEF R
  <2>2. \A i \in DOMAIN ready' : (i \in DOMAIN ready /\ ready'[i] = ready[i]) \/ (i = R + 1 /\ ready'[i] = x)
    <3>1. \A i \in 1..R + 1 : i \in 1..R \/ i = R + 1
      BY <2>1
    <3> QED
      BY <2>1, <3>1
  <2>3. 1 \in DOMAIN port /\ IsReady(port[1]) /\ port[1].cam = x.cam /\ port[1].nth = x.nth
    BY <1>4, <1>5, <1>9
  <2>4. x.nth <= arrivals'[x.cam] /\ \A j \in DOMAIN pending' : ~Same(x, pending'[j])
    BY <1>1, <2>3 DEF Once, Same
  <2>5. \A k \in DOMAIN port' : IsReady(port'[k]) => ~Same(x, port'[k])
    <3> SUFFICES ASSUME NEW k \in DOMAIN port', IsReady(port'[k]), Same(x, port'[k]) PROVE FALSE
      OBVIOUS
    <3>1. k + 1 \in DOMAIN port /\ k + 1 # 1 /\ port'[k] = port[k + 1]
      BY <1>6
    <3>2. Same(port[1], port[k + 1])
      BY <2>3, <3>1 DEF Same
    <3> QED
      BY <2>3, <3>1, <3>2 DEF Once
  <2>6. \A i \in DOMAIN ready : ~Same(ready[i], x) /\ ~Same(x, ready[i])
    BY <2>3 DEF Once, Same
  <2>7. \A i \in DOMAIN ready, k \in DOMAIN port' : IsReady(port'[k]) => ~Same(ready[i], port'[k])
    BY <1>6 DEF Once
  <2>8. \A i \in DOMAIN ready' :
          /\ ready'[i].nth <= arrivals'[ready'[i].cam]
          /\ \A j \in DOMAIN pending' : ~Same(ready'[i], pending'[j])
          /\ \A j \in DOMAIN port' : IsReady(port'[j]) => ~Same(ready'[i], port'[j])
          /\ \A j \in DOMAIN ready' : Same(ready'[i], ready'[j]) => i = j
    <3> SUFFICES ASSUME NEW i \in DOMAIN ready'
                 PROVE  /\ ready'[i].nth <= arrivals'[ready'[i].cam]
                        /\ \A j \in DOMAIN pending' : ~Same(ready'[i], pending'[j])
                        /\ \A j \in DOMAIN port' : IsReady(port'[j]) => ~Same(ready'[i], port'[j])
                        /\ \A j \in DOMAIN ready' : Same(ready'[i], ready'[j]) => i = j
      OBVIOUS
    <3>1. CASE i \in DOMAIN ready /\ ready'[i] = ready[i]
      <4>1. \A j \in DOMAIN ready' : Same(ready'[i], ready'[j]) => i = j
        BY <2>2, <2>6, <3>1 DEF Once
      <4>2. \A j \in DOMAIN port' : IsReady(port'[j]) => ~Same(ready'[i], port'[j])
        BY <2>7, <3>1
      <4> QED
        BY <1>1, <3>1, <4>1, <4>2 DEF Once
    <3>2. CASE i = R + 1 /\ ready'[i] = x
      <4>1. \A j \in DOMAIN ready' : Same(ready'[i], ready'[j]) => i = j
        BY <2>2, <2>6, <3>2
      <4> QED
        BY <2>4, <2>5, <3>2, <4>1
    <3> QED
      BY <2>2, <3>1, <3>2
  <2>9. \A i \in DOMAIN pending' :
          /\ pending'[i].nth <= arrivals'[pending'[i].cam]
          /\ \A j \in DOMAIN pending' : Same(pending'[i], pending'[j]) => i = j
    BY <1>1 DEF Once
  <2> QED
    BY <1>7, <2>8, <2>9 DEF Once
<1> QED
  BY <1>2, <1>8, <1>9

LEMMA OnceStep ==
  ASSUME TypeOK, TypeOK', Enumerating, Settling, Once, [Next]_usbVars
  PROVE  Once'
<1>0. port \in Seq(Message) /\ pending \in Seq(Pending)
  BY DEF TypeOK
<1>1. ASSUME UNCHANGED <<pending, ready, arrivals>>,
             port' = port \/ \E m \in Message : port' = Append(port, m) /\ ~IsReady(m)
      PROVE  Once'
  <2> DEFINE f == [n \in DOMAIN pending |-> n]
  <2>1. /\ f \in [DOMAIN pending' -> DOMAIN pending]
        /\ \A n \in DOMAIN pending' : Same(pending'[n], pending[f[n]])
        /\ \A m, n \in DOMAIN pending' : f[m] = f[n] => m = n
    BY <1>1 DEF Same
  <2> HIDE DEF f
  <2> QED
    BY <1>1, <2>1, OnceMoves
<1>2. CASE Start
  <2>1. UNCHANGED <<pending, ready, arrivals>> /\ port' = Append(port, Sentinel)
    BY <1>2 DEF Start, dartVars, history
  <2> QED
    BY <1>1, <2>1, Messages DEF IsReady
<1>3. CASE Top \/ PumpEnds \/ Rescan \/ Close \/ UNCHANGED usbVars
  <2>1. UNCHANGED <<pending, ready, arrivals, port>>
    BY <1>3 DEF Top, PumpEnds, Rescan, Close, usbVars, workerVars, dartVars, history
  <2> QED
    BY <1>1, <2>1
<1>4. CASE Pump
  <2>1. PICK c \in Ports : c = Head(hotplug).cam
    <3>1. Head(hotplug) \in Event
      BY <1>4 DEF Pump, TypeOK
    <3> QED
      BY <3>1 DEF Event
  <2>2. (Arrived(c) \/ Departed(c)) /\ UNCHANGED ready
    BY <1>4, <2>1 DEF Pump, dartVars
  <2>3. CASE Arrived(c)
    BY <2>2, <2>3, OnceArrived
  <2>4. CASE Departed(c)
    <3>1. pending' = forget(c) /\ port' = Append(port, Left(c)) /\ UNCHANGED arrivals
      BY <2>4 DEF Departed, history
    <3>2. Left(c) \in Message /\ ~IsReady(Left(c))
      BY Messages DEF IsReady
    <3>3. PICK f \in [DOMAIN pending' -> staying(c)] :
            /\ \A n \in DOMAIN pending' : pending'[n] = pending[f[n]]
            /\ \A m, n \in DOMAIN pending' : f[m] = f[n] => m = n
      BY <3>1, ForgetFacts
    <3>4. f \in [DOMAIN pending' -> DOMAIN pending]
      <4>1. staying(c) \subseteq DOMAIN pending
        BY DEF staying
      <4> QED
        BY <4>1
    <3>5. \A n \in DOMAIN pending' : Same(pending'[n], pending[f[n]])
      BY <3>3 DEF Same
    <3> QED
      BY <2>2, <3>1, <3>2, <3>3, <3>4, <3>5, OnceMoves
  <2> QED
    BY <2>2, <2>3, <2>4
<1>5. CASE Enumerate
  <2> DEFINE c == Head(todo)
             m == Update(c, arrivals[c], build(c))
  <2>1. c \in Ports /\ build(c) \in Readiness /\ build(c) # "kL3Ready"
    BY <1>5, EnumerateAt, Reading DEF Enumerate
  <2>2. port' = Append(port, m) /\ UNCHANGED <<pending, ready, arrivals>>
    BY <1>5 DEF Enumerate, dartVars
  <2>3. arrivals[c] \in Nat
    BY <2>1 DEF TypeOK
  <2>4. m \in Message /\ ~IsReady(m)
    BY <2>1, <2>3, Messages DEF IsReady
  <2> HIDE DEF m
  <2> QED
    BY <1>1, <2>2, <2>4
<1>6. CASE Settle
  BY <1>6, OnceSettle
<1>7. CASE OnMessage
  BY <1>7, OnceOnMessage
<1>8. CASE Joined
  <2>1. UNCHANGED <<pending, ready, arrivals>> /\ port' = <<>>
    BY <1>8 DEF Joined, workerVars, history
  <2>2. DOMAIN port' = {}
    BY <2>1
  <2> QED
    BY <2>1, <2>2 DEF Once
<1>9. ASSUME NEW c \in Restless, Plug(c) \/ Unplug(c) \/ Advance(c) \/ Lapse(c) PROVE Once'
  BY <1>1, <1>9, KernelMoves DEF workerVars, dartVars, history
<1> QED
  BY <1>2, <1>3, <1>4, <1>5, <1>6, <1>7, <1>8, <1>9 DEF Next, WorkerStep

-----------------------------------------------------------------------------
(* Before the sentinel. *)

\* A step that takes no message, and does not say that start() may complete.
LEMMA LookedMore ==
  ASSUME TypeOK, NEW s \in 1..Len(port) + 1, LookedAt(s),
         current' = current, pc' = "start" <=> pc = "start",
         \A p \in Ports : p \in present' /\ plugs'[p] = 1 => p \in present /\ plugs[p] = 1,
         port' = port \/ (pc # "start" /\ \E m \in Message : port' = Append(port, m))
  PROVE  Looked'
<1>1. port \in Seq(Message) /\ Len(port) \in Nat /\ DOMAIN port = 1..Len(port)
  BY DEF TypeOK
<1>2. \A p \in present' : p \in Ports
  BY DEF present
<1>3. CASE port' = port
  <2>1. LookedAt(s)'
    BY <1>2, <1>3 DEF LookedAt
  <2> QED
    BY <1>3, <2>1 DEF Looked
<1>4. CASE pc # "start" /\ \E m \in Message : port' = Append(port, m)
  <2>1. /\ Len(port') = Len(port) + 1 /\ DOMAIN port' = 1..Len(port) + 1
        /\ \A i \in 1..Len(port) : port'[i] = port[i]
    <3>1. PICK m \in Message : port' = Append(port, m)
      BY <1>4
    <3>2. /\ Len(Append(port, m)) = Len(port) + 1 /\ DOMAIN Append(port, m) = 1..Len(port) + 1
          /\ \A i \in 1..Len(port) : Append(port, m)[i] = port[i]
      BY <1>1
    <3> QED
      BY <3>1, <3>2
  <2>2. s <= Len(port) /\ port[s] = Sentinel /\ \A i \in DOMAIN port : i < s => port[i].kind = "kUpdate"
    BY <1>4 DEF LookedAt
  <2>3. s \in 1..Len(port') + 1 /\ s <= Len(port') /\ port'[s] = Sentinel
    BY <1>1, <2>1, <2>2
  <2>4. \A i \in DOMAIN port' : i < s => i \in DOMAIN port /\ port'[i] = port[i]
    BY <1>1, <2>1, <2>2
  <2>5. ASSUME NEW p \in present', plugs'[p] = 1 PROVE Reported(port', current'[p], p, s)
    <3>1. Reported(port, current[p], p, s)
      BY <1>2, <2>5 DEF LookedAt
    <3>2. \A i \in DOMAIN port : i \in DOMAIN port' /\ port'[i] = port[i]
      BY <1>1, <2>1
    <3> QED
      BY <3>1, <3>2 DEF Reported
  <2>6. pc' # "start"
    BY <1>4
  <2>7. LookedAt(s)'
    BY <2>2, <2>3, <2>4, <2>5, <2>6 DEF LookedAt
  <2> QED
    BY <2>3, <2>7 DEF Looked
<1> QED
  BY <1>3, <1>4

LEMMA LookedInit == Init => Looked
<1> SUFFICES ASSUME Init, ~closing PROVE \E s \in 1..Len(port) + 1 : LookedAt(s)
  BY DEF Looked
<1>0. Created /\ TypeOK
  BY InitType DEF Init, Refused
<1>1. PICK ps \in Seq(present) :
        /\ \A p \in present : \E i \in DOMAIN ps : ps[i] = p
        /\ port = [i \in DOMAIN ps |-> Update(ps[i], 1, build(ps[i]))]
  BY <1>0, CreatedFacts
<1>2. DOMAIN port = DOMAIN ps /\ DOMAIN port = 1..Len(port) /\ Len(port) \in Nat
  BY <1>0, <1>1 DEF TypeOK
<1>3. ASSUME NEW i \in DOMAIN ps PROVE port[i].kind = "kUpdate" /\ port[i].cam = ps[i]
  BY <1>1 DEF Update
<1> DEFINE s == Len(port) + 1
<1>4. \A i \in DOMAIN port : i < s
  BY <1>2
<1>5. s \in 1..Len(port) + 1 /\ pc = "start"
  BY <1>0, <1>2 DEF Created
<1>6. \A p \in present : Reported(port, current[p], p, s)
  <2> HIDE DEF s
  <2> QED
    BY <1>1, <1>2, <1>3, <1>4 DEF Reported
<1>7. LookedAt(s)
  BY <1>2, <1>3, <1>5, <1>6 DEF LookedAt
<1> QED
  BY <1>5, <1>7

\* The update at the head of the port gives its camera a stage.
LEMMA LookedOnMessage ==
  ASSUME TypeOK, NEW s \in 1..Len(port) + 1, LookedAt(s), OnMessage, ~started'
  PROVE  Looked'
<1> DEFINE e == Head(port)
           N == Len(port)
<1>1. port # <<>> /\ port' = Tail(port) /\ UNCHANGED <<pc, kernel, plugs>>
  BY DEF OnMessage, workerVars, kernelVars
<1>2. /\ port \in Seq(Message) /\ N \in Nat \ {0} /\ DOMAIN port = 1..N /\ e = port[1]
      /\ port' \in Seq(Message) /\ Len(port') = N - 1 /\ DOMAIN port' = 1..N - 1
      /\ \A i \in 1..N - 1 : port'[i] = port[i + 1]
  BY <1>1 DEF TypeOK
<1>3. e.kind # "kSentinel"
  BY DEF OnMessage
<1>4. s # 1
  <2>1. pc = "start" => s = N + 1
    BY DEF LookedAt
  <2>2. pc # "start" => port[s] = Sentinel
    BY DEF LookedAt
  <2> QED
    BY <1>2, <1>3, <2>1, <2>2, Messages
<1>5. 1 < s /\ s \in Nat /\ s <= N + 1 /\ 1 \in DOMAIN port
  BY <1>2, <1>4
<1>6. e.kind = "kUpdate"
  BY <1>2, <1>5 DEF LookedAt
<1>7. current' = [current EXCEPT ![e.cam] = e.readiness]
  BY <1>6 DEF OnMessage
<1>8. e \in Message /\ e.cam \in Ports /\ e.readiness \in Readiness
  BY <1>2, <1>5, <1>6, Messages
<1> HIDE DEF e, N
<1>9. /\ \A p \in Ports : current[p] # Nowhere => current'[p] # Nowhere
      /\ current'[e.cam] # Nowhere
  <2>1. e.readiness # Nowhere
    BY <1>8, NowhereNotReadiness
  <2> QED
    BY <1>7, <1>8, <2>1 DEF TypeOK
<1>10. s - 1 \in 1..Len(port') + 1
  BY <1>2, <1>5
<1>11. IF pc = "start" THEN s - 1 = Len(port') + 1 ELSE s - 1 <= Len(port') /\ port'[s - 1] = Sentinel
  <2>1. CASE pc = "start"
    <3>1. s = N + 1
      BY <2>1 DEF LookedAt, N
    <3> QED
      BY <1>2, <2>1, <3>1
  <2>2. CASE pc # "start"
    <3>1. s <= N /\ port[s] = Sentinel
      BY <2>2 DEF LookedAt, N
    <3>2. s - 1 \in 1..N - 1 /\ (s - 1) + 1 = s
      BY <1>2, <1>5, <3>1
    <3> QED
      BY <1>2, <2>2, <3>1, <3>2
  <2> QED
    BY <2>1, <2>2
<1>12. ASSUME NEW i \in DOMAIN port', i < s - 1 PROVE port'[i].kind = "kUpdate"
  <2>1. i + 1 \in DOMAIN port /\ i + 1 < s /\ port'[i] = port[i + 1]
    BY <1>2, <1>5, <1>12
  <2> QED
    BY <2>1 DEF LookedAt
<1>13. ASSUME NEW p \in present', plugs'[p] = 1 PROVE Reported(port', current'[p], p, s - 1)
  <2>1. p \in present /\ plugs[p] = 1 /\ p \in Ports
    BY <1>1, <1>13 DEF present
  <2>2. Reported(port, current[p], p, s)
    BY <2>1 DEF LookedAt
  <2>3. CASE current[p] # Nowhere
    BY <1>9, <2>1, <2>3 DEF Reported
  <2>4. ASSUME NEW i \in DOMAIN port, i < s, port[i].cam = p PROVE Reported(port', current'[p], p, s - 1)
    <3>1. CASE i = 1
      BY <1>2, <1>9, <2>4, <3>1 DEF Reported
    <3>2. CASE i # 1
      <4>1. i - 1 \in DOMAIN port' /\ i - 1 < s - 1 /\ (i - 1) + 1 = i
        BY <1>2, <1>5, <2>4, <3>2
      <4>2. port'[i - 1].cam = p
        BY <1>2, <2>4, <4>1
      <4> QED
        BY <4>1, <4>2 DEF Reported
    <3> QED
      BY <3>1, <3>2
  <2> QED
    BY <2>2, <2>3, <2>4 DEF Reported
<1>14. LookedAt(s - 1)'
  BY <1>1, <1>11, <1>12, <1>13 DEF LookedAt
<1> QED
  BY <1>10, <1>14 DEF Looked

LEMMA LookedStep ==
  ASSUME TypeOK, TypeOK', Enumerating, Settling, Looked, [Next]_usbVars
  PROVE  Looked'
<1> SUFFICES ASSUME ~started', ~closing' PROVE Looked'
  BY DEF Looked
<1>0. ~started /\ ~closing
  <2>1. WorkerStep \/ UNCHANGED usbVars => UNCHANGED <<started, closing>>
    BY DEF WorkerStep, Start, Top, Pump, PumpEnds, Enumerate, Settle, usbVars, dartVars
  <2>2. OnMessage => UNCHANGED closing /\ (UNCHANGED started \/ started')
    BY DEF OnMessage
  <2>3. Rescan \/ Close \/ Joined => UNCHANGED started /\ (UNCHANGED closing \/ closing')
    BY DEF Rescan, Close, Joined
  <2>4. \A p \in Restless : Plug(p) \/ Unplug(p) \/ Advance(p) \/ Lapse(p) => UNCHANGED <<started, closing>>
    BY DEF Plug, Unplug, Advance, Lapse, kernelStep, dartVars
  <2> QED
    BY <2>1, <2>2, <2>3, <2>4 DEF Next
<1>1. PICK s \in 1..Len(port) + 1 : LookedAt(s)
  BY <1>0 DEF Looked
<1>2. port \in Seq(Message) /\ Len(port) \in Nat /\ DOMAIN port = 1..Len(port)
  BY DEF TypeOK
<1>3. CASE Start
  <2>1. /\ pc = "start" /\ pc' = "top" /\ port' = Append(port, Sentinel)
        /\ UNCHANGED <<kernel, plugs, current>>
    BY <1>3 DEF Start, kernelVars, dartVars
  <2>2. /\ Len(port') = Len(port) + 1 /\ DOMAIN port' = 1..Len(port) + 1
        /\ port'[Len(port) + 1] = Sentinel
        /\ \A i \in 1..Len(port) : port'[i] = port[i]
    BY <1>2, <2>1, Messages
  <2>3. s = Len(port')
    BY <1>1, <2>1, <2>2 DEF LookedAt
  <2>4. s \in 1..Len(port') + 1 /\ s <= Len(port') /\ port'[s] = Sentinel
    BY <1>2, <2>2, <2>3
  <2>5. \A i \in DOMAIN port' : i < s => i \in DOMAIN port /\ port'[i] = port[i]
    BY <1>2, <2>2, <2>3
  <2>6. ASSUME NEW p \in present', plugs'[p] = 1 PROVE Reported(port', current'[p], p, s)
    <3>1. p \in present /\ plugs[p] = 1
      BY <2>1, <2>6 DEF present
    <3>2. Reported(port, current[p], p, s)
      BY <1>1, <3>1 DEF LookedAt
    <3>3. \A i \in DOMAIN port : i \in DOMAIN port' /\ port'[i] = port[i]
      BY <1>2, <2>2
    <3> QED
      BY <2>1, <3>2, <3>3 DEF Reported
  <2>7. \A i \in DOMAIN port' : i < s => port'[i].kind = "kUpdate"
    BY <1>1, <2>5 DEF LookedAt
  <2>8. LookedAt(s)'
    BY <2>1, <2>4, <2>6, <2>7 DEF LookedAt
  <2> QED
    BY <2>4, <2>8 DEF Looked
<1>4. CASE Top \/ PumpEnds \/ UNCHANGED usbVars
  <2>1. UNCHANGED <<port, current, kernel, plugs>> /\ (pc' = "start" <=> pc = "start")
    BY <1>4 DEF Top, PumpEnds, unlessDone, usbVars, workerVars, dartVars, kernelVars
  <2>2. present' = present
    BY <2>1 DEF present
  <2> QED
    BY <1>1, <2>1, <2>2, LookedMore
<1>5. CASE Pump
  <2>1. PICK c \in Ports : c = Head(hotplug).cam
    <3>1. Head(hotplug) \in Event
      BY <1>5 DEF Pump, TypeOK
    <3> QED
      BY <3>1 DEF Event
  <2>2. UNCHANGED <<current, plugs, pc>> /\ present' = present /\ pc # "start"
    BY <1>5 DEF Pump, dartVars, present
  <2>3. \E m \in Message : port' = Append(port, m)
    <3>1. CASE Arrived(c)
      <4>1. arrivals'[c] \in Nat /\ build(c) \in Readiness
        <5>1. build(c) \in Readiness
          BY Reading
        <5> QED
          BY <5>1 DEF TypeOK
      <4>2. Update(c, arrivals'[c], build(c)) \in Message
        BY <4>1, Messages
      <4> QED
        BY <3>1, <4>2 DEF Arrived
    <3>2. CASE Departed(c)
      BY <3>2, Messages DEF Departed
    <3> QED
      BY <1>5, <2>1, <3>1, <3>2 DEF Pump
  <2> QED
    BY <1>1, <2>2, <2>3, LookedMore
<1>6. CASE Enumerate
  <2> DEFINE c == Head(todo)
             m == Update(c, arrivals[c], build(c))
  <2>1. c \in Ports /\ build(c) \in Readiness /\ arrivals[c] \in Nat
    BY <1>6, EnumerateAt, Reading DEF Enumerate, TypeOK
  <2>2. m \in Message
    <3> HIDE DEF c
    <3> QED
      BY <2>1, Messages
  <2>3. /\ port' = Append(port, m) /\ UNCHANGED <<current, plugs>> /\ present' = present
        /\ pc # "start" /\ pc' # "start"
    BY <1>6 DEF Enumerate, unlessDone, dartVars, kernelVars, present
  <2> HIDE DEF m
  <2> QED
    BY <1>1, <2>2, <2>3, LookedMore
<1>7. CASE Settle
  <2>1. PICK c \in Ports, n \in Nat, after \in Readiness :
          port' = Append(port, Update(c, n, after)) \/ port' = port
    BY <1>7, SettleTurn
  <2>2. Update(c, n, after) \in Message
    BY Messages
  <2>3. /\ UNCHANGED <<current, plugs>> /\ present' = present /\ pc # "start" /\ pc' # "start"
    BY <1>7 DEF Settle, unlessDone, dartVars, kernelVars, present
  <2> QED
    BY <1>1, <2>1, <2>2, <2>3, LookedMore
<1>8. CASE OnMessage
  BY <1>1, <1>8, LookedOnMessage
<1>9. CASE Rescan \/ Close \/ Joined
  BY <1>0, <1>9 DEF Rescan, Close, Joined
<1>10. ASSUME NEW c \in Restless, Plug(c) \/ Unplug(c) \/ Advance(c) \/ Lapse(c) PROVE Looked'
  <2>1. UNCHANGED <<pc, port, current>>
    BY <1>10, KernelMoves DEF workerVars, dartVars
  <2>2. \A p \in Ports : p \in present' /\ plugs'[p] = 1 => p \in present /\ plugs[p] = 1
    BY <1>10, KernelMoves
  <2> QED
    BY <1>1, <2>1, <2>2, LookedMore
<1> QED
  BY <1>3, <1>4, <1>5, <1>6, <1>7, <1>8, <1>9, <1>10 DEF Next, WorkerStep

-----------------------------------------------------------------------------
(* What the specification promises. *)

LEMMA UsbInit == Init => UsbInv
<1> SUFFICES ASSUME Init PROVE UsbInv
  OBVIOUS
<1>1. TypeOK /\ Snapshot /\ Once /\ Looked
  BY InitType, SnapshotInit, OnceInit, LookedInit
<1>2. Numbered
  <2>1. plugs = [p \in Ports |-> 1] /\ upsets = 0
    BY DEF Init
  <2> QED
    BY <2>1 DEF Numbered
<1>3. pc # "enumerate" /\ pc # "settle"
  BY DEF Init, Created, Refused
<1>4. \A i \in DOMAIN pending : pending[i].last # "kL3Ready"
  <2>1. CASE Created
    <3>1. PICK ps \in Seq(present) : pending = [i \in DOMAIN ps |-> arrival(ps[i], 1)]
      BY <2>1, CreatedFacts
    <3>2. ASSUME NEW i \in DOMAIN ps PROVE arrival(ps[i], 1).last # "kL3Ready"
      <4>1. ps[i] \in Ports /\ 1 \in Nat
        BY DEF present
      <4> QED
        <5>1. arrival(ps[i], 1).last = build(ps[i])
          BY <1>1, <4>1, Arrivals
        <5>2. build(ps[i]) # "kL3Ready"
          BY <1>1, <4>1, Reading
        <5> QED
          BY <5>1, <5>2
    <3> QED
      BY <3>1, <3>2
  <2>2. CASE Refused
    BY <2>2 DEF Refused
  <2> QED
    BY <2>1, <2>2 DEF Init
<1> QED
  BY <1>1, <1>2, <1>3, <1>4 DEF UsbInv, Enumerating, Settling

LEMMA UsbStep == UsbInv /\ [Next]_usbVars => UsbInv'
<1> SUFFICES ASSUME UsbInv, [Next]_usbVars PROVE UsbInv'
  OBVIOUS
<1>1. TypeOK /\ Numbered /\ Snapshot /\ Enumerating /\ Settling /\ Once /\ Looked
  BY DEF UsbInv
<1>2. TypeOK'
  BY <1>1, TypeStep
<1> QED
  BY <1>1, <1>2, NumberedStep, SnapshotStep, EnumeratingStep, SettlingStep, OnceStep, LookedStep DEF UsbInv

LEMMA UsbInvariant == Spec => []UsbInv
BY UsbInit, UsbStep, PTL DEF Spec

\* Types: worker_loop(), pump() and GoProDiscovery keep every variable to the
\* values it is meant to have, the counter of a settling camera within its
\* budget included.
THEOREM UsbTypeCorrect == Spec => []TypeOK
<1>1. UsbInv => TypeOK
  BY DEF UsbInv
<1> QED
  BY <1>1, UsbInvariant, PTL

\* When every event and message has been delivered, cameras (discovery.dart)
\* holds the attached cameras and no other, however often they are replugged
\* and whatever the worker posts of them meanwhile.
THEOREM CamerasMatchAttachedHolds == Spec => []CamerasMatchAttached
<1>1. UsbInv => CamerasMatchAttached
  <2> SUFFICES ASSUME UsbInv, drained, NEW p \in Ports PROVE current[p] # Nowhere <=> p \in present
    BY DEF CamerasMatchAttached
  <2>1. hotplug = <<>> /\ port = <<>> /\ ~closing
    BY DEF drained
  <2>2. DOMAIN hotplug = {} /\ DOMAIN port = {}
    BY <2>1
  <2>3. InStep(p)
    BY <2>1, <2>2 DEF UsbInv, Snapshot, Awaits
  <2>4. \A V : Learns(port, current[p], p, V) => current[p] \in V
    BY <2>2 DEF Learns
  <2>5. seen[p] \in Readiness
    BY DEF UsbInv, TypeOK
  <2>6. p \in present => current[p] \in Readiness
    BY <2>3, <2>4, <2>5 DEF InStep
  <2>7. p \notin present => current[p] = Nowhere
    BY <2>3, <2>4 DEF InStep
  <2> QED
    BY <2>6, <2>7, NowhereNotReadiness
<1> QED
  BY <1>1, UsbInvariant, PTL

\* worker_loop() lets no camera go without a record of the stage it was last
\* seen at, and no rescan before or after takes that from Dart.
THEOREM TerminalStateLearntHolds == Spec => []TerminalStateLearnt
<1>1. UsbInv => TerminalStateLearnt
  <2> SUFFICES ASSUME UsbInv, drained, NEW p \in present \ settling PROVE current[p] = seen[p]
    BY DEF TerminalStateLearnt
  <2>1. hotplug = <<>> /\ port = <<>> /\ ~closing /\ p \in Ports
    BY DEF drained, present
  <2>2. DOMAIN hotplug = {} /\ DOMAIN port = {}
    BY <2>1
  <2>3. InStep(p)
    BY <2>1, <2>2 DEF UsbInv, Snapshot, Awaits
  <2>4. current[p] \in {seen[p]}
    BY <2>2, <2>3 DEF InStep, Learns
  <2> QED
    BY <2>4
<1> QED
  BY <1>1, UsbInvariant, PTL

\* Each arrival that libusb reports to the worker comes out of the ready
\* stream at most once: a settling camera is let go as it is found ready, and
\* neither on_arrived() nor enumerate() ever probes one.
THEOREM AtMostOncePerArrivalHolds == Spec => []AtMostOncePerArrival
<1>1. UsbInv => AtMostOncePerArrival
  BY DEF UsbInv, Once, Same, AtMostOncePerArrival, IsInjective
<1> QED
  BY <1>1, UsbInvariant, PTL

\* When start() completes, every camera that was there when it was called and
\* has not gone since is in the snapshot: the sentinel follows their updates.
THEOREM StartedMeansLookedHolds == Spec => StartedMeansLooked
<1> DEFINE A == ~started /\ started' => \A p \in present : plugs[p] = 1 => current'[p] # Nowhere
<1>1. UsbInv /\ [Next]_usbVars => [A]_usbVars
  <2> SUFFICES ASSUME UsbInv, [Next]_usbVars, ~started, started', NEW p \in present, plugs[p] = 1
               PROVE  current'[p] # Nowhere
    OBVIOUS
  <2>1. OnMessage
    BY DEF Next, WorkerStep, Start, Top, Pump, PumpEnds, Enumerate, Settle, Rescan, Close,
       Joined, Plug, Unplug, Advance, Lapse, kernelStep, usbVars, dartVars
  <2>2. port # <<>> /\ ~closing /\ Head(port).kind = "kSentinel" /\ current' = current
    BY <2>1 DEF OnMessage
  <2>3. PICK s \in 1..Len(port) + 1 : LookedAt(s)
    BY <2>2 DEF UsbInv, Looked
  <2>4. port \in Seq(Message) /\ Len(port) \in Nat \ {0} /\ DOMAIN port = 1..Len(port) /\ Head(port) = port[1]
    BY <2>2 DEF UsbInv, TypeOK
  <2>5. ~(1 < s)
    <3> SUFFICES ASSUME 1 < s PROVE FALSE
      OBVIOUS
    <3>1. port[1].kind = "kUpdate"
      BY <2>3, <2>4 DEF LookedAt
    <3> QED
      BY <2>2, <2>4, <3>1
  <2>6. s = 1
    BY <2>4, <2>5
  <2>7. Reported(port, current[p], p, 1)
    BY <2>3, <2>6 DEF LookedAt
  <2>8. ~\E i \in DOMAIN port : i < 1
    BY <2>4
  <2> QED
    BY <2>2, <2>7, <2>8 DEF Reported
<1> QED
  BY <1>1, UsbInvariant, PTL DEF Spec, StartedMeansLooked

=============================================================================
