--------------------------- MODULE BleSessionProofs ---------------------------
(***************************************************************************)
(* Proofs about CommandQueue, and about BleSession, which is built on it,  *)
(* for every set of commands, every assignment of ids and priorities, all  *)
(* timeouts and intervals, any messages and any depth of re-entrant calls. *)
(* The queue comes first.  The session only calls it as it allows, so what *)
(* is proved of the queue holds below the session; the gate follows what   *)
(* the camera said; and the keep-alive goes out in time.                   *)
(***************************************************************************)
EXTENDS BleSession, FiniteSetTheorems, SequenceTheorems, TLAPS

-----------------------------------------------------------------------------
(* Sequences. *)

\* Erasing one element keeps the others in order.
LEMMA WithoutProps ==
  ASSUME NEW S, NEW s \in Seq(S), NEW i \in DOMAIN s
  PROVE  /\ Without(s, i) \in Seq(S)
         /\ Len(Without(s, i)) = Len(s) - 1
         /\ \A j \in 1..(Len(s) - 1) :
              Without(s, i)[j] = IF j < i THEN s[j] ELSE s[j + 1]
<1> DEFINE a == SubSeq(s, 1, i - 1)
           b == SubSeq(s, i + 1, Len(s))
<1>1. Len(s) \in Nat /\ i \in 1..Len(s) /\ \A j \in 1..Len(s) : s[j] \in S
  BY LenProperties, ElementOfSeq
<1>2. /\ a \in Seq(S) /\ Len(a) = i - 1
      /\ \A j \in 1..(i - 1) : a[j] = s[j]
  <2>1. \A j \in 1..(i - 1) : s[j] \in S
    BY <1>1
  <2>2. /\ a \in Seq(S)
        /\ Len(a) = IF 1 <= i - 1 THEN (i - 1) - 1 + 1 ELSE 0
        /\ \A j \in 1..((i - 1) - 1 + 1) : a[j] = s[1 + j - 1]
    BY <1>1, <2>1, SubSeqProperties
  <2> QED BY <1>1, <2>2
<1>3. /\ b \in Seq(S) /\ Len(b) = Len(s) - i
      /\ \A j \in 1..(Len(s) - i) : b[j] = s[i + j]
  <2>1. \A j \in (i + 1)..Len(s) : s[j] \in S
    BY <1>1
  <2>2. /\ b \in Seq(S)
        /\ Len(b) = IF i + 1 <= Len(s) THEN Len(s) - (i + 1) + 1 ELSE 0
        /\ \A j \in 1..(Len(s) - (i + 1) + 1) : b[j] = s[(i + 1) + j - 1]
    BY <1>1, <2>1, SubSeqProperties
  <2> QED BY <1>1, <2>2
<1>4. /\ a \o b \in Seq(S)
      /\ Len(a \o b) = Len(a) + Len(b)
      /\ \A j \in 1..(Len(a) + Len(b)) :
           (a \o b)[j] = IF j <= Len(a) THEN a[j] ELSE b[j - Len(a)]
  BY <1>2, <1>3, ConcatProperties
<1> HIDE DEF a, b
<1>7. Len(a) + Len(b) = Len(s) - 1
  BY <1>1, <1>2, <1>3
<1>5. \A j \in 1..(Len(s) - 1) : (a \o b)[j] = IF j < i THEN s[j] ELSE s[j + 1]
  <2> TAKE j \in 1..(Len(s) - 1)
  <2>1. (a \o b)[j] = IF j <= Len(a) THEN a[j] ELSE b[j - Len(a)]
    BY <1>4, <1>7
  <2>2. CASE j < i
    BY <1>1, <1>2, <2>1, <2>2
  <2>3. CASE ~(j < i)
    <3>1. j - (i - 1) \in 1..(Len(s) - i)
      BY <1>1, <2>3
    <3>2. b[j - (i - 1)] = s[i + (j - (i - 1))]
      BY <1>3, <3>1
    <3>3. i + (j - (i - 1)) = j + 1
      BY <1>1
    <3> QED BY <1>1, <1>2, <2>1, <2>3, <3>2, <3>3
  <2> QED BY <2>2, <2>3
<1>6. Without(s, i) = a \o b
  BY DEF Without, a, b
<1> QED
  BY <1>4, <1>5, <1>6, <1>7

\* Every element that is left was at a position that the erasure moved.
LEMMA WithoutElement ==
  ASSUME NEW S, NEW s \in Seq(S), NEW i \in DOMAIN s,
         NEW j \in DOMAIN Without(s, i)
  PROVE  /\ j \in DOMAIN s
         /\ j >= i => j + 1 \in DOMAIN s
         /\ Without(s, i)[j] = IF j < i THEN s[j] ELSE s[j + 1]
<1>1. j \in 1..(Len(s) - 1) /\ Len(s) \in Nat /\ DOMAIN s = 1..Len(s)
  BY WithoutProps, LenProperties
<1>2. Without(s, i)[j] = IF j < i THEN s[j] ELSE s[j + 1]
  BY <1>1, WithoutProps
<1> QED
  BY <1>1, <1>2

\* Popping a frame leaves the frames below it.
LEMMA PopProps ==
  ASSUME NEW S, NEW s \in Seq(S), s # <<>>
  PROVE  /\ Pop(s) \in Seq(S)
         /\ Len(Pop(s)) = Len(s) - 1
         /\ \A k \in 1..(Len(s) - 1) : Pop(s)[k] = s[k]
         /\ Top(s) \in S
<1>1. Len(s) \in Nat /\ Len(s) >= 1 /\ \A k \in 1..Len(s) : s[k] \in S
  <2>1. Len(s) \in Nat \ {0}
    BY EmptySeq
  <2>2. \A n \in Nat \ {0} : n \in Nat /\ n >= 1
    OBVIOUS
  <2> QED BY <2>1, <2>2, ElementOfSeq
<1>2. /\ Pop(s) \in Seq(S)
      /\ Len(Pop(s)) = IF 1 <= Len(s) - 1 THEN (Len(s) - 1) - 1 + 1 ELSE 0
      /\ \A k \in 1..((Len(s) - 1) - 1 + 1) : Pop(s)[k] = s[1 + k - 1]
  <2>1. \A k \in 1..(Len(s) - 1) : s[k] \in S
    BY <1>1
  <2> QED BY <1>1, <2>1, SubSeqProperties DEF Pop
<1>3. ASSUME NEW k \in 1..(Len(s) - 1) PROVE Pop(s)[k] = s[k]
  <2>1. k \in 1..((Len(s) - 1) - 1 + 1) /\ 1 + k - 1 = k
    BY <1>1
  <2> QED BY <1>2, <2>1
<1>4. Len(Pop(s)) = Len(s) - 1
  <2>1. Len(Pop(s)) = IF 1 <= Len(s) - 1 THEN (Len(s) - 1) - 1 + 1 ELSE 0
    BY <1>2
  <2>2. Len(s) = 1 \/ 1 <= Len(s) - 1
    BY <1>1
  <2> QED BY <1>1, <2>1, <2>2
<1>5. Top(s) \in S
  BY <1>1 DEF Top
<1> QED
  BY <1>2, <1>3, <1>4, <1>5

\* Pushing two frames.
LEMMA PushTwo ==
  ASSUME NEW S, NEW s \in Seq(S), NEW f \in S, NEW g \in S
  PROVE  /\ s \o <<f, g>> \in Seq(S)
         /\ Len(s \o <<f, g>>) = Len(s) + 2
         /\ \A k \in 1..Len(s) : (s \o <<f, g>>)[k] = s[k]
         /\ (s \o <<f, g>>)[Len(s) + 1] = f
         /\ (s \o <<f, g>>)[Len(s) + 2] = g
<1> DEFINE t == <<f, g>>
<1>1. t \in Seq(S) /\ Len(t) = 2 /\ t[1] = f /\ t[2] = g
  OBVIOUS
<1>2. Len(s) \in Nat
  BY LenProperties
<1> HIDE DEF t
<1>3. /\ s \o t \in Seq(S)
      /\ Len(s \o t) = Len(s) + Len(t)
      /\ \A k \in 1..(Len(s) + Len(t)) :
           (s \o t)[k] = IF k <= Len(s) THEN s[k] ELSE t[k - Len(s)]
  BY <1>1, ConcatProperties
<1>4. /\ s \o t \in Seq(S)
      /\ Len(s \o t) = Len(s) + 2
      /\ \A k \in 1..Len(s) : (s \o t)[k] = s[k]
      /\ (s \o t)[Len(s) + 1] = f
      /\ (s \o t)[Len(s) + 2] = g
  BY <1>1, <1>2, <1>3
<1> QED
  BY <1>4 DEF t

-----------------------------------------------------------------------------
(* Type correctness. *)

LEMMA FrameTypes ==
  /\ PumpFrame \in Frame /\ UserFrame \in Frame
  /\ \A cs \in Seq(Cmds) : CollectFrame(cs) \in Frame
  /\ \A cs \in Seq(Cmds), o \in Outcome : CompleteFrame(cs, o) \in Frame
BY DEF Frame, PumpFrame, UserFrame, CollectFrame, CompleteFrame, Outcome

LEMMA AgeCapType == AgeCap \in Nat /\ AgeCap > 0
BY TimeoutAssumption DEF AgeCap

\* The ids and priorities of a sequence of commands.
LEMMA Elements ==
  ASSUME NEW s \in Seq(Cmds), NEW i \in DOMAIN s
  PROVE  s[i] \in Cmds
BY ElementOfSeq, LenProperties

LEMMA TypeStep == TypeOK /\ [Next]_vars => TypeOK'
<1> SUFFICES ASSUME TypeOK, [Next]_vars PROVE TypeOK'
  OBVIOUS
<1> USE DEF TypeOK
<1>f. /\ PumpFrame \in Frame /\ UserFrame \in Frame
      /\ \A cs \in Seq(Cmds) : CollectFrame(cs) \in Frame
      /\ \A cs \in Seq(Cmds), o \in Outcome : CompleteFrame(cs, o) \in Frame
  BY FrameTypes
<1>z. \A c \in Cmds : [age EXCEPT ![c] = 0] \in [Cmds -> 0..AgeCap]
  BY AgeCapType
<1>t. ASSUME stack # <<>>
      PROVE  /\ Top(stack) \in Frame /\ Pop(stack) \in Seq(Frame)
             /\ Top(stack).cmds \in Seq(Cmds)
  <2>1. Top(stack) \in Frame /\ Pop(stack) \in Seq(Frame)
    BY <1>t, PopProps
  <2> QED BY <2>1 DEF Frame
<1>1. ASSUME NEW c \in Cmds, Submit(c) PROVE TypeOK'
  <2>1. <<c>> \in Seq(Cmds)
    OBVIOUS
  <2>2. CASE duplicate(CmdId[c])
    <3>1. stack' = Append(stack, CompleteFrame(<<c>>, "kRejected")) /\ UNCHANGED queueVars
      BY <1>1, <2>2 DEF Submit, submit
    <3>2. CompleteFrame(<<c>>, "kRejected") \in Frame
      BY <1>f, <2>1 DEF Outcome
    <3> QED BY <3>1, <3>2, AppendProperties DEF queueVars
  <2>3. CASE ~duplicate(CmdId[c])
    <3>1. /\ pending' = IF CmdPrio[c] = "kKeepAlive" THEN <<c>> \o pending
                                                     ELSE Append(pending, c)
          /\ age' = [age EXCEPT ![c] = 0]
          /\ owed' = owed \cup {c}
          /\ stack' = Append(stack, PumpFrame)
          /\ UNCHANGED <<in_flight, ready>>
      BY <1>1, <2>3 DEF Submit, submit, queued_age
    <3>2. pending' \in Seq(Cmds)
      BY <2>1, <3>1, ConcatProperties, AppendProperties
    <3>3. stack' \in Seq(Frame)
      BY <3>1, <1>f, AppendProperties
    <3> QED BY <3>1, <3>2, <3>3, <1>z
  <2> QED BY <2>2, <2>3
<1>2. ASSUME NEW r \in BOOLEAN, SetReady(r) PROVE TypeOK'
  <2>1. stack' \in Seq(Frame)
    BY <1>2, <1>f, AppendProperties DEF SetReady, set_ready
  <2> QED BY <1>2, <2>1 DEF SetReady, set_ready
<1>3. ASSUME NEW id \in Ids, OnResponse(id) PROVE TypeOK'
  <2> PICK i \in DOMAIN in_flight :
        /\ in_flight' = Without(in_flight, i)
        /\ age' = [age EXCEPT ![in_flight[i]] = 0]
        /\ stack' = stack \o <<PumpFrame, CompleteFrame(<<in_flight[i]>>, "kResponded")>>
        /\ UNCHANGED <<pending, ready, owed>>
    BY <1>3 DEF OnResponse, on_response
  <2>1. in_flight[i] \in Cmds
    BY Elements
  <2>2. in_flight' \in Seq(Cmds)
    BY WithoutProps
  <2>3. CompleteFrame(<<in_flight[i]>>, "kResponded") \in Frame
    <3>1. <<in_flight[i]>> \in Seq(Cmds)
      BY <2>1
    <3> QED BY <3>1, <1>f DEF Outcome
  <2>4. stack' \in Seq(Frame)
    BY <2>3, <1>f, PushTwo
  <2> QED BY <1>z, <2>1, <2>2, <2>4
<1>4. CASE Tick
  <2>1. CollectFrame(<<>>) \in Frame
    BY <1>f, EmptySeq
  <2>2. stack' \in Seq(Frame)
    BY <1>4, <2>1, <1>f, PushTwo DEF Tick, tick
  <2> QED BY <1>4, <2>2 DEF Tick, tick, queueVars
<1>5. CASE CancelAll
  <2>1. in_flight \o pending \in Seq(Cmds)
    BY ConcatProperties
  <2>2. CompleteFrame(in_flight \o pending, "kCanceled") \in Frame
    BY <1>f, <2>1 DEF Outcome
  <2>3. stack' \in Seq(Frame)
    BY <1>5, <2>2, AppendProperties DEF CancelAll, cancel_all
  <2>4. age' \in [Cmds -> 0..AgeCap]
    BY <1>5, AgeCapType DEF CancelAll, cancel_all
  <2>5. pending' \in Seq(Cmds) /\ in_flight' \in Seq(Cmds)
    BY <1>5, EmptySeq DEF CancelAll, cancel_all
  <2> QED BY <1>5, <2>3, <2>4, <2>5 DEF CancelAll, cancel_all
<1>6. CASE PumpSend
  <2> PICK i \in DOMAIN pending :
        /\ pending' = Without(pending, i)
        /\ in_flight' = Append(in_flight, pending[i])
        /\ age' = [age EXCEPT ![pending[i]] = 0]
    BY <1>6 DEF PumpSend
  <2>1. pending[i] \in Cmds
    BY Elements
  <2>2. pending' \in Seq(Cmds) /\ in_flight' \in Seq(Cmds)
    BY <2>1, WithoutProps, AppendProperties
  <2>3. stack' \in Seq(Frame)
    BY <1>6, <1>f, AppendProperties DEF PumpSend
  <2> QED BY <1>6, <1>z, <2>1, <2>2, <2>3 DEF PumpSend
<1>7. CASE PumpDone
  BY <1>7, <1>t DEF PumpDone, OnTop, queueVars
<1>8. CASE CollectInFlight
  <2> PICK i \in DOMAIN in_flight :
        /\ in_flight' = Without(in_flight, i)
        /\ age' = [age EXCEPT ![in_flight[i]] = 0]
        /\ stack' = Append(Pop(stack), CollectFrame(Append(Top(stack).cmds, in_flight[i])))
    BY <1>8 DEF CollectInFlight
  <2>1. in_flight[i] \in Cmds /\ stack # <<>>
    BY <1>8, Elements DEF CollectInFlight, OnTop
  <2>2. in_flight' \in Seq(Cmds)
    BY WithoutProps
  <2>3. stack' \in Seq(Frame)
    <3>1. Append(Top(stack).cmds, in_flight[i]) \in Seq(Cmds)
      BY <1>t, <2>1, AppendProperties
    <3> QED BY <3>1, <1>f, <1>t, <2>1, AppendProperties
  <2> QED BY <1>8, <1>z, <2>1, <2>2, <2>3 DEF CollectInFlight
<1>9. CASE CollectPending
  <2> PICK i \in DOMAIN pending :
        /\ pending' = Without(pending, i)
        /\ age' = [age EXCEPT ![pending[i]] = 0]
        /\ stack' = Append(Pop(stack), CollectFrame(Append(Top(stack).cmds, pending[i])))
    BY <1>9 DEF CollectPending
  <2>1. pending[i] \in Cmds /\ stack # <<>>
    BY <1>9, Elements DEF CollectPending, OnTop
  <2>2. pending' \in Seq(Cmds)
    BY WithoutProps
  <2>3. stack' \in Seq(Frame)
    <3>1. Append(Top(stack).cmds, pending[i]) \in Seq(Cmds)
      BY <1>t, <2>1, AppendProperties
    <3> QED BY <3>1, <1>f, <1>t, <2>1, AppendProperties
  <2> QED BY <1>9, <1>z, <2>1, <2>2, <2>3 DEF CollectPending
<1>10. CASE CollectDone
  <2>1. stack' = Append(Pop(stack), CompleteFrame(Top(stack).cmds, "kTimedOut"))
        /\ stack # <<>> /\ UNCHANGED queueVars
    BY <1>10 DEF CollectDone, OnTop
  <2>2. CompleteFrame(Top(stack).cmds, "kTimedOut") \in Frame
    BY <1>f, <1>t, <2>1 DEF Outcome
  <2>3. stack' \in Seq(Frame)
    BY <1>t, <2>1, <2>2, AppendProperties
  <2> QED BY <2>1, <2>3 DEF queueVars
<1>11. CASE Complete
  <2> DEFINE f == Top(stack)
  <2>1. /\ stack # <<>> /\ f.fn = "complete" /\ f.cmds # <<>>
        /\ stack' = Pop(stack) \o <<CompleteFrame(Tail(f.cmds), f.outcome), UserFrame>>
        /\ owed' = IF f.outcome = "kRejected" THEN owed ELSE owed \ {Head(f.cmds)}
        /\ UNCHANGED <<pending, in_flight, ready, age>>
    BY <1>11 DEF Complete, OnTop
  <2>2. CompleteFrame(Tail(f.cmds), f.outcome) \in Frame
    <3>1. Tail(f.cmds) \in Seq(Cmds)
      BY <1>t, <2>1, HeadTailProperties
    <3>2. f.outcome \in Outcome \cup {"none"}
      BY <1>t, <2>1 DEF Frame
    <3> QED BY <3>1, <3>2 DEF Frame, CompleteFrame
  <2>3. stack' \in Seq(Frame)
    BY <1>f, <1>t, <2>1, <2>2, PushTwo
  <2> QED BY <2>1, <2>3
<1>12. CASE CompleteDone
  BY <1>12, <1>t DEF CompleteDone, OnTop, queueVars
<1>13. CASE Return
  BY <1>13, <1>t DEF Return, OnTop, queueVars
<1>14. CASE Elapse
  <2>1. age' \in [Cmds -> 0..AgeCap]
    BY <1>14, AgeCapType DEF Elapse
  <2> QED BY <1>14, <2>1 DEF Elapse
<1>15. CASE UNCHANGED vars
  BY <1>15 DEF vars
<1> QED
  BY <1>1, <1>2, <1>3, <1>4, <1>5, <1>6, <1>7, <1>8, <1>9, <1>10, <1>11, <1>12,
     <1>13, <1>14, <1>15 DEF Next, InnerStep

\* The queue's state keeps its types, in particular every frame on the call
\* stack is well formed and no age exceeds the larger timeout.
THEOREM TypeCorrect == Spec => []TypeOK
<1>1. Init => TypeOK
  <2> SUFFICES ASSUME Init PROVE TypeOK
    OBVIOUS
  <2>1. pending \in Seq(Cmds) /\ in_flight \in Seq(Cmds) /\ stack \in Seq(Frame)
    BY EmptySeq DEF Init
  <2>2. age \in [Cmds -> 0..AgeCap]
    BY AgeCapType DEF Init
  <2> QED BY <2>1, <2>2 DEF Init, TypeOK
<1> QED
  BY <1>1, TypeStep, PTL DEF Spec

-----------------------------------------------------------------------------
(* Single flight. *)

DistinctIds(s) == \A i, j \in DOMAIN s : CmdId[s[i]] = CmdId[s[j]] => i = j
IdIn(id, s)    == \E i \in DOMAIN s : CmdId[s[i]] = id

\* Erasing an element keeps the ids distinct, brings in no id and takes out
\* the id of the element erased.
LEMMA DistinctWithout ==
  ASSUME NEW s \in Seq(Cmds), NEW i \in DOMAIN s, DistinctIds(s)
  PROVE  /\ DistinctIds(Without(s, i))
         /\ \A id : IdIn(id, Without(s, i)) => IdIn(id, s) /\ id # CmdId[s[i]]
<1>1. Len(s) \in Nat /\ DOMAIN s = 1..Len(s)
  BY LenProperties
<1>2. ASSUME NEW j \in DOMAIN Without(s, i)
      PROVE  \E k \in DOMAIN s : /\ k # i /\ Without(s, i)[j] = s[k]
                                 /\ k = IF j < i THEN j ELSE j + 1
  <2>1. /\ j \in DOMAIN s /\ (j >= i => j + 1 \in DOMAIN s)
        /\ Without(s, i)[j] = IF j < i THEN s[j] ELSE s[j + 1]
    BY WithoutElement
  <2> QED BY <1>1, <2>1
<1>3. DistinctIds(Without(s, i))
  <2> SUFFICES ASSUME NEW j \in DOMAIN Without(s, i), NEW k \in DOMAIN Without(s, i),
                      CmdId[Without(s, i)[j]] = CmdId[Without(s, i)[k]]
               PROVE  j = k
    BY DEF DistinctIds
  <2>0. j \in DOMAIN s /\ k \in DOMAIN s
    BY WithoutElement
  <2>1. PICK m \in DOMAIN s : Without(s, i)[j] = s[m] /\ m = IF j < i THEN j ELSE j + 1
    BY <1>2
  <2>2. PICK n \in DOMAIN s : Without(s, i)[k] = s[n] /\ n = IF k < i THEN k ELSE k + 1
    BY <1>2
  <2>3. m = n
    BY <2>1, <2>2 DEF DistinctIds
  <2> QED BY <1>1, <2>0, <2>1, <2>2, <2>3
<1>4. ASSUME NEW id, IdIn(id, Without(s, i)) PROVE IdIn(id, s) /\ id # CmdId[s[i]]
  <2>1. PICK j \in DOMAIN Without(s, i) : CmdId[Without(s, i)[j]] = id
    BY <1>4 DEF IdIn
  <2>2. PICK k \in DOMAIN s : k # i /\ Without(s, i)[j] = s[k]
    BY <1>2
  <2> QED BY <2>1, <2>2 DEF IdIn, DistinctIds
<1> QED
  BY <1>3, <1>4

\* Adding an element with a new id, at either end.
LEMMA DistinctAdd ==
  ASSUME NEW s \in Seq(Cmds), NEW c \in Cmds, DistinctIds(s), ~IdIn(CmdId[c], s),
         NEW t, t = Append(s, c) \/ t = <<c>> \o s
  PROVE  /\ DistinctIds(t)
         /\ \A id : IdIn(id, t) => IdIn(id, s) \/ id = CmdId[c]
<1>1. Len(s) \in Nat /\ DOMAIN s = 1..Len(s)
  BY LenProperties
<1>2. CASE t = Append(s, c)
  <2>1. DOMAIN t = 1..(Len(s) + 1) /\ t[Len(s) + 1] = c /\ \A k \in 1..Len(s) : t[k] = s[k]
    BY <1>2, AppendProperties, LenProperties
  <2>2. \A k \in DOMAIN t : (k \in DOMAIN s /\ t[k] = s[k]) \/ (k = Len(s) + 1 /\ t[k] = c)
    BY <1>1, <2>1
  <2> QED BY <2>2 DEF DistinctIds, IdIn
<1>3. CASE t = <<c>> \o s
  <2>1. <<c>> \in Seq(Cmds) /\ Len(<<c>>) = 1 /\ <<c>>[1] = c
    OBVIOUS
  <2>2. /\ t \in Seq(Cmds) /\ Len(t) = 1 + Len(s)
        /\ \A k \in 1..(1 + Len(s)) : t[k] = IF k <= 1 THEN <<c>>[k] ELSE s[k - 1]
    BY <1>3, <2>1, ConcatProperties
  <2>3. DOMAIN t = 1..(1 + Len(s))
    BY <2>2, LenProperties
  <2>4. \A k \in DOMAIN t : \/ k - 1 \in DOMAIN s /\ k \in Nat /\ t[k] = s[k - 1]
                            \/ k = 1 /\ t[k] = c
    BY <1>1, <2>1, <2>2, <2>3
  <2>5. ASSUME NEW j \in DOMAIN t, NEW k \in DOMAIN t, CmdId[t[j]] = CmdId[t[k]]
        PROVE  j = k
    <3>1. CASE j - 1 \in DOMAIN s /\ k - 1 \in DOMAIN s /\ t[j] = s[j - 1] /\ t[k] = s[k - 1]
      <4>1. j - 1 = k - 1
        BY <2>5, <3>1 DEF DistinctIds
      <4> QED BY <1>1, <2>3, <4>1
    <3>2. CASE (j = 1 /\ t[j] = c) \/ (k = 1 /\ t[k] = c)
      BY <2>4, <2>5, <3>2 DEF IdIn
    <3> QED BY <2>4, <3>1, <3>2
  <2> QED BY <2>4, <2>5 DEF DistinctIds, IdIn
<1> QED
  BY <1>2, <1>3

LEMMA SingleFlightForm ==
  SingleFlight <=> /\ DistinctIds(pending) /\ DistinctIds(in_flight)
                   /\ \A i \in DOMAIN pending : ~IdIn(CmdId[pending[i]], in_flight)
BY DEF SingleFlight, DistinctIds, IdIn, is_in_flight

LEMMA SingleFlightStep == TypeOK /\ SingleFlight /\ [Next]_vars => SingleFlight'
<1> SUFFICES ASSUME TypeOK, SingleFlight, [Next]_vars PROVE SingleFlight'
  OBVIOUS
<1> USE DEF TypeOK
<1>a. /\ DistinctIds(pending) /\ DistinctIds(in_flight)
      /\ \A id : IdIn(id, pending) => ~IdIn(id, in_flight)
  BY SingleFlightForm DEF IdIn
\* It is enough that both containers keep distinct ids and stay apart.
<1>b. ASSUME DistinctIds(pending'), DistinctIds(in_flight'),
             \A id : IdIn(id, pending') => ~IdIn(id, in_flight')
      PROVE  SingleFlight'
  BY <1>b DEF SingleFlight, DistinctIds, IdIn, is_in_flight
<1>u. ASSUME UNCHANGED <<pending, in_flight>> PROVE SingleFlight'
  BY <1>u, <1>a, <1>b
<1>1. ASSUME NEW c \in Cmds, Submit(c) PROVE SingleFlight'
  <2>1. CASE duplicate(CmdId[c])
    BY <1>1, <1>u, <2>1 DEF Submit, submit, queueVars
  <2>2. CASE ~duplicate(CmdId[c])
    <3>1. ~IdIn(CmdId[c], pending) /\ ~IdIn(CmdId[c], in_flight)
      BY <2>2 DEF duplicate, is_in_flight, is_pending, IdIn
    <3>2. in_flight' = in_flight /\ (pending' = Append(pending, c) \/ pending' = <<c>> \o pending)
      BY <1>1, <2>2 DEF Submit, submit
    <3>3. /\ DistinctIds(pending')
          /\ \A id : IdIn(id, pending') => IdIn(id, pending) \/ id = CmdId[c]
      BY <1>a, <3>1, <3>2, DistinctAdd
    <3> QED BY <1>a, <1>b, <3>1, <3>2, <3>3
  <2> QED BY <2>1, <2>2
<1>2. ASSUME NEW i \in DOMAIN in_flight, in_flight' = Without(in_flight, i), pending' = pending
      PROVE  SingleFlight'
  <2>1. /\ DistinctIds(in_flight')
        /\ \A id : IdIn(id, in_flight') => IdIn(id, in_flight)
    BY <1>2, <1>a, DistinctWithout
  <2> QED BY <1>2, <1>a, <1>b, <2>1
<1>3. ASSUME NEW id \in Ids, OnResponse(id) PROVE SingleFlight'
  BY <1>2, <1>3 DEF OnResponse, on_response
<1>4. CASE CancelAll
  <2>1. pending' = <<>> /\ in_flight' = <<>>
    BY <1>4 DEF CancelAll, cancel_all
  <2> QED BY <1>b, <2>1 DEF DistinctIds, IdIn
<1>5. CASE PumpSend
  <2>1. PICK i \in DOMAIN pending :
          /\ pending' = Without(pending, i)
          /\ in_flight' = Append(in_flight, pending[i])
    BY <1>5 DEF PumpSend
  <2>2. pending[i] \in Cmds /\ IdIn(CmdId[pending[i]], pending)
    BY Elements DEF IdIn
  <2>3. /\ DistinctIds(pending')
        /\ \A id : IdIn(id, pending') => IdIn(id, pending) /\ id # CmdId[pending[i]]
    BY <1>a, <2>1, DistinctWithout
  <2>4. /\ DistinctIds(in_flight')
        /\ \A id : IdIn(id, in_flight') => IdIn(id, in_flight) \/ id = CmdId[pending[i]]
    BY <1>a, <2>1, <2>2, DistinctAdd
  <2> QED BY <1>a, <1>b, <2>3, <2>4
<1>6. CASE CollectInFlight
  BY <1>2, <1>6 DEF CollectInFlight
<1>7. CASE CollectPending
  <2>1. PICK i \in DOMAIN pending : pending' = Without(pending, i) /\ in_flight' = in_flight
    BY <1>7 DEF CollectPending
  <2>2. /\ DistinctIds(pending')
        /\ \A id : IdIn(id, pending') => IdIn(id, pending)
    BY <1>a, <2>1, DistinctWithout
  <2> QED BY <1>a, <1>b, <2>1, <2>2
<1>8. ASSUME NEW r \in BOOLEAN, SetReady(r) PROVE SingleFlight'
  BY <1>8, <1>u DEF SetReady, set_ready
<1>9. CASE Tick \/ PumpDone \/ CollectDone \/ Complete \/ CompleteDone \/ Return \/ Elapse
           \/ UNCHANGED vars
  BY <1>9, <1>u DEF Tick, tick, PumpDone, CollectDone, Complete, CompleteDone, Return,
                    Elapse, vars, queueVars
<1> QED
  BY <1>1, <1>3, <1>4, <1>5, <1>6, <1>7, <1>8, <1>9 DEF Next, InnerStep

\* No correlation id is outstanding twice, pending or in flight, however the
\* queue's callbacks re-enter it.
THEOREM SingleFlightHolds == Spec => []SingleFlight
<1>1. Init => SingleFlight
  BY DEF Init, SingleFlight, is_in_flight
<1> QED
  BY <1>1, TypeCorrect, SingleFlightStep, PTL DEF Spec

-----------------------------------------------------------------------------
(* Serialisation of ordinary commands. *)

LEMMA OneQueuedStep == TypeOK /\ OneQueuedInFlight /\ [Next]_vars => OneQueuedInFlight'
<1> SUFFICES ASSUME TypeOK, OneQueuedInFlight, [Next]_vars PROVE OneQueuedInFlight'
  OBVIOUS
<1> USE DEF TypeOK
<1>d. Len(in_flight) \in Nat /\ DOMAIN in_flight = 1..Len(in_flight)
  BY LenProperties
<1>u. ASSUME in_flight' = in_flight PROVE OneQueuedInFlight'
  BY <1>u DEF OneQueuedInFlight
<1>1. ASSUME NEW i \in DOMAIN in_flight, in_flight' = Without(in_flight, i)
      PROVE  OneQueuedInFlight'
  <2> SUFFICES ASSUME NEW j \in DOMAIN in_flight', NEW k \in DOMAIN in_flight',
                      CmdPrio[in_flight'[j]] = "kQueued", CmdPrio[in_flight'[k]] = "kQueued"
               PROVE  j = k
    BY DEF OneQueuedInFlight
  <2>1. /\ j \in DOMAIN in_flight /\ (j >= i => j + 1 \in DOMAIN in_flight)
        /\ in_flight'[j] = IF j < i THEN in_flight[j] ELSE in_flight[j + 1]
    BY <1>1, WithoutElement
  <2>2. /\ k \in DOMAIN in_flight /\ (k >= i => k + 1 \in DOMAIN in_flight)
        /\ in_flight'[k] = IF k < i THEN in_flight[k] ELSE in_flight[k + 1]
    BY <1>1, WithoutElement
  <2> QED BY <1>d, <2>1, <2>2, SMTT(40) DEF OneQueuedInFlight
<1>2. CASE PumpSend
  <2>1. PICK i \in DOMAIN pending :
          can_send(pending[i]) /\ in_flight' = Append(in_flight, pending[i])
    BY <1>2 DEF PumpSend, IsFirst
  <2>2. pending[i] \in Cmds
    BY Elements
  <2>3. /\ DOMAIN in_flight' = 1..(Len(in_flight) + 1)
        /\ in_flight'[Len(in_flight) + 1] = pending[i]
        /\ \A k \in 1..Len(in_flight) : in_flight'[k] = in_flight[k]
    BY <2>1, <2>2, AppendProperties, LenProperties
  <2>4. CmdPrio[pending[i]] = "kQueued" =>
          \A k \in DOMAIN in_flight : CmdPrio[in_flight[k]] # "kQueued"
    BY <2>1 DEF can_send
  <2>5. \A k \in DOMAIN in_flight' :
          \/ k \in DOMAIN in_flight /\ in_flight'[k] = in_flight[k]
          \/ k = Len(in_flight) + 1 /\ in_flight'[k] = pending[i]
    BY <1>d, <2>3
  <2> QED BY <2>4, <2>5 DEF OneQueuedInFlight
<1>3. ASSUME NEW id \in Ids, OnResponse(id) PROVE OneQueuedInFlight'
  BY <1>1, <1>3 DEF OnResponse, on_response
<1>4. CASE CollectInFlight
  BY <1>1, <1>4 DEF CollectInFlight
<1>5. CASE CancelAll
  <2>1. in_flight' = <<>>
    BY <1>5 DEF CancelAll, cancel_all
  <2> QED BY <2>1 DEF OneQueuedInFlight
<1>6. ASSUME NEW c \in Cmds, Submit(c) PROVE OneQueuedInFlight'
  BY <1>6, <1>u DEF Submit, submit, queueVars
<1>7. ASSUME NEW r \in BOOLEAN, SetReady(r) PROVE OneQueuedInFlight'
  BY <1>7, <1>u DEF SetReady, set_ready
<1>8. CASE \/ Tick \/ PumpDone \/ CollectPending \/ CollectDone \/ Complete
           \/ CompleteDone \/ Return \/ Elapse \/ UNCHANGED vars
  BY <1>8, <1>u DEF Tick, tick, PumpDone, CollectPending, CollectDone, Complete,
                    CompleteDone, Return, Elapse, vars, queueVars
<1> QED
  BY <1>2, <1>3, <1>4, <1>5, <1>6, <1>7, <1>8 DEF Next, InnerStep

\* At most one ordinary command is in flight at any time.
THEOREM OneQueuedHolds == Spec => []OneQueuedInFlight
<1>1. Init => OneQueuedInFlight
  BY DEF Init, OneQueuedInFlight
<1> QED
  BY <1>1, TypeCorrect, OneQueuedStep, PTL DEF Spec

-----------------------------------------------------------------------------
(* No lost wake-up.  The invariant is not inductive alone: a tick() that is   *)
(* collecting makes commands sendable, and relies on the pump below it.       *)

CollectAbovePump ==
  \A k \in DOMAIN stack : stack[k].fn = "collect" => k > 1 /\ stack[k - 1].fn = "pump"

WakeupInv == NoLostWakeup /\ CollectAbovePump

PumpOn(st) == \E k \in DOMAIN st : st[k].fn = "pump"

\* Pushing a frame that is not "collect" keeps the pumps below.
LEMMA PushKeeps ==
  ASSUME stack \in Seq(Frame), CollectAbovePump,
         NEW f \in Frame, f.fn # "collect", stack' = Append(stack, f)
  PROVE  /\ CollectAbovePump'
         /\ PumpOn(stack) => PumpOn(stack')
         /\ f.fn = "pump" => PumpOn(stack')
<1>1. /\ Len(stack) \in Nat /\ DOMAIN stack = 1..Len(stack)
      /\ DOMAIN stack' = 1..(Len(stack) + 1)
      /\ stack'[Len(stack) + 1] = f
      /\ \A k \in 1..Len(stack) : stack'[k] = stack[k]
  BY AppendProperties, LenProperties
<1>2. CollectAbovePump'
  <2> SUFFICES ASSUME NEW k \in DOMAIN stack', stack'[k].fn = "collect"
               PROVE  k > 1 /\ stack'[k - 1].fn = "pump"
    BY DEF CollectAbovePump
  <2>1. k \in 1..Len(stack) /\ stack'[k] = stack[k]
    BY <1>1
  <2>2. k > 1 /\ stack[k - 1].fn = "pump"
    BY <1>1, <2>1 DEF CollectAbovePump
  <2> QED BY <1>1, <2>1, <2>2
<1> QED
  BY <1>1, <1>2 DEF PumpOn

\* Pushing a pump and a frame above it.
LEMMA PushPumpKeeps ==
  ASSUME stack \in Seq(Frame), CollectAbovePump,
         NEW g \in Frame, stack' = stack \o <<PumpFrame, g>>
  PROVE  CollectAbovePump' /\ PumpOn(stack')
<1>1. /\ Len(stack) \in Nat /\ DOMAIN stack = 1..Len(stack)
      /\ DOMAIN stack' = 1..(Len(stack) + 2)
      /\ stack'[Len(stack) + 1] = PumpFrame
      /\ stack'[Len(stack) + 2] = g
      /\ \A k \in 1..Len(stack) : stack'[k] = stack[k]
  BY FrameTypes, PushTwo, LenProperties
<1>2. PumpFrame.fn = "pump"
  BY DEF PumpFrame
<1>3. CollectAbovePump'
  <2> SUFFICES ASSUME NEW k \in DOMAIN stack', stack'[k].fn = "collect"
               PROVE  k > 1 /\ stack'[k - 1].fn = "pump"
    BY DEF CollectAbovePump
  <2>1. CASE k \in 1..Len(stack)
    <3>1. k > 1 /\ stack[k - 1].fn = "pump"
      BY <1>1, <2>1 DEF CollectAbovePump
    <3> QED BY <1>1, <2>1, <3>1
  <2>2. CASE k = Len(stack) + 2
    <3>1. k > 1 /\ k - 1 = Len(stack) + 1
      BY <1>1, <2>2
    <3> QED BY <1>1, <1>2, <3>1
  <2>3. k # Len(stack) + 1
    BY <1>1, <1>2
  <2> QED BY <1>1, <2>1, <2>2, <2>3
<1>4. PumpOn(stack')
  <2>1. Len(stack) + 1 \in DOMAIN stack' /\ stack'[Len(stack) + 1].fn = "pump"
    BY <1>1, <1>2
  <2> QED BY <2>1 DEF PumpOn
<1> QED
  BY <1>3, <1>4

\* Popping a frame.
LEMMA PopKeeps ==
  ASSUME stack \in Seq(Frame), stack # <<>>, CollectAbovePump,
         NEW st \in Seq(Frame), st = Pop(stack)
  PROVE  /\ \A k \in DOMAIN st : /\ k \in DOMAIN stack /\ st[k] = stack[k]
                                 /\ st[k].fn = "collect" => k > 1 /\ st[k - 1].fn = "pump"
         /\ Len(st) = Len(stack) - 1
         /\ PumpOn(stack) /\ Top(stack).fn # "pump" => PumpOn(st)
         /\ Top(stack).fn = "collect" => st # <<>> /\ st[Len(st)].fn = "pump"
<1>1. /\ Len(stack) \in Nat /\ DOMAIN stack = 1..Len(stack)
      /\ Len(st) = Len(stack) - 1 /\ DOMAIN st = 1..(Len(stack) - 1)
      /\ \A k \in 1..(Len(stack) - 1) : st[k] = stack[k]
  BY PopProps, LenProperties
<1>n. Len(stack) >= 1
  <2>1. Len(st) \in Nat
    BY LenProperties
  <2> QED BY <1>1, <2>1
<1>2. ASSUME NEW k \in DOMAIN st, st[k].fn = "collect"
      PROVE  k > 1 /\ st[k - 1].fn = "pump"
  <2>1. k > 1 /\ stack[k - 1].fn = "pump"
    BY <1>1, <1>2 DEF CollectAbovePump
  <2> QED BY <1>1, <2>1
<1>3. PumpOn(stack) /\ Top(stack).fn # "pump" => PumpOn(st)
  BY <1>1 DEF PumpOn, Top
<1>4. Top(stack).fn = "collect" => st # <<>> /\ st[Len(st)].fn = "pump"
  <2> SUFFICES ASSUME Top(stack).fn = "collect" PROVE st # <<>> /\ st[Len(st)].fn = "pump"
    OBVIOUS
  <2>1. Len(stack) > 1 /\ stack[Len(stack) - 1].fn = "pump"
    <3>1. Len(stack) \in DOMAIN stack /\ stack[Len(stack)].fn = "collect"
      BY <1>1, <1>n DEF Top
    <3> QED BY <3>1 DEF CollectAbovePump
  <2>2. st # <<>>
    BY <1>1, <2>1, EmptySeq
  <2> QED BY <1>1, <2>1, <2>2
<1> QED
  BY <1>1, <1>2, <1>3, <1>4

\* What is sendable depends on pending_, in_flight_ and the gate only.
LEMMA SendableUnchanged ==
  ASSUME UNCHANGED <<pending, in_flight, ready>>
  PROVE  SomethingSendable' <=> SomethingSendable
BY DEF SomethingSendable, can_send, is_in_flight

LEMMA WakeupStep == TypeOK /\ WakeupInv /\ [Next]_vars => WakeupInv'
<1> SUFFICES ASSUME TypeOK, NoLostWakeup, CollectAbovePump, [Next]_vars PROVE WakeupInv'
  BY DEF WakeupInv
<1>t. /\ stack \in Seq(Frame) /\ pending \in Seq(Cmds) /\ in_flight \in Seq(Cmds)
      /\ PumpFrame \in Frame /\ PumpFrame.fn = "pump"
      /\ UserFrame \in Frame /\ UserFrame.fn = "user"
  BY FrameTypes DEF TypeOK, PumpFrame, UserFrame
<1>w. ASSUME CollectAbovePump', SomethingSendable' => PumpOn(stack') PROVE WakeupInv'
  BY <1>w DEF WakeupInv, NoLostWakeup, PumpOn
<1>i. SomethingSendable => PumpOn(stack)
  BY DEF NoLostWakeup, PumpOn
\* A step that leaves the queue alone and pops a frame that is not a pump.
<1>p. ASSUME stack # <<>>, Top(stack).fn # "pump", stack' = Pop(stack), UNCHANGED queueVars
      PROVE  WakeupInv'
  <2>1. Pop(stack) \in Seq(Frame)
    BY <1>t, <1>p, PopProps
  <2>2. CollectAbovePump'
    BY <1>t, <1>p, <2>1, PopKeeps DEF CollectAbovePump
  <2>3. PumpOn(stack) => PumpOn(stack')
    BY <1>t, <1>p, <2>1, PopKeeps
  <2> QED BY <1>i, <1>p, <1>w, <2>2, <2>3, SendableUnchanged DEF queueVars
<1>1. ASSUME NEW c \in Cmds, Submit(c) PROVE WakeupInv'
  <2>1. CASE duplicate(CmdId[c])
    <3> DEFINE f == CompleteFrame(<<c>>, "kRejected")
    <3>1. stack' = Append(stack, f) /\ UNCHANGED queueVars
      BY <1>1, <2>1 DEF Submit, submit
    <3>2. f \in Frame /\ f.fn = "complete"
      <4>1. <<c>> \in Seq(Cmds) /\ "kRejected" \in Outcome
        BY DEF Outcome
      <4> QED BY <4>1, FrameTypes DEF CompleteFrame
    <3> HIDE DEF f
    <3>3. CollectAbovePump' /\ (PumpOn(stack) => PumpOn(stack'))
      BY <1>t, <3>1, <3>2, PushKeeps
    <3> QED BY <1>i, <1>w, <3>1, <3>3, SendableUnchanged DEF queueVars
  <2>2. CASE ~duplicate(CmdId[c])
    <3>1. stack' = Append(stack, PumpFrame)
      BY <1>1, <2>2 DEF Submit, submit
    <3> QED BY <1>t, <1>w, <3>1, PushKeeps
  <2> QED BY <2>1, <2>2
<1>2. ASSUME NEW r \in BOOLEAN, SetReady(r) PROVE WakeupInv'
  <2>1. CASE r
    BY <1>2, <1>t, <1>w, <2>1, PushKeeps DEF SetReady, set_ready
  <2>2. CASE ~r
    <3>1. stack' = stack /\ ~ready' /\ pending' = pending /\ in_flight' = in_flight
      BY <1>2, <2>2 DEF SetReady, set_ready
    <3>2. \A i \in DOMAIN pending : CmdPrio[pending[i]] \in Priority
      BY <1>t, Elements, CmdsAssumption
    <3>3. ASSUME NEW i \in DOMAIN pending, can_send(pending[i])' PROVE can_send(pending[i])
      BY <3>1, <3>2, <3>3 DEF can_send, is_in_flight, Priority
    <3>4. SomethingSendable' => SomethingSendable
      BY <3>1, <3>3 DEF SomethingSendable
    <3> QED BY <1>i, <1>w, <3>1, <3>4 DEF CollectAbovePump
  <2> QED BY <2>1, <2>2
<1>3. ASSUME NEW id \in Ids, OnResponse(id) PROVE WakeupInv'
  <2>1. PICK i \in DOMAIN in_flight :
          stack' = stack \o <<PumpFrame, CompleteFrame(<<in_flight[i]>>, "kResponded")>>
    BY <1>3 DEF OnResponse, on_response
  <2>2. CompleteFrame(<<in_flight[i]>>, "kResponded") \in Frame
    <3>1. <<in_flight[i]>> \in Seq(Cmds) /\ "kResponded" \in Outcome
      BY <1>t, Elements DEF Outcome
    <3> QED BY <3>1, FrameTypes
  <2> QED BY <1>t, <1>w, <2>1, <2>2, PushPumpKeeps
<1>4. CASE Tick
  <2>1. stack' = stack \o <<PumpFrame, CollectFrame(<<>>)>>
    BY <1>4 DEF Tick, tick
  <2>2. CollectFrame(<<>>) \in Frame
    BY EmptySeq, FrameTypes
  <2> QED BY <1>t, <1>w, <2>1, <2>2, PushPumpKeeps
<1>5. CASE CancelAll
  <2> DEFINE f == CompleteFrame(in_flight \o pending, "kCanceled")
  <2>1. stack' = Append(stack, f) /\ pending' = <<>>
    BY <1>5 DEF CancelAll, cancel_all
  <2>2. f \in Frame /\ f.fn = "complete"
    <3>1. in_flight \o pending \in Seq(Cmds) /\ "kCanceled" \in Outcome
      BY <1>t, ConcatProperties DEF Outcome
    <3> QED BY <3>1, FrameTypes DEF CompleteFrame
  <2> HIDE DEF f
  <2>3. CollectAbovePump'
    BY <1>t, <2>1, <2>2, PushKeeps
  <2>4. ~SomethingSendable'
    BY <2>1 DEF SomethingSendable
  <2> QED BY <1>w, <2>3, <2>4
<1>6. CASE PumpSend
  <2>1. stack' = Append(stack, UserFrame) /\ stack # <<>> /\ Top(stack).fn = "pump"
    BY <1>6 DEF PumpSend, OnTop
  <2>2. PumpOn(stack)
    <3>1. Len(stack) \in DOMAIN stack
      BY <1>t, <2>1, LenProperties, EmptySeq
    <3> QED BY <2>1, <3>1 DEF PumpOn, Top
  <2> QED BY <1>t, <1>w, <2>1, <2>2, PushKeeps
<1>7. CASE PumpDone
  <2>1. stack # <<>> /\ ~SomethingSendable /\ stack' = Pop(stack) /\ UNCHANGED queueVars
    BY <1>7 DEF PumpDone, OnTop
  <2>2. Pop(stack) \in Seq(Frame)
    BY <1>t, <2>1, PopProps
  <2>3. CollectAbovePump'
    BY <1>t, <2>1, <2>2, PopKeeps DEF CollectAbovePump
  <2> QED BY <1>w, <2>1, <2>3, SendableUnchanged DEF queueVars
\* While tick() collects, the frame below its own is a pump and stays.
<1>8. ASSUME NEW f \in Frame, f.fn \in {"collect", "complete"},
             OnTop("collect"), stack' = Append(Pop(stack), f)
      PROVE  WakeupInv'
  <2> DEFINE st == Pop(stack)
  <2>1. stack # <<>> /\ Top(stack).fn = "collect" /\ st \in Seq(Frame)
    BY <1>t, <1>8, PopProps DEF OnTop
  <2>2. /\ \A k \in DOMAIN st : st[k].fn = "collect" => k > 1 /\ st[k - 1].fn = "pump"
        /\ st # <<>> /\ st[Len(st)].fn = "pump"
    BY <1>t, <2>1, PopKeeps
  <2>3. Len(st) \in Nat /\ Len(st) >= 1 /\ DOMAIN st = 1..Len(st)
    <3>1. Len(st) \in Nat \ {0} /\ DOMAIN st = 1..Len(st)
      BY <2>1, <2>2, EmptySeq, LenProperties
    <3>2. \A n \in Nat \ {0} : n \in Nat /\ n >= 1
      OBVIOUS
    <3> QED BY <3>1, <3>2
  <2> HIDE DEF st
  <2>4. /\ DOMAIN stack' = 1..(Len(st) + 1)
        /\ stack'[Len(st) + 1] = f
        /\ \A k \in 1..Len(st) : stack'[k] = st[k]
    <3>1. stack' = Append(st, f)
      BY <1>8 DEF st
    <3> QED BY <2>1, <3>1, AppendProperties, LenProperties
  <2>5. CollectAbovePump'
    <3> SUFFICES ASSUME NEW k \in DOMAIN stack', stack'[k].fn = "collect"
                 PROVE  k > 1 /\ stack'[k - 1].fn = "pump"
      BY DEF CollectAbovePump
    <3>1. CASE k \in 1..Len(st)
      <4>1. k > 1 /\ st[k - 1].fn = "pump"
        BY <2>2, <2>3, <2>4, <3>1
      <4> QED BY <2>3, <2>4, <3>1, <4>1
    <3>2. CASE k = Len(st) + 1
      <4>1. k > 1 /\ k - 1 = Len(st) /\ Len(st) \in 1..Len(st)
        BY <2>3, <3>2
      <4> QED BY <2>2, <2>4, <4>1
    <3> QED BY <2>3, <2>4, <3>1, <3>2
  <2>6. PumpOn(stack')
    <3>1. Len(st) \in DOMAIN stack' /\ stack'[Len(st)].fn = "pump"
      BY <2>2, <2>3, <2>4
    <3> QED BY <3>1 DEF PumpOn
  <2> QED BY <1>w, <2>5, <2>6
<1>c. ASSUME OnTop("collect") PROVE Top(stack).cmds \in Seq(Cmds)
  <2>1. Top(stack) \in Frame
    BY <1>c, <1>t, PopProps DEF OnTop
  <2> QED BY <2>1 DEF Frame
<1>9. CASE CollectInFlight
  <2>1. PICK i \in DOMAIN in_flight :
          stack' = Append(Pop(stack), CollectFrame(Append(Top(stack).cmds, in_flight[i])))
    BY <1>9 DEF CollectInFlight
  <2>2. OnTop("collect")
    BY <1>9 DEF CollectInFlight
  <2>3. Append(Top(stack).cmds, in_flight[i]) \in Seq(Cmds)
    BY <1>c, <1>t, <2>2, Elements, AppendProperties
  <2> DEFINE f == CollectFrame(Append(Top(stack).cmds, in_flight[i]))
  <2>4. f \in Frame /\ f.fn = "collect"
    BY <2>3, FrameTypes DEF CollectFrame
  <2> HIDE DEF f
  <2> QED BY <1>8, <2>1, <2>2, <2>4 DEF f
<1>10. CASE CollectPending
  <2>1. PICK i \in DOMAIN pending :
          stack' = Append(Pop(stack), CollectFrame(Append(Top(stack).cmds, pending[i])))
    BY <1>10 DEF CollectPending
  <2>2. OnTop("collect")
    BY <1>10 DEF CollectPending
  <2>3. Append(Top(stack).cmds, pending[i]) \in Seq(Cmds)
    BY <1>c, <1>t, <2>2, Elements, AppendProperties
  <2> DEFINE f == CollectFrame(Append(Top(stack).cmds, pending[i]))
  <2>4. f \in Frame /\ f.fn = "collect"
    BY <2>3, FrameTypes DEF CollectFrame
  <2> HIDE DEF f
  <2> QED BY <1>8, <2>1, <2>2, <2>4 DEF f
<1>11. CASE CollectDone
  <2> DEFINE f == CompleteFrame(Top(stack).cmds, "kTimedOut")
  <2>1. OnTop("collect") /\ stack' = Append(Pop(stack), f)
    BY <1>11 DEF CollectDone
  <2>2. f \in Frame /\ f.fn = "complete"
    <3>1. Top(stack).cmds \in Seq(Cmds) /\ "kTimedOut" \in Outcome
      BY <1>c, <2>1 DEF Outcome
    <3> QED BY <3>1, FrameTypes DEF CompleteFrame
  <2> HIDE DEF f
  <2> QED BY <1>8, <2>1, <2>2
<1>12. CASE Complete
  <2> DEFINE g == Top(stack)
             f == CompleteFrame(Tail(g.cmds), g.outcome)
             st == Pop(stack)
  <2>1. /\ stack # <<>> /\ g.fn = "complete" /\ g.cmds # <<>>
        /\ stack' = st \o <<f, UserFrame>> /\ UNCHANGED <<pending, in_flight, ready>>
    BY <1>12 DEF Complete, OnTop
  <2>2. f \in Frame /\ f.fn = "complete"
    <3>1. g \in Frame
      BY <1>t, <2>1, PopProps
    <3>2. g.cmds \in Seq(Cmds) /\ g.outcome \in Outcome \cup {"none"}
      BY <3>1 DEF Frame
    <3>3. Tail(g.cmds) \in Seq(Cmds)
      BY <2>1, <3>2, HeadTailProperties
    <3> QED BY <3>2, <3>3 DEF Frame, CompleteFrame
  <2>3. /\ st \in Seq(Frame)
        /\ \A k \in DOMAIN st : st[k].fn = "collect" => k > 1 /\ st[k - 1].fn = "pump"
        /\ PumpOn(stack) => PumpOn(st)
    BY <1>t, <2>1, PopProps, PopKeeps
  <2> HIDE DEF f, st
  <2>4. /\ Len(st) \in Nat /\ DOMAIN st = 1..Len(st)
        /\ DOMAIN stack' = 1..(Len(st) + 2)
        /\ stack'[Len(st) + 1] = f /\ stack'[Len(st) + 2] = UserFrame
        /\ \A k \in 1..Len(st) : stack'[k] = st[k]
    BY <1>t, <2>1, <2>2, <2>3, PushTwo, LenProperties
  <2>5. CollectAbovePump'
    <3> SUFFICES ASSUME NEW k \in DOMAIN stack', stack'[k].fn = "collect"
                 PROVE  k > 1 /\ stack'[k - 1].fn = "pump"
      BY DEF CollectAbovePump
    <3>1. k \in 1..Len(st)
      BY <1>t, <2>2, <2>4
    <3>2. k > 1 /\ st[k - 1].fn = "pump"
      BY <2>3, <2>4, <3>1
    <3> QED BY <2>4, <3>1, <3>2
  <2>6. PumpOn(stack) => PumpOn(stack')
    BY <2>3, <2>4 DEF PumpOn
  <2> QED BY <1>i, <1>w, <2>1, <2>5, <2>6, SendableUnchanged
<1>13. CASE CompleteDone \/ Return
  BY <1>13, <1>p DEF CompleteDone, Return, OnTop
<1>14. CASE Elapse \/ UNCHANGED vars
  <2>1. UNCHANGED <<pending, in_flight, ready, stack>>
    BY <1>14 DEF Elapse, vars
  <2> QED BY <1>i, <1>w, <2>1, SendableUnchanged DEF CollectAbovePump
<1> QED
  BY <1>1, <1>2, <1>3, <1>4, <1>5, <1>6, <1>7, <1>9, <1>10, <1>11, <1>12, <1>13, <1>14
     DEF Next, InnerStep

LEMMA WakeupInvariant == Spec => []WakeupInv
<1>1. Init => WakeupInv
  BY DEF Init, WakeupInv, NoLostWakeup, SomethingSendable, CollectAbovePump
<1> QED
  BY <1>1, TypeCorrect, WakeupStep, PTL DEF Spec

\* Whenever a pending command could be sent, a pump() is still running.
THEOREM NoLostWakeupHolds == Spec => []NoLostWakeup
BY WakeupInvariant, PTL DEF WakeupInv

\* Outside the queue's operations no keep-alive or fastpass command waits: it
\* has a free id (single flight), so it would be sendable, and no pump runs.
THEOREM UngatedNeverWaitHolds == Spec => []UngatedNeverWait
<1>1. TypeOK /\ SingleFlight /\ NoLostWakeup => UngatedNeverWait
  <2> SUFFICES ASSUME TypeOK, SingleFlight, NoLostWakeup, stack = <<>>,
                      NEW i \in DOMAIN pending
               PROVE  CmdPrio[pending[i]] = "kQueued"
    BY DEF UngatedNeverWait
  <2>1. ~SomethingSendable
    BY DEF NoLostWakeup
  <2>2. ~can_send(pending[i]) /\ ~is_in_flight(CmdId[pending[i]])
    BY <2>1 DEF SomethingSendable, SingleFlight
  <2>3. CmdPrio[pending[i]] \in Priority
    BY Elements, CmdsAssumption DEF TypeOK
  <2> QED BY <2>2, <2>3 DEF can_send, Priority
<1> QED
  BY <1>1, TypeCorrect, SingleFlightHolds, NoLostWakeupHolds, PTL

-----------------------------------------------------------------------------
(* Exactly one completion.  What is owed a completion is in one place: in     *)
(* pending_, in in_flight_ or in the list of one loop on the call stack.      *)

\* The submissions a frame still has to complete; a refusal owes nothing.
Claims(f) == IF f.outcome = "kRejected" THEN <<>> ELSE f.cmds

\* The lowest n frames of st hold c; they hold nothing twice.
HeldTo(c, st, n) == \E k \in 1..n : InSeq(c, Claims(st[k]))
OnceTo(st, n) ==
  \A k, l \in 1..n : \A i \in DOMAIN Claims(st[k]), j \in DOMAIN Claims(st[l]) :
    Claims(st[k])[i] = Claims(st[l])[j] => k = l /\ i = j

DistinctSeq(s) == \A i, j \in DOMAIN s : s[i] = s[j] => i = j

Held(c, st) == HeldTo(c, st, Len(st))
Once(st) == OnceTo(st, Len(st))

\* A submission the queue still works on: waiting or transmitted.
InWork(c) == InSeq(c, pending) \/ InSeq(c, in_flight)

\* Loops that complete nothing have nothing to complete, and what tick()
\* collects is to be completed.
FrameOK(f) ==
  /\ f.fn \in {"pump", "user"} => f.cmds = <<>>
  /\ f.fn = "collect" => f.outcome = "none"
FramesOK(st) == \A k \in DOMAIN st : FrameOK(st[k])

\* ExactlyOnce in these terms.
OncePlaces ==
  /\ Once(stack)
  /\ \A c : Held(c, stack) => ~InWork(c)
  /\ \A c \in Cmds : c \in owed <=> InWork(c) \/ Held(c, stack)

OnceInv == FramesOK(stack) /\ OncePlaces

\* One frame more.
LEMMA OneFrameMore ==
  ASSUME NEW st, NEW n \in Nat
  PROVE  /\ \A c : HeldTo(c, st, n + 1) <=> HeldTo(c, st, n) \/ InSeq(c, Claims(st[n + 1]))
         /\ OnceTo(st, n + 1) <=>
              /\ OnceTo(st, n)
              /\ DistinctSeq(Claims(st[n + 1]))
              /\ \A c : InSeq(c, Claims(st[n + 1])) => ~HeldTo(c, st, n)
<1>0. \A k : k \in 1..(n + 1) <=> k \in 1..n \/ k = n + 1
  OBVIOUS
<1>1. \A c : HeldTo(c, st, n + 1) <=> HeldTo(c, st, n) \/ InSeq(c, Claims(st[n + 1]))
  BY <1>0 DEF HeldTo
<1>2. ASSUME OnceTo(st, n + 1)
      PROVE  /\ OnceTo(st, n)
             /\ DistinctSeq(Claims(st[n + 1]))
             /\ \A c : InSeq(c, Claims(st[n + 1])) => ~HeldTo(c, st, n)
  <2>1. OnceTo(st, n)
    BY <1>0, <1>2 DEF OnceTo
  <2>2. DistinctSeq(Claims(st[n + 1]))
    BY <1>0, <1>2 DEF OnceTo, DistinctSeq
  <2>3. ASSUME NEW c, InSeq(c, Claims(st[n + 1])), HeldTo(c, st, n) PROVE FALSE
    <3>1. PICK i \in DOMAIN Claims(st[n + 1]) : Claims(st[n + 1])[i] = c
      BY <2>3 DEF InSeq
    <3>2. PICK k \in 1..n : InSeq(c, Claims(st[k]))
      BY <2>3 DEF HeldTo
    <3>3. PICK j \in DOMAIN Claims(st[k]) : Claims(st[k])[j] = c
      BY <3>2 DEF InSeq
    <3>4. k = n + 1
      BY <1>0, <1>2, <3>1, <3>3 DEF OnceTo
    <3> QED BY <3>4
  <2> QED BY <2>1, <2>2, <2>3
<1>3. ASSUME OnceTo(st, n), DistinctSeq(Claims(st[n + 1])),
             \A c : InSeq(c, Claims(st[n + 1])) => ~HeldTo(c, st, n)
      PROVE  OnceTo(st, n + 1)
  <2> SUFFICES ASSUME NEW k \in 1..(n + 1), NEW l \in 1..(n + 1),
                      NEW i \in DOMAIN Claims(st[k]), NEW j \in DOMAIN Claims(st[l]),
                      Claims(st[k])[i] = Claims(st[l])[j]
               PROVE  k = l /\ i = j
    BY DEF OnceTo
  <2>0. InSeq(Claims(st[k])[i], Claims(st[k])) /\ InSeq(Claims(st[k])[i], Claims(st[l]))
    BY DEF InSeq
  <2>1. CASE k \in 1..n /\ l \in 1..n
    BY <1>3, <2>1 DEF OnceTo
  <2>2. CASE k \in 1..n /\ l = n + 1
    BY <1>3, <2>0, <2>2 DEF HeldTo
  <2>3. CASE k = n + 1 /\ l \in 1..n
    BY <1>3, <2>0, <2>3 DEF HeldTo
  <2>4. CASE k = n + 1 /\ l = n + 1
    BY <1>3, <2>4 DEF DistinctSeq
  <2> QED BY <1>0, <2>1, <2>2, <2>3, <2>4
<1> QED BY <1>1, <1>2, <1>3

\* The frames below.
LEMMA SameBelow ==
  ASSUME NEW st, NEW su, NEW n \in Nat, \A k \in 1..n : su[k] = st[k]
  PROVE  /\ OnceTo(su, n) <=> OnceTo(st, n)
         /\ \A c : HeldTo(c, su, n) <=> HeldTo(c, st, n)
<1>1. \A c : HeldTo(c, su, n) <=> HeldTo(c, st, n)
  BY DEF HeldTo
<1>2. \A k \in 1..n : Claims(su[k]) = Claims(st[k])
  OBVIOUS
<1>3. ASSUME OnceTo(st, n) PROVE OnceTo(su, n)
  <2> SUFFICES ASSUME NEW k \in 1..n, NEW l \in 1..n,
                      NEW i \in DOMAIN Claims(su[k]), NEW j \in DOMAIN Claims(su[l]),
                      Claims(su[k])[i] = Claims(su[l])[j]
               PROVE  k = l /\ i = j
    BY DEF OnceTo
  <2>1. i \in DOMAIN Claims(st[k]) /\ j \in DOMAIN Claims(st[l])
        /\ Claims(st[k])[i] = Claims(st[l])[j]
    BY <1>2
  <2> QED BY <1>3, <2>1 DEF OnceTo
<1>4. ASSUME OnceTo(su, n) PROVE OnceTo(st, n)
  <2> SUFFICES ASSUME NEW k \in 1..n, NEW l \in 1..n,
                      NEW i \in DOMAIN Claims(st[k]), NEW j \in DOMAIN Claims(st[l]),
                      Claims(st[k])[i] = Claims(st[l])[j]
               PROVE  k = l /\ i = j
    BY DEF OnceTo
  <2>1. i \in DOMAIN Claims(su[k]) /\ j \in DOMAIN Claims(su[l])
        /\ Claims(su[k])[i] = Claims(su[l])[j]
    BY <1>2
  <2> QED BY <1>4, <2>1 DEF OnceTo
<1> QED BY <1>1, <1>3, <1>4

\* A frame is pushed.
LEMMA PushOnce ==
  ASSUME NEW st \in Seq(Frame), NEW f \in Frame
  PROVE  /\ Append(st, f) \in Seq(Frame)
         /\ \A c : Held(c, Append(st, f)) <=> Held(c, st) \/ InSeq(c, Claims(f))
         /\ Once(Append(st, f)) <=> /\ Once(st)
                                    /\ DistinctSeq(Claims(f))
                                    /\ \A c : InSeq(c, Claims(f)) => ~Held(c, st)
         /\ FramesOK(Append(st, f)) <=> FramesOK(st) /\ FrameOK(f)
<1> DEFINE su == Append(st, f)
           n == Len(st)
<1>1. /\ n \in Nat /\ su \in Seq(Frame) /\ Len(su) = n + 1 /\ su[n + 1] = f
      /\ \A k \in 1..n : su[k] = st[k]
  BY AppendProperties, LenProperties
<1>2. DOMAIN st = 1..n /\ DOMAIN su = 1..(n + 1)
  BY <1>1, LenProperties
<1> HIDE DEF su, n
<1>3. /\ OnceTo(su, n) <=> OnceTo(st, n)
      /\ \A c : HeldTo(c, su, n) <=> HeldTo(c, st, n)
  BY <1>1, SameBelow
<1>4. /\ \A c : HeldTo(c, su, n + 1) <=> HeldTo(c, su, n) \/ InSeq(c, Claims(f))
      /\ OnceTo(su, n + 1) <=>
           /\ OnceTo(su, n)
           /\ DistinctSeq(Claims(f))
           /\ \A c : InSeq(c, Claims(f)) => ~HeldTo(c, su, n)
  BY <1>1, OneFrameMore
<1>5. FramesOK(su) <=> FramesOK(st) /\ FrameOK(f)
  <2>1. \A k : k \in 1..(n + 1) <=> k \in 1..n \/ k = n + 1
    BY <1>1
  <2> QED BY <1>1, <1>2, <2>1 DEF FramesOK
<1>6. \A c : Held(c, su) <=> Held(c, st) \/ InSeq(c, Claims(f))
  BY <1>1, <1>3, <1>4 DEF Held, n
<1>7. Once(su) <=> /\ Once(st)
                   /\ DistinctSeq(Claims(f))
                   /\ \A c : InSeq(c, Claims(f)) => ~Held(c, st)
  BY <1>1, <1>3, <1>4 DEF Once, Held, n
<1> QED BY <1>1, <1>5, <1>6, <1>7 DEF su

\* A stack is its top frame on the rest.
LEMMA PopPush ==
  ASSUME NEW st \in Seq(Frame), st # <<>>
  PROVE  /\ Pop(st) \in Seq(Frame) /\ Top(st) \in Frame
         /\ st = Append(Pop(st), Top(st))
<1>1. /\ Pop(st) \in Seq(Frame) /\ Top(st) \in Frame
      /\ Len(Pop(st)) = Len(st) - 1
      /\ \A k \in 1..(Len(st) - 1) : Pop(st)[k] = st[k]
  BY PopProps
<1> DEFINE su == Append(Pop(st), Top(st))
<1>2. /\ su \in Seq(Frame) /\ Len(su) = Len(Pop(st)) + 1
      /\ su[Len(Pop(st)) + 1] = Top(st)
      /\ \A k \in 1..Len(Pop(st)) : su[k] = Pop(st)[k]
  BY <1>1, AppendProperties
<1>3. Len(st) \in Nat /\ Len(Pop(st)) \in Nat
  BY <1>1, LenProperties
<1> HIDE DEF su
<1>4. Len(su) = Len(st)
  BY <1>1, <1>2, <1>3
<1>5. \A k \in 1..Len(st) : su[k] = st[k]
  <2> TAKE k \in 1..Len(st)
  <2>1. CASE k \in 1..(Len(st) - 1)
    BY <1>1, <1>2, <2>1
  <2>2. CASE k = Len(st)
    BY <1>1, <1>2, <1>3, <2>2 DEF Top
  <2> QED BY <1>3, <2>1, <2>2
<1>6. su = st
  BY <1>2, <1>4, <1>5, SeqEqual
<1> QED BY <1>1, <1>6 DEF su

LEMMA PushTwoIs ==
  ASSUME NEW st \in Seq(Frame), NEW f \in Frame, NEW g \in Frame
  PROVE  st \o <<f, g>> = Append(Append(st, f), g)
<1> DEFINE s2 == st \o <<f, g>>
           s1 == Append(st, f)
           s3 == Append(s1, g)
<1>1. /\ s2 \in Seq(Frame) /\ Len(s2) = Len(st) + 2
      /\ \A k \in 1..Len(st) : s2[k] = st[k]
      /\ s2[Len(st) + 1] = f /\ s2[Len(st) + 2] = g
  BY PushTwo
<1>2. /\ s1 \in Seq(Frame) /\ Len(s1) = Len(st) + 1 /\ s1[Len(st) + 1] = f
      /\ \A k \in 1..Len(st) : s1[k] = st[k]
  BY AppendProperties
<1> HIDE DEF s1, s2
<1>3. /\ s3 \in Seq(Frame) /\ Len(s3) = Len(s1) + 1 /\ s3[Len(s1) + 1] = g
      /\ \A k \in 1..Len(s1) : s3[k] = s1[k]
  BY <1>2, AppendProperties
<1>4. Len(st) \in Nat
  BY LenProperties
<1> HIDE DEF s3
<1>5. Len(s3) = Len(st) + 2 /\ Len(s1) + 1 = Len(st) + 2
  BY <1>2, <1>3, <1>4
<1>6. \A k \in 1..Len(s2) : s2[k] = s3[k]
  <2> TAKE k \in 1..Len(s2)
  <2>1. CASE k \in 1..Len(st)
    BY <1>1, <1>2, <1>3, <1>4, <2>1
  <2>2. CASE k = Len(st) + 1
    BY <1>1, <1>2, <1>3, <1>4, <2>2
  <2>3. CASE k = Len(st) + 2
    BY <1>1, <1>3, <1>5, <2>3
  <2> QED BY <1>1, <1>4, <2>1, <2>2, <2>3
<1>7. s2 = s3
  BY <1>1, <1>3, <1>5, <1>6, SeqEqual
<1> QED BY <1>7 DEF s1, s2, s3

\* Membership in the sequences the operations make.
LEMMA InSimple ==
  /\ \A c : ~InSeq(c, <<>>)
  /\ DistinctSeq(<<>>)
  /\ \A e : (\A c : InSeq(c, <<e>>) <=> c = e) /\ DistinctSeq(<<e>>)
<1>1. (\A c : ~InSeq(c, <<>>)) /\ DistinctSeq(<<>>)
  BY DEF InSeq, DistinctSeq
<1>2. ASSUME NEW e PROVE (\A c : InSeq(c, <<e>>) <=> c = e) /\ DistinctSeq(<<e>>)
  <2>1. DOMAIN <<e>> = {1} /\ <<e>>[1] = e
    OBVIOUS
  <2> QED BY <2>1 DEF InSeq, DistinctSeq
<1> QED BY <1>1, <1>2

LEMMA InConcat ==
  ASSUME NEW s \in Seq(Cmds), NEW t \in Seq(Cmds)
  PROVE  /\ \A c : InSeq(c, s \o t) <=> InSeq(c, s) \/ InSeq(c, t)
         /\ DistinctSeq(s) /\ DistinctSeq(t) /\ (\A c : InSeq(c, s) => ~InSeq(c, t))
            => DistinctSeq(s \o t)
<1> DEFINE u == s \o t
           m == Len(s)
           n == Len(t)
<1>1. /\ m \in Nat /\ n \in Nat /\ Len(u) = m + n /\ u \in Seq(Cmds)
      /\ \A k \in 1..(m + n) : u[k] = IF k <= m THEN s[k] ELSE t[k - m]
  BY ConcatProperties, LenProperties
<1>2. DOMAIN s = 1..m /\ DOMAIN t = 1..n /\ DOMAIN u = 1..(m + n)
  BY <1>1, LenProperties
<1> HIDE DEF u, m, n
<1>3. ASSUME NEW k \in DOMAIN u
      PROVE  \/ k \in DOMAIN s /\ u[k] = s[k]
             \/ k - m \in DOMAIN t /\ k > m /\ u[k] = t[k - m]
  BY <1>1, <1>2
<1>4. ASSUME NEW k \in DOMAIN s PROVE k \in DOMAIN u /\ u[k] = s[k]
  BY <1>1, <1>2
<1>5. ASSUME NEW k \in DOMAIN t PROVE k + m \in DOMAIN u /\ u[k + m] = t[k]
  <2>1. k + m \in 1..(m + n) /\ ~(k + m <= m) /\ (k + m) - m = k
    BY <1>1, <1>2
  <2> QED BY <1>1, <1>2, <2>1
<1>6. \A c : InSeq(c, u) <=> InSeq(c, s) \/ InSeq(c, t)
  BY <1>3, <1>4, <1>5 DEF InSeq
<1>7. ASSUME DistinctSeq(s), DistinctSeq(t), \A c : InSeq(c, s) => ~InSeq(c, t),
             NEW i \in DOMAIN u, NEW j \in DOMAIN u, u[i] = u[j]
      PROVE  i = j
  <2>1. CASE i \in DOMAIN s /\ u[i] = s[i] /\ j \in DOMAIN s /\ u[j] = s[j]
    BY <1>7, <2>1 DEF DistinctSeq
  <2>2. CASE i - m \in DOMAIN t /\ u[i] = t[i - m] /\ j - m \in DOMAIN t /\ u[j] = t[j - m]
    <3>1. i - m = j - m
      BY <1>7, <2>2 DEF DistinctSeq
    <3> QED BY <1>1, <1>2, <3>1
  <2>3. CASE i \in DOMAIN s /\ u[i] = s[i] /\ j - m \in DOMAIN t /\ u[j] = t[j - m]
    BY <1>7, <2>3 DEF InSeq
  <2>4. CASE i - m \in DOMAIN t /\ u[i] = t[i - m] /\ j \in DOMAIN s /\ u[j] = s[j]
    BY <1>7, <2>4 DEF InSeq
  <2> QED BY <1>3, <2>1, <2>2, <2>3, <2>4
<1> QED BY <1>6, <1>7 DEF DistinctSeq, u

LEMMA InAppend ==
  ASSUME NEW s \in Seq(Cmds), NEW e \in Cmds
  PROVE  /\ \A c : InSeq(c, Append(s, e)) <=> InSeq(c, s) \/ c = e
         /\ DistinctSeq(s) /\ ~InSeq(e, s) => DistinctSeq(Append(s, e))
<1> DEFINE t == <<e>>
<1>1. Append(s, e) = s \o t /\ t \in Seq(Cmds)
  BY AppendIsConcat
<1>2. (\A c : InSeq(c, t) <=> c = e) /\ DistinctSeq(t)
  BY InSimple
<1> HIDE DEF t
<1>3. /\ \A c : InSeq(c, s \o t) <=> InSeq(c, s) \/ InSeq(c, t)
      /\ DistinctSeq(s) /\ DistinctSeq(t) /\ (\A c : InSeq(c, s) => ~InSeq(c, t))
         => DistinctSeq(s \o t)
  BY <1>1, InConcat
<1> QED BY <1>1, <1>2, <1>3

LEMMA InWithout ==
  ASSUME NEW s \in Seq(Cmds), NEW i \in DOMAIN s, DistinctSeq(s)
  PROVE  \A c : InSeq(c, Without(s, i)) <=> InSeq(c, s) /\ c # s[i]
<1> DEFINE w == Without(s, i)
           n == Len(s)
<1>1. /\ n \in Nat /\ i \in 1..n /\ w \in Seq(Cmds) /\ Len(w) = n - 1
      /\ \A j \in 1..(n - 1) : w[j] = IF j < i THEN s[j] ELSE s[j + 1]
  BY WithoutProps, LenProperties
<1>2. DOMAIN s = 1..n /\ DOMAIN w = 1..(n - 1)
  BY <1>1, LenProperties
<1> HIDE DEF w, n
<1>3. ASSUME NEW j \in DOMAIN w PROVE \E k \in DOMAIN s : k # i /\ w[j] = s[k]
  <2>1. CASE j < i
    BY <1>1, <1>2, <2>1
  <2>2. CASE ~(j < i)
    <3>1. j + 1 \in DOMAIN s /\ j + 1 # i /\ w[j] = s[j + 1]
      BY <1>1, <1>2, <2>2
    <3> QED BY <3>1
  <2> QED BY <2>1, <2>2
<1>4. ASSUME NEW k \in DOMAIN s, k # i PROVE \E j \in DOMAIN w : w[j] = s[k]
  <2>1. CASE k < i
    <3>1. k \in DOMAIN w /\ w[k] = s[k]
      BY <1>1, <1>2, <2>1
    <3> QED BY <3>1
  <2>2. CASE ~(k < i)
    <3>1. k - 1 \in 1..(n - 1) /\ ~(k - 1 < i) /\ (k - 1) + 1 = k
      BY <1>1, <1>2, <1>4, <2>2
    <3>2. w[k - 1] = s[k]
      BY <1>1, <3>1
    <3> QED BY <1>2, <3>1, <3>2
  <2> QED BY <2>1, <2>2
<1>5. ASSUME NEW c, InSeq(c, w) PROVE InSeq(c, s) /\ c # s[i]
  <2>1. PICK j \in DOMAIN w : w[j] = c
    BY <1>5 DEF InSeq
  <2>2. PICK k \in DOMAIN s : k # i /\ w[j] = s[k]
    BY <1>3
  <2> QED BY <2>1, <2>2 DEF InSeq, DistinctSeq
<1>6. ASSUME NEW c, InSeq(c, s), c # s[i] PROVE InSeq(c, w)
  <2>1. PICK k \in DOMAIN s : s[k] = c
    BY <1>6 DEF InSeq
  <2>2. PICK j \in DOMAIN w : w[j] = s[k]
    BY <1>4, <1>6, <2>1
  <2> QED BY <2>1, <2>2 DEF InSeq
<1> QED BY <1>5, <1>6 DEF w

LEMMA InTail ==
  ASSUME NEW s \in Seq(Cmds), s # <<>>, DistinctSeq(s)
  PROVE  /\ Tail(s) \in Seq(Cmds) /\ DistinctSeq(Tail(s))
         /\ InSeq(Head(s), s) /\ Head(s) \in Cmds
         /\ \A c : InSeq(c, Tail(s)) <=> InSeq(c, s) /\ c # Head(s)
<1> DEFINE t == Tail(s)
           n == Len(s)
<1>1. /\ Head(s) \in Cmds /\ t \in Seq(Cmds) /\ Len(t) = n - 1
      /\ \A i \in 1..Len(t) : t[i] = s[i + 1]
  BY HeadTailProperties
<1>2. n \in Nat /\ n >= 1 /\ DOMAIN s = 1..n /\ DOMAIN t = 1..(n - 1) /\ Head(s) = s[1]
  <2>1. n \in Nat /\ n # 0
    BY LenProperties, EmptySeq
  <2>2. DOMAIN s = 1..n /\ DOMAIN t = 1..Len(t)
    BY <1>1, LenProperties
  <2>3. Head(s) = s[1]
    OBVIOUS
  <2> QED BY <1>1, <2>1, <2>2, <2>3
<1>0. \A i \in 1..(n - 1) : t[i] = s[i + 1]
  BY <1>1
<1> HIDE DEF t, n
<1>3. ASSUME NEW i \in DOMAIN t, NEW j \in DOMAIN t, t[i] = t[j] PROVE i = j
  <2>1. i + 1 \in DOMAIN s /\ j + 1 \in DOMAIN s /\ s[i + 1] = s[j + 1]
    BY <1>0, <1>2, <1>3
  <2>2. i + 1 = j + 1
    BY <2>1 DEF DistinctSeq
  <2> QED BY <1>2, <2>2
<1>4. ASSUME NEW c, InSeq(c, t) PROVE InSeq(c, s) /\ c # Head(s)
  <2>1. PICK i \in DOMAIN t : t[i] = c
    BY <1>4 DEF InSeq
  <2>2. i + 1 \in DOMAIN s /\ s[i + 1] = c /\ i + 1 # 1 /\ 1 \in DOMAIN s
    BY <1>0, <1>2, <2>1
  <2> QED BY <1>2, <2>2 DEF InSeq, DistinctSeq
<1>5. ASSUME NEW c, InSeq(c, s), c # Head(s) PROVE InSeq(c, t)
  <2>1. PICK k \in DOMAIN s : s[k] = c
    BY <1>5 DEF InSeq
  <2>2. k - 1 \in 1..(n - 1) /\ (k - 1) + 1 = k
    BY <1>2, <1>5, <2>1
  <2>3. t[k - 1] = c
    BY <1>0, <2>1, <2>2
  <2> QED BY <1>2, <2>2, <2>3 DEF InSeq
<1>6. InSeq(Head(s), s)
  BY <1>2 DEF InSeq
<1> QED BY <1>1, <1>3, <1>4, <1>5, <1>6 DEF t, DistinctSeq

\* What a step does to the submissions: nothing; one is accepted; those in S
\* are decided and go to a completion loop; one is completed.
Same == owed' = owed /\ \A c : InWork(c)' <=> InWork(c)
Accepts(d) ==
  /\ d \in Cmds /\ d \notin owed /\ ~IdIn(CmdId[d], pending) /\ ~IdIn(CmdId[d], in_flight)
  /\ owed' = owed \cup {d} /\ \A c : InWork(c)' <=> InWork(c) \/ c = d
Settles(S) ==
  /\ owed' = owed
  /\ \A c : (c \in S => InWork(c)) /\ (InWork(c)' <=> InWork(c) /\ c \notin S)
Reports(d) ==
  /\ d \in owed /\ d \in Cmds /\ ~InWork(d)
  /\ owed' = owed \ {d} /\ \A c : InWork(c)' <=> InWork(c)

Moves == Same \/ (\E d : Accepts(d)) \/ (\E S : Settles(S)) \/ (\E d : Reports(d))

\* The places afterwards, by what the stack holds afterwards.
LEMMA OnceSame ==
  ASSUME OncePlaces, Same, FramesOK(stack)', Once(stack)',
         \A c : Held(c, stack)' <=> Held(c, stack)
  PROVE  OnceInv'
BY DEF OncePlaces, Same, OnceInv

LEMMA OnceAccepts ==
  ASSUME OncePlaces, NEW d, Accepts(d), FramesOK(stack)', Once(stack)',
         \A c : Held(c, stack)' <=> Held(c, stack)
  PROVE  OnceInv'
<1>1. ~Held(d, stack)
  BY DEF OncePlaces, Accepts
<1> QED BY <1>1 DEF OncePlaces, Accepts, OnceInv

LEMMA OnceSettles ==
  ASSUME OncePlaces, NEW S, Settles(S), FramesOK(stack)', Once(stack)',
         \A c : Held(c, stack)' <=> Held(c, stack) \/ c \in S
  PROVE  OnceInv'
<1>1. ASSUME NEW c, Held(c, stack)' PROVE ~InWork(c)'
  BY <1>1 DEF OncePlaces, Settles
<1>2. ASSUME NEW c \in Cmds PROVE c \in owed' <=> InWork(c)' \/ Held(c, stack)'
  BY DEF OncePlaces, Settles
<1> QED BY <1>1, <1>2 DEF OncePlaces, OnceInv

LEMMA OnceReports ==
  ASSUME OncePlaces, NEW d, Reports(d), FramesOK(stack)', Once(stack)',
         \A c : Held(c, stack)' <=> Held(c, stack) /\ c # d
  PROVE  OnceInv'
<1>1. ASSUME NEW c, Held(c, stack)' PROVE ~InWork(c)'
  BY <1>1 DEF OncePlaces, Reports
<1>2. ASSUME NEW c \in Cmds PROVE c \in owed' <=> InWork(c)' \/ Held(c, stack)'
  BY DEF OncePlaces, Reports
<1> QED BY <1>1, <1>2 DEF OncePlaces, OnceInv

\* A frame without claims is pushed or popped.
LEMMA EmptyPush ==
  ASSUME NEW st \in Seq(Frame), NEW f \in Frame, FrameOK(f), Claims(f) = <<>>,
         Once(st), FramesOK(st)
  PROVE  /\ Append(st, f) \in Seq(Frame) /\ FramesOK(Append(st, f)) /\ Once(Append(st, f))
         /\ \A c : Held(c, Append(st, f)) <=> Held(c, st)
BY PushOnce, InSimple

LEMMA TopOff ==
  ASSUME NEW st \in Seq(Frame), st # <<>>, Once(st), FramesOK(st)
  PROVE  /\ Pop(st) \in Seq(Frame) /\ FramesOK(Pop(st)) /\ Once(Pop(st))
         /\ Top(st) \in Frame /\ FrameOK(Top(st)) /\ DistinctSeq(Claims(Top(st)))
         /\ \A c : InSeq(c, Claims(Top(st))) => ~Held(c, Pop(st))
         /\ \A c : Held(c, st) <=> Held(c, Pop(st)) \/ InSeq(c, Claims(Top(st)))
<1> DEFINE p == Pop(st)
           f == Top(st)
<1>1. p \in Seq(Frame) /\ f \in Frame /\ st = Append(p, f)
  BY PopPush
<1> HIDE DEF p, f
<1>2. /\ \A c : Held(c, st) <=> Held(c, p) \/ InSeq(c, Claims(f))
      /\ Once(st) <=> /\ Once(p)
                      /\ DistinctSeq(Claims(f))
                      /\ \A c : InSeq(c, Claims(f)) => ~Held(c, p)
      /\ FramesOK(st) <=> FramesOK(p) /\ FrameOK(f)
  BY <1>1, PushOnce
<1> QED BY <1>1, <1>2 DEF p, f

LEMMA FrameClaims ==
  /\ FrameOK(PumpFrame) /\ Claims(PumpFrame) = <<>>
  /\ FrameOK(UserFrame) /\ Claims(UserFrame) = <<>>
  /\ \A cs : FrameOK(CollectFrame(cs)) /\ Claims(CollectFrame(cs)) = cs
  /\ \A cs, o : /\ FrameOK(CompleteFrame(cs, o))
                /\ Claims(CompleteFrame(cs, o)) = IF o = "kRejected" THEN <<>> ELSE cs
BY DEF FrameOK, Claims, PumpFrame, UserFrame, CollectFrame, CompleteFrame

\* Distinct ids make distinct commands.
LEMMA WorkDistinct ==
  ASSUME SingleFlight
  PROVE  /\ DistinctSeq(pending) /\ DistinctSeq(in_flight)
         /\ \A c : InSeq(c, in_flight) => ~InSeq(c, pending)
BY DEF SingleFlight, DistinctSeq, InSeq, is_in_flight

\* A decided submission e leaves one container and goes onto the list of a loop.
LEMMA OneSettles ==
  ASSUME TypeOK, SingleFlight, owed' = owed, NEW e \in Cmds,
         \/ \E i \in DOMAIN in_flight : /\ e = in_flight[i] /\ pending' = pending
                                        /\ in_flight' = Without(in_flight, i)
         \/ \E i \in DOMAIN pending : /\ e = pending[i] /\ in_flight' = in_flight
                                      /\ pending' = Without(pending, i)
  PROVE  Settles({e}) /\ InWork(e)
<1>0. pending \in Seq(Cmds) /\ in_flight \in Seq(Cmds)
  BY DEF TypeOK
<1>1. /\ DistinctSeq(pending) /\ DistinctSeq(in_flight)
      /\ \A c : InSeq(c, in_flight) => ~InSeq(c, pending)
  BY WorkDistinct
<1>2. CASE \E i \in DOMAIN in_flight : /\ e = in_flight[i] /\ pending' = pending
                                       /\ in_flight' = Without(in_flight, i)
  <2>1. PICK i \in DOMAIN in_flight : /\ e = in_flight[i] /\ pending' = pending
                                      /\ in_flight' = Without(in_flight, i)
    BY <1>2
  <2>2. \A c : InSeq(c, in_flight') <=> InSeq(c, in_flight) /\ c # e
    BY <1>0, <1>1, <2>1, InWithout
  <2>3. InSeq(e, in_flight)
    BY <2>1 DEF InSeq
  <2> QED BY <1>1, <2>1, <2>2, <2>3 DEF Settles, InWork
<1>3. CASE \E i \in DOMAIN pending : /\ e = pending[i] /\ in_flight' = in_flight
                                     /\ pending' = Without(pending, i)
  <2>1. PICK i \in DOMAIN pending : /\ e = pending[i] /\ in_flight' = in_flight
                                    /\ pending' = Without(pending, i)
    BY <1>3
  <2>2. \A c : InSeq(c, pending') <=> InSeq(c, pending) /\ c # e
    BY <1>0, <1>1, <2>1, InWithout
  <2>3. InSeq(e, pending)
    BY <2>1 DEF InSeq
  <2> QED BY <1>1, <2>1, <2>2, <2>3 DEF Settles, InWork
<1> QED BY <1>2, <1>3

LEMMA OnceStep ==
  ASSUME TypeOK, SingleFlight, OnceInv, Next
  PROVE  OnceInv' /\ Moves
<1>0. /\ pending \in Seq(Cmds) /\ in_flight \in Seq(Cmds) /\ stack \in Seq(Frame)
      /\ FramesOK(stack) /\ OncePlaces /\ Once(stack)
      /\ \A c : Held(c, stack) => ~InWork(c)
  BY DEF TypeOK, OnceInv, OncePlaces
<1>f. PumpFrame \in Frame /\ UserFrame \in Frame
  BY FrameTypes
<1>d. /\ DistinctSeq(pending) /\ DistinctSeq(in_flight)
      /\ \A c : InSeq(c, in_flight) => ~InSeq(c, pending)
  BY WorkDistinct
\* Nothing changes but frames without claims.
<1>s. ASSUME UNCHANGED <<pending, in_flight, owed>>, FramesOK(stack)', Once(stack)',
             \A c : Held(c, stack)' <=> Held(c, stack)
      PROVE  OnceInv' /\ Moves
  <2>1. Same
    BY <1>s DEF Same, InWork
  <2> QED BY <1>0, <1>s, <2>1, OnceSame DEF Moves
<1>e. ASSUME NEW f \in Frame, FrameOK(f), Claims(f) = <<>>, stack' = Append(stack, f)
      PROVE  /\ FramesOK(stack)' /\ Once(stack)'
             /\ \A c : Held(c, stack)' <=> Held(c, stack)
  BY <1>0, <1>e, EmptyPush
<1>o. ASSUME stack # <<>>, Claims(Top(stack)) = <<>>, stack' = Pop(stack)
      PROVE  /\ FramesOK(stack)' /\ Once(stack)'
             /\ \A c : Held(c, stack)' <=> Held(c, stack)
  BY <1>0, <1>o, TopOff, InSimple
<1>1. ASSUME NEW d \in Cmds, Submit(d) PROVE OnceInv' /\ Moves
  <2>1. CASE duplicate(CmdId[d])
    <3>1. stack' = Append(stack, CompleteFrame(<<d>>, "kRejected"))
          /\ UNCHANGED <<pending, in_flight, owed>>
      BY <1>1, <2>1 DEF Submit, submit, queueVars
    <3>2. CompleteFrame(<<d>>, "kRejected") \in Frame
      <4>1. <<d>> \in Seq(Cmds)
        OBVIOUS
      <4> QED BY <4>1, FrameTypes DEF Outcome
    <3> QED BY <1>e, <1>s, <3>1, <3>2, FrameClaims
  <2>2. CASE ~duplicate(CmdId[d])
    <3>1. /\ pending' = Append(pending, d) \/ pending' = <<d>> \o pending
          /\ owed' = owed \cup {d} /\ stack' = Append(stack, PumpFrame)
          /\ in_flight' = in_flight /\ d \notin owed
      BY <1>1, <2>2 DEF Submit, submit
    <3>2. ~IdIn(CmdId[d], pending) /\ ~IdIn(CmdId[d], in_flight)
      BY <2>2 DEF duplicate, is_in_flight, is_pending, IdIn
    <3>3. \A c : InSeq(c, pending') <=> InSeq(c, pending) \/ c = d
      <4>1. CASE pending' = Append(pending, d)
        BY <1>0, <4>1, InAppend
      <4>2. CASE pending' = <<d>> \o pending
        <5>1. <<d>> \in Seq(Cmds) /\ \A c : InSeq(c, <<d>>) <=> c = d
          BY InSimple
        <5>2. \A c : InSeq(c, pending') <=> InSeq(c, <<d>>) \/ InSeq(c, pending)
          BY <1>0, <4>2, <5>1, InConcat
        <5> QED BY <5>1, <5>2
      <4> QED BY <3>1, <4>1, <4>2
    <3>4. Accepts(d)
      BY <3>1, <3>2, <3>3 DEF Accepts, InWork
    <3>5. /\ FramesOK(stack)' /\ Once(stack)'
          /\ \A c : Held(c, stack)' <=> Held(c, stack)
      BY <1>e, <1>f, <3>1, FrameClaims
    <3> QED BY <1>0, <3>4, <3>5, OnceAccepts DEF Moves
  <2> QED BY <2>1, <2>2
<1>2. ASSUME NEW r \in BOOLEAN, SetReady(r) PROVE OnceInv' /\ Moves
  <2>1. UNCHANGED <<pending, in_flight, owed>>
        /\ (stack' = stack \/ stack' = Append(stack, PumpFrame))
    BY <1>2 DEF SetReady, set_ready
  <2>2. CASE stack' = stack
    BY <1>0, <1>s, <2>1, <2>2
  <2>3. CASE stack' = Append(stack, PumpFrame)
    BY <1>e, <1>f, <1>s, <2>1, <2>3, FrameClaims
  <2> QED BY <2>1, <2>2, <2>3
<1>3. ASSUME NEW id \in Ids, OnResponse(id) PROVE OnceInv' /\ Moves
  <2>1. PICK i \in DOMAIN in_flight :
          /\ in_flight' = Without(in_flight, i) /\ pending' = pending /\ owed' = owed
          /\ stack' = stack \o <<PumpFrame, CompleteFrame(<<in_flight[i]>>, "kResponded")>>
    BY <1>3 DEF OnResponse, on_response
  <2> DEFINE e == in_flight[i]
             f == CompleteFrame(<<e>>, "kResponded")
             st == Append(stack, PumpFrame)
  <2>2. e \in Cmds
    BY <1>0, Elements
  <2>3. Settles({e}) /\ InWork(e)
    BY <2>1, <2>2, OneSettles
  <2>4. f \in Frame /\ FrameOK(f) /\ Claims(f) = <<e>>
    <3>1. <<e>> \in Seq(Cmds)
      BY <2>2
    <3> QED BY <3>1, FrameTypes, FrameClaims DEF Outcome
  <2>5. st \in Seq(Frame) /\ FramesOK(st) /\ Once(st)
        /\ \A c : Held(c, st) <=> Held(c, stack)
    BY <1>0, <1>f, EmptyPush, FrameClaims
  <2>6. stack' = Append(st, f)
    BY <1>0, <1>f, <2>1, <2>4, PushTwoIs
  <2>7. (\A c : InSeq(c, <<e>>) <=> c = e) /\ DistinctSeq(<<e>>)
    BY InSimple
  <2> HIDE DEF e, f, st
  <2>8. ~Held(e, st)
    BY <1>0, <2>3, <2>5
  <2>9. /\ FramesOK(stack') /\ Once(stack')
        /\ \A c : Held(c, stack') <=> Held(c, st) \/ c = e
    BY <2>4, <2>5, <2>6, <2>7, <2>8, PushOnce
  <2> QED BY <1>0, <2>3, <2>5, <2>9, OnceSettles DEF Moves
<1>4. CASE Tick
  <2> DEFINE st == Append(stack, PumpFrame)
             f == CollectFrame(<<>>)
  <2>1. UNCHANGED <<pending, in_flight, owed>> /\ stack' = stack \o <<PumpFrame, f>>
    BY <1>4 DEF Tick, tick, queueVars
  <2>2. f \in Frame /\ FrameOK(f) /\ Claims(f) = <<>>
    BY FrameTypes, FrameClaims, EmptySeq
  <2>3. st \in Seq(Frame) /\ FramesOK(st) /\ Once(st)
        /\ \A c : Held(c, st) <=> Held(c, stack)
    BY <1>0, <1>f, EmptyPush, FrameClaims
  <2>4. stack' = Append(st, f)
    BY <1>0, <1>f, <2>1, <2>2, PushTwoIs
  <2> HIDE DEF f, st
  <2>5. /\ FramesOK(stack') /\ Once(stack')
        /\ \A c : Held(c, stack') <=> Held(c, st)
    BY <2>2, <2>3, <2>4, EmptyPush
  <2> QED BY <1>s, <2>1, <2>3, <2>5
<1>5. CASE CancelAll
  <2> DEFINE all == in_flight \o pending
             f == CompleteFrame(all, "kCanceled")
             S == {c \in Cmds : InWork(c)}
  <2>1. /\ pending' = <<>> /\ in_flight' = <<>> /\ owed' = owed
        /\ stack' = Append(stack, f)
    BY <1>5 DEF CancelAll, cancel_all
  <2>2. all \in Seq(Cmds)
    BY <1>0, ConcatProperties
  <2>3. f \in Frame /\ FrameOK(f) /\ Claims(f) = all
    BY <2>2, FrameTypes, FrameClaims DEF Outcome
  <2>4. DistinctSeq(all) /\ \A c : InSeq(c, all) <=> InWork(c)
    BY <1>0, <1>d, InConcat DEF InWork
  <2>5. \A c : InWork(c) => c \in Cmds
    BY <1>0, Elements DEF InWork, InSeq
  <2>6. \A c : ~InWork(c)'
    BY <2>1, InSimple DEF InWork
  <2>7. \A c : c \in S <=> InWork(c)
    BY <2>5
  <2> HIDE DEF all, f, S
  <2>8. Settles(S)
    BY <2>1, <2>6, <2>7 DEF Settles
  <2>9. /\ FramesOK(stack') /\ Once(stack')
        /\ \A c : Held(c, stack') <=> Held(c, stack) \/ InWork(c)
    BY <1>0, <2>1, <2>3, <2>4, PushOnce
  <2> QED BY <1>0, <2>7, <2>8, <2>9, OnceSettles DEF Moves
<1>6. CASE PumpSend
  <2>1. PICK i \in DOMAIN pending :
          /\ pending' = Without(pending, i)
          /\ in_flight' = Append(in_flight, pending[i])
    BY <1>6 DEF PumpSend
  <2>2. pending[i] \in Cmds /\ InSeq(pending[i], pending)
    BY <1>0, Elements DEF InSeq
  <2>3. /\ \A c : InSeq(c, pending') <=> InSeq(c, pending) /\ c # pending[i]
        /\ \A c : InSeq(c, in_flight') <=> InSeq(c, in_flight) \/ c = pending[i]
    BY <1>0, <1>d, <2>1, <2>2, InWithout, InAppend
  <2>4. owed' = owed /\ stack' = Append(stack, UserFrame)
    BY <1>6 DEF PumpSend
  <2>5. Same
    BY <2>2, <2>3, <2>4 DEF Same, InWork
  <2>6. /\ FramesOK(stack)' /\ Once(stack)'
        /\ \A c : Held(c, stack)' <=> Held(c, stack)
    BY <1>e, <1>f, <2>4, FrameClaims
  <2> QED BY <1>0, <2>5, <2>6, OnceSame DEF Moves
<1>7. CASE PumpDone \/ CompleteDone \/ Return
  <2>1. /\ stack # <<>> /\ stack' = Pop(stack) /\ UNCHANGED <<pending, in_flight, owed>>
        /\ Top(stack).fn \in {"pump", "user"} \/ Top(stack).cmds = <<>>
    BY <1>7 DEF PumpDone, CompleteDone, Return, OnTop, queueVars
  <2>2. FrameOK(Top(stack))
    BY <1>0, <2>1, TopOff
  <2>3. Claims(Top(stack)) = <<>>
    BY <2>1, <2>2 DEF FrameOK, Claims
  <2> QED BY <1>o, <1>s, <2>1, <2>3
\* tick() takes e out of a container onto its list.
<1>c. ASSUME NEW e \in Cmds, Settles({e}), InWork(e), OnTop("collect"),
             stack' = Append(Pop(stack), CollectFrame(Append(Top(stack).cmds, e)))
      PROVE  OnceInv' /\ Moves
  <2> DEFINE st == Pop(stack)
             cs == Top(stack).cmds
             ds == Append(cs, e)
             f == CollectFrame(ds)
  <2>1. stack # <<>> /\ Top(stack).fn = "collect"
    BY <1>c DEF OnTop
  <2>2. /\ st \in Seq(Frame) /\ FramesOK(st) /\ Once(st)
        /\ Top(stack) \in Frame /\ FrameOK(Top(stack)) /\ DistinctSeq(Claims(Top(stack)))
        /\ \A c : InSeq(c, Claims(Top(stack))) => ~Held(c, st)
        /\ \A c : Held(c, stack) <=> Held(c, st) \/ InSeq(c, Claims(Top(stack)))
    BY <1>0, <2>1, TopOff
  <2>3. Claims(Top(stack)) = cs /\ cs \in Seq(Cmds)
    BY <2>1, <2>2 DEF FrameOK, Claims, Frame
  <2>4. ~InSeq(e, cs) /\ ~Held(e, st)
    BY <1>0, <1>c, <2>2, <2>3
  <2>5. /\ ds \in Seq(Cmds) /\ DistinctSeq(ds)
        /\ \A c : InSeq(c, ds) <=> InSeq(c, cs) \/ c = e
    BY <2>2, <2>3, <2>4, InAppend, AppendProperties
  <2>6. f \in Frame /\ FrameOK(f) /\ Claims(f) = ds
    BY <2>5, FrameTypes, FrameClaims
  <2>7. stack' = Append(st, f)
    BY <1>c
  <2> HIDE DEF st, cs, ds, f
  <2>8. /\ FramesOK(stack') /\ Once(stack')
        /\ \A c : Held(c, stack') <=> Held(c, st) \/ InSeq(c, ds)
    BY <2>2, <2>3, <2>4, <2>5, <2>6, <2>7, PushOnce
  <2>9. \A c : Held(c, stack') <=> Held(c, stack) \/ c \in {e}
    BY <2>2, <2>3, <2>5, <2>8
  <2> QED BY <1>0, <1>c, <2>8, <2>9, OnceSettles DEF Moves
<1>8. CASE CollectInFlight
  <2>1. PICK i \in DOMAIN in_flight :
          /\ in_flight' = Without(in_flight, i) /\ pending' = pending /\ owed' = owed
          /\ stack' = Append(Pop(stack), CollectFrame(Append(Top(stack).cmds, in_flight[i])))
    BY <1>8 DEF CollectInFlight
  <2>2. in_flight[i] \in Cmds /\ OnTop("collect")
    BY <1>0, <1>8, Elements DEF CollectInFlight
  <2>3. Settles({in_flight[i]}) /\ InWork(in_flight[i])
    BY <2>1, <2>2, OneSettles
  <2> QED BY <1>c, <2>1, <2>2, <2>3
<1>9. CASE CollectPending
  <2>1. PICK i \in DOMAIN pending :
          /\ pending' = Without(pending, i) /\ in_flight' = in_flight /\ owed' = owed
          /\ stack' = Append(Pop(stack), CollectFrame(Append(Top(stack).cmds, pending[i])))
    BY <1>9 DEF CollectPending
  <2>2. pending[i] \in Cmds /\ OnTop("collect")
    BY <1>0, <1>9, Elements DEF CollectPending
  <2>3. Settles({pending[i]}) /\ InWork(pending[i])
    BY <2>1, <2>2, OneSettles
  <2> QED BY <1>c, <2>1, <2>2, <2>3
<1>10. CASE CollectDone
  <2> DEFINE st == Pop(stack)
             cs == Top(stack).cmds
             f == CompleteFrame(cs, "kTimedOut")
  <2>1. /\ stack # <<>> /\ Top(stack).fn = "collect"
        /\ stack' = Append(st, f) /\ UNCHANGED <<pending, in_flight, owed>>
    BY <1>10 DEF CollectDone, OnTop, queueVars
  <2>2. /\ st \in Seq(Frame) /\ FramesOK(st) /\ Once(st)
        /\ Top(stack) \in Frame /\ FrameOK(Top(stack)) /\ DistinctSeq(Claims(Top(stack)))
        /\ \A c : InSeq(c, Claims(Top(stack))) => ~Held(c, st)
        /\ \A c : Held(c, stack) <=> Held(c, st) \/ InSeq(c, Claims(Top(stack)))
    BY <1>0, <2>1, TopOff
  <2>3. Claims(Top(stack)) = cs /\ cs \in Seq(Cmds)
    BY <2>1, <2>2 DEF FrameOK, Claims, Frame
  <2>4. f \in Frame /\ FrameOK(f) /\ Claims(f) = cs
    BY <2>3, FrameTypes, FrameClaims DEF Outcome
  <2> HIDE DEF st, cs, f
  <2>5. /\ FramesOK(stack') /\ Once(stack')
        /\ \A c : Held(c, stack') <=> Held(c, st) \/ InSeq(c, cs)
    BY <2>1, <2>2, <2>3, <2>4, PushOnce
  <2> QED BY <1>s, <2>1, <2>2, <2>3, <2>5
<1>11. CASE Complete
  <2> DEFINE st == Pop(stack)
             g == Top(stack)
             d == Head(g.cmds)
             f == CompleteFrame(Tail(g.cmds), g.outcome)
             su == Append(st, f)
  <2>1. /\ stack # <<>> /\ g.fn = "complete" /\ g.cmds # <<>>
        /\ stack' = st \o <<f, UserFrame>> /\ UNCHANGED <<pending, in_flight>>
        /\ owed' = IF g.outcome = "kRejected" THEN owed ELSE owed \ {d}
    BY <1>11 DEF Complete, OnTop
  <2>2. /\ st \in Seq(Frame) /\ FramesOK(st) /\ Once(st)
        /\ g \in Frame /\ DistinctSeq(Claims(g))
        /\ \A c : InSeq(c, Claims(g)) => ~Held(c, st)
        /\ \A c : Held(c, stack) <=> Held(c, st) \/ InSeq(c, Claims(g))
    BY <1>0, <2>1, TopOff
  <2>3. g.cmds \in Seq(Cmds) /\ g.outcome \in Outcome \cup {"none"}
    BY <2>2 DEF Frame
  <2>4. f \in Frame /\ FrameOK(f)
        /\ Claims(f) = IF g.outcome = "kRejected" THEN <<>> ELSE Tail(g.cmds)
    <3>1. Tail(g.cmds) \in Seq(Cmds)
      BY <2>1, <2>3, HeadTailProperties
    <3> QED BY <2>3, <3>1, FrameClaims DEF Frame, CompleteFrame
  <2>5. stack' = Append(su, UserFrame)
    BY <1>f, <2>1, <2>2, <2>4, PushTwoIs
  <2>6. CASE g.outcome = "kRejected"
    <3>1. Claims(g) = <<>> /\ Claims(f) = <<>> /\ owed' = owed
      BY <2>1, <2>4, <2>6 DEF Claims
    <3> HIDE DEF st, g, f, d
    <3>2. /\ su \in Seq(Frame) /\ FramesOK(su) /\ Once(su)
          /\ \A c : Held(c, su) <=> Held(c, st)
      BY <2>2, <2>4, <3>1, EmptyPush
    <3> HIDE DEF su
    <3>3. /\ FramesOK(stack') /\ Once(stack')
          /\ \A c : Held(c, stack') <=> Held(c, su)
      BY <1>f, <2>5, <3>2, EmptyPush, FrameClaims
    <3>4. \A c : Held(c, stack') <=> Held(c, stack)
      BY <2>2, <3>1, <3>2, <3>3, InSimple
    <3> QED BY <1>s, <2>1, <3>1, <3>3, <3>4
  <2>7. CASE g.outcome # "kRejected"
    <3>1. Claims(g) = g.cmds /\ Claims(f) = Tail(g.cmds) /\ owed' = owed \ {d}
      BY <2>1, <2>4, <2>7 DEF Claims
    <3>2. /\ DistinctSeq(Claims(f)) /\ InSeq(d, Claims(g)) /\ d \in Cmds
          /\ \A c : InSeq(c, Claims(f)) <=> InSeq(c, Claims(g)) /\ c # d
      BY <2>1, <2>2, <2>3, <3>1, InTail
    <3> HIDE DEF st, g, f, d
    <3>3. /\ su \in Seq(Frame) /\ FramesOK(su) /\ Once(su)
          /\ \A c : Held(c, su) <=> Held(c, st) \/ InSeq(c, Claims(f))
      BY <2>2, <2>4, <3>2, PushOnce
    <3> HIDE DEF su
    <3>4. /\ FramesOK(stack') /\ Once(stack')
          /\ \A c : Held(c, stack') <=> Held(c, su)
      BY <1>f, <2>5, <3>3, EmptyPush, FrameClaims
    <3>5. \A c : Held(c, stack') <=> Held(c, stack) /\ c # d
      BY <2>2, <3>2, <3>3, <3>4
    <3>6. Held(d, stack)
      BY <2>2, <3>2
    <3>7. d \in owed /\ ~InWork(d)
      BY <1>0, <3>2, <3>6 DEF OncePlaces
    <3>8. Reports(d)
      BY <2>1, <3>1, <3>2, <3>7 DEF Reports, InWork
    <3> QED BY <1>0, <3>4, <3>5, <3>8, OnceReports DEF Moves
  <2> QED BY <2>6, <2>7
<1>12. CASE Elapse
  BY <1>0, <1>12, <1>s DEF Elapse
<1> QED
  BY <1>1, <1>2, <1>3, <1>4, <1>5, <1>6, <1>7, <1>8, <1>9, <1>10, <1>11, <1>12
     DEF Next, InnerStep

LEMMA OnceAlways == Spec => []OnceInv
<1>1. Init => OnceInv
  <2> SUFFICES ASSUME Init PROVE OnceInv
    OBVIOUS
  <2>1. stack = <<>> /\ pending = <<>> /\ in_flight = <<>> /\ owed = {} /\ Len(stack) = 0
    BY EmptySeq DEF Init
  <2>2. \A c : ~Held(c, stack)
    BY <2>1 DEF Held, HeldTo
  <2>3. Once(stack) /\ FramesOK(stack)
    BY <2>1 DEF Once, OnceTo, FramesOK
  <2>4. \A c : ~InWork(c)
    BY <2>1, InSimple DEF InWork
  <2> QED BY <2>1, <2>2, <2>3, <2>4 DEF OnceInv, OncePlaces
<1>2. TypeOK /\ SingleFlight /\ OnceInv /\ [Next]_vars => OnceInv'
  <2>1. ASSUME OnceInv, UNCHANGED vars PROVE OnceInv'
    <3>1. stack' = stack /\ pending' = pending /\ in_flight' = in_flight /\ owed' = owed
      BY <2>1 DEF vars
    <3>2. Same
      BY <3>1 DEF Same, InWork
    <3> QED BY <2>1, <3>1, <3>2, OnceSame DEF OnceInv, OncePlaces
  <2> QED BY <2>1, OnceStep
<1> QED
  BY <1>1, <1>2, TypeCorrect, SingleFlightHolds, PTL DEF Spec

\* The slots are the places in the lists of the loops.
LEMMA SlotPlaces ==
  /\ \A s : s \in Slots <=> \E k \in DOMAIN stack :
                              \E i \in DOMAIN Claims(stack[k]) : s = <<k, i>>
  /\ \A k \in DOMAIN stack : \A i \in DOMAIN Claims(stack[k]) :
       SlotCmd(<<k, i>>) = Claims(stack[k])[i]
<1>1. ASSUME NEW s, s \in Slots
      PROVE  \E k \in DOMAIN stack : \E i \in DOMAIN Claims(stack[k]) : s = <<k, i>>
  <2>1. PICK k \in {j \in DOMAIN stack : stack[j].outcome # "kRejected"} :
          s \in {k} \X DOMAIN stack[k].cmds
    BY <1>1 DEF Slots
  <2>2. PICK i \in DOMAIN stack[k].cmds : s = <<k, i>>
    BY <2>1
  <2>3. Claims(stack[k]) = stack[k].cmds
    BY <2>1 DEF Claims
  <2> QED BY <2>1, <2>2, <2>3
<1>2. ASSUME NEW k \in DOMAIN stack, NEW i \in DOMAIN Claims(stack[k])
      PROVE  <<k, i>> \in Slots /\ SlotCmd(<<k, i>>) = Claims(stack[k])[i]
  <2>1. stack[k].outcome # "kRejected" /\ Claims(stack[k]) = stack[k].cmds
    BY DEF Claims
  <2>2. <<k, i>> \in {k} \X DOMAIN stack[k].cmds
    BY <2>1
  <2>3. <<k, i>> \in Slots
    BY <2>1, <2>2 DEF Slots
  <2> QED BY <2>1, <2>3 DEF SlotCmd
<1> QED BY <1>1, <1>2

\* Every accepted submission is completed exactly once: until its done() runs
\* it is waiting, in flight or on the list of one completion loop, and only
\* there, however tick(), cancel_all() and on_response() nest.
THEOREM ExactlyOnceHolds == Spec => []ExactlyOnce
<1>1. TypeOK /\ OnceInv => ExactlyOnce
  <2> SUFFICES ASSUME TypeOK, OnceInv PROVE ExactlyOnce
    OBVIOUS
  <2>0. DOMAIN stack = 1..Len(stack)
    BY LenProperties DEF TypeOK
  <2>1. \A c : Held(c, stack) <=> \E s \in Slots : SlotCmd(s) = c
    <3>1. ASSUME NEW c, Held(c, stack) PROVE \E s \in Slots : SlotCmd(s) = c
      <4>1. PICK k \in DOMAIN stack : InSeq(c, Claims(stack[k]))
        BY <2>0, <3>1 DEF Held, HeldTo
      <4>2. PICK i \in DOMAIN Claims(stack[k]) : Claims(stack[k])[i] = c
        BY <4>1 DEF InSeq
      <4>3. <<k, i>> \in Slots /\ SlotCmd(<<k, i>>) = c
        BY <4>2, SlotPlaces
      <4> QED BY <4>3
    <3>2. ASSUME NEW s \in Slots PROVE Held(SlotCmd(s), stack)
      <4>1. PICK k \in DOMAIN stack : \E i \in DOMAIN Claims(stack[k]) : s = <<k, i>>
        BY SlotPlaces
      <4>2. PICK i \in DOMAIN Claims(stack[k]) : s = <<k, i>>
        BY <4>1
      <4>3. SlotCmd(s) = Claims(stack[k])[i]
        BY <4>2, SlotPlaces
      <4> QED BY <2>0, <4>3 DEF Held, HeldTo, InSeq
    <3> QED BY <3>1, <3>2
  <2>2. ASSUME NEW s \in Slots, NEW t \in Slots, SlotCmd(s) = SlotCmd(t) PROVE s = t
    <3>1. PICK k \in DOMAIN stack : \E i \in DOMAIN Claims(stack[k]) : s = <<k, i>>
      BY SlotPlaces
    <3>2. PICK i \in DOMAIN Claims(stack[k]) : s = <<k, i>>
      BY <3>1
    <3>3. PICK l \in DOMAIN stack : \E j \in DOMAIN Claims(stack[l]) : t = <<l, j>>
      BY SlotPlaces
    <3>4. PICK j \in DOMAIN Claims(stack[l]) : t = <<l, j>>
      BY <3>3
    <3>5. Claims(stack[k])[i] = Claims(stack[l])[j]
      BY <2>2, <3>2, <3>4, SlotPlaces
    <3>6. k = l /\ i = j
      BY <2>0, <3>5 DEF OnceInv, OncePlaces, Once, OnceTo
    <3> QED BY <3>2, <3>4, <3>6
  <2> QED BY <2>1, <2>2 DEF ExactlyOnce, OnceInv, OncePlaces, InWork
<1> QED BY <1>1, TypeCorrect, OnceAlways, PTL

-----------------------------------------------------------------------------
(* The queue implements CommandService. *)

LEMMA PhaseIs ==
  ASSUME NEW c
  PROVE  Phase(c) = IF InWork(c) THEN "live" ELSE IF c \in owed THEN "settled" ELSE "idle"
BY DEF Phase, InWork

LEMMA PhaseIsNext ==
  ASSUME NEW c
  PROVE  Phase(c)' = IF InWork(c)' THEN "live" ELSE IF c \in owed' THEN "settled" ELSE "idle"
BY DEF Phase, InWork

\* What a client of the queue may rely on is what CommandService says.
THEOREM ImplementsService == Spec => ServiceSpec
<1> DEFINE ph == [c \in Cmds |-> Phase(c)]
<1>1. Init => Service!Init
  <2> SUFFICES ASSUME Init PROVE Service!Init
    OBVIOUS
  <2>1. \A c : ~InWork(c) /\ c \notin owed
    BY InSimple DEF Init, InWork
  <2>2. \A c \in Cmds : Phase(c) = "idle"
    BY <2>1, PhaseIs
  <2> QED BY <2>2 DEF Service!Init
<1>2. ASSUME TypeOK, SingleFlight, OnceInv, [Next]_vars
      PROVE  Service!Next \/ ph' = ph
  <2>0. /\ \A c \in Cmds : ph[c] = IF InWork(c) THEN "live"
                                   ELSE IF c \in owed THEN "settled" ELSE "idle"
        /\ \A c \in Cmds : ph'[c] = IF InWork(c)' THEN "live"
                                    ELSE IF c \in owed' THEN "settled" ELSE "idle"
    BY PhaseIs, PhaseIsNext
  <2>d. ph = [c \in Cmds |-> ph[c]] /\ ph' = [c \in Cmds |-> ph'[c]]
    OBVIOUS
  <2>1. CASE UNCHANGED vars
    BY <2>1 DEF vars, Phase
  <2>2. CASE Same
    <3>1. \A c \in Cmds : ph'[c] = ph[c]
      BY <2>0, <2>2 DEF Same
    <3> QED BY <3>1, <2>d
  <2>3. ASSUME NEW d, Accepts(d) PROVE Service!Next
    <3>1. d \in Cmds /\ ph[d] = "idle"
      BY <1>2, <2>0, <2>3 DEF Accepts, OnceInv, OncePlaces
    <3>2. \A c \in Cmds : ph[c] = "live" => CmdId[c] # CmdId[d]
      BY <2>0, <2>3 DEF Accepts, InWork, InSeq, IdIn
    <3>3. \A c \in Cmds : ph'[c] = IF c = d THEN "live" ELSE ph[c]
      BY <2>0, <2>3 DEF Accepts
    <3>4. ph' = [ph EXCEPT ![d] = "live"]
      BY <2>d, <3>1, <3>3
    <3> HIDE DEF ph
    <3>5. Service!Accept(d)
      BY <3>1, <3>2, <3>4 DEF Service!Accept, Service!Live, ph
    <3> QED BY <3>1, <3>5 DEF Service!Next
  <2>4. ASSUME NEW S, Settles(S) PROVE Service!Next \/ ph' = ph
    <3> DEFINE T == {c \in Cmds : c \in S}
    <3>1. \A c \in T : ph[c] = "live" /\ ph'[c] = "settled"
      BY <1>2, <2>0, <2>4 DEF Settles, OnceInv, OncePlaces
    <3>2. \A c \in Cmds \ T : ph'[c] = ph[c]
      BY <2>0, <2>4 DEF Settles
    <3>3. CASE T = {}
      BY <2>d, <3>2, <3>3
    <3>4. CASE T # {}
      <4>1. ph' = [c \in Cmds |-> IF c \in T THEN "settled" ELSE ph[c]]
        BY <2>d, <3>1, <3>2
      <4>2. T \in SUBSET Service!Live
        BY <3>1 DEF Service!Live
      <4>3. Service!Settle(T)
        BY <3>4, <4>1 DEF Service!Settle
      <4> QED BY <4>2, <4>3 DEF Service!Next
    <3> QED BY <3>3, <3>4
  <2>5. ASSUME NEW d, Reports(d) PROVE Service!Next
    <3>1. d \in Cmds /\ ph[d] = "settled"
      BY <2>0, <2>5 DEF Reports
    <3>2. \A c \in Cmds : ph'[c] = IF c = d THEN "idle" ELSE ph[c]
      BY <2>0, <2>5 DEF Reports
    <3>3. ph' = [ph EXCEPT ![d] = "idle"]
      BY <2>d, <3>1, <3>2
    <3> HIDE DEF ph
    <3>4. Service!Report(d)
      BY <3>1, <3>3 DEF Service!Report, ph
    <3> QED BY <3>1, <3>4 DEF Service!Next
  <2> QED BY <1>2, <2>1, <2>2, <2>3, <2>4, <2>5, OnceStep DEF Moves
<1>3. TypeOK /\ SingleFlight /\ OnceInv /\ [Next]_vars => [Service!Next]_ph
  BY <1>2
<1> QED
  BY <1>1, <1>3, TypeCorrect, SingleFlightHolds, OnceAlways, PTL
     DEF Spec, ServiceSpec, Service!Spec

-----------------------------------------------------------------------------
(* The queue below the session. *)

QueueInv == TypeOK /\ SingleFlight /\ OneQueuedInFlight /\ WakeupInv /\ OnceInv

\* What CommandQueue's own clients do not do: submit again what is outstanding.
Refuses ==
  \E c \in Cmds : /\ stack' = Append(stack, CompleteFrame(<<c>>, "kRejected"))
                  /\ UNCHANGED queueVars

LEMMA MayCall == stack = <<>> => CanCall
<1> SUFFICES ASSUME stack = <<>> PROVE CanCall
  OBVIOUS
<1>1. {i \in DOMAIN stack : stack[i].fn = "user"} = {}
  OBVIOUS
<1>2. Nesting = 0
  BY <1>1, FS_EmptySet DEF Nesting
<1> QED
  BY <1>2, NestAssumption DEF CanCall

LEMMA NothingHeld == \A c : stack = <<>> => ~Held(c, stack)
<1> SUFFICES ASSUME NEW c, stack = <<>>, Held(c, stack) PROVE FALSE
  OBVIOUS
<1>1. Len(stack) = 0
  OBVIOUS
<1> QED
  BY <1>1 DEF Held, HeldTo

\* Whatever is owed on an empty stack has its id in use.
LEMMA OwedIsDuplicate ==
  ASSUME QueueInv, stack = <<>>, NEW c \in owed
  PROVE  duplicate(CmdId[c])
<1>1. c \in Cmds
  BY DEF QueueInv, TypeOK
<1>2. InWork(c)
  BY <1>1, NothingHeld DEF QueueInv, OnceInv, OncePlaces
<1> QED
  BY <1>2 DEF InWork, InSeq, duplicate, is_in_flight, is_pending

LEMMA SubmitIsNext ==
  ASSUME QueueInv, stack = <<>>, NEW c \in Cmds, submit(c)
  PROVE  Next \/ Refuses
<1>1. CASE c \notin owed
  BY <1>1, MayCall DEF Next, Submit
<1>2. CASE c \in owed
  <2>1. duplicate(CmdId[c])
    BY <1>2, OwedIsDuplicate
  <2> QED
    BY <2>1 DEF submit, Refuses
<1> QED
  BY <1>1, <1>2

LEMMA AnswerIsNext ==
  ASSUME QueueInv, stack = <<>>, NEW id, on_response(id)
  PROVE  Next
<1>1. PICK i \in DOMAIN in_flight : CmdId[in_flight[i]] = id
  BY DEF on_response
<1>2. in_flight[i] \in Cmds
  BY <1>1, Elements DEF QueueInv, TypeOK
<1>3. id \in Ids
  BY <1>1, <1>2 DEF Ids
<1> QED
  BY <1>3, MayCall DEF Next, OnResponse

LEMMA SetReadyIsNext ==
  ASSUME stack = <<>>, NEW r \in BOOLEAN, set_ready(r)
  PROVE  Next
  BY MayCall DEF Next, SetReady

\* Every step of the session is one of the queue's, or leaves the queue alone,
\* or has a keep-alive refused.
LEMMA SessionIsQueue ==
  ASSUME QueueInv, [SessionNext]_sessionVars
  PROVE  [Next]_vars \/ Refuses
<1>1. ASSUME NEW channel, NEW msg, NEW answers, deliver(channel, msg, answers)
      PROVE  [Next]_vars
  <2>1. stack = <<>>
    BY <1>1 DEF deliver, Idle
  <2>2. CASE \E id : on_response(id)
    BY <2>1, <2>2, AnswerIsNext
  <2>3. CASE \E r \in BOOLEAN : set_ready(r)
    BY <2>1, <2>3, SetReadyIsNext
  <2>4. IsReady(busy', encoding') \in BOOLEAN
    BY DEF IsReady
  <2> QED
    BY <1>1, <2>2, <2>3, <2>4 DEF deliver, deliver_reply, deliver_push
<1>2. ASSUME NEW c \in Cmds, Reply(c) PROVE [Next]_vars
  BY <1>1, <1>2 DEF Reply
<1>3. ASSUME NEW c \in Cmds, LateReply(c) PROVE [Next]_vars
  BY <1>1, <1>3 DEF LateReply
<1>4. CASE Push
  BY <1>1, <1>4 DEF Push
<1>5. ASSUME NEW c \in Cmds, Send(c) PROVE [Next]_vars \/ Refuses
  BY <1>5, SubmitIsNext DEF Send, Idle
<1>6. CASE FoldReply
  <2>1. IsReady(busy', encoding') \in BOOLEAN
    BY DEF IsReady
  <2> QED
    BY <1>6, <2>1, SetReadyIsNext DEF FoldReply
<1>7. CASE SessionTick
  BY <1>7, MayCall DEF SessionTick, Idle, Next, Tick
<1>8. CASE KeepAliveDue
  <2>1. KeepAlive \in Cmds
    BY KeepAliveAssumption
  <2> QED
    BY <1>8, <2>1, SubmitIsNext DEF KeepAliveDue
<1>9. CASE Disconnect
  BY <1>9, MayCall DEF Disconnect, Idle, Next, CancelAll
<1>10. CASE DisconnectReset
  BY <1>10, SetReadyIsNext DEF DisconnectReset
<1>11. CASE QueueStep
  BY <1>11 DEF QueueStep, Next
<1>12. CASE Time
  BY <1>12 DEF Time, Next
<1>13. CASE UNCHANGED sessionVars
  BY <1>13 DEF sessionVars
<1> QED
  BY <1>2, <1>3, <1>4, <1>5, <1>6, <1>7, <1>8, <1>9, <1>10, <1>11, <1>12, <1>13 DEF SessionNext

LEMMA RefusalKeeps ==
  ASSUME QueueInv, Refuses
  PROVE  QueueInv'
<1>1. PICK c \in Cmds : /\ stack' = Append(stack, CompleteFrame(<<c>>, "kRejected"))
                        /\ UNCHANGED queueVars
  BY DEF Refuses
<1> DEFINE f == CompleteFrame(<<c>>, "kRejected")
<1>2. f \in Frame /\ f.fn # "collect"
  <2>1. <<c>> \in Seq(Cmds)
    OBVIOUS
  <2> QED
    BY <2>1, FrameTypes DEF Outcome, CompleteFrame
<1>3. FrameOK(f) /\ Claims(f) = <<>>
  BY FrameClaims
<1>4. stack' = Append(stack, f) /\ stack \in Seq(Frame)
  BY <1>1 DEF QueueInv, TypeOK
<1> HIDE DEF f
<1>5. /\ pending' = pending /\ in_flight' = in_flight /\ ready' = ready /\ age' = age
      /\ owed' = owed
  BY <1>1 DEF queueVars
<1>6. TypeOK'
  BY <1>2, <1>4, <1>5 DEF QueueInv, TypeOK
<1>7. SingleFlight' /\ OneQueuedInFlight'
  BY <1>5 DEF QueueInv, SingleFlight, OneQueuedInFlight, is_in_flight
<1>8. WakeupInv'
  <2>1. CollectAbovePump' /\ (PumpOn(stack) => PumpOn(stack'))
    BY <1>2, <1>4, PushKeeps DEF QueueInv, WakeupInv
  <2>2. SomethingSendable' <=> SomethingSendable
    BY <1>5, SendableUnchanged
  <2> QED
    BY <2>1, <2>2 DEF QueueInv, WakeupInv, NoLostWakeup, PumpOn
<1>9. OnceInv'
  <2>1. Once(stack) /\ FramesOK(stack) /\ OncePlaces
    BY DEF QueueInv, OnceInv, OncePlaces
  <2>2. /\ FramesOK(Append(stack, f)) /\ Once(Append(stack, f))
        /\ \A d : Held(d, Append(stack, f)) <=> Held(d, stack)
    BY <1>2, <1>3, <1>4, <2>1, EmptyPush
  <2>3. Same
    BY <1>5 DEF Same, InWork
  <2> QED
    BY <1>4, <2>1, <2>2, <2>3, OnceSame
<1> QED
  BY <1>6, <1>7, <1>8, <1>9 DEF QueueInv

LEMMA QueueInvStep == QueueInv /\ [SessionNext]_sessionVars => QueueInv'
<1> SUFFICES ASSUME QueueInv, [SessionNext]_sessionVars PROVE QueueInv'
  OBVIOUS
<1>1. CASE [Next]_vars
  <2>1. TypeOK' /\ SingleFlight' /\ OneQueuedInFlight' /\ WakeupInv'
    BY <1>1, TypeStep, SingleFlightStep, OneQueuedStep, WakeupStep DEF QueueInv
  <2>2. OnceInv'
    <3>1. CASE Next
      BY <3>1, OnceStep DEF QueueInv
    <3>2. CASE UNCHANGED vars
      BY <3>2 DEF vars, QueueInv, OnceInv, OncePlaces, InWork
    <3> QED
      BY <1>1, <3>1, <3>2
  <2> QED
    BY <2>1, <2>2 DEF QueueInv
<1>2. CASE Refuses
  BY <1>2, RefusalKeeps
<1> QED
  BY <1>1, <1>2, SessionIsQueue

LEMMA QueueInit == Init => QueueInv
<1> SUFFICES ASSUME Init PROVE QueueInv
  OBVIOUS
<1>1. /\ stack = <<>> /\ pending = <<>> /\ in_flight = <<>> /\ owed = {} /\ ready = FALSE
      /\ age = [c \in Cmds |-> 0] /\ Len(stack) = 0
  BY DEF Init
<1>2. TypeOK
  <2>1. pending \in Seq(Cmds) /\ in_flight \in Seq(Cmds) /\ stack \in Seq(Frame)
    BY <1>1
  <2>2. age \in [Cmds -> 0..AgeCap]
    BY <1>1, AgeCapType
  <2> QED
    BY <1>1, <2>1, <2>2 DEF TypeOK
<1>3. SingleFlight /\ OneQueuedInFlight
  BY <1>1 DEF SingleFlight, OneQueuedInFlight, is_in_flight
<1>4. WakeupInv
  BY <1>1 DEF WakeupInv, NoLostWakeup, SomethingSendable, CollectAbovePump
<1>5. OnceInv
  <2>1. \A c : ~Held(c, stack) /\ ~InWork(c)
    BY <1>1, NothingHeld, InSimple DEF InWork
  <2>2. Once(stack) /\ FramesOK(stack)
    BY <1>1 DEF Once, OnceTo, FramesOK
  <2> QED
    BY <1>1, <2>1, <2>2 DEF OnceInv, OncePlaces
<1> QED
  BY <1>2, <1>3, <1>4, <1>5 DEF QueueInv

LEMMA QueueInvariant == SessionSpec => []QueueInv
<1>1. SessionInit => QueueInv
  BY QueueInit DEF SessionInit
<1> QED
  BY <1>1, QueueInvStep, PTL DEF SessionSpec

\* Between events no keep-alive and no fastpass command waits.
LEMMA UngatedWhenIdle == QueueInv => UngatedNeverWait
<1> SUFFICES ASSUME QueueInv, stack = <<>>, NEW i \in DOMAIN pending
             PROVE  CmdPrio[pending[i]] = "kQueued"
  BY DEF UngatedNeverWait
<1>1. ~SomethingSendable
  BY DEF QueueInv, WakeupInv, NoLostWakeup
<1>2. ~can_send(pending[i]) /\ ~is_in_flight(CmdId[pending[i]])
  BY <1>1 DEF SomethingSendable, QueueInv, SingleFlight
<1>3. CmdPrio[pending[i]] \in Priority
  BY Elements, CmdsAssumption DEF QueueInv, TypeOK
<1> QED
  BY <1>2, <1>3 DEF can_send, Priority

\* The queue keeps its promises below the session, whose ticks submit
\* keep-alives whatever is outstanding.
THEOREM QueueBelowSession ==
  SessionSpec => [](SingleFlight /\ OneQueuedInFlight /\ NoLostWakeup /\ UngatedNeverWait)
<1>1. QueueInv => SingleFlight /\ OneQueuedInFlight /\ NoLostWakeup /\ UngatedNeverWait
  BY UngatedWhenIdle DEF QueueInv, WakeupInv
<1> QED
  BY <1>1, QueueInvariant, PTL

-----------------------------------------------------------------------------
(* The session's own state. *)

SessionTypes ==
  /\ busy \in Status /\ encoding \in Status
  /\ announced \in BOOLEAN
  /\ told \in [busy : Status, encoding : Status]
  /\ started \in BOOLEAN /\ due \in BOOLEAN
  /\ since \in 0..KeepAliveInterval
  /\ silence \in Nat
  /\ todo = <<>> \/ \E s \in Steps : todo = <<s>>
  /\ late \subseteq Cmds

\* The rest of the handler that called the queue.
Doing(s) == todo # <<>> /\ Head(todo).step = s

LEMMA ParsedUpdate ==
  ASSUME NEW msg
  PROVE  status_update(msg) \in Update
<1>1. ASSUME NEW list, NEW id PROVE reported(list, id) \in {"none", "yes", "no"}
  BY DEF reported
<1>2. CASE status_update(msg) = [busy |-> "none", encoding |-> "none"]
  BY <1>2 DEF Update
<1>3. CASE status_update(msg) = [busy |-> reported(parse_query(msg).list, kStatusBusy),
                                 encoding |-> reported(parse_query(msg).list, kStatusEncoding)]
  BY <1>1, <1>3 DEF Update
<1> QED
  BY <1>2, <1>3 DEF status_update

LEMMA FoldType ==
  ASSUME NEW old \in Status, NEW new \in {"none", "yes", "no"}
  PROVE  /\ fold(old, new) \in Status
         /\ old # "unknown" => fold(old, new) # "unknown"
  BY DEF fold, Status

\* What a message does to the session.
LEMMA DeliverFacts ==
  ASSUME QueueInv, SessionTypes, NEW channel, NEW msg \in Message,
         NEW answers \in Cmds \cup {"none"}, deliver(channel, msg, answers)
  PROVE  LET upd == status_update(msg.bytes)
             id  == resolve(channel, msg.bytes)
         IN  /\ stack = <<>> /\ todo = <<>> /\ upd \in Update
             /\ told' = [busy |-> fold(told.busy, msg.says.busy),
                         encoding |-> fold(told.encoding, msg.says.encoding)]
             /\ told' \in [busy : Status, encoding : Status]
             /\ UNCHANGED aliveVars
             /\ \/ /\ on_response(id) /\ id \in Ids /\ is_in_flight(id)
                   /\ todo' = <<[step |-> "fold", upd |-> upd, id |-> id, answers |-> answers]>>
                   /\ UNCHANGED <<busy, encoding, announced>>
                \/ /\ deliver_push(upd) /\ ~is_in_flight(id)
                   /\ busy' \in Status /\ encoding' \in Status /\ announced' \in BOOLEAN
<1> DEFINE upd == status_update(msg.bytes)
           id  == resolve(channel, msg.bytes)
<1>1. /\ stack = <<>> /\ todo = <<>>
      /\ told' = [busy |-> fold(told.busy, msg.says.busy),
                  encoding |-> fold(told.encoding, msg.says.encoding)]
      /\ UNCHANGED aliveVars
      /\ IF is_in_flight(id) THEN deliver_reply(id, upd, answers) ELSE deliver_push(upd)
  BY DEF deliver, Idle
<1>2. upd \in Update
  BY ParsedUpdate
<1> HIDE DEF upd, id
<1>3. /\ msg.says.busy \in {"none", "yes", "no"} /\ msg.says.encoding \in {"none", "yes", "no"}
      /\ told.busy \in Status /\ told.encoding \in Status
  BY DEF Message, Update, SessionTypes
<1>4. told' \in [busy : Status, encoding : Status]
  BY <1>1, <1>3, FoldType
<1>5. CASE is_in_flight(id)
  <2>1. id \in Ids
    BY <1>5, Elements DEF is_in_flight, Ids, QueueInv, TypeOK
  <2> QED
    BY <1>1, <1>2, <1>4, <1>5, <2>1 DEF deliver_reply, id, upd
<1>6. CASE ~is_in_flight(id)
  <2>1. deliver_push(upd)
    BY <1>1, <1>6
  <2>2. upd.busy \in {"none", "yes", "no"} /\ upd.encoding \in {"none", "yes", "no"}
    BY <1>2 DEF Update
  <2>3. busy' \in Status /\ encoding' \in Status
    BY <2>1, <2>2, FoldType DEF deliver_push, apply, SessionTypes
  <2>4. announced' \in BOOLEAN
    BY <2>1 DEF deliver_push, IsReady, SessionTypes
  <2> QED
    BY <1>1, <1>2, <1>4, <1>6, <2>1, <2>3, <2>4 DEF id, upd
<1> QED
  BY <1>5, <1>6

LEMMA MessagesTyped ==
  /\ \A c \in Cmds : \A m \in Replies[c] : m \in Message
  /\ \A p \in Pushes : p[1] \in Channel /\ p[2] \in Message
  /\ KeepAlive \in Cmds /\ KeepAliveInterval \in Nat \ {0} /\ CmdPrio[KeepAlive] = "kKeepAlive"
  BY KeepAliveAssumption

LEMMA DeliverTypes ==
  ASSUME QueueInv, SessionTypes, NEW channel, NEW msg \in Message,
         NEW answers \in Cmds \cup {"none"}, deliver(channel, msg, answers), late' \subseteq Cmds
  PROVE  SessionTypes'
<1> DEFINE upd == status_update(msg.bytes)
           id  == resolve(channel, msg.bytes)
<1>1. /\ todo = <<>> /\ upd \in Update /\ told' \in [busy : Status, encoding : Status]
      /\ UNCHANGED aliveVars
      /\ \/ /\ id \in Ids
            /\ todo' = <<[step |-> "fold", upd |-> upd, id |-> id, answers |-> answers]>>
            /\ UNCHANGED <<busy, encoding, announced>>
         \/ /\ deliver_push(upd)
            /\ busy' \in Status /\ encoding' \in Status /\ announced' \in BOOLEAN
  BY DeliverFacts
<1> HIDE DEF upd, id
<1>2. CASE /\ id \in Ids
           /\ todo' = <<[step |-> "fold", upd |-> upd, id |-> id, answers |-> answers]>>
           /\ UNCHANGED <<busy, encoding, announced>>
  <2>1. [step |-> "fold", upd |-> upd, id |-> id, answers |-> answers] \in Steps
    BY <1>1, <1>2 DEF Steps
  <2> QED
    BY <1>1, <1>2, <2>1 DEF SessionTypes, aliveVars
<1>3. CASE /\ deliver_push(upd)
           /\ busy' \in Status /\ encoding' \in Status /\ announced' \in BOOLEAN
  BY <1>1, <1>3 DEF SessionTypes, aliveVars, deliver_push
<1> QED
  BY <1>1, <1>2, <1>3

\* What is folded in after a reply.
LEMMA FoldFacts ==
  ASSUME SessionTypes, FoldReply
  PROVE  /\ Doing("fold") /\ Head(todo).upd \in Update /\ todo' = <<>>
         /\ Head(todo).upd.busy \in {"none", "yes", "no"}
         /\ Head(todo).upd.encoding \in {"none", "yes", "no"}
         /\ busy' = fold(busy, Head(todo).upd.busy)
         /\ encoding' = fold(encoding, Head(todo).upd.encoding)
         /\ busy' \in Status /\ encoding' \in Status
<1>1. PICK s \in Steps : todo = <<s>>
  BY DEF SessionTypes, FoldReply
<1>2. Head(todo) = s /\ s.step = "fold"
  BY <1>1 DEF FoldReply
<1>3. s \in [step : {"fold"}, upd : Update, id : Ids, answers : Cmds \cup {"none"}]
  BY <1>2 DEF Steps
<1>4. s.upd \in Update
  BY <1>3
<1>5. s.upd.busy \in {"none", "yes", "no"} /\ s.upd.encoding \in {"none", "yes", "no"}
  BY <1>4 DEF Update
<1>6. busy' = fold(busy, s.upd.busy) /\ encoding' = fold(encoding, s.upd.encoding)
  BY <1>2 DEF FoldReply, apply
<1>7. busy' \in Status /\ encoding' \in Status
  BY <1>5, <1>6, FoldType DEF SessionTypes
<1> QED
  BY <1>1, <1>2, <1>4, <1>5, <1>6, <1>7 DEF Doing, FoldReply

LEMMA SessionTypesStep == QueueInv /\ SessionTypes /\ [SessionNext]_sessionVars => SessionTypes'
<1> SUFFICES ASSUME QueueInv, SessionTypes, [SessionNext]_sessionVars PROVE SessionTypes'
  OBVIOUS
<1>1. ASSUME NEW c \in Cmds, Reply(c) PROVE SessionTypes'
  <2>1. PICK msg \in Replies[c] : deliver(Sent[c].channel, msg, c)
    BY <1>1 DEF Reply
  <2>2. msg \in Message
    BY <2>1, MessagesTyped
  <2>3. late' \subseteq Cmds
    BY <1>1 DEF Reply, SessionTypes
  <2> QED
    BY <2>1, <2>2, <2>3, DeliverTypes
<1>2. ASSUME NEW c \in Cmds, LateReply(c) PROVE SessionTypes'
  <2>1. PICK msg \in Replies[c] : deliver(Sent[c].channel, msg, c)
    BY <1>2 DEF LateReply
  <2>2. msg \in Message
    BY <2>1, MessagesTyped
  <2>3. late' \subseteq Cmds
    BY <1>2 DEF LateReply, SessionTypes
  <2> QED
    BY <2>1, <2>2, <2>3, DeliverTypes
<1>3. CASE Push
  <2>1. PICK p \in Pushes : deliver(p[1], p[2], "none")
    BY <1>3 DEF Push
  <2>2. p[2] \in Message
    BY <2>1, MessagesTyped
  <2>3. late' \subseteq Cmds
    BY <1>3 DEF Push, SessionTypes
  <2> QED
    BY <2>1, <2>2, <2>3, DeliverTypes
<1>4. ASSUME NEW c \in Cmds, Send(c) PROVE SessionTypes'
  BY <1>4 DEF Send, readyVars, aliveVars, SessionTypes
<1>5. CASE FoldReply
  <2>1. todo' = <<>> /\ busy' \in Status /\ encoding' \in Status
    BY <1>5, FoldFacts
  <2>2. announced' \in BOOLEAN
    BY <1>5 DEF FoldReply, IsReady, SessionTypes
  <2> QED
    BY <1>5, <2>1, <2>2 DEF FoldReply, aliveVars, SessionTypes
<1>6. CASE SessionTick
  <2>1. [step |-> "keep_alive"] \in Steps
    BY DEF Steps
  <2> QED
    BY <1>6, <2>1 DEF SessionTick, readyVars, SessionTypes
<1>7. CASE KeepAliveDue
  <2>1. /\ started' = TRUE \/ started' = started
        /\ since' = 0 \/ since' = since
        /\ silence' = 0 \/ silence' = silence
        /\ todo' = <<>> /\ UNCHANGED <<readyVars, due, late>>
    BY <1>7 DEF KeepAliveDue
  <2>2. since' \in 0..KeepAliveInterval
    BY <2>1, MessagesTyped DEF SessionTypes
  <2>3. started' \in BOOLEAN
    BY <2>1 DEF SessionTypes
  <2>4. silence' \in Nat
    BY <2>1 DEF SessionTypes
  <2>5. /\ busy' = busy /\ encoding' = encoding /\ announced' = announced /\ told' = told
        /\ due' = due /\ late' = late
    BY <2>1 DEF readyVars
  <2> QED
    BY <2>1, <2>2, <2>3, <2>4, <2>5 DEF SessionTypes
<1>8. CASE Disconnect
  <2>1. [step |-> "reset"] \in Steps /\ Unknown \in [busy : Status, encoding : Status]
    BY DEF Steps, Unknown, Status
  <2> QED
    BY <1>8, <2>1 DEF Disconnect, aliveVars, SessionTypes
<1>9. CASE DisconnectReset
  BY <1>9 DEF DisconnectReset, forget, announce_closed, SessionTypes, Status
<1>10. CASE QueueStep
  <2>1. silence' \in Nat /\ late' \subseteq Cmds
    BY <1>10 DEF QueueStep, SessionTypes
  <2> QED
    BY <1>10, <2>1 DEF QueueStep, readyVars, SessionTypes
<1>11. CASE Time
  BY <1>11, MessagesTyped DEF Time, readyVars, SessionTypes
<1>12. CASE UNCHANGED sessionVars
  BY <1>12 DEF sessionVars, readyVars, aliveVars, SessionTypes
<1> QED
  BY <1>1, <1>2, <1>3, <1>4, <1>5, <1>6, <1>7, <1>8, <1>9, <1>10, <1>11, <1>12 DEF SessionNext

-----------------------------------------------------------------------------
(* The gate. *)

\* The gate is derived from the statuses kept, the caller knows it, and what the
\* camera said is what is kept, or what is about to be folded in or forgotten.
GateInv ==
  /\ ready <=> readyNow
  /\ announced <=> ready
  /\ todo = <<>> \/ Doing("keep_alive") => told = [busy |-> busy, encoding |-> encoding]
  /\ Doing("fold") => told = [busy |-> fold(busy, Head(todo).upd.busy),
                              encoding |-> fold(encoding, Head(todo).upd.encoding)]
  /\ Doing("reset") => told = Unknown

\* After cancel_all() there is nothing but completions to run.
CancelInv ==
  Doing("reset") => /\ pending = <<>> /\ in_flight = <<>>
                    /\ \A k \in DOMAIN stack : stack[k].fn \in {"complete", "user"}

LEMMA ReadyKept ==
  ASSUME InnerStep \/ Return
  PROVE  ready' = ready
  BY DEF InnerStep, PumpSend, PumpDone, CollectInFlight, CollectPending, CollectDone, Complete,
         CompleteDone, Return, queueVars

\* New statuses: the gate and the caller follow.
LEMMA Announced ==
  ASSUME QueueInv, SessionTypes, ready <=> readyNow, announced <=> ready,
         IF IsReady(busy', encoding') # readyNow
         THEN announced' = IsReady(busy', encoding') /\ set_ready(IsReady(busy', encoding'))
         ELSE UNCHANGED <<announced, vars>>
  PROVE  (ready' <=> readyNow') /\ (announced' <=> ready')
<1> DEFINE now == IsReady(busy', encoding')
<1>1. ready \in BOOLEAN /\ announced \in BOOLEAN /\ readyNow \in BOOLEAN /\ now \in BOOLEAN
  BY DEF QueueInv, TypeOK, SessionTypes, readyNow, IsReady
<1>2. readyNow' = now
  BY DEF readyNow
<1> HIDE DEF now
<1>3. CASE now # readyNow
  BY <1>2, <1>3 DEF set_ready, now
<1>4. CASE now = readyNow
  BY <1>1, <1>2, <1>4 DEF vars, now
<1> QED
  BY <1>3, <1>4

LEMMA DeliverGate ==
  ASSUME QueueInv, SessionTypes, GateInv, NEW channel, NEW msg \in Message,
         NEW answers \in Cmds \cup {"none"}, deliver(channel, msg, answers),
         status_update(msg.bytes) = msg.says
  PROVE  GateInv'
<1> DEFINE upd == status_update(msg.bytes)
           id  == resolve(channel, msg.bytes)
<1>1. /\ todo = <<>>
      /\ told' = [busy |-> fold(told.busy, msg.says.busy),
                  encoding |-> fold(told.encoding, msg.says.encoding)]
      /\ \/ /\ on_response(id)
            /\ todo' = <<[step |-> "fold", upd |-> upd, id |-> id, answers |-> answers]>>
            /\ UNCHANGED <<busy, encoding, announced>>
         \/ deliver_push(upd)
  BY DeliverFacts
<1>2. upd = msg.says
  OBVIOUS
<1> HIDE DEF upd, id
<1>3. told = [busy |-> busy, encoding |-> encoding]
  BY <1>1 DEF GateInv
<1>4. told' = [busy |-> fold(busy, upd.busy), encoding |-> fold(encoding, upd.encoding)]
  BY <1>1, <1>2, <1>3
<1>5. CASE /\ on_response(id)
           /\ todo' = <<[step |-> "fold", upd |-> upd, id |-> id, answers |-> answers]>>
           /\ UNCHANGED <<busy, encoding, announced>>
  <2>1. ready' = ready /\ (readyNow' <=> readyNow)
    BY <1>5 DEF on_response, readyNow, IsReady
  <2>2. todo' # <<>> /\ Head(todo').step = "fold" /\ Head(todo').upd = upd
    BY <1>5
  <2>3. fold(busy, upd.busy) = fold(busy', upd.busy)
        /\ fold(encoding, upd.encoding) = fold(encoding', upd.encoding)
    BY <1>5
  <2> QED
    BY <1>4, <1>5, <2>1, <2>2, <2>3 DEF GateInv, Doing
<1>6. CASE deliver_push(upd)
  <2>1. (ready' <=> readyNow') /\ (announced' <=> ready')
    BY <1>6, Announced DEF deliver_push, GateInv
  <2>2. todo' = <<>> /\ told' = [busy |-> busy', encoding |-> encoding']
    BY <1>1, <1>4, <1>6 DEF deliver_push, apply
  <2> QED
    BY <2>1, <2>2 DEF GateInv, Doing
<1> QED
  BY <1>1, <1>5, <1>6

LEMMA GateStep ==
  ASSUME Understood
  PROVE  QueueInv /\ SessionTypes /\ GateInv /\ [SessionNext]_sessionVars => GateInv'
<1> SUFFICES ASSUME QueueInv, SessionTypes, GateInv, [SessionNext]_sessionVars PROVE GateInv'
  OBVIOUS
<1>k. ASSUME UNCHANGED <<readyVars, todo, ready>> PROVE GateInv'
  BY <1>k DEF GateInv, readyVars, readyNow, Doing
<1>1. ASSUME NEW c \in Cmds, Reply(c) \/ LateReply(c) PROVE GateInv'
  <2>1. PICK msg \in Replies[c] : deliver(Sent[c].channel, msg, c)
    BY <1>1 DEF Reply, LateReply
  <2>2. msg \in Message /\ status_update(msg.bytes) = msg.says
    BY <2>1, MessagesTyped DEF Understood
  <2> QED
    BY <2>1, <2>2, DeliverGate
<1>2. CASE Push
  <2>1. PICK p \in Pushes : deliver(p[1], p[2], "none")
    BY <1>2 DEF Push
  <2>2. p[2] \in Message /\ status_update(p[2].bytes) = p[2].says
    BY <2>1, MessagesTyped DEF Understood
  <2> QED
    BY <2>1, <2>2, DeliverGate
<1>3. ASSUME NEW c \in Cmds, Send(c) PROVE GateInv'
  <2>1. ready' = ready
    BY <1>3 DEF Send, submit, queueVars
  <2> QED
    BY <1>3, <1>k, <2>1 DEF Send
<1>4. CASE FoldReply
  <2>1. /\ Doing("fold") /\ todo' = <<>>
        /\ busy' = fold(busy, Head(todo).upd.busy)
        /\ encoding' = fold(encoding, Head(todo).upd.encoding)
    BY <1>4, FoldFacts
  <2>2. (ready' <=> readyNow') /\ (announced' <=> ready')
    BY <1>4, Announced DEF FoldReply, GateInv
  <2>3. told' = [busy |-> busy', encoding |-> encoding']
    BY <1>4, <2>1 DEF FoldReply, GateInv
  <2> QED
    BY <2>1, <2>2, <2>3 DEF GateInv, Doing
<1>5. CASE SessionTick
  <2>1. todo = <<>> /\ todo' = <<[step |-> "keep_alive"]>> /\ ready' = ready
        /\ busy' = busy /\ encoding' = encoding /\ announced' = announced /\ told' = told
    BY <1>5 DEF SessionTick, Idle, tick, queueVars, readyVars
  <2>2. Head(todo').step = "keep_alive"
    BY <2>1
  <2> QED
    BY <2>1, <2>2 DEF GateInv, Doing, readyNow
<1>6. CASE KeepAliveDue
  <2>1. ready' = ready
    BY <1>6 DEF KeepAliveDue, vars, submit, queueVars
  <2>2. /\ todo' = <<>> /\ Doing("keep_alive") /\ busy' = busy /\ encoding' = encoding
        /\ announced' = announced /\ told' = told
    BY <1>6 DEF KeepAliveDue, Doing, readyVars
  <2> QED
    BY <2>1, <2>2 DEF GateInv, Doing, readyNow
<1>7. CASE Disconnect
  <2>1. /\ todo' = <<[step |-> "reset"]>> /\ ready' = ready /\ told' = Unknown
        /\ busy' = busy /\ encoding' = encoding /\ announced' = announced
    BY <1>7 DEF Disconnect, cancel_all
  <2>2. Head(todo').step = "reset"
    BY <2>1
  <2> QED
    BY <2>1, <2>2 DEF GateInv, Doing, readyNow
<1>8. CASE DisconnectReset
  <2>1. /\ todo' = <<>> /\ ready' = FALSE /\ busy' = "unknown" /\ encoding' = "unknown"
        /\ told' = told /\ told = Unknown /\ announced' = IF readyNow THEN FALSE ELSE announced
    BY <1>8 DEF DisconnectReset, forget, set_ready, announce_closed, GateInv, Doing
  <2>2. ~readyNow' /\ announced' = FALSE
    BY <2>1 DEF readyNow, IsReady, GateInv, SessionTypes
  <2> QED
    BY <2>1, <2>2 DEF GateInv, Doing, Unknown
<1>9. CASE QueueStep
  <2>1. ready' = ready
    BY <1>9, ReadyKept DEF QueueStep
  <2> QED
    BY <1>9, <1>k, <2>1 DEF QueueStep
<1>10. CASE Time
  BY <1>10, <1>k DEF Time, Elapse
<1>11. CASE UNCHANGED sessionVars
  BY <1>11, <1>k DEF sessionVars, vars
<1> QED
  BY <1>1, <1>2, <1>3, <1>4, <1>5, <1>6, <1>7, <1>8, <1>9, <1>10, <1>11 DEF SessionNext

\* A frame leaves the top of the stack, or two replace it.
LEMMA PopFrames ==
  ASSUME stack \in Seq(Frame), stack # <<>>, stack' = Pop(stack)
  PROVE  \A k \in DOMAIN stack' : k \in DOMAIN stack /\ stack'[k] = stack[k]
<1>1. /\ Len(stack') = Len(stack) - 1 /\ stack' \in Seq(Frame)
      /\ \A k \in 1..(Len(stack) - 1) : stack'[k] = stack[k]
  BY PopProps
<1>2. Len(stack) \in Nat /\ DOMAIN stack = 1..Len(stack) /\ DOMAIN stack' = 1..(Len(stack) - 1)
  BY <1>1, LenProperties
<1> QED
  BY <1>1, <1>2

LEMMA SwapFrames ==
  ASSUME stack \in Seq(Frame), stack # <<>>, NEW f \in Frame, NEW g \in Frame,
         stack' = Pop(stack) \o <<f, g>>
  PROVE  \A k \in DOMAIN stack' : \/ k \in DOMAIN stack /\ stack'[k] = stack[k]
                                  \/ stack'[k] = f \/ stack'[k] = g
<1> DEFINE s == Pop(stack)
<1>1. /\ Len(s) = Len(stack) - 1 /\ s \in Seq(Frame)
      /\ \A k \in 1..(Len(stack) - 1) : s[k] = stack[k]
  BY PopProps
<1>2. stack' = s \o <<f, g>>
  OBVIOUS
<1> HIDE DEF s
<1>3. /\ Len(stack') = Len(s) + 2 /\ \A k \in 1..Len(s) : stack'[k] = s[k]
      /\ stack'[Len(s) + 1] = f /\ stack'[Len(s) + 2] = g /\ stack' \in Seq(Frame)
  <2>1. s \in Seq(Frame)
    BY <1>1
  <2>2. /\ s \o <<f, g>> \in Seq(Frame) /\ Len(s \o <<f, g>>) = Len(s) + 2
        /\ \A k \in 1..Len(s) : (s \o <<f, g>>)[k] = s[k]
        /\ (s \o <<f, g>>)[Len(s) + 1] = f /\ (s \o <<f, g>>)[Len(s) + 2] = g
    BY <2>1, PushTwo
  <2> QED
    BY <1>2, <2>2
<1>4. /\ Len(stack) \in Nat /\ DOMAIN stack = 1..Len(stack)
      /\ DOMAIN stack' = 1..(Len(stack) + 1)
  BY <1>1, <1>3, LenProperties
<1>5. ASSUME NEW k \in DOMAIN stack'
      PROVE  k \in 1..(Len(stack) - 1) \/ k = Len(s) + 1 \/ k = Len(s) + 2
  BY <1>1, <1>4
<1>6. ASSUME NEW k \in 1..(Len(stack) - 1) PROVE k \in DOMAIN stack /\ stack'[k] = stack[k]
  BY <1>1, <1>3, <1>4
<1> QED
  BY <1>3, <1>5, <1>6

LEMMA TopIsFrame ==
  ASSUME TypeOK, stack # <<>>
  PROVE  Len(stack) \in DOMAIN stack /\ Top(stack) = stack[Len(stack)] /\ Top(stack) \in Frame
<1>1. stack \in Seq(Frame)
  BY DEF TypeOK
<1>2. Len(stack) \in DOMAIN stack
  BY <1>1, EmptySeq, LenProperties
<1>3. stack[Len(stack)] \in Frame
  BY <1>1, <1>2, ElementOfSeq, LenProperties
<1> QED
  BY <1>2, <1>3 DEF Top

LEMMA CancelStep == QueueInv /\ CancelInv /\ [SessionNext]_sessionVars => CancelInv'
<1> SUFFICES ASSUME QueueInv, CancelInv, [SessionNext]_sessionVars, Doing("reset")'
             PROVE  /\ pending' = <<>> /\ in_flight' = <<>>
                    /\ \A k \in DOMAIN stack' : stack'[k].fn \in {"complete", "user"}
  BY DEF CancelInv
<1>1. CASE Disconnect
  <2> DEFINE f == CompleteFrame(in_flight \o pending, "kCanceled")
  <2>1. /\ pending' = <<>> /\ in_flight' = <<>> /\ stack = <<>> /\ stack' = Append(stack, f)
    BY <1>1 DEF Disconnect, Idle, cancel_all
  <2>2. f.fn = "complete"
    BY DEF CompleteFrame
  <2> HIDE DEF f
  <2>3. stack' = <<f>>
    BY <2>1
  <2> QED
    BY <2>1, <2>2, <2>3
<1>2. CASE QueueStep
  <2>1. Doing("reset")
    BY <1>2 DEF QueueStep, Doing
  <2>2. /\ pending = <<>> /\ in_flight = <<>>
        /\ \A k \in DOMAIN stack : stack[k].fn \in {"complete", "user"}
    BY <2>1 DEF CancelInv
  <2>3. stack \in Seq(Frame) /\ TypeOK
    BY DEF QueueInv, TypeOK
  <2>4. ~OnTop("pump") /\ ~OnTop("collect")
    BY <2>2, <2>3, TopIsFrame DEF OnTop
  <2>5. CASE Complete
    <3> DEFINE f == CompleteFrame(Tail(Top(stack).cmds), Top(stack).outcome)
    <3>1. /\ stack' = Pop(stack) \o <<f, UserFrame>> /\ stack # <<>> /\ Top(stack).cmds # <<>>
          /\ pending' = pending /\ in_flight' = in_flight /\ OnTop("complete")
      BY <2>5 DEF Complete, OnTop
    <3>2. f.fn = "complete" /\ UserFrame.fn = "user" /\ UserFrame \in Frame
      BY FrameTypes DEF CompleteFrame, UserFrame
    <3>3. f \in Frame
      <4>1. Top(stack).cmds \in Seq(Cmds) /\ Top(stack).outcome \in Outcome \cup {"none"}
        BY <2>3, <3>1, TopIsFrame DEF Frame
      <4>2. Tail(Top(stack).cmds) \in Seq(Cmds)
        BY <3>1, <4>1
      <4> QED
        BY <4>1, <4>2 DEF Frame, CompleteFrame
    <3> HIDE DEF f
    <3>4. \A k \in DOMAIN stack' : \/ k \in DOMAIN stack /\ stack'[k] = stack[k]
                                   \/ stack'[k] = f \/ stack'[k] = UserFrame
      BY <2>3, <3>1, <3>2, <3>3, SwapFrames
    <3> QED
      BY <2>2, <3>1, <3>2, <3>4
  <2>6. CASE CompleteDone \/ Return
    <3>1. stack' = Pop(stack) /\ stack # <<>> /\ pending' = pending /\ in_flight' = in_flight
      BY <2>6 DEF CompleteDone, Return, OnTop, queueVars
    <3>2. \A k \in DOMAIN stack' : k \in DOMAIN stack /\ stack'[k] = stack[k]
      BY <2>3, <3>1, PopFrames
    <3> QED
      BY <2>2, <3>1, <3>2
  <2> QED
    BY <1>2, <2>4, <2>5, <2>6 DEF QueueStep, InnerStep, PumpSend, PumpDone, CollectInFlight,
                                  CollectPending, CollectDone
<1>3. ASSUME NEW channel, NEW msg, NEW answers, deliver(channel, msg, answers) PROVE FALSE
  <2>1. todo = <<>>
    BY <1>3 DEF deliver, Idle
  <2>2. CASE todo' = todo
    BY <2>1, <2>2 DEF Doing
  <2>3. ASSUME NEW s, todo' = <<s>>, s.step = "fold" PROVE FALSE
    BY <2>3 DEF Doing
  <2> QED
    BY <1>3, <2>2, <2>3 DEF deliver, deliver_reply, deliver_push
<1>4. CASE UNCHANGED sessionVars
  BY <1>4 DEF sessionVars, vars, CancelInv, Doing
<1>5. CASE SessionTick
  BY <1>5 DEF SessionTick, Doing
<1>6. CASE todo' = <<>>
  BY <1>6 DEF Doing
<1> QED
  BY <1>1, <1>2, <1>3, <1>4, <1>5, <1>6 DEF SessionNext, Reply, LateReply, Push, Send, FoldReply,
     KeepAliveDue, DisconnectReset, Time, Idle

SessionInv == QueueInv /\ SessionTypes /\ CancelInv

LEMMA SessionInvariant == SessionSpec => []SessionInv
<1>1. SessionInit => SessionInv
  <2> SUFFICES ASSUME SessionInit PROVE SessionInv
    OBVIOUS
  <2>1. QueueInv
    BY QueueInit DEF SessionInit
  <2>2. SessionTypes
    <3>1. 0 \in 0..KeepAliveInterval
      BY MessagesTyped
    <3> QED
      BY <3>1 DEF SessionInit, SessionTypes, Status, Unknown
  <2>3. CancelInv
    BY DEF SessionInit, CancelInv, Doing
  <2> QED
    BY <2>1, <2>2, <2>3 DEF SessionInv
<1>2. SessionInv /\ [SessionNext]_sessionVars => SessionInv'
  BY QueueInvStep, SessionTypesStep, CancelStep DEF SessionInv
<1> QED
  BY <1>1, <1>2, PTL DEF SessionSpec

\* Types of the session, over any messages.
THEOREM SessionTypeCorrect == SessionSpec => []SessionTypeOK
<1>1. SessionInv => SessionTypeOK
  <2> SUFFICES ASSUME SessionInv PROVE SessionTypeOK
    OBVIOUS
  <2>1. todo \in Seq(Steps) /\ Len(todo) <= 1
    <3>1. CASE todo = <<>>
      BY <3>1
    <3>2. ASSUME NEW s \in Steps, todo = <<s>> PROVE todo \in Seq(Steps) /\ Len(todo) <= 1
      BY <3>2
    <3> QED
      BY <3>1, <3>2 DEF SessionInv, SessionTypes
  <2> QED
    BY <2>1 DEF SessionInv, QueueInv, SessionTypes, SessionTypeOK
<1> QED
  BY <1>1, SessionInvariant, PTL

LEMMA GateInvariant ==
  ASSUME Understood
  PROVE  SessionSpec => []GateInv
<1>1. SessionInit => GateInv
  BY DEF SessionInit, Init, GateInv, readyNow, IsReady, Doing, Unknown
<1>2. SessionInv /\ GateInv /\ [SessionNext]_sessionVars => GateInv'
  BY GateStep DEF SessionInv
<1> QED
  BY <1>1, <1>2, SessionInvariant, PTL DEF SessionSpec

\* Between events the gate is open exactly when the camera has said on this
\* connection that it is neither busy nor encoding, and the caller knows: if
\* the parser understands the camera's messages.
THEOREM GateHolds ==
  ASSUME Understood
  PROVE  SessionSpec => []GateMatchesCamera
<1>1. GateInv => GateMatchesCamera
  <2> SUFFICES ASSUME GateInv, Idle
               PROVE  (ready <=> IsReady(told.busy, told.encoding)) /\ (announced <=> ready)
    BY DEF GateMatchesCamera
  <2>1. told = [busy |-> busy, encoding |-> encoding]
    BY DEF GateInv, Idle
  <2>2. told.busy = busy /\ told.encoding = encoding
    BY <2>1
  <2> QED
    BY <2>2 DEF GateInv, readyNow
<1> QED
  BY <1>1, GateInvariant, PTL

\* When on_disconnect() has cancelled everything nothing is outstanding and
\* nothing is still to be completed.
THEOREM NothingSurvives == SessionSpec => []NothingSurvivesDisconnect
<1>1. SessionInv => NothingSurvivesDisconnect
  <2> SUFFICES ASSUME SessionInv, Doing("reset"), stack = <<>>
               PROVE  pending = <<>> /\ in_flight = <<>> /\ owed = {}
    BY DEF NothingSurvivesDisconnect, Doing
  <2>1. pending = <<>> /\ in_flight = <<>>
    BY DEF SessionInv, CancelInv
  <2>2. \A c : ~InWork(c) /\ ~Held(c, stack)
    BY <2>1, NothingHeld, InSimple DEF InWork
  <2>3. owed = {}
    BY <2>2 DEF SessionInv, QueueInv, TypeOK, OnceInv, OncePlaces
  <2> QED
    BY <2>1, <2>3
<1> QED
  BY <1>1, SessionInvariant, PTL

-----------------------------------------------------------------------------
(* What a step inside the queue moves. *)

CollectOn(st) == \E k \in DOMAIN st : st[k].fn = "collect"
NoneOverdue   == \A c \in Cmds : InSeq(c, in_flight) => ~WriteOverdue(c)

\* pump() transmits e.
Transmits(e) ==
  /\ OnTop("pump") /\ can_send(e) /\ InSeq(e, pending) /\ ~InSeq(e, in_flight)
  /\ \A c : InSeq(c, pending') <=> InSeq(c, pending) /\ c # e
  /\ \A c : InSeq(c, in_flight') <=> InSeq(c, in_flight) \/ c = e
  /\ age' = [age EXCEPT ![e] = 0]
  /\ CollectOn(stack') <=> CollectOn(stack)

\* tick() erases e.
Erases(e) ==
  /\ CollectOn(stack) /\ CollectOn(stack')
  /\ age' = [age EXCEPT ![e] = 0]
  /\ \/ /\ pending' = pending
        /\ \A c : InSeq(c, in_flight') <=> InSeq(c, in_flight) /\ c # e
     \/ /\ in_flight' = in_flight /\ InSeq(e, pending)
        /\ \A c : InSeq(c, pending') <=> InSeq(c, pending) /\ c # e

\* The rest leaves both containers alone; tick() stops collecting when nothing
\* transmitted is overdue.
Rests ==
  /\ UNCHANGED <<pending, in_flight, age>>
  /\ CollectOn(stack') => CollectOn(stack)
  /\ CollectOn(stack) /\ ~CollectOn(stack') => NoneOverdue

LEMMA CollectPush ==
  ASSUME NEW st \in Seq(Frame), NEW f \in Frame
  PROVE  CollectOn(Append(st, f)) <=> CollectOn(st) \/ f.fn = "collect"
<1> DEFINE u == Append(st, f)
<1>1. /\ Len(st) \in Nat /\ DOMAIN st = 1..Len(st) /\ DOMAIN u = 1..(Len(st) + 1)
      /\ u[Len(st) + 1] = f /\ \A k \in 1..Len(st) : u[k] = st[k]
  BY LenProperties
<1> HIDE DEF u
<1>2. ASSUME CollectOn(u) PROVE CollectOn(st) \/ f.fn = "collect"
  <2>1. PICK k \in DOMAIN u : u[k].fn = "collect"
    BY <1>2 DEF CollectOn
  <2>2. k \in 1..Len(st) \/ k = Len(st) + 1
    BY <1>1, <2>1
  <2> QED
    BY <1>1, <2>1, <2>2 DEF CollectOn
<1>3. ASSUME CollectOn(st) PROVE CollectOn(u)
  <2>1. PICK k \in DOMAIN st : st[k].fn = "collect"
    BY <1>3 DEF CollectOn
  <2>2. k \in DOMAIN u /\ u[k] = st[k]
    BY <1>1
  <2> QED
    BY <2>1, <2>2 DEF CollectOn
<1>4. ASSUME f.fn = "collect" PROVE CollectOn(u)
  <2>1. Len(st) + 1 \in DOMAIN u
    BY <1>1
  <2> QED
    BY <1>1, <1>4, <2>1 DEF CollectOn
<1> QED
  BY <1>2, <1>3, <1>4 DEF u

LEMMA CollectTop ==
  ASSUME stack \in Seq(Frame), stack # <<>>
  PROVE  /\ Pop(stack) \in Seq(Frame) /\ Top(stack) \in Frame
         /\ CollectOn(stack) <=> CollectOn(Pop(stack)) \/ Top(stack).fn = "collect"
<1> DEFINE p == Pop(stack)
           t == Top(stack)
<1>1. p \in Seq(Frame) /\ t \in Frame /\ stack = Append(p, t)
  BY PopPush
<1> HIDE DEF p, t
<1>2. CollectOn(Append(p, t)) <=> CollectOn(p) \/ t.fn = "collect"
  BY <1>1, CollectPush
<1>3. CollectOn(stack) <=> CollectOn(p) \/ t.fn = "collect"
  BY <1>1, <1>2
<1> QED
  BY <1>1, <1>3 DEF p, t

LEMMA FlightMember ==
  ASSUME TypeOK, NEW c, InSeq(c, in_flight)
  PROVE  c \in Cmds
  BY Elements DEF TypeOK, InSeq

LEMMA InnerMoves ==
  ASSUME QueueInv, InnerStep \/ Return
  PROVE  \/ \E e \in Cmds : Transmits(e) \/ Erases(e)
         \/ Rests
<1>1. /\ pending \in Seq(Cmds) /\ in_flight \in Seq(Cmds) /\ stack \in Seq(Frame)
      /\ age \in [Cmds -> 0..AgeCap] /\ TypeOK
  BY DEF QueueInv, TypeOK
<1>2. /\ DistinctSeq(pending) /\ DistinctSeq(in_flight)
      /\ \A c : InSeq(c, in_flight) => ~InSeq(c, pending)
  BY WorkDistinct DEF QueueInv
<1>3. stack # <<>> /\ Pop(stack) \in Seq(Frame) /\ Top(stack) \in Frame
      /\ (CollectOn(stack) <=> CollectOn(Pop(stack)) \/ Top(stack).fn = "collect")
  <2>1. stack # <<>>
    BY DEF InnerStep, PumpSend, PumpDone, CollectInFlight, CollectPending, CollectDone, Complete,
           CompleteDone, Return, OnTop
  <2> QED
    BY <1>1, <2>1, CollectTop
<1>4. UserFrame \in Frame /\ UserFrame.fn = "user"
  BY FrameTypes DEF UserFrame
<1>5. CASE PumpSend
  <2>1. PICK i \in DOMAIN pending :
               /\ can_send(pending[i]) /\ pending' = Without(pending, i)
               /\ in_flight' = Append(in_flight, pending[i])
               /\ age' = [age EXCEPT ![pending[i]] = 0]
    BY <1>5 DEF PumpSend, IsFirst
  <2>2. OnTop("pump") /\ stack' = Append(stack, UserFrame)
    BY <1>5 DEF PumpSend
  <2> DEFINE e == pending[i]
  <2>3. e \in Cmds /\ InSeq(e, pending)
    BY <1>1, Elements DEF InSeq
  <2>4. ~InSeq(e, in_flight)
    BY <1>2, <2>3
  <2>5. \A c : InSeq(c, pending') <=> InSeq(c, pending) /\ c # e
    BY <1>1, <1>2, <2>1, InWithout
  <2>6. can_send(e) /\ age' = [age EXCEPT ![e] = 0] /\ in_flight' = Append(in_flight, e)
    BY <2>1
  <2> HIDE DEF e
  <2>7. \A c : InSeq(c, in_flight') <=> InSeq(c, in_flight) \/ c = e
    BY <1>1, <2>3, <2>6, InAppend
  <2>8. CollectOn(Append(stack, UserFrame)) <=> CollectOn(stack) \/ UserFrame.fn = "collect"
    BY <1>1, <1>4, CollectPush
  <2>9. CollectOn(stack') <=> CollectOn(stack)
    BY <1>4, <2>2, <2>8
  <2>10. Transmits(e)
    BY <2>2, <2>3, <2>4, <2>5, <2>6, <2>7, <2>9 DEF Transmits
  <2> QED
    BY <2>3, <2>10
<1>6. ASSUME OnTop("collect"), NEW e \in Cmds,
             stack' = Append(Pop(stack), CollectFrame(Append(Top(stack).cmds, e)))
      PROVE  CollectOn(stack) /\ CollectOn(stack')
  <2> DEFINE f == CollectFrame(Append(Top(stack).cmds, e))
  <2>1. Top(stack).cmds \in Seq(Cmds)
    BY <1>3 DEF Frame
  <2>2. Append(Top(stack).cmds, e) \in Seq(Cmds)
    BY <2>1
  <2>3. f \in Frame /\ f.fn = "collect"
    BY <2>2, FrameTypes DEF CollectFrame
  <2>4. stack' = Append(Pop(stack), f)
    BY <1>6
  <2> HIDE DEF f
  <2>5. CollectOn(Append(Pop(stack), f))
    BY <1>3, <2>3, CollectPush
  <2> QED
    BY <1>3, <1>6, <2>4, <2>5 DEF OnTop
<1>7. CASE CollectInFlight
  <2>1. PICK i \in DOMAIN in_flight :
               /\ in_flight' = Without(in_flight, i) /\ age' = [age EXCEPT ![in_flight[i]] = 0]
               /\ stack' = Append(Pop(stack), CollectFrame(Append(Top(stack).cmds, in_flight[i])))
    BY <1>7 DEF CollectInFlight
  <2>2. in_flight[i] \in Cmds /\ OnTop("collect") /\ pending' = pending
    BY <1>1, <1>7, Elements DEF CollectInFlight
  <2>3. \A c : InSeq(c, in_flight') <=> InSeq(c, in_flight) /\ c # in_flight[i]
    BY <1>1, <1>2, <2>1, InWithout
  <2>4. CollectOn(stack) /\ CollectOn(stack')
    BY <1>6, <2>1, <2>2
  <2>5. Erases(in_flight[i])
    BY <2>1, <2>2, <2>3, <2>4 DEF Erases
  <2> QED
    BY <2>2, <2>5
<1>8. CASE CollectPending
  <2>1. PICK i \in DOMAIN pending :
               /\ pending' = Without(pending, i) /\ age' = [age EXCEPT ![pending[i]] = 0]
               /\ stack' = Append(Pop(stack), CollectFrame(Append(Top(stack).cmds, pending[i])))
    BY <1>8 DEF CollectPending
  <2>2. /\ pending[i] \in Cmds /\ OnTop("collect") /\ in_flight' = in_flight
        /\ InSeq(pending[i], pending)
    BY <1>1, <1>8, Elements DEF CollectPending, InSeq
  <2>3. \A c : InSeq(c, pending') <=> InSeq(c, pending) /\ c # pending[i]
    BY <1>1, <1>2, <2>1, InWithout
  <2>4. CollectOn(stack) /\ CollectOn(stack')
    BY <1>6, <2>1, <2>2
  <2>5. Erases(pending[i])
    BY <2>1, <2>2, <2>3, <2>4 DEF Erases
  <2> QED
    BY <2>2, <2>5
<1>9. CASE CollectDone
  <2>1. /\ NoneOverdue /\ UNCHANGED <<pending, in_flight, age>>
        /\ OnTop("collect")
        /\ stack' = Append(Pop(stack), CompleteFrame(Top(stack).cmds, "kTimedOut"))
    BY <1>9 DEF CollectDone, queueVars, NoneOverdue, InSeq
  <2>2. Top(stack).fn = "collect"
    BY <2>1 DEF OnTop
  <2> QED
    BY <1>3, <2>1, <2>2 DEF Rests
<1>10. CASE PumpDone \/ CompleteDone \/ Return
  <2>1. /\ UNCHANGED <<pending, in_flight, age>> /\ stack' = Pop(stack)
        /\ Top(stack).fn # "collect"
    BY <1>10 DEF PumpDone, CompleteDone, Return, queueVars, OnTop
  <2> QED
    BY <1>3, <2>1 DEF Rests
<1>11. CASE Complete
  <2> DEFINE f == CompleteFrame(Tail(Top(stack).cmds), Top(stack).outcome)
             p == Pop(stack)
  <2>1. /\ UNCHANGED <<pending, in_flight, age>> /\ stack' = p \o <<f, UserFrame>>
        /\ Top(stack).fn = "complete" /\ Top(stack).cmds # <<>>
    BY <1>11 DEF Complete, OnTop
  <2>2. f \in Frame /\ f.fn = "complete"
    <3>1. Top(stack).cmds \in Seq(Cmds) /\ Top(stack).outcome \in Outcome \cup {"none"}
      BY <1>3 DEF Frame
    <3>2. Tail(Top(stack).cmds) \in Seq(Cmds)
      BY <2>1, <3>1
    <3> QED
      BY <3>1, <3>2 DEF Frame, CompleteFrame
  <2>3. p \in Seq(Frame) /\ (CollectOn(stack) <=> CollectOn(p))
    BY <1>3, <2>1
  <2> HIDE DEF f, p
  <2>4. stack' = Append(Append(p, f), UserFrame)
    BY <1>4, <2>1, <2>2, <2>3, PushTwoIs
  <2>5. Append(p, f) \in Seq(Frame) /\ (CollectOn(Append(p, f)) <=> CollectOn(p))
    BY <2>2, <2>3, CollectPush
  <2>6. CollectOn(Append(Append(p, f), UserFrame)) <=> CollectOn(Append(p, f))
    BY <1>4, <2>5, CollectPush
  <2>7. CollectOn(stack') <=> CollectOn(stack)
    BY <2>3, <2>4, <2>5, <2>6
  <2> QED
    BY <2>1, <2>7 DEF Rests
<1> QED
  BY <1>5, <1>7, <1>8, <1>9, <1>10, <1>11 DEF InnerStep


-----------------------------------------------------------------------------
(* What is transmitted, and when. *)

\* Only the loop of pump() transmits.
LEMMA OnlyPumpSends ==
  ASSUME SessionInv, [SessionNext]_sessionVars,
         NEW c \in Cmds, InSeq(c, in_flight'), ~InSeq(c, in_flight)
  PROVE  QueueStep /\ Transmits(c)
<1>1. CASE QueueStep
  <2>1. InnerStep \/ Return
    BY <1>1 DEF QueueStep
  <2>2. ~Rests /\ \A e \in Cmds : ~Erases(e)
    BY DEF Rests, Erases
  <2>3. PICK e \in Cmds : Transmits(e)
    BY <2>1, <2>2, InnerMoves DEF SessionInv
  <2>4. c = e
    BY <2>3 DEF Transmits
  <2> QED
    BY <1>1, <2>3, <2>4
<1>2. ASSUME in_flight' = in_flight PROVE FALSE
  BY <1>2
<1>3. ASSUME NEW r, set_ready(r) PROVE FALSE
  BY <1>2, <1>3 DEF set_ready
<1>4. ASSUME UNCHANGED vars PROVE FALSE
  BY <1>2, <1>4 DEF vars
<1>5. ASSUME NEW d, submit(d) PROVE FALSE
  BY <1>2, <1>5 DEF submit, queueVars
<1>6. ASSUME NEW id, on_response(id) PROVE FALSE
  <2>1. PICK i \in DOMAIN in_flight : in_flight' = Without(in_flight, i)
    BY <1>6 DEF on_response
  <2>2. in_flight \in Seq(Cmds) /\ DistinctSeq(in_flight)
    BY WorkDistinct DEF SessionInv, QueueInv, TypeOK
  <2> QED
    BY <2>1, <2>2, InWithout
<1>7. ASSUME NEW channel, NEW msg, NEW answers, deliver(channel, msg, answers) PROVE FALSE
  BY <1>3, <1>4, <1>6, <1>7 DEF deliver, deliver_reply, deliver_push
<1>8. CASE Disconnect
  BY <1>8, InSimple DEF Disconnect, cancel_all
<1>9. CASE SessionTick
  BY <1>2, <1>9 DEF SessionTick, tick, queueVars
<1>10. CASE Time
  BY <1>2, <1>10 DEF Time, Elapse
<1>11. CASE KeepAliveDue
  BY <1>4, <1>5, <1>11 DEF KeepAliveDue
<1>12. CASE FoldReply \/ DisconnectReset
  BY <1>3, <1>4, <1>12 DEF FoldReply, DisconnectReset
<1>13. CASE \E d \in Cmds : Send(d)
  BY <1>5, <1>13 DEF Send
<1>14. CASE UNCHANGED sessionVars
  BY <1>4, <1>14 DEF sessionVars
<1> QED
  BY <1>1, <1>7, <1>8, <1>9, <1>10, <1>11, <1>12, <1>13, <1>14
     DEF SessionNext, Reply, LateReply, Push

\* An ordinary command is transmitted only if both statuses were received since
\* the last disconnect: readiness does not survive a reconnect.
THEOREM SentAfterReportHolds ==
  ASSUME Understood
  PROVE  SessionSpec => SentAfterReport
<1> DEFINE A == \A c \in Cmds :
                  /\ CmdPrio[c] = "kQueued" /\ InSeq(c, in_flight') /\ ~InSeq(c, in_flight)
                  => told.busy # "unknown" /\ told.encoding # "unknown"
<1>1. SessionInv /\ GateInv /\ [SessionNext]_sessionVars => A
  <2> SUFFICES ASSUME SessionInv, GateInv, [SessionNext]_sessionVars,
                      NEW c \in Cmds, CmdPrio[c] = "kQueued",
                      InSeq(c, in_flight'), ~InSeq(c, in_flight)
               PROVE  told.busy # "unknown" /\ told.encoding # "unknown"
    OBVIOUS
  <2>1. Transmits(c)
    BY OnlyPumpSends
  <2>2. busy = "no" /\ encoding = "no"
    BY <2>1 DEF Transmits, can_send, GateInv, readyNow, IsReady
  <2>3. ~Doing("reset")
    <3>1. stack # <<>> /\ Top(stack).fn = "pump"
      BY <2>1 DEF Transmits, OnTop
    <3>2. Len(stack) \in DOMAIN stack /\ Top(stack) = stack[Len(stack)]
      BY <3>1, TopIsFrame DEF SessionInv, QueueInv
    <3> QED
      BY <3>1, <3>2 DEF SessionInv, CancelInv
  <2>4. CASE todo = <<>> \/ Doing("keep_alive")
    <3>1. told = [busy |-> busy, encoding |-> encoding]
      BY <2>4 DEF GateInv
    <3> QED
      BY <2>2, <3>1
  <2>5. ASSUME NEW s \in Steps, todo = <<s>>, s.step = "fold"
        PROVE  told.busy # "unknown" /\ told.encoding # "unknown"
    <3>1. Doing("fold") /\ Head(todo) = s
      BY <2>5 DEF Doing
    <3>2. told = [busy |-> fold(busy, s.upd.busy), encoding |-> fold(encoding, s.upd.encoding)]
      BY <3>1 DEF GateInv
    <3>3. s \in [step : {"fold"}, upd : Update, id : Ids, answers : Cmds \cup {"none"}]
      BY <2>5 DEF Steps
    <3>4. s.upd \in Update
      BY <3>3
    <3>5. s.upd.busy \in {"none", "yes", "no"} /\ s.upd.encoding \in {"none", "yes", "no"}
      BY <3>4 DEF Update
    <3>6. fold(busy, s.upd.busy) # "unknown" /\ fold(encoding, s.upd.encoding) # "unknown"
      BY <2>2, <3>5 DEF fold
    <3> QED
      BY <3>2, <3>6
  <2>6. ASSUME NEW s \in Steps, todo = <<s>>
        PROVE  s.step = "fold" \/ Doing("keep_alive") \/ Doing("reset")
    <3>1. s.step \in {"fold", "keep_alive", "reset"}
      BY DEF Steps
    <3>2. todo # <<>> /\ Head(todo) = s
      BY <2>6
    <3> QED
      BY <3>1, <3>2 DEF Doing
  <2> QED
    BY <2>3, <2>4, <2>5, <2>6 DEF SessionInv, SessionTypes
<1>2. SessionInv /\ GateInv /\ [SessionNext]_sessionVars => [A]_sessionVars
  BY <1>1
<1> QED
  BY <1>2, SessionInvariant, GateInvariant, PTL DEF SessionSpec, SentAfterReport


-----------------------------------------------------------------------------
(* The keep-alive. *)

\* Between events the interval runs from the last submission; one that was
\* refused found the one before in flight, which was then one interval old and
\* is given up on before the next.  What waits has not been transmitted yet;
\* what is in flight is as old as the silence.
AliveInv ==
  /\ ~started => silence = 0 /\ ~InWork(KeepAlive)
  /\ started => \/ silence \in {since, since + KeepAliveInterval}
                \/ InSeq(KeepAlive, pending) /\ silence <= 2 * KeepAliveInterval
  /\ started /\ ~due /\ ~Doing("keep_alive") => since < KeepAliveInterval
  /\ InSeq(KeepAlive, pending) => since = 0 /\ ~Doing("keep_alive")
  /\ InSeq(KeepAlive, in_flight) => age[KeepAlive] = silence \/ age[KeepAlive] >= WriteTimeout
  /\ CollectOn(stack) => Doing("keep_alive")
  /\ Doing("keep_alive") /\ ~CollectOn(stack) => NoneOverdue

LEMMA NothingWaits ==
  ASSUME QueueInv, stack = <<>>
  PROVE  ~InSeq(KeepAlive, pending) /\ ~CollectOn(stack)
<1>1. \A i \in DOMAIN pending : CmdPrio[pending[i]] = "kQueued"
  BY UngatedWhenIdle DEF UngatedNeverWait
<1>2. ~InSeq(KeepAlive, pending)
  BY <1>1, MessagesTyped DEF InSeq
<1> QED
  BY <1>2 DEF CollectOn

\* What is pushed on an empty stack.
LEMMA PushedOne ==
  ASSUME stack = <<>>, NEW f \in Frame, f.fn # "collect", stack' = Append(stack, f)
  PROVE  ~CollectOn(stack')
<1>1. stack \in Seq(Frame)
  OBVIOUS
<1>2. CollectOn(Append(stack, f)) <=> CollectOn(stack) \/ f.fn = "collect"
  BY <1>1, CollectPush
<1>3. ~CollectOn(stack)
  BY DEF CollectOn
<1> QED
  BY <1>2, <1>3

LEMMA PushedTwo ==
  ASSUME stack = <<>>, NEW f \in Frame, NEW g \in Frame, stack' = stack \o <<f, g>>
  PROVE  CollectOn(stack') <=> f.fn = "collect" \/ g.fn = "collect"
<1>1. stack \in Seq(Frame)
  OBVIOUS
<1>2. stack' = Append(Append(stack, f), g)
  BY <1>1, PushTwoIs
<1>3. Append(stack, f) \in Seq(Frame)
  BY <1>1
<1>4. /\ CollectOn(Append(stack, f)) <=> CollectOn(stack) \/ f.fn = "collect"
      /\ CollectOn(Append(Append(stack, f), g)) <=> CollectOn(Append(stack, f)) \/ g.fn = "collect"
  BY <1>1, <1>3, CollectPush
<1>5. ~CollectOn(stack)
  BY DEF CollectOn
<1> QED
  BY <1>2, <1>4, <1>5

LEMMA NoCollectFrames ==
  /\ PumpFrame \in Frame /\ PumpFrame.fn = "pump"
  /\ \A cs \in Seq(Cmds), o \in Outcome : /\ CompleteFrame(cs, o) \in Frame
                                          /\ CompleteFrame(cs, o).fn = "complete"
  BY FrameTypes DEF PumpFrame, CompleteFrame

LEMMA SetReadyStack ==
  ASSUME stack = <<>>, NEW r, set_ready(r)
  PROVE  ~CollectOn(stack') /\ UNCHANGED <<pending, in_flight, age>>
<1>1. CASE stack' = stack
  BY <1>1 DEF set_ready, CollectOn
<1>2. CASE stack' = Append(stack, PumpFrame)
  BY <1>2, PushedOne, NoCollectFrames DEF set_ready
<1> QED
  BY <1>1, <1>2 DEF set_ready

\* What a submission does outside the queue's operations.
LEMMA SubmitStack ==
  ASSUME QueueInv, stack = <<>>, NEW c \in Cmds, submit(c)
  PROVE  /\ ~CollectOn(stack') /\ in_flight' = in_flight
         /\ \/ duplicate(CmdId[c]) /\ UNCHANGED <<pending, age>>
            \/ /\ ~duplicate(CmdId[c]) /\ age' = [age EXCEPT ![c] = 0]
               /\ \A d : InSeq(d, pending') <=> InSeq(d, pending) \/ d = c
<1>1. CASE duplicate(CmdId[c])
  <2> DEFINE f == CompleteFrame(<<c>>, "kRejected")
  <2>1. stack' = Append(stack, f) /\ UNCHANGED <<pending, in_flight, age>>
    BY <1>1 DEF submit, queueVars
  <2>2. <<c>> \in Seq(Cmds)
    OBVIOUS
  <2>3. f \in Frame /\ f.fn = "complete"
    BY <2>2, NoCollectFrames DEF Outcome
  <2> HIDE DEF f
  <2> QED
    BY <1>1, <2>1, <2>3, PushedOne
<1>2. CASE ~duplicate(CmdId[c])
  <2>1. /\ pending' = <<c>> \o pending \/ pending' = Append(pending, c)
        /\ age' = [age EXCEPT ![c] = 0] /\ in_flight' = in_flight
        /\ stack' = Append(stack, PumpFrame)
    BY <1>2 DEF submit, queued_age
  <2>2. ~CollectOn(stack')
    BY <2>1, PushedOne, NoCollectFrames
  <2>3. pending \in Seq(Cmds) /\ <<c>> \in Seq(Cmds)
    BY DEF QueueInv, TypeOK
  <2>4. CASE pending' = <<c>> \o pending
    <3>1. \A d : InSeq(d, <<c>> \o pending) <=> InSeq(d, <<c>>) \/ InSeq(d, pending)
      BY <2>3, InConcat
    <3> QED
      BY <1>2, <2>1, <2>2, <2>4, <3>1, InSimple
  <2>5. CASE pending' = Append(pending, c)
    <3>1. \A d : InSeq(d, Append(pending, c)) <=> InSeq(d, pending) \/ d = c
      BY <2>3, InAppend
    <3> QED
      BY <1>2, <2>1, <2>2, <2>5, <3>1
  <2> QED
    BY <2>1, <2>4, <2>5
<1> QED
  BY <1>1, <1>2

\* A command that is given up on, answered or accepted leaves the keep-alive's
\* age alone.
LEMMA OtherAge ==
  ASSUME TypeOK, NEW e \in Cmds, age' = [age EXCEPT ![e] = 0]
  PROVE  /\ \A c \in Cmds : c # e => age'[c] = age[c]
         /\ age'[e] = 0
  BY DEF TypeOK


\* An event that leaves the clocks alone and does not touch the keep-alive.
LEMMA AliveKept ==
  ASSUME AliveInv, UNCHANGED aliveVars, ~Doing("keep_alive"), ~Doing("keep_alive")',
         ~CollectOn(stack'), InSeq(KeepAlive, pending') <=> InSeq(KeepAlive, pending),
         InSeq(KeepAlive, in_flight')
           => InSeq(KeepAlive, in_flight) /\ age'[KeepAlive] = age[KeepAlive]
  PROVE  AliveInv'
<1>1. started' = started /\ since' = since /\ due' = due /\ silence' = silence
  BY DEF aliveVars
<1>2. started => \/ silence \in {since, since + KeepAliveInterval}
                 \/ InSeq(KeepAlive, pending') /\ silence <= 2 * KeepAliveInterval
  BY DEF AliveInv
<1>3. (InSeq(KeepAlive, in_flight)
         => age[KeepAlive] = silence \/ age[KeepAlive] >= WriteTimeout)'
  BY <1>1 DEF AliveInv
<1>4. (~started => silence = 0 /\ ~InWork(KeepAlive))'
  BY <1>1 DEF AliveInv, InWork
<1> QED
  BY <1>1, <1>2, <1>3, <1>4 DEF AliveInv

LEMMA DeliverAlive ==
  ASSUME SessionInv, AliveInv, NEW channel, NEW msg \in Message,
         NEW answers \in Cmds \cup {"none"}, deliver(channel, msg, answers)
  PROVE  AliveInv'
<1> DEFINE upd == status_update(msg.bytes)
           id  == resolve(channel, msg.bytes)
<1>1. /\ stack = <<>> /\ todo = <<>> /\ UNCHANGED aliveVars
      /\ \/ /\ on_response(id)
            /\ todo' = <<[step |-> "fold", upd |-> upd, id |-> id, answers |-> answers]>>
         \/ deliver_push(upd)
  BY DeliverFacts DEF SessionInv
<1> HIDE DEF upd, id
<1>2. ~Doing("keep_alive")
  BY <1>1 DEF Doing
<1>3. CASE /\ on_response(id)
           /\ todo' = <<[step |-> "fold", upd |-> upd, id |-> id, answers |-> answers]>>
  <2>1. PICK i \in DOMAIN in_flight :
               /\ in_flight' = Without(in_flight, i) /\ age' = [age EXCEPT ![in_flight[i]] = 0]
               /\ stack' = stack \o <<PumpFrame, CompleteFrame(<<in_flight[i]>>, "kResponded")>>
               /\ pending' = pending
    BY <1>3 DEF on_response
  <2>2. /\ in_flight \in Seq(Cmds) /\ DistinctSeq(in_flight) /\ TypeOK
    BY WorkDistinct DEF SessionInv, QueueInv, TypeOK
  <2>3. in_flight[i] \in Cmds
    BY <2>2, Elements
  <2>4. \A c : InSeq(c, in_flight') <=> InSeq(c, in_flight) /\ c # in_flight[i]
    BY <2>1, <2>2, InWithout
  <2>5. \A c \in Cmds : c # in_flight[i] => age'[c] = age[c]
    BY <2>1, <2>2, <2>3, OtherAge
  <2>6. ~CollectOn(stack')
    <3> DEFINE f == CompleteFrame(<<in_flight[i]>>, "kResponded")
    <3>1. <<in_flight[i]>> \in Seq(Cmds)
      BY <2>3
    <3>2. f \in Frame /\ f.fn = "complete" /\ PumpFrame \in Frame /\ PumpFrame.fn = "pump"
      BY <3>1, NoCollectFrames DEF Outcome
    <3>3. stack' = stack \o <<PumpFrame, f>>
      BY <2>1
    <3> HIDE DEF f
    <3> QED
      BY <1>1, <3>2, <3>3, PushedTwo
  <2>7. ~Doing("keep_alive")'
    BY <1>3 DEF Doing
  <2> QED
    BY <1>1, <1>2, <2>1, <2>4, <2>5, <2>6, <2>7, AliveKept, MessagesTyped
<1>4. CASE deliver_push(upd)
  <2>1. ~CollectOn(stack') /\ UNCHANGED <<pending, in_flight, age>>
    BY <1>1, <1>4, SetReadyStack DEF deliver_push, vars, CollectOn
  <2>2. ~Doing("keep_alive")'
    BY <1>1, <1>4 DEF Doing, deliver_push
  <2> QED
    BY <1>1, <1>2, <2>1, <2>2, AliveKept
<1> QED
  BY <1>1, <1>3, <1>4

\* The second half of tick().
LEMMA AliveSubmit ==
  ASSUME Timely, SessionInv, AliveInv, KeepAliveDue
  PROVE  AliveInv'
<1>1. /\ stack = <<>> /\ Doing("keep_alive") /\ todo' = <<>> /\ ~Doing("keep_alive")' /\ due' = due
  BY DEF KeepAliveDue, Doing
<1>2. ~InSeq(KeepAlive, pending) /\ ~CollectOn(stack) /\ NoneOverdue
  BY <1>1, NothingWaits DEF SessionInv, AliveInv
<1>3. /\ KeepAlive \in Cmds /\ KeepAliveInterval \in Nat \ {0}
      /\ since \in 0..KeepAliveInterval /\ silence \in Nat /\ started \in BOOLEAN
  BY MessagesTyped DEF SessionInv, SessionTypes
<1>4. CASE ~started /\ started' = TRUE /\ since' = 0 /\ silence' = 0 /\ UNCHANGED vars
  <2>1. ~InWork(KeepAlive) /\ UNCHANGED <<pending, in_flight, age, stack>>
    BY <1>4 DEF AliveInv, vars
  <2> QED
    BY <1>1, <1>2, <1>3, <1>4, <2>1 DEF AliveInv, InWork
<1>5. CASE started /\ ~interval_over(since) /\ UNCHANGED <<started, since, silence, vars>>
  <2>1. /\ UNCHANGED <<pending, in_flight, age, stack>>
        /\ started' = started /\ since' = since /\ silence' = silence
    BY <1>5 DEF vars
  <2>2. since < KeepAliveInterval
    BY <1>3, <1>5 DEF interval_over
  <2> QED
    BY <1>1, <1>2, <1>3, <1>5, <2>1, <2>2 DEF AliveInv, InWork
<1>6. CASE /\ started /\ interval_over(since) /\ since' = 0 /\ submit(KeepAlive)
           /\ UNCHANGED <<started, silence>>
  <2>1. /\ ~CollectOn(stack') /\ in_flight' = in_flight
        /\ \/ duplicate(CmdId[KeepAlive]) /\ UNCHANGED <<pending, age>>
           \/ /\ ~duplicate(CmdId[KeepAlive]) /\ age' = [age EXCEPT ![KeepAlive] = 0]
              /\ \A d : InSeq(d, pending') <=> InSeq(d, pending) \/ d = KeepAlive
    BY <1>1, <1>3, <1>6, SubmitStack DEF SessionInv
  <2>2. since = KeepAliveInterval
    BY <1>3, <1>6 DEF interval_over
  <2>3. silence \in {since, since + KeepAliveInterval}
    BY <1>2, <1>6 DEF AliveInv
  <2>4. silence = KeepAliveInterval \/ silence = 2 * KeepAliveInterval
    BY <1>3, <2>2, <2>3
  <2>5. CASE duplicate(CmdId[KeepAlive]) /\ UNCHANGED <<pending, age>>
    <3>1. InWork(KeepAlive)
      <4>1. ASSUME NEW s \in Seq(Cmds), NEW i \in DOMAIN s, CmdId[s[i]] = CmdId[KeepAlive]
            PROVE  InSeq(KeepAlive, s)
        <5>1. s[i] = KeepAlive
          BY <4>1, Elements DEF Timely
        <5> QED
          BY <5>1 DEF InSeq
      <4>2. pending \in Seq(Cmds) /\ in_flight \in Seq(Cmds)
        BY DEF SessionInv, QueueInv, TypeOK
      <4> QED
        BY <2>5, <4>1, <4>2 DEF duplicate, is_in_flight, is_pending, InWork
    <3>2. InSeq(KeepAlive, in_flight)
      BY <1>2, <3>1 DEF InWork
    <3>3. ~(age[KeepAlive] >= WriteTimeout) /\ age[KeepAlive] = silence
      BY <1>2, <1>3, <3>2 DEF NoneOverdue, WriteOverdue, AliveInv
    <3>4. silence = KeepAliveInterval
      BY <1>3, <2>4, <3>3, TimeoutAssumption DEF Timely
    <3>5. silence' = since' + KeepAliveInterval
      BY <1>3, <1>6, <3>4
    <3>6. ~InSeq(KeepAlive, pending') /\ age'[KeepAlive] = silence'
      BY <1>2, <1>6, <2>5, <3>3
    <3>7. since' < KeepAliveInterval /\ started'
      BY <1>3, <1>6
    <3> QED
      BY <1>1, <2>1, <3>5, <3>6, <3>7 DEF AliveInv
  <2>6. CASE /\ ~duplicate(CmdId[KeepAlive])
             /\ \A d : InSeq(d, pending') <=> InSeq(d, pending) \/ d = KeepAlive
    <3>1. ~InSeq(KeepAlive, in_flight')
      BY <2>1, <2>6 DEF duplicate, is_in_flight, InSeq
    <3>2. InSeq(KeepAlive, pending') /\ silence' <= 2 * KeepAliveInterval
      BY <1>3, <1>6, <2>4, <2>6
    <3>3. since' = 0 /\ since' < KeepAliveInterval /\ started'
      BY <1>3, <1>6
    <3> QED
      BY <1>1, <2>1, <3>1, <3>2, <3>3 DEF AliveInv
  <2> QED
    BY <2>1, <2>5, <2>6
<1> QED
  BY <1>4, <1>5, <1>6 DEF KeepAliveDue


LEMMA AliveQueue ==
  ASSUME SessionInv, AliveInv, QueueStep
  PROVE  AliveInv'
<1>1. /\ started' = started /\ since' = since /\ due' = due /\ todo' = todo
      /\ silence' = IF InSeq(KeepAlive, in_flight') /\ ~InSeq(KeepAlive, in_flight)
                    THEN 0 ELSE silence
      /\ InnerStep \/ Return
  BY DEF QueueStep
<1>2. (Doing("keep_alive")' <=> Doing("keep_alive")) /\ KeepAlive \in Cmds /\ TypeOK
  BY <1>1, MessagesTyped DEF Doing, SessionInv, QueueInv
<1>3. /\ ~(InSeq(KeepAlive, in_flight) /\ InSeq(KeepAlive, pending))
      /\ since \in 0..KeepAliveInterval /\ KeepAliveInterval \in Nat /\ WriteTimeout \in Nat \ {0}
      /\ silence \in Nat
  BY WorkDistinct, MessagesTyped, TimeoutAssumption DEF SessionInv, QueueInv, SessionTypes
<1>4. ASSUME NEW e \in Cmds, Transmits(e) PROVE AliveInv'
  <2>1. /\ InSeq(e, pending) /\ ~InSeq(e, in_flight)
        /\ \A c : InSeq(c, pending') <=> InSeq(c, pending) /\ c # e
        /\ \A c : InSeq(c, in_flight') <=> InSeq(c, in_flight) \/ c = e
        /\ CollectOn(stack') <=> CollectOn(stack)
    BY <1>4 DEF Transmits
  <2>2. (\A c \in Cmds : c # e => age'[c] = age[c]) /\ age'[e] = 0
    BY <1>2, <1>4, OtherAge DEF Transmits
  <2>3. Doing("keep_alive")' /\ ~CollectOn(stack') => NoneOverdue'
    <3> SUFFICES ASSUME Doing("keep_alive"), ~CollectOn(stack), NEW c \in Cmds,
                        InSeq(c, in_flight')
                 PROVE  ~(age'[c] >= WriteTimeout)
      BY <1>2, <2>1 DEF NoneOverdue, WriteOverdue
    <3>1. CASE c = e
      BY <1>3, <2>2, <3>1
    <3>2. CASE c # e
      BY <2>1, <2>2, <3>2 DEF AliveInv, NoneOverdue, WriteOverdue
    <3> QED
      BY <3>1, <3>2
  <2>4. CASE e = KeepAlive
    <3>1. silence' = 0 /\ since' = 0 /\ started /\ age'[KeepAlive] = 0
      BY <1>1, <2>1, <2>2, <2>4 DEF AliveInv, InWork
    <3>2. ~InSeq(KeepAlive, pending')
      BY <2>1, <2>4
    <3>3. started' /\ silence' = since' /\ age'[KeepAlive] = silence'
      BY <1>1, <3>1
    <3>4. started' /\ ~due' /\ ~Doing("keep_alive")' => since' < KeepAliveInterval
      BY <1>1, <1>2 DEF AliveInv
    <3>5. CollectOn(stack') => Doing("keep_alive")'
      BY <1>2, <2>1 DEF AliveInv
    <3> QED
      BY <2>3, <3>2, <3>3, <3>4, <3>5 DEF AliveInv
  <2>5. CASE e # KeepAlive
    <3>1. /\ silence' = silence /\ age'[KeepAlive] = age[KeepAlive]
          /\ InSeq(KeepAlive, pending') <=> InSeq(KeepAlive, pending)
          /\ InSeq(KeepAlive, in_flight') <=> InSeq(KeepAlive, in_flight)
      BY <1>1, <1>2, <2>1, <2>2, <2>5
    <3> QED
      BY <1>1, <1>2, <2>1, <2>3, <3>1 DEF AliveInv, InWork
  <2> QED
    BY <2>4, <2>5
<1>5. ASSUME NEW e \in Cmds, Erases(e) PROVE AliveInv'
  <2>1. /\ CollectOn(stack) /\ CollectOn(stack') /\ Doing("keep_alive")
        /\ ~InSeq(KeepAlive, pending)
    BY <1>5 DEF Erases, AliveInv
  <2>2. \A c \in Cmds : c # e => age'[c] = age[c]
    BY <1>2, <1>5, OtherAge DEF Erases
  <2>3. ~InSeq(KeepAlive, pending') /\ (InSeq(KeepAlive, in_flight') =>
          InSeq(KeepAlive, in_flight) /\ age'[KeepAlive] = age[KeepAlive])
    BY <1>2, <1>5, <2>1, <2>2 DEF Erases
  <2>4. silence' = silence
    BY <1>1, <2>3
  <2> QED
    BY <1>1, <1>2, <2>1, <2>3, <2>4 DEF AliveInv, InWork
<1>6. CASE Rests
  <2>1. /\ pending' = pending /\ in_flight' = in_flight /\ age' = age /\ silence' = silence
        /\ CollectOn(stack') => CollectOn(stack)
        /\ CollectOn(stack) /\ ~CollectOn(stack') => NoneOverdue
    BY <1>1, <1>6 DEF Rests
  <2>2. NoneOverdue' <=> NoneOverdue
    BY <2>1 DEF NoneOverdue, WriteOverdue
  <2> QED
    BY <1>1, <1>2, <2>1, <2>2 DEF AliveInv, InWork
<1> QED
  BY <1>1, <1>4, <1>5, <1>6, InnerMoves DEF SessionInv

\* The clock: with the tick of the last unit done, the interval is not over.
LEMMA AliveTime ==
  ASSUME SessionInv, AliveInv, Time
  PROVE  AliveInv'
<1>1. /\ stack = <<>> /\ todo = <<>> /\ ~due /\ due' = TRUE /\ started' = started /\ todo' = todo
      /\ pending' = pending /\ in_flight' = in_flight /\ stack' = stack
      /\ since' = IF since < KeepAliveInterval THEN since + 1 ELSE since
      /\ silence' = IF started THEN silence + 1 ELSE silence
      /\ age' = [c \in Cmds |-> IF (InSeq(c, pending) \/ InSeq(c, in_flight)) /\ age[c] < AgeCap
                                THEN age[c] + 1 ELSE age[c]]
  BY DEF Time, Idle, Elapse
<1>2. ~Doing("keep_alive") /\ ~Doing("keep_alive")'
  BY <1>1 DEF Doing
<1>3. ~InSeq(KeepAlive, pending) /\ ~CollectOn(stack)
  BY <1>1, NothingWaits DEF SessionInv
<1>4. /\ KeepAlive \in Cmds /\ KeepAliveInterval \in Nat /\ since \in Nat /\ silence \in Nat
      /\ age[KeepAlive] \in 0..AgeCap /\ AgeCap \in Nat /\ AgeCap >= WriteTimeout
      /\ WriteTimeout \in Nat
  <2>1. AgeCap >= WriteTimeout
    BY TimeoutAssumption DEF AgeCap
  <2> QED
    BY <2>1, MessagesTyped, AgeCapType, TimeoutAssumption
       DEF SessionInv, SessionTypes, QueueInv, TypeOK
<1>5. CASE ~started
  BY <1>1, <1>2, <1>3, <1>5 DEF AliveInv, InWork
<1>6. CASE started
  <2>1. since' = since + 1 /\ silence' = silence + 1
    BY <1>1, <1>2, <1>6 DEF AliveInv
  <2>2. silence' \in {since', since' + KeepAliveInterval}
    BY <1>3, <1>4, <1>6, <2>1 DEF AliveInv
  <2>3. ASSUME InSeq(KeepAlive, in_flight)
        PROVE  age'[KeepAlive] = silence' \/ age'[KeepAlive] >= WriteTimeout
    <3>1. age'[KeepAlive] = IF age[KeepAlive] < AgeCap THEN age[KeepAlive] + 1 ELSE age[KeepAlive]
      BY <1>1, <1>4, <2>3
    <3>2. age[KeepAlive] = silence \/ age[KeepAlive] >= WriteTimeout
      BY <2>3 DEF AliveInv
    <3> QED
      BY <1>4, <2>1, <3>1, <3>2
  <2> QED
    BY <1>1, <1>2, <1>3, <1>6, <2>2, <2>3 DEF AliveInv
<1> QED
  BY <1>5, <1>6

LEMMA AliveStep ==
  ASSUME Timely
  PROVE  SessionInv /\ AliveInv /\ [SessionNext]_sessionVars => AliveInv'
<1> SUFFICES ASSUME SessionInv, AliveInv, [SessionNext]_sessionVars PROVE AliveInv'
  OBVIOUS
<1>1. ASSUME NEW c \in Cmds, Reply(c) \/ LateReply(c) PROVE AliveInv'
  <2>1. PICK msg \in Replies[c] : deliver(Sent[c].channel, msg, c)
    BY <1>1 DEF Reply, LateReply
  <2>2. msg \in Message
    BY <2>1, MessagesTyped
  <2> QED
    BY <2>1, <2>2, DeliverAlive
<1>2. CASE Push
  <2>1. PICK p \in Pushes : deliver(p[1], p[2], "none")
    BY <1>2 DEF Push
  <2>2. p[2] \in Message
    BY <2>1, MessagesTyped
  <2> QED
    BY <2>1, <2>2, DeliverAlive
<1>3. ASSUME NEW c \in Cmds, Send(c) PROVE AliveInv'
  <2>1. /\ stack = <<>> /\ todo = <<>> /\ todo' = todo /\ c # KeepAlive /\ submit(c)
        /\ UNCHANGED aliveVars
    BY <1>3 DEF Send, Idle
  <2>2. /\ ~CollectOn(stack') /\ in_flight' = in_flight
        /\ \/ UNCHANGED <<pending, age>>
           \/ /\ age' = [age EXCEPT ![c] = 0]
              /\ \A d : InSeq(d, pending') <=> InSeq(d, pending) \/ d = c
    BY <2>1, SubmitStack DEF SessionInv
  <2>3. age'[KeepAlive] = age[KeepAlive]
    BY <2>1, <2>2, OtherAge, MessagesTyped DEF SessionInv, QueueInv
  <2>4. ~Doing("keep_alive") /\ ~Doing("keep_alive")'
    BY <2>1 DEF Doing
  <2> QED
    BY <2>1, <2>2, <2>3, <2>4, AliveKept
<1>4. CASE FoldReply
  <2>1. stack = <<>> /\ todo' = <<>> /\ Doing("fold") /\ UNCHANGED aliveVars
    BY <1>4 DEF FoldReply, Doing
  <2>2. ~CollectOn(stack') /\ UNCHANGED <<pending, in_flight, age>>
    BY <1>4, <2>1, SetReadyStack DEF FoldReply, vars, CollectOn
  <2>3. ~Doing("keep_alive") /\ ~Doing("keep_alive")'
    BY <2>1 DEF Doing
  <2> QED
    BY <2>1, <2>2, <2>3, AliveKept
<1>5. CASE SessionTick
  <2> DEFINE f == CollectFrame(<<>>)
  <2>1. /\ stack = <<>> /\ stack' = stack \o <<PumpFrame, f>>
        /\ pending' = pending /\ in_flight' = in_flight /\ age' = age
        /\ started' = started /\ since' = since /\ silence' = silence
        /\ todo' = <<[step |-> "keep_alive"]>>
    BY <1>5 DEF SessionTick, Idle, tick, queueVars
  <2>2. f \in Frame /\ f.fn = "collect"
    <3>1. <<>> \in Seq(Cmds)
      OBVIOUS
    <3> QED
      BY <3>1, FrameTypes DEF CollectFrame
  <2> HIDE DEF f
  <2>3. CollectOn(stack')
    BY <2>1, <2>2, PushedTwo, NoCollectFrames
  <2>4. Doing("keep_alive")' /\ ~InSeq(KeepAlive, pending)
    <3>1. todo' # <<>> /\ Head(todo').step = "keep_alive"
      BY <2>1
    <3> QED
      BY <2>1, <3>1, NothingWaits DEF Doing, SessionInv
  <2> QED
    BY <2>1, <2>3, <2>4 DEF AliveInv, InWork
<1>6. CASE KeepAliveDue
  BY <1>6, AliveSubmit
<1>7. CASE Disconnect
  <2> DEFINE f == CompleteFrame(in_flight \o pending, "kCanceled")
  <2>1. /\ stack = <<>> /\ todo = <<>> /\ todo' = <<[step |-> "reset"]>> /\ UNCHANGED aliveVars
        /\ pending' = <<>> /\ in_flight' = <<>> /\ stack' = Append(stack, f)
    BY <1>7 DEF Disconnect, Idle, cancel_all
  <2>2. f \in Frame /\ f.fn = "complete"
    <3>1. in_flight \o pending \in Seq(Cmds)
      BY DEF SessionInv, QueueInv, TypeOK
    <3> QED
      BY <3>1, NoCollectFrames DEF Outcome
  <2> HIDE DEF f
  <2>3. ~CollectOn(stack') /\ ~InSeq(KeepAlive, pending)
    BY <2>1, <2>2, PushedOne, NothingWaits DEF SessionInv
  <2>4. ~InSeq(KeepAlive, pending') /\ ~InSeq(KeepAlive, in_flight')
    BY <2>1, InSimple
  <2>5. ~Doing("keep_alive") /\ ~Doing("keep_alive")'
    BY <2>1 DEF Doing
  <2> QED
    BY <2>1, <2>3, <2>4, <2>5, AliveKept
<1>8. CASE DisconnectReset
  <2>1. /\ stack = <<>> /\ Doing("reset") /\ todo' = <<>> /\ started' = FALSE /\ silence' = 0
        /\ since' = since /\ due' = due /\ set_ready(FALSE)
    BY <1>8 DEF DisconnectReset, Doing
  <2>2. ~CollectOn(stack') /\ pending' = pending /\ in_flight' = in_flight
    BY <2>1, SetReadyStack
  <2>3. ~InSeq(KeepAlive, pending') /\ ~InSeq(KeepAlive, in_flight')
    BY <2>1, <2>2, InSimple DEF SessionInv, CancelInv
  <2>4. ~Doing("keep_alive")'
    BY <2>1 DEF Doing
  <2> QED
    BY <2>1, <2>2, <2>3, <2>4 DEF AliveInv, InWork
<1>9. CASE QueueStep
  BY <1>9, AliveQueue
<1>10. CASE Time
  BY <1>10, AliveTime
<1>11. CASE UNCHANGED sessionVars
  BY <1>11 DEF sessionVars, aliveVars, vars, AliveInv, InWork, Doing, NoneOverdue, WriteOverdue
<1> QED
  BY <1>1, <1>2, <1>3, <1>4, <1>5, <1>6, <1>7, <1>8, <1>9, <1>10, <1>11 DEF SessionNext

\* However the camera answers and however long it is busy, no more than two
\* intervals pass without a keep-alive being transmitted: if a write is given
\* up on within two intervals and only tick() submits the keep-alive's command.
THEOREM KeepAliveInTimeHolds ==
  ASSUME Timely
  PROVE  SessionSpec => []KeepAliveInTime
<1>1. SessionInit => AliveInv
  <2> SUFFICES ASSUME SessionInit PROVE AliveInv
    OBVIOUS
  <2>1. /\ stack = <<>> /\ pending = <<>> /\ in_flight = <<>> /\ todo = <<>>
        /\ started = FALSE /\ silence = 0
    BY DEF SessionInit, Init
  <2> QED
    BY <2>1, InSimple DEF AliveInv, InWork, Doing, CollectOn
<1>2. SessionInv /\ AliveInv /\ [SessionNext]_sessionVars => AliveInv'
  BY AliveStep
<1>3. SessionInv /\ AliveInv => KeepAliveInTime
  <2> SUFFICES ASSUME SessionInv, AliveInv PROVE silence <= 2 * KeepAliveInterval
    BY DEF KeepAliveInTime
  <2>1. since \in 0..KeepAliveInterval /\ KeepAliveInterval \in Nat /\ silence \in Nat
    BY MessagesTyped DEF SessionInv, SessionTypes
  <2> QED
    BY <2>1 DEF AliveInv, SessionInv, SessionTypes
<1> QED
  BY <1>1, <1>2, <1>3, SessionInvariant, PTL DEF SessionSpec


-----------------------------------------------------------------------------
(* Replies. *)

LEMMA WirePowers == 2^8 = 256 /\ 2^16 = 65536 /\ 2^24 = 256 * 65536
  OBVIOUS

LEMMA FirstBytes ==
  ASSUME NEW p \in Seq(Byte)
  PROVE  /\ Len(p) >= 1 => p[1] \in 0..255
         /\ Len(p) >= 2 => p[2] \in 0..255
<1>1. p \in [1..Len(p) -> Byte] /\ Len(p) \in Nat
  OBVIOUS
<1>2. ASSUME NEW i \in Nat, 1 <= i, i <= Len(p)
      PROVE  p[i] \in Byte
  BY <1>1, <1>2
<1> QED
  BY <1>1, <1>2 DEF Byte

\* An id says from which channel and bytes it was made, and in which width.
LEMMA NarrowIds ==
  ASSUME NEW a \in 0..3, NEW b \in 0..255, NEW c \in 0..3, NEW d \in 0..255
  PROVE  correlation_of(a, b) = correlation_of(c, d) => a = c /\ b = d
  BY WirePowers DEF correlation_of

LEMMA WidthsApart ==
  ASSUME NEW a \in 0..3, NEW b \in 0..255,
         NEW d \in 0..3, NEW e \in 0..255, NEW f \in 0..255
  PROVE  correlation_of(a, b) # wide_id(d, e, f)
<1>1. /\ correlation_of(a, b) = a * 256 + b
      /\ wide_id(d, e, f) = 256 * 65536 + d * 65536 + e * 256 + f
  BY WirePowers DEF correlation_of, wide_id, kProtobufCorrelationBit
<1> QED
  BY <1>1

LEMMA ActionByte ==
  ASSUME NEW r \in 0..255
  PROVE  protobuf_response_action(r) \in 0..255
  BY DEF protobuf_response_action

\* The session takes a message for an answer to a command only if it looks like one.
LEMMA ResolvedSpeaks ==
  ASSUME NEW channel \in Channel, NEW msg \in Seq(Byte) \ {<<>>}, NEW c \in Commands,
         id_of(c) = resolve(channel, msg)
  PROVE  Speaks(channel, msg, c)
<1> DEFINE ch  == c.channel
           p   == c.payload
           act == protobuf_response_action(p[2])
<1>1. /\ ch \in 0..3 /\ p \in Seq(Byte) /\ c.protobuf \in BOOLEAN
      /\ Len(p) >= 1 /\ (c.protobuf => Len(p) >= 2) /\ channel \in 0..3
  BY DEF Commands, Channel, kChannelCount
<1>2. p[1] \in 0..255 /\ (c.protobuf => p[2] \in 0..255)
  BY <1>1, FirstBytes
<1>3. ASSUME c.protobuf PROVE act \in 0..255
  <2>1. p[2] \in 0..255
    BY <1>2, <1>3
  <2> HIDE DEF p
  <2> QED
    BY <2>1, ActionByte
<1>4. id_of(c) = IF c.protobuf THEN wide_id(ch, p[1], act) ELSE correlation_of(ch, p[1])
  BY DEF id_of, correlation_of_protobuf
<1>5. Len(msg) >= 1 /\ msg[1] \in 0..255 /\ (Len(msg) >= 2 => msg[2] \in 0..255)
  <2>1. msg \in Seq(Byte) /\ Len(msg) >= 1
    BY EmptySeq, LenProperties
  <2> QED
    BY <2>1, FirstBytes
<1>6. Speaks(channel, msg, c) <=>
        /\ channel = ch /\ msg[1] = p[1] /\ (c.protobuf => Len(msg) >= 2 /\ msg[2] = act)
  BY DEF Speaks
<1>c. ch \in 0..3 /\ channel \in 0..3
  BY <1>1
<1> HIDE DEF ch, p, act
<1>7. CASE Len(msg) >= 2 /\ resolve(channel, msg) = wide_id(channel, msg[1], msg[2])
  <2> DEFINE f == msg[1]
             a == msg[2]
             q == p[1]
  <2>1. f \in 0..255 /\ a \in 0..255 /\ q \in 0..255
    BY <1>2, <1>5, <1>7
  <2>2. resolve(channel, msg) = wide_id(channel, f, a)
    BY <1>7
  <2>3. id_of(c) = IF c.protobuf THEN wide_id(ch, q, act) ELSE correlation_of(ch, q)
    BY <1>4
  <2> HIDE DEF f, a, q
  <2>4. correlation_of(ch, q) # wide_id(channel, f, a)
    BY <1>c, <2>1, WidthsApart
  <2>5. c.protobuf
    BY <2>2, <2>3, <2>4
  <2>6. act \in 0..255 /\ wide_id(ch, q, act) = wide_id(channel, f, a)
    BY <1>3, <2>2, <2>3, <2>5
  <2>7. ch = channel /\ q = f /\ act = a
    <3>1. act \in 0..255
      BY <2>6
    <3>2. wide_id(ch, q, act) = wide_id(channel, f, a) => ch = channel /\ q = f /\ act = a
      BY <1>c, <2>1, <3>1, WirePowers DEF wide_id, kProtobufCorrelationBit
    <3> QED
      BY <2>6, <3>2
  <2> QED
    BY <1>6, <1>7, <2>7 DEF f, a, q
<1>8. CASE resolve(channel, msg) = correlation_of(channel, msg[1])
  <2> DEFINE f == msg[1]
             q == p[1]
  <2>1. f \in 0..255 /\ q \in 0..255
    BY <1>2, <1>5
  <2>2. resolve(channel, msg) = correlation_of(channel, f)
    BY <1>8
  <2>3. id_of(c) = IF c.protobuf THEN wide_id(ch, q, act) ELSE correlation_of(ch, q)
    BY <1>4
  <2> HIDE DEF f, q
  <2>4. c.protobuf => correlation_of(channel, f) # wide_id(ch, q, act)
    BY <1>c, <1>3, <2>1, WidthsApart
  <2>5. ~c.protobuf
    BY <2>2, <2>3, <2>4
  <2>6. correlation_of(ch, q) = correlation_of(channel, f)
    BY <2>2, <2>3, <2>5
  <2>7. ch = channel /\ q = f
    <3>1. correlation_of(ch, q) = correlation_of(channel, f) => ch = channel /\ q = f
      BY <1>c, <2>1, NarrowIds, ZenonT(40)
    <3> QED
      BY <2>6, <3>1
  <2> QED
    BY <1>6, <2>5, <2>7 DEF f, q
<1> QED
  BY <1>7, <1>8 DEF resolve, protobuf_correlation_of_message, correlation_of_message

\* What is in flight under the id of a message is a command it looks like an
\* answer to.
LEMMA InFlightSpeaks ==
  ASSUME QueueInv, NEW channel \in Channel, NEW msg \in Seq(Byte) \ {<<>>},
         is_in_flight(resolve(channel, msg))
  PROVE  \E d \in Cmds : CmdId[d] = resolve(channel, msg) /\ Speaks(channel, msg, Sent[d])
<1>1. PICK i \in DOMAIN in_flight : CmdId[in_flight[i]] = resolve(channel, msg)
  BY DEF is_in_flight
<1>2. in_flight[i] \in Cmds
  BY Elements DEF QueueInv, TypeOK
<1> DEFINE d == in_flight[i]
<1>3. Sent[d] \in Commands /\ id_of(Sent[d]) = resolve(channel, msg)
  BY <1>1, <1>2, KeepAliveAssumption
<1>4. Speaks(channel, msg, Sent[d])
  BY <1>3, ResolvedSpeaks
<1> QED
  BY <1>1, <1>2, <1>4

\* AnswersItsOwn, of the only step there can be.
OwnAnswer ==
  Doing("fold") => Head(todo).answers # "none" /\ CmdId[Head(todo).answers] = Head(todo).id

LEMMA OwnStep ==
  ASSUME Unambiguous
  PROVE  SessionInv /\ OwnAnswer /\ [SessionNext]_sessionVars => OwnAnswer'
<1> SUFFICES ASSUME SessionInv, OwnAnswer, [SessionNext]_sessionVars PROVE OwnAnswer'
  OBVIOUS
<1>1. ASSUME NEW channel \in Channel, NEW msg \in Message, NEW answers \in Cmds \cup {"none"},
             deliver(channel, msg, answers),
             \A d \in Cmds : Speaks(channel, msg.bytes, Sent[d])
                             => answers # "none" /\ CmdId[d] = CmdId[answers]
      PROVE  OwnAnswer'
  <2> DEFINE upd == status_update(msg.bytes)
             id  == resolve(channel, msg.bytes)
  <2>1. /\ todo = <<>>
        /\ \/ /\ is_in_flight(id)
              /\ todo' = <<[step |-> "fold", upd |-> upd, id |-> id, answers |-> answers]>>
           \/ deliver_push(upd)
    BY <1>1, DeliverFacts DEF SessionInv
  <2>2. ASSUME is_in_flight(id) PROVE answers # "none" /\ CmdId[answers] = id
    <3>1. msg.bytes \in Seq(Byte) \ {<<>>}
      BY DEF Message
    <3>2. PICK d \in Cmds : CmdId[d] = id /\ Speaks(channel, msg.bytes, Sent[d])
      BY <2>2, <3>1, InFlightSpeaks DEF SessionInv
    <3> QED
      BY <1>1, <3>2
  <2> HIDE DEF upd, id
  <2>3. CASE /\ is_in_flight(id)
             /\ todo' = <<[step |-> "fold", upd |-> upd, id |-> id, answers |-> answers]>>
    <3>1. Head(todo').answers = answers /\ Head(todo').id = id
      BY <2>3
    <3> QED
      BY <2>2, <2>3, <3>1 DEF OwnAnswer
  <2>4. CASE deliver_push(upd)
    BY <2>1, <2>4 DEF deliver_push, OwnAnswer, Doing
  <2> QED
    BY <2>1, <2>3, <2>4
<1>2. ASSUME NEW c \in Cmds, Reply(c) \/ LateReply(c) PROVE OwnAnswer'
  <2>1. PICK msg \in Replies[c] : deliver(Sent[c].channel, msg, c)
    BY <1>2 DEF Reply, LateReply
  <2>2. msg \in Message
    BY <2>1, MessagesTyped
  <2>3. Sent[c].channel \in Channel
    BY KeepAliveAssumption DEF Commands
  <2>4. \A d \in Cmds : Speaks(Sent[c].channel, msg.bytes, Sent[d]) => CmdId[d] = CmdId[c]
    BY <2>1 DEF Unambiguous
  <2> QED
    BY <1>1, <2>1, <2>2, <2>3, <2>4, KeepAliveAssumption
<1>3. CASE Push
  <2>1. PICK p \in Pushes : deliver(p[1], p[2], "none")
    BY <1>3 DEF Push
  <2>2. p[1] \in Channel /\ p[2] \in Message
    BY <2>1, MessagesTyped
  <2>3. \A d \in Cmds : ~Speaks(p[1], p[2].bytes, Sent[d])
    BY <2>1 DEF Unambiguous
  <2> QED
    BY <1>1, <2>1, <2>2, <2>3
<1>4. CASE todo' = <<>>
  BY <1>4 DEF OwnAnswer, Doing
<1>5. CASE todo' = todo
  BY <1>5 DEF OwnAnswer, Doing
<1>6. CASE SessionTick \/ Disconnect
  <2>1. todo' = <<[step |-> "keep_alive"]>> \/ todo' = <<[step |-> "reset"]>>
    BY <1>6 DEF SessionTick, Disconnect
  <2>2. Head(todo').step # "fold"
    BY <2>1
  <2> QED
    BY <2>2 DEF OwnAnswer, Doing
<1> QED
  BY <1>2, <1>3, <1>4, <1>5, <1>6 DEF SessionNext, Send, FoldReply, KeepAliveDue,
     DisconnectReset, QueueStep, Time, sessionVars

\* Nothing but an answer to it, or a late answer to an earlier one with its id,
\* completes a command: if the camera's messages are Unambiguous.
THEOREM AnswersItsOwnHolds ==
  ASSUME Unambiguous
  PROVE  SessionSpec => []AnswersItsOwn
<1>1. SessionInit => OwnAnswer
  BY DEF SessionInit, OwnAnswer, Doing
<1>2. SessionInv /\ OwnAnswer /\ [SessionNext]_sessionVars => OwnAnswer'
  BY OwnStep
<1>3. SessionInv /\ OwnAnswer => AnswersItsOwn
  <2> SUFFICES ASSUME SessionInv, OwnAnswer, NEW i \in DOMAIN todo, todo[i].step = "fold"
               PROVE  todo[i].answers # "none" /\ CmdId[todo[i].answers] = todo[i].id
    BY DEF AnswersItsOwn
  <2>1. PICK s \in Steps : todo = <<s>>
    BY DEF SessionInv, SessionTypes
  <2>2. todo[i] = s /\ Head(todo) = s /\ todo # <<>>
    BY <2>1
  <2> QED
    BY <2>2 DEF OwnAnswer, Doing
<1> QED
  BY <1>1, <1>2, <1>3, SessionInvariant, PTL DEF SessionSpec

==============================================================================
