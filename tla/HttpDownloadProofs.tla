------------------------- MODULE HttpDownloadProofs -------------------------
(***************************************************************************)
(* Proofs about HttpDownload, for a file of any length and any stall       *)
(* timeout.                                                                *)
(***************************************************************************)
EXTENDS HttpDownload, TLAPS

-----------------------------------------------------------------------------
(* The inductive invariant. *)

\* Before the headers there is no file, no sink, no pump and no timer.
NothingYet ==
  /\ file = Absent /\ buffered = 0 /\ given = 0
  /\ sink = "none" /\ pump = "none" /\ timer = Off

\* A chunk is on the wire, received, or lost with a broken connection; what the
\* sink took it has written or holds.
Conserved ==
  /\ sent + received <= given
  /\ conn # "broken" => given = sent + received
  /\ sink = "open" => file + buffered = received
  /\ sink = "closed" /\ file # Absent => file + buffered <= received

\* Where download() is and what it holds there.
Placed ==
  /\ pc \in {"getUrl", "close", "errorBody"} => NothingYet /\ result = "none"
  /\ pc = "any" => sink = "open" /\ pump = "running" /\ result = "none"
  /\ pc = "catch" => sink = "closed" /\ result \in {"connection", "stalled"}
                     /\ file # Absent
  /\ pc = "closing" => /\ sink = "closed" /\ pump = "ended" /\ result = "none"
                       /\ conn = "done" /\ sent = 0 /\ file + buffered = received
                       /\ file # Absent
  /\ pc = "ended" => result # "none" /\ flushed /\ sink # "open"
  /\ pc = "ended" /\ sink = "none" => NothingYet
  /\ buffered > 0 => file # Absent

\* The timer runs only while Future.any() waits, and never ahead of the silence.
TimerBehind == timer # Off => pc = "any" /\ timer <= silence

\* What is returned is complete and stays so: the response is over and nothing
\* is left to write.
ReturnedIsFinal ==
  result = "returned" =>
    /\ pc = "ended" /\ pump = "ended" /\ conn = "done" /\ sent = 0 /\ buffered = 0
    /\ file = given /\ (declared => file = Length)

\* No failure but the disk's leaves a file.
FailureIsClean ==
  pc = "ended" /\ result \notin {"returned", "disk"} => file = Absent /\ buffered = 0

HttpInv ==
  /\ HttpTypeOK /\ Conserved /\ Placed /\ TimerBehind /\ ReturnedIsFinal /\ FailureIsClean

-----------------------------------------------------------------------------
(* The invariant is inductive. *)

LEMMA OffAndAbsent ==
  /\ Length \in Nat /\ Length > 0 /\ StallTimeout \in Nat /\ MaxSilence \in Nat
  /\ StallTimeout <= MaxSilence
  /\ Off \in Nat /\ Off > StallTimeout /\ Off > 0
  /\ Absent \in Nat /\ Absent > Length /\ Absent > 0
BY HttpAssumption DEF Off, Absent

LEMMA SmallerSum ==
  ASSUME NEW a \in Nat, NEW b \in Nat, NEW c \in Nat, NEW d \in Nat,
         a + b <= c, d <= a
  PROVE  d + b <= c
OBVIOUS

LEMMA HttpInit == Init => HttpInv
<1> SUFFICES ASSUME Init PROVE HttpInv
  OBVIOUS
<1> USE OffAndAbsent DEF Init
<1>1. HttpTypeOK
  <2>1. declared \in BOOLEAN
    OBVIOUS
  <2>2. timer \in 0..StallTimeout \cup {Off} /\ silence \in 0..MaxSilence
    OBVIOUS
  <2>3. given \in 0..Length /\ sent \in 0..given /\ received \in 0..given
    OBVIOUS
  <2>4. file \in 0..Absent /\ buffered \in 0..Length
    OBVIOUS
  <2> QED BY <2>1, <2>2, <2>3, <2>4 DEF HttpTypeOK, Results
<1>2. Conserved /\ TimerBehind
  BY DEF Conserved, TimerBehind
<1>3. Placed
  BY DEF Placed, NothingYet
<1>4. ReturnedIsFinal /\ FailureIsClean
  BY DEF ReturnedIsFinal, FailureIsClean
<1> QED BY <1>1, <1>2, <1>3, <1>4 DEF HttpInv

LEMMA HttpStep == HttpInv /\ [Next]_httpVars => HttpInv'
<1> SUFFICES ASSUME HttpInv, [Next]_httpVars PROVE HttpInv'
  OBVIOUS
<1> USE OffAndAbsent DEF HttpInv, HttpTypeOK, Conserved, Placed, NothingYet, TimerBehind,
        ReturnedIsFinal, FailureIsClean, Results, flushed, wireVars, diskVars
<1>1. CASE GetUrl
  BY <1>1 DEF GetUrl
<1>2. CASE Headers
  BY <1>2 DEF Headers, first_arm, armed
<1>3. CASE ErrorBody
  BY <1>3 DEF ErrorBody
<1>4. CASE Chunk
  BY <1>4 DEF Chunk, rearm, armed, counted
<1>5. CASE PumpEnds
  BY <1>5 DEF PumpEnds
<1>6. CASE Stalled
  BY <1>6 DEF Stalled
<1>7. CASE Catch
  BY <1>7 DEF Catch, delete
<1>8. CASE Closed
  BY <1>8 DEF Closed, delete, truncated
<1>9. CASE ConnectionLost
  BY <1>9 DEF ConnectionLost
<1>10. CASE SendChunk
  BY <1>10 DEF SendChunk
<1>11. CASE End
  BY <1>11 DEF End
<1>12. CASE Break
  <2>1. sent' \in Nat /\ sent' <= sent
    BY <1>12 DEF Break
  <2>2. HttpTypeOK'
    BY <1>12, <2>1 DEF Break
  <2>3. Conserved'
    <3>1. /\ conn' = "broken" /\ received' = received /\ given' = given
          /\ sink' = sink /\ file' = file /\ buffered' = buffered
      BY <1>12 DEF Break
    <3>2. sent \in Nat /\ received \in Nat /\ given \in Nat /\ sent + received <= given
      OBVIOUS
    <3>3. sent' + received <= given
      BY <2>1, <3>2, SmallerSum
    <3> QED BY <3>1, <3>3
  <2>4. Placed' /\ TimerBehind' /\ ReturnedIsFinal' /\ FailureIsClean'
    BY <1>12, <2>1 DEF Break
  <2> QED BY <2>2, <2>3, <2>4
<1>13. CASE DiskWrite
  BY <1>13 DEF DiskWrite
<1>14. CASE DiskFails
  BY <1>14 DEF DiskFails
<1>15. CASE Tick
  BY <1>15 DEF Tick
<1>16. CASE UNCHANGED httpVars
  BY <1>16 DEF httpVars
<1> QED
  BY <1>1, <1>2, <1>3, <1>4, <1>5, <1>6, <1>7, <1>8, <1>9, <1>10, <1>11, <1>12, <1>13, <1>14,
     <1>15, <1>16 DEF Next, ProgramStep

-----------------------------------------------------------------------------
(* Theorems. *)

LEMMA HttpInvariant == Spec => []HttpInv
BY HttpInit, HttpStep, PTL DEF Spec

\* Types, for every length and timeout; no counter of the download runs over,
\* although the timer and the silence are counted up to MaxSilence only.
THEOREM HttpTypeCorrect == Spec => []HttpTypeOK
<1>1. HttpInv => HttpTypeOK
  BY DEF HttpInv
<1> QED BY <1>1, HttpInvariant, PTL

\* download() (gopro_http.dart) returns only what is all on disk and leaves no
\* file after a failure other than the disk's: for a file of any length,
\* however the wire, the disk, the timer and the pump it leaves behind
\* interleave.
THEOREM WholeOrNothingHolds == Spec => []WholeOrNothing
<1>1. HttpInv => WholeOrNothing
  BY DEF HttpInv, WholeOrNothing, ReturnedIsFinal, FailureIsClean
<1> QED BY <1>1, HttpInvariant, PTL

\* The stall timer (arm() and its callback) never fires early: only after
\* stallTimeout without a chunk is a download called stalled.
THEOREM StallIsEarnedHolds == Spec => StallIsEarned
<1> DEFINE Earned == result' = "stalled" /\ result # "stalled" => silence >= StallTimeout
<1>1. HttpInv /\ [Next]_httpVars => [Earned]_httpVars
  <2> SUFFICES ASSUME HttpInv, Next, result' = "stalled", result # "stalled"
               PROVE  silence >= StallTimeout
    OBVIOUS
  <2>1. Stalled
    BY DEF Next, ProgramStep, GetUrl, Headers, ErrorBody, Chunk, PumpEnds, Catch, Closed,
       ConnectionLost, SendChunk, End, Break, DiskWrite, DiskFails, Tick
  <2>2. timer = StallTimeout /\ timer # Off
    BY <2>1, OffAndAbsent DEF Stalled
  <2> QED BY <2>2, OffAndAbsent DEF HttpInv, TimerBehind, HttpTypeOK
<1> QED BY <1>1, HttpInvariant, PTL DEF Spec, StallIsEarned

=============================================================================
