---------------------------- MODULE HttpDownload ----------------------------
(***************************************************************************)
(* GoProHttp.download() (lib/src/http/gopro_http.dart): a camera's file    *)
(* streamed to disk, with a stall timer instead of a deadline.             *)
(*                                                                         *)
(* The camera, the connection and the disk are external.  Chunks are       *)
(* counted, not held.  The sink takes chunks at once and writes them when  *)
(* the disk lets it; its error, if any, comes out of sink.close() alone.   *)
(* The loop over the response (the pump) is not stopped when the timer     *)
(* wins: it goes on until the sink refuses a chunk.                        *)
(***************************************************************************)
EXTENDS Naturals

CONSTANTS
  Length,        \* chunks of the camera's file
  StallTimeout,  \* stallTimeout, in ticks; zero for none
  MaxSilence     \* bound: ticks that are counted

ASSUME HttpAssumption ==
  /\ Length \in Nat \ {0} /\ {StallTimeout, MaxSilence} \subseteq Nat
  /\ StallTimeout <= MaxSilence

VARIABLES
  \* The camera, the connection and the disk.
  conn,      \* "open", "done" (ended in order) or "broken"
  declared,  \* the camera declares the length
  sent,      \* chunks on the wire that have not been delivered yet
  given,     \* history: chunks the camera has sent in all
  disk,      \* "ok" or "failed"
  file,      \* chunks in the file, or Absent
  \* download().
  pc, received,
  buffered,  \* chunks the sink has taken and not written
  sink,      \* "none", "open", "closed"
  timer,     \* ticks since arm(), or Off
  pump,      \* the loop over the response: "none", "running", "ended"
  result,
  silence    \* history: ticks since the last chunk, or since arm() first ran

wireVars == <<conn, declared, sent, given>>
diskVars == <<disk, file, buffered>>
httpVars == <<wireVars, diskVars, pc, received, sink, timer, pump, result, silence>>

Off == MaxSilence + 1
Absent == Length + 1
Results == {"none", "returned", "connection", "status", "stalled", "truncated", "disk"}

-----------------------------------------------------------------------------
(* download(). *)

\* getUrl(): the connection is made within connectionTimeout or not at all.
GetUrl ==
  /\ pc = "getUrl"
  /\ \/ pc' = "close" /\ UNCHANGED result
     \/ pc' = "ended" /\ result' = "connection"
  /\ UNCHANGED <<wireVars, diskVars, received, sink, timer, pump, silence>>

\* Mutant: the timer starts with the first chunk.
first_arm_none == Off

\* arm(), before the pump starts and after every chunk.
armed == IF StallTimeout = 0 THEN Off ELSE 0
first_arm == armed

\* request.close() completes with the headers: a file, or an error whose body
\* is read to its end.
Headers ==
  /\ pc = "close" /\ conn = "open"
  /\ \/ /\ declared' \in BOOLEAN
        /\ file' = 0 /\ sink' = "open" /\ timer' = first_arm /\ pump' = "running"
        /\ silence' = 0 /\ pc' = "any"
     \/ pc' = "errorBody" /\ UNCHANGED <<declared, file, sink, timer, pump, silence>>
  /\ UNCHANGED <<conn, sent, given, disk, buffered, received, result>>

ErrorBody ==
  /\ pc = "errorBody" /\ pc' = "ended" /\ result' = "status"
  /\ UNCHANGED <<wireVars, diskVars, received, sink, timer, pump, silence>>

ConnectionLost ==
  /\ pc \in {"close", "errorBody"} /\ conn = "broken"
  /\ pc' = "ended" /\ result' = "connection"
  /\ UNCHANGED <<wireVars, diskVars, received, sink, timer, pump, silence>>

\* Mutant: the timer runs from the start of the download.
rearm_never == timer

rearm == armed

counted == received + 1

\* One chunk of the pump; a closed sink throws, which ends the pump and is not
\* seen by anyone, for Future.any() has its result.
Chunk ==
  /\ pump = "running" /\ sent > 0
  /\ sent' = sent - 1
  /\ received' = counted
  /\ IF sink = "open"
     THEN buffered' = buffered + 1 /\ timer' = rearm /\ UNCHANGED pump
     ELSE pump' = "ended" /\ UNCHANGED <<buffered, timer>>
  /\ silence' = 0
  /\ UNCHANGED <<conn, declared, given, disk, file, pc, sink, result>>

\* The response ends, and with it Future.any(): in order, or with an error.
PumpEnds ==
  /\ pump = "running" /\ sent = 0 /\ conn # "open"
  /\ pump' = "ended"
  /\ IF pc # "any" THEN UNCHANGED <<pc, result, timer, sink>>
     ELSE /\ timer' = Off /\ sink' = "closed"
          /\ IF conn = "done" THEN pc' = "closing" /\ UNCHANGED result
                              ELSE pc' = "catch" /\ result' = "connection"
  /\ UNCHANGED <<wireVars, diskVars, received, silence>>

\* The stall timer wins; catch closes the sink.
Stalled ==
  /\ pc = "any" /\ timer = StallTimeout
  /\ timer' = Off /\ sink' = "closed"
  /\ pc' = "catch" /\ result' = "stalled"
  /\ UNCHANGED <<wireVars, diskVars, received, pump, silence>>

flushed == buffered = 0 \/ disk = "failed"

delete == Absent

\* catch, once sink.close() is over: the file is deleted, unless close() throws.
Catch ==
  /\ pc = "catch" /\ flushed
  /\ pc' = "ended"
  /\ IF disk = "failed" THEN result' = "disk" /\ UNCHANGED file
                        ELSE file' = delete /\ UNCHANGED result
  /\ UNCHANGED <<wireVars, disk, buffered, received, sink, timer, pump, silence>>

\* Mutant: a short file is not noticed.
truncated_never == FALSE

truncated == declared /\ received # Length

\* After the try block, once sink.close() is over.
Closed ==
  /\ pc = "closing" /\ flushed
  /\ pc' = "ended"
  /\ \/ /\ disk = "failed" /\ result' = "disk" /\ UNCHANGED file
     \/ /\ disk = "ok" /\ truncated /\ result' = "truncated" /\ file' = delete
     \/ /\ disk = "ok" /\ ~truncated /\ result' = "returned" /\ UNCHANGED file
  /\ UNCHANGED <<wireVars, disk, buffered, received, sink, timer, pump, silence>>

-----------------------------------------------------------------------------
(* The camera, the connection, the disk and time. *)

SendChunk ==
  /\ conn = "open" /\ pump = "running" /\ given < Length
  /\ sent' = sent + 1 /\ given' = given + 1
  /\ UNCHANGED <<conn, declared, diskVars, pc, received, sink, timer, pump, result, silence>>

\* A response without a length may end anywhere, one with a length short of it
\* only by a connection that does not notice.
End ==
  /\ conn = "open" /\ pump = "running" /\ conn' = "done"
  /\ UNCHANGED <<declared, sent, given, diskVars, pc, received, sink, timer, pump, result, silence>>

\* The connection breaks, or close() forces it.
Break ==
  /\ conn = "open" /\ pc # "getUrl" /\ conn' = "broken" /\ sent' \in 0..sent
  /\ UNCHANGED <<declared, given, diskVars, pc, received, sink, timer, pump, result, silence>>

DiskWrite ==
  /\ disk = "ok" /\ buffered > 0
  /\ buffered' = buffered - 1 /\ file' = file + 1
  /\ UNCHANGED <<wireVars, disk, pc, received, sink, timer, pump, result, silence>>

DiskFails ==
  /\ disk = "ok" /\ buffered > 0 /\ disk' = "failed"
  /\ UNCHANGED <<wireVars, file, buffered, pc, received, sink, timer, pump, result, silence>>

\* Time passes while nothing is there to deliver and no timer has run out.
Tick ==
  /\ pc = "any" /\ sent = 0 /\ silence < MaxSilence /\ timer # StallTimeout
  /\ silence' = silence + 1
  /\ timer' = IF timer = Off THEN Off ELSE timer + 1
  /\ UNCHANGED <<wireVars, diskVars, pc, received, sink, pump, result>>

-----------------------------------------------------------------------------
Init ==
  /\ conn = "open" /\ declared = FALSE /\ sent = 0 /\ given = 0
  /\ disk = "ok" /\ file = Absent /\ buffered = 0
  /\ pc = "getUrl" /\ received = 0 /\ sink = "none" /\ timer = Off /\ pump = "none"
  /\ result = "none" /\ silence = 0

ProgramStep == Chunk \/ PumpEnds \/ Stalled \/ Catch \/ Closed \/ ConnectionLost

Next ==
  \/ GetUrl \/ Headers \/ ErrorBody \/ ProgramStep
  \/ SendChunk \/ End \/ Break \/ DiskWrite \/ DiskFails \/ Tick

Spec == Init /\ [][Next]_httpVars

\* The isolate and the clock run, the connection is made or refused, and the
\* disk writes or fails.  Nothing makes the camera speak.
FairSpec ==
  /\ Spec
  /\ WF_httpVars(GetUrl) /\ WF_httpVars(ProgramStep)
  /\ WF_httpVars(Tick) /\ WF_httpVars(DiskWrite)

-----------------------------------------------------------------------------
(* Properties. *)

\* Types.
HttpTypeOK ==
  /\ conn \in {"open", "done", "broken"} /\ declared \in BOOLEAN
  /\ given \in 0..Length /\ sent \in 0..given /\ received \in 0..given
  /\ disk \in {"ok", "failed"} /\ file \in 0..Absent /\ buffered \in 0..Length
  /\ pc \in {"getUrl", "close", "errorBody", "any", "catch", "closing", "ended"}
  /\ sink \in {"none", "open", "closed"} /\ timer \in 0..StallTimeout \cup {Off}
  /\ pump \in {"none", "running", "ended"} /\ result \in Results
  /\ silence \in 0..MaxSilence

\* download() returns only a file that is all on disk: everything the camera
\* sent, and everything it declared, however the disk, the connection and the
\* timer interleave.  "A partial file is worse than none": after a failure there
\* is no file, also when the camera goes on sending to the pump the timer left
\* behind, unless the disk failed too.
WholeOrNothing ==
  /\ result = "returned" => file = given /\ (declared => file = Length)
  /\ pc = "ended" /\ result \notin {"returned", "disk"} => file = Absent

\* "the deadline is nothing is arriving rather than this is taking a while": a
\* download is called stalled only after stallTimeout without a chunk.
StallIsEarned == [][result' = "stalled" /\ result # "stalled" => silence >= StallTimeout]_httpVars

\* Once the headers are there, a download with a stall timeout ends, although
\* the camera may fall silent at any chunk.
BodyEnds == pc = "any" ~> pc = "ended"

-----------------------------------------------------------------------------
(* What the documentation says and the code does not do. *)

\* stallTimeout is "How long a download may deliver nothing before it is
\* abandoned".
DownloadEnds == <>(pc = "ended")

\* "A partial file is worse than none", disk failures included.
NothingPartial ==
  pc = "ended" /\ result # "returned" => file = Absent

\* "The bytes go straight to disk": the sink never holds more than a chunk.
StraightToDisk == buffered <= 1

=============================================================================
