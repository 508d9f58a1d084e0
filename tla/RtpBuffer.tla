------------------------------ MODULE RtpBuffer ------------------------------
(***************************************************************************)
(* The frame buffer of an RTP session (rtp/buffer.cpp): a thread fetches   *)
(* frames of the medium ahead of time, the session's send thread takes     *)
(* them (getNextFrame), the thread that controls the session seeks and     *)
(* stops.  They share _frame under its mutex and wait on its conditions    *)
(* "empty" (the fetch thread, while the buffer is full) and "full" (the    *)
(* send thread, while it is low).  The flag _running is cleared by the     *)
(* fetch thread without the mutex.                                         *)
(*                                                                         *)
(* Abstracted: a frame is its position in the medium, one unit of time     *)
(* after the one before; a scale is its direction (which frames are passed *)
(* over above normal speed is said in FrameIterator); a medium is loaded   *)
(* and keeps its frames; an interruption of the wait for frames, which is  *)
(* reported like the end of the medium, is left to RtpSession.             *)
(***************************************************************************)
EXTENDS Integers, Sequences

CONSTANTS
  Length,    (* number of frames in the medium                             *)
  Loops,     (* is its iterator a loop?                                    *)
  Endless,   (* one without end?                                           *)
  Low, Full, (* SIZE_LOW and SIZE_FULL: buf-empty and buf-full             *)
  MaxSeeks   (* bound: calls of seek                                       *)

ASSUME LengthAssumption == Length \in Nat \ {0}

ASSUME MarksAssumption == Low \in Nat /\ Full \in Nat /\ Low <= Full

ASSUME SeeksAssumption == MaxSeeks \in Nat

ASSUME MediumAssumption ==
  /\ Loops \in BOOLEAN /\ Endless \in BOOLEAN
  /\ Endless => Loops

VARIABLES
  audio,     (* is it a buffer of audio? Else of video                      *)
  running,   (* _running                                                   *)
  data,      (* _frame.buf.data, the positions of the frames               *)
  pos,       (* _pos of the iterator _frame.idx                            *)
  scale,     (* the sign of _scale                                         *)
  fetch,     (* where the fetch thread is                                  *)
  consumer,  (* where the send thread is in getNextFrame                   *)
  control,   (* where the control thread is in seek, start or stop         *)
  woken,     (* the wait in progress on each condition has been notified   *)
  seeks,     (* calls of seek so far                                       *)
  out,       (* what getNextFrame returned, and the last frame it returned *)
  answer,    (* what drySeek answered                                      *)
  forgotten  (* history: a refused seek has emptied the buffer over a      *)
             (* fetch thread that waits for room and has not been told     *)

vars == <<audio, running, data, pos, scale, fetch, consumer, control, woken, seeks,
          out, answer, forgotten>>

FetchPcs    == {"off", "loop", "waitEmpty", "yield", "spin", "signal", "ended", "eof",
                "term"}
ConsumerPcs == {"off", "idle", "get", "low", "waitFull", "signal"}
ControlPcs  == {"idle", "start", "notify", "rejoin", "stopNotify", "stopJoin", "closed"}

Frame == 0 .. Length - 1

Init ==
  /\ audio \in BOOLEAN
  /\ running = FALSE
  /\ data = <<>>
  /\ pos = 0
  /\ scale = 1
  /\ fetch = "off" /\ consumer = "off" /\ control = "idle"
  /\ woken = [empty |-> FALSE, full |-> FALSE]
  /\ seeks = 0
  /\ out = [kind |-> "none", last |-> -1]
  /\ answer = "none"
  /\ forgotten = FALSE

(* The mutex of _frame is free: between two steps it is held by the send   *)
(* thread, from the test that the buffer is low to the wait, and for ever  *)
(* by a fetch thread that spins.                                           *)
LockFree == consumer # "low" /\ fetch # "spin"

(* Presentation time from the first to the last of the frames d.           *)
TimeSize(d) == IF d = <<>> THEN 0 ELSE Len(d) - 1

Backwards == audio /\ running /\ scale < 0

IsLow(d) == Backwards \/ TimeSize(d) < Low

(* Slip: the mark itself does not count as full.                           *)
PastFull(d) == Backwards \/ TimeSize(d) > Full

IsFull(d) == Backwards \/ TimeSize(d) >= Full

NotifyEmpty == woken' = [woken EXCEPT !.empty = @ \/ fetch = "waitEmpty"]

NotifyFull == woken' = [woken EXCEPT !.full = @ \/ consumer = "waitFull"]

-----------------------------------------------------------------------------
(* The fetch thread.                                                       *)

FetchAt(from, to) == fetch = from /\ fetch' = to

FetchTest ==
  /\ LockFree
  /\ FetchAt("loop", IF ~running THEN "eof" ELSE IF IsFull(data) THEN "waitEmpty" ELSE "yield")
  /\ UNCHANGED <<audio, running, data, pos, scale, consumer, control, woken, seeks,
                 out, answer, forgotten>>

FetchWoken ==
  /\ FetchAt("waitEmpty", "loop")
  /\ woken' = [woken EXCEPT !.empty = FALSE]
  /\ forgotten' = FALSE
  /\ UNCHANGED <<audio, running, data, pos, scale, consumer, control, seeks, out,
                 answer>>

(* The next frame of the iterator; one without end starts again.           *)
Advance(p) == IF Endless THEN (p + 1) % Length ELSE p + 1

(* After the yield, whatever happened meanwhile.                           *)
FetchFrame ==
  /\ LockFree /\ pos \in Frame /\ scale > 0
  /\ data' = Append(data, pos)
  /\ pos' = Advance(pos)
  /\ FetchAt("yield", IF IsLow(data') THEN "loop" ELSE "signal")
  /\ UNCHANGED <<audio, running, scale, consumer, control, woken, seeks, out, answer,
                 forgotten>>

(* Audio is not fetched backwards.                                         *)
FetchNothing ==
  /\ LockFree /\ audio /\ scale < 0
  /\ FetchAt("yield", IF IsLow(data) THEN "loop" ELSE "signal")
  /\ UNCHANGED <<audio, running, data, pos, scale, consumer, control, woken, seeks,
                 out, answer,
                 forgotten>>

(* Of video, no frame passes the test backwards, that it is a key frame    *)
(* and ++n < _scale: the iterator runs to the beginning, and out.          *)
PassAllBy ==
  /\ LockFree /\ ~audio /\ scale < 0 /\ ~Loops
  /\ FetchAt("yield", "ended")
  /\ pos' = -1
  /\ UNCHANGED <<audio, running, data, scale, consumer, control, woken, seeks, out,
                 answer, forgotten>>

(* A loop does not count rounds backwards: it never gets out, and keeps    *)
(* the mutex.                                                              *)
Spin ==
  /\ LockFree /\ ~audio /\ scale < 0 /\ Loops
  /\ FetchAt("yield", "spin")
  /\ UNCHANGED <<audio, running, data, pos, scale, consumer, control, woken, seeks,
                 out, answer,
                 forgotten>>

FetchSignal ==
  /\ FetchAt("signal", "loop")
  /\ NotifyFull
  /\ UNCHANGED <<audio, running, data, pos, scale, consumer, control, seeks, out,
                 answer, forgotten>>

(* Out of bounds; the iterator counts on, how far does not matter.         *)
FetchOutOfBounds ==
  /\ LockFree /\ pos \notin Frame /\ scale > 0
  /\ FetchAt("yield", "ended")
  /\ pos' = Length + 1
  /\ UNCHANGED <<audio, running, data, scale, consumer, control, woken, seeks, out,
                 answer, forgotten>>

(* The handler runs without the mutex.                                     *)
FetchEnds ==
  /\ FetchAt("ended", "eof")
  /\ running' = FALSE
  /\ UNCHANGED <<audio, data, pos, scale, consumer, control, woken, seeks, out,
                 answer, forgotten>>

FetchSaysSo ==
  /\ FetchAt("eof", "term")
  /\ NotifyFull
  /\ UNCHANGED <<audio, running, data, pos, scale, consumer, control, seeks, out,
                 answer, forgotten>>

-----------------------------------------------------------------------------
(* The send thread in getNextFrame.                                        *)

ConsumerAt(from, to) == consumer = from /\ consumer' = to

Call ==
  /\ ConsumerAt("idle", "get")
  /\ out' = [out EXCEPT !.kind = "none"]
  /\ UNCHANGED <<audio, running, data, pos, scale, fetch, control, woken, seeks,
                 answer, forgotten>>

TestLow ==
  /\ LockFree /\ ConsumerAt("get", "low")
  /\ running /\ IsLow(data)
  /\ UNCHANGED <<audio, running, data, pos, scale, fetch, control, woken, seeks, out,
                 answer, forgotten>>

WaitFull ==
  /\ ConsumerAt("low", "waitFull")
  /\ UNCHANGED <<audio, running, data, pos, scale, fetch, control, woken, seeks, out,
                 answer, forgotten>>

ConsumerWoken ==
  /\ ConsumerAt("waitFull", "get")
  /\ woken' = [woken EXCEPT !.full = FALSE]
  /\ UNCHANGED <<audio, running, data, pos, scale, fetch, control, seeks, out,
                 answer, forgotten>>

(* Slip: the fetch thread is never told that the buffer is low.            *)
TakeQuietly ==
  /\ LockFree /\ ~(running /\ IsLow(data)) /\ data # <<>>
  /\ ConsumerAt("get", "idle")
  /\ data' = Tail(data)
  /\ out' = [kind |-> "frame", last |-> Head(data)]
  /\ UNCHANGED <<audio, running, pos, scale, fetch, control, woken, seeks, answer,
                 forgotten>>

TakeFrame ==
  /\ LockFree /\ ~(running /\ IsLow(data)) /\ data # <<>>
  /\ ConsumerAt("get", IF running /\ IsLow(Tail(data)) THEN "signal" ELSE "idle")
  /\ data' = Tail(data)
  /\ out' = [kind |-> "frame", last |-> Head(data)]
  /\ UNCHANGED <<audio, running, pos, scale, fetch, control, woken, seeks, answer,
                 forgotten>>

TakeEof ==
  /\ LockFree /\ ~(running /\ IsLow(data)) /\ data = <<>>
  /\ ConsumerAt("get", "idle")
  /\ out' = [out EXCEPT !.kind = "eof"]
  /\ UNCHANGED <<audio, running, data, pos, scale, fetch, control, woken, seeks,
                 answer, forgotten>>

(* It takes the mutex again to give it back.                               *)
ConsumerSignal ==
  /\ LockFree /\ ConsumerAt("signal", "idle")
  /\ NotifyEmpty
  /\ UNCHANGED <<audio, running, data, pos, scale, fetch, control, seeks, out,
                 answer, forgotten>>

-----------------------------------------------------------------------------
(* The control thread.  The locks of the session keep its calls apart.     *)

ControlAt(from, to) == control = from /\ control' = to

(* Slip: the frames fetched so far stay in the buffer.                     *)
SeekKeeps ==
  /\ LockFree /\ ControlAt("idle", "start")
  /\ seeks < MaxSeeks /\ seeks' = seeks + 1
  /\ pos' \in Frame /\ scale' \in {1, -1}
  /\ UNCHANGED <<audio, running, data, fetch, consumer, woken, out, answer, forgotten>>

Seek ==
  /\ LockFree /\ ControlAt("idle", "start")
  /\ seeks < MaxSeeks /\ seeks' = seeks + 1
  /\ data' = <<>>
  /\ pos' \in Frame /\ scale' \in {1, -1}
  /\ UNCHANGED <<audio, running, fetch, consumer, woken, out, answer, forgotten>>

(* The buffer is cleared before the iterator refuses the time.             *)
SeekFails ==
  /\ LockFree /\ control = "idle"
  /\ seeks < MaxSeeks /\ seeks' = seeks + 1
  /\ data' = <<>>
  /\ forgotten' = (forgotten \/ (fetch = "waitEmpty" /\ ~woken.empty))
  /\ UNCHANGED <<audio, running, pos, scale, fetch, consumer, control, woken, out,
                 answer>>

(* The iterator is moved to a frame of the medium, then to where it was.   *)
DrySeek ==
  /\ LockFree /\ control = "idle" /\ seeks > 0
  /\ answer' = IF pos \in Frame THEN "time" ELSE "refused"
  /\ UNCHANGED <<audio, running, data, pos, scale, fetch, consumer, control, woken,
                 seeks, out, forgotten>>

(* start(), the last part of seek.  The send thread takes frames once the  *)
(* first seek is over.                                                     *)
StartThread ==
  /\ LockFree /\ fetch = "off" /\ ControlAt("start", "idle")
  /\ running' = TRUE
  /\ fetch' = "loop"
  /\ consumer' = IF consumer = "off" THEN "idle" ELSE consumer
  /\ UNCHANGED <<audio, data, pos, scale, woken, seeks, out, answer, forgotten>>

(* Slip: a running fetch thread is not told of the seek.                   *)
StartSilently ==
  /\ LockFree /\ fetch # "off"
  /\ ControlAt("start", IF running THEN "idle" ELSE "rejoin")
  /\ UNCHANGED <<audio, running, data, pos, scale, fetch, consumer, woken, seeks,
                 out, answer, forgotten>>

StartAgain ==
  /\ LockFree /\ fetch # "off"
  /\ ControlAt("start", IF running THEN "notify" ELSE "rejoin")
  /\ UNCHANGED <<audio, running, data, pos, scale, fetch, consumer, woken, seeks,
                 out, answer, forgotten>>

StartNotify ==
  /\ ControlAt("notify", "idle")
  /\ NotifyEmpty
  /\ UNCHANGED <<audio, running, data, pos, scale, fetch, consumer, seeks, out,
                 answer, forgotten>>

(* The termination barrier and the join of start and of stop.              *)
Join ==
  /\ FetchAt("term", "off")
  /\ ControlAt("rejoin", "start") \/ ControlAt("stopJoin", "closed")
  /\ UNCHANGED <<audio, running, data, pos, scale, consumer, woken, seeks, out,
                 answer, forgotten>>

Stop ==
  /\ LockFree /\ ControlAt("idle", "stopNotify")
  /\ running' = FALSE
  /\ UNCHANGED <<audio, data, pos, scale, fetch, consumer, woken, seeks, out, answer,
                 forgotten>>

(* Slip: only the send thread is woken.                                    *)
StopNotifyFull ==
  /\ ControlAt("stopNotify", IF fetch = "off" THEN "closed" ELSE "stopJoin")
  /\ NotifyFull
  /\ UNCHANGED <<audio, running, data, pos, scale, fetch, consumer, seeks, out,
                 answer, forgotten>>

StopNotify ==
  /\ ControlAt("stopNotify", IF fetch = "off" THEN "closed" ELSE "stopJoin")
  /\ woken' = [empty |-> woken.empty \/ fetch = "waitEmpty",
               full  |-> woken.full \/ consumer = "waitFull"]
  /\ UNCHANGED <<audio, running, data, pos, scale, fetch, consumer, seeks, out,
                 answer, forgotten>>

-----------------------------------------------------------------------------
Fetch ==
  \/ FetchTest \/ FetchWoken \/ FetchFrame \/ FetchNothing \/ FetchSignal
  \/ PassAllBy \/ Spin \/ FetchOutOfBounds \/ FetchEnds \/ FetchSaysSo

(* getNextFrame, once called.                                              *)
GetNextFrame ==
  \/ TestLow \/ WaitFull \/ ConsumerWoken \/ TakeFrame \/ TakeEof
  \/ ConsumerSignal

(* What the control thread may ask for, and the rest of what it asked.     *)
Ask == Seek \/ SeekFails \/ DrySeek \/ Stop

Answer == StartThread \/ StartAgain \/ StartNotify \/ Join \/ StopNotify

Next == Fetch \/ Call \/ GetNextFrame \/ Ask \/ Answer

Spec == Init /\ [][Next]_vars

(* The threads are scheduled, one that wants the mutex gets it when it is  *)
(* free time and again, and a wait ends when it has been notified; nothing *)
(* is owed to one that has not.  Nobody has to call.                       *)
FairSpec ==
  /\ Spec
  /\ SF_vars(Fetch /\ (fetch = "waitEmpty" => woken.empty))
  /\ WF_vars(GetNextFrame /\ (consumer = "waitFull" => woken.full))
  /\ SF_vars(Answer)

-----------------------------------------------------------------------------
(* Every variable stays in its range (the members of AVFrame, buffer.h).   *)
TypeOK ==
  /\ audio \in BOOLEAN
  /\ running \in BOOLEAN
  /\ data \in Seq(Frame)
  /\ pos \in -1 .. Length + 1
  /\ scale \in {1, -1}
  /\ fetch \in FetchPcs /\ consumer \in ConsumerPcs /\ control \in ControlPcs
  /\ woken \in [empty : BOOLEAN, full : BOOLEAN]
  /\ seeks \in 0 .. MaxSeeks
  /\ out \in [kind : {"none", "frame", "eof"}, last : Frame \cup {-1}]
  /\ answer \in {"none", "time", "refused"} /\ forgotten \in BOOLEAN

(* The buffer holds no more than "full" seconds and the frame that makes   *)
(* it full, whatever was cleared or taken during the yield (fetch).        *)
Bounded == Len(data) <= Full + 1

(* The fetch thread waits for room and the send thread for frames only     *)
(* while somebody is about to wake one of them (fetch, getNextFrame, seek),*)
(* but for two cases in which the code does let both sleep: audio that is  *)
(* played backwards, where the buffer is low and full at once, and a       *)
(* refused seek that has emptied a full buffer and notifies nobody.        *)
BothAsleep ==
  fetch = "waitEmpty" /\ ~woken.empty /\ consumer = "waitFull" /\ ~woken.full

NeverBothAsleep ==
  BothAsleep => control \in {"start", "notify", "stopNotify"} \/ Backwards \/ forgotten

(* The frames are delivered in order, each once (FrameStream).             *)
Capped(p) == IF p > Length THEN Length ELSE p

FS == INSTANCE FrameStream WITH
        at   <- IF data = <<>> THEN Capped(pos) ELSE Head(data),
        last <- out.last

ImplementsFrameStream == FS!Spec

(* The code loses a send thread that waits for frames where the two sleep  *)
(* as above; where the end was told between its test and its wait, which   *)
(* the fetch thread does without the mutex; and where the fetch thread     *)
(* spins.                                                                  *)
Lost ==
  \/ forgotten \/ Backwards
  \/ fetch = "term" /\ consumer = "waitFull" /\ ~woken.full
  \/ fetch = "spin"

(* Else getNextFrame returns: a thread is kept waiting only while one of   *)
(* these lasts, and once a seek has ended it is served (getNextFrame,      *)
(* fetch, start).                                                          *)
ConsumerServed == consumer = "waitFull" ~> (consumer = "idle" \/ []Lost)

(* seek and stop return, which join the fetch thread (start, stop).        *)
ControlReturns == control # "idle" ~> control \in {"idle", "closed"}

(* A time within the medium is not refused (drySeek).  Violated, so not    *)
(* among the runs' invariants: once the iterator is at the end of the      *)
(* medium every dry seek is, for it ends with the way back there.          *)
TimeInMediumAccepted == answer # "refused"

=============================================================================
