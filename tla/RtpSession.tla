----------------------------- MODULE RtpSession -----------------------------
(***************************************************************************)
(* One RTP session (rtp/session.cpp, rtp/session_methods.cpp): the thread  *)
(* that controls it -- the RTSP connection's, which holds the locks of the *)
(* connection and of the RTSP session, so requests never overlap -- and    *)
(* the send thread that fetches frames and sends them.                     *)
(*                                                                         *)
(* The two share the flags of Session::Status, the "asleep" barrier, the   *)
(* "wakeup" condition and the thread object, under the mutex of _th.  The  *)
(* control thread releases the mutex at the end of each of its steps; the  *)
(* send thread keeps it between steps at the locations of SndLocked.       *)
(*                                                                         *)
(* Abstracted: times (whether a frame is due and whether the requested end *)
(* is reached are free choices), the frames (a frame is the number of the  *)
(* seek it was buffered for), the frame buffer (how many frames it can     *)
(* still deliver, whether its thread runs), and the two RTCP threads (off, *)
(* running, paused, or ended by themselves; their rendezvous is always     *)
(* answered, by a sender that ends as well).                               *)
(***************************************************************************)
EXTENDS Naturals

CONSTANTS
  MaxSeeks,   (* bound: PLAY requests that seek                            *)
  MaxFrames,  (* bound: frames the medium holds after a seek               *)
  Prompt,     (* may a request reach the session while the send thread is  *)
              (* on its way from the asleep barrier to the wakeup wait?    *)
  BadRange,   (* may a client ask for a time beyond the medium's end?      *)
  Spurious    (* may a condition wait return without a notification?       *)

ASSUME BoundsAssumption == MaxSeeks \in Nat /\ MaxFrames \in Nat

ASSUME EnvironmentAssumption ==
  Prompt \in BOOLEAN /\ BadRange \in BOOLEAN /\ Spurious \in BOOLEAN

VARIABLES
  cpc,       (* where the control thread is                                *)
  spc,       (* where the send thread is                                   *)
  flag,      (* _status.bag and _pause.sync                                *)
  th,        (* _th: is there a thread, _interruptible, is an interruption *)
             (* requested and not yet delivered                            *)
  barrier,   (* who is blocked in _pause.asleep and in the barrier of _th  *)
  notified,  (* the wakeup wait in progress has been notified              *)
  loc,       (* locals of run and fetchNextFrame: before the first frame,  *)
             (* skipping after a seek, the frame in hand (0 for none)      *)
  frameNext, (* _frame.next (0 for none)                                   *)
  buf,       (* frame buffer: its thread runs, frames left, seeks so far   *)
  rtcp,      (* the two RTCP threads                                       *)
  crash,     (* why the process ended, "no" while it runs                  *)
  hist       (* history: PAUSE answered and no PLAY or TEARDOWN since;     *)
             (* frames of an older seek sent since the last seek; a bit    *)
             (* that flips with each frame sent                            *)

vars == <<cpc, spc, flag, th, barrier, notified, loc, frameNext, buf, rtcp, crash,
          hist>>

CtlPcs == {"idle", "setup", "broken", "playNotify", "unpauseNotify",
           "interrupt", "signal", "asleepArrive", "asleepWait", "pauseEnd",
           "tdNotify", "tdStop", "termArrive", "termWait", "join", "done"}

(* Locations of the send thread outside and inside the mutex.              *)
SndUnlocked == {"off", "start", "fetching", "fetched", "eof", "sleep",
                "sleepEnd", "asleepArrive", "asleepWait", "asleepEnd",
                "wakeWait", "termArrive", "termWait"}
SndLocked   == {"firstSync", "test", "park", "woken", "resync", "retest",
                "send", "loopEnd", "exit"}

Init ==
  /\ cpc = "idle"
  /\ spc = "off"
  /\ flag = [stopped |-> TRUE, paused |-> FALSE, seeked |-> FALSE, sync |-> FALSE]
  \* the constructor of ThreadBarrier leaves _interruptible unset
  /\ th \in [exists : {FALSE}, interruptible : BOOLEAN, pending : {FALSE}]
  /\ barrier = [asleep |-> {}, term |-> {}]
  /\ notified = FALSE
  /\ loc = [first |-> FALSE, skip |-> FALSE, tmp |-> 0]
  /\ frameNext = 0
  /\ buf = [running |-> FALSE, frames |-> 0, epoch |-> 0]
  /\ rtcp = [sender |-> "off", receiver |-> "off"]
  /\ crash = "no"
  /\ hist = [acked |-> FALSE, stale |-> 0, beat |-> FALSE]

Alive == crash = "no"

(* The control thread can take the session's mutex.                        *)
Unlocked == spc \notin SndLocked

CtlAt(from, to) == Alive /\ cpc = from /\ cpc' = to

SndAt(from, to) == Alive /\ spc = from /\ spc' = to

(* The send thread has left the asleep barrier, not yet reached the wait.  *)
FallingAsleep ==
  spc = "asleepEnd" \/ (spc = "asleepWait" /\ "snd" \notin barrier.asleep)

(* A request takes the mutex; it starts when the previous one is over.     *)
Request(from) ==
  /\ Alive /\ Unlocked /\ cpc \in from
  /\ Prompt \/ ~FallingAsleep

(* A barrier of two: the first to arrive waits, the second releases it.    *)
Arrive(b, p) ==
  barrier' = [barrier EXCEPT ![b] = IF @ = {} THEN {p} ELSE {}]

-----------------------------------------------------------------------------
(* PLAY.  The first half, play(rq), runs before the reply is sent, the     *)
(* second half, play(), after it.                                          *)

BufferSeek ==
  \E n \in 1 .. MaxFrames :
    buf' = [running |-> TRUE, frames |-> n, epoch |-> buf.epoch + 1]

(* play(rq) on a stopped session.                                          *)
DoFirstPlay ==
  /\ Request({"idle"}) /\ cpc' = "setup"
  /\ flag.stopped /\ buf.epoch < MaxSeeks
  /\ flag' = [flag EXCEPT !.stopped = FALSE, !.paused = TRUE]
  /\ BufferSeek
  /\ hist' = [hist EXCEPT !.stale = 0]
  /\ UNCHANGED <<spc, th, barrier, notified, loc, frameNext, rtcp, crash>>

(* The same with a time the buffer's seek refuses: the flags are already   *)
(* set.  An aggregate PLAY answers "bad request"; from a per-track one the *)
(* exception leaves Play::prepare, whose specification excludes it.        *)
DoFirstPlayFails ==
  /\ BadRange /\ Request({"idle"})
  /\ flag.stopped
  /\ flag' = [flag EXCEPT !.stopped = FALSE, !.paused = TRUE]
  /\ crash' \in {"no", "range"}
  /\ UNCHANGED <<cpc, spc, th, barrier, notified, loc, frameNext, buf, rtcp, hist>>

(* play(rq) on a session that is playing or paused.                        *)
DoSeekScale ==
  /\ Request({"idle"}) /\ cpc' = "setup"
  /\ ~flag.stopped /\ buf.epoch < MaxSeeks
  /\ \E hasRange \in BOOLEAN : flag' = [flag EXCEPT !.seeked = hasRange]
  /\ frameNext' = 0
  /\ BufferSeek
  /\ hist' = [hist EXCEPT !.stale = 0]
  /\ UNCHANGED <<spc, th, barrier, notified, loc, rtcp, crash>>

(* The same with a time the buffer's seek refuses, having dropped the      *)
(* frames it held.                                                         *)
DoSeekScaleFails ==
  /\ BadRange /\ Request({"idle"})
  /\ ~flag.stopped
  /\ \E hasRange \in BOOLEAN : flag' = [flag EXCEPT !.seeked = hasRange]
  /\ frameNext' = 0
  /\ \E n \in 0 .. buf.frames : buf' = [buf EXCEPT !.frames = n]
  /\ crash' \in {"no", "range"}
  /\ UNCHANGED <<cpc, spc, th, barrier, notified, loc, rtcp, hist>>

(* The reply to PLAY cannot be written: the connection shuts down.         *)
ReplyFails ==
  /\ CtlAt("setup", "broken")
  /\ UNCHANGED <<spc, flag, th, barrier, notified, loc, frameNext, buf, rtcp, crash, hist>>

(* play(): the send thread is created unless there is one.                 *)
PlayEffective ==
  /\ Unlocked /\ CtlAt("setup", "playNotify")
  /\ flag' = [flag EXCEPT !.paused = FALSE]
  /\ th' = [th EXCEPT !.exists = TRUE]
  /\ spc' = IF th.exists THEN spc ELSE "start"
  /\ rtcp' = IF th.exists THEN rtcp ELSE [rtcp EXCEPT !.receiver = "run"]
  /\ hist' = [hist EXCEPT !.acked = FALSE]
  /\ UNCHANGED <<barrier, notified, loc, frameNext, buf, crash>>

(* Slip: unpause forgets to notify.                                        *)
UnpauseSilently ==
  /\ Request({"idle"}) /\ cpc' = "idle"
  /\ flag.paused
  /\ flag' = [flag EXCEPT !.paused = FALSE]
  /\ hist' = [hist EXCEPT !.acked = FALSE]
  /\ UNCHANGED <<spc, th, barrier, notified, loc, frameNext, buf, rtcp, crash>>

(* PLAY without range and scale toggles the pause.                         *)
Unpause ==
  /\ Request({"idle"}) /\ cpc' = "unpauseNotify"
  /\ flag.paused
  /\ flag' = [flag EXCEPT !.paused = FALSE]
  /\ hist' = [hist EXCEPT !.acked = FALSE]
  /\ UNCHANGED <<spc, th, barrier, notified, loc, frameNext, buf, rtcp, crash>>

(* Slip: teardown does not wake a paused session.                          *)
NotifyPlaysOnly ==
  /\ \/ CtlAt("playNotify", "idle")
     \/ CtlAt("unpauseNotify", "idle")
     \/ CtlAt("tdNotify", "tdStop")
  /\ notified' = (notified \/ (spc = "wakeWait" /\ cpc # "tdNotify"))
  /\ UNCHANGED <<spc, flag, th, barrier, loc, frameNext, buf, rtcp, crash, hist>>

(* notify_all of play, unpause and teardown, with the mutex released.      *)
NotifyWakeup ==
  /\ \/ CtlAt("playNotify", "idle")
     \/ CtlAt("unpauseNotify", "idle")
     \/ CtlAt("tdNotify", "tdStop")
  /\ notified' = (notified \/ spc = "wakeWait")
  /\ UNCHANGED <<spc, flag, th, barrier, loc, frameNext, buf, rtcp, crash, hist>>

-----------------------------------------------------------------------------
(* PAUSE.                                                                  *)

(* On a paused session PAUSE is answered at once.                          *)
PauseAlready ==
  /\ Request({"idle"})
  /\ flag.paused /\ ~hist.acked
  /\ hist' = [hist EXCEPT !.acked = TRUE]
  /\ UNCHANGED <<cpc, spc, flag, th, barrier, notified, loc, frameNext, buf, rtcp, crash>>

Pause ==
  /\ Request({"idle"}) /\ cpc' = "interrupt"
  /\ ~flag.stopped /\ ~flag.paused
  /\ flag' = [flag EXCEPT !.paused = TRUE, !.sync = TRUE]
  /\ UNCHANGED <<spc, th, barrier, notified, loc, frameNext, buf, rtcp, crash, hist>>

(* _th.interrupt() reads the flag without the mutex ...                    *)
InterruptTest ==
  /\ CtlAt("interrupt", IF th.interruptible THEN "signal" ELSE "asleepArrive")
  /\ UNCHANGED <<spc, flag, th, barrier, notified, loc, frameNext, buf, rtcp, crash, hist>>

(* ... then acts on it, through a pointer that may be null.                *)
InterruptSignal ==
  /\ CtlAt("signal", "asleepArrive")
  /\ th' = [th EXCEPT !.pending = th.exists]
  /\ crash' = IF th.exists THEN "no" ELSE "null"
  /\ UNCHANGED <<spc, flag, barrier, notified, loc, frameNext, buf, rtcp, hist>>

(* Slip: PAUSE does not wait for the send thread.                          *)
CtlSkipsBarrier ==
  /\ CtlAt("asleepArrive", "pauseEnd")
  /\ UNCHANGED <<spc, flag, th, barrier, notified, loc, frameNext, buf, rtcp, crash, hist>>

(* The control thread meets the send thread in the asleep barrier.         *)
CtlAsleepBarrier ==
  /\ \/ /\ CtlAt("asleepArrive", IF barrier.asleep = {} THEN "asleepWait" ELSE "pauseEnd")
        /\ Arrive("asleep", "ctl")
     \/ /\ CtlAt("asleepWait", "pauseEnd") /\ "ctl" \notin barrier.asleep
        /\ UNCHANGED barrier
  /\ UNCHANGED <<spc, flag, th, notified, loc, frameNext, buf, rtcp, crash, hist>>

(* The mutex is taken again and PAUSE is answered.                         *)
PauseEnd ==
  /\ Unlocked /\ CtlAt("pauseEnd", "idle")
  /\ hist' = [hist EXCEPT !.acked = TRUE]
  /\ UNCHANGED <<spc, flag, th, barrier, notified, loc, frameNext, buf, rtcp, crash>>

-----------------------------------------------------------------------------
(* TEARDOWN, or the end of the connection: the session is destroyed.       *)

AfterStop == IF th.exists THEN "termArrive" ELSE "done"

Teardown ==
  /\ Request({"idle", "broken"})
  /\ flag' = [flag EXCEPT !.stopped = TRUE, !.paused = FALSE]
  /\ hist' = [hist EXCEPT !.acked = FALSE]
  /\ IF flag.paused
       THEN cpc' = "tdNotify" /\ UNCHANGED buf
       ELSE cpc' = AfterStop /\ buf' = [buf EXCEPT !.running = FALSE]
  /\ UNCHANGED <<spc, th, barrier, notified, loc, frameNext, rtcp, crash>>

StopBuffer ==
  /\ Unlocked /\ CtlAt("tdStop", AfterStop)
  /\ buf' = [buf EXCEPT !.running = FALSE]
  /\ UNCHANGED <<spc, flag, th, barrier, notified, loc, frameNext, rtcp, crash, hist>>

(* ThreadBarrier::reset: the termination barrier ...                       *)
CtlTermBarrier ==
  /\ \/ /\ CtlAt("termArrive", IF barrier.term = {} THEN "termWait" ELSE "join")
        /\ Arrive("term", "ctl")
     \/ /\ CtlAt("termWait", "join") /\ "ctl" \notin barrier.term
        /\ UNCHANGED barrier
  /\ UNCHANGED <<spc, flag, th, notified, loc, frameNext, buf, rtcp, crash, hist>>

(* Slip: the thread object is released without a join.                     *)
Detach ==
  /\ CtlAt("join", "done")
  /\ th' = [th EXCEPT !.exists = FALSE]
  /\ UNCHANGED <<spc, flag, barrier, notified, loc, frameNext, buf, rtcp, crash, hist>>

(* ... and the end of the thread.                                          *)
Join ==
  /\ spc = "off" /\ CtlAt("join", "done")
  /\ th' = [th EXCEPT !.exists = FALSE]
  /\ UNCHANGED <<spc, flag, barrier, notified, loc, frameNext, buf, rtcp, crash, hist>>

-----------------------------------------------------------------------------
(* The send thread: fetchNextFrame.                                        *)

(* The frame is fetched with the mutex released.                           *)
BeginFetch(isFirst) ==
  /\ spc' = "fetching"
  /\ loc' = [first |-> isFirst, skip |-> flag.seeked, tmp |-> 0]

SndStarts ==
  /\ Alive /\ spc = "start"
  /\ BeginFetch(TRUE)
  /\ UNCHANGED <<cpc, flag, th, barrier, notified, frameNext, buf, rtcp, crash, hist>>

(* Slips: a frame is taken from an empty buffer; a seek does not flush it. *)
GetAnyFrame ==
  /\ SndAt("fetching", "fetched")
  /\ buf' = [buf EXCEPT !.frames = @ - 1]
  /\ loc' = [loc EXCEPT !.tmp = buf.epoch]
  /\ UNCHANGED <<cpc, flag, th, barrier, notified, frameNext, rtcp, crash, hist>>

GetOldFrame ==
  /\ SndAt("fetching", "fetched") /\ buf.frames > 0
  /\ buf' = [buf EXCEPT !.frames = @ - 1]
  /\ \E e \in 1 .. buf.epoch : loc' = [loc EXCEPT !.tmp = e]
  /\ UNCHANGED <<cpc, flag, th, barrier, notified, frameNext, rtcp, crash, hist>>

(* getNextFrame delivers; after a seek, frames too far ahead are skipped.  *)
GetNextFrame ==
  /\ SndAt("fetching", "fetched") \/ (loc.skip /\ SndAt("fetching", "fetching"))
  /\ buf.frames > 0
  /\ buf' = [buf EXCEPT !.frames = @ - 1]
  /\ loc' = [loc EXCEPT !.tmp = buf.epoch]
  /\ UNCHANGED <<cpc, flag, th, barrier, notified, frameNext, rtcp, crash, hist>>

(* The medium is over, or the buffer was stopped and is drained; so also   *)
(* getNextFrame reports an interruption of its wait for frames.            *)
GetEof ==
  /\ SndAt("fetching", "eof")
  /\ loc' = [loc EXCEPT !.tmp = 0]
  /\ \/ /\ buf.frames = 0 \/ ~buf.running
        /\ buf' = [buf EXCEPT !.running = FALSE, !.frames = 0]
        /\ UNCHANGED th
     \/ /\ th.pending /\ buf.running
        /\ th' = [th EXCEPT !.pending = FALSE]
        /\ UNCHANGED buf
  /\ UNCHANGED <<cpc, flag, barrier, notified, frameNext, rtcp, crash, hist>>

(* The frame is installed under the mutex.  After the first, RTCP reports  *)
(* start; a later one is sent without leaving the mutex if it is due, else *)
(* the thread sleeps, interruptible.                                       *)
InstallFrame ==
  /\ \/ /\ loc.first /\ SndAt("fetched", "firstSync")
        /\ rtcp' = [rtcp EXCEPT !.sender = "run"] /\ UNCHANGED th
     \/ /\ ~loc.first /\ SndAt("fetched", "send")
        /\ UNCHANGED <<th, rtcp>>
     \/ /\ ~loc.first /\ SndAt("fetched", "sleep")
        /\ th' = [th EXCEPT !.interruptible = TRUE] /\ UNCHANGED rtcp
  /\ frameNext' = loc.tmp
  /\ loc' = [first |-> FALSE, skip |-> FALSE, tmp |-> 0]
  /\ flag' = [flag EXCEPT !.seeked = @ /\ ~loc.skip]
  /\ UNCHANGED <<cpc, barrier, notified, buf, crash, hist>>

(* The end of the medium is caught around the send loop, where the RTCP    *)
(* sender is stopped, but not around the first fetch.                      *)
FetchEof ==
  /\ Alive /\ spc = "eof"
  /\ frameNext' = 0
  /\ IF loc.first
       THEN crash' = "eof" /\ UNCHANGED <<spc, rtcp>>
       ELSE spc' = "loopEnd" /\ rtcp' = [rtcp EXCEPT !.sender = "off"] /\ UNCHANGED crash
  /\ UNCHANGED <<cpc, flag, th, barrier, notified, loc, buf, hist>>

-----------------------------------------------------------------------------
(* The send thread: run.                                                   *)

(* The RTCP sender has sent its first report.                              *)
RtcpSynced ==
  /\ SndAt("firstSync", "test") \/ SndAt("resync", "retest")
  /\ UNCHANGED <<cpc, flag, th, barrier, notified, loc, frameNext, buf, rtcp, crash, hist>>

(* Slip: PAUSED is tested once, not in a loop around the wakeup wait.      *)
LoopTestOnce ==
  /\ \/ SndAt("test", IF flag.stopped THEN "exit" ELSE IF flag.paused THEN "park" ELSE "send")
     \/ SndAt("retest", "send")
  /\ UNCHANGED <<cpc, flag, th, barrier, notified, loc, frameNext, buf, rtcp, crash, hist>>

(* The outer loop tests STOPPED, the pause loop inside it only PAUSED.     *)
LoopTest ==
  /\ \/ SndAt("test", IF flag.stopped THEN "exit" ELSE IF flag.paused THEN "park" ELSE "send")
     \/ SndAt("retest", IF flag.paused THEN "park" ELSE "send")
  /\ UNCHANGED <<cpc, flag, th, barrier, notified, loc, frameNext, buf, rtcp, crash, hist>>

(* Slips: the RTCP receiver is left running; the rendezvous is left out.   *)
ParkSenderOnly ==
  /\ SndAt("park", IF flag.sync THEN "asleepArrive" ELSE "wakeWait")
  /\ rtcp' = [rtcp EXCEPT !.sender = IF @ = "run" THEN "paused" ELSE @]
  /\ UNCHANGED <<cpc, flag, th, barrier, notified, loc, frameNext, buf, crash, hist>>

ParkAlone ==
  /\ SndAt("park", "wakeWait")
  /\ rtcp' = [t \in DOMAIN rtcp |-> IF rtcp[t] = "run" THEN "paused" ELSE rtcp[t]]
  /\ UNCHANGED <<cpc, flag, th, barrier, notified, loc, frameNext, buf, crash, hist>>

(* The RTCP threads are paused; then the thread meets the control thread   *)
(* at the barrier, or goes straight to the wakeup wait.                    *)
Park ==
  /\ SndAt("park", IF flag.sync THEN "asleepArrive" ELSE "wakeWait")
  /\ rtcp' = [t \in DOMAIN rtcp |-> IF rtcp[t] = "run" THEN "paused" ELSE rtcp[t]]
  /\ UNCHANGED <<cpc, flag, th, barrier, notified, loc, frameNext, buf, crash, hist>>

SndAsleepBarrier ==
  /\ \/ /\ SndAt("asleepArrive", IF barrier.asleep = {} THEN "asleepWait" ELSE "asleepEnd")
        /\ Arrive("asleep", "snd")
     \/ /\ SndAt("asleepWait", "asleepEnd") /\ "snd" \notin barrier.asleep
        /\ UNCHANGED barrier
  /\ UNCHANGED <<cpc, flag, th, notified, loc, frameNext, buf, rtcp, crash, hist>>

(* The mutex is taken again, and given up for the wait: PAUSED is not      *)
(* looked at in between.                                                   *)
WaitWakeup ==
  /\ SndAt("asleepEnd", "wakeWait")
  /\ UNCHANGED <<cpc, flag, th, barrier, notified, loc, frameNext, buf, rtcp, crash, hist>>

Wakeup ==
  /\ notified \/ Spurious
  /\ SndAt("wakeWait", "woken")
  /\ notified' = FALSE
  /\ UNCHANGED <<cpc, flag, th, barrier, loc, frameNext, buf, rtcp, crash, hist>>

(* Slip: the RTCP receiver is not woken.                                   *)
WokenSenderOnly ==
  /\ SndAt("woken", IF flag.stopped THEN "retest" ELSE "resync")
  /\ rtcp' = IF flag.stopped THEN rtcp ELSE [rtcp EXCEPT !.sender = "run"]
  /\ UNCHANGED <<cpc, flag, th, barrier, notified, loc, frameNext, buf, crash, hist>>

(* Unless the session was stopped, the RTCP threads are woken as well: a   *)
(* sender that has ended is started anew, a receiver that has is not.      *)
Woken ==
  /\ SndAt("woken", IF flag.stopped THEN "retest" ELSE "resync")
  /\ rtcp' = IF flag.stopped THEN rtcp
             ELSE [sender   |-> "run",
                   receiver |-> IF rtcp.receiver = "paused" THEN "run" ELSE rtcp.receiver]
  /\ UNCHANGED <<cpc, flag, th, barrier, notified, loc, frameNext, buf, crash, hist>>

(* sendNextFrame, then the next fetch releases the mutex; the packet may   *)
(* be dropped because the socket would block.  The frame stays in          *)
(* _frame.next until another replaces it.                                  *)
Send ==
  /\ Alive /\ spc = "send"
  /\ BeginFetch(FALSE)
  /\ hist' \in {hist} \cup
       (IF frameNext = 0 THEN {}
        ELSE {[hist EXCEPT !.beat = ~@, !.stale = IF frameNext = buf.epoch THEN @ ELSE @ + 1]})
  /\ UNCHANGED <<cpc, flag, th, barrier, notified, frameNext, buf, rtcp, crash>>

(* Packets dropped for too long count as the end of the medium, any other  *)
(* socket error just leaves the send loop.                                 *)
SendFails ==
  /\ SndAt("send", "loopEnd") /\ frameNext # 0
  /\ rtcp' \in {rtcp, [rtcp EXCEPT !.sender = "off"]}
  /\ UNCHANGED <<cpc, flag, th, barrier, notified, loc, frameNext, buf, crash, hist>>

(* The sleep ends in time or by an interruption, which is caught.          *)
SleepOver ==
  /\ SndAt("sleep", "sleepEnd")
  /\ th' = [th EXCEPT !.pending = FALSE]
  /\ UNCHANGED <<cpc, flag, barrier, notified, loc, frameNext, buf, rtcp, crash, hist>>

(* With the mutex taken again: the condition of the send loop, which ends  *)
(* it at the requested end time too.                                       *)
AfterSleep ==
  /\ \/ SndAt("sleepEnd", "loopEnd")
     \/ SndAt("sleepEnd", "send") /\ ~flag.stopped /\ ~flag.paused
  /\ th' = [th EXCEPT !.interruptible = FALSE]
  /\ UNCHANGED <<cpc, flag, barrier, notified, loc, frameNext, buf, rtcp, crash, hist>>

(* Slip: a PAUSE that came first is overwritten.                           *)
SelfPauseAlways ==
  /\ SndAt("loopEnd", "test")
  /\ flag' = IF flag.stopped THEN flag
             ELSE [flag EXCEPT !.paused = TRUE, !.sync = FALSE]
  /\ UNCHANGED <<cpc, th, barrier, notified, loc, frameNext, buf, rtcp, crash, hist>>

(* Out of the send loop, nobody asking for it: the session pauses itself.  *)
SelfPause ==
  /\ SndAt("loopEnd", "test")
  /\ flag' = IF flag.stopped \/ flag.paused THEN flag
             ELSE [flag EXCEPT !.paused = TRUE, !.sync = FALSE]
  /\ UNCHANGED <<cpc, th, barrier, notified, loc, frameNext, buf, rtcp, crash, hist>>

Exit ==
  /\ SndAt("exit", "termArrive")
  /\ flag' = [flag EXCEPT !.stopped = TRUE, !.paused = FALSE]
  /\ rtcp' = [sender |-> "off", receiver |-> "off"]
  /\ buf' = [buf EXCEPT !.running = FALSE]
  /\ UNCHANGED <<cpc, th, barrier, notified, loc, frameNext, crash, hist>>

SndTermBarrier ==
  /\ \/ /\ SndAt("termArrive", IF barrier.term = {} THEN "termWait" ELSE "off")
        /\ Arrive("term", "snd")
     \/ /\ SndAt("termWait", "off") /\ "snd" \notin barrier.term
        /\ UNCHANGED barrier
  /\ UNCHANGED <<cpc, flag, th, notified, loc, frameNext, buf, rtcp, crash, hist>>

(* A pending interruption surfaces wherever the thread blocks: at a        *)
(* barrier it is the first to reach, in the wakeup wait, joining an RTCP   *)
(* thread.  run() throw() lets no exception out.                           *)
Interrupted ==
  /\ Alive /\ th.pending
  /\ \/ spc \in {"firstSync", "resync", "asleepWait", "asleepEnd", "wakeWait",
                  "exit", "termWait", "send"}
     \/ spc = "asleepArrive" /\ barrier.asleep = {}
     \/ spc = "termArrive" /\ barrier.term = {}
     \/ spc = "eof" /\ ~loc.first
  /\ crash' = "interrupt"
  /\ UNCHANGED <<cpc, spc, flag, th, barrier, notified, loc, frameNext, buf, rtcp, hist>>

-----------------------------------------------------------------------------
(* An RTCP thread ends by itself: the sender on a socket error, when it    *)
(* writes; the receiver on a socket error or a BYE, also one it read while *)
(* it was being paused.  The session is not told, and goes on.             *)
RtcpEnds ==
  /\ Alive
  /\ \/ /\ rtcp.sender = "run"
        /\ rtcp' = [rtcp EXCEPT !.sender = "ended"]
     \/ /\ rtcp.receiver \in {"run", "paused"}
        /\ rtcp' = [rtcp EXCEPT !.receiver = "ended"]
  /\ UNCHANGED <<cpc, spc, flag, th, barrier, notified, loc, frameNext, buf, crash, hist>>

(* What clients may ask for.                                               *)
Ask ==
  \/ DoFirstPlay \/ DoFirstPlayFails \/ DoSeekScale \/ DoSeekScaleFails
  \/ Unpause \/ PauseAlready \/ Pause \/ Teardown

(* The rest of a request, once begun; a broken connection tears down.      *)
Control ==
  \/ (cpc = "broken" /\ Teardown)
  \/ ReplyFails \/ PlayEffective \/ NotifyWakeup
  \/ InterruptTest \/ InterruptSignal \/ CtlAsleepBarrier \/ PauseEnd
  \/ StopBuffer \/ CtlTermBarrier \/ Join

SendThread ==
  \/ SndStarts \/ GetNextFrame \/ GetEof \/ InstallFrame \/ FetchEof
  \/ RtcpSynced \/ LoopTest \/ Park \/ SndAsleepBarrier \/ WaitWakeup
  \/ Wakeup \/ Woken \/ Send \/ SendFails \/ SleepOver \/ AfterSleep
  \/ SelfPause \/ Exit \/ SndTermBarrier \/ Interrupted

Next == Ask \/ Control \/ SendThread \/ RtcpEnds

Spec == Init /\ [][Next]_vars

(* Both threads are scheduled; no client is obliged to ask for anything.   *)
FairSpec == Spec /\ WF_vars(Control) /\ WF_vars(SendThread)

-----------------------------------------------------------------------------
FlagType == [stopped : BOOLEAN, paused : BOOLEAN, seeked : BOOLEAN, sync : BOOLEAN]
ThreadType == [exists : BOOLEAN, interruptible : BOOLEAN, pending : BOOLEAN]
BarrierType == [asleep : SUBSET {"ctl", "snd"}, term : SUBSET {"ctl", "snd"}]
LocType == [first : BOOLEAN, skip : BOOLEAN, tmp : Nat]
BufType == [running : BOOLEAN, frames : Nat, epoch : Nat]
RtcpType == [{"sender", "receiver"} -> {"off", "run", "paused", "ended"}]
HistType == [acked : BOOLEAN, stale : Nat, beat : BOOLEAN]

(* Every variable stays in its range (the members of Session, session.h).  *)
TypeOK ==
  /\ cpc \in CtlPcs
  /\ spc \in SndUnlocked \cup SndLocked
  /\ flag \in FlagType
  /\ th \in ThreadType
  /\ barrier \in BarrierType
  /\ notified \in BOOLEAN
  /\ loc \in LocType
  /\ frameNext \in Nat
  /\ buf \in BufType
  /\ rtcp \in RtcpType
  /\ crash \in {"no", "eof", "interrupt", "null", "range"}
  /\ hist \in HistType

(* Once PAUSE has been answered no frame is sent until the next PLAY, even *)
(* when the medium ends while the request waits, the thread wakes up       *)
(* unasked, or a seek is prepared meanwhile (pause, run).                  *)
NoPacketWhilePaused == [][hist.acked => hist'.beat = hist.beat]_vars

(* A control thread waiting in the asleep barrier is awaited: the session  *)
(* is still paused with the rendezvous asked for, whatever the send thread *)
(* decided on its own meanwhile (self pause at the end of the medium).     *)
PauseRendezvous ==
  "ctl" \in barrier.asleep => (flag.paused /\ flag.sync /\ ~flag.stopped)

(* A frame fetched for an older position can slip through a seek, but only *)
(* one: the frame in hand while the buffer was being flushed.              *)
StaleOnce == hist.stale <= 1

(* While frames are sent the session has left neither RTCP thread paused   *)
(* or stopped: whatever pauses, seeks and ends of the medium came before,  *)
(* each runs, or has ended of its own accord -- the sender since it was    *)
(* last started, which every wakeup does (run).                            *)
RtcpFollowsMedia ==
  (spc = "send" /\ ~flag.stopped) =>
    rtcp.sender \in {"run", "ended"} /\ rtcp.receiver \in {"run", "ended"}

(* While the send thread waits to be woken, RTCP is quiet as well (run).   *)
RtcpQuietWhilePaused ==
  spc = "wakeWait" => (rtcp.sender # "run" /\ rtcp.receiver # "run")

(* After TEARDOWN no thread of the session is left to touch the members    *)
(* that the destructor is about to free (teardown, run).                   *)
TeardownLeavesNothing ==
  cpc = "done" => /\ spc = "off" /\ ~th.exists /\ ~buf.running
                  /\ rtcp.sender = "off" /\ rtcp.receiver = "off"

(* The session keeps what Playback promises to the client.                 *)
Mode ==
  CASE ~Alive -> "dead"
    [] Alive /\ cpc = "done" -> "closed"
    [] Alive /\ cpc # "done" /\ ~th.exists -> "idle"
    [] Alive /\ cpc # "done" /\ th.exists /\ hist.acked -> "hushed"
    [] OTHER -> "active"

PB == INSTANCE Playback WITH mode <- Mode, beat <- hist.beat

ImplementsPlayback == PB!Spec

(* PAUSE is answered: the send thread reaches the barrier (pause, run).    *)
PauseReturns == (cpc = "interrupt") ~> (cpc = "idle" \/ ~Alive)

(* TEARDOWN completes: the send thread leaves its loop (teardown, run).    *)
TeardownReturns ==
  (cpc \in {"tdNotify", "tdStop", "termArrive"}) ~> (cpc = "done" \/ ~Alive)

(* A session whose flags say that it plays does not stay asleep (unpause,  *)
(* play, run).                                                             *)
PlayingIsAwake ==
  []<>(spc \notin {"asleepWait", "wakeWait"} \/ flag.paused \/ flag.stopped \/ ~Alive)

(* The end of the medium is no exception that leaves run() throw().        *)
(* Violated, so not among the runs' invariants: the first fetch is outside *)
(* the try block, and a TEARDOWN during it lets Eof out.                   *)
NoEscapingEof == crash # "eof"

=============================================================================
