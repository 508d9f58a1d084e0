----------------------------- MODULE RtcpSender -----------------------------
(***************************************************************************)
(* The RTCP sender of an RTP session (rtcp/sender.cpp, the base class      *)
(* RTCP::Thread of rtcp/stats.cpp): a thread that sends a report every few *)
(* seconds.  The RTP session's send thread restarts it, waits for it at a  *)
(* barrier of two (RTPSync) before it sends media, pauses and stops it.    *)
(* The send thread is its only caller and makes one call at a time.        *)
(*                                                                         *)
(* The mutex of _th is free between two steps of the model: whoever takes  *)
(* it goes on to the point where it gives it up, except where start()      *)
(* forgets to.                                                             *)
(*                                                                         *)
(* Abstracted: what a report holds, and how long the sender sleeps.  A     *)
(* socket takes a report, would block, or fails for good.                  *)
(***************************************************************************)
EXTENDS Naturals

VARIABLES
  rtp,       (* where the RTP send thread is in its calls                  *)
  phase,     (* what it has asked for: nothing yet, reports, silence...    *)
  snd,       (* where the sender's thread is                               *)
  running, paused,  (* _flags.bag                                          *)
  doSync,    (* _syncRTP._doSync                                           *)
  th,        (* _th: is there a thread, _interruptible, is an interruption *)
             (* requested and not yet delivered                            *)
  kept,      (* start() returned without giving the mutex up               *)
  barrier,   (* _syncRTP._sync and _th._term: how many arrivals count, who *)
             (* is blocked                                                 *)
  notified,  (* the wait in progress on _wakeup has been notified          *)
  crash,     (* has an assertion ended the process?                        *)
  beat,      (* history: flips with each report                            *)
  disturbed  (* history: an interruption reached the sender at the         *)
             (* rendezvous, or a restart came before it was done with the  *)
             (* rendezvous or the interruption before                      *)

vars == <<rtp, phase, snd, running, paused, doSync, th, kept, barrier,
          notified, crash, beat, disturbed>>

RtpPcs == {"idle", "unpause", "start", "notify", "spawn",
           "sync", "syncWait", "pauseTest", "pauseSignal", "stopNotify",
           "stopTest", "stopSignal", "term", "termWait", "join"}

Phases == {"new", "active", "ended", "asleep", "over"}

SndPcs == {"off", "begin", "wait", "woken", "sleep", "slept", "sync",
           "syncWait", "relock", "lastSync", "lastWait", "lastRelock",
           "term", "termWait", "ended"}

Init ==
  /\ rtp = "idle" /\ phase = "new" /\ snd = "off"
  /\ running = FALSE /\ paused = FALSE /\ doSync = FALSE
  \* the constructor of ThreadBarrier leaves _interruptible unset
  /\ th \in [exists : {FALSE}, interruptible : BOOLEAN, pending : {FALSE}]
  /\ kept = FALSE
  /\ barrier = [b \in {"sync", "term"} |-> [count |-> 0, blocked |-> {}]]
  /\ notified = FALSE
  /\ crash = FALSE
  /\ beat = FALSE
  /\ disturbed = FALSE

LockFree == ~kept

RtpAt(from, to) == ~crash /\ rtp = from /\ rtp' = to

SndAt(from, to) == ~crash /\ snd = from /\ snd' = to

Blocked(p, b) == p \in barrier[b].blocked

(* The second arrival lets everybody through.                              *)
Arrive(p, b) ==
  barrier' = [barrier EXCEPT ![b] =
    IF @.count = 0 THEN [count |-> 1, blocked |-> {p}]
                   ELSE [count |-> 0, blocked |-> {}]]

(* boost's barrier forgets a waiter that is interrupted, not its arrival.  *)
Withdraw(p, b) ==
  barrier' = [barrier EXCEPT ![b] = [count |-> @.count, blocked |-> @.blocked \ {p}]]

AtBarrier == {"sync", "syncWait", "lastSync", "lastWait"}

-----------------------------------------------------------------------------
(* The calls of the RTP send thread.                                       *)

(* The sender has passed the rendezvous and not cleared the request for    *)
(* it, or has an interruption coming from the pause before.                *)
Late == snd \in {"syncWait", "lastWait", "relock", "lastRelock"} \/ th.pending

Restart ==
  /\ LockFree /\ phase \in {"new", "asleep"}
  /\ RtpAt("idle", IF running THEN "unpause" ELSE "start")
  /\ phase' = "active"
  /\ doSync' = TRUE
  /\ disturbed' = (disturbed \/ Late)
  /\ UNCHANGED <<snd, running, paused, th, kept, barrier, notified, crash, beat>>

(* A thread that was not paused would be interrupted in its sleep.         *)
Unpause ==
  /\ LockFree
  /\ RtpAt("unpause", IF running /\ paused THEN "notify" ELSE "sync")
  /\ paused' = (paused /\ ~running)
  /\ th' = [th EXCEPT !.pending = @ \/ (running /\ ~paused /\ th.interruptible)]
  /\ UNCHANGED <<phase, snd, running, doSync, kept, barrier, notified, crash, beat, disturbed>>

(* Slip: nobody tells the thread that it is no longer paused.              *)
WakeupSilently ==
  /\ RtpAt("notify", "sync")
  /\ UNCHANGED <<phase, snd, running, paused, doSync, th, kept, barrier, notified, crash, beat, disturbed>>

Wakeup ==
  /\ RtpAt("notify", "sync")
  /\ notified' = (notified \/ snd = "wait")
  /\ UNCHANGED <<phase, snd, running, paused, doSync, th, kept, barrier, crash, beat, disturbed>>

Start ==
  /\ LockFree
  /\ RtpAt("start", IF ~running THEN "spawn" ELSE IF paused THEN "notify" ELSE "sync")
  /\ doSync' = TRUE
  /\ running' = TRUE
  /\ paused' = FALSE
  /\ kept' = (running /\ ~paused)
  /\ UNCHANGED <<phase, snd, th, barrier, notified, crash, beat, disturbed>>

(* ThreadBarrier::reset( t ) asserts that there is no thread.              *)
Spawn ==
  /\ RtpAt("spawn", "sync")
  /\ crash' = th.exists
  /\ IF th.exists THEN UNCHANGED <<snd, th>>
     ELSE snd' = "begin" /\ th' = [th EXCEPT !.exists = TRUE, !.pending = FALSE]
  /\ UNCHANGED <<phase, running, paused, doSync, kept, barrier, notified, beat, disturbed>>

RtpArrives ==
  /\ RtpAt("sync", "syncWait")
  /\ Arrive("rtp", "sync")
  /\ UNCHANGED <<phase, snd, running, paused, doSync, th, kept, notified, crash, beat, disturbed>>

RtpReleased ==
  /\ ~Blocked("rtp", "sync")
  /\ RtpAt("syncWait", "idle")
  /\ UNCHANGED <<phase, snd, running, paused, doSync, th, kept, barrier, notified, crash, beat, disturbed>>

(* Slip: the early return forgets the mutex.                               *)
PauseKeeps ==
  /\ LockFree /\ phase \in {"active", "ended"}
  /\ RtpAt("idle", IF running /\ ~paused THEN "pauseTest" ELSE "idle")
  /\ phase' = "asleep"
  /\ paused' = (paused \/ running)
  /\ kept' = ~(running /\ ~paused)
  /\ UNCHANGED <<snd, running, doSync, th, barrier, notified, crash, beat, disturbed>>

Pause ==
  /\ LockFree /\ phase \in {"active", "ended"}
  /\ RtpAt("idle", IF running /\ ~paused THEN "pauseTest" ELSE "idle")
  /\ phase' = "asleep"
  /\ paused' = (paused \/ running)
  /\ UNCHANGED <<snd, running, doSync, th, kept, barrier, notified, crash, beat, disturbed>>

(* interrupt() tests the flag without the mutex...                         *)
InterruptTest ==
  /\ \/ RtpAt("pauseTest", IF th.interruptible THEN "pauseSignal" ELSE "idle")
     \/ RtpAt("stopTest", IF th.interruptible THEN "stopSignal" ELSE "term")
  /\ UNCHANGED <<phase, snd, running, paused, doSync, th, kept, barrier, notified, crash, beat, disturbed>>

(* ... and then acts on it.                                                *)
InterruptSignal ==
  /\ RtpAt("pauseSignal", "idle") \/ RtpAt("stopSignal", "term")
  /\ th' = [th EXCEPT !.pending = TRUE]
  /\ disturbed' = (disturbed \/ snd \in AtBarrier)
  /\ UNCHANGED <<phase, snd, running, paused, doSync, kept, barrier, notified, crash, beat>>

(* At the end of the medium, and when the session ends.                    *)
Stops ==
  \/ phase = "active" /\ phase' = "ended"
  \/ phase \in {"active", "ended", "asleep"} /\ phase' = "over"

(* Slip: a paused thread is woken and finds itself paused.                 *)
StopStaysPaused ==
  /\ LockFree /\ Stops /\ th.exists
  /\ RtpAt("idle", IF ~running THEN "term" ELSE IF paused THEN "stopNotify" ELSE "stopTest")
  /\ running' = FALSE
  /\ UNCHANGED <<snd, paused, doSync, th, kept, barrier, notified, crash, beat, disturbed>>

Stop ==
  /\ LockFree /\ Stops /\ th.exists
  /\ RtpAt("idle", IF ~running THEN "term" ELSE IF paused THEN "stopNotify" ELSE "stopTest")
  /\ running' = FALSE
  /\ paused' = (paused /\ ~running)
  /\ UNCHANGED <<snd, doSync, th, kept, barrier, notified, crash, beat, disturbed>>

StopNothing ==
  /\ Stops /\ ~th.exists /\ RtpAt("idle", "idle")
  /\ UNCHANGED <<snd, running, paused, doSync, th, kept, barrier, notified, crash, beat, disturbed>>

StopWakeup ==
  /\ RtpAt("stopNotify", "term")
  /\ notified' = (notified \/ snd = "wait")
  /\ UNCHANGED <<phase, snd, running, paused, doSync, th, kept, barrier, crash, beat, disturbed>>

StopArrives ==
  /\ RtpAt("term", "termWait")
  /\ Arrive("rtp", "term")
  /\ UNCHANGED <<phase, snd, running, paused, doSync, th, kept, notified, crash, beat, disturbed>>

StopReleased ==
  /\ ~Blocked("rtp", "term")
  /\ RtpAt("termWait", "join")
  /\ UNCHANGED <<phase, snd, running, paused, doSync, th, kept, barrier, notified, crash, beat, disturbed>>

Join ==
  /\ RtpAt("join", "idle") /\ SndAt("ended", "off")
  /\ th' = [th EXCEPT !.exists = FALSE, !.pending = FALSE]
  /\ UNCHANGED <<phase, running, paused, doSync, kept, barrier, notified, crash, beat, disturbed>>

-----------------------------------------------------------------------------
(* The sender's thread.                                                    *)

(* The head of its loop, with the mutex.                                   *)
AtTop == ~crash /\ LockFree /\ snd \in {"begin", "woken", "slept"}

(* The Interruptible scope ends after the sleep.                           *)
OutOfScope(t) == IF snd = "slept" THEN [t EXCEPT !.interruptible = FALSE] ELSE t

Sleep == snd' = "sleep" /\ th' = [th EXCEPT !.interruptible = TRUE]

DoPause ==
  /\ AtTop /\ paused /\ (running \/ snd = "woken")
  /\ snd' = "wait"
  /\ th' = OutOfScope(th)
  /\ notified' = FALSE
  /\ UNCHANGED <<rtp, phase, running, paused, doSync, kept, barrier, crash, beat, disturbed>>

(* Slip: a paused thread that wakes from its sleep does not look.          *)
ReportAnyway ==
  /\ AtTop /\ running /\ (~paused \/ snd = "slept")
  /\ IF doSync THEN snd' = "sync" /\ th' = OutOfScope(th) ELSE Sleep
  /\ beat' = ~beat
  /\ UNCHANGED <<rtp, phase, running, paused, doSync, kept, barrier, notified, crash, disturbed>>

Report ==
  /\ AtTop /\ running /\ ~paused
  /\ IF doSync THEN snd' = "sync" /\ th' = OutOfScope(th) ELSE Sleep
  /\ beat' = ~beat
  /\ UNCHANGED <<rtp, phase, running, paused, doSync, kept, barrier, notified, crash, disturbed>>

(* The socket would block: no rendezvous before the next report.           *)
ReportLost ==
  /\ AtTop /\ running /\ ~paused
  /\ Sleep
  /\ UNCHANGED <<rtp, phase, running, paused, doSync, kept, barrier, notified, crash, beat, disturbed>>

(* Out of the loop: a last rendezvous if it was asked for.                 *)
Leave ==
  /\ IF doSync THEN snd' = "lastSync" /\ UNCHANGED <<running, paused>>
     ELSE snd' = "term" /\ running' = FALSE /\ paused' = FALSE
  /\ th' = OutOfScope(th)
  /\ UNCHANGED <<rtp, phase, doSync, kept, barrier, notified, crash, disturbed>>

(* The socket fails for good.                                              *)
ReportFails == AtTop /\ running /\ ~paused /\ Leave /\ UNCHANGED beat

(* A last report with the BYE, if the socket takes it.                     *)
Bye ==
  /\ AtTop /\ ~running /\ (snd = "woken" => ~paused) /\ Leave
  /\ beat' \in {beat, ~beat}

Woken ==
  /\ SndAt("wait", "woken")
  /\ th' = [th EXCEPT !.pending = FALSE]
  /\ UNCHANGED <<rtp, phase, running, paused, doSync, kept, barrier, notified, crash, beat, disturbed>>

(* The sleep is over, with or without the interruption being delivered.    *)
Slept ==
  /\ SndAt("sleep", "slept")
  /\ th' \in {th, [th EXCEPT !.pending = FALSE]}
  /\ UNCHANGED <<rtp, phase, running, paused, doSync, kept, barrier, notified, crash, beat, disturbed>>

SndArrives ==
  /\ SndAt("sync", "syncWait") \/ SndAt("lastSync", "lastWait")
  /\ Arrive("snd", "sync")
  /\ UNCHANGED <<rtp, phase, running, paused, doSync, th, kept, notified, crash, beat, disturbed>>

(* The interruption is swallowed and the thread arrives once more.         *)
SyncInterrupted ==
  /\ th.pending
  /\ SndAt("syncWait", "sync") \/ SndAt("lastWait", "lastSync")
  /\ Withdraw("snd", "sync")
  /\ th' = [th EXCEPT !.pending = FALSE]
  /\ UNCHANGED <<rtp, phase, running, paused, doSync, kept, notified, crash, beat, disturbed>>

SndReleased ==
  /\ ~Blocked("snd", "sync")
  /\ SndAt("syncWait", "relock") \/ SndAt("lastWait", "lastRelock")
  /\ UNCHANGED <<rtp, phase, running, paused, doSync, th, kept, barrier, notified, crash, beat, disturbed>>

(* The mutex is taken again and the request cleared, whoever made it.      *)
Relock ==
  /\ LockFree /\ ~crash /\ snd = "relock"
  /\ Sleep
  /\ doSync' = FALSE
  /\ UNCHANGED <<rtp, phase, running, paused, kept, barrier, notified, crash, beat, disturbed>>

LastRelock ==
  /\ LockFree /\ SndAt("lastRelock", "term")
  /\ doSync' = FALSE /\ running' = FALSE /\ paused' = FALSE
  /\ UNCHANGED <<rtp, phase, th, kept, barrier, notified, crash, beat, disturbed>>

TermArrives ==
  /\ SndAt("term", "termWait")
  /\ Arrive("snd", "term")
  /\ UNCHANGED <<rtp, phase, running, paused, doSync, th, kept, notified, crash, beat, disturbed>>

(* Released, or interrupted: nobody catches it and the thread ends.        *)
Ends ==
  /\ ~Blocked("snd", "term") \/ th.pending
  /\ SndAt("termWait", "ended")
  /\ Withdraw("snd", "term")
  /\ UNCHANGED <<rtp, phase, running, paused, doSync, th, kept, notified, crash, beat, disturbed>>

-----------------------------------------------------------------------------
(* What the RTP send thread may ask for, and the rest of what it asked.    *)
Ask == Restart \/ Pause \/ Stop \/ StopNothing

Answer ==
  \/ Unpause \/ Wakeup \/ Start \/ Spawn \/ RtpArrives \/ RtpReleased
  \/ InterruptTest \/ InterruptSignal
  \/ StopWakeup \/ StopArrives \/ StopReleased \/ Join

Run ==
  \/ DoPause \/ Report \/ ReportLost \/ ReportFails \/ Bye
  \/ Woken \/ Slept \/ SndArrives \/ SyncInterrupted \/ SndReleased
  \/ Relock \/ LastRelock \/ TermArrives \/ Ends

Next == Ask \/ Answer \/ Run

Spec == Init /\ [][Next]_vars

(* Both threads are scheduled, a sleep ends, a wait ends when it has been  *)
(* notified, and a socket that is tried time and again takes a report or   *)
(* fails.  The RTP send thread need not call.                              *)
FairSpec ==
  /\ Spec
  /\ WF_vars(Answer)
  /\ WF_vars(Run /\ (snd = "wait" => notified \/ th.pending))
  /\ SF_vars(Report \/ ReportFails)

-----------------------------------------------------------------------------
(* Every variable stays in its range (the members of Thread and Sender).   *)
TypeOK ==
  /\ rtp \in RtpPcs /\ phase \in Phases /\ snd \in SndPcs
  /\ running \in BOOLEAN /\ paused \in BOOLEAN /\ doSync \in BOOLEAN
  /\ th \in [exists : BOOLEAN, interruptible : BOOLEAN, pending : BOOLEAN]
  /\ barrier \in [{"sync", "term"} -> [count : {0, 1}, blocked : SUBSET {"rtp", "snd"}]]
  /\ kept \in BOOLEAN /\ notified \in BOOLEAN /\ crash \in BOOLEAN
  /\ beat \in BOOLEAN /\ disturbed \in BOOLEAN

(* No call returns with the mutex: start() is never called for a thread    *)
(* that runs and is not paused (start, restart, pause).                    *)
MutexReturned == ~kept

(* Reports are sent only while the session has the sender run, but for one *)
(* that goes with the BYE after stop (doPause, run): what RtpSession       *)
(* relies on.                                                              *)
InLoop == {"begin", "wait", "woken", "sleep", "slept", "sync", "syncWait", "relock"}

Mode ==
  IF running THEN IF paused THEN "paused" ELSE "run"
  ELSE IF snd \in InLoop THEN "ending" ELSE "off"

RR == INSTANCE RtcpReports WITH mode <- Mode

ImplementsRtcpReports == RR!Spec

(* The RTP send thread is released from the rendezvous, whatever the       *)
(* socket does, unless the sender was disturbed (wait, releaseRTP).        *)
RtpIsReleased == rtp = "syncWait" ~> (rtp = "idle" \/ disturbed)

(* stop() returns: the thread ends and is joined (stop, run).              *)
StopReturns ==
  rtp \in {"stopNotify", "stopTest", "stopSignal", "term", "termWait", "join"}
    ~> (rtp = "idle" \/ disturbed)

(* A thread object is given a thread only when it has none                 *)
(* (BOOST_ASSERT in ThreadBarrier::reset).  Violated, so not among the     *)
(* runs' invariants: a sender whose socket failed is never joined, and the *)
(* restart after the next PAUSE ends the process.                          *)
ThreadIsNew == ~crash

=============================================================================
