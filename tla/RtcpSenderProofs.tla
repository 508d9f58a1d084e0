-------------------------- MODULE RtcpSenderProofs --------------------------
(***************************************************************************)
(* Theorems about RtcpSender.  It has no constants, but TLC visits its     *)
(* states only from Init; the proofs say why the properties hold: start()  *)
(* is called only by a restart that found the thread off, and nothing but  *)
(* start() turns it on.                                                    *)
(***************************************************************************)
EXTENDS RtcpSender, TLAPS

(* From the test in restart() to start() the thread stays off, and between *)
(* starting a thread and creating it on.                                   *)
OffUntilStart == rtp = "start" => ~running

IInv == TypeOK /\ MutexReturned /\ OffUntilStart

USE DEF RtpAt, SndAt, LockFree

(* Arriving at a barrier and leaving it keep its type.                     *)
LEMMA BarrierType ==
  ASSUME TypeOK, NEW b \in {"sync", "term"}, NEW p \in {"rtp", "snd"},
         Arrive(p, b) \/ Withdraw(p, b)
  PROVE  barrier' \in [{"sync", "term"} -> [count : {0, 1}, blocked : SUBSET {"rtp", "snd"}]]
<1> DEFINE B == [count : {0, 1}, blocked : SUBSET {"rtp", "snd"}]
<1>1. barrier \in [{"sync", "term"} -> B] /\ barrier[b] \in B BY DEF TypeOK
<1>2. ASSUME NEW x \in B, barrier' = [barrier EXCEPT ![b] = x]
      PROVE  barrier' \in [{"sync", "term"} -> B]
  BY <1>1, <1>2
<1>3. CASE Arrive(p, b)
  <2>1. [count |-> 1, blocked |-> {p}] \in B /\ [count |-> 0, blocked |-> {}] \in B OBVIOUS
  <2> QED BY <1>2, <1>3, <2>1 DEF Arrive
<1>4. CASE Withdraw(p, b)
  <2>1. [count |-> barrier[b].count, blocked |-> barrier[b].blocked \ {p}] \in B
    <3> HIDE DEF B
    <3>1. barrier[b] \in B BY <1>1
    <3> QED BY <3>1 DEF B
  <2> QED BY <1>2, <1>4, <2>1 DEF Withdraw
<1> QED BY <1>3, <1>4

LEMMA InitInv == Init => IInv
<1> SUFFICES ASSUME Init PROVE IInv OBVIOUS
<1>1. barrier \in [{"sync", "term"} -> [count : {0, 1}, blocked : SUBSET {"rtp", "snd"}]]
  BY DEF Init
<1>2. th \in [exists : BOOLEAN, interruptible : BOOLEAN, pending : BOOLEAN]
  BY DEF Init
<1> QED BY <1>1, <1>2 DEF Init, IInv, TypeOK, MutexReturned, OffUntilStart, RtpPcs, Phases, SndPcs

(* Every step keeps the invariant: one step of the proof for each action.  *)
LEMMA NextInv == IInv /\ [Next]_vars => IInv'
<1> SUFFICES ASSUME IInv, [Next]_vars PROVE IInv' OBVIOUS
<1> USE DEF IInv, MutexReturned, OffUntilStart
<1>1. CASE Restart
  BY <1>1 DEF Restart, TypeOK, RtpPcs, SndPcs, Phases
<1>2. CASE Pause
  BY <1>2 DEF Pause, TypeOK, RtpPcs, SndPcs, Phases
<1>3. CASE Stop
  <2>1. th' \in [exists : BOOLEAN, interruptible : BOOLEAN, pending : BOOLEAN]
    BY <1>3 DEF Stop, Stops, TypeOK
  <2>2. /\ running' \in BOOLEAN /\ paused' \in BOOLEAN /\ doSync' \in BOOLEAN
        /\ crash' \in BOOLEAN /\ disturbed' \in BOOLEAN
    BY <1>3 DEF Stop, Stops, TypeOK
  <2>3. rtp' \in RtpPcs /\ phase' \in Phases /\ snd' \in SndPcs
    BY <1>3 DEF Stop, Stops, TypeOK, RtpPcs, SndPcs, Phases
  <2>4. kept' = FALSE /\ OffUntilStart'
    BY <1>3 DEF Stop, Stops, TypeOK
  <2>5. UNCHANGED <<barrier, notified, beat>>
    BY <1>3 DEF Stop, Stops
  <2> QED BY <2>1, <2>2, <2>3, <2>4, <2>5 DEF TypeOK
<1>4. CASE StopNothing
  BY <1>4 DEF StopNothing, TypeOK, RtpPcs, SndPcs, Phases, Stops
<1>5. CASE Unpause
  BY <1>5 DEF Unpause, TypeOK, RtpPcs, SndPcs, Phases
<1>6. CASE Wakeup
  BY <1>6 DEF Wakeup, TypeOK, RtpPcs, SndPcs, Phases
<1>7. CASE Start
  <2>1. th' \in [exists : BOOLEAN, interruptible : BOOLEAN, pending : BOOLEAN]
    BY <1>7 DEF Start, TypeOK
  <2>2. /\ running' \in BOOLEAN /\ paused' \in BOOLEAN /\ doSync' \in BOOLEAN
        /\ crash' \in BOOLEAN /\ disturbed' \in BOOLEAN
    BY <1>7 DEF Start, TypeOK
  <2>3. rtp' \in RtpPcs /\ phase' \in Phases /\ snd' \in SndPcs
    BY <1>7 DEF Start, TypeOK, RtpPcs, SndPcs, Phases
  <2>4. kept' = FALSE /\ OffUntilStart'
    BY <1>7 DEF Start, TypeOK
  <2>5. UNCHANGED <<barrier, notified, beat>>
    BY <1>7 DEF Start
  <2> QED BY <2>1, <2>2, <2>3, <2>4, <2>5 DEF TypeOK
<1>8. CASE Spawn
  <2>1. th' \in [exists : BOOLEAN, interruptible : BOOLEAN, pending : BOOLEAN]
    BY <1>8 DEF Spawn, TypeOK
  <2>2. /\ running' \in BOOLEAN /\ paused' \in BOOLEAN /\ doSync' \in BOOLEAN
        /\ crash' \in BOOLEAN /\ disturbed' \in BOOLEAN
    BY <1>8 DEF Spawn, TypeOK
  <2>3. rtp' \in RtpPcs /\ phase' \in Phases /\ snd' \in SndPcs
    BY <1>8 DEF Spawn, TypeOK, RtpPcs, SndPcs, Phases
  <2>4. kept' = FALSE /\ OffUntilStart'
    BY <1>8 DEF Spawn, TypeOK
  <2>5. UNCHANGED <<barrier, notified, beat>>
    BY <1>8 DEF Spawn
  <2> QED BY <2>1, <2>2, <2>3, <2>4, <2>5 DEF TypeOK
<1>9. CASE RtpArrives
  <2>1. barrier' \in [{"sync", "term"} -> [count : {0, 1}, blocked : SUBSET {"rtp", "snd"}]]
    BY <1>9, BarrierType DEF RtpArrives
  <2> QED BY <1>9, <2>1 DEF RtpArrives, TypeOK, RtpPcs, SndPcs
<1>10. CASE RtpReleased
  BY <1>10 DEF RtpReleased, TypeOK, RtpPcs, SndPcs, Phases
<1>11. CASE InterruptTest
  BY <1>11 DEF InterruptTest, TypeOK, RtpPcs, SndPcs, Phases
<1>12. CASE InterruptSignal
  <2>1. th' \in [exists : BOOLEAN, interruptible : BOOLEAN, pending : BOOLEAN]
    BY <1>12 DEF InterruptSignal, TypeOK
  <2>2. /\ running' \in BOOLEAN /\ paused' \in BOOLEAN /\ doSync' \in BOOLEAN
        /\ crash' \in BOOLEAN /\ disturbed' \in BOOLEAN
    BY <1>12 DEF InterruptSignal, TypeOK
  <2>3. rtp' \in RtpPcs /\ phase' \in Phases /\ snd' \in SndPcs
    BY <1>12 DEF InterruptSignal, TypeOK, RtpPcs, SndPcs, Phases
  <2>4. kept' = FALSE /\ OffUntilStart'
    BY <1>12 DEF InterruptSignal, TypeOK
  <2>5. UNCHANGED <<barrier, notified, beat>>
    BY <1>12 DEF InterruptSignal
  <2> QED BY <2>1, <2>2, <2>3, <2>4, <2>5 DEF TypeOK
<1>13. CASE StopWakeup
  BY <1>13 DEF StopWakeup, TypeOK, RtpPcs, SndPcs, Phases
<1>14. CASE StopArrives
  <2>1. barrier' \in [{"sync", "term"} -> [count : {0, 1}, blocked : SUBSET {"rtp", "snd"}]]
    BY <1>14, BarrierType DEF StopArrives
  <2> QED BY <1>14, <2>1 DEF StopArrives, TypeOK, RtpPcs, SndPcs
<1>15. CASE StopReleased
  BY <1>15 DEF StopReleased, TypeOK, RtpPcs, SndPcs, Phases
<1>16. CASE Join
  BY <1>16 DEF Join, TypeOK, RtpPcs, SndPcs, Phases
<1>17. CASE DoPause
  BY <1>17 DEF DoPause, TypeOK, RtpPcs, SndPcs, Phases, AtTop, OutOfScope
<1>18. CASE Report
  BY <1>18 DEF Report, TypeOK, RtpPcs, SndPcs, Phases, AtTop, Sleep, OutOfScope
<1>19. CASE ReportLost
  BY <1>19 DEF ReportLost, TypeOK, RtpPcs, SndPcs, Phases, AtTop, Sleep
<1>20. CASE ReportFails
  <2>1. th' \in [exists : BOOLEAN, interruptible : BOOLEAN, pending : BOOLEAN]
    BY <1>20 DEF ReportFails, AtTop, Leave, OutOfScope, TypeOK
  <2>2. /\ running' \in BOOLEAN /\ paused' \in BOOLEAN /\ doSync' \in BOOLEAN
        /\ crash' \in BOOLEAN /\ disturbed' \in BOOLEAN
    BY <1>20 DEF ReportFails, AtTop, Leave, OutOfScope, TypeOK
  <2>3. rtp' \in RtpPcs /\ phase' \in Phases /\ snd' \in SndPcs
    BY <1>20 DEF ReportFails, AtTop, Leave, OutOfScope, TypeOK, RtpPcs, SndPcs, Phases
  <2>4. kept' = FALSE /\ OffUntilStart'
    BY <1>20 DEF ReportFails, AtTop, Leave, OutOfScope, TypeOK
  <2>5. UNCHANGED <<barrier, notified, beat>>
    BY <1>20 DEF ReportFails, AtTop, Leave, OutOfScope
  <2> QED BY <2>1, <2>2, <2>3, <2>4, <2>5 DEF TypeOK
<1>21. CASE Bye
  <2>1. th' \in [exists : BOOLEAN, interruptible : BOOLEAN, pending : BOOLEAN]
    BY <1>21 DEF Bye, AtTop, Leave, OutOfScope, TypeOK
  <2>2. /\ running' \in BOOLEAN /\ paused' \in BOOLEAN /\ doSync' \in BOOLEAN
        /\ crash' \in BOOLEAN /\ disturbed' \in BOOLEAN
    BY <1>21 DEF Bye, AtTop, Leave, OutOfScope, TypeOK
  <2>3. rtp' \in RtpPcs /\ phase' \in Phases /\ snd' \in SndPcs
    BY <1>21 DEF Bye, AtTop, Leave, OutOfScope, TypeOK, RtpPcs, SndPcs, Phases
  <2>4. kept' = FALSE /\ OffUntilStart'
    BY <1>21 DEF Bye, AtTop, Leave, OutOfScope, TypeOK
  <2>5. UNCHANGED <<barrier, notified>> /\ beat' \in BOOLEAN
    BY <1>21 DEF Bye, AtTop, Leave, OutOfScope, TypeOK
  <2> QED BY <2>1, <2>2, <2>3, <2>4, <2>5 DEF TypeOK
<1>22. CASE Woken
  <2>1. th' \in [exists : BOOLEAN, interruptible : BOOLEAN, pending : BOOLEAN]
    BY <1>22 DEF Woken, TypeOK
  <2>2. /\ running' \in BOOLEAN /\ paused' \in BOOLEAN /\ doSync' \in BOOLEAN
        /\ crash' \in BOOLEAN /\ disturbed' \in BOOLEAN
    BY <1>22 DEF Woken, TypeOK
  <2>3. rtp' \in RtpPcs /\ phase' \in Phases /\ snd' \in SndPcs
    BY <1>22 DEF Woken, TypeOK, RtpPcs, SndPcs, Phases
  <2>4. kept' = FALSE /\ OffUntilStart'
    BY <1>22 DEF Woken, TypeOK
  <2>5. UNCHANGED <<barrier, notified, beat>>
    BY <1>22 DEF Woken
  <2> QED BY <2>1, <2>2, <2>3, <2>4, <2>5 DEF TypeOK
<1>23. CASE Slept
  <2>1. th' \in [exists : BOOLEAN, interruptible : BOOLEAN, pending : BOOLEAN]
    BY <1>23 DEF Slept, TypeOK
  <2>2. /\ running' \in BOOLEAN /\ paused' \in BOOLEAN /\ doSync' \in BOOLEAN
        /\ crash' \in BOOLEAN /\ disturbed' \in BOOLEAN
    BY <1>23 DEF Slept, TypeOK
  <2>3. rtp' \in RtpPcs /\ phase' \in Phases /\ snd' \in SndPcs
    BY <1>23 DEF Slept, TypeOK, RtpPcs, SndPcs, Phases
  <2>4. kept' = FALSE /\ OffUntilStart'
    BY <1>23 DEF Slept, TypeOK
  <2>5. UNCHANGED <<barrier, notified, beat>>
    BY <1>23 DEF Slept
  <2> QED BY <2>1, <2>2, <2>3, <2>4, <2>5 DEF TypeOK
<1>24. CASE SndArrives
  <2>1. barrier' \in [{"sync", "term"} -> [count : {0, 1}, blocked : SUBSET {"rtp", "snd"}]]
    BY <1>24, BarrierType DEF SndArrives
  <2> QED BY <1>24, <2>1 DEF SndArrives, TypeOK, RtpPcs, SndPcs
<1>25. CASE SyncInterrupted
  <2>1. barrier' \in [{"sync", "term"} -> [count : {0, 1}, blocked : SUBSET {"rtp", "snd"}]]
    BY <1>25, BarrierType DEF SyncInterrupted
  <2>2. th' \in [exists : BOOLEAN, interruptible : BOOLEAN, pending : BOOLEAN]
    BY <1>25 DEF SyncInterrupted, TypeOK
  <2>3. snd' \in SndPcs
    BY <1>25 DEF SyncInterrupted, SndPcs
  <2>4. UNCHANGED <<rtp, phase, running, paused, doSync, kept, notified, crash, beat, disturbed>>
    BY <1>25 DEF SyncInterrupted
  <2> QED BY <2>1, <2>2, <2>3, <2>4 DEF TypeOK
<1>26. CASE SndReleased
  BY <1>26 DEF SndReleased, TypeOK, RtpPcs, SndPcs, Phases
<1>27. CASE Relock
  BY <1>27 DEF Relock, TypeOK, RtpPcs, SndPcs, Phases, Sleep
<1>28. CASE LastRelock
  <2>1. th' \in [exists : BOOLEAN, interruptible : BOOLEAN, pending : BOOLEAN]
    BY <1>28 DEF LastRelock, TypeOK
  <2>2. /\ running' \in BOOLEAN /\ paused' \in BOOLEAN /\ doSync' \in BOOLEAN
        /\ crash' \in BOOLEAN /\ disturbed' \in BOOLEAN
    BY <1>28 DEF LastRelock, TypeOK
  <2>3. rtp' \in RtpPcs /\ phase' \in Phases /\ snd' \in SndPcs
    BY <1>28 DEF LastRelock, TypeOK, RtpPcs, SndPcs, Phases
  <2>4. kept' = FALSE /\ OffUntilStart'
    BY <1>28 DEF LastRelock, TypeOK
  <2>5. UNCHANGED <<barrier, notified, beat>>
    BY <1>28 DEF LastRelock
  <2> QED BY <2>1, <2>2, <2>3, <2>4, <2>5 DEF TypeOK
<1>29. CASE TermArrives
  <2>1. barrier' \in [{"sync", "term"} -> [count : {0, 1}, blocked : SUBSET {"rtp", "snd"}]]
    BY <1>29, BarrierType DEF TermArrives
  <2> QED BY <1>29, <2>1 DEF TermArrives, TypeOK, RtpPcs, SndPcs
<1>30. CASE Ends
  <2>1. barrier' \in [{"sync", "term"} -> [count : {0, 1}, blocked : SUBSET {"rtp", "snd"}]]
    BY <1>30, BarrierType DEF Ends
  <2> QED BY <1>30, <2>1 DEF Ends, TypeOK, RtpPcs, SndPcs
<1>31. CASE UNCHANGED vars
  BY <1>31 DEF vars, TypeOK
<1> QED
  BY <1>1, <1>2, <1>3, <1>4, <1>5, <1>6, <1>7, <1>8, <1>9, <1>10, <1>11, <1>12, <1>13, <1>14, <1>15,
     <1>16, <1>17, <1>18, <1>19, <1>20, <1>21, <1>22, <1>23, <1>24, <1>25, <1>26, <1>27, <1>28, <1>29, <1>30, <1>31
  DEF Next, Ask, Answer, Run

(* The invariant of the sender and its caller.                             *)
THEOREM Invariance == Spec => []IInv
BY InitInv, NextInv, PTL DEF Spec

(* Every variable stays in its range (the members of Thread and Sender).   *)
THEOREM TypeCorrect == Spec => []TypeOK
<1>1. IInv => TypeOK BY DEF IInv
<1> QED BY <1>1, Invariance, PTL

(* start() and pause() always give the mutex up (start, restart, pause).   *)
THEOREM MutexIsReturned == Spec => []MutexReturned
<1>1. IInv => MutexReturned BY DEF IInv
<1> QED BY <1>1, Invariance, PTL

-----------------------------------------------------------------------------
(* A thread that is stopped is in its loop only while stop() waits for it, *)
(* and a new one is made when the one before has left it.                  *)
Busy == InLoop \cup {"lastSync", "lastWait", "lastRelock"}

StopPcs == {"stopNotify", "stopTest", "stopSignal", "term", "termWait", "join"}

LoopInv ==
  /\ ~running /\ snd \in Busy => rtp \in StopPcs
  /\ rtp = "spawn" => running /\ snd \notin Busy

LEMMA LoopStep == IInv /\ LoopInv /\ [Next]_vars => LoopInv'
<1> SUFFICES ASSUME IInv, LoopInv, [Next]_vars PROVE LoopInv' OBVIOUS
<1> USE DEF IInv, OffUntilStart, LoopInv, Busy, InLoop, StopPcs
<1>1. CASE Restart
  BY <1>1 DEF Restart
<1>2. CASE Pause
  BY <1>2 DEF Pause
<1>3. CASE Stop
  BY <1>3 DEF Stop, Stops
<1>4. CASE StopNothing
  BY <1>4 DEF StopNothing, Stops
<1>5. CASE Unpause
  BY <1>5 DEF Unpause
<1>6. CASE Wakeup
  BY <1>6 DEF Wakeup
<1>7. CASE Start
  BY <1>7 DEF Start
<1>8. CASE Spawn
  BY <1>8 DEF Spawn
<1>9. CASE RtpArrives
  BY <1>9 DEF RtpArrives
<1>10. CASE RtpReleased
  BY <1>10 DEF RtpReleased
<1>11. CASE InterruptTest
  BY <1>11 DEF InterruptTest
<1>12. CASE InterruptSignal
  BY <1>12 DEF InterruptSignal
<1>13. CASE StopWakeup
  BY <1>13 DEF StopWakeup
<1>14. CASE StopArrives
  BY <1>14 DEF StopArrives
<1>15. CASE StopReleased
  BY <1>15 DEF StopReleased
<1>16. CASE Join
  BY <1>16 DEF Join
<1>17. CASE DoPause
  BY <1>17 DEF DoPause, AtTop
<1>18. CASE Report
  BY <1>18 DEF Report, AtTop, Sleep
<1>19. CASE ReportLost
  BY <1>19 DEF ReportLost, AtTop, Sleep
<1>20. CASE ReportFails
  BY <1>20 DEF ReportFails, AtTop, Leave
<1>21. CASE Bye
  BY <1>21 DEF Bye, AtTop, Leave
<1>22. CASE Woken
  BY <1>22 DEF Woken
<1>23. CASE Slept
  BY <1>23 DEF Slept
<1>24. CASE SndArrives
  BY <1>24 DEF SndArrives
<1>25. CASE SyncInterrupted
  BY <1>25 DEF SyncInterrupted
<1>26. CASE SndReleased
  BY <1>26 DEF SndReleased
<1>27. CASE Relock
  BY <1>27 DEF Relock, Sleep
<1>28. CASE LastRelock
  BY <1>28 DEF LastRelock
<1>29. CASE TermArrives
  BY <1>29 DEF TermArrives
<1>30. CASE Ends
  BY <1>30 DEF Ends
<1>31. CASE UNCHANGED vars
  BY <1>31 DEF vars
<1> QED
  BY <1>1, <1>2, <1>3, <1>4, <1>5, <1>6, <1>7, <1>8, <1>9, <1>10, <1>11, <1>12, <1>13, <1>14, <1>15,
     <1>16, <1>17, <1>18, <1>19, <1>20, <1>21, <1>22, <1>23, <1>24, <1>25, <1>26, <1>27, <1>28, <1>29, <1>30, <1>31
  DEF Next, Ask, Answer, Run

THEOREM LoopInvariance == Spec => []LoopInv
<1>1. Init => LoopInv BY DEF Init, LoopInv, Busy, InLoop
<1> QED BY <1>1, LoopStep, Invariance, PTL DEF Spec

(* A step that leaves the mode alone and sends no report is a stutter.     *)
LEMMA QuietMaps ==
  ASSUME UNCHANGED <<Mode, beat>> PROVE UNCHANGED RR!vars
BY DEF RR!vars

(* Every step maps to a step of RtcpReports or to a stutter.               *)
LEMMA StepMaps == IInv /\ LoopInv /\ [Next]_vars => [RR!Next]_RR!vars
<1> SUFFICES ASSUME IInv, LoopInv, [Next]_vars PROVE [RR!Next]_RR!vars OBVIOUS
<1> USE DEF IInv, TypeOK, OffUntilStart, InLoop
<1>1. CASE Restart
  BY <1>1, QuietMaps DEF Restart, Mode
<1>2. CASE Pause
  BY <1>2 DEF Pause, Mode, RR!vars, RR!Next, RR!Become, RR!Start, RR!Pause, RR!Resume, RR!Stop, RR!End, RR!Report, RR!Bye, LoopInv, Busy, StopPcs
<1>3. CASE Stop
  BY <1>3 DEF Stop, Stops, Mode, RR!vars, RR!Next, RR!Become, RR!Start, RR!Pause, RR!Resume, RR!Stop, RR!End, RR!Report, RR!Bye, LoopInv, Busy, StopPcs
<1>4. CASE StopNothing
  BY <1>4, QuietMaps DEF StopNothing, Stops, Mode
<1>5. CASE Unpause
  BY <1>5 DEF Unpause, Mode, RR!vars, RR!Next, RR!Become, RR!Start, RR!Pause, RR!Resume, RR!Stop, RR!End, RR!Report, RR!Bye, LoopInv, Busy, StopPcs
<1>6. CASE Wakeup
  BY <1>6, QuietMaps DEF Wakeup, Mode
<1>7. CASE Start
  BY <1>7 DEF Start, Mode, RR!vars, RR!Next, RR!Become, RR!Start, RR!Pause, RR!Resume, RR!Stop, RR!End, RR!Report, RR!Bye, LoopInv, Busy, StopPcs
<1>8. CASE Spawn
  BY <1>8, QuietMaps DEF Spawn, Mode, LoopInv, Busy
<1>9. CASE RtpArrives
  BY <1>9, QuietMaps DEF RtpArrives, Mode
<1>10. CASE RtpReleased
  BY <1>10, QuietMaps DEF RtpReleased, Mode
<1>11. CASE InterruptTest
  BY <1>11, QuietMaps DEF InterruptTest, Mode
<1>12. CASE InterruptSignal
  BY <1>12, QuietMaps DEF InterruptSignal, Mode
<1>13. CASE StopWakeup
  BY <1>13, QuietMaps DEF StopWakeup, Mode
<1>14. CASE StopArrives
  BY <1>14, QuietMaps DEF StopArrives, Mode
<1>15. CASE StopReleased
  BY <1>15, QuietMaps DEF StopReleased, Mode
<1>16. CASE Join
  BY <1>16, QuietMaps DEF Join, Mode
<1>17. CASE DoPause
  BY <1>17, QuietMaps DEF DoPause, AtTop, Mode
<1>18. CASE Report
  BY <1>18 DEF Report, AtTop, Sleep, Mode, RR!vars, RR!Next, RR!Become, RR!Start, RR!Pause, RR!Resume, RR!Stop, RR!End, RR!Report, RR!Bye
<1>19. CASE ReportLost
  BY <1>19, QuietMaps DEF ReportLost, AtTop, Sleep, Mode
<1>20. CASE ReportFails
  BY <1>20 DEF ReportFails, AtTop, Leave, Mode, RR!vars, RR!Next, RR!Become, RR!Start, RR!Pause, RR!Resume, RR!Stop, RR!End, RR!Report, RR!Bye
<1>21. CASE Bye
  BY <1>21 DEF Bye, AtTop, Leave, Mode, RR!vars, RR!Next, RR!Become, RR!Start, RR!Pause, RR!Resume, RR!Stop, RR!End, RR!Report, RR!Bye
<1>22. CASE Woken
  BY <1>22, QuietMaps DEF Woken, Mode
<1>23. CASE Slept
  BY <1>23, QuietMaps DEF Slept, Mode
<1>24. CASE SndArrives
  BY <1>24, QuietMaps DEF SndArrives, Mode
<1>25. CASE SyncInterrupted
  BY <1>25, QuietMaps DEF SyncInterrupted, Mode
<1>26. CASE SndReleased
  BY <1>26, QuietMaps DEF SndReleased, Mode
<1>27. CASE Relock
  BY <1>27, QuietMaps DEF Relock, Sleep, Mode
<1>28. CASE LastRelock
  BY <1>28 DEF LastRelock, Mode, RR!vars, RR!Next, RR!Become, RR!Start, RR!Pause, RR!Resume, RR!Stop, RR!End, RR!Report, RR!Bye, LoopInv, Busy, StopPcs
<1>29. CASE TermArrives
  BY <1>29, QuietMaps DEF TermArrives, Mode
<1>30. CASE Ends
  BY <1>30, QuietMaps DEF Ends, Mode
<1>31. CASE UNCHANGED vars
  BY <1>31, QuietMaps DEF vars, Mode
<1> QED
  BY <1>1, <1>2, <1>3, <1>4, <1>5, <1>6, <1>7, <1>8, <1>9, <1>10, <1>11, <1>12, <1>13, <1>14, <1>15,
     <1>16, <1>17, <1>18, <1>19, <1>20, <1>21, <1>22, <1>23, <1>24, <1>25, <1>26, <1>27, <1>28, <1>29, <1>30, <1>31
  DEF Next, Ask, Answer, Run

(* The sender implements RtcpReports: reports leave only while the session *)
(* has it run, and at most one, in front of the BYE, after it was stopped, *)
(* in every interleaving of the two threads (run, doPause, stop).          *)
THEOREM Refinement == Spec => ImplementsRtcpReports
<1>1. Init => RR!Init BY DEF Init, RR!Init, Mode, InLoop
<1> QED BY <1>1, StepMaps, Invariance, LoopInvariance, PTL DEF Spec, ImplementsRtcpReports, RR!Spec

=============================================================================
