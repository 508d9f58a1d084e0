--------------------------- MODULE PlaybackProofs ---------------------------
(***************************************************************************)
(* What holds of the playback of a session, for every bound and every      *)
(* environment: first of a track and the threads that play it              *)
(* (RtpSession), then of the clocks of all the tracks (RtpTimeline).       *)
(***************************************************************************)
EXTENDS RtpSession, RtpTimeline, TLAPS

TeardownPcs == {"tdNotify", "tdStop", "termArrive", "termWait", "join"}

(* The life of the thread object and of the flag STOPPED: the send thread  *)
(* stops only when a TEARDOWN in progress told it to.                      *)
LifeInv ==
  /\ spc # "off" => th.exists
  /\ cpc \in TeardownPcs \cup {"done"} => flag.stopped /\ ~hist.acked
  /\ flag.stopped => /\ ~flag.paused
                     /\ cpc \in TeardownPcs \cup {"done"} \/ (cpc = "idle" /\ ~th.exists)
  /\ spc = "exit" => flag.stopped
  /\ cpc = "done" => ~th.exists
  /\ cpc \in {"termArrive", "termWait", "join"} => th.exists

(* PAUSE in progress, the send thread not yet known to be at the barrier.  *)
Rendezvous ==
  \/ cpc \in {"interrupt", "signal", "asleepArrive"}
  \/ cpc = "asleepWait" /\ "ctl" \in barrier.asleep

(* Locations of a send thread that is in the pause loop or about to enter. *)
Parked == {"test", "park", "asleepArrive", "asleepWait", "asleepEnd",
           "wakeWait", "woken", "resync", "retest"}

(* PAUSED outlives the request that set it; but for a PAUSE in progress    *)
(* the send thread of a paused session is in the pause loop.               *)
PauseInv ==
  /\ barrier.asleep # {"ctl", "snd"}
  /\ "ctl" \in barrier.asleep => cpc = "asleepWait"
  /\ "snd" \in barrier.asleep => spc = "asleepWait"
  /\ Rendezvous => flag.sync
  /\ cpc \in {"interrupt", "signal", "asleepArrive", "asleepWait", "pauseEnd"} => flag.paused
  /\ flag.paused /\ ~Rendezvous => spc \in Parked \cup {"off"}
  /\ hist.acked => flag.paused /\ cpc \in {"idle", "setup", "broken"}

(* A frame older than the last seek was in hand when the seek came, and    *)
(* none such has been sent since.                                          *)
StaleInv ==
  /\ ~th.exists /\ cpc # "done" => frameNext = 0 /\ loc.tmp = 0
  /\ loc.tmp \notin {0, buf.epoch} => hist.stale = 0
  /\ frameNext \notin {0, buf.epoch} /\ spc \notin {"fetching", "fetched", "eof"} => hist.stale = 0
  /\ hist.stale <= 1

Sending == {"send", "sleep", "sleepEnd"}

(* RTCP follows the send thread into the pause and out of it.              *)
RtcpInv ==
  /\ spc \in {"off", "termArrive", "termWait"} => rtcp.sender = "off" /\ rtcp.receiver = "off"
  /\ spc \in {"asleepArrive", "asleepWait", "asleepEnd", "wakeWait"} =>
        rtcp.sender # "run" /\ rtcp.receiver # "run"
  /\ ~flag.stopped /\ spc # "off" => rtcp.receiver # "off"
  /\ ~flag.stopped /\ spc \in Sending \cup {"start", "firstSync", "resync", "retest",
                                          "fetching", "fetched", "eof", "loopEnd"} =>
        rtcp.receiver \in {"run", "ended"}
  /\ ~flag.stopped /\ (spc \in Sending \cup {"firstSync", "resync", "retest"}
                      \/ (spc \in {"fetching", "fetched", "eof"} /\ ~loc.first)) =>
        rtcp.sender \in {"run", "ended"}
  /\ ~flag.stopped /\ ~flag.paused /\ spc = "test" =>
        rtcp.sender \in {"run", "ended"} /\ rtcp.receiver \in {"run", "ended"}
  /\ cpc \in {"termArrive", "termWait", "join", "done"} => ~buf.running

-----------------------------------------------------------------------------
(* Every step of either thread keeps the variables in their ranges.        *)
LEMMA TypeStep == TypeOK /\ [Next]_vars => TypeOK'
<1> SUFFICES ASSUME TypeOK, [Next]_vars PROVE TypeOK'
  OBVIOUS
<1>1. CASE DoFirstPlay
  <2>1. flag' \in FlagType BY <1>1 DEF DoFirstPlay, FlagType, TypeOK
  <2>2. buf' \in BufType BY <1>1 DEF DoFirstPlay, BufferSeek, BufType, TypeOK
  <2>3. hist' \in HistType BY <1>1 DEF DoFirstPlay, HistType, TypeOK
  <2> QED BY <1>1, <2>1, <2>2, <2>3 DEF DoFirstPlay, CtlPcs, TypeOK
<1>2. CASE DoFirstPlayFails
  BY <1>2 DEF DoFirstPlayFails, Request, Alive, TypeOK, FlagType
<1>3. CASE DoSeekScale
  BY <1>3 DEF DoSeekScale, Request, Alive, BufferSeek, TypeOK, CtlPcs, FlagType, BufType, HistType
<1>4. CASE DoSeekScaleFails
  BY <1>4 DEF DoSeekScaleFails, Request, Alive, TypeOK, FlagType, BufType
<1>5. CASE ReplyFails
  BY <1>5 DEF ReplyFails, CtlAt, TypeOK, CtlPcs
<1>6. CASE PlayEffective
  BY <1>6 DEF PlayEffective, CtlAt, TypeOK, CtlPcs, SndUnlocked, FlagType, ThreadType, RtcpType, HistType
<1>7. CASE Unpause
  BY <1>7 DEF Unpause, Request, TypeOK, CtlPcs, FlagType, HistType
<1>8. CASE NotifyWakeup
  BY <1>8 DEF NotifyWakeup, CtlAt, TypeOK, CtlPcs
<1>9. CASE PauseAlready
  BY <1>9 DEF PauseAlready, Request, TypeOK, HistType
<1>10. CASE Pause
  BY <1>10 DEF Pause, Request, TypeOK, CtlPcs, FlagType
<1>11. CASE InterruptTest
  BY <1>11 DEF InterruptTest, CtlAt, TypeOK, CtlPcs
<1>12. CASE InterruptSignal
  BY <1>12 DEF InterruptSignal, CtlAt, Alive, TypeOK, CtlPcs, ThreadType
<1>13. CASE CtlAsleepBarrier
  BY <1>13 DEF CtlAsleepBarrier, CtlAt, Arrive, TypeOK, CtlPcs, BarrierType
<1>14. CASE PauseEnd
  BY <1>14 DEF PauseEnd, CtlAt, TypeOK, CtlPcs, HistType
<1>15. CASE Teardown
  BY <1>15 DEF Teardown, Request, AfterStop, TypeOK, CtlPcs, FlagType, HistType, BufType
<1>16. CASE StopBuffer
  BY <1>16 DEF StopBuffer, CtlAt, AfterStop, TypeOK, CtlPcs, BufType
<1>17. CASE CtlTermBarrier
  BY <1>17 DEF CtlTermBarrier, CtlAt, Arrive, TypeOK, CtlPcs, BarrierType
<1>18. CASE Join
  BY <1>18 DEF Join, CtlAt, TypeOK, CtlPcs, ThreadType
<1>19. CASE SndStarts
  BY <1>19 DEF SndStarts, BeginFetch, TypeOK, SndUnlocked, LocType, FlagType
<1>20. CASE GetNextFrame
  BY <1>20 DEF GetNextFrame, SndAt, TypeOK, SndUnlocked, LocType, BufType
<1>21. CASE GetEof
  <2>1. loc' \in LocType BY <1>21 DEF GetEof, LocType, TypeOK
  <2>2. buf' = [buf EXCEPT !.running = FALSE, !.frames = 0] \/ buf' = buf
    BY <1>21 DEF GetEof
  <2>3. [buf EXCEPT !.running = FALSE, !.frames = 0] \in BufType
    BY DEF BufType, TypeOK
  <2>4. th' \in ThreadType BY <1>21 DEF GetEof, ThreadType, TypeOK
  <2> QED BY <1>21, <2>1, <2>2, <2>3, <2>4 DEF GetEof, SndAt, SndUnlocked, TypeOK
<1>22. CASE InstallFrame
  BY <1>22 DEF InstallFrame, SndAt, TypeOK, SndUnlocked, SndLocked, RtcpType, ThreadType, LocType, FlagType
<1>23. CASE FetchEof
  BY <1>23 DEF FetchEof, Alive, TypeOK, SndLocked, RtcpType
<1>24. CASE RtcpSynced
  BY <1>24 DEF RtcpSynced, SndAt, TypeOK, SndLocked
<1>25. CASE LoopTest
  BY <1>25 DEF LoopTest, SndAt, TypeOK, SndLocked
<1>26. CASE Park
  BY <1>26 DEF Park, SndAt, TypeOK, SndUnlocked, RtcpType
<1>27. CASE SndAsleepBarrier
  BY <1>27 DEF SndAsleepBarrier, SndAt, Arrive, TypeOK, SndUnlocked, BarrierType
<1>28. CASE WaitWakeup
  BY <1>28 DEF WaitWakeup, SndAt, TypeOK, SndUnlocked
<1>29. CASE Wakeup
  BY <1>29 DEF Wakeup, SndAt, TypeOK, SndLocked
<1>30. CASE Woken
  BY <1>30 DEF Woken, SndAt, TypeOK, SndLocked, RtcpType
<1>31. CASE Send
  <2>1. loc' \in LocType BY <1>31 DEF Send, BeginFetch, LocType, FlagType, TypeOK
  <2>2. \/ hist' = hist
        \/ hist' = [hist EXCEPT !.beat = ~@, !.stale = @ + 1]
        \/ hist' = [hist EXCEPT !.beat = ~@]
    BY <1>31 DEF Send
  <2>3. [hist EXCEPT !.beat = ~@] \in HistType BY DEF HistType, TypeOK
  <2>4. hist.stale + 1 \in Nat BY DEF HistType, TypeOK
  <2>5. [hist EXCEPT !.beat = ~@, !.stale = @ + 1] \in HistType
    BY <2>4, Zenon DEF HistType, TypeOK
  <2> QED BY <1>31, <2>1, <2>2, <2>3, <2>5 DEF Send, BeginFetch, SndUnlocked, TypeOK
<1>32. CASE SendFails
  BY <1>32 DEF SendFails, SndAt, TypeOK, SndLocked, RtcpType
<1>33. CASE SleepOver
  BY <1>33 DEF SleepOver, SndAt, TypeOK, SndUnlocked, ThreadType
<1>34. CASE AfterSleep
  BY <1>34 DEF AfterSleep, SndAt, TypeOK, SndLocked, ThreadType
<1>35. CASE SelfPause
  BY <1>35 DEF SelfPause, SndAt, TypeOK, SndLocked, FlagType
<1>36. CASE Exit
  <2>1. flag' \in FlagType BY <1>36 DEF Exit, FlagType, TypeOK
  <2>2. rtcp' \in RtcpType BY <1>36 DEF Exit, RtcpType, TypeOK
  <2>3. buf' \in BufType BY <1>36 DEF Exit, BufType, TypeOK
  <2> QED BY <1>36, <2>1, <2>2, <2>3 DEF Exit, SndAt, SndUnlocked, TypeOK
<1>37. CASE SndTermBarrier
  BY <1>37 DEF SndTermBarrier, SndAt, Arrive, TypeOK, SndUnlocked, BarrierType
<1>38. CASE Interrupted
  BY <1>38 DEF Interrupted, TypeOK
<1>39. CASE RtcpEnds
  BY <1>39 DEF RtcpEnds, RtcpType, TypeOK
<1>40. CASE UNCHANGED vars
  BY <1>40 DEF vars, TypeOK
<1> QED
  BY <1>1, <1>2, <1>3, <1>4, <1>5, <1>6, <1>7, <1>8, <1>9, <1>10, <1>11, <1>12, <1>13, <1>14, <1>15, <1>16, <1>17, <1>18, <1>19, <1>20, <1>21, <1>22, <1>23, <1>24, <1>25, <1>26, <1>27, <1>28, <1>29, <1>30, <1>31, <1>32, <1>33, <1>34, <1>35, <1>36, <1>37, <1>38, <1>39, <1>40 DEF Next, Ask, Control, SendThread

(* STOPPED is set by TEARDOWN only, and the thread object lives until the  *)
(* join (teardown, ThreadBarrier::reset).                                  *)
LEMMA LifeStep ==
  TypeOK /\ LifeInv /\ [Next]_vars => LifeInv'
<1> SUFFICES ASSUME TypeOK, LifeInv, [Next]_vars PROVE LifeInv'
  OBVIOUS
<1>1. CASE DoFirstPlay
  BY <1>1 DEF DoFirstPlay, Request, Alive, BufferSeek, LifeInv, TeardownPcs, Unlocked, SndLocked, TypeOK, BufType, FlagType, HistType
<1>2. CASE DoFirstPlayFails
  BY <1>2 DEF DoFirstPlayFails, Request, Alive, LifeInv, TeardownPcs, Unlocked, SndLocked, TypeOK, FlagType
<1>3. CASE DoSeekScale
  BY <1>3 DEF DoSeekScale, Request, Alive, BufferSeek, LifeInv, TeardownPcs, Unlocked, SndLocked, TypeOK, BufType, FlagType, HistType
<1>4. CASE DoSeekScaleFails
  BY <1>4 DEF DoSeekScaleFails, Request, Alive, LifeInv, TeardownPcs, Unlocked, SndLocked, TypeOK, BufType, FlagType
<1>5. CASE ReplyFails
  BY <1>5 DEF ReplyFails, CtlAt, LifeInv, TeardownPcs, Unlocked, SndLocked, TypeOK
<1>6. CASE PlayEffective
  BY <1>6 DEF PlayEffective, CtlAt, LifeInv, TeardownPcs, Unlocked, SndLocked, TypeOK, FlagType, HistType, RtcpType, ThreadType
<1>7. CASE Unpause
  BY <1>7 DEF Unpause, Request, LifeInv, TeardownPcs, Unlocked, SndLocked, TypeOK, FlagType, HistType
<1>8. CASE NotifyWakeup
  BY <1>8 DEF NotifyWakeup, CtlAt, LifeInv, TeardownPcs, Unlocked, SndLocked, TypeOK
<1>9. CASE PauseAlready
  BY <1>9 DEF PauseAlready, Request, LifeInv, TeardownPcs, Unlocked, SndLocked, TypeOK, HistType
<1>10. CASE Pause
  BY <1>10 DEF Pause, Request, LifeInv, TeardownPcs, Unlocked, SndLocked, TypeOK, FlagType
<1>11. CASE InterruptTest
  BY <1>11 DEF InterruptTest, CtlAt, LifeInv, TeardownPcs, Unlocked, SndLocked, TypeOK
<1>12. CASE InterruptSignal
  BY <1>12 DEF InterruptSignal, CtlAt, Alive, LifeInv, TeardownPcs, Unlocked, SndLocked, TypeOK, ThreadType
<1>13. CASE CtlAsleepBarrier
  BY <1>13 DEF CtlAsleepBarrier, CtlAt, Arrive, LifeInv, TeardownPcs, Unlocked, SndLocked, TypeOK, BarrierType
<1>14. CASE PauseEnd
  BY <1>14 DEF PauseEnd, CtlAt, LifeInv, TeardownPcs, Unlocked, SndLocked, TypeOK, HistType
<1>15. CASE Teardown
  BY <1>15 DEF Teardown, Request, AfterStop, LifeInv, TeardownPcs, Unlocked, SndLocked, TypeOK, BufType, FlagType, HistType
<1>16. CASE StopBuffer
  BY <1>16 DEF StopBuffer, CtlAt, AfterStop, LifeInv, TeardownPcs, Unlocked, SndLocked, TypeOK, BufType
<1>17. CASE CtlTermBarrier
  BY <1>17 DEF CtlTermBarrier, CtlAt, Arrive, LifeInv, TeardownPcs, Unlocked, SndLocked, TypeOK, BarrierType
<1>18. CASE Join
  BY <1>18 DEF Join, CtlAt, LifeInv, TeardownPcs, Unlocked, SndLocked, TypeOK, ThreadType
<1>19. CASE SndStarts
  BY <1>19 DEF SndStarts, BeginFetch, LifeInv, TeardownPcs, Unlocked, SndLocked, TypeOK, FlagType, LocType
<1>20. CASE GetNextFrame
  BY <1>20 DEF GetNextFrame, SndAt, LifeInv, TeardownPcs, Unlocked, SndLocked, TypeOK, BufType, LocType
<1>21. CASE GetEof
  BY <1>21 DEF GetEof, SndAt, LifeInv, TeardownPcs, Unlocked, SndLocked, TypeOK, BufType, LocType, ThreadType
<1>22. CASE InstallFrame
  BY <1>22 DEF InstallFrame, SndAt, LifeInv, TeardownPcs, Unlocked, SndLocked, TypeOK, FlagType, LocType, RtcpType, ThreadType
<1>23. CASE FetchEof
  BY <1>23 DEF FetchEof, Alive, LifeInv, TeardownPcs, Unlocked, SndLocked, TypeOK, RtcpType
<1>24. CASE RtcpSynced
  BY <1>24 DEF RtcpSynced, SndAt, LifeInv, TeardownPcs, Unlocked, SndLocked, TypeOK
<1>25. CASE LoopTest
  BY <1>25 DEF LoopTest, SndAt, LifeInv, TeardownPcs, Unlocked, SndLocked, TypeOK
<1>26. CASE Park
  BY <1>26 DEF Park, SndAt, LifeInv, TeardownPcs, Unlocked, SndLocked, TypeOK, RtcpType
<1>27. CASE SndAsleepBarrier
  BY <1>27 DEF SndAsleepBarrier, SndAt, Arrive, LifeInv, TeardownPcs, Unlocked, SndLocked, TypeOK, BarrierType
<1>28. CASE WaitWakeup
  BY <1>28 DEF WaitWakeup, SndAt, LifeInv, TeardownPcs, Unlocked, SndLocked, TypeOK
<1>29. CASE Wakeup
  BY <1>29 DEF Wakeup, SndAt, LifeInv, TeardownPcs, Unlocked, SndLocked, TypeOK
<1>30. CASE Woken
  BY <1>30 DEF Woken, SndAt, LifeInv, TeardownPcs, Unlocked, SndLocked, TypeOK, RtcpType
<1>31. CASE Send
  BY <1>31 DEF Send, BeginFetch, LifeInv, TeardownPcs, Unlocked, SndLocked, TypeOK, FlagType, HistType, LocType
<1>32. CASE SendFails
  BY <1>32 DEF SendFails, SndAt, LifeInv, TeardownPcs, Unlocked, SndLocked, TypeOK, RtcpType
<1>33. CASE SleepOver
  BY <1>33 DEF SleepOver, SndAt, LifeInv, TeardownPcs, Unlocked, SndLocked, TypeOK, ThreadType
<1>34. CASE AfterSleep
  BY <1>34 DEF AfterSleep, SndAt, LifeInv, TeardownPcs, Unlocked, SndLocked, TypeOK, ThreadType
<1>35. CASE SelfPause
  BY <1>35 DEF SelfPause, SndAt, LifeInv, TeardownPcs, Unlocked, SndLocked, TypeOK, FlagType
<1>36. CASE Exit
  BY <1>36 DEF Exit, SndAt, LifeInv, TeardownPcs, Unlocked, SndLocked, TypeOK, BufType, FlagType, RtcpType
<1>37. CASE SndTermBarrier
  BY <1>37 DEF SndTermBarrier, SndAt, Arrive, LifeInv, TeardownPcs, Unlocked, SndLocked, TypeOK, BarrierType
<1>38. CASE Interrupted
  BY <1>38 DEF Interrupted, LifeInv, TeardownPcs, Unlocked, SndLocked, TypeOK
<1>39. CASE RtcpEnds
  BY <1>39 DEF RtcpEnds, RtcpType, LifeInv, TeardownPcs, Unlocked, SndLocked, TypeOK
<1>40. CASE UNCHANGED vars
  BY <1>40 DEF vars, LifeInv, TeardownPcs, Unlocked, SndLocked
<1> QED
  BY <1>1, <1>2, <1>3, <1>4, <1>5, <1>6, <1>7, <1>8, <1>9, <1>10, <1>11, <1>12, <1>13, <1>14, <1>15, <1>16, <1>17, <1>18, <1>19, <1>20, <1>21, <1>22, <1>23, <1>24, <1>25, <1>26, <1>27, <1>28, <1>29, <1>30, <1>31, <1>32, <1>33, <1>34, <1>35, <1>36, <1>37, <1>38, <1>39, <1>40 DEF Next, Ask, Control, SendThread

(* PAUSED outlives the request that set it, and the send thread cannot     *)
(* leave the pause loop of a paused session (pause, run).                  *)
LEMMA PauseStep ==
  TypeOK /\ LifeInv /\ PauseInv /\ [Next]_vars => PauseInv'
<1> SUFFICES ASSUME TypeOK, LifeInv, PauseInv, [Next]_vars PROVE PauseInv'
  OBVIOUS
<1>1. CASE DoFirstPlay
  BY <1>1 DEF DoFirstPlay, Request, Alive, BufferSeek, LifeInv, PauseInv, TeardownPcs, Rendezvous, Parked, Unlocked, SndLocked, TypeOK, BarrierType, BufType, FlagType, HistType
<1>2. CASE DoFirstPlayFails
  BY <1>2 DEF DoFirstPlayFails, Request, Alive, LifeInv, PauseInv, TeardownPcs, Rendezvous, Parked, Unlocked, SndLocked, TypeOK, BarrierType, FlagType, HistType
<1>3. CASE DoSeekScale
  BY <1>3 DEF DoSeekScale, Request, Alive, BufferSeek, LifeInv, PauseInv, TeardownPcs, Rendezvous, Parked, Unlocked, SndLocked, TypeOK, BarrierType, BufType, FlagType, HistType
<1>4. CASE DoSeekScaleFails
  BY <1>4 DEF DoSeekScaleFails, Request, Alive, LifeInv, PauseInv, TeardownPcs, Rendezvous, Parked, Unlocked, SndLocked, TypeOK, BarrierType, BufType, FlagType, HistType
<1>5. CASE ReplyFails
  BY <1>5 DEF ReplyFails, CtlAt, LifeInv, PauseInv, TeardownPcs, Rendezvous, Parked, Unlocked, SndLocked, TypeOK, BarrierType, FlagType, HistType
<1>6. CASE PlayEffective
  BY <1>6 DEF PlayEffective, CtlAt, LifeInv, PauseInv, TeardownPcs, Rendezvous, Parked, Unlocked, SndLocked, TypeOK, BarrierType, FlagType, HistType, RtcpType, ThreadType
<1>7. CASE Unpause
  BY <1>7 DEF Unpause, Request, LifeInv, PauseInv, TeardownPcs, Rendezvous, Parked, Unlocked, SndLocked, TypeOK, BarrierType, FlagType, HistType
<1>8. CASE NotifyWakeup
  BY <1>8 DEF NotifyWakeup, CtlAt, LifeInv, PauseInv, TeardownPcs, Rendezvous, Parked, Unlocked, SndLocked, TypeOK, BarrierType, FlagType, HistType
<1>9. CASE PauseAlready
  BY <1>9 DEF PauseAlready, Request, LifeInv, PauseInv, TeardownPcs, Rendezvous, Parked, Unlocked, SndLocked, TypeOK, BarrierType, FlagType, HistType
<1>10. CASE Pause
  BY <1>10 DEF Pause, Request, LifeInv, PauseInv, TeardownPcs, Rendezvous, Parked, Unlocked, SndLocked, TypeOK, BarrierType, FlagType, HistType
<1>11. CASE InterruptTest
  BY <1>11 DEF InterruptTest, CtlAt, LifeInv, PauseInv, TeardownPcs, Rendezvous, Parked, Unlocked, SndLocked, TypeOK, BarrierType, FlagType, HistType
<1>12. CASE InterruptSignal
  BY <1>12 DEF InterruptSignal, CtlAt, Alive, LifeInv, PauseInv, TeardownPcs, Rendezvous, Parked, Unlocked, SndLocked, TypeOK, BarrierType, FlagType, HistType, ThreadType
<1>13. CASE CtlAsleepBarrier
  BY <1>13 DEF CtlAsleepBarrier, CtlAt, Arrive, LifeInv, PauseInv, TeardownPcs, Rendezvous, Parked, Unlocked, SndLocked, TypeOK, BarrierType, FlagType, HistType
<1>14. CASE PauseEnd
  BY <1>14 DEF PauseEnd, CtlAt, LifeInv, PauseInv, TeardownPcs, Rendezvous, Parked, Unlocked, SndLocked, TypeOK, BarrierType, FlagType, HistType
<1>15. CASE Teardown
  BY <1>15 DEF Teardown, Request, AfterStop, LifeInv, PauseInv, TeardownPcs, Rendezvous, Parked, Unlocked, SndLocked, TypeOK, BarrierType, BufType, FlagType, HistType
<1>16. CASE StopBuffer
  BY <1>16 DEF StopBuffer, CtlAt, AfterStop, LifeInv, PauseInv, TeardownPcs, Rendezvous, Parked, Unlocked, SndLocked, TypeOK, BarrierType, BufType, FlagType, HistType
<1>17. CASE CtlTermBarrier
  BY <1>17 DEF CtlTermBarrier, CtlAt, Arrive, LifeInv, PauseInv, TeardownPcs, Rendezvous, Parked, Unlocked, SndLocked, TypeOK, BarrierType, FlagType, HistType
<1>18. CASE Join
  BY <1>18 DEF Join, CtlAt, LifeInv, PauseInv, TeardownPcs, Rendezvous, Parked, Unlocked, SndLocked, TypeOK, BarrierType, FlagType, HistType, ThreadType
<1>19. CASE SndStarts
  BY <1>19 DEF SndStarts, BeginFetch, LifeInv, PauseInv, TeardownPcs, Rendezvous, Parked, Unlocked, SndLocked, TypeOK, BarrierType, FlagType, HistType, LocType
<1>20. CASE GetNextFrame
  BY <1>20 DEF GetNextFrame, SndAt, LifeInv, PauseInv, TeardownPcs, Rendezvous, Parked, Unlocked, SndLocked, TypeOK, BarrierType, BufType, FlagType, HistType, LocType
<1>21. CASE GetEof
  BY <1>21 DEF GetEof, SndAt, LifeInv, PauseInv, TeardownPcs, Rendezvous, Parked, Unlocked, SndLocked, TypeOK, BarrierType, BufType, FlagType, HistType, LocType, ThreadType
<1>22. CASE InstallFrame
  BY <1>22 DEF InstallFrame, SndAt, LifeInv, PauseInv, TeardownPcs, Rendezvous, Parked, Unlocked, SndLocked, TypeOK, BarrierType, FlagType, HistType, LocType, RtcpType, ThreadType
<1>23. CASE FetchEof
  BY <1>23 DEF FetchEof, Alive, LifeInv, PauseInv, TeardownPcs, Rendezvous, Parked, Unlocked, SndLocked, TypeOK, BarrierType, FlagType, HistType, RtcpType
<1>24. CASE RtcpSynced
  BY <1>24 DEF RtcpSynced, SndAt, LifeInv, PauseInv, TeardownPcs, Rendezvous, Parked, Unlocked, SndLocked, TypeOK, BarrierType, FlagType, HistType
<1>25. CASE LoopTest
  BY <1>25 DEF LoopTest, SndAt, LifeInv, PauseInv, TeardownPcs, Rendezvous, Parked, Unlocked, SndLocked, TypeOK, BarrierType, FlagType, HistType
<1>26. CASE Park
  BY <1>26 DEF Park, SndAt, LifeInv, PauseInv, TeardownPcs, Rendezvous, Parked, Unlocked, SndLocked, TypeOK, BarrierType, FlagType, HistType, RtcpType
<1>27. CASE SndAsleepBarrier
  BY <1>27 DEF SndAsleepBarrier, SndAt, Arrive, LifeInv, PauseInv, TeardownPcs, Rendezvous, Parked, Unlocked, SndLocked, TypeOK, BarrierType, FlagType, HistType
<1>28. CASE WaitWakeup
  BY <1>28 DEF WaitWakeup, SndAt, LifeInv, PauseInv, TeardownPcs, Rendezvous, Parked, Unlocked, SndLocked, TypeOK, BarrierType, FlagType, HistType
<1>29. CASE Wakeup
  BY <1>29 DEF Wakeup, SndAt, LifeInv, PauseInv, TeardownPcs, Rendezvous, Parked, Unlocked, SndLocked, TypeOK, BarrierType, FlagType, HistType
<1>30. CASE Woken
  BY <1>30 DEF Woken, SndAt, LifeInv, PauseInv, TeardownPcs, Rendezvous, Parked, Unlocked, SndLocked, TypeOK, BarrierType, FlagType, HistType, RtcpType
<1>31. CASE Send
  BY <1>31 DEF Send, BeginFetch, LifeInv, PauseInv, TeardownPcs, Rendezvous, Parked, Unlocked, SndLocked, TypeOK, BarrierType, FlagType, HistType, LocType
<1>32. CASE SendFails
  BY <1>32 DEF SendFails, SndAt, LifeInv, PauseInv, TeardownPcs, Rendezvous, Parked, Unlocked, SndLocked, TypeOK, BarrierType, FlagType, HistType, RtcpType
<1>33. CASE SleepOver
  BY <1>33 DEF SleepOver, SndAt, LifeInv, PauseInv, TeardownPcs, Rendezvous, Parked, Unlocked, SndLocked, TypeOK, BarrierType, FlagType, HistType, ThreadType
<1>34. CASE AfterSleep
  BY <1>34 DEF AfterSleep, SndAt, LifeInv, PauseInv, TeardownPcs, Rendezvous, Parked, Unlocked, SndLocked, TypeOK, BarrierType, FlagType, HistType, ThreadType
<1>35. CASE SelfPause
  BY <1>35 DEF SelfPause, SndAt, LifeInv, PauseInv, TeardownPcs, Rendezvous, Parked, Unlocked, SndLocked, TypeOK, BarrierType, FlagType, HistType
<1>36. CASE Exit
  BY <1>36 DEF Exit, SndAt, LifeInv, PauseInv, TeardownPcs, Rendezvous, Parked, Unlocked, SndLocked, TypeOK, BarrierType, BufType, FlagType, HistType, RtcpType
<1>37. CASE SndTermBarrier
  BY <1>37 DEF SndTermBarrier, SndAt, Arrive, LifeInv, PauseInv, TeardownPcs, Rendezvous, Parked, Unlocked, SndLocked, TypeOK, BarrierType, FlagType, HistType
<1>38. CASE Interrupted
  BY <1>38 DEF Interrupted, LifeInv, PauseInv, TeardownPcs, Rendezvous, Parked, Unlocked, SndLocked, TypeOK, BarrierType, FlagType, HistType
<1>39. CASE RtcpEnds
  BY <1>39 DEF RtcpEnds, RtcpType, LifeInv, PauseInv, TeardownPcs, Rendezvous, Parked, Unlocked, SndLocked, TypeOK, BarrierType, FlagType, HistType
<1>40. CASE UNCHANGED vars
  BY <1>40 DEF vars, LifeInv, PauseInv, TeardownPcs, Rendezvous, Parked, Unlocked, SndLocked
<1> QED
  BY <1>1, <1>2, <1>3, <1>4, <1>5, <1>6, <1>7, <1>8, <1>9, <1>10, <1>11, <1>12, <1>13, <1>14, <1>15, <1>16, <1>17, <1>18, <1>19, <1>20, <1>21, <1>22, <1>23, <1>24, <1>25, <1>26, <1>27, <1>28, <1>29, <1>30, <1>31, <1>32, <1>33, <1>34, <1>35, <1>36, <1>37, <1>38, <1>39, <1>40 DEF Next, Ask, Control, SendThread

(* After a seek at most the frame in hand is of the old position           *)
(* (doSeekScale, fetchNextFrame).                                          *)
LEMMA StaleStep ==
  TypeOK /\ LifeInv /\ StaleInv /\ [Next]_vars => StaleInv'
<1> SUFFICES ASSUME TypeOK, LifeInv, StaleInv, [Next]_vars PROVE StaleInv'
  OBVIOUS
<1>1. CASE DoFirstPlay
  BY <1>1 DEF DoFirstPlay, Request, Alive, BufferSeek, LifeInv, StaleInv, Unlocked, SndLocked, TypeOK, BufType, FlagType, HistType
<1>2. CASE DoFirstPlayFails
  BY <1>2 DEF DoFirstPlayFails, Request, Alive, LifeInv, StaleInv, Unlocked, SndLocked, TypeOK, FlagType
<1>3. CASE DoSeekScale
  BY <1>3 DEF DoSeekScale, Request, Alive, BufferSeek, LifeInv, StaleInv, Unlocked, SndLocked, TypeOK, BufType, FlagType, HistType
<1>4. CASE DoSeekScaleFails
  BY <1>4 DEF DoSeekScaleFails, Request, Alive, LifeInv, StaleInv, Unlocked, SndLocked, TypeOK, BufType, FlagType
<1>5. CASE ReplyFails
  BY <1>5 DEF ReplyFails, CtlAt, LifeInv, StaleInv, Unlocked, SndLocked, TypeOK
<1>6. CASE PlayEffective
  BY <1>6 DEF PlayEffective, CtlAt, LifeInv, StaleInv, Unlocked, SndLocked, TypeOK, FlagType, HistType, RtcpType, ThreadType
<1>7. CASE Unpause
  BY <1>7 DEF Unpause, Request, LifeInv, StaleInv, Unlocked, SndLocked, TypeOK, FlagType, HistType
<1>8. CASE NotifyWakeup
  BY <1>8 DEF NotifyWakeup, CtlAt, LifeInv, StaleInv, Unlocked, SndLocked, TypeOK
<1>9. CASE PauseAlready
  BY <1>9 DEF PauseAlready, Request, LifeInv, StaleInv, Unlocked, SndLocked, TypeOK, HistType
<1>10. CASE Pause
  BY <1>10 DEF Pause, Request, LifeInv, StaleInv, Unlocked, SndLocked, TypeOK, FlagType
<1>11. CASE InterruptTest
  BY <1>11 DEF InterruptTest, CtlAt, LifeInv, StaleInv, Unlocked, SndLocked, TypeOK
<1>12. CASE InterruptSignal
  BY <1>12 DEF InterruptSignal, CtlAt, Alive, LifeInv, StaleInv, Unlocked, SndLocked, TypeOK, ThreadType
<1>13. CASE CtlAsleepBarrier
  BY <1>13 DEF CtlAsleepBarrier, CtlAt, Arrive, LifeInv, StaleInv, Unlocked, SndLocked, TypeOK, BarrierType
<1>14. CASE PauseEnd
  BY <1>14 DEF PauseEnd, CtlAt, LifeInv, StaleInv, Unlocked, SndLocked, TypeOK, HistType
<1>15. CASE Teardown
  BY <1>15 DEF Teardown, Request, AfterStop, LifeInv, StaleInv, Unlocked, SndLocked, TypeOK, BufType, FlagType, HistType
<1>16. CASE StopBuffer
  BY <1>16 DEF StopBuffer, CtlAt, AfterStop, LifeInv, StaleInv, Unlocked, SndLocked, TypeOK, BufType
<1>17. CASE CtlTermBarrier
  BY <1>17 DEF CtlTermBarrier, CtlAt, Arrive, LifeInv, StaleInv, Unlocked, SndLocked, TypeOK, BarrierType
<1>18. CASE Join
  BY <1>18 DEF Join, CtlAt, LifeInv, StaleInv, Unlocked, SndLocked, TypeOK, ThreadType
<1>19. CASE SndStarts
  BY <1>19 DEF SndStarts, BeginFetch, LifeInv, StaleInv, Unlocked, SndLocked, TypeOK, FlagType, LocType
<1>20. CASE GetNextFrame
  BY <1>20 DEF GetNextFrame, SndAt, LifeInv, StaleInv, Unlocked, SndLocked, TypeOK, BufType, LocType
<1>21. CASE GetEof
  BY <1>21 DEF GetEof, SndAt, LifeInv, StaleInv, Unlocked, SndLocked, TypeOK, BufType, LocType, ThreadType
<1>22. CASE InstallFrame
  BY <1>22 DEF InstallFrame, SndAt, LifeInv, StaleInv, Unlocked, SndLocked, TypeOK, FlagType, LocType, RtcpType, ThreadType
<1>23. CASE FetchEof
  BY <1>23 DEF FetchEof, Alive, LifeInv, StaleInv, Unlocked, SndLocked, TypeOK, RtcpType
<1>24. CASE RtcpSynced
  BY <1>24 DEF RtcpSynced, SndAt, LifeInv, StaleInv, Unlocked, SndLocked, TypeOK
<1>25. CASE LoopTest
  BY <1>25 DEF LoopTest, SndAt, LifeInv, StaleInv, Unlocked, SndLocked, TypeOK
<1>26. CASE Park
  BY <1>26 DEF Park, SndAt, LifeInv, StaleInv, Unlocked, SndLocked, TypeOK, RtcpType
<1>27. CASE SndAsleepBarrier
  BY <1>27 DEF SndAsleepBarrier, SndAt, Arrive, LifeInv, StaleInv, Unlocked, SndLocked, TypeOK, BarrierType
<1>28. CASE WaitWakeup
  BY <1>28 DEF WaitWakeup, SndAt, LifeInv, StaleInv, Unlocked, SndLocked, TypeOK
<1>29. CASE Wakeup
  BY <1>29 DEF Wakeup, SndAt, LifeInv, StaleInv, Unlocked, SndLocked, TypeOK
<1>30. CASE Woken
  BY <1>30 DEF Woken, SndAt, LifeInv, StaleInv, Unlocked, SndLocked, TypeOK, RtcpType
<1>31. CASE Send
  <2>1. CASE hist' = hist
    BY <1>31, <2>1 DEF Send, BeginFetch, StaleInv, TypeOK, HistType
  <2>2. CASE frameNext = buf.epoch /\ hist' = [hist EXCEPT !.beat = ~@]
    <3>1. hist'.stale = hist.stale BY <2>2 DEF TypeOK, HistType
    <3> QED BY <1>31, <2>2, <3>1 DEF Send, BeginFetch, StaleInv
  <2>3. CASE frameNext \notin {0, buf.epoch} /\ hist' = [hist EXCEPT !.beat = ~@, !.stale = @ + 1]
    <3>1. hist.stale = 0 BY <1>31, <2>3 DEF Send, StaleInv
    <3>2. hist'.stale = 1 BY <2>3, <3>1 DEF TypeOK, HistType
    <3> QED BY <1>31, <2>3, <3>2 DEF Send, BeginFetch, StaleInv
  <2> QED BY <1>31, <2>1, <2>2, <2>3 DEF Send
<1>32. CASE SendFails
  BY <1>32 DEF SendFails, SndAt, LifeInv, StaleInv, Unlocked, SndLocked, TypeOK, RtcpType
<1>33. CASE SleepOver
  BY <1>33 DEF SleepOver, SndAt, LifeInv, StaleInv, Unlocked, SndLocked, TypeOK, ThreadType
<1>34. CASE AfterSleep
  BY <1>34 DEF AfterSleep, SndAt, LifeInv, StaleInv, Unlocked, SndLocked, TypeOK, ThreadType
<1>35. CASE SelfPause
  BY <1>35 DEF SelfPause, SndAt, LifeInv, StaleInv, Unlocked, SndLocked, TypeOK, FlagType
<1>36. CASE Exit
  BY <1>36 DEF Exit, SndAt, LifeInv, StaleInv, Unlocked, SndLocked, TypeOK, BufType, FlagType, RtcpType
<1>37. CASE SndTermBarrier
  BY <1>37 DEF SndTermBarrier, SndAt, Arrive, LifeInv, StaleInv, Unlocked, SndLocked, TypeOK, BarrierType
<1>38. CASE Interrupted
  BY <1>38 DEF Interrupted, LifeInv, StaleInv, Unlocked, SndLocked, TypeOK
<1>39. CASE RtcpEnds
  BY <1>39 DEF RtcpEnds, RtcpType, LifeInv, StaleInv, Unlocked, SndLocked, TypeOK
<1>40. CASE UNCHANGED vars
  BY <1>40 DEF vars, LifeInv, StaleInv, Unlocked, SndLocked
<1> QED
  BY <1>1, <1>2, <1>3, <1>4, <1>5, <1>6, <1>7, <1>8, <1>9, <1>10, <1>11, <1>12, <1>13, <1>14, <1>15, <1>16, <1>17, <1>18, <1>19, <1>20, <1>21, <1>22, <1>23, <1>24, <1>25, <1>26, <1>27, <1>28, <1>29, <1>30, <1>31, <1>32, <1>33, <1>34, <1>35, <1>36, <1>37, <1>38, <1>39, <1>40 DEF Next, Ask, Control, SendThread

(* The RTCP threads follow the send thread (run, play).                    *)
LEMMA RtcpStep ==
  TypeOK /\ LifeInv /\ RtcpInv /\ [Next]_vars => RtcpInv'
<1> SUFFICES ASSUME TypeOK, LifeInv, RtcpInv, [Next]_vars PROVE RtcpInv'
  OBVIOUS
<1>1. CASE DoFirstPlay
  BY <1>1 DEF DoFirstPlay, Request, Alive, BufferSeek, LifeInv, RtcpInv, TeardownPcs, Sending, Unlocked, SndLocked, TypeOK, BufType, FlagType, HistType
<1>2. CASE DoFirstPlayFails
  BY <1>2 DEF DoFirstPlayFails, Request, Alive, LifeInv, RtcpInv, TeardownPcs, Sending, Unlocked, SndLocked, TypeOK, FlagType
<1>3. CASE DoSeekScale
  BY <1>3 DEF DoSeekScale, Request, Alive, BufferSeek, LifeInv, RtcpInv, TeardownPcs, Sending, Unlocked, SndLocked, TypeOK, BufType, FlagType, HistType
<1>4. CASE DoSeekScaleFails
  BY <1>4 DEF DoSeekScaleFails, Request, Alive, LifeInv, RtcpInv, TeardownPcs, Sending, Unlocked, SndLocked, TypeOK, BufType, FlagType
<1>5. CASE ReplyFails
  BY <1>5 DEF ReplyFails, CtlAt, LifeInv, RtcpInv, TeardownPcs, Sending, Unlocked, SndLocked, TypeOK
<1>6. CASE PlayEffective
  BY <1>6 DEF PlayEffective, CtlAt, LifeInv, RtcpInv, TeardownPcs, Sending, Unlocked, SndLocked, TypeOK, FlagType, HistType, RtcpType, ThreadType
<1>7. CASE Unpause
  BY <1>7 DEF Unpause, Request, LifeInv, RtcpInv, TeardownPcs, Sending, Unlocked, SndLocked, TypeOK, FlagType, HistType
<1>8. CASE NotifyWakeup
  BY <1>8 DEF NotifyWakeup, CtlAt, LifeInv, RtcpInv, TeardownPcs, Sending, Unlocked, SndLocked, TypeOK
<1>9. CASE PauseAlready
  BY <1>9 DEF PauseAlready, Request, LifeInv, RtcpInv, TeardownPcs, Sending, Unlocked, SndLocked, TypeOK, HistType
<1>10. CASE Pause
  BY <1>10 DEF Pause, Request, LifeInv, RtcpInv, TeardownPcs, Sending, Unlocked, SndLocked, TypeOK, FlagType
<1>11. CASE InterruptTest
  BY <1>11 DEF InterruptTest, CtlAt, LifeInv, RtcpInv, TeardownPcs, Sending, Unlocked, SndLocked, TypeOK
<1>12. CASE InterruptSignal
  BY <1>12 DEF InterruptSignal, CtlAt, Alive, LifeInv, RtcpInv, TeardownPcs, Sending, Unlocked, SndLocked, TypeOK, ThreadType
<1>13. CASE CtlAsleepBarrier
  BY <1>13 DEF CtlAsleepBarrier, CtlAt, Arrive, LifeInv, RtcpInv, TeardownPcs, Sending, Unlocked, SndLocked, TypeOK, BarrierType
<1>14. CASE PauseEnd
  BY <1>14 DEF PauseEnd, CtlAt, LifeInv, RtcpInv, TeardownPcs, Sending, Unlocked, SndLocked, TypeOK, HistType
<1>15. CASE Teardown
  BY <1>15 DEF Teardown, Request, AfterStop, LifeInv, RtcpInv, TeardownPcs, Sending, Unlocked, SndLocked, TypeOK, BufType, FlagType, HistType
<1>16. CASE StopBuffer
  BY <1>16 DEF StopBuffer, CtlAt, AfterStop, LifeInv, RtcpInv, TeardownPcs, Sending, Unlocked, SndLocked, TypeOK, BufType
<1>17. CASE CtlTermBarrier
  BY <1>17 DEF CtlTermBarrier, CtlAt, Arrive, LifeInv, RtcpInv, TeardownPcs, Sending, Unlocked, SndLocked, TypeOK, BarrierType
<1>18. CASE Join
  BY <1>18 DEF Join, CtlAt, LifeInv, RtcpInv, TeardownPcs, Sending, Unlocked, SndLocked, TypeOK, ThreadType
<1>19. CASE SndStarts
  BY <1>19 DEF SndStarts, BeginFetch, LifeInv, RtcpInv, TeardownPcs, Sending, Unlocked, SndLocked, TypeOK, FlagType, LocType
<1>20. CASE GetNextFrame
  BY <1>20 DEF GetNextFrame, SndAt, LifeInv, RtcpInv, TeardownPcs, Sending, Unlocked, SndLocked, TypeOK, BufType, LocType
<1>21. CASE GetEof
  BY <1>21 DEF GetEof, SndAt, LifeInv, RtcpInv, TeardownPcs, Sending, Unlocked, SndLocked, TypeOK, BufType, LocType, ThreadType
<1>22. CASE InstallFrame
  BY <1>22 DEF InstallFrame, SndAt, LifeInv, RtcpInv, TeardownPcs, Sending, Unlocked, SndLocked, TypeOK, FlagType, LocType, RtcpType, ThreadType
<1>23. CASE FetchEof
  BY <1>23 DEF FetchEof, Alive, LifeInv, RtcpInv, TeardownPcs, Sending, Unlocked, SndLocked, TypeOK, RtcpType
<1>24. CASE RtcpSynced
  BY <1>24 DEF RtcpSynced, SndAt, LifeInv, RtcpInv, TeardownPcs, Sending, Unlocked, SndLocked, TypeOK
<1>25. CASE LoopTest
  BY <1>25 DEF LoopTest, SndAt, LifeInv, RtcpInv, TeardownPcs, Sending, Unlocked, SndLocked, TypeOK
<1>26. CASE Park
  BY <1>26 DEF Park, SndAt, LifeInv, RtcpInv, TeardownPcs, Sending, Unlocked, SndLocked, TypeOK, RtcpType
<1>27. CASE SndAsleepBarrier
  BY <1>27 DEF SndAsleepBarrier, SndAt, Arrive, LifeInv, RtcpInv, TeardownPcs, Sending, Unlocked, SndLocked, TypeOK, BarrierType
<1>28. CASE WaitWakeup
  BY <1>28 DEF WaitWakeup, SndAt, LifeInv, RtcpInv, TeardownPcs, Sending, Unlocked, SndLocked, TypeOK
<1>29. CASE Wakeup
  BY <1>29 DEF Wakeup, SndAt, LifeInv, RtcpInv, TeardownPcs, Sending, Unlocked, SndLocked, TypeOK
<1>30. CASE Woken
  BY <1>30 DEF Woken, SndAt, LifeInv, RtcpInv, TeardownPcs, Sending, Unlocked, SndLocked, TypeOK, RtcpType
<1>31. CASE Send
  BY <1>31 DEF Send, BeginFetch, LifeInv, RtcpInv, TeardownPcs, Sending, Unlocked, SndLocked, TypeOK, FlagType, HistType, LocType
<1>32. CASE SendFails
  BY <1>32 DEF SendFails, SndAt, LifeInv, RtcpInv, TeardownPcs, Sending, Unlocked, SndLocked, TypeOK, RtcpType
<1>33. CASE SleepOver
  BY <1>33 DEF SleepOver, SndAt, LifeInv, RtcpInv, TeardownPcs, Sending, Unlocked, SndLocked, TypeOK, ThreadType
<1>34. CASE AfterSleep
  BY <1>34 DEF AfterSleep, SndAt, LifeInv, RtcpInv, TeardownPcs, Sending, Unlocked, SndLocked, TypeOK, ThreadType
<1>35. CASE SelfPause
  BY <1>35 DEF SelfPause, SndAt, LifeInv, RtcpInv, TeardownPcs, Sending, Unlocked, SndLocked, TypeOK, FlagType
<1>36. CASE Exit
  BY <1>36 DEF Exit, SndAt, LifeInv, RtcpInv, TeardownPcs, Sending, Unlocked, SndLocked, TypeOK, BufType, FlagType, RtcpType
<1>37. CASE SndTermBarrier
  BY <1>37 DEF SndTermBarrier, SndAt, Arrive, LifeInv, RtcpInv, TeardownPcs, Sending, Unlocked, SndLocked, TypeOK, BarrierType
<1>38. CASE Interrupted
  BY <1>38 DEF Interrupted, LifeInv, RtcpInv, TeardownPcs, Sending, Unlocked, SndLocked, TypeOK
<1>39. CASE RtcpEnds
  BY <1>39 DEF RtcpEnds, RtcpType, LifeInv, RtcpInv, TeardownPcs, Sending, Unlocked, SndLocked, TypeOK
<1>40. CASE UNCHANGED vars
  BY <1>40 DEF vars, LifeInv, RtcpInv, TeardownPcs, Sending, Unlocked, SndLocked
<1> QED
  BY <1>1, <1>2, <1>3, <1>4, <1>5, <1>6, <1>7, <1>8, <1>9, <1>10, <1>11, <1>12, <1>13, <1>14, <1>15, <1>16, <1>17, <1>18, <1>19, <1>20, <1>21, <1>22, <1>23, <1>24, <1>25, <1>26, <1>27, <1>28, <1>29, <1>30, <1>31, <1>32, <1>33, <1>34, <1>35, <1>36, <1>37, <1>38, <1>39, <1>40 DEF Next, Ask, Control, SendThread

(* The variables stay in their ranges.                                     *)
THEOREM TypeCorrect == Spec => []TypeOK
<1>1. ASSUME Init PROVE TypeOK
  <2>1. cpc \in CtlPcs /\ spc \in SndUnlocked BY <1>1 DEF Init, CtlPcs, SndUnlocked
  <2>2. flag \in FlagType BY <1>1 DEF Init, FlagType
  <2>3. th \in ThreadType BY <1>1 DEF Init, ThreadType
  <2>4. barrier \in BarrierType BY <1>1 DEF Init, BarrierType
  <2>5. loc \in LocType BY <1>1 DEF Init, LocType
  <2>6. buf \in BufType BY <1>1 DEF Init, BufType
  <2>7. rtcp \in RtcpType BY <1>1 DEF Init, RtcpType
  <2>8. hist \in HistType BY <1>1 DEF Init, HistType
  <2> QED BY <1>1, <2>1, <2>2, <2>3, <2>4, <2>5, <2>6, <2>7, <2>8 DEF Init, TypeOK
<1> QED BY <1>1, TypeStep, PTL DEF Spec

(* A new session has no thread, is stopped and not paused.                 *)
LEMMA InitIdle == Init => /\ ~th.exists /\ flag.stopped /\ ~flag.paused
                       /\ ~hist.acked /\ hist.beat = FALSE /\ hist.stale = 0
<1> SUFFICES ASSUME Init
             PROVE  /\ ~th.exists /\ flag.stopped /\ ~flag.paused
                    /\ ~hist.acked /\ hist.beat = FALSE /\ hist.stale = 0
  OBVIOUS
<1>1. ~th.exists
  <2>1. th.exists \in {FALSE} BY DEF Init
  <2> QED BY <2>1
<1>2. flag.stopped /\ ~flag.paused BY DEF Init
<1>3. ~hist.acked /\ hist.beat = FALSE /\ hist.stale = 0 BY DEF Init
<1> QED BY <1>1, <1>2, <1>3

(* The inductive invariant.                                                *)
IInv == TypeOK /\ LifeInv /\ PauseInv /\ StaleInv /\ RtcpInv

(* It holds throughout, whatever the bounds and the environment.           *)
THEOREM Invariance == Spec => []IInv
<1>1. ASSUME Init PROVE LifeInv /\ PauseInv /\ StaleInv /\ RtcpInv
  <2>1. LifeInv BY <1>1, InitIdle DEF Init, LifeInv, TeardownPcs
  <2>2. PauseInv BY <1>1, InitIdle DEF Init, PauseInv, Rendezvous
  <2>3. StaleInv BY <1>1, InitIdle DEF Init, StaleInv
  <2>4. RtcpInv BY <1>1, InitIdle DEF Init, RtcpInv, Sending
  <2> QED BY <2>1, <2>2, <2>3, <2>4
<1>2. IInv /\ [Next]_vars => IInv'
  BY TypeStep, LifeStep, PauseStep, StaleStep, RtcpStep DEF IInv
<1> QED BY <1>1, <1>2, TypeCorrect, PTL DEF Spec, IInv

(* A control thread waiting in the asleep barrier is awaited (pause, run). *)
THEOREM PauseMeets == Spec => []PauseRendezvous
<1>1. IInv => PauseRendezvous
  BY DEF IInv, LifeInv, PauseInv, Rendezvous, PauseRendezvous
<1> QED BY <1>1, Invariance, PTL

(* At most one frame of an older position is sent after a seek.            *)
THEOREM AtMostOneStaleFrame == Spec => []StaleOnce
<1>1. IInv => StaleOnce
  BY DEF IInv, StaleInv, StaleOnce
<1> QED BY <1>1, Invariance, PTL

(* RTCP runs while media are sent and is quiet while the send thread       *)
(* sleeps (run).                                                           *)
THEOREM RtcpAccompaniesMedia == Spec => [](RtcpFollowsMedia /\ RtcpQuietWhilePaused)
<1>1. IInv => RtcpFollowsMedia /\ RtcpQuietWhilePaused
  BY DEF IInv, RtcpInv, Sending, RtcpFollowsMedia, RtcpQuietWhilePaused
<1> QED BY <1>1, Invariance, PTL

(* Nothing of the session runs once TEARDOWN is over (teardown).           *)
THEOREM NothingLeft == Spec => []TeardownLeavesNothing
<1>1. IInv => TeardownLeavesNothing
  BY DEF IInv, LifeInv, RtcpInv, TeardownLeavesNothing
<1> QED BY <1>1, Invariance, PTL

(* Every step of the session is a step of Playback or leaves it alone.     *)
LEMMA PlaybackStep == IInv /\ [Next]_vars => [PB!Next]_(PB!vars)
<1> SUFFICES ASSUME IInv, [Next]_vars PROVE [PB!Next]_(PB!vars)
  OBVIOUS
<1>1. CASE DoFirstPlay
  BY <1>1 DEF DoFirstPlay, Request, Alive, BufferSeek, Mode, HistType, IInv, TypeOK, LifeInv, PauseInv, TeardownPcs, PB!vars
<1>2. CASE DoFirstPlayFails
  BY <1>2 DEF DoFirstPlayFails, Request, Alive, Mode, IInv, TypeOK, LifeInv, PauseInv, TeardownPcs, Rendezvous, Parked, PB!vars, PB!Next, PB!Become, PB!Die
<1>3. CASE DoSeekScale
  BY <1>3 DEF DoSeekScale, Request, Alive, BufferSeek, Mode, HistType, IInv, TypeOK, LifeInv, PauseInv, TeardownPcs, PB!vars
<1>4. CASE DoSeekScaleFails
  BY <1>4 DEF DoSeekScaleFails, Request, Alive, Mode, IInv, TypeOK, LifeInv, PauseInv, TeardownPcs, Rendezvous, Parked, PB!vars, PB!Next, PB!Become, PB!Die
<1>5. CASE ReplyFails
  BY <1>5 DEF ReplyFails, CtlAt, Alive, Mode, IInv, TypeOK, LifeInv, PauseInv, TeardownPcs, PB!vars
<1>6. CASE PlayEffective
  BY <1>6 DEF PlayEffective, CtlAt, Alive, Mode, ThreadType, HistType, IInv, TypeOK, LifeInv, PauseInv, TeardownPcs, Rendezvous, Parked, PB!vars, PB!Next, PB!Become, PB!Start, PB!Resume
<1>7. CASE Unpause
  BY <1>7 DEF Unpause, Request, Alive, Mode, HistType, IInv, TypeOK, LifeInv, PauseInv, TeardownPcs, Rendezvous, Parked, PB!vars, PB!Next, PB!Become, PB!Resume
<1>8. CASE NotifyWakeup
  BY <1>8 DEF NotifyWakeup, CtlAt, Alive, Mode, IInv, TypeOK, LifeInv, PauseInv, TeardownPcs, PB!vars
<1>9. CASE PauseAlready
  BY <1>9 DEF PauseAlready, Request, Alive, Mode, HistType, IInv, TypeOK, LifeInv, PauseInv, TeardownPcs, Rendezvous, Parked, PB!vars, PB!Next, PB!Become, PB!Hush
<1>10. CASE Pause
  BY <1>10 DEF Pause, Request, Alive, Mode, IInv, TypeOK, LifeInv, PauseInv, TeardownPcs, PB!vars
<1>11. CASE InterruptTest
  BY <1>11 DEF InterruptTest, CtlAt, Alive, Mode, IInv, TypeOK, LifeInv, PauseInv, TeardownPcs, PB!vars
<1>12. CASE InterruptSignal
  BY <1>12 DEF InterruptSignal, CtlAt, Alive, Mode, ThreadType, IInv, TypeOK, LifeInv, PauseInv, TeardownPcs, Rendezvous, Parked, PB!vars, PB!Next, PB!Become, PB!Die
<1>13. CASE CtlAsleepBarrier
  BY <1>13 DEF CtlAsleepBarrier, CtlAt, Arrive, Alive, Mode, IInv, TypeOK, LifeInv, PauseInv, TeardownPcs, PB!vars
<1>14. CASE PauseEnd
  BY <1>14 DEF PauseEnd, CtlAt, Alive, Mode, HistType, IInv, TypeOK, LifeInv, PauseInv, TeardownPcs, Rendezvous, Parked, PB!vars, PB!Next, PB!Become, PB!Hush
<1>15. CASE Teardown
  BY <1>15 DEF Teardown, Request, AfterStop, Alive, Mode, HistType, IInv, TypeOK, LifeInv, PauseInv, TeardownPcs, Rendezvous, Parked, PB!vars, PB!Next, PB!Become, PB!Resume, PB!Close
<1>16. CASE StopBuffer
  BY <1>16 DEF StopBuffer, CtlAt, AfterStop, Alive, Mode, IInv, TypeOK, LifeInv, PauseInv, TeardownPcs, Rendezvous, Parked, PB!vars, PB!Next, PB!Become, PB!Close
<1>17. CASE CtlTermBarrier
  BY <1>17 DEF CtlTermBarrier, CtlAt, Arrive, Alive, Mode, IInv, TypeOK, LifeInv, PauseInv, TeardownPcs, PB!vars
<1>18. CASE Join
  BY <1>18 DEF Join, CtlAt, Alive, Mode, ThreadType, IInv, TypeOK, LifeInv, PauseInv, TeardownPcs, Rendezvous, Parked, PB!vars, PB!Next, PB!Become, PB!Close
<1>19. CASE SndStarts
  BY <1>19 DEF SndStarts, BeginFetch, Alive, Mode, IInv, TypeOK, LifeInv, PauseInv, TeardownPcs, PB!vars
<1>20. CASE GetNextFrame
  BY <1>20 DEF GetNextFrame, SndAt, Alive, Mode, IInv, TypeOK, LifeInv, PauseInv, TeardownPcs, PB!vars
<1>21. CASE GetEof
  BY <1>21 DEF GetEof, SndAt, Alive, Mode, ThreadType, IInv, TypeOK, LifeInv, PauseInv, TeardownPcs, PB!vars
<1>22. CASE InstallFrame
  BY <1>22 DEF InstallFrame, SndAt, Alive, Mode, ThreadType, IInv, TypeOK, LifeInv, PauseInv, TeardownPcs, PB!vars
<1>23. CASE FetchEof
  BY <1>23 DEF FetchEof, Alive, Mode, IInv, TypeOK, LifeInv, PauseInv, TeardownPcs, Rendezvous, Parked, PB!vars, PB!Next, PB!Become, PB!Die
<1>24. CASE RtcpSynced
  BY <1>24 DEF RtcpSynced, SndAt, Alive, Mode, IInv, TypeOK, LifeInv, PauseInv, TeardownPcs, PB!vars
<1>25. CASE LoopTest
  BY <1>25 DEF LoopTest, SndAt, Alive, Mode, IInv, TypeOK, LifeInv, PauseInv, TeardownPcs, PB!vars
<1>26. CASE Park
  BY <1>26 DEF Park, SndAt, Alive, Mode, IInv, TypeOK, LifeInv, PauseInv, TeardownPcs, PB!vars
<1>27. CASE SndAsleepBarrier
  BY <1>27 DEF SndAsleepBarrier, SndAt, Arrive, Alive, Mode, IInv, TypeOK, LifeInv, PauseInv, TeardownPcs, PB!vars
<1>28. CASE WaitWakeup
  BY <1>28 DEF WaitWakeup, SndAt, Alive, Mode, IInv, TypeOK, LifeInv, PauseInv, TeardownPcs, PB!vars
<1>29. CASE Wakeup
  BY <1>29 DEF Wakeup, SndAt, Alive, Mode, IInv, TypeOK, LifeInv, PauseInv, TeardownPcs, PB!vars
<1>30. CASE Woken
  BY <1>30 DEF Woken, SndAt, Alive, Mode, IInv, TypeOK, LifeInv, PauseInv, TeardownPcs, PB!vars
<1>31. CASE Send
  BY <1>31 DEF Send, BeginFetch, Alive, Mode, HistType, IInv, TypeOK, LifeInv, PauseInv, TeardownPcs, Rendezvous, Parked, PB!vars, PB!Next, PB!Become, PB!Packet
<1>32. CASE SendFails
  BY <1>32 DEF SendFails, SndAt, Alive, Mode, IInv, TypeOK, LifeInv, PauseInv, TeardownPcs, PB!vars
<1>33. CASE SleepOver
  BY <1>33 DEF SleepOver, SndAt, Alive, Mode, ThreadType, IInv, TypeOK, LifeInv, PauseInv, TeardownPcs, PB!vars
<1>34. CASE AfterSleep
  BY <1>34 DEF AfterSleep, SndAt, Alive, Mode, ThreadType, IInv, TypeOK, LifeInv, PauseInv, TeardownPcs, PB!vars
<1>35. CASE SelfPause
  BY <1>35 DEF SelfPause, SndAt, Alive, Mode, IInv, TypeOK, LifeInv, PauseInv, TeardownPcs, PB!vars
<1>36. CASE Exit
  BY <1>36 DEF Exit, SndAt, Alive, Mode, IInv, TypeOK, LifeInv, PauseInv, TeardownPcs, PB!vars
<1>37. CASE SndTermBarrier
  BY <1>37 DEF SndTermBarrier, SndAt, Arrive, Alive, Mode, IInv, TypeOK, LifeInv, PauseInv, TeardownPcs, PB!vars
<1>38. CASE Interrupted
  BY <1>38 DEF Interrupted, Alive, Mode, IInv, TypeOK, LifeInv, PauseInv, TeardownPcs, Rendezvous, Parked, PB!vars, PB!Next, PB!Become, PB!Die
<1>39. CASE RtcpEnds
  BY <1>39 DEF RtcpEnds, RtcpType, Alive, Mode, IInv, TypeOK, LifeInv, PauseInv, TeardownPcs, Rendezvous, Parked, PB!vars, PB!Next, PB!Become, PB!Die
<1>40. CASE UNCHANGED vars
  BY <1>40 DEF vars, PB!vars, Mode, Alive
<1> QED
  BY <1>1, <1>2, <1>3, <1>4, <1>5, <1>6, <1>7, <1>8, <1>9, <1>10, <1>11, <1>12, <1>13, <1>14, <1>15, <1>16, <1>17, <1>18, <1>19, <1>20, <1>21, <1>22, <1>23, <1>24, <1>25, <1>26, <1>27, <1>28, <1>29, <1>30, <1>31, <1>32, <1>33, <1>34, <1>35, <1>36, <1>37, <1>38, <1>39, <1>40 DEF Next, Ask, Control, SendThread

(* The session implements what Playback promises to the client.            *)
THEOREM Refinement == Spec => ImplementsPlayback
<1>1. Init => PB!Init
  BY InitIdle DEF Init, PB!Init, Mode, Alive
<1> QED BY <1>1, PlaybackStep, Invariance, PTL DEF Spec, ImplementsPlayback, PB!Spec

(* No frame is sent between the answer to PAUSE and the next PLAY:         *)
(* Playback sends in its active mode only.                                 *)
THEOREM PausedIsSilent == Spec => NoPacketWhilePaused
<1>1. IInv /\ [Next]_vars => (hist.acked => hist'.beat = hist.beat)
  <2> SUFFICES ASSUME IInv, [Next]_vars, hist.acked PROVE hist'.beat = hist.beat
    OBVIOUS
  <2>1. [PB!Next]_(PB!vars) BY PlaybackStep
  <2>2. Mode # "active" BY DEF Mode, IInv, LifeInv
  <2> QED BY <2>1, <2>2 DEF PB!Next, PB!vars, PB!Packet, PB!Become, PB!Start, PB!Hush,
                            PB!Resume, PB!Close, PB!Die
<1> QED BY <1>1, Invariance, PTL DEF Spec, NoPacketWhilePaused

-----------------------------------------------------------------------------
(***************************************************************************)
(* The clocks. A clock is always at one of four things (ClockInv), and     *)
(* whichever it is at, the RTP time of a place does not depend on the      *)
(* moment it is computed for. Every handler moves a clock at the time of   *)
(* its request without changing what the clock says of that time, so an    *)
(* announcement stays true. Tracks that were set going together are        *)
(* compared at the time of the request in hand (StepInv): the loops reach  *)
(* them one after another, and all are moved at that same time.            *)
(***************************************************************************)
(* The speeds there are, for which 2 is a whole multiple.                  *)
Speeds == {1, 2, -1, -2}

(* Timeline::Segment, MultiSegment and Medium, in numbers that may be      *)
(* negative.                                                               *)
Segments == [start : Int, stop : Int, speed : Int]

MultiSegments == [current : Segments, speed : Int, tot : Int]

Clocks == [life : Segments, pause : MultiSegments, play : MultiSegments, relative : Int]

Times == {t \in Int : t < Huge}

(* A segment that has a start and no end, and one that has neither.        *)
Runs(m, spd) == m.current.start < Huge /\ m.current.stop = Huge /\ m.current.speed = spd

Stands(m) == m.current = NoSegment

(* The life of a medium that was started and not stopped.                  *)
Lives(c) == c.life.start < Huge /\ c.life.stop = Huge /\ c.life.speed = 1

(* What a clock may be at: it plays, it is paused, it was never started,   *)
(* or it was stopped.                                                      *)
Playing(c) ==
  /\ c \in Clocks /\ Lives(c)
  /\ c.play.speed \in Speeds /\ Runs(c.play, c.play.speed) /\ Stands(c.pause)

Pausing(c) ==
  /\ c \in Clocks /\ Lives(c)
  /\ c.play.speed \in Speeds /\ Runs(c.pause, 1) /\ Stands(c.play)

Fresh(c) ==
  /\ c \in Clocks /\ c.life = NoSegment
  /\ c.play.speed \in Speeds /\ Stands(c.play) /\ Stands(c.pause)

Torn(c, t) ==
  /\ c \in Clocks /\ c.life.start < Huge /\ c.life.stop < Huge /\ c.life.stop <= t
  /\ c.life.speed = 1 /\ c.play.speed \in Speeds /\ Stands(c.play) /\ Stands(c.pause)

-----------------------------------------------------------------------------
(* The least of two numbers.                                               *)
LEMMA MinOfTwo ==
  ASSUME NEW a \in Int, NEW b \in Int
  PROVE  Min({a, b}) = IF a <= b THEN a ELSE b
<1>1. CASE a <= b
  <2>1. a \in {a, b} /\ \A y \in {a, b} : a <= y
        BY <1>1
  <2>2. \A x \in {a, b} : (\A y \in {a, b} : x <= y) => x = a
        BY <1>1
  <2>. QED
    BY <1>1, <2>1, <2>2 DEF Min
<1>2. CASE ~(a <= b)
  <2>1. b \in {a, b} /\ \A y \in {a, b} : b <= y
        BY <1>2
  <2>2. \A x \in {a, b} : (\A y \in {a, b} : x <= y) => x = b
        BY <1>2
  <2>. QED
    BY <1>2, <2>1, <2>2 DEF Min
<1>. QED
  BY <1>1, <1>2

(* The greatest of two numbers.                                            *)
LEMMA MaxOfTwo ==
  ASSUME NEW a \in Int, NEW b \in Int
  PROVE  Max({a, b}) = IF a <= b THEN b ELSE a
<1>1. CASE a <= b
  <2>1. b \in {a, b} /\ \A y \in {a, b} : b >= y
        BY <1>1
  <2>2. \A x \in {a, b} : (\A y \in {a, b} : x >= y) => x = b
        BY <1>1
  <2>. QED
    BY <1>1, <2>1, <2>2 DEF Max
<1>2. CASE ~(a <= b)
  <2>1. a \in {a, b} /\ \A y \in {a, b} : a >= y
        BY <1>2
  <2>2. \A x \in {a, b} : (\A y \in {a, b} : x >= y) => x = a
        BY <1>2
  <2>. QED
    BY <1>2, <2>1, <2>2 DEF Max
<1>. QED
  BY <1>1, <1>2

(* A segment that runs counts from its start, at its speed.                *)
LEMMA RunsFor ==
  ASSUME NEW m \in MultiSegments, NEW spd \in Int, Runs(m, spd), NEW t \in Times
  PROVE  isRunning(m) /\ getElapsed(m, t) = m.tot + (t - m.current.start) * spd
<1>1. m.current.stop \in Int /\ m.current.start \in Int /\ m.tot \in Int /\ t \in Int /\ t < Huge
      BY DEF MultiSegments, Segments, Times
<1>2. isRunning(m)
      BY DEF Runs, isRunning, segmentRuns
<1>3. Min({m.current.stop, t}) = t
      BY <1>1, MinOfTwo DEF Runs
<1>4. segmentElapsed(m.current, t) = (t - m.current.start) * spd
      BY <1>3 DEF segmentElapsed, Runs
<1>. QED
  BY <1>2, <1>4 DEF getElapsed

(* A clock's segment that does not run adds nothing, and to stop it        *)
(* changes nothing.                                                        *)
LEMMA StandsStill ==
  ASSUME NEW m, Stands(m)
  PROVE  ~isRunning(m) /\ \A t : getElapsed(m, t) = m.tot + 0 /\ stop(m, t) = m
<1>1. ~isRunning(m)
      BY HugeAssumption DEF Stands, isRunning, segmentRuns, NoSegment
<1>. QED
  BY <1>1 DEF getElapsed, stop

(* A segment that is stopped is in the total.                              *)
LEMMA StopsAt ==
  ASSUME NEW m \in MultiSegments, NEW spd \in Int, Runs(m, spd), NEW t \in Times
  PROVE  /\ stop(m, t) \in MultiSegments /\ Stands(stop(m, t)) /\ stop(m, t).speed = m.speed
         /\ stop(m, t).tot = getElapsed(m, t)
<1>1. isRunning(m) /\ getElapsed(m, t) = m.tot + (t - m.current.start) * spd
      BY RunsFor
<1>2. m.tot \in Int /\ m.current.start \in Int /\ t \in Int
      BY DEF MultiSegments, Segments, Times
<1>3. getElapsed(m, t) \in Int
      BY <1>1, <1>2
<1>4. stop(m, t) = [m EXCEPT !.current = NoSegment, !.tot = getElapsed(m, t)]
      BY <1>1 DEF stop
<1>5. NoSegment \in Segments
      BY HugeAssumption DEF NoSegment, Segments
<1>. QED
  BY <1>3, <1>4, <1>5 DEF MultiSegments, Stands

(* What is started runs from there.                                        *)
LEMMA StartsAt ==
  ASSUME NEW m \in MultiSegments, Stands(m), NEW t \in Times, NEW spd \in Int, NEW n
  PROVE  /\ nextSegment(m, t, spd, n) \in MultiSegments
         /\ Runs(nextSegment(m, t, spd, n), spd)
         /\ nextSegment(m, t, spd, n).speed = spd
         /\ getElapsed(nextSegment(m, t, spd, n), t) = m.tot
<1> DEFINE x == nextSegment(m, t, spd, n)
<1>1. stop(m, n) = m
      BY StandsStill
<1>2. x = [m EXCEPT !.speed = spd, !.current = SegmentFrom(t, spd)]
      BY <1>1 DEF nextSegment
<1>3. SegmentFrom(t, spd) \in Segments /\ t \in Int /\ t < Huge
      BY HugeAssumption DEF SegmentFrom, Segments, Times
<1>4. x \in MultiSegments /\ x.speed = spd /\ x.current = SegmentFrom(t, spd) /\ x.tot = m.tot
      BY <1>2, <1>3 DEF MultiSegments
<1>5. Runs(x, spd) /\ x.current.start = t
      BY <1>3, <1>4 DEF Runs, SegmentFrom
<1> HIDE DEF x
<1>6. getElapsed(x, t) = x.tot + (t - x.current.start) * spd
      BY <1>4, <1>5, RunsFor
<1>7. x.tot \in Int
      BY <1>4 DEF MultiSegments
<1>8. getElapsed(x, t) = m.tot
      BY <1>3, <1>4, <1>5, <1>6, <1>7
<1>. QED
  BY <1>4, <1>5, <1>8 DEF x

-----------------------------------------------------------------------------
(* The units are such that every speed divides them.                       *)
LEMMA HalvesOf ==
  ASSUME NEW spd \in Speeds
  PROVE  Halves(spd) \in Int /\ spd \in Int /\ spd * Halves(spd) = 2
<1>1. CASE spd = 1
      BY <1>1 DEF Halves
<1>2. CASE spd = 2
      BY <1>2 DEF Halves
<1>3. CASE spd = -1
      BY <1>3 DEF Halves
<1>4. CASE spd = -2
      BY <1>4 DEF Halves
<1>. QED
  BY <1>1, <1>2, <1>3, <1>4 DEF Speeds

(* How long a clock that is not stopped has lived.                         *)
LEMMA LifeOf ==
  ASSUME NEW c \in Clocks, Lives(c), NEW t \in Times
  PROVE  segmentElapsed(c.life, t) = t - c.life.start
<1>1. c.life.start \in Int /\ c.life.stop \in Int /\ t \in Int /\ t < Huge
      BY DEF Clocks, Segments, Times
<1>2. Min({c.life.stop, t}) = t
      BY <1>1, MinOfTwo DEF Lives
<1>. QED
  BY <1>1, <1>2 DEF segmentElapsed, Lives

(* Presentation time of a clock that plays, and of one that does not.      *)
LEMMA PresentationPlaying ==
  ASSUME NEW c, Playing(c), NEW a \in Times, NEW b \in Times
  PROVE  /\ getPresentationTime(c, a) \in Int /\ isRunning(c.play)
         /\ getPresentationTime(c, b) = getPresentationTime(c, a) + (b - a) * c.play.speed
<1> DEFINE s == c.play.current.start
           v == c.play.speed
<1>1. c.play \in MultiSegments /\ v \in Int /\ Runs(c.play, v) /\ c.relative \in Int
      /\ c.play.tot \in Int /\ s \in Int /\ a \in Int /\ b \in Int
      BY HalvesOf DEF Playing, Clocks, MultiSegments, Segments, Times
<1>2. isRunning(c.play) /\ getElapsed(c.play, a) = c.play.tot + (a - s) * v
      /\ getElapsed(c.play, b) = c.play.tot + (b - s) * v
      BY <1>1, RunsFor
<1>3. getPresentationTime(c, a) = c.play.tot + (a - s) * v + c.relative
      /\ getPresentationTime(c, b) = c.play.tot + (b - s) * v + c.relative
      BY <1>2 DEF getPresentationTime
<1>4. (b - s) * v = (a - s) * v + (b - a) * v
      BY <1>1
<1>. QED
  BY <1>1, <1>2, <1>3, <1>4

(* A clock that does not play shows the same at all moments.               *)
LEMMA PresentationStanding ==
  ASSUME NEW c, c \in Clocks, Stands(c.play), NEW a, NEW b
  PROVE  /\ getPresentationTime(c, a) \in Int /\ ~isRunning(c.play)
         /\ getPresentationTime(c, b) = getPresentationTime(c, a)
         /\ getPresentationTime(c, a) = c.play.tot + c.relative
<1>1. c.play.tot \in Int /\ c.relative \in Int
      BY DEF Clocks, MultiSegments
<1>2. ~isRunning(c.play) /\ getElapsed(c.play, a) = c.play.tot + 0 /\ getElapsed(c.play, b) = c.play.tot + 0
      BY StandsStill
<1>. QED
  BY <1>1, <1>2 DEF getPresentationTime

(* The RTP time of a place is the same at all times.                       *)
LEMMA SteadyPlaying ==
  ASSUME NEW c, Playing(c), NEW pt \in Int, NEW a \in Times, NEW b \in Times
  PROVE  PlayRTPtime(c, pt, a) = PlayRTPtime(c, pt, b) /\ PlayRTPtime(c, pt, a) \in Int
<1> DEFINE v == c.play.speed
           h == Halves(v)
           p == getPresentationTime(c, a)
           l == c.life.start
           z == c.pause.tot
<1>1. v \in Speeds /\ v \in Int /\ h \in Int /\ v * h = 2 /\ l \in Int /\ z \in Int /\ a \in Int /\ b \in Int
      BY HalvesOf DEF Playing, Clocks, MultiSegments, Segments, Times
<1>2. p \in Int /\ getPresentationTime(c, b) = p + (b - a) * v
      BY PresentationPlaying
<1>3. /\ getPlayTime(c, a) = (a - l) - (z + 0)
      /\ getPlayTime(c, b) = (b - l) - (z + 0)
      BY LifeOf, StandsStill DEF getPlayTime, Playing
<1>4. /\ PlayRTPtime(c, pt, a) = 2 * ((a - l) - (z + 0)) + (pt - p) * h
      /\ PlayRTPtime(c, pt, b) = 2 * ((b - l) - (z + 0)) + (pt - (p + (b - a) * v)) * h
      BY <1>2, <1>3 DEF PlayRTPtime
<1> HIDE DEF v, h, p, l, z
<1>5. (pt - (p + (b - a) * v)) * h = (pt - p) * h - (b - a) * (v * h)
      BY <1>1, <1>2
<1>6. (pt - (p + (b - a) * v)) * h = (pt - p) * h - (b - a) * 2
      BY <1>1, <1>5
<1>7. (pt - p) * h \in Int
      BY <1>1, <1>2
<1>. QED
  BY <1>1, <1>4, <1>6, <1>7

(* What the stay of a paused clock adds, its life has as well.             *)
LEMMA SteadyPausing ==
  ASSUME NEW c, Pausing(c), NEW pt \in Int, NEW a \in Times, NEW b \in Times
  PROVE  PlayRTPtime(c, pt, a) = PlayRTPtime(c, pt, b) /\ PlayRTPtime(c, pt, a) \in Int
<1> DEFINE h == Halves(c.play.speed)
           p == getPresentationTime(c, a)
           l == c.life.start
           s == c.pause.current.start
           z == c.pause.tot
<1>1. h \in Int /\ l \in Int /\ z \in Int /\ s \in Int /\ a \in Int /\ b \in Int
      BY HalvesOf DEF Pausing, Clocks, MultiSegments, Segments, Times
<1>2. p \in Int /\ getPresentationTime(c, b) = p
      BY PresentationStanding DEF Pausing
<1>3. c.pause \in MultiSegments /\ Runs(c.pause, 1) /\ c \in Clocks /\ Lives(c)
      BY DEF Pausing, Clocks
<1>4. /\ getPlayTime(c, a) = (a - l) - (z + (a - s) * 1)
      /\ getPlayTime(c, b) = (b - l) - (z + (b - s) * 1)
      BY <1>3, LifeOf, RunsFor DEF getPlayTime
<1>5. /\ PlayRTPtime(c, pt, a) = 2 * ((a - l) - (z + (a - s) * 1)) + (pt - p) * h
      /\ PlayRTPtime(c, pt, b) = 2 * ((b - l) - (z + (b - s) * 1)) + (pt - p) * h
      BY <1>2, <1>4 DEF PlayRTPtime
<1> HIDE DEF h, p, l, s, z
<1>6. (pt - p) * h \in Int
      BY <1>1, <1>2
<1>. QED
  BY <1>1, <1>5, <1>6

(* A clock that was never started has no life to count.                    *)
LEMMA SteadyFresh ==
  ASSUME NEW c, Fresh(c), NEW pt \in Int, NEW a \in Times, NEW b \in Times
  PROVE  PlayRTPtime(c, pt, a) = PlayRTPtime(c, pt, b) /\ PlayRTPtime(c, pt, a) \in Int
<1> DEFINE h == Halves(c.play.speed)
           p == getPresentationTime(c, a)
           z == c.pause.tot
<1>1. h \in Int /\ z \in Int
      BY HalvesOf DEF Fresh, Clocks, MultiSegments
<1>2. p \in Int /\ getPresentationTime(c, b) = p
      BY PresentationStanding DEF Fresh
<1>3. segmentElapsed(c.life, a) = 0 /\ segmentElapsed(c.life, b) = 0
      BY HugeAssumption DEF Fresh, segmentElapsed, NoSegment
<1>4. getPlayTime(c, a) = 0 - (z + 0) /\ getPlayTime(c, b) = 0 - (z + 0)
      BY <1>3, StandsStill DEF getPlayTime, Fresh
<1>5. /\ PlayRTPtime(c, pt, a) = 2 * (0 - (z + 0)) + (pt - p) * h
      /\ PlayRTPtime(c, pt, b) = 2 * (0 - (z + 0)) + (pt - p) * h
      BY <1>2, <1>4 DEF PlayRTPtime
<1> HIDE DEF h, p, z
<1>6. (pt - p) * h \in Int
      BY <1>1, <1>2
<1>. QED
  BY <1>1, <1>5, <1>6

(* A clock that was stopped lives no longer.                               *)
LEMMA LifeOfTorn ==
  ASSUME NEW c, NEW n \in Times, Torn(c, n), NEW t \in Times, n <= t
  PROVE  segmentElapsed(c.life, t) = c.life.stop - c.life.start
<1>1. c.life.start \in Int /\ c.life.stop \in Int /\ t \in Int /\ n \in Int /\ c.life.stop <= t
      BY DEF Torn, Clocks, Segments, Times
<1>2. Min({c.life.stop, t}) = c.life.stop
      BY <1>1, MinOfTwo
<1>. QED
  BY <1>1, <1>2 DEF segmentElapsed, Torn

(* Nor does what it announces change.                                      *)
LEMMA SteadyTorn ==
  ASSUME NEW c, NEW n \in Times, Torn(c, n), NEW pt \in Int,
         NEW a \in Times, NEW b \in Times, n <= a, n <= b
  PROVE  PlayRTPtime(c, pt, a) = PlayRTPtime(c, pt, b) /\ PlayRTPtime(c, pt, a) \in Int
<1> DEFINE h == Halves(c.play.speed)
           p == getPresentationTime(c, a)
           z == c.pause.tot
           l == c.life.stop - c.life.start
<1>1. h \in Int /\ z \in Int /\ l \in Int
      BY HalvesOf DEF Torn, Clocks, MultiSegments, Segments
<1>2. p \in Int /\ getPresentationTime(c, b) = p
      BY PresentationStanding DEF Torn
<1>3. segmentElapsed(c.life, a) = l /\ segmentElapsed(c.life, b) = l
      BY LifeOfTorn
<1>4. getPlayTime(c, a) = l - (z + 0) /\ getPlayTime(c, b) = l - (z + 0)
      BY <1>3, StandsStill DEF getPlayTime, Torn
<1>5. /\ PlayRTPtime(c, pt, a) = 2 * (l - (z + 0)) + (pt - p) * h
      /\ PlayRTPtime(c, pt, b) = 2 * (l - (z + 0)) + (pt - p) * h
      BY <1>2, <1>4 DEF PlayRTPtime
<1> HIDE DEF h, p, l, z
<1>6. (pt - p) * h \in Int
      BY <1>1, <1>2
<1>. QED
  BY <1>1, <1>5, <1>6

-----------------------------------------------------------------------------
(* Clocks whose play and pause times are the same at a moment show the     *)
(* same then.                                                              *)
LEMMA SameThen ==
  ASSUME NEW c, NEW d, NEW t,
         d.relative = c.relative, d.play.speed = c.play.speed,
         getElapsed(d.play, t) = getElapsed(c.play, t),
         getElapsed(d.pause, t) = getElapsed(c.pause, t),
         segmentElapsed(d.life, t) = segmentElapsed(c.life, t)
  PROVE  /\ getPresentationTime(d, t) = getPresentationTime(c, t)
         /\ \A pt : PlayRTPtime(d, pt, t) = PlayRTPtime(c, pt, t)
BY DEF getPresentationTime, PlayRTPtime, getPlayTime

(* A clock that is paused at a moment says of that moment what it said.    *)
LEMMA PauseMoves ==
  ASSUME NEW c, Playing(c), NEW t \in Times
  PROVE  /\ Pausing(pauseClock(c, t)) /\ pauseClock(c, t).play.speed = c.play.speed
         /\ getPresentationTime(pauseClock(c, t), t) = getPresentationTime(c, t)
         /\ \A pt : PlayRTPtime(pauseClock(c, t), pt, t) = PlayRTPtime(c, pt, t)
<1> DEFINE d == pauseClock(c, t)
           v == c.play.speed
<1>1. c \in Clocks /\ c.play \in MultiSegments /\ c.pause \in MultiSegments /\ v \in Int
      /\ Runs(c.play, v) /\ Stands(c.pause) /\ Lives(c) /\ v \in Speeds
      BY HalvesOf DEF Playing, Clocks
<1>2. d = [c EXCEPT !.play = stop(c.play, t), !.pause = nextSegment(c.pause, t, 1, now)]
      BY <1>1, RunsFor DEF pauseClock
<1>3. /\ stop(c.play, t) \in MultiSegments /\ Stands(stop(c.play, t))
      /\ stop(c.play, t).speed = v /\ stop(c.play, t).tot = getElapsed(c.play, t)
      BY <1>1, StopsAt
<1>4. /\ nextSegment(c.pause, t, 1, now) \in MultiSegments
      /\ Runs(nextSegment(c.pause, t, 1, now), 1)
      /\ getElapsed(nextSegment(c.pause, t, 1, now), t) = c.pause.tot
      BY <1>1, StartsAt
<1>5. /\ d \in Clocks /\ d.life = c.life /\ d.relative = c.relative
      /\ d.play = stop(c.play, t) /\ d.pause = nextSegment(c.pause, t, 1, now)
      BY <1>1, <1>2, <1>3, <1>4 DEF Clocks
<1> HIDE DEF d
<1>6. Pausing(d) /\ d.play.speed = v
      BY <1>1, <1>3, <1>4, <1>5 DEF Pausing, Lives
<1>7. getElapsed(c.play, t) \in Int /\ c.pause.tot \in Int
  <2>1. c.play.tot \in Int /\ c.play.current.start \in Int /\ c.pause.tot \in Int /\ t \in Int
        BY <1>1 DEF MultiSegments, Segments, Times
  <2>2. getElapsed(c.play, t) = c.play.tot + (t - c.play.current.start) * v
        BY <1>1, RunsFor
  <2>. QED
    BY <1>1, <2>1, <2>2
<1>8. getElapsed(d.play, t) = getElapsed(c.play, t)
  <2>1. getElapsed(d.play, t) = d.play.tot + 0
        BY <1>3, <1>5, StandsStill
  <2>. QED
    BY <1>3, <1>5, <1>7, <2>1
<1>9. getElapsed(d.pause, t) = getElapsed(c.pause, t)
  <2>1. getElapsed(c.pause, t) = c.pause.tot + 0
        BY <1>1, StandsStill
  <2>. QED
    BY <1>4, <1>5, <1>7, <2>1
<1>10. /\ getPresentationTime(d, t) = getPresentationTime(c, t)
       /\ \A pt : PlayRTPtime(d, pt, t) = PlayRTPtime(c, pt, t)
       BY <1>5, <1>6, <1>8, <1>9, SameThen
<1>. QED
  BY <1>6, <1>10 DEF d

(* So does one that is resumed, at the speed it had.                       *)
LEMMA UnpauseMoves ==
  ASSUME NEW c, Pausing(c), NEW t \in Times
  PROVE  /\ Playing(unpauseClock(c, t, c.play.speed))
         /\ unpauseClock(c, t, c.play.speed).play.speed = c.play.speed
         /\ getPresentationTime(unpauseClock(c, t, c.play.speed), t) = getPresentationTime(c, t)
         /\ \A pt : PlayRTPtime(unpauseClock(c, t, c.play.speed), pt, t) = PlayRTPtime(c, pt, t)
<1> DEFINE v == c.play.speed
           d == unpauseClock(c, t, v)
<1>1. c \in Clocks /\ c.play \in MultiSegments /\ c.pause \in MultiSegments /\ v \in Int
      /\ Runs(c.pause, 1) /\ Stands(c.play) /\ Lives(c) /\ v \in Speeds
      BY HalvesOf DEF Pausing, Clocks
<1>2. isRunning(c.pause) /\ segmentRuns(c.life)
      BY <1>1, RunsFor DEF Lives, segmentRuns
<1>3. d = [c EXCEPT !.pause = stop(c.pause, t), !.play = nextSegment(c.play, t, v, now)]
      BY <1>2 DEF unpauseClock
<1>4. /\ stop(c.pause, t) \in MultiSegments /\ Stands(stop(c.pause, t))
      /\ stop(c.pause, t).tot = getElapsed(c.pause, t)
      BY <1>1, StopsAt
<1>5. /\ nextSegment(c.play, t, v, now) \in MultiSegments
      /\ Runs(nextSegment(c.play, t, v, now), v)
      /\ nextSegment(c.play, t, v, now).speed = v
      /\ getElapsed(nextSegment(c.play, t, v, now), t) = c.play.tot
      BY <1>1, StartsAt
<1>6. /\ d \in Clocks /\ d.life = c.life /\ d.relative = c.relative
      /\ d.pause = stop(c.pause, t) /\ d.play = nextSegment(c.play, t, v, now)
      BY <1>1, <1>3, <1>4, <1>5 DEF Clocks
<1> HIDE DEF d
<1>7. Playing(d) /\ d.play.speed = v
      BY <1>1, <1>4, <1>5, <1>6 DEF Playing, Lives
<1>8. getElapsed(c.pause, t) \in Int /\ c.play.tot \in Int
  <2>1. c.pause.tot \in Int /\ c.pause.current.start \in Int /\ c.play.tot \in Int /\ t \in Int
        BY <1>1 DEF MultiSegments, Segments, Times
  <2>2. getElapsed(c.pause, t) = c.pause.tot + (t - c.pause.current.start) * 1
        BY <1>1, RunsFor
  <2>. QED
    BY <2>1, <2>2
<1>9. getElapsed(d.pause, t) = getElapsed(c.pause, t)
  <2>1. getElapsed(d.pause, t) = d.pause.tot + 0
        BY <1>4, <1>6, StandsStill
  <2>. QED
    BY <1>4, <1>6, <1>8, <2>1
<1>10. getElapsed(d.play, t) = getElapsed(c.play, t)
  <2>1. getElapsed(c.play, t) = c.play.tot + 0
        BY <1>1, StandsStill
  <2>. QED
    BY <1>5, <1>6, <1>8, <2>1
<1>11. /\ getPresentationTime(d, t) = getPresentationTime(c, t)
       /\ \A pt : PlayRTPtime(d, pt, t) = PlayRTPtime(c, pt, t)
       BY <1>6, <1>7, <1>9, <1>10, SameThen
<1>. QED
  BY <1>7, <1>11 DEF d

(* So does one that is stopped.                                            *)
LEMMA StopMoves ==
  ASSUME NEW c, Playing(c) \/ Pausing(c), NEW t \in Times
  PROVE  /\ Torn(stopClock(c, t), t)
         /\ \A pt : PlayRTPtime(stopClock(c, t), pt, t) = PlayRTPtime(c, pt, t)
<1> DEFINE d == stopClock(c, t)
<1>1. /\ c \in Clocks /\ c.play \in MultiSegments /\ c.pause \in MultiSegments /\ c.life \in Segments
      /\ Lives(c) /\ c.play.speed \in Speeds /\ c.play.speed \in Int
      BY HalvesOf DEF Playing, Pausing, Clocks
<1>2. \A m \in {c.play, c.pause} :
        /\ stop(m, t) \in MultiSegments /\ Stands(stop(m, t)) /\ stop(m, t).speed = m.speed
        /\ getElapsed(stop(m, t), t) = getElapsed(m, t)
  <2> SUFFICES ASSUME NEW m \in {c.play, c.pause}
               PROVE  /\ stop(m, t) \in MultiSegments /\ Stands(stop(m, t)) /\ stop(m, t).speed = m.speed
                      /\ getElapsed(stop(m, t), t) = getElapsed(m, t)
      OBVIOUS
  <2>1. CASE Stands(m)
    <3>1. stop(m, t) = m
          BY <2>1, StandsStill
    <3>. QED
      BY <1>1, <2>1, <3>1
  <2>2. ASSUME NEW v \in Int, Runs(m, v)
        PROVE  /\ stop(m, t) \in MultiSegments /\ Stands(stop(m, t)) /\ stop(m, t).speed = m.speed
               /\ getElapsed(stop(m, t), t) = getElapsed(m, t)
    <3>1. /\ stop(m, t) \in MultiSegments /\ Stands(stop(m, t)) /\ stop(m, t).speed = m.speed
          /\ stop(m, t).tot = getElapsed(m, t)
          BY <1>1, <2>2, StopsAt
    <3>2. getElapsed(stop(m, t), t) = stop(m, t).tot + 0
          BY <3>1, StandsStill
    <3>3. stop(m, t).tot \in Int
          BY <3>1 DEF MultiSegments
    <3>. QED
      BY <3>1, <3>2, <3>3
  <2>3. Stands(m) \/ Runs(m, 1) \/ Runs(m, c.play.speed)
        BY DEF Playing, Pausing
  <2>. QED
    BY <1>1, <2>1, <2>2, <2>3
<1>3. t \in Int /\ t < Huge /\ Huge \in Int /\ c.life.start \in Int
      BY <1>1, HugeAssumption DEF Times, Segments
<1>4. stopSegment(c.life, t) = [c.life EXCEPT !.stop = t]
      BY <1>1 DEF stopSegment, segmentRuns, Lives
<1>5. /\ stopSegment(c.life, t) \in Segments /\ stopSegment(c.life, t).stop = t
      /\ stopSegment(c.life, t).start = c.life.start /\ stopSegment(c.life, t).speed = 1
      BY <1>1, <1>3, <1>4 DEF Segments, Lives
<1>6. d = [c EXCEPT !.play = stop(c.play, t), !.pause = stop(c.pause, t), !.life = stopSegment(c.life, t)]
      BY DEF stopClock
<1>7. /\ d \in Clocks /\ d.relative = c.relative /\ d.life = stopSegment(c.life, t)
      /\ d.play = stop(c.play, t) /\ d.pause = stop(c.pause, t)
      BY <1>1, <1>2, <1>5, <1>6 DEF Clocks
<1> HIDE DEF d
<1>8. Torn(d, t) /\ d.play.speed = c.play.speed
      BY <1>1, <1>2, <1>3, <1>5, <1>7 DEF Torn, Lives
<1>9. segmentElapsed(d.life, t) = segmentElapsed(c.life, t)
  <2>1. segmentElapsed(c.life, t) = t - c.life.start
        BY <1>1, LifeOf
  <2>2. t \in Times /\ t <= t
        BY <1>3
  <2>3. segmentElapsed(d.life, t) = d.life.stop - d.life.start
        BY <1>8, <2>2, LifeOfTorn
  <2>. QED
    BY <1>5, <1>7, <2>1, <2>3
<1>10. \A pt : PlayRTPtime(d, pt, t) = PlayRTPtime(c, pt, t)
       BY <1>2, <1>7, <1>8, <1>9, SameThen
<1>. QED
  BY <1>8, <1>10 DEF d

(* To stop a clock that does not live changes nothing.                     *)
LEMMA StoppedStays ==
  ASSUME NEW c, NEW t,
         Fresh(c) \/ \E n \in Times : Torn(c, n)
  PROVE  stopClock(c, t) = c
<1>1. c \in Clocks /\ Stands(c.play) /\ Stands(c.pause)
      BY DEF Fresh, Torn
<1>2. stop(c.play, t) = c.play /\ stop(c.pause, t) = c.pause
      BY <1>1, StandsStill
<1>3. ~segmentRuns(c.life)
      BY HugeAssumption DEF Fresh, Torn, segmentRuns, NoSegment
<1>4. stopSegment(c.life, t) = c.life
      BY <1>3 DEF stopSegment
<1>5. stopClock(c, t) = [c EXCEPT !.play = c.play, !.pause = c.pause, !.life = c.life]
      BY <1>2, <1>4 DEF stopClock
<1>. QED
  BY <1>1, <1>5 DEF Clocks

(* After a seek the clock plays from the place sought, at the time of the  *)
(* request, unless it was playing and that time is over.                   *)
LEMMA SeekMoves ==
  ASSUME NEW c, Playing(c) \/ Pausing(c) \/ Fresh(c), NEW t \in Times, now \in Times,
         NEW pt \in Int, NEW spd \in Speeds
  PROVE  /\ Playing(seekClock(c, t, pt, spd)) /\ seekClock(c, t, pt, spd).play.speed = spd
         /\ ~isRunning(c.play) \/ now = t => getPresentationTime(seekClock(c, t, pt, spd), t) = pt
<1> DEFINE d == seekClock(c, t, pt, spd)
           old == stop(c.play, now)
           new == nextSegment(c.play, t, spd, now)
           was == getPresentationTime(c, t)
<1>1. /\ c \in Clocks /\ c.play \in MultiSegments /\ c.pause \in MultiSegments /\ c.life \in Segments
      /\ c.play.speed \in Speeds /\ c.play.speed \in Int /\ c.relative \in Int /\ spd \in Int
      /\ Lives(c) \/ Fresh(c)
      BY HalvesOf DEF Playing, Pausing, Fresh, Clocks
<1>2. old \in MultiSegments /\ Stands(old) /\ was \in Int
      /\ (~isRunning(c.play) \/ now = t => was = old.tot + c.relative)
  <2>1. CASE Playing(c)
    <3>1. Runs(c.play, c.play.speed)
          BY <2>1 DEF Playing
    <3>2. /\ old \in MultiSegments /\ Stands(old) /\ old.tot = getElapsed(c.play, now)
          BY <1>1, <3>1, StopsAt
    <3>3. was \in Int /\ isRunning(c.play)
          BY <2>1, PresentationPlaying
    <3>. QED
      BY <3>2, <3>3 DEF getPresentationTime
  <2>2. CASE Stands(c.play)
    <3>1. old = c.play
          BY <2>2, StandsStill
    <3>2. was = c.play.tot + c.relative /\ was \in Int
          BY <1>1, <2>2, PresentationStanding
    <3>. QED
      BY <1>1, <2>2, <3>1, <3>2
  <2>. QED
    BY <2>1, <2>2 DEF Pausing, Fresh
<1>3. old.tot \in Int /\ t \in Int /\ t < Huge
      BY <1>2 DEF MultiSegments, Times
<1>4. SegmentFrom(t, spd) \in Segments /\ SegmentFrom(t, 1) \in Segments
      BY <1>1, <1>3, HugeAssumption DEF SegmentFrom, Segments
<1>5. new = [old EXCEPT !.speed = spd, !.current = SegmentFrom(t, spd)]
      BY DEF nextSegment
<1>6. /\ new \in MultiSegments /\ new.speed = spd /\ new.current = SegmentFrom(t, spd) /\ new.tot = old.tot
      BY <1>1, <1>2, <1>4, <1>5 DEF MultiSegments
<1>7. Runs(new, spd) /\ new.current.start = t
      BY <1>3, <1>6 DEF Runs, SegmentFrom
<1>8. stop(c.pause, t) \in MultiSegments /\ Stands(stop(c.pause, t))
  <2>1. CASE Stands(c.pause)
        BY <1>1, <2>1, StandsStill
  <2>2. CASE Runs(c.pause, 1)
        BY <1>1, <2>2, StopsAt
  <2>. QED
    BY <2>1, <2>2 DEF Playing, Pausing, Fresh
<1> DEFINE life == IF segmentRuns(c.life) \/ isRunning(c.pause) THEN c.life ELSE SegmentFrom(t, 1)
<1>9. life \in Segments /\ life.start < Huge /\ life.stop = Huge /\ life.speed = 1
  <2>1. CASE Lives(c)
        BY <1>1, <2>1 DEF Lives, segmentRuns
  <2>2. CASE Fresh(c)
    <3>1. ~segmentRuns(c.life) /\ ~isRunning(c.pause)
          BY <2>2, HugeAssumption, StandsStill DEF Fresh, segmentRuns, NoSegment
    <3>2. life = SegmentFrom(t, 1)
          BY <3>1
    <3>. QED
      BY <1>3, <1>4, <3>2 DEF SegmentFrom
  <2>. QED
    BY <1>1, <2>1, <2>2
<1>10. d = [c EXCEPT !.relative = c.relative + pt - was, !.life = life,
                     !.pause = stop(c.pause, t), !.play = new]
       BY DEF seekClock
<1> HIDE DEF old, new, was, life
<1>11. c.relative + pt - was \in Int
       BY <1>1, <1>2
<1>12. /\ d \in Clocks /\ d.relative = c.relative + pt - was /\ d.life = life
       /\ d.pause = stop(c.pause, t) /\ d.play = new
       BY <1>1, <1>6, <1>8, <1>9, <1>10, <1>11 DEF Clocks
<1> HIDE DEF d
<1>13. Playing(d) /\ d.play.speed = spd
       BY <1>6, <1>7, <1>8, <1>9, <1>12 DEF Playing, Lives
<1>14. getPresentationTime(d, t) = old.tot + (c.relative + pt - was)
  <2>1. getElapsed(d.play, t) = new.tot + (t - t) * spd
        BY <1>1, <1>6, <1>7, <1>12, RunsFor
  <2>. QED
    BY <1>1, <1>3, <1>6, <1>12, <2>1 DEF getPresentationTime
<1>15. ~isRunning(c.play) \/ now = t => getPresentationTime(d, t) = pt
       BY <1>1, <1>2, <1>3, <1>14
<1>. QED
  BY <1>13, <1>15 DEF d

(* A clock that has nothing undecided after n.                             *)
Settled(c, n) == Playing(c) \/ Pausing(c) \/ Fresh(c) \/ Torn(c, n)

(* Whatever a clock is at, the RTP time of a place is the same at all      *)
(* moments to come.                                                        *)
LEMMA Steady ==
  ASSUME NEW c, NEW n \in Times, Settled(c, n), NEW pt \in Int,
         NEW a \in Times, NEW b \in Times, n <= a, n <= b
  PROVE  PlayRTPtime(c, pt, a) = PlayRTPtime(c, pt, b) /\ PlayRTPtime(c, pt, a) \in Int
BY SteadyPlaying, SteadyPausing, SteadyFresh, SteadyTorn DEF Settled

-----------------------------------------------------------------------------
(* What the requests are made of.                                          *)
Requests == [from : Int, to : Int, speed : Speeds \cup {Huge}, lead : BOOLEAN]

Places ==
  {"idle", "eval", "apply", "answer", "execute", "range", "report", "resume", "pause", "teardown",
   "closed"}

Asks ==
  [pc : Places, aim : Seq(Tracks), todo : Seq(Tracks), time : Int, asof : Int,
   play : Requests, rt : Requests, asks : Int]

(* signedMin and signedMax give numbers, and a bound where there is one.   *)
LEMMA SignedFacts ==
  ASSUME NEW a \in Int, NEW b \in Int, NEW sign
  PROVE  /\ signedMin(a, b, sign) \in Int /\ signedMax(a, b, sign) \in Int
         /\ a < Huge \/ b < Huge => signedMin(a, b, sign) < Huge
<1>1. Huge \in Int
      BY HugeAssumption
<1>2. Min({a, b}) = (IF a <= b THEN a ELSE b) /\ Max({a, b}) = (IF a <= b THEN b ELSE a)
      BY MinOfTwo, MaxOfTwo
<1>3. Min({a, b}) \in Int /\ Max({a, b}) \in Int
      BY <1>2
<1>4. signedMin(a, b, sign) \in Int /\ signedMax(a, b, sign) \in Int
      BY <1>3 DEF signedMin, signedMax
<1>5. ASSUME a < Huge \/ b < Huge PROVE signedMin(a, b, sign) < Huge
  <2>1. CASE a < Huge /\ b < Huge
        BY <1>1, <1>2, <2>1 DEF signedMin
  <2>2. CASE ~(a < Huge /\ b < Huge)
    <3>1. signedMin(a, b, sign) = Min({a, b})
          BY <2>2 DEF signedMin
    <3>. QED
      BY <1>1, <1>2, <1>5, <3>1
  <2>. QED
    BY <2>1, <2>2
<1>. QED
  BY <1>4, <1>5

(* merge keeps the speed that is asked and the beginning that is known.    *)
LEMMA MergeFacts ==
  ASSUME NEW rt \in Requests, NEW rq \in Requests
  PROVE  /\ merge(rt, rq) \in Requests /\ merge(rt, rq).speed = rq.speed
         /\ (rt.lead => rt.from < Huge) /\ rq.from < Huge => merge(rt, rq).from < Huge
<1>1. /\ rt.from \in Int /\ rq.from \in Int /\ rt.to \in Int /\ rq.to \in Int
      /\ rt.lead \in BOOLEAN /\ rq.lead \in BOOLEAN /\ rq.speed \in Speeds \cup {Huge}
      BY DEF Requests
<1>2. /\ signedMin(rt.from, rq.from, rq.speed) \in Int /\ signedMax(rt.to, rq.to, rq.speed) \in Int
      /\ rq.from < Huge => signedMin(rt.from, rq.from, rq.speed) < Huge
      BY <1>1, SignedFacts
<1>3. (rt.lead \/ rq.lead) \in BOOLEAN
      BY <1>1
<1>4. merge(rt, rq).from \in Int
      BY <1>1, <1>2 DEF merge
<1>5. merge(rt, rq) \in Requests
      BY <1>1, <1>2, <1>3, <1>4 DEF merge, Requests
<1>. QED
  BY <1>1, <1>2, <1>5 DEF merge

(* An element of a sequence.                                               *)
LEMMA ElementOf ==
  ASSUME NEW S, NEW s \in Seq(S), NEW i \in 1 .. Len(s)
  PROVE  s[i] \in S
OBVIOUS

(* A frame that a seek comes to has a time.                                *)
LEMMA FrameTimes ==
  ASSUME NEW m, m.frames \in Seq([time : 0 .. Huge - 1, key : BOOLEAN]), NEW it, NEW t
  PROVE  drySeek(m, it, t).frame.time \in 0 .. Huge - 1
<1> DEFINE InTime(r) == r.frame.time \in 0 .. Huge - 1
<1>1. \A i : InTime(OutOfBounds(i))
      BY HugeAssumption, TimeAssumption DEF OutOfBounds, NoFrame
<1>2. \A p, i : InTime(getFrame(m, p, i))
  <2> TAKE p, i
  <2>1. ASSUME p \in 0 .. Len(m.frames) - 1 PROVE m.frames[p + 1].time \in 0 .. Huge - 1
    <3>1. Len(m.frames) \in Nat /\ p + 1 \in 1 .. Len(m.frames)
          BY <2>1
    <3>2. m.frames[p + 1] \in [time : 0 .. Huge - 1, key : BOOLEAN]
          BY <3>1, ElementOf
    <3>. QED
      BY <3>2
  <2>. QED
    BY <1>1, <2>1 DEF getFrame, size, Got
<1> HIDE DEF InTime
<1>3. \A i, x : InTime(DefaultSeek(m, i, x))
      BY <1>1, <1>2, Zenon DEF DefaultSeek
<1>4. InTime(seek(m, it, t))
      BY <1>1, <1>3, Zenon DEF seek, LoopSeek
<1>5. InTime(drySeek(m, it, t))
  <2>1. InTime(Got(seek(m, it, t).frame, seekPos(m, seek(m, it, t).it, pos(m, it)).it))
        BY <1>4 DEF InTime, Got
  <2>. QED
    BY <1>1, <1>4, <2>1, Zenon DEF drySeek
<1>. QED
  BY <1>5 DEF InTime

(* So a track has a duration, and a place where it begins at either speed. *)
LEMMA MediaFacts ==
  ASSUME film \in DOMAIN Films, NEW t \in Tracks
  PROVE  /\ duration(Media[t]) \in Int
         /\ \A it, x : drySeek(Media[t], it, x).frame.time \in 0 .. Huge - 1
         /\ \A spd : Beginning(t, spd) \in Int /\ Beginning(t, spd) < Huge
<1>1. PICK m : m = Media[t]
      OBVIOUS
<1>2. m.duration \in Nat /\ m.times \in Nat /\ m.frames \in Seq([time : 0 .. Huge - 1, key : BOOLEAN])
      BY <1>1, MediaAssumption DEF Media
<1>3. m.duration * m.times \in Int
      BY <1>2
<1>4. duration(m) \in Int
      BY <1>2, <1>3, HugeAssumption DEF duration
<1>5. \A it, x : drySeek(m, it, x).frame.time \in 0 .. Huge - 1
      BY <1>2, FrameTimes
<1>6. 0 < Huge /\ 0 \in Int
      BY TimeAssumption, HugeAssumption
<1>7. \A spd : signedMin(0, duration(m), spd) \in Int /\ signedMin(0, duration(m), spd) < Huge
      BY <1>4, <1>6, SignedFacts
<1>. QED
  BY <1>1, <1>4, <1>5, <1>7 DEF Beginning


-----------------------------------------------------------------------------
(* The inductive invariant.                                                *)

(* The types of the rest of the state.                                     *)
Statuses == {"stopped", "paused", "playing"}

Announcements == [on : BOOLEAN, from : Int, rtp : Int]

TypeInv ==
  /\ film \in DOMAIN Films
  /\ now \in 0 .. MaxTime
  /\ clock \in [Tracks -> Clocks]
  /\ status \in [Tracks -> Statuses]
  /\ finish \in [Tracks -> Int]
  /\ said \in [Tracks -> Announcements]
  /\ step \in SUBSET Tracks
  /\ ask \in Asks

(* A request is in hand.                                                   *)
Busy == ask.pc \notin {"idle", "closed"}

(* No element comes twice.                                                 *)
Once(s) == \A i, j \in DOMAIN s : s[i] = s[j] => i = j

(* The request that is handled, and the tracks it has still to reach.      *)
Directed(a) ==
  /\ a.aim \in {Order} \cup {<<t>> : t \in Tracks}
  /\ a.todo # <<>> /\ Once(a.todo) /\ Range(a.todo) \subseteq Range(a.aim)

AskInv ==
  /\ ask.time <= now /\ 0 <= ask.time /\ ask.asof <= now /\ 0 <= ask.asof
  /\ Busy => Directed(ask)
  /\ ask.pc = "idle" => ask.aim = <<>>
  /\ ask.pc = "eval" => WholeAim /\ (ask.rt.lead => ask.rt.from < Huge)
  /\ ask.pc = "apply" /\ WholeAim => ask.rt.from < Huge /\ ask.rt.speed \in Speeds

(* Each track's clock is one of four kinds, and its status says which.     *)
ClockOf(t) ==
  \/ Fresh(clock[t]) /\ status[t] = "stopped"
  \/ (Playing(clock[t]) \/ Pausing(clock[t])) /\ status[t] # "stopped"
  \/ Torn(clock[t], now) /\ status[t] = "stopped" /\ ask.pc \in {"teardown", "closed"}

ClockInv == \A t \in Tracks : ClockOf(t)

(* What a track shows at the time of the request, or now.                  *)
At(t) == getPresentationTime(clock[t], IF ask.pc = "idle" THEN now ELSE ask.time)

(* A track's status says whether its clock runs.                           *)
Honest(t) == isRunning(clock[t].play) <=> status[t] = "playing"

(* The tracks that the request has still to reach.                         *)
Pending == Range(ask.todo)

(* The tracks in step show the same at the time of the request, and run or *)
(* stand together but for those the request has reached and those not yet. *)
StepInv ==
  /\ \A t \in step : status[t] # "stopped"
  /\ \A t, u \in step : clock[t].play.speed = clock[u].play.speed /\ At(t) = At(u)
  /\ ask.pc = "eval" => step = {}
  /\ ask.pc \in {"answer", "report"} => ask.todo = ask.aim
  /\ ~WholeAim => step \cap Range(ask.aim) = {}
  /\ ask.pc \in {"idle", "range", "report"} \/ ~WholeAim =>
       \A t, u \in step : Honest(t) /\ isRunning(clock[t].play) = isRunning(clock[u].play)
  /\ ask.pc \in {"apply", "answer", "execute"} /\ WholeAim =>
       \A t \in step : /\ isRunning(clock[t].play) /\ At(t) = ask.rt.from
                       /\ clock[t].play.speed = ask.rt.speed
  /\ ask.pc = "apply" => step \cap Pending = {}
  /\ ask.pc = "execute" /\ WholeAim => \A t \in step \ Pending : status[t] = "playing"
  /\ ask.pc \in {"resume", "pause"} /\ WholeAim =>
       /\ \A t \in step : Honest(t)
       /\ \A t, u \in step \cap Pending : isRunning(clock[t].play) = isRunning(clock[u].play)
       /\ \A t \in step \ Pending : isRunning(clock[t].play) <=> ask.pc = "resume"

(* Till the session is torn down.                                          *)
SyncInv == ask.pc \notin {"teardown", "closed"} => StepInv

-----------------------------------------------------------------------------
(* The loops over the tracks.                                              *)
LEMMA TailFacts ==
  ASSUME NEW S, NEW s \in Seq(S), s # <<>>, Once(s)
  PROVE  /\ Head(s) \in S /\ Head(s) \in Range(s)
         /\ Len(s) > 1 => /\ Tail(s) \in Seq(S) /\ Tail(s) # <<>> /\ Once(Tail(s))
                          /\ Range(Tail(s)) = Range(s) \ {Head(s)}
         /\ ~(Len(s) > 1) => Range(s) = {Head(s)}
<1>1. /\ Len(s) \in Nat \ {0} /\ DOMAIN s = 1 .. Len(s) /\ Head(s) = s[1] /\ s[1] \in S
      OBVIOUS
<1>2. Head(s) \in Range(s)
      BY <1>1 DEF Range
<1>3. ASSUME Len(s) > 1
      PROVE  /\ Tail(s) \in Seq(S) /\ Tail(s) # <<>> /\ Once(Tail(s))
             /\ Range(Tail(s)) = Range(s) \ {Head(s)}
  <2>1. /\ Tail(s) \in Seq(S) /\ Len(Tail(s)) = Len(s) - 1 /\ DOMAIN Tail(s) = 1 .. Len(s) - 1
        /\ \A i \in 1 .. Len(s) - 1 : Tail(s)[i] = s[i + 1]
        BY <1>1, <1>3
  <2>2. Tail(s) # <<>>
    <3>1. PICK r \in Seq(S) : r = Tail(s)
          BY <2>1
    <3>2. Len(r) > 0
          BY <1>1, <1>3, <2>1, <3>1
    <3>3. r # <<>>
          BY <3>2
    <3>. QED
      BY <3>1, <3>3
  <2>3. Once(Tail(s))
    <3> SUFFICES ASSUME NEW i \in 1 .. Len(s) - 1, NEW j \in 1 .. Len(s) - 1, Tail(s)[i] = Tail(s)[j]
                 PROVE  i = j
        BY <2>1 DEF Once
    <3>1. s[i + 1] = s[j + 1] /\ i + 1 \in DOMAIN s /\ j + 1 \in DOMAIN s
          BY <1>1, <2>1
    <3>2. i + 1 = j + 1
          BY <3>1 DEF Once
    <3>. QED
      BY <3>2
  <2>4. ASSUME NEW x \in Range(Tail(s)) PROVE x \in Range(s) \ {Head(s)}
    <3>1. PICK i \in 1 .. Len(s) - 1 : x = Tail(s)[i]
          BY <2>1, <2>4 DEF Range
    <3>2. x = s[i + 1] /\ i + 1 \in DOMAIN s /\ i + 1 # 1 /\ 1 \in DOMAIN s
          BY <1>1, <2>1, <3>1
    <3>. QED
      BY <1>1, <3>2 DEF Range, Once
  <2>5. ASSUME NEW x \in Range(s) \ {Head(s)} PROVE x \in Range(Tail(s))
    <3>1. PICK i \in 1 .. Len(s) : x = s[i]
          BY <1>1, <2>5 DEF Range
    <3>2. i # 1
          BY <1>1, <2>5, <3>1
    <3>3. i - 1 \in 1 .. Len(s) - 1 /\ (i - 1) + 1 = i
          BY <1>1, <3>2
    <3>4. x = Tail(s)[i - 1]
          BY <2>1, <3>1, <3>3
    <3>. QED
      BY <2>1, <3>3, <3>4 DEF Range
  <2>. QED
    BY <2>1, <2>2, <2>3, <2>4, <2>5
<1>4. ASSUME ~(Len(s) > 1) PROVE Range(s) = {Head(s)}
  <2>1. DOMAIN s = {1}
        BY <1>1, <1>4
  <2>. QED
    BY <1>1, <2>1 DEF Range
<1>. QED
  BY <1>1, <1>2, <1>3, <1>4

(* Each track is once in the order, and alone in the aim of its own.       *)
LEMMA OrderFacts ==
  /\ Order \in Seq(Tracks) /\ Order # <<>> /\ Once(Order) /\ Range(Order) = Tracks
  /\ \A t \in Tracks : /\ <<t>> \in Seq(Tracks) /\ <<t>> # <<>> /\ Once(<<t>>)
                       /\ Range(<<t>>) = {t} /\ Len(<<t>>) = 1
<1>1. Order \in Seq(Tracks) /\ Order # <<>> /\ Once(Order) /\ Range(Order) = Tracks
      BY OrderAssumption DEF Once, Tracks
<1>2. ASSUME NEW t \in Tracks
      PROVE  /\ <<t>> \in Seq(Tracks) /\ <<t>> # <<>> /\ Once(<<t>>)
             /\ Range(<<t>>) = {t} /\ Len(<<t>>) = 1
  <2>1. DOMAIN <<t>> = {1} /\ <<t>>[1] = t
        OBVIOUS
  <2>. QED
    BY <2>1 DEF Once, Range
<1>. QED
  BY <1>1, <1>2

(* A request of an aim is directed at all of it.                           *)
LEMMA AimFacts ==
  ASSUME NEW aim \in {Order} \cup {<<t>> : t \in Tracks}
  PROVE  /\ aim \in Seq(Tracks) /\ aim # <<>> /\ Once(aim) /\ Range(aim) \subseteq Tracks
         /\ Len(aim) > 1 => Range(aim) = Tracks
<1>1. CASE aim = Order
      BY <1>1, OrderFacts
<1>2. ASSUME NEW t \in Tracks, aim = <<t>>
      PROVE  /\ aim \in Seq(Tracks) /\ aim # <<>> /\ Once(aim) /\ Range(aim) \subseteq Tracks
             /\ ~(Len(aim) > 1)
      BY <1>2, OrderFacts
<1>. QED
  BY <1>1, <1>2

(* A session that nothing is asked of.                                     *)
LEMMA NoAskType ==
  /\ NoAsk \in Asks
  /\ NoAsk.pc = "idle" /\ NoAsk.aim = <<>> /\ NoAsk.todo = <<>> /\ NoAsk.time = 0 /\ NoAsk.asof = 0
<1>1. Huge \in Int /\ <<>> \in Seq(Tracks)
      BY HugeAssumption
<1>2. [from |-> Huge, to |-> Huge, speed |-> Huge, lead |-> FALSE] \in Requests
      BY <1>1 DEF Requests
<1>3. PICK rq \in Requests : rq = [from |-> Huge, to |-> Huge, speed |-> Huge, lead |-> FALSE]
      BY <1>2
<1>4. NoAsk = [pc |-> "idle", aim |-> <<>>, todo |-> <<>>, time |-> 0, asof |-> 0,
               play |-> rq, rt |-> rq, asks |-> 0]
      BY <1>3 DEF NoAsk
<1>5. "idle" \in Places
      BY DEF Places
<1>. QED
  BY <1>1, <1>4, <1>5 DEF Asks

(* A request that is read has all of its aim to reach.                     *)
LEMMA ReceivedFacts ==
  ASSUME TypeInv, NEW pc \in Places, NEW aim \in {Order} \cup {<<t>> : t \in Tracks}
  PROVE  /\ Received(pc, aim) \in Asks /\ Directed(Received(pc, aim))
         /\ Received(pc, aim).pc = pc /\ Received(pc, aim).aim = aim /\ Received(pc, aim).todo = aim
         /\ Received(pc, aim).time = now /\ Received(pc, aim).asof = 0
         /\ Received(pc, aim).rt = NoAsk.rt
<1>1. now \in Int /\ ask \in Asks /\ NoAsk \in Asks /\ NoAsk.asof = 0
      BY NoAskType DEF TypeInv
<1>2. ask.asks + 1 \in Int /\ aim \in Seq(Tracks) /\ aim # <<>> /\ Once(aim)
      BY <1>1, AimFacts DEF Asks
<1> DEFINE r == Received(pc, aim)
<1>3. /\ r \in Asks /\ r.pc = pc /\ r.aim = aim /\ r.todo = aim /\ r.time = now
      /\ r.asof = NoAsk.asof /\ r.rt = NoAsk.rt
      BY <1>1, <1>2 DEF Received, Asks
<1> HIDE DEF r
<1>4. Directed(r)
      BY <1>2, <1>3 DEF Directed
<1>. QED
  BY <1>1, <1>3, <1>4 DEF r

(* What the loops leave of the request.                                    *)
LEMMA OnwardFacts ==
  ASSUME TypeInv, AskInv, Busy, NEW then \in Places
  PROVE  /\ Onward(then) \in Asks /\ Directed(Onward(then))
         /\ Onward(then).aim = ask.aim /\ Onward(then).time = ask.time
         /\ Onward(then).asof = ask.asof /\ Onward(then).rt = ask.rt
         /\ Head(ask.todo) \in Pending /\ Pending \subseteq Tracks
         /\ \/ Onward(then).pc = ask.pc /\ Range(Onward(then).todo) = Pending \ {Head(ask.todo)}
            \/ /\ Onward(then).pc = then /\ Onward(then).todo = ask.aim
               /\ Pending = {Head(ask.todo)}
<1>1. /\ ask \in Asks /\ ask.todo \in Seq(Tracks) /\ ask.aim \in Seq(Tracks) /\ Directed(ask)
      /\ ask.todo # <<>> /\ Once(ask.todo)
      BY DEF TypeInv, Asks, AskInv, Directed
<1>2. /\ Head(ask.todo) \in Tracks /\ Head(ask.todo) \in Pending
      /\ Len(ask.todo) > 1 =>
           /\ Tail(ask.todo) \in Seq(Tracks) /\ Tail(ask.todo) # <<>> /\ Once(Tail(ask.todo))
           /\ Range(Tail(ask.todo)) = Pending \ {Head(ask.todo)}
      /\ ~(Len(ask.todo) > 1) => Pending = {Head(ask.todo)}
      BY <1>1, TailFacts DEF Pending
<1>3. /\ ask.aim # <<>> /\ Once(ask.aim) /\ Range(ask.aim) \subseteq Tracks /\ Pending \subseteq Range(ask.aim)
      BY <1>1, AimFacts DEF Directed, Pending
<1> DEFINE r == Onward(then)
<1>4. CASE Len(ask.todo) > 1
  <2>1. PICK rest \in Seq(Tracks) : rest = Tail(ask.todo)
        BY <1>2, <1>4
  <2>2. r = [ask EXCEPT !.todo = rest]
        BY <1>4, <2>1 DEF Onward
  <2>3. /\ r \in Asks /\ r.aim = ask.aim /\ r.time = ask.time /\ r.asof = ask.asof /\ r.rt = ask.rt
        /\ r.pc = ask.pc /\ r.todo = rest
        BY <1>1, <2>2 DEF Asks
  <2> HIDE DEF r
  <2>4. Directed(r)
        BY <1>1, <1>2, <1>3, <1>4, <2>1, <2>3 DEF Directed
  <2>. QED
    BY <1>2, <1>3, <1>4, <2>1, <2>3, <2>4 DEF r
<1>5. CASE ~(Len(ask.todo) > 1)
  <2>1. r = [ask EXCEPT !.pc = then, !.todo = ask.aim]
        BY <1>5 DEF Onward
  <2>2. /\ r \in Asks /\ r.aim = ask.aim /\ r.time = ask.time /\ r.asof = ask.asof /\ r.rt = ask.rt
        /\ r.pc = then /\ r.todo = ask.aim
        BY <1>1, <2>1 DEF Asks
  <2> HIDE DEF r
  <2>3. Directed(r)
        BY <1>1, <1>3, <2>2 DEF Directed
  <2>. QED
    BY <1>2, <1>3, <1>5, <2>2, <2>3 DEF r
<1>. QED
  BY <1>4, <1>5

(* The same of the last loops, after which the request is over.            *)
LEMMA OverFacts ==
  ASSUME TypeInv, AskInv, Busy, NEW then \in Places
  PROVE  /\ Over(then) \in Asks
         /\ Head(ask.todo) \in Pending /\ Pending \subseteq Tracks
         /\ \/ /\ Over(then).pc = ask.pc /\ Range(Over(then).todo) = Pending \ {Head(ask.todo)}
               /\ Directed(Over(then)) /\ Over(then).aim = ask.aim /\ Over(then).time = ask.time
               /\ Over(then).asof = ask.asof /\ Over(then).rt = ask.rt
            \/ /\ Over(then).pc = then /\ Over(then).aim = <<>> /\ Over(then).todo = <<>>
               /\ Over(then).time = 0 /\ Over(then).asof = 0
               /\ Pending = {Head(ask.todo)}
<1>1. /\ ask \in Asks /\ NoAsk \in Asks /\ NoAsk.time = 0 /\ NoAsk.asof = 0 /\ NoAsk.aim = <<>>
      /\ NoAsk.todo = <<>>
      BY NoAskType DEF TypeInv
<1>2. /\ Onward(then) \in Asks /\ Directed(Onward(then))
      /\ Onward(then).aim = ask.aim /\ Onward(then).time = ask.time
      /\ Onward(then).asof = ask.asof /\ Onward(then).rt = ask.rt
      /\ Head(ask.todo) \in Pending /\ Pending \subseteq Tracks
      BY OnwardFacts
<1>3. CASE Len(ask.todo) > 1
  <2>1. Over(then) = Onward(then)
        BY <1>3 DEF Over, Onward
  <2>2. Over(then).pc = ask.pc /\ Range(Over(then).todo) = Pending \ {Head(ask.todo)}
    <3>1. Over(then) = [ask EXCEPT !.todo = Tail(ask.todo)]
          BY <1>3 DEF Over
    <3>2. Over(then).pc = ask.pc /\ Over(then).todo = Tail(ask.todo)
          BY <1>1, <3>1 DEF Asks
    <3>3. ask.todo \in Seq(Tracks) /\ ask.todo # <<>> /\ Once(ask.todo)
          BY DEF TypeInv, Asks, AskInv, Directed
    <3>. QED
      BY <1>3, <3>2, <3>3, TailFacts DEF Pending
  <2>. QED
    BY <1>2, <2>1, <2>2
<1>4. CASE ~(Len(ask.todo) > 1)
  <2> DEFINE r == Over(then)
  <2>1. r = [NoAsk EXCEPT !.pc = then, !.asks = ask.asks]
        BY <1>4 DEF Over
  <2>2. /\ r \in Asks /\ r.pc = then /\ r.aim = <<>> /\ r.todo = <<>> /\ r.time = 0 /\ r.asof = 0
        BY <1>1, <2>1 DEF Asks
  <2> HIDE DEF r
  <2>3. ask.todo \in Seq(Tracks) /\ ask.todo # <<>> /\ Once(ask.todo)
        BY DEF TypeInv, Asks, AskInv, Directed
  <2>4. Pending = {Head(ask.todo)}
        BY <1>4, <2>3, TailFacts DEF Pending
  <2>. QED
    BY <1>2, <2>2, <2>4 DEF r
<1>. QED
  BY <1>3, <1>4

(* A request that fails leaves nothing of itself.                          *)
LEMMA DroppedFacts ==
  ASSUME TypeInv, NEW pc \in Places
  PROVE  /\ [NoAsk EXCEPT !.pc = pc, !.asks = ask.asks] \in Asks
         /\ [NoAsk EXCEPT !.pc = pc, !.asks = ask.asks].pc = pc
         /\ [NoAsk EXCEPT !.pc = pc, !.asks = ask.asks].aim = <<>>
         /\ [NoAsk EXCEPT !.pc = pc, !.asks = ask.asks].time = 0
         /\ [NoAsk EXCEPT !.pc = pc, !.asks = ask.asks].asof = 0
BY NoAskType DEF TypeInv, Asks

-----------------------------------------------------------------------------
(* The clocks.                                                             *)

(* What the clocks and announcements satisfy at all times.                 *)
Sound == TypeInv /\ AskInv /\ ClockInv /\ RtpSteady

(* The moments that a step refers to are not in the future.                *)
LEMMA TimesOf ==
  ASSUME Sound
  PROVE  now \in Times /\ now \in Int /\ ask.time \in Times /\ ask.time <= now
         /\ ask.asof \in Times /\ ask.asof <= now
BY TimeAssumption, HugeAssumption DEF Sound, TypeInv, AskInv, Asks, Times

(* A step that touches no clock.                                           *)
LEMMA ClocksKept ==
  ASSUME Sound, UNCHANGED <<film, now, clock, status, finish, said>>,
         step' \in SUBSET Tracks, ask' \in Asks, AskInv',
         ask.pc \in {"teardown", "closed"} => ask'.pc \in {"teardown", "closed"}
  PROVE  Sound'
<1>1. TypeInv'
      BY DEF Sound, TypeInv
<1>2. ClockInv'
  <2> SUFFICES ASSUME NEW t \in Tracks PROVE ClockOf(t)'
      BY DEF ClockInv
  <2>1. ClockOf(t)
        BY DEF Sound, ClockInv
  <2>. QED
    BY <2>1 DEF ClockOf
<1>3. RtpSteady'
      BY DEF Sound, RtpSteady, getRTPtime
<1>. QED
  BY <1>1, <1>2, <1>3 DEF Sound

(* A step that moves one clock, without moving what it says.               *)
LEMMA ClockMoved ==
  ASSUME Sound, NEW t \in Tracks, NEW d \in Clocks, NEW s \in Statuses,
         UNCHANGED <<film, now, finish, said>>,
         clock' = [clock EXCEPT ![t] = d], status' = [status EXCEPT ![t] = s],
         step' \in SUBSET Tracks, ask' \in Asks, AskInv',
         ask.pc \in {"teardown", "closed"} => ask'.pc \in {"teardown", "closed"},
         ClockOf(t)',
         \A pt \in Int : PlayRTPtime(d, pt, now) = PlayRTPtime(clock[t], pt, now)
  PROVE  Sound'
<1>1. /\ clock \in [Tracks -> Clocks] /\ status \in [Tracks -> Statuses]
      /\ said \in [Tracks -> Announcements]
      BY DEF Sound, TypeInv
<1>2. TypeInv'
      BY <1>1 DEF Sound, TypeInv
<1>3. ClockInv'
  <2> SUFFICES ASSUME NEW u \in Tracks PROVE ClockOf(u)'
      BY DEF ClockInv
  <2>1. CASE u = t
        BY <2>1
  <2>2. CASE u # t
    <3>1. clock'[u] = clock[u] /\ status'[u] = status[u]
          BY <1>1, <2>2
    <3>2. ClockOf(u)
          BY DEF Sound, ClockInv
    <3>. QED
      BY <3>1, <3>2 DEF ClockOf
  <2>. QED
    BY <2>1, <2>2
<1>4. RtpSteady'
  <2> SUFFICES ASSUME NEW u \in Tracks, said[u].on
               PROVE  getRTPtime(clock[u], said[u].from, now)' = said[u].rtp
      BY DEF RtpSteady
  <2>1. getRTPtime(clock[u], said[u].from, now) = said[u].rtp /\ said[u].from \in Int
        BY <1>1 DEF Sound, RtpSteady, Announcements
  <2>2. PlayRTPtime(clock'[u], said[u].from, now) = PlayRTPtime(clock[u], said[u].from, now)
    <3>1. CASE u = t
          BY <1>1, <2>1, <3>1
    <3>2. CASE u # t
          BY <1>1, <3>2
    <3>. QED
      BY <3>1, <3>2
  <2>. QED
    BY <2>1, <2>2 DEF getRTPtime
<1>. QED
  BY <1>2, <1>3, <1>4 DEF Sound

(* The three moves of a clock, at the time of a request or now.            *)
LEMMA PauseKeeps ==
  ASSUME Sound, NEW t \in Tracks, status[t] # "stopped", NEW a \in Times, a <= now
  PROVE  /\ Pausing(pauseClock(clock[t], a))
         /\ pauseClock(clock[t], a).play.speed = clock[t].play.speed
         /\ getPresentationTime(pauseClock(clock[t], a), a) = getPresentationTime(clock[t], a)
         /\ \A pt \in Int :
              PlayRTPtime(pauseClock(clock[t], a), pt, now) = PlayRTPtime(clock[t], pt, now)
<1>1. PICK c : c = clock[t]
      OBVIOUS
<1>2. PICK n : n = now
      OBVIOUS
<1>3. PICK d : d = pauseClock(c, a)
      OBVIOUS
<1>4. n \in Times /\ a <= n /\ (Playing(c) \/ Pausing(c))
      BY <1>1, <1>2, TimesOf DEF Sound, ClockInv, ClockOf
<1>5. CASE Playing(c)
  <2>1. /\ Pausing(d) /\ d.play.speed = c.play.speed
        /\ getPresentationTime(d, a) = getPresentationTime(c, a)
        /\ \A pt : PlayRTPtime(d, pt, a) = PlayRTPtime(c, pt, a)
        BY <1>3, <1>5, PauseMoves
  <2>2. ASSUME NEW pt \in Int PROVE PlayRTPtime(d, pt, n) = PlayRTPtime(c, pt, n)
    <3>1. PlayRTPtime(c, pt, n) = PlayRTPtime(c, pt, a)
          BY <1>4, <1>5, SteadyPlaying
    <3>2. PlayRTPtime(d, pt, n) = PlayRTPtime(d, pt, a)
          BY <1>4, <2>1, SteadyPausing
    <3>. QED
      BY <2>1, <3>1, <3>2
  <2>. QED
    BY <1>1, <1>2, <1>3, <2>1, <2>2
<1>6. CASE Pausing(c)
  <2>1. ~isRunning(c.play)
        BY <1>6, StandsStill DEF Pausing
  <2>2. d = c
        BY <1>3, <2>1 DEF pauseClock
  <2>. QED
    BY <1>1, <1>2, <1>3, <1>6, <2>2
<1>. QED
  BY <1>4, <1>5, <1>6

(* Resuming leaves the announcements true.                                 *)
LEMMA UnpauseKeeps ==
  ASSUME Sound, NEW t \in Tracks, status[t] # "stopped", NEW a \in Times, a <= now
  PROVE  /\ Playing(unpauseClock(clock[t], a, clock[t].play.speed))
         /\ unpauseClock(clock[t], a, clock[t].play.speed).play.speed = clock[t].play.speed
         /\ getPresentationTime(unpauseClock(clock[t], a, clock[t].play.speed), a)
              = getPresentationTime(clock[t], a)
         /\ \A pt \in Int :
              PlayRTPtime(unpauseClock(clock[t], a, clock[t].play.speed), pt, now)
                = PlayRTPtime(clock[t], pt, now)
<1>1. PICK c : c = clock[t]
      OBVIOUS
<1>2. PICK n : n = now
      OBVIOUS
<1>3. PICK d : d = unpauseClock(c, a, c.play.speed)
      OBVIOUS
<1>4. n \in Times /\ a <= n /\ (Playing(c) \/ Pausing(c))
      BY <1>1, <1>2, TimesOf DEF Sound, ClockInv, ClockOf
<1>5. CASE Pausing(c)
  <2>1. /\ Playing(d) /\ d.play.speed = c.play.speed
        /\ getPresentationTime(d, a) = getPresentationTime(c, a)
        /\ \A pt : PlayRTPtime(d, pt, a) = PlayRTPtime(c, pt, a)
        BY <1>3, <1>5, UnpauseMoves
  <2>2. ASSUME NEW pt \in Int PROVE PlayRTPtime(d, pt, n) = PlayRTPtime(c, pt, n)
    <3>1. PlayRTPtime(c, pt, n) = PlayRTPtime(c, pt, a)
          BY <1>4, <1>5, SteadyPausing
    <3>2. PlayRTPtime(d, pt, n) = PlayRTPtime(d, pt, a)
          BY <1>4, <2>1, SteadyPlaying
    <3>. QED
      BY <2>1, <3>1, <3>2
  <2>. QED
    BY <1>1, <1>2, <1>3, <2>1, <2>2
<1>6. CASE Playing(c)
  <2>1. ~isRunning(c.pause) /\ segmentRuns(c.life)
        BY <1>6, StandsStill DEF Playing, Lives, segmentRuns
  <2>2. d = c
        BY <1>3, <2>1 DEF unpauseClock
  <2>. QED
    BY <1>1, <1>2, <1>3, <1>6, <2>2
<1>. QED
  BY <1>4, <1>5, <1>6

(* So does stopping.                                                       *)
LEMMA StopKeeps ==
  ASSUME Sound, NEW t \in Tracks, NEW a \in Times, a <= now
  PROVE  /\ Fresh(stopClock(clock[t], a)) \/ Torn(stopClock(clock[t], a), now)
         /\ \A pt \in Int :
              PlayRTPtime(stopClock(clock[t], a), pt, now) = PlayRTPtime(clock[t], pt, now)
<1>1. PICK c : c = clock[t]
      OBVIOUS
<1>2. PICK n : n = now
      OBVIOUS
<1>3. PICK d : d = stopClock(c, a)
      OBVIOUS
<1>4. n \in Times /\ a <= n /\ a \in Int /\ n \in Int
      /\ (Playing(c) \/ Pausing(c) \/ Fresh(c) \/ Torn(c, n))
      BY <1>1, <1>2, TimesOf DEF Sound, ClockInv, ClockOf, Times
<1>5. CASE Playing(c) \/ Pausing(c)
  <2>1. /\ Torn(d, a) /\ \A pt : PlayRTPtime(d, pt, a) = PlayRTPtime(c, pt, a)
        BY <1>3, <1>5, StopMoves
  <2>2. Torn(d, n)
    <3>1. d.life.stop \in Int
          BY <2>1 DEF Torn, Clocks, Segments
    <3>. QED
      BY <1>4, <2>1, <3>1 DEF Torn
  <2>3. ASSUME NEW pt \in Int PROVE PlayRTPtime(d, pt, n) = PlayRTPtime(c, pt, n)
    <3>1. PlayRTPtime(c, pt, n) = PlayRTPtime(c, pt, a)
          BY <1>4, <1>5, SteadyPlaying, SteadyPausing
    <3>2. PlayRTPtime(d, pt, n) = PlayRTPtime(d, pt, a)
          BY <1>4, <2>1, SteadyTorn
    <3>. QED
      BY <2>1, <3>1, <3>2
  <2>. QED
    BY <1>1, <1>2, <1>3, <2>2, <2>3
<1>6. CASE Fresh(c) \/ Torn(c, n)
  <2>1. d = c
        BY <1>3, <1>4, <1>6, StoppedStays
  <2>. QED
    BY <1>1, <1>2, <1>3, <1>6, <2>1
<1>. QED
  BY <1>4, <1>5, <1>6

-----------------------------------------------------------------------------
(* Every step keeps the clocks sound and the announcements true.           *)

(* The state in which a session begins.                                    *)
LEMMA InitSound ==
  TimelineInit => Sound
<1> SUFFICES ASSUME TimelineInit PROVE Sound
    OBVIOUS
<1>1. NoAsk \in Asks /\ NoAsk.pc = "idle" /\ NoAsk.aim = <<>> /\ NoAsk.todo = <<>>
      /\ NoAsk.time = 0 /\ NoAsk.asof = 0
      BY NoAskType
<1>2. NoSegment \in Segments /\ Huge \in Int /\ 1 \in Speeds
      BY HugeAssumption DEF NoSegment, Segments, Speeds
<1>3. NoSegments \in MultiSegments /\ NoSegments.current = NoSegment /\ NoSegments.speed = 1
      BY <1>2 DEF NoSegments, MultiSegments
<1>4. /\ NoClock \in Clocks /\ NoClock.life = NoSegment /\ NoClock.play = NoSegments
      /\ NoClock.pause = NoSegments
      BY <1>2, <1>3 DEF NoClock, Clocks
<1>5. Fresh(NoClock)
      BY <1>2, <1>3, <1>4 DEF Fresh, Stands
<1>6. Unsaid \in Announcements /\ Unsaid.on = FALSE
      BY DEF Unsaid, Announcements
<1>7. TypeInv
      BY <1>1, <1>2, <1>4, <1>6, TimeAssumption DEF TimelineInit, TypeInv, Statuses
<1>8. AskInv
      BY <1>1 DEF TimelineInit, AskInv, Busy
<1>9. ClockInv
      BY <1>5 DEF TimelineInit, ClockInv, ClockOf
<1>10. RtpSteady
       BY <1>6 DEF TimelineInit, RtpSteady
<1>. QED
  BY <1>7, <1>8, <1>9, <1>10 DEF Sound

(* A PLAY that is read changes what is asked and nothing else.             *)
LEMMA ReceivePlaySound ==
  ASSUME Sound, NEW p \in Films[film].plays, receivePlay(p)
  PROVE  Sound'
<1>1. TypeInv /\ AskInv /\ film \in DOMAIN Films /\ now \in Int /\ 0 <= now
      BY DEF Sound, TypeInv
<1>2. /\ p.aim \in {Order} \cup {<<t>> : t \in Tracks} /\ p.speed \in Speeds \cup {Huge}
      /\ p.from \in Int /\ p.to \in Int
  <2>1. p \in Plays
        BY <1>1 DEF Plays, Range
  <2>. QED
    BY <2>1, AimAssumption, SpeedAssumption, RangeAssumption DEF Speeds
<1> DEFINE rq == [from |-> p.from, to |-> p.to, speed |-> p.speed, lead |-> FALSE]
           pc == IF Len(p.aim) > 1 THEN "eval" ELSE "apply"
           r == Received(pc, p.aim)
<1>3. rq \in Requests /\ rq.lead = FALSE
      BY <1>2 DEF Requests
<1>4. pc \in Places
      BY DEF Places
<1>5. /\ r \in Asks /\ Directed(r) /\ r.pc = pc /\ r.aim = p.aim /\ r.todo = p.aim
      /\ r.time = now /\ r.asof = 0
      BY <1>1, <1>2, <1>4, ReceivedFacts
<1>6. ask' = [r EXCEPT !.play = rq, !.rt = rq]
      BY DEF receivePlay
<1> HIDE DEF rq, pc, r
<1>7. /\ ask' \in Asks /\ ask'.pc = pc /\ ask'.aim = p.aim /\ ask'.todo = p.aim
      /\ ask'.time = now /\ ask'.asof = 0 /\ ask'.rt = rq
      BY <1>2, <1>3, <1>5, <1>6 DEF Asks
<1>8. Directed(ask')
      BY <1>5, <1>7 DEF Directed
<1>9. AskInv'
  <2>1. now' = now
        BY DEF receivePlay
  <2>2. (pc = "eval" /\ Len(p.aim) > 1) \/ (pc = "apply" /\ ~(Len(p.aim) > 1))
        BY DEF pc
  <2>. QED
    BY <1>1, <1>3, <1>7, <1>8, <2>1, <2>2 DEF AskInv, WholeAim
<1>10. step' \in SUBSET Tracks /\ UNCHANGED <<film, now, clock, status, finish, said>>
       BY DEF Sound, TypeInv, receivePlay
<1>11. ask.pc = "idle"
       BY DEF receivePlay
<1>. QED
  BY <1>7, <1>9, <1>10, <1>11, ClocksKept

(* A request that is read leaves the clocks alone.                         *)
LEMMA ReceivedSound ==
  ASSUME Sound, NEW pc \in {"range", "pause", "teardown"},
         NEW aim \in {Order} \cup {<<t>> : t \in Tracks},
         ask.pc = "idle", ask' = Received(pc, aim), step' \in SUBSET Tracks,
         UNCHANGED <<film, now, clock, status, finish, said>>
  PROVE  Sound'
<1>1. TypeInv /\ now \in Int /\ 0 <= now
      BY DEF Sound, TypeInv
<1>2. pc \in Places
      BY DEF Places
<1>3. /\ ask' \in Asks /\ Directed(ask') /\ ask'.pc = pc /\ ask'.time = now /\ ask'.asof = 0
      BY <1>1, <1>2, ReceivedFacts
<1>4. AskInv'
      BY <1>1, <1>3 DEF AskInv
<1>. QED
  BY <1>3, <1>4, ClocksKept

(* So do the others.                                                       *)
LEMMA ReceiveSound ==
  ASSUME Sound, Receive
  PROVE  Sound'
<1>1. ASSUME NEW p \in Films[film].plays, receivePlay(p) PROVE Sound'
      BY <1>1, ReceivePlaySound
<1>2. ASSUME NEW aim \in Aims, receiveResume(aim) PROVE Sound'
  <2>1. aim \in {Order} \cup {<<t>> : t \in Tracks}
        BY AimAssumption
  <2>2. /\ ask.pc = "idle" /\ ask' = Received("range", aim) /\ step' \in SUBSET Tracks
        /\ UNCHANGED <<film, now, clock, status, finish, said>>
        BY <1>2 DEF receiveResume, Sound, TypeInv
  <2>. QED
    BY <2>1, <2>2, ReceivedSound
<1>3. ASSUME NEW aim \in Aims, receivePause(aim) PROVE Sound'
  <2>1. aim \in {Order} \cup {<<t>> : t \in Tracks}
        BY AimAssumption
  <2>2. /\ ask.pc = "idle" /\ ask' = Received("pause", aim) /\ step' \in SUBSET Tracks
        /\ UNCHANGED <<film, now, clock, status, finish, said>>
        BY <1>3 DEF receivePause, Sound, TypeInv
  <2>. QED
    BY <2>1, <2>2, ReceivedSound
<1>4. ASSUME receiveTeardown PROVE Sound'
  <2>1. /\ ask.pc = "idle" /\ ask' = Received("teardown", Order) /\ step' \in SUBSET Tracks
        /\ UNCHANGED <<film, now, clock, status, finish, said>>
        BY <1>4 DEF receiveTeardown, Sound, TypeInv
  <2>. QED
    BY <2>1, ReceivedSound
<1>. QED
  BY <1>1, <1>2, <1>3, <1>4 DEF Receive

-----------------------------------------------------------------------------
(* A track always has a speed, and knows where it is.                      *)
LEMMA TrackFacts ==
  ASSUME Sound, NEW t \in Tracks
  PROVE  /\ clock[t].play.speed \in Speeds
         /\ getPresentationTime(clock[t], now) \in Int
         /\ ask.pc \in {"teardown", "closed"} \/ ~\E n : Torn(clock[t], n)
<1>1. PICK c : c = clock[t]
      OBVIOUS
<1>2. PICK n : n = now
      OBVIOUS
<1>3. /\ n \in Times /\ (Playing(c) \/ Pausing(c) \/ Fresh(c) \/ Torn(c, n))
      /\ ask.pc \in {"teardown", "closed"} \/ (Playing(c) \/ Pausing(c) \/ Fresh(c))
      BY <1>1, <1>2, TimesOf DEF Sound, ClockInv, ClockOf
<1>4. c.play.speed \in Speeds
      BY <1>3 DEF Playing, Pausing, Fresh, Torn
<1>5. getPresentationTime(c, n) \in Int
  <2>1. CASE Playing(c)
        BY <1>3, <2>1, PresentationPlaying
  <2>2. CASE ~Playing(c)
    <3>1. c \in Clocks /\ Stands(c.play)
          BY <1>3, <2>2 DEF Pausing, Fresh, Torn
    <3>. QED
      BY <3>1, PresentationStanding
  <2>. QED
    BY <2>1, <2>2
<1>6. ask.pc \in {"teardown", "closed"} \/ ~\E x : Torn(c, x)
  <2>1. ASSUME Playing(c) \/ Pausing(c) \/ Fresh(c), NEW x, Torn(c, x) PROVE FALSE
    <3>1. c.life.stop = Huge
          BY <2>1 DEF Playing, Pausing, Lives, Fresh, NoSegment
    <3>. QED
      BY <2>1, <3>1, HugeAssumption DEF Torn
  <2>. QED
    BY <1>3, <2>1
<1>. QED
  BY <1>1, <1>2, <1>4, <1>5, <1>6

(* What the evaluation of a PLAY has found can be applied.                 *)
LEMMA EvaluatedFacts ==
  ASSUME Sound, NEW t \in Tracks, NEW from \in Int
  PROVE  /\ Evaluated(t, from) \in Requests /\ Evaluated(t, from).from = from
         /\ Evaluated(t, from).speed \in Speeds
<1>1. film \in DOMAIN Films /\ ask \in Asks
      BY DEF Sound, TypeInv
<1>2. ask.play \in Requests
      BY <1>1 DEF Asks
<1>3. ask.play.speed \in Speeds \cup {Huge} /\ 1 \in Speeds
      BY <1>2 DEF Requests, Speeds
<1>4. evalSpeed(t) \in Speeds
      BY <1>3, TrackFacts DEF evalSpeed, speedOr
<1>5. Huge \in Int /\ 0 \in Int /\ duration(Media[t]) \in Int
      BY <1>1, MediaFacts, HugeAssumption
<1>6. evalEnd(t) \in Int
      BY <1>5, SignedFacts DEF evalEnd
<1>7. (t \in Videos) \in BOOLEAN
      OBVIOUS
<1>8. Evaluated(t, from) = [from |-> from, to |-> evalEnd(t), speed |-> evalSpeed(t), lead |-> t \in Videos]
      BY DEF Evaluated
<1>. QED
  BY <1>4, <1>6, <1>7, <1>8 DEF Requests

(* eval of one track, from a place before the end of time.                 *)
LEMMA EvalSound ==
  ASSUME Sound, NEW t \in Tracks, NEW from \in Int, from < Huge,
         Doing("eval", t), ask' = [Onward("apply") EXCEPT !.rt = merge(@, Evaluated(t, from))],
         step' \in SUBSET Tracks, UNCHANGED <<film, now, clock, status, finish, said>>
  PROVE  Sound'
<1>1. TypeInv /\ AskInv /\ Busy /\ ask.pc = "eval"
      BY DEF Sound, Busy, Doing
<1>2. ask \in Asks /\ ask.rt \in Requests /\ (ask.rt.lead => ask.rt.from < Huge) /\ WholeAim
      BY <1>1 DEF TypeInv, Asks, AskInv
<1>3. PICK rq \in Requests : rq = Evaluated(t, from) /\ rq.from = from /\ rq.speed \in Speeds
      BY EvaluatedFacts
<1>4. PICK rt \in Requests : rt = merge(ask.rt, rq) /\ rt.speed \in Speeds /\ rt.from < Huge
      BY <1>2, <1>3, MergeFacts
<1>5. PICK r \in Asks :
        /\ r = Onward("apply") /\ Directed(r) /\ r.aim = ask.aim /\ r.time = ask.time
        /\ r.asof = ask.asof /\ r.rt = ask.rt /\ r.pc \in {"eval", "apply"}
  <2>1. "apply" \in Places
        BY DEF Places
  <2>. QED
    BY <1>1, <2>1, OnwardFacts
<1>6. ask' = [r EXCEPT !.rt = rt]
      BY <1>3, <1>4, <1>5
<1>7. /\ ask' \in Asks /\ ask'.pc = r.pc /\ ask'.aim = ask.aim /\ ask'.todo = r.todo
      /\ ask'.time = ask.time /\ ask'.asof = ask.asof /\ ask'.rt = rt
      BY <1>5, <1>6 DEF Asks
<1>8. Directed(ask')
      BY <1>5, <1>7 DEF Directed
<1>9. AskInv'
      BY <1>1, <1>2, <1>4, <1>5, <1>7, <1>8 DEF AskInv, WholeAim
<1>. QED
  BY <1>1, <1>7, <1>9, ClocksKept

(* A request that is refused.                                              *)
LEMMA DroppedSound ==
  ASSUME Sound, NEW pc \in {"idle", "closed"}, ask' = [NoAsk EXCEPT !.pc = pc, !.asks = ask.asks],
         now' = now
  PROVE  ask' \in Asks /\ AskInv' /\ ask'.pc = pc
<1>1. TypeInv /\ now \in Int /\ 0 <= now
      BY DEF Sound, TypeInv
<1>2. pc \in Places
      BY DEF Places
<1>3. ask' \in Asks /\ ask'.pc = pc /\ ask'.aim = <<>> /\ ask'.time = 0 /\ ask'.asof = 0
      BY <1>1, <1>2, DroppedFacts
<1>. QED
  BY <1>1, <1>3 DEF AskInv, Busy

(* The evaluation of a PLAY, track by track.                               *)
LEMMA EvalsSound ==
  ASSUME Sound, NEW t \in Tracks, evalStopped(t) \/ evalPlaying(t) \/ evalRefused(t)
  PROVE  Sound'
<1>1. film \in DOMAIN Films /\ ask \in Asks /\ ask.play \in Requests /\ step \in SUBSET Tracks
      BY DEF Sound, TypeInv, Asks
<1>2. CASE evalStopped(t)
  <2>1. Place(t) \in Int /\ Place(t) < Huge
    <3>1. ask.play.from \in Int
          BY <1>1 DEF Requests
    <3>2. \A spd : Beginning(t, spd) \in Int /\ Beginning(t, spd) < Huge
          BY <1>1, MediaFacts
    <3>3. status[t] = "stopped"
          BY <1>2 DEF evalStopped
    <3>. QED
      BY <3>1, <3>2, <3>3 DEF Place
  <2>2. PICK from \in Int : from = Place(t) /\ from < Huge
        BY <2>1
  <2>3. /\ Doing("eval", t) /\ ask' = [Onward("apply") EXCEPT !.rt = merge(@, Evaluated(t, from))]
        /\ step' \in SUBSET Tracks /\ UNCHANGED <<film, now, clock, status, finish, said>>
        BY <1>1, <1>2, <2>2 DEF evalStopped
  <2>. QED
    BY <2>2, <2>3, EvalSound
<1>3. CASE evalPlaying(t)
  <2>1. Probe(t).frame.time \in 0 .. Huge - 1 /\ Huge \in Int
        BY <1>1, MediaFacts, HugeAssumption DEF Probe
  <2>2. PICK from \in Int : from = Probe(t).frame.time /\ from < Huge
        BY <2>1
  <2>3. /\ Doing("eval", t) /\ ask' = [Onward("apply") EXCEPT !.rt = merge(@, Evaluated(t, from))]
        /\ step' \in SUBSET Tracks /\ UNCHANGED <<film, now, clock, status, finish, said>>
        BY <1>1, <1>3, <2>2 DEF evalPlaying
  <2>. QED
    BY <2>2, <2>3, EvalSound
<1>4. CASE evalRefused(t)
  <2>1. /\ NoAsk.pc = "idle" /\ NoAsk \in Asks
        BY NoAskType
  <2>2. ask' = [NoAsk EXCEPT !.pc = "idle", !.asks = ask.asks]
        BY <1>4, <2>1 DEF evalRefused, NoAsk
  <2>3. /\ ask.pc = "eval" /\ step' \in SUBSET Tracks /\ now' = now
        /\ UNCHANGED <<film, now, clock, status, finish, said>>
        BY <1>1, <1>4 DEF evalRefused, Doing
  <2>4. ask' \in Asks /\ AskInv' /\ ask'.pc = "idle"
        BY <2>2, <2>3, DroppedSound
  <2>. QED
    BY <2>3, <2>4, ClocksKept
<1>. QED
  BY <1>2, <1>3, <1>4

-----------------------------------------------------------------------------
(* Where and how fast a track that is applied goes on.                     *)
LEMMA ApplyFacts ==
  ASSUME Sound, ask.pc = "apply", NEW t \in Tracks
  PROVE  /\ ApplyFrom(t) \in Int /\ ApplySpeed(t) \in Speeds /\ End(t) \in Int
         /\ WholeAim => ApplyFrom(t) = ask.rt.from /\ ApplySpeed(t) = ask.rt.speed
<1>1. film \in DOMAIN Films /\ ask.rt \in Requests
      BY DEF Sound, TypeInv, Asks
<1>2. /\ ask.rt.from \in Int /\ ask.rt.to \in Int /\ ask.rt.speed \in Speeds \cup {Huge} /\ 1 \in Speeds
      BY <1>1 DEF Requests, Speeds
<1>3. ApplySpeed(t) \in Speeds
      BY <1>2, TrackFacts DEF ApplySpeed, speedOr
<1>4. \A spd : Beginning(t, spd) \in Int
      BY <1>1, MediaFacts
<1>5. ApplyFrom(t) \in Int
      BY <1>2, <1>4, TrackFacts DEF ApplyFrom
<1>6. duration(Media[t]) \in Int
      BY <1>1, MediaFacts
<1>7. Min({duration(Media[t]), ask.rt.to}) \in Int
      BY <1>2, <1>6, MinOfTwo
<1>8. End(t) \in Int
      BY <1>2, <1>7 DEF End
<1>9. ASSUME WholeAim PROVE ApplyFrom(t) = ask.rt.from /\ ApplySpeed(t) = ask.rt.speed
  <2>1. ask.rt.from < Huge /\ ask.rt.speed \in Speeds
        BY <1>9 DEF Sound, AskInv
  <2>2. ask.rt.speed # Huge
        BY <2>1, TimeAssumption, HugeAssumption DEF Speeds
  <2>. QED
    BY <2>1, <2>2 DEF ApplyFrom, ApplySpeed, speedOr
<1>. QED
  BY <1>3, <1>5, <1>8, <1>9

(* A track that is sought plays, and has announced nothing.                *)
LEMMA SoughtSound ==
  ASSUME Sound, ask.pc = "apply", NEW t \in Tracks, NEW d,
         d = seekClock(clock[t], ask.time, ApplyFrom(t), ApplySpeed(t)),
         clock' = [clock EXCEPT ![t] = d],
         status' = [status EXCEPT ![t] = IF @ = "stopped" THEN "paused" ELSE @],
         finish' = [finish EXCEPT ![t] = End(t)], said' = [said EXCEPT ![t] = Unsaid],
         UNCHANGED <<film, now>>, step' \in SUBSET Tracks, ask' \in Asks, AskInv'
  PROVE  Sound'
<1>1. /\ clock \in [Tracks -> Clocks] /\ status \in [Tracks -> Statuses]
      /\ said \in [Tracks -> Announcements] /\ finish \in [Tracks -> Int]
      BY DEF Sound, TypeInv
<1>2. Playing(d)
  <2>1. now \in Times /\ ask.time \in Times
        BY TimesOf
  <2>2. Playing(clock[t]) \/ Pausing(clock[t]) \/ Fresh(clock[t])
        BY DEF Sound, ClockInv, ClockOf
  <2>. QED
    BY <2>1, <2>2, ApplyFacts, SeekMoves
<1>3. d \in Clocks
      BY <1>2 DEF Playing
<1>4. Unsaid \in Announcements /\ Unsaid.on = FALSE
      BY DEF Unsaid, Announcements
<1>5. status'[t] \in {"paused", "playing"} /\ status' \in [Tracks -> Statuses]
      BY <1>1 DEF Statuses
<1>6. TypeInv'
      BY <1>1, <1>3, <1>4, <1>5, ApplyFacts DEF Sound, TypeInv
<1>7. ClockInv'
  <2> SUFFICES ASSUME NEW u \in Tracks PROVE ClockOf(u)'
      BY DEF ClockInv
  <2>1. CASE u = t
        BY <1>1, <1>2, <1>5, <2>1 DEF ClockOf
  <2>2. CASE u # t
    <3>1. clock'[u] = clock[u] /\ status'[u] = status[u]
          BY <1>1, <2>2
    <3>2. ClockOf(u)
          BY DEF Sound, ClockInv
    <3>. QED
      BY <3>1, <3>2 DEF ClockOf
  <2>. QED
    BY <2>1, <2>2
<1>8. RtpSteady'
  <2> SUFFICES ASSUME NEW u \in Tracks, said'[u].on
               PROVE  getRTPtime(clock[u], said[u].from, now)' = said'[u].rtp
      BY DEF RtpSteady
  <2>1. u # t
        BY <1>1, <1>4
  <2>2. clock'[u] = clock[u] /\ said'[u] = said[u]
        BY <1>1, <2>1
  <2>. QED
    BY <2>2 DEF Sound, RtpSteady, getRTPtime
<1>. QED
  BY <1>6, <1>7, <1>8 DEF Sound

(* What is asked of a track that a PLAY is applied to.                     *)
LEMMA AppliedAsk ==
  ASSUME Sound, NEW t \in Tracks, Doing("apply", t), now' = now,
         ask' = [Onward("answer") EXCEPT !.rt.from = ApplyFrom(t)]
  PROVE  /\ ask' \in Asks /\ AskInv'
         /\ ask'.aim = ask.aim /\ ask'.time = ask.time /\ ask'.rt.speed = ask.rt.speed
         /\ ask'.rt.from = ApplyFrom(t)
         /\ \/ ask'.pc = "apply" /\ Range(ask'.todo) = Pending \ {t}
            \/ ask'.pc = "answer" /\ Pending = {t}
<1>1. TypeInv /\ AskInv /\ Busy /\ ask.pc = "apply" /\ t = Head(ask.todo)
      BY DEF Sound, Busy, Doing
<1>2. ask \in Asks /\ ask.rt \in Requests
      BY <1>1 DEF TypeInv, Asks
<1>3. PICK r \in Asks :
        /\ r = Onward("answer") /\ Directed(r) /\ r.aim = ask.aim /\ r.time = ask.time
        /\ r.asof = ask.asof /\ r.rt = ask.rt
        /\ \/ r.pc = "apply" /\ Range(r.todo) = Pending \ {t}
           \/ r.pc = "answer" /\ Pending = {t}
  <2>1. "answer" \in Places
        BY DEF Places
  <2>. QED
    BY <1>1, <2>1, OnwardFacts
<1>4. PICK from \in Int : from = ApplyFrom(t)
      BY <1>1, ApplyFacts
<1>5. PICK rt : rt = [r.rt EXCEPT !.from = from]
      OBVIOUS
<1>6. rt \in Requests /\ rt.from = from /\ rt.speed = ask.rt.speed
      BY <1>2, <1>3, <1>5 DEF Requests
<1>7. ask' = [r EXCEPT !.rt = rt]
      BY <1>3, <1>4, <1>5
<1>8. /\ ask' \in Asks /\ ask'.pc = r.pc /\ ask'.aim = ask.aim /\ ask'.todo = r.todo
      /\ ask'.time = ask.time /\ ask'.asof = ask.asof /\ ask'.rt = rt
      BY <1>3, <1>6, <1>7 DEF Asks
<1>9. Directed(ask')
      BY <1>3, <1>8 DEF Directed
<1>10. WholeAim => rt.from < Huge /\ rt.speed \in Speeds
       BY <1>1, <1>4, <1>6, ApplyFacts DEF AskInv
<1>11. AskInv'
       BY <1>1, <1>3, <1>8, <1>9, <1>10 DEF AskInv, WholeAim
<1>. QED
  BY <1>3, <1>4, <1>6, <1>8, <1>11

(* A PLAY that is applied announces anew what it moves.                    *)
LEMMA AppliesSound ==
  ASSUME Sound, NEW t \in Tracks, apply(t) \/ applyRefused(t)
  PROVE  Sound'
<1>1. step \in SUBSET Tracks /\ status \in [Tracks -> Statuses] /\ finish \in [Tracks -> Int]
      /\ clock \in [Tracks -> Clocks]
      BY DEF Sound, TypeInv
<1>2. CASE apply(t)
  <2>1. PICK d : d = seekClock(clock[t], ask.time, ApplyFrom(t), ApplySpeed(t))
        OBVIOUS
  <2>2. /\ Doing("apply", t) /\ ask.pc = "apply" /\ clock' = [clock EXCEPT ![t] = d]
        /\ ask' = [Onward("answer") EXCEPT !.rt.from = ApplyFrom(t)]
        /\ status' = [status EXCEPT ![t] = IF @ = "stopped" THEN "paused" ELSE @]
        /\ finish' = [finish EXCEPT ![t] = End(t)] /\ said' = [said EXCEPT ![t] = Unsaid]
        /\ UNCHANGED <<film, now>> /\ step' \in SUBSET Tracks
        BY <1>1, <1>2, <2>1 DEF apply, Doing
  <2>3. ask' \in Asks /\ AskInv'
        BY <2>2, AppliedAsk
  <2>. QED
    BY <2>1, <2>2, <2>3, SoughtSound
<1>3. CASE applyRefused(t)
  <2>1. PICK pc \in {"idle", "closed"} : ask' = [NoAsk EXCEPT !.pc = pc, !.asks = ask.asks]
        BY <1>3 DEF applyRefused
  <2>2. /\ ask.pc = "apply" /\ UNCHANGED <<film, now>> /\ step' \in SUBSET Tracks
        /\ finish' = [finish EXCEPT ![t] = End(t)]
        /\ status' = [status EXCEPT ![t] = IF @ = "stopped" THEN "paused" ELSE @]
        BY <1>3 DEF applyRefused, Doing
  <2>3. ask' \in Asks /\ AskInv'
        BY <2>1, <2>2, DroppedSound
  <2>4. CASE status[t] = "stopped"
    <3>1. PICK d : d = seekClock(clock[t], ask.time, ApplyFrom(t), ApplySpeed(t))
          OBVIOUS
    <3>2. clock' = [clock EXCEPT ![t] = d] /\ said' = [said EXCEPT ![t] = Unsaid]
          BY <1>3, <2>4, <3>1 DEF applyRefused
    <3>. QED
      BY <2>2, <2>3, <3>1, <3>2, SoughtSound
  <2>5. CASE status[t] # "stopped"
    <3>1. clock' = clock /\ status' = status /\ said' = said
          BY <1>1, <1>3, <2>2, <2>5 DEF applyRefused
    <3>2. finish' \in [Tracks -> Int]
          BY <1>1, <2>2, ApplyFacts
    <3>3. TypeInv'
          BY <2>2, <2>3, <3>1, <3>2 DEF Sound, TypeInv
    <3>4. ClockInv'
      <4> SUFFICES ASSUME NEW u \in Tracks PROVE ClockOf(u)'
          BY DEF ClockInv
      <4>. QED
        BY <2>2, <3>1 DEF ClockOf, Sound, ClockInv
    <3>5. RtpSteady'
          BY <2>2, <3>1 DEF Sound, RtpSteady, getRTPtime
    <3>. QED
      BY <2>3, <3>3, <3>4, <3>5 DEF Sound
  <2>. QED
    BY <2>4, <2>5
<1>. QED
  BY <1>2, <1>3

-----------------------------------------------------------------------------
(* What is announced at a moment that is not yet to come is true now.      *)
LEMMA AnnouncedFacts ==
  ASSUME Sound, ask.pc \notin {"teardown", "closed"}, NEW t \in Tracks, NEW from \in Int,
         NEW a \in Times, a <= now
  PROVE  /\ Announced(t, from, a) \in Announcements /\ Announced(t, from, a).from = from
         /\ Announced(t, from, a).rtp = getRTPtime(clock[t], from, now)
<1>1. PICK c : c = clock[t]
      OBVIOUS
<1>2. PICK n : n = now
      OBVIOUS
<1>3. n \in Times /\ (Playing(c) \/ Pausing(c) \/ Fresh(c))
      BY <1>1, <1>2, TimesOf DEF Sound, ClockInv, ClockOf
<1>4. PlayRTPtime(c, from, a) = PlayRTPtime(c, from, n) /\ PlayRTPtime(c, from, a) \in Int
      BY <1>3, SteadyPlaying, SteadyPausing, SteadyFresh
<1>5. VLCRTPtime(from) \in Int
      BY DEF VLCRTPtime
<1>6. /\ getRTPtime(clock[t], from, a) = getRTPtime(clock[t], from, now)
      /\ getRTPtime(clock[t], from, a) \in Int
      BY <1>1, <1>2, <1>4, <1>5 DEF getRTPtime
<1>. QED
  BY <1>6 DEF Announced, Announcements

(* Announcing to the tracks of a request.                                  *)
LEMMA AnnouncingSound ==
  ASSUME Sound, ask.pc \notin {"teardown", "closed"}, NEW from \in Int, NEW a \in Times, a <= now,
         said' = [t \in Tracks |->
           IF t \in Range(ask.aim) THEN Announced(t, from, a) ELSE said[t]],
         UNCHANGED <<film, now, clock, status, finish, step>>, ask' \in Asks, AskInv'
  PROVE  Sound'
<1>1. said \in [Tracks -> Announcements]
      BY DEF Sound, TypeInv
<1>2. said' \in [Tracks -> Announcements]
      BY <1>1, AnnouncedFacts
<1>3. TypeInv'
      BY <1>2 DEF Sound, TypeInv
<1>4. ClockInv'
  <2> SUFFICES ASSUME NEW u \in Tracks PROVE ClockOf(u)'
      BY DEF ClockInv
  <2>. QED
    BY DEF ClockOf, Sound, ClockInv
<1>5. RtpSteady'
  <2> SUFFICES ASSUME NEW u \in Tracks, said'[u].on
               PROVE  getRTPtime(clock[u], said[u].from, now)' = said'[u].rtp
      BY DEF RtpSteady
  <2>1. getRTPtime(clock[u], said'[u].from, now) = said'[u].rtp
    <3>1. CASE u \in Range(ask.aim)
          BY <3>1, AnnouncedFacts
    <3>2. CASE u \notin Range(ask.aim)
          BY <3>2 DEF Sound, RtpSteady
    <3>. QED
      BY <3>1, <3>2
  <2>. QED
    BY <2>1 DEF getRTPtime
<1>. QED
  BY <1>3, <1>4, <1>5 DEF Sound

(* The answers to PLAY announce what is true when they are written.        *)
LEMMA AnswersSound ==
  ASSUME Sound, answer \/ report
  PROVE  Sound'
<1>1. /\ ask \in Asks /\ ask.rt \in Requests /\ ask.rt.from \in Int /\ AskInv /\ Busy
      /\ ask.pc \notin {"teardown", "closed"} /\ now \in Int /\ 0 <= now
      BY DEF Sound, TypeInv, Asks, Requests, answer, report, Busy
<1>2. Directed(ask)
      BY <1>1 DEF AskInv
<1>3. CASE answer
  <2>1. /\ ask' = [ask EXCEPT !.pc = "execute"]
        /\ UNCHANGED <<film, now, clock, status, finish, step>>
        /\ said' = [t \in Tracks |->
             IF t \in Range(ask.aim) THEN Announced(t, ask.rt.from, ask.time) ELSE said[t]]
        BY <1>3 DEF answer
  <2>2. /\ ask' \in Asks /\ ask'.pc = "execute" /\ ask'.aim = ask.aim /\ ask'.todo = ask.todo
        /\ ask'.time = ask.time /\ ask'.asof = ask.asof
        BY <1>1, <2>1 DEF Asks, Places
  <2>3. Directed(ask')
        BY <1>2, <2>2 DEF Directed
  <2>4. AskInv'
        BY <1>1, <2>1, <2>2, <2>3 DEF AskInv
  <2>. QED
    BY <1>1, <2>1, <2>2, <2>4, TimesOf, AnnouncingSound
<1>4. CASE report
  <2>1. /\ ask' = [ask EXCEPT !.pc = "resume", !.rt = NoAsk.rt, !.asof = 0]
        /\ UNCHANGED <<film, now, clock, status, finish, step>>
        /\ said' = [t \in Tracks |->
             IF t \in Range(ask.aim) THEN Announced(t, ask.rt.from, ask.asof) ELSE said[t]]
        BY <1>4 DEF report
  <2>2. PICK rt \in Requests : rt = NoAsk.rt
        BY NoAskType DEF Asks
  <2>9. ask' = [ask EXCEPT !.pc = "resume", !.rt = rt, !.asof = 0]
        BY <2>1, <2>2
  <2>3. /\ ask' \in Asks /\ ask'.pc = "resume" /\ ask'.aim = ask.aim /\ ask'.todo = ask.todo
        /\ ask'.time = ask.time /\ ask'.asof = 0
    <3>1. "resume" \in Places /\ ask \in Asks /\ rt \in Requests
          BY <1>1 DEF Places
    <3>2. PICK a : a = [ask EXCEPT !.pc = "resume", !.rt = rt]
          OBVIOUS
    <3>4. a \in Asks
          BY <3>1, <3>2 DEF Asks
    <3>5. ask' = [a EXCEPT !.asof = 0]
          BY <2>9, <3>2
    <3>6. ask' \in Asks
          BY <3>4, <3>5 DEF Asks
    <3>3. /\ ask'.pc = "resume" /\ ask'.aim = ask.aim /\ ask'.todo = ask.todo
          /\ ask'.time = ask.time /\ ask'.asof = 0
          BY <2>9, <3>1 DEF Asks
    <3>. QED
      BY <3>3, <3>6
  <2>4. Directed(ask')
        BY <1>2, <2>3 DEF Directed
  <2>5. AskInv'
        BY <1>1, <2>1, <2>3, <2>4 DEF AskInv
  <2>. QED
    BY <1>1, <2>1, <2>3, <2>5, TimesOf, AnnouncingSound
<1>. QED
  BY <1>3, <1>4

(* What a loop leaves of the request is still in order.                    *)
LEMMA OverSound ==
  ASSUME Sound, NEW pc \in {"execute", "resume", "pause", "teardown"}, ask.pc = pc,
         NEW then \in {"idle", "closed"}, ask' = Over(then), now' = now
  PROVE  ask' \in Asks /\ AskInv' /\ ask'.pc \in {pc, then}
<1>1. /\ TypeInv /\ AskInv /\ Busy /\ now \in Int /\ 0 <= now
      BY DEF Sound, Busy, TypeInv
<1>2. then \in Places
      BY DEF Places
<1>3. CASE /\ ask'.pc = ask.pc /\ Directed(ask') /\ ask'.aim = ask.aim /\ ask'.time = ask.time
           /\ ask'.asof = ask.asof
      BY <1>1, <1>2, <1>3, OverFacts DEF AskInv
<1>4. CASE ask'.pc = then /\ ask'.aim = <<>> /\ ask'.time = 0 /\ ask'.asof = 0
      BY <1>1, <1>2, <1>4, OverFacts DEF AskInv, Busy
<1>. QED
  BY <1>1, <1>2, <1>3, <1>4, OverFacts

(* A track that an answer is about is not stopped.                         *)
ReadyInv ==
  /\ ask.pc = "apply" => \A t \in Range(ask.aim) \ Pending : status[t] # "stopped"
  /\ ask.pc \in {"answer", "execute"} => \A t \in Range(ask.aim) : status[t] # "stopped"

(* Starting a track that was prepared touches no clock.                    *)
LEMMA PlaySound ==
  ASSUME Sound, ReadyInv, NEW t \in Tracks, play(t)
  PROVE  Sound'
<1>1. /\ ask.pc = "execute" /\ ask' = Over("idle") /\ status' = [status EXCEPT ![t] = "playing"]
      /\ t = Head(ask.todo) /\ UNCHANGED <<film, now, clock, finish, said, step>>
      BY DEF play, Doing
<1>2. ask' \in Asks /\ AskInv'
      BY <1>1, OverSound
<1>3. /\ step \in SUBSET Tracks /\ clock \in [Tracks -> Clocks] /\ status \in [Tracks -> Statuses]
      BY DEF Sound, TypeInv
<1>4. PICK c \in Clocks : c = clock[t]
      BY <1>3
<1>5. clock' = [clock EXCEPT ![t] = c] /\ "playing" \in Statuses
      BY <1>1, <1>3, <1>4 DEF Statuses
<1>6. status[t] # "stopped"
  <2>1. TypeInv /\ AskInv /\ Busy
        BY <1>1 DEF Sound, Busy
  <2>2. Head(ask.todo) \in Pending /\ Pending \subseteq Range(ask.aim)
        BY <2>1, OverFacts DEF AskInv, Directed, Pending, Places
  <2>. QED
    BY <1>1, <2>2 DEF ReadyInv
<1>7. Playing(c) \/ Pausing(c)
      BY <1>4, <1>6 DEF Sound, ClockInv, ClockOf
<1>8. ClockOf(t)'
      BY <1>1, <1>3, <1>4, <1>7 DEF ClockOf
<1>. QED
  BY <1>1, <1>2, <1>3, <1>4, <1>5, <1>8, ClockMoved

(* A resumption asks the range of each track.                              *)
LEMMA GetPlayRangeSound ==
  ASSUME Sound, NEW t \in Tracks, getPlayRange(t)
  PROVE  Sound'
<1>1. TypeInv /\ AskInv /\ Busy /\ ask.pc = "range" /\ now \in Int /\ 0 <= now
      BY DEF Sound, Busy, TypeInv, getPlayRange, Doing
<1>2. ask \in Asks /\ ask.rt \in Requests /\ finish[t] \in Int
      BY <1>1 DEF TypeInv, Asks
<1> DEFINE rq == [from |-> getPresentationTime(clock[t], now), to |-> finish[t],
                  speed |-> clock[t].play.speed, lead |-> t \in Videos]
<1>3. PICK here \in Int : here = getPresentationTime(clock[t], now)
      BY TrackFacts
<1>4. (t \in Videos) \in BOOLEAN
      OBVIOUS
<1>5. rq = [from |-> here, to |-> finish[t], speed |-> clock[t].play.speed, lead |-> t \in Videos]
      BY <1>3
<1> HIDE DEF rq
<1>6. rq \in Requests
      BY <1>2, <1>4, <1>5, TrackFacts DEF Requests
<1>7. PICK rt \in Requests : rt = merge(ask.rt, rq)
      BY <1>2, <1>6, MergeFacts
<1>8. PICK r \in Asks :
        /\ r = Onward("report") /\ Directed(r) /\ r.aim = ask.aim /\ r.time = ask.time
        /\ r.asof = ask.asof /\ r.rt = ask.rt /\ r.pc \in {"range", "report"}
  <2>1. "report" \in Places
        BY DEF Places
  <2>. QED
    BY <1>1, <2>1, OnwardFacts
<1>9. PICK asof \in {now, ask.asof} : ask' = [r EXCEPT !.rt = rt, !.asof = asof]
  <2>1. ask' = [r EXCEPT !.rt = merge(r.rt, rq), !.asof = IF ask.todo = ask.aim THEN now ELSE r.asof]
        BY <1>8 DEF getPlayRange, rq
  <2>. QED
    BY <1>7, <1>8, <2>1
<1>10. asof \in Int /\ 0 <= asof /\ asof <= now
       BY <1>1, <1>2 DEF AskInv, Asks
<1>11. /\ ask' \in Asks /\ ask'.pc = r.pc /\ ask'.aim = ask.aim /\ ask'.todo = r.todo
       /\ ask'.time = ask.time /\ ask'.asof = asof
       BY <1>8, <1>9, <1>10 DEF Asks
<1>12. Directed(ask')
       BY <1>8, <1>11 DEF Directed
<1>13. step' \in SUBSET Tracks /\ UNCHANGED <<film, now, clock, status, finish, said>>
       BY <1>1 DEF getPlayRange, TypeInv
<1>14. AskInv'
       BY <1>1, <1>8, <1>10, <1>11, <1>12, <1>13 DEF AskInv
<1>. QED
  BY <1>1, <1>11, <1>13, <1>14, ClocksKept

(* A track that is resumed.                                                *)
LEMMA UnpauseSound ==
  ASSUME Sound, NEW t \in Tracks, unpause(t)
  PROVE  Sound'
<1>1. /\ ask.pc = "resume" /\ ask' = Over("idle") /\ UNCHANGED <<film, now, finish, said, step>>
      BY DEF unpause, Doing
<1>2. ask' \in Asks /\ AskInv'
      BY <1>1, OverSound
<1>3. /\ step \in SUBSET Tracks /\ clock \in [Tracks -> Clocks] /\ status \in [Tracks -> Statuses]
      BY DEF Sound, TypeInv
<1>4. CASE status[t] = "paused"
  <2>1. PICK d : d = unpauseClock(clock[t], ask.time, clock[t].play.speed)
        OBVIOUS
  <2>2. /\ Playing(d)
        /\ \A pt \in Int : PlayRTPtime(d, pt, now) = PlayRTPtime(clock[t], pt, now)
    <3>1. status[t] # "stopped" /\ ask.time \in Times /\ ask.time <= now
          BY <1>4, TimesOf
    <3>. QED
      BY <2>1, <3>1, UnpauseKeeps
  <2>3. d \in Clocks /\ "playing" \in Statuses
        BY <2>2 DEF Playing, Statuses
  <2>4. clock' = [clock EXCEPT ![t] = d] /\ status' = [status EXCEPT ![t] = "playing"]
        BY <1>4, <2>1 DEF unpause
  <2>5. ClockOf(t)'
        BY <1>3, <2>2, <2>4 DEF ClockOf
  <2>. QED
    BY <1>1, <1>2, <1>3, <2>2, <2>3, <2>4, <2>5, ClockMoved
<1>5. CASE status[t] # "paused"
  <2>1. UNCHANGED <<status, clock>>
        BY <1>5 DEF unpause
  <2>. QED
    BY <1>1, <1>2, <1>3, <2>1, ClocksKept
<1>. QED
  BY <1>4, <1>5

(* A track that pauses, at the time of a request or by itself.             *)
LEMMA PausedSound ==
  ASSUME Sound, NEW t \in Tracks, status[t] = "playing", NEW a \in Times, a <= now,
         status' = [status EXCEPT ![t] = "paused"],
         clock' = [clock EXCEPT ![t] = pauseClock(@, a)],
         UNCHANGED <<film, now, finish, said>>, step' \in SUBSET Tracks, ask' \in Asks, AskInv',
         ask.pc \in {"teardown", "closed"} => ask'.pc \in {"teardown", "closed"}
  PROVE  Sound'
<1>1. /\ clock \in [Tracks -> Clocks] /\ status \in [Tracks -> Statuses]
      BY DEF Sound, TypeInv
<1>2. PICK d : d = pauseClock(clock[t], a)
      OBVIOUS
<1>3. /\ Pausing(d)
      /\ \A pt \in Int : PlayRTPtime(d, pt, now) = PlayRTPtime(clock[t], pt, now)
      BY <1>2, PauseKeeps
<1>4. d \in Clocks /\ "paused" \in Statuses /\ clock' = [clock EXCEPT ![t] = d]
      BY <1>2, <1>3 DEF Pausing, Statuses
<1>5. ClockOf(t)'
      BY <1>1, <1>3, <1>4 DEF ClockOf
<1>. QED
  BY <1>3, <1>4, <1>5, ClockMoved

(* A track that is paused by a request.                                    *)
LEMMA PauseSound ==
  ASSUME Sound, NEW t \in Tracks, pause(t)
  PROVE  Sound'
<1>1. /\ ask.pc = "pause" /\ ask' = Over("idle") /\ UNCHANGED <<film, now, finish, said, step>>
      BY DEF pause, Doing
<1>2. ask' \in Asks /\ AskInv'
      BY <1>1, OverSound
<1>3. step \in SUBSET Tracks /\ ask.time \in Times /\ ask.time <= now
      BY TimesOf DEF Sound, TypeInv
<1>4. CASE status[t] = "playing"
  <2>1. /\ status' = [status EXCEPT ![t] = "paused"]
        /\ clock' = [clock EXCEPT ![t] = pauseClock(@, ask.time)]
        BY <1>4 DEF pause
  <2>. QED
    BY <1>1, <1>2, <1>3, <1>4, <2>1, PausedSound
<1>5. CASE status[t] # "playing"
  <2>1. UNCHANGED <<status, clock>>
        BY <1>5 DEF pause
  <2>. QED
    BY <1>1, <1>2, <1>3, <2>1, ClocksKept
<1>. QED
  BY <1>4, <1>5

(* A track that is torn down.                                              *)
LEMMA TeardownSound ==
  ASSUME Sound, NEW t \in Tracks, teardown(t)
  PROVE  Sound'
<1>1. /\ ask.pc = "teardown" /\ ask' = Over("closed") /\ status' = [status EXCEPT ![t] = "stopped"]
      /\ clock' = [clock EXCEPT ![t] = stopClock(@, ask.time)]
      /\ UNCHANGED <<film, now, finish, said, step>>
      BY DEF teardown, Doing
<1>2. ask' \in Asks /\ AskInv' /\ ask'.pc \in {"teardown", "closed"}
      BY <1>1, OverSound
<1>3. /\ step \in SUBSET Tracks /\ clock \in [Tracks -> Clocks] /\ status \in [Tracks -> Statuses]
      /\ ask.time \in Times /\ ask.time <= now
      BY TimesOf DEF Sound, TypeInv
<1>4. PICK d : d = stopClock(clock[t], ask.time)
      OBVIOUS
<1>5. /\ Fresh(d) \/ Torn(d, now)
      /\ \A pt \in Int : PlayRTPtime(d, pt, now) = PlayRTPtime(clock[t], pt, now)
      BY <1>3, <1>4, StopKeeps
<1>6. d \in Clocks /\ "stopped" \in Statuses /\ clock' = [clock EXCEPT ![t] = d]
      BY <1>1, <1>4, <1>5 DEF Fresh, Torn, Statuses
<1>7. ClockOf(t)'
      BY <1>1, <1>2, <1>3, <1>5, <1>6 DEF ClockOf
<1>. QED
  BY <1>1, <1>2, <1>3, <1>5, <1>6, <1>7, ClockMoved

(* A thread that takes frames touches no clock and no request.             *)
LEMMA TakesFrames ==
  ASSUME NEW t \in Tracks, TakeFrames(t)
  PROVE  UNCHANGED <<film, now, clock, status, finish, ask, played, said, step>>
BY DEF TakeFrames, seekedFetch, skipFrame, installFrame, sendNextFrame, sendLateFrame

(* Nor does one that ends the process, but for the request it cuts short.  *)
LEMMA FirstFails ==
  ASSUME NEW t \in Tracks, firstFails(t)
  PROVE  /\ UNCHANGED <<film, now, clock, status, finish, played, said, step>>
         /\ ask' = [NoAsk EXCEPT !.pc = "closed", !.asks = ask.asks]
         /\ ask'.pc = "closed"
BY DEF firstFails, NoAsk

(* The send threads, which pause a track at its end.                       *)
LEMMA SendSound ==
  ASSUME Sound, NEW t \in Tracks,
         TakeFrames(t) \/ reachEof(t) \/ reachEnd(t) \/ firstFails(t)
  PROVE  Sound'
<1>1. /\ step \in SUBSET Tracks /\ ask \in Asks /\ AskInv /\ now \in Times /\ now <= now
      BY TimesOf DEF Sound, TypeInv
<1>2. CASE TakeFrames(t)
  <2>1. UNCHANGED <<film, now, clock, status, finish, ask, said, step>>
        BY <1>2, TakesFrames
  <2>2. AskInv'
        BY <1>1, <2>1 DEF AskInv, Busy, WholeAim
  <2>. QED
    BY <1>1, <2>1, <2>2, ClocksKept
<1>3. CASE reachEof(t) \/ reachEnd(t)
  <2>1. /\ status[t] = "playing" /\ status' = [status EXCEPT ![t] = "paused"]
        /\ clock' = [clock EXCEPT ![t] = pauseClock(@, now)] /\ step' = step \ {t}
        /\ UNCHANGED <<film, now, finish, ask, said>>
        BY <1>3 DEF reachEof, reachEnd, FetchFails, SelfPaused, Fetches, Going
  <2>2. AskInv'
        BY <1>1, <2>1 DEF AskInv, Busy, WholeAim
  <2>. QED
    BY <1>1, <2>1, <2>2, PausedSound
<1>4. CASE firstFails(t)
  <2>1. /\ UNCHANGED <<film, now, clock, status, finish, said, step>> /\ ask'.pc = "closed"
        /\ ask' = [NoAsk EXCEPT !.pc = "closed", !.asks = ask.asks]
        BY <1>4, FirstFails
  <2>2. ask' \in Asks /\ AskInv'
        BY <2>1, DroppedSound
  <2>. QED
    BY <1>1, <2>1, <2>2, ClocksKept
<1>. QED
  BY <1>2, <1>3, <1>4

(* Time passes.                                                            *)
LEMMA TickSound ==
  ASSUME Sound, Tick
  PROVE  Sound'
<1>1. /\ now < MaxTime /\ now' = now + 1
      /\ UNCHANGED <<film, clock, status, finish, ask, said, step>>
      BY DEF Tick
<1>2. now \in Int /\ 0 <= now /\ ask \in Asks /\ ask.time \in Int /\ ask.asof \in Int /\ MaxTime \in Nat
      BY TimeAssumption DEF Sound, TypeInv, Asks
<1>3. TypeInv'
      BY <1>1, <1>2 DEF Sound, TypeInv
<1>4. AskInv'
  <2>1. AskInv
        BY DEF Sound
  <2>. QED
    BY <1>1, <1>2, <2>1 DEF AskInv, Busy, WholeAim
<1>5. PICK n : n = now
      OBVIOUS
<1>6. PICK later : later = now + 1
      OBVIOUS
<1>7. n \in Times /\ later \in Times /\ n <= later /\ n \in Int /\ later \in Int
      BY <1>1, <1>2, <1>5, <1>6, TimesOf, TimeAssumption, HugeAssumption DEF Times
<1>8. \A t \in Tracks : ClockOf(t)
      BY DEF Sound, ClockInv
<1>9. ASSUME NEW c, Torn(c, n) PROVE Torn(c, later)
  <2>1. c.life.stop \in Int
        BY <1>9 DEF Torn, Clocks, Segments
  <2>. QED
    BY <1>7, <1>9, <2>1 DEF Torn
<1>10. ClockInv'
  <2> SUFFICES ASSUME NEW t \in Tracks PROVE ClockOf(t)'
      BY DEF ClockInv
  <2>1. ClockOf(t)
        BY <1>8
  <2>2. now' = later /\ clock'[t] = clock[t] /\ status'[t] = status[t] /\ ask' = ask
        BY <1>1, <1>6
  <2>3. Torn(clock[t], now) => Torn(clock[t], later)
        BY <1>5, <1>9
  <2>. QED
    BY <2>1, <2>2, <2>3 DEF ClockOf
<1>11. RtpSteady'
  <2> SUFFICES ASSUME NEW t \in Tracks, said'[t].on
               PROVE  getRTPtime(clock[t], said[t].from, now)' = said'[t].rtp
      BY DEF RtpSteady
  <2>1. PICK c : c = clock[t]
        OBVIOUS
  <2>2. PICK pt \in Int : pt = said[t].from
        BY DEF Sound, TypeInv, Announcements
  <2>3. getRTPtime(c, pt, n) = said[t].rtp
        BY <1>1, <1>5, <2>1, <2>2 DEF Sound, RtpSteady
  <2>4. Settled(c, n)
        BY <1>5, <1>8, <2>1 DEF ClockOf, Settled
  <2>5. PlayRTPtime(c, pt, n) = PlayRTPtime(c, pt, later)
        BY <1>7, <2>4, Steady
  <2>. QED
    BY <1>1, <1>5, <1>6, <2>1, <2>2, <2>3, <2>5 DEF getRTPtime
<1>. QED
  BY <1>3, <1>4, <1>10, <1>11 DEF Sound

-----------------------------------------------------------------------------
(* A track that is applied is no longer stopped, and stays so.             *)

(* No step but a teardown stops a track.                                   *)
LEMMA Unstopped ==
  ASSUME Sound, TimelineNext, ask.pc # "teardown", NEW t \in Tracks, status[t] # "stopped"
  PROVE  status'[t] # "stopped"
<1>1. status \in [Tracks -> Statuses]
      BY DEF Sound, TypeInv
<1>2. CASE Receive \/ Tick
      BY <1>2 DEF Receive, receivePlay, receiveResume, receivePause, receiveTeardown, Tick
<1>3. CASE SendFrames
      BY <1>1, <1>3, TakesFrames, FirstFails DEF SendFrames, reachEof, reachEnd, SelfPaused
<1>4. CASE answer \/ report
      BY <1>4 DEF answer, report
<1>5. ASSUME NEW u \in Tracks, evalStopped(u) \/ evalPlaying(u) \/ evalRefused(u) \/ getPlayRange(u)
      PROVE  status'[t] # "stopped"
      BY <1>5 DEF evalStopped, evalPlaying, evalRefused, getPlayRange
<1>6. ASSUME NEW u \in Tracks, apply(u) \/ applyRefused(u) PROVE status'[t] # "stopped"
  <2>1. status' = [status EXCEPT ![u] = IF @ = "stopped" THEN "paused" ELSE @]
        BY <1>6 DEF apply, applyRefused
  <2>. QED
    BY <1>1, <2>1
<1>7. ASSUME NEW u \in Tracks, play(u) \/ unpause(u) \/ pause(u) PROVE status'[t] # "stopped"
      BY <1>1, <1>7 DEF play, unpause, pause
<1>8. ASSUME NEW u \in Tracks, teardown(u) PROVE FALSE
      BY <1>8 DEF teardown, Doing
<1>. QED
  BY <1>2, <1>3, <1>4, <1>5, <1>6, <1>7, <1>8 DEF TimelineNext, Serve

(* A track that a PLAY has been applied to stays ready till it is started. *)
LEMMA ReadyKept ==
  ASSUME Sound, ReadyInv, TimelineNext
  PROVE  ReadyInv'
<1>0. /\ TypeInv /\ AskInv /\ ask \in Asks /\ status \in [Tracks -> Statuses]
      /\ (Busy => Directed(ask))
      BY DEF Sound, TypeInv, AskInv
<1>1. CASE Receive
  <2>1. ASSUME NEW p \in Films[film].plays, receivePlay(p) PROVE ReadyInv'
    <3>1. p \in Plays
          BY <1>0 DEF Plays, Range, TypeInv
    <3>2. p.aim \in {Order} \cup {<<t>> : t \in Tracks}
          BY <3>1, AimAssumption
    <3>3. PICK pc \in Places : pc = (IF Len(p.aim) > 1 THEN "eval" ELSE "apply") /\ pc \in {"eval", "apply"}
          BY DEF Places
    <3>4. PICK r \in Asks : r = Received(pc, p.aim) /\ r.pc = pc /\ r.aim = p.aim /\ r.todo = p.aim
          BY <1>0, <3>2, ReceivedFacts
    <3>5. PICK rq : ask' = [r EXCEPT !.play = rq, !.rt = rq]
          BY <2>1, <3>3, <3>4 DEF receivePlay
    <3>6. ask'.pc \in {"eval", "apply"} /\ ask'.aim = ask'.todo
          BY <3>3, <3>4, <3>5 DEF Asks
    <3>. QED
      BY <3>6 DEF ReadyInv, Pending
  <2>2. ASSUME NEW pc \in {"range", "pause", "teardown"}, NEW aim, ask' = Received(pc, aim)
        PROVE  ReadyInv'
    <3>1. ask'.pc = pc
          BY <2>2, NoAskType DEF Received, Asks
    <3>. QED
      BY <3>1 DEF ReadyInv
  <2>. QED
    BY <1>1, <2>1, <2>2 DEF Receive, receiveResume, receivePause, receiveTeardown
<1>2. CASE SendFrames \/ Tick
  <2>1. ask' = ask \/ ask'.pc = "closed"
        BY <1>2, TakesFrames, FirstFails DEF SendFrames, Tick, reachEof, reachEnd, SelfPaused
  <2>2. ask.pc # "teardown" => \A t \in Tracks : status[t] # "stopped" => status'[t] # "stopped"
        BY Unstopped
  <2>3. Busy => Range(ask.aim) \subseteq Tracks
        BY <1>0, AimFacts DEF Directed
  <2>. QED
    BY <2>1, <2>2, <2>3 DEF ReadyInv, Pending, Busy
<1>3. ASSUME NEW t \in Tracks, evalStopped(t) \/ evalPlaying(t) PROVE ReadyInv'
  <2>1. PICK rt : ask' = [Onward("apply") EXCEPT !.rt = rt]
        BY <1>3 DEF evalStopped, evalPlaying
  <2>2. ask.pc = "eval" /\ Busy /\ "apply" \in Places
        BY <1>3 DEF evalStopped, evalPlaying, Doing, Busy, Places
  <2>3. PICK r \in Asks : /\ r = Onward("apply") /\ r.aim = ask.aim
                          /\ r.pc = "eval" \/ (r.pc = "apply" /\ r.todo = ask.aim)
        BY <1>0, <2>2, OnwardFacts
  <2>4. ask'.pc = r.pc /\ ask'.aim = ask.aim /\ ask'.todo = r.todo
        BY <2>1, <2>3 DEF Asks
  <2>. QED
    BY <2>3, <2>4 DEF ReadyInv, Pending
<1>4. ASSUME NEW t \in Tracks, evalRefused(t) \/ applyRefused(t) PROVE ReadyInv'
  <2>1. PICK pc \in {"idle", "closed"} : ask' = [NoAsk EXCEPT !.pc = pc, !.asks = ask.asks]
        BY <1>4 DEF evalRefused, applyRefused, NoAsk
  <2>2. ask'.pc = pc
        BY <2>1, NoAskType DEF Asks
  <2>. QED
    BY <2>2 DEF ReadyInv
<1>5. ASSUME NEW t \in Tracks, apply(t) PROVE ReadyInv'
  <2>1. /\ Doing("apply", t) /\ now' = now /\ ask' = [Onward("answer") EXCEPT !.rt.from = ApplyFrom(t)]
        /\ status' = [status EXCEPT ![t] = IF @ = "stopped" THEN "paused" ELSE @]
        BY <1>5 DEF apply
  <2>2. /\ ask'.aim = ask.aim
        /\ \/ ask'.pc = "apply" /\ Range(ask'.todo) = Pending \ {t}
           \/ ask'.pc = "answer" /\ Pending = {t}
        BY <2>1, AppliedAsk
  <2>3. /\ ask.pc = "apply" /\ Busy /\ Range(ask.aim) \subseteq Tracks
        BY <1>0, <2>1, AimFacts DEF Doing, Busy, Directed
  <2>4. \A u \in Range(ask.aim) : u \notin Pending \/ u = t => status'[u] # "stopped"
        BY <1>0, <2>1, <2>3 DEF ReadyInv
  <2>. QED
    BY <2>2, <2>4 DEF ReadyInv, Pending
<1>6. CASE answer
  <2>1. ask' = [ask EXCEPT !.pc = "execute"] /\ status' = status /\ ask.pc = "answer"
        BY <1>6 DEF answer
  <2>2. ask'.pc = "execute" /\ ask'.aim = ask.aim
        BY <1>0, <2>1 DEF Asks
  <2>. QED
    BY <2>1, <2>2 DEF ReadyInv
<1>7. CASE report
  <2>1. ask' = [ask EXCEPT !.pc = "resume", !.rt = NoAsk.rt, !.asof = 0]
        BY <1>7 DEF report
  <2>2. ask'.pc = "resume"
        BY <1>0, <2>1 DEF Asks
  <2>. QED
    BY <2>2 DEF ReadyInv
<1>8. ASSUME NEW t \in Tracks, getPlayRange(t) PROVE ReadyInv'
  <2>1. PICK rt, asof : ask' = [Onward("report") EXCEPT !.rt = rt, !.asof = asof]
        BY <1>8 DEF getPlayRange
  <2>2. ask.pc = "range" /\ Busy /\ "report" \in Places
        BY <1>8 DEF getPlayRange, Doing, Busy, Places
  <2>3. PICK r \in Asks : r = Onward("report") /\ r.pc \in {"range", "report"}
        BY <1>0, <2>2, OnwardFacts
  <2>4. ask'.pc = r.pc
        BY <2>1, <2>3 DEF Asks
  <2>. QED
    BY <2>3, <2>4 DEF ReadyInv
<1>9. ASSUME NEW t \in Tracks, play(t) PROVE ReadyInv'
  <2>1. ask.pc = "execute" /\ Busy /\ ask' = Over("idle") /\ "idle" \in Places
        BY <1>9 DEF play, Doing, Busy, Places
  <2>2. (ask'.pc = "execute" /\ ask'.aim = ask.aim) \/ ask'.pc = "idle"
        BY <1>0, <2>1, OverFacts
  <2>3. Range(ask.aim) \subseteq Tracks
        BY <1>0, <2>1, AimFacts DEF Directed
  <2>4. \A u \in Tracks : status[u] # "stopped" => status'[u] # "stopped"
        BY <2>1, Unstopped
  <2>. QED
    BY <2>1, <2>2, <2>3, <2>4 DEF ReadyInv
<1>10. ASSUME NEW t \in Tracks, unpause(t) \/ pause(t) \/ teardown(t) PROVE ReadyInv'
  <2>1. PICK then \in {"idle", "closed"} : ask' = Over(then)
        BY <1>10 DEF unpause, pause, teardown
  <2>2. ask.pc \in {"resume", "pause", "teardown"} /\ Busy /\ then \in Places
        BY <1>10, <2>1 DEF unpause, pause, teardown, Doing, Busy, Places
  <2>3. ask'.pc \in {ask.pc, then}
        BY <1>0, <2>1, <2>2, OverFacts
  <2>. QED
    BY <2>2, <2>3 DEF ReadyInv
<1>. QED
  BY <1>1, <1>2, <1>3, <1>4, <1>5, <1>6, <1>7, <1>8, <1>9, <1>10 DEF TimelineNext, Serve

-----------------------------------------------------------------------------
(* Every step.                                                             *)
LEMMA NextSound ==
  ASSUME Sound, ReadyInv, TimelineNext
  PROVE  Sound'
<1>1. CASE Receive
      BY <1>1, ReceiveSound
<1>2. CASE SendFrames
      BY <1>2, SendSound DEF SendFrames
<1>3. CASE Tick
      BY <1>3, TickSound
<1>4. CASE Serve
  <2>1. ASSUME NEW t \in Tracks, evalStopped(t) \/ evalPlaying(t) \/ evalRefused(t) PROVE Sound'
        BY <2>1, EvalsSound
  <2>2. ASSUME NEW t \in Tracks, apply(t) \/ applyRefused(t) PROVE Sound'
        BY <2>2, AppliesSound
  <2>3. ASSUME NEW t \in Tracks, play(t) PROVE Sound'
        BY <2>3, PlaySound
  <2>4. ASSUME NEW t \in Tracks, getPlayRange(t) PROVE Sound'
        BY <2>4, GetPlayRangeSound
  <2>5. ASSUME NEW t \in Tracks, unpause(t) PROVE Sound'
        BY <2>5, UnpauseSound
  <2>6. ASSUME NEW t \in Tracks, pause(t) PROVE Sound'
        BY <2>6, PauseSound
  <2>7. ASSUME NEW t \in Tracks, teardown(t) PROVE Sound'
        BY <2>7, TeardownSound
  <2>8. CASE answer \/ report
        BY <2>8, AnswersSound
  <2>. QED
    BY <1>4, <2>1, <2>2, <2>3, <2>4, <2>5, <2>6, <2>7, <2>8 DEF Serve
<1>. QED
  BY <1>1, <1>2, <1>3, <1>4 DEF TimelineNext

(* And none.                                                               *)
LEMMA Stuttering ==
  ASSUME Sound, ReadyInv, UNCHANGED timelineVars
  PROVE  Sound' /\ ReadyInv'
<1>1. /\ UNCHANGED <<film, now, clock, status, finish, said, ask>> /\ step' \in SUBSET Tracks
      /\ ask' \in Asks
      BY DEF timelineVars, Sound, TypeInv
<1>2. AskInv'
      BY <1>1 DEF Sound, AskInv, Busy, WholeAim
<1>3. Sound'
      BY <1>1, <1>2, ClocksKept
<1>4. ReadyInv'
      BY <1>1 DEF ReadyInv, Pending
<1>. QED
  BY <1>3, <1>4

(* The RTP time that a PLAY has announced for a place stays the RTP time   *)
(* of that place, whatever is paused, resumed or comes to its end in the   *)
(* meantime, and however late (Timeline::Medium::getRTPtime, pause,        *)
(* unpause, seek, stop).                                                   *)
THEOREM AnnouncedForGood == TimelineSpec => []RtpSteady
<1>1. TimelineInit => Sound /\ ReadyInv
  <2>1. TimelineInit => ReadyInv
        BY DEF TimelineInit, ReadyInv, NoAsk
  <2>. QED
    BY <2>1, InitSound
<1>2. (Sound /\ ReadyInv) /\ [TimelineNext]_timelineVars => (Sound /\ ReadyInv)'
      BY NextSound, ReadyKept, Stuttering
<1>3. Sound => RtpSteady
      BY DEF Sound
<1>. QED
  BY <1>1, <1>2, <1>3, PTL DEF TimelineSpec

-----------------------------------------------------------------------------
(* Clocks that show the same at one moment, at the same speed, and run or  *)
(* stand together, show the same at all moments.                           *)
LEMMA SameAlways ==
  ASSUME NEW c, NEW d, Playing(c) \/ Pausing(c), Playing(d) \/ Pausing(d),
         c.play.speed = d.play.speed, isRunning(c.play) = isRunning(d.play),
         NEW a \in Times, NEW b \in Times, getPresentationTime(c, a) = getPresentationTime(d, a)
  PROVE  getPresentationTime(c, b) = getPresentationTime(d, b)
<1>1. CASE Playing(c)
  <2>1. isRunning(c.play)
        BY <1>1, PresentationPlaying
  <2>2. ~Pausing(d)
    <3>1. ASSUME Pausing(d) PROVE ~isRunning(d.play)
          BY <3>1, StandsStill DEF Pausing
    <3>. QED
      BY <2>1, <3>1
  <2>3. /\ getPresentationTime(c, b) = getPresentationTime(c, a) + (b - a) * c.play.speed
        /\ getPresentationTime(d, b) = getPresentationTime(d, a) + (b - a) * d.play.speed
        BY <1>1, <2>2, PresentationPlaying
  <2>. QED
    BY <2>3
<1>2. CASE Pausing(c)
  <2>1. ~isRunning(c.play)
        BY <1>2, StandsStill DEF Pausing
  <2>2. ~Playing(d)
    <3>1. ASSUME Playing(d) PROVE isRunning(d.play)
          BY <3>1, PresentationPlaying
    <3>. QED
      BY <2>1, <3>1
  <2>3. /\ getPresentationTime(c, b) = getPresentationTime(c, a)
        /\ getPresentationTime(d, b) = getPresentationTime(d, a)
        BY <1>2, <2>2, PresentationStanding DEF Pausing
  <2>. QED
    BY <2>3
<1>. QED
  BY <1>1, <1>2

(* The tracks in step have clocks that live.                               *)
LEMMA StepFacts ==
  ASSUME Sound, SyncInv, ask.pc \notin {"teardown", "closed"}
  PROVE  /\ StepInv /\ step \in SUBSET Tracks
         /\ \A t \in step : Playing(clock[t]) \/ Pausing(clock[t])
<1>1. StepInv /\ step \in SUBSET Tracks
      BY DEF SyncInv, Sound, TypeInv
<1>2. ASSUME NEW t \in step PROVE Playing(clock[t]) \/ Pausing(clock[t])
  <2>1. ClockOf(t) /\ status[t] # "stopped"
        BY <1>1, <1>2 DEF Sound, ClockInv, StepInv
  <2>. QED
    BY <2>1 DEF ClockOf
<1>. QED
  BY <1>1, <1>2

(* A clock runs when it plays.                                             *)
LEMMA RunningFacts ==
  ASSUME NEW c, Playing(c) \/ Pausing(c)
  PROVE  /\ isRunning(c.play) <=> Playing(c)
         /\ isRunning(c.play) \in BOOLEAN
<1>1. Playing(c) => isRunning(c.play)
      BY PresentationPlaying, HugeAssumption, TimeAssumption DEF Playing, Runs, isRunning, segmentRuns
<1>2. Pausing(c) => ~isRunning(c.play)
      BY StandsStill DEF Pausing
<1>3. isRunning(c.play) \in BOOLEAN
      BY DEF isRunning, segmentRuns
<1>. QED
  BY <1>1, <1>2, <1>3

-----------------------------------------------------------------------------
(* Steps that touch none of the tracks that stay in step.                  *)

(* No tracks are in step.                                                  *)
LEMMA NoneInStep ==
  ASSUME step' = {}, ask'.pc \notin {"answer", "report"}
  PROVE  StepInv'
BY DEF StepInv

(* The tracks in step are left alone.                                      *)
LEMMA SameInStep ==
  ASSUME StepInv, step' \subseteq step, ask' = ask, ask.pc = "idle" => now' = now,
         \A t \in step' : clock'[t] = clock[t] /\ status'[t] = status[t]
  PROVE  StepInv'
<1>1. \A t \in step' : At(t)' = At(t) /\ Honest(t)' = Honest(t)
      BY DEF At, Honest
<1>. QED
  BY <1>1 DEF StepInv, WholeAim, Pending

(* A track that pauses by itself is no longer in step.                     *)
LEMMA SendInStep ==
  ASSUME Sound, SyncInv, NEW t \in Tracks,
         TakeFrames(t) \/ reachEof(t) \/ reachEnd(t) \/ firstFails(t)
  PROVE  SyncInv'
<1>0. CASE firstFails(t)
      BY <1>0, FirstFails DEF SyncInv
<1>. SUFFICES ASSUME ~firstFails(t) PROVE SyncInv'
     BY <1>0
<1>1. /\ clock \in [Tracks -> Clocks] /\ status \in [Tracks -> Statuses] /\ step \in SUBSET Tracks
      BY DEF Sound, TypeInv
<1>2. /\ ask' = ask /\ now' = now /\ step' \subseteq step
      /\ \A u \in step' : clock'[u] = clock[u] /\ status'[u] = status[u]
      BY <1>1, TakesFrames DEF reachEof, reachEnd, SelfPaused
<1>3. CASE ask.pc \in {"teardown", "closed"}
      BY <1>2, <1>3 DEF SyncInv
<1>4. CASE ask.pc \notin {"teardown", "closed"}
      BY <1>2, <1>4, SameInStep DEF SyncInv
<1>. QED
  BY <1>3, <1>4

(* As time passes they go on alike.                                        *)
LEMMA TickInStep ==
  ASSUME Sound, SyncInv, Tick
  PROVE  SyncInv'
<1>1. /\ now' = now + 1 /\ now < MaxTime /\ UNCHANGED <<clock, status, ask, step>>
      BY DEF Tick
<1>2. CASE ask.pc \in {"teardown", "closed"}
      BY <1>1, <1>2 DEF SyncInv
<1>3. CASE ask.pc \notin {"teardown", "closed"} /\ ask.pc # "idle"
      BY <1>1, <1>3, SameInStep DEF SyncInv
<1>4. CASE ask.pc = "idle"
  <2>1. PICK n : n = now
        OBVIOUS
  <2>2. PICK later : later = now + 1
        OBVIOUS
  <2>3. n \in Times /\ later \in Times
        BY <1>1, <2>1, <2>2, TimesOf, TimeAssumption, HugeAssumption DEF Times
  <2>4. /\ StepInv /\ ~WholeAim /\ \A t \in step : Playing(clock[t]) \/ Pausing(clock[t])
    <3>1. ask.aim = <<>>
          BY <1>4 DEF Sound, AskInv
    <3>. QED
      BY <1>4, <3>1, StepFacts DEF WholeAim
  <2>5. \A t, u \in step :
          /\ clock[t].play.speed = clock[u].play.speed
          /\ getPresentationTime(clock[t], n) = getPresentationTime(clock[u], n)
          /\ isRunning(clock[t].play) = isRunning(clock[u].play)
        BY <1>4, <2>1, <2>4 DEF StepInv, At
  <2>6. \A t, u \in step : getPresentationTime(clock[t], later) = getPresentationTime(clock[u], later)
    <3> SUFFICES ASSUME NEW t \in step, NEW u \in step
                 PROVE  getPresentationTime(clock[t], later) = getPresentationTime(clock[u], later)
        OBVIOUS
    <3>1. PICK c : c = clock[t]
          OBVIOUS
    <3>2. PICK d : d = clock[u]
          OBVIOUS
    <3>3. /\ Playing(c) \/ Pausing(c)
          /\ Playing(d) \/ Pausing(d)
          /\ c.play.speed = d.play.speed
          /\ getPresentationTime(c, n) = getPresentationTime(d, n)
          /\ isRunning(c.play) = isRunning(d.play)
          BY <2>4, <2>5, <3>1, <3>2
    <3>4. getPresentationTime(c, later) = getPresentationTime(d, later)
          BY <2>3, <3>3, SameAlways
    <3>. QED
      BY <3>1, <3>2, <3>4
  <2>7. \A t, u \in step : At(t)' = At(u)'
        BY <1>1, <1>4, <2>2, <2>6 DEF At
  <2>8. \A t \in step : Honest(t)' = Honest(t)
        BY <1>1 DEF Honest
  <2>9. StepInv'
        BY <1>1, <1>4, <2>4, <2>7, <2>8 DEF StepInv, WholeAim, Pending
  <2>. QED
    BY <2>9 DEF SyncInv
<1>. QED
  BY <1>2, <1>3, <1>4

-----------------------------------------------------------------------------
(* Requests that are read.                                                 *)
LEMMA ReceivedInStep ==
  ASSUME Sound, SyncInv, ask.pc = "idle", UNCHANGED <<now, clock, status>>, step' \subseteq step,
         ask'.pc \in {"eval", "apply", "range", "pause"}, ask'.todo = ask'.aim, ask'.time = now,
         ask'.aim \in {Order} \cup {<<t>> : t \in Tracks},
         ask'.pc = "eval" => step' = {} /\ Len(ask'.aim) > 1,
         ask'.pc = "apply" => ~(Len(ask'.aim) > 1),
         ~(Len(ask'.aim) > 1) => step' \cap Range(ask'.aim) = {}
  PROVE  SyncInv'
<1>1. StepInv /\ step \in SUBSET Tracks /\ ~WholeAim
  <2>1. ask.aim = <<>>
        BY DEF Sound, AskInv
  <2>. QED
    BY <2>1, StepFacts DEF WholeAim
<1>2. \A t \in step : At(t)' = At(t) /\ Honest(t)' = Honest(t)
      BY DEF At, Honest
<1>3. /\ \A t \in step : status[t] # "stopped" /\ Honest(t)
      /\ \A t, u \in step : /\ clock[t].play.speed = clock[u].play.speed /\ At(t) = At(u)
                             /\ isRunning(clock[t].play) = isRunning(clock[u].play)
      BY <1>1 DEF StepInv
<1>4. Len(ask'.aim) > 1 => Range(ask'.aim) = Tracks
      BY AimFacts
<1>5. ask'.pc \in {"range", "pause"} \/ step' = {} \/ ~(Len(ask'.aim) > 1)
      OBVIOUS
<1>6. /\ \A t \in step' : status'[t] # "stopped" /\ Honest(t)'
      /\ \A t, u \in step' : /\ clock'[t].play.speed = clock'[u].play.speed /\ At(t)' = At(u)'
                              /\ isRunning(clock'[t].play) = isRunning(clock'[u].play)
      BY <1>2, <1>3
<1>7. WholeAim' => Pending' = Tracks
      BY <1>4 DEF WholeAim, Pending
<1>8. ask'.pc = "apply" => step' \cap Pending' = {}
      BY DEF Pending
<1>9. StepInv'
      BY <1>1, <1>6, <1>7, <1>8 DEF StepInv, WholeAim
<1>. QED
  BY <1>9 DEF SyncInv

(* Every request that is read.                                             *)
LEMMA ReceiveInStep ==
  ASSUME Sound, SyncInv, Receive
  PROVE  SyncInv'
<1>0. film \in DOMAIN Films /\ TypeInv
      BY DEF Sound, TypeInv
<1>1. ASSUME NEW p \in Films[film].plays, receivePlay(p) PROVE SyncInv'
  <2>1. p \in Plays
        BY <1>0 DEF Plays, Range
  <2>2. p.aim \in {Order} \cup {<<t>> : t \in Tracks}
        BY <2>1, AimAssumption
  <2>3. PICK pc \in Places : pc = (IF Len(p.aim) > 1 THEN "eval" ELSE "apply") /\ pc \in {"eval", "apply"}
        BY DEF Places
  <2>4. PICK r \in Asks : /\ r = Received(pc, p.aim) /\ r.pc = pc /\ r.aim = p.aim /\ r.todo = p.aim
                          /\ r.time = now
        BY <1>0, <2>2, ReceivedFacts
  <2>5. PICK rq : ask' = [r EXCEPT !.play = rq, !.rt = rq]
        BY <1>1, <2>3, <2>4 DEF receivePlay
  <2>6. ask'.pc = pc /\ ask'.aim = p.aim /\ ask'.todo = p.aim /\ ask'.time = now
        BY <2>4, <2>5 DEF Asks
  <2>7. /\ ask.pc = "idle" /\ UNCHANGED <<now, clock, status>>
        /\ step' = (IF Len(p.aim) > 1 THEN {} ELSE step \ Range(p.aim))
        BY <1>1 DEF receivePlay
  <2>8. /\ step' \subseteq step /\ (Len(p.aim) > 1 => step' = {})
        /\ (~(Len(p.aim) > 1) => step' \cap Range(p.aim) = {})
        BY <2>7
  <2>9. (pc = "eval" /\ Len(p.aim) > 1) \/ (pc = "apply" /\ ~(Len(p.aim) > 1))
        BY <2>3
  <2>. QED
    BY <2>2, <2>6, <2>7, <2>8, <2>9, ReceivedInStep
<1>2. ASSUME NEW aim \in Aims, receiveResume(aim) \/ receivePause(aim) PROVE SyncInv'
  <2>1. PICK pc \in {"range", "pause"} :
          /\ ask.pc = "idle" /\ ask' = Received(pc, aim) /\ UNCHANGED <<now, clock, status>>
          /\ step' = IF Len(aim) > 1 THEN step ELSE step \ Range(aim)
        BY <1>2 DEF receiveResume, receivePause
  <2>2. aim \in {Order} \cup {<<t>> : t \in Tracks} /\ pc \in Places
        BY AimAssumption DEF Places
  <2>3. ask'.pc = pc /\ ask'.aim = aim /\ ask'.todo = aim /\ ask'.time = now
        BY <1>0, <2>1, <2>2, ReceivedFacts
  <2>4. step' \subseteq step /\ (~(Len(aim) > 1) => step' \cap Range(aim) = {})
        BY <2>1
  <2>. QED
    BY <2>1, <2>2, <2>3, <2>4, ReceivedInStep
<1>3. ASSUME receiveTeardown PROVE SyncInv'
  <2>1. "teardown" \in Places
        BY DEF Places
  <2>2. ask'.pc = "teardown"
        BY <1>0, <1>3, <2>1, ReceivedFacts DEF receiveTeardown
  <2>. QED
    BY <2>2 DEF SyncInv
<1>. QED
  BY <1>1, <1>2, <1>3 DEF Receive

-----------------------------------------------------------------------------
(* PLAY of all tracks, up to the answer.                                   *)
LEMMA EvalInStep ==
  ASSUME Sound, SyncInv, NEW t \in Tracks,
         evalStopped(t) \/ evalPlaying(t) \/ evalRefused(t) \/ applyRefused(t)
  PROVE  SyncInv'
<1>0. TypeInv /\ AskInv
      BY DEF Sound
<1>1. CASE evalStopped(t) \/ evalPlaying(t)
  <2>1. ask.pc = "eval" /\ Busy /\ step' = step /\ "apply" \in Places
        BY <1>1 DEF evalStopped, evalPlaying, Doing, Busy, Places
  <2>2. step' = {}
        BY <2>1 DEF SyncInv, StepInv
  <2>3. PICK rt : ask' = [Onward("apply") EXCEPT !.rt = rt]
        BY <1>1 DEF evalStopped, evalPlaying
  <2>4. PICK r \in Asks : r = Onward("apply") /\ r.pc \in {"eval", "apply"}
        BY <1>0, <2>1, OnwardFacts
  <2>5. ask'.pc \in {"eval", "apply"}
        BY <2>3, <2>4 DEF Asks
  <2>. QED
    BY <2>2, <2>5, NoneInStep DEF SyncInv
<1>2. CASE evalRefused(t) \/ applyRefused(t)
  <2>1. PICK pc \in {"idle", "closed"} : ask' = [NoAsk EXCEPT !.pc = pc, !.asks = ask.asks]
        BY <1>2 DEF evalRefused, applyRefused, NoAsk
  <2>2. ask'.pc = pc
        BY <2>1, NoAskType DEF Asks
  <2>3. ask.pc = "eval" => step = {}
        BY DEF SyncInv, StepInv
  <2>4. step' = {}
        BY <1>2, <2>3 DEF evalRefused, applyRefused, Doing
  <2>. QED
    BY <2>2, <2>4, NoneInStep DEF SyncInv
<1>. QED
  BY <1>1, <1>2

(* Steps that only lead the request on.                                    *)
LEMMA AnswersInStep ==
  ASSUME Sound, SyncInv, NEW t \in Tracks, answer \/ report \/ getPlayRange(t)
  PROVE  SyncInv'
<1>0. TypeInv /\ AskInv /\ ask \in Asks
      BY DEF Sound, TypeInv
<1>1. /\ UNCHANGED <<now, clock, status, step>> /\ ask.pc \in {"answer", "report", "range"} /\ Busy
      BY DEF answer, report, getPlayRange, Doing, Busy
<1>2. StepInv /\ step \in SUBSET Tracks
      BY <1>1, StepFacts
<1>3. /\ ask'.aim = ask.aim /\ ask'.time = ask.time
      /\ \/ /\ ask.pc = "answer" /\ ask'.pc = "execute" /\ ask'.todo = ask.aim
            /\ ask'.rt = ask.rt
         \/ /\ ask.pc = "report" /\ ask'.pc = "resume" /\ ask'.todo = ask.aim
         \/ /\ ask.pc = "range" /\ ask'.pc = "range"
         \/ /\ ask.pc = "range" /\ ask'.pc = "report" /\ ask'.todo = ask.aim
  <2>1. CASE answer
    <3>1. ask' = [ask EXCEPT !.pc = "execute"] /\ ask.pc = "answer" /\ ask.todo = ask.aim
          BY <1>2, <2>1 DEF answer, StepInv
    <3>. QED
      BY <1>0, <3>1 DEF Asks
  <2>2. CASE report
    <3>1. /\ ask' = [ask EXCEPT !.pc = "resume", !.rt = NoAsk.rt, !.asof = 0] /\ ask.pc = "report"
          /\ ask.todo = ask.aim
          BY <1>2, <2>2 DEF report, StepInv
    <3>. QED
      BY <1>0, <3>1 DEF Asks
  <2>3. CASE getPlayRange(t)
    <3>1. ask.pc = "range" /\ "report" \in Places
          BY <2>3 DEF getPlayRange, Doing, Places
    <3>2. PICK rt, asof : ask' = [Onward("report") EXCEPT !.rt = rt, !.asof = asof]
          BY <2>3 DEF getPlayRange
    <3>3. PICK r \in Asks :
            /\ r = Onward("report") /\ r.aim = ask.aim /\ r.time = ask.time
            /\ r.pc = "range" \/ (r.pc = "report" /\ r.todo = ask.aim)
          BY <1>0, <1>1, <3>1, OnwardFacts
    <3>4. ask'.pc = r.pc /\ ask'.aim = ask.aim /\ ask'.todo = r.todo /\ ask'.time = ask.time
          BY <3>2, <3>3 DEF Asks
    <3>. QED
      BY <3>1, <3>3, <3>4
  <2>. QED
    BY <2>1, <2>2, <2>3
<1>4. \A u \in step : At(u)' = At(u) /\ Honest(u)' = Honest(u)
      BY <1>1, <1>3 DEF At, Honest
<1>5. Len(ask.aim) > 1 => Range(ask.aim) = Tracks
      BY <1>0, <1>1, AimFacts DEF AskInv, Directed
<1>6. StepInv'
  <2>1. CASE ask.pc = "answer"
    <3>1. /\ ask'.pc = "execute" /\ ask'.todo = ask.aim /\ ask'.rt = ask.rt
          BY <1>3, <2>1
    <3>2. WholeAim => step \ Pending' = {}
          BY <1>2, <1>5, <3>1 DEF Pending, WholeAim
    <3>. QED
      BY <1>1, <1>2, <1>3, <1>4, <2>1, <3>1, <3>2 DEF StepInv, WholeAim
  <2>2. CASE ask.pc = "report"
    <3>1. ask'.pc = "resume" /\ ask'.todo = ask.aim
          BY <1>3, <2>2
    <3>2. WholeAim => step \ Pending' = {}
          BY <1>2, <1>5, <3>1 DEF Pending, WholeAim
    <3>. QED
      BY <1>1, <1>2, <1>3, <1>4, <2>2, <3>1, <3>2 DEF StepInv, WholeAim
  <2>3. CASE ask.pc = "range"
    <3>1. ask'.pc = "range" \/ (ask'.pc = "report" /\ ask'.todo = ask.aim)
          BY <1>3, <2>3
    <3>. QED
      BY <1>1, <1>2, <1>3, <1>4, <2>3, <3>1 DEF StepInv, WholeAim
  <2>. QED
    BY <1>1, <2>1, <2>2, <2>3
<1>. QED
  BY <1>6 DEF SyncInv

(* The track that is reached shows the place sought, at the time of the    *)
(* request, unless it was playing and is late.                             *)
LEMMA SoughtInStep ==
  ASSUME Sound, ask.pc = "apply", NEW t \in Tracks, NEW d,
         d = seekClock(clock[t], ask.time, ApplyFrom(t), ApplySpeed(t))
  PROVE  /\ isRunning(d.play) /\ d.play.speed = ApplySpeed(t)
         /\ ~Late(t) => getPresentationTime(d, ask.time) = ApplyFrom(t)
<1>1. /\ now \in Times /\ ask.time \in Times /\ ask.time <= now /\ now \in Int /\ ask.time \in Int
      BY TimesOf DEF Times
<1>2. Playing(clock[t]) \/ Pausing(clock[t]) \/ Fresh(clock[t])
      BY DEF Sound, ClockInv, ClockOf
<1>3. /\ Playing(d) /\ d.play.speed = ApplySpeed(t)
      /\ ~isRunning(clock[t].play) \/ now = ask.time => getPresentationTime(d, ask.time) = ApplyFrom(t)
      BY <1>1, <1>2, ApplyFacts, SeekMoves
<1>4. ~Late(t) => ~isRunning(clock[t].play) \/ now = ask.time
      BY <1>1 DEF Late
<1>. QED
  BY <1>3, <1>4, RunningFacts

(* A PLAY of all that is applied to one more of them.                      *)
LEMMA ApplyInStep ==
  ASSUME Sound, SyncInv, NEW t \in Tracks, apply(t)
  PROVE  SyncInv'
<1>0. TypeInv /\ AskInv /\ ask.pc = "apply" /\ Busy /\ t = Head(ask.todo)
      BY DEF Sound, apply, Doing, Busy
<1>1. /\ StepInv /\ step \in SUBSET Tracks
      /\ clock \in [Tracks -> Clocks] /\ status \in [Tracks -> Statuses]
      BY <1>0, StepFacts DEF TypeInv
<1>2. PICK d : d = seekClock(clock[t], ask.time, ApplyFrom(t), ApplySpeed(t))
      OBVIOUS
<1>3. /\ clock' = [clock EXCEPT ![t] = d]
      /\ status' = [status EXCEPT ![t] = IF @ = "stopped" THEN "paused" ELSE @]
      /\ step' = (IF WholeAim /\ ~Late(t) THEN step \cup {t} ELSE step) /\ now' = now
      /\ ask' = [Onward("answer") EXCEPT !.rt.from = ApplyFrom(t)] /\ Doing("apply", t)
      BY <1>2 DEF apply
<1>4. /\ ask'.aim = ask.aim /\ ask'.time = ask.time /\ ask'.rt.speed = ask.rt.speed
      /\ ask'.rt.from = ApplyFrom(t)
      /\ \/ ask'.pc = "apply" /\ Range(ask'.todo) = Pending \ {t}
         \/ ask'.pc = "answer" /\ Pending = {t}
      BY <1>3, AppliedAsk
<1>5. ask'.pc = "answer" => ask'.todo = ask'.aim
  <2>1. "answer" \in Places
        BY DEF Places
  <2>2. PICK r \in Asks : /\ r = Onward("answer")
                          /\ r.pc = "apply" \/ r.todo = ask.aim
        BY <1>0, <2>1, OnwardFacts
  <2>3. PICK rt : ask' = [r EXCEPT !.rt = rt]
        BY <1>3, <2>2
  <2>4. ask'.pc = r.pc /\ ask'.todo = r.todo
        BY <2>2, <2>3 DEF Asks
  <2>. QED
    BY <1>4, <2>2, <2>4
<1>6. t \in Pending /\ Pending \subseteq Range(ask.aim)
  <2>1. "answer" \in Places
        BY DEF Places
  <2>. QED
    BY <1>0, <2>1, OnwardFacts DEF AskInv, Directed, Pending
<1>7. \A u \in step : /\ u # t /\ clock'[u] = clock[u] /\ status'[u] = status[u]
                      /\ At(u)' = At(u) /\ Honest(u)' = Honest(u)
  <2> TAKE u \in step
  <2>1. u # t
        BY <1>0, <1>1, <1>6 DEF StepInv
  <2>2. clock'[u] = clock[u] /\ status'[u] = status[u]
        BY <1>1, <1>3, <2>1
  <2>. QED
    BY <1>0, <1>4, <2>1, <2>2 DEF At, Honest
<1>8. status'[t] # "stopped" /\ clock'[t] = d
      BY <1>1, <1>3
<1>9. CASE ~WholeAim
  <2>1. step' = step
        BY <1>3, <1>9
  <2>2. step \cap Range(ask.aim) = {}
        BY <1>1, <1>9 DEF StepInv
  <2>3. StepInv'
        BY <1>0, <1>1, <1>4, <1>5, <1>6, <1>7, <1>9, <2>1, <2>2 DEF StepInv, WholeAim, Pending
  <2>. QED
    BY <2>3 DEF SyncInv
<1>10. CASE WholeAim
  <2>1. ApplyFrom(t) = ask.rt.from /\ ApplySpeed(t) = ask.rt.speed
        BY <1>0, <1>10, ApplyFacts
  <2>2. ASSUME NEW u \in step'
        PROVE  /\ isRunning(clock'[u].play) /\ clock'[u].play.speed = ask'.rt.speed
               /\ At(u)' = ask'.rt.from /\ status'[u] # "stopped"
    <3>1. CASE u \in step
          BY <1>0, <1>1, <1>4, <1>7, <1>10, <2>1, <3>1 DEF StepInv
    <3>2. CASE u \notin step
      <4>1. u = t /\ ~Late(t)
            BY <1>3, <2>2, <3>2
      <4>2. /\ isRunning(d.play) /\ d.play.speed = ApplySpeed(t)
            /\ getPresentationTime(d, ask.time) = ApplyFrom(t)
            BY <1>0, <1>2, <4>1, SoughtInStep
      <4>3. At(t)' = getPresentationTime(d, ask.time)
            BY <1>4, <1>8 DEF At
      <4>. QED
        BY <1>4, <1>8, <2>1, <4>1, <4>2, <4>3
    <3>. QED
      BY <3>1, <3>2
  <2>3. ask'.pc = "apply" => step' \cap Pending' = {}
    <3>1. step' \subseteq step \cup {t} /\ step \cap Pending = {}
          BY <1>0, <1>1, <1>3 DEF StepInv
    <3>. QED
      BY <1>4, <3>1 DEF Pending
  <2>4. StepInv'
        BY <1>4, <1>5, <1>10, <2>2, <2>3 DEF StepInv, WholeAim
  <2>. QED
    BY <2>4 DEF SyncInv
<1>. QED
  BY <1>9, <1>10

-----------------------------------------------------------------------------
(* The loops that play, pause and resume.  What they leave of step, with   *)
(* the clocks as of the time of the request.                               *)
Reached(t) == Pending \ {t}

(* A loop that has reached one more track: what it does to all of them it  *)
(* does at the time of the request.                                        *)
LEMMA OverInStep ==
  ASSUME Sound, SyncInv, ask.pc \in {"execute", "resume", "pause"}, NEW t \in Tracks,
         t = Head(ask.todo), ask' = Over("idle"), now' = now, step' = step,
         \A u \in step : /\ status'[u] # "stopped" /\ (Playing(clock'[u]) \/ Pausing(clock'[u]))
                         /\ clock'[u].play.speed = clock[u].play.speed
                         /\ getPresentationTime(clock'[u], ask.time) = getPresentationTime(clock[u], ask.time),
         ~WholeAim => \A u \in step : clock'[u] = clock[u] /\ status'[u] = status[u],
         WholeAim /\ ask.pc = "execute" => \A u \in step : isRunning(clock'[u].play),
         WholeAim /\ ask.pc = "execute" => \A u \in step \ Reached(t) : status'[u] = "playing",
         WholeAim /\ ask.pc # "execute" =>
           /\ \A u \in step : isRunning(clock'[u].play) <=> status'[u] = "playing"
           /\ \A u, w \in step \cap Reached(t) : isRunning(clock'[u].play) = isRunning(clock'[w].play)
           /\ \A u \in step \ Reached(t) : isRunning(clock'[u].play) <=> ask.pc = "resume"
  PROVE  SyncInv'
<1>0. TypeInv /\ AskInv /\ Busy /\ StepInv /\ step \in SUBSET Tracks /\ "idle" \in Places
      /\ ask.time \in Times /\ now \in Times
      BY StepFacts, TimesOf DEF Sound, Busy, Places
<1>1. \A u, w \in step :
        /\ clock'[u].play.speed = clock'[w].play.speed
        /\ getPresentationTime(clock'[u], ask.time) = getPresentationTime(clock'[w], ask.time)
      BY <1>0 DEF StepInv, At
<1>2. /\ t \in Pending
      /\ \/ /\ ask'.pc = ask.pc /\ Range(ask'.todo) = Pending \ {t}
            /\ ask'.aim = ask.aim /\ ask'.time = ask.time /\ ask'.rt = ask.rt
         \/ /\ ask'.pc = "idle" /\ ask'.aim = <<>> /\ Pending = {t}
      BY <1>0, OverFacts
<1>3. CASE /\ ask'.pc = ask.pc /\ Range(ask'.todo) = Pending \ {t}
           /\ ask'.aim = ask.aim /\ ask'.time = ask.time /\ ask'.rt = ask.rt
  <2>1. \A u \in step : At(u)' = At(u)
        BY <1>3 DEF At
  <2>2. WholeAim' <=> WholeAim
        BY <1>3 DEF WholeAim
  <2>3. Pending' = Reached(t)
        BY <1>3 DEF Pending, Reached
  <2>4. CASE ~WholeAim
    <3>1. \A u \in step : Honest(u)' = Honest(u)
          BY <2>4 DEF Honest
    <3>2. StepInv'
          BY <1>0, <1>3, <2>1, <2>2, <2>4, <3>1 DEF StepInv
    <3>. QED
      BY <3>2 DEF SyncInv
  <2>5. CASE WholeAim
    <3>1. \A u \in step : Honest(u)' <=> (isRunning(clock'[u].play) <=> status'[u] = "playing")
          BY DEF Honest
    <3>2. StepInv'
      <4>1. CASE ask.pc = "execute"
            BY <1>0, <1>3, <2>1, <2>2, <2>3, <2>5, <4>1 DEF StepInv
      <4>2. CASE ask.pc \in {"resume", "pause"}
            BY <1>0, <1>3, <2>1, <2>2, <2>3, <2>5, <3>1, <4>2 DEF StepInv
      <4>. QED
        BY <4>1, <4>2
    <3>. QED
      BY <3>2 DEF SyncInv
  <2>. QED
    BY <2>4, <2>5
<1>4. CASE ask'.pc = "idle" /\ ask'.aim = <<>> /\ Pending = {t}
  <2>1. ~WholeAim'
        BY <1>4 DEF WholeAim
  <2>2. Reached(t) = {}
        BY <1>4 DEF Reached
  <2>3. \A u \in step : isRunning(clock'[u].play) <=> status'[u] = "playing"
    <3>1. CASE ~WholeAim
          BY <1>0, <3>1 DEF StepInv, Honest
    <3>2. CASE WholeAim
          BY <2>2, <3>2
    <3>. QED
      BY <3>1, <3>2
  <2>4. \A u, w \in step : isRunning(clock'[u].play) = isRunning(clock'[w].play)
    <3> SUFFICES ASSUME NEW u \in step, NEW w \in step
                 PROVE  isRunning(clock'[u].play) = isRunning(clock'[w].play)
        OBVIOUS
    <3>0. isRunning(clock'[u].play) \in BOOLEAN /\ isRunning(clock'[w].play) \in BOOLEAN
          BY DEF isRunning, segmentRuns
    <3>1. CASE ~WholeAim
          BY <1>0, <3>1 DEF StepInv
    <3>2. CASE WholeAim /\ ask.pc = "execute"
          BY <3>0, <3>2
    <3>3. CASE WholeAim /\ ask.pc # "execute"
      <4>1. u \in step \ Reached(t) /\ w \in step \ Reached(t)
            BY <2>2
      <4>2. /\ isRunning(clock'[u].play) <=> ask.pc = "resume"
            /\ isRunning(clock'[w].play) <=> ask.pc = "resume"
            BY <3>3, <4>1
      <4>. QED
        BY <3>0, <4>2
    <3>. QED
      BY <3>1, <3>2, <3>3
  <2>5. \A u, w \in step : getPresentationTime(clock'[u], now) = getPresentationTime(clock'[w], now)
    <3> SUFFICES ASSUME NEW u \in step, NEW w \in step
                 PROVE  getPresentationTime(clock'[u], now) = getPresentationTime(clock'[w], now)
        OBVIOUS
    <3>1. PICK c : c = clock'[u]
          OBVIOUS
    <3>2. PICK d : d = clock'[w]
          OBVIOUS
    <3>3. PICK a \in Times : a = ask.time
          BY <1>0
    <3>4. /\ Playing(c) \/ Pausing(c)
          /\ Playing(d) \/ Pausing(d)
          /\ c.play.speed = d.play.speed
          /\ getPresentationTime(c, a) = getPresentationTime(d, a)
          /\ isRunning(c.play) = isRunning(d.play)
          BY <1>1, <2>4, <3>1, <3>2, <3>3
    <3>5. getPresentationTime(c, now) = getPresentationTime(d, now)
          BY <1>0, <3>4, SameAlways
    <3>. QED
      BY <3>1, <3>2, <3>5
  <2>6. \A u, w \in step : At(u)' = At(w)'
        BY <1>4, <2>5 DEF At
  <2>7. \A u \in step : Honest(u)'
        BY <2>3 DEF Honest
  <2>8. ask'.aim = <<>> => Range(ask'.aim) = {}
        BY DEF Range
  <2>9. StepInv'
        BY <1>1, <1>4, <2>1, <2>4, <2>6, <2>7, <2>8 DEF StepInv
  <2>. QED
    BY <2>9 DEF SyncInv
<1>. QED
  BY <1>2, <1>3, <1>4

(* The track that a loop has come to.                                      *)
LEMMA LoopFacts ==
  ASSUME Sound, ask.pc \in {"execute", "resume", "pause"}
  PROVE  Head(ask.todo) \in Pending /\ Pending \subseteq Range(ask.aim)
<1>1. TypeInv /\ AskInv /\ Busy /\ "idle" \in Places
      BY DEF Sound, Busy, Places
<1>. QED
  BY <1>1, OverFacts DEF AskInv, Directed, Pending

(* Starting them.                                                          *)
LEMMA PlayInStep ==
  ASSUME Sound, SyncInv, NEW t \in Tracks, play(t)
  PROVE  SyncInv'
<1>0. /\ ask.pc = "execute" /\ t = Head(ask.todo) /\ ask' = Over("idle") /\ now' = now /\ step' = step
      /\ clock' = clock /\ status' = [status EXCEPT ![t] = "playing"]
      BY DEF play, Doing
<1>1. /\ StepInv /\ step \in SUBSET Tracks /\ \A u \in step : Playing(clock[u]) \/ Pausing(clock[u])
      /\ status \in [Tracks -> Statuses]
      BY <1>0, StepFacts DEF Sound, TypeInv
<1>2. t \in Pending /\ Pending \subseteq Range(ask.aim)
      BY <1>0, LoopFacts
<1>3. ~WholeAim => t \notin step
      BY <1>1, <1>2 DEF StepInv
<1>4. \A u \in step : /\ status'[u] # "stopped" /\ (Playing(clock'[u]) \/ Pausing(clock'[u]))
                      /\ clock'[u].play.speed = clock[u].play.speed
                      /\ getPresentationTime(clock'[u], ask.time) = getPresentationTime(clock[u], ask.time)
      BY <1>0, <1>1 DEF StepInv
<1>5. ~WholeAim => \A u \in step : clock'[u] = clock[u] /\ status'[u] = status[u]
      BY <1>0, <1>1, <1>3
<1>6. WholeAim => \A u \in step : isRunning(clock'[u].play)
      BY <1>0, <1>1 DEF StepInv
<1>7. WholeAim => \A u \in step \ Reached(t) : status'[u] = "playing"
      BY <1>0, <1>1 DEF StepInv, Reached
<1>. QED
  BY <1>0, <1>4, <1>5, <1>6, <1>7, OverInStep

(* Resuming them.                                                          *)
LEMMA UnpauseInStep ==
  ASSUME Sound, SyncInv, NEW t \in Tracks, unpause(t)
  PROVE  SyncInv'
<1>0. /\ ask.pc = "resume" /\ t = Head(ask.todo) /\ ask' = Over("idle") /\ now' = now /\ step' = step
      BY DEF unpause, Doing
<1>1. /\ StepInv /\ step \in SUBSET Tracks /\ \A u \in step : Playing(clock[u]) \/ Pausing(clock[u])
      /\ clock \in [Tracks -> Clocks] /\ status \in [Tracks -> Statuses]
      BY <1>0, StepFacts DEF Sound, TypeInv
<1>2. t \in Pending /\ Pending \subseteq Range(ask.aim)
      BY <1>0, LoopFacts
<1>3. \A u \in step : u # t => clock'[u] = clock[u] /\ status'[u] = status[u]
      BY <1>1 DEF unpause
<1>4. ~WholeAim => t \notin step
      BY <1>1, <1>2 DEF StepInv
<1>5. ASSUME t \in step, WholeAim
      PROVE  /\ status'[t] = "playing" /\ Playing(clock'[t])
             /\ clock'[t].play.speed = clock[t].play.speed
             /\ getPresentationTime(clock'[t], ask.time) = getPresentationTime(clock[t], ask.time)
  <2>1. status[t] # "stopped" /\ Honest(t)
        BY <1>0, <1>1, <1>5 DEF StepInv
  <2>2. CASE status[t] = "paused"
    <3>1. PICK d : d = unpauseClock(clock[t], ask.time, clock[t].play.speed)
          OBVIOUS
    <3>2. clock'[t] = d /\ status'[t] = "playing"
          BY <1>1, <2>2, <3>1 DEF unpause
    <3>3. ask.time \in Times /\ ask.time <= now
          BY TimesOf
    <3>4. /\ Playing(d) /\ d.play.speed = clock[t].play.speed
          /\ getPresentationTime(d, ask.time) = getPresentationTime(clock[t], ask.time)
          BY <2>1, <3>1, <3>3, UnpauseKeeps
    <3>. QED
      BY <3>2, <3>4
  <2>3. CASE status[t] = "playing"
    <3>1. clock'[t] = clock[t] /\ status'[t] = status[t]
          BY <2>3 DEF unpause
    <3>2. Playing(clock[t])
      <4>1. PICK c : c = clock[t] /\ (Playing(c) \/ Pausing(c))
            BY <1>1, <1>5
      <4>2. isRunning(c.play) <=> Playing(c)
            BY <4>1, RunningFacts
      <4>3. isRunning(c.play)
            BY <2>1, <2>3, <4>1 DEF Honest
      <4>. QED
        BY <4>1, <4>2, <4>3
    <3>. QED
      BY <2>3, <3>1, <3>2
  <2>. QED
    BY <1>1, <2>1, <2>2, <2>3 DEF Statuses
<1>6. ASSUME t \in step, WholeAim PROVE isRunning(clock'[t].play)
  <2>1. PICK c : c = clock'[t] /\ Playing(c)
        BY <1>5, <1>6
  <2>. QED
    BY <2>1, PresentationPlaying, RunningFacts, StandsStill DEF Pausing
<1>7. \A u \in step : /\ status'[u] # "stopped" /\ (Playing(clock'[u]) \/ Pausing(clock'[u]))
                      /\ clock'[u].play.speed = clock[u].play.speed
                      /\ getPresentationTime(clock'[u], ask.time) = getPresentationTime(clock[u], ask.time)
  <2> TAKE u \in step
  <2>1. status[u] # "stopped"
        BY <1>1 DEF StepInv
  <2>2. CASE u # t
        BY <1>1, <1>3, <2>1, <2>2
  <2>3. CASE u = t
        BY <1>4, <1>5, <2>3
  <2>. QED
    BY <2>2, <2>3
<1>8. ~WholeAim => \A u \in step : clock'[u] = clock[u] /\ status'[u] = status[u]
      BY <1>3, <1>4
<1>9. ASSUME WholeAim
      PROVE  /\ \A u \in step : isRunning(clock'[u].play) <=> status'[u] = "playing"
             /\ \A u, w \in step \cap Reached(t) : isRunning(clock'[u].play) = isRunning(clock'[w].play)
             /\ \A u \in step \ Reached(t) : isRunning(clock'[u].play) <=> ask.pc = "resume"
  <2>1. /\ \A u \in step : Honest(u)
        /\ \A u, w \in step \cap Pending : isRunning(clock[u].play) = isRunning(clock[w].play)
        /\ \A u \in step \ Pending : isRunning(clock[u].play) <=> ask.pc = "resume"
        BY <1>0, <1>1, <1>9 DEF StepInv
  <2>2. \A u \in step : u # t => (isRunning(clock'[u].play) <=> status'[u] = "playing")
        BY <1>3, <2>1 DEF Honest
  <2>3. t \in step => /\ isRunning(clock'[t].play) <=> status'[t] = "playing"
                      /\ isRunning(clock'[t].play) <=> ask.pc = "resume"
    <3> SUFFICES ASSUME t \in step
                 PROVE  /\ isRunning(clock'[t].play) <=> status'[t] = "playing"
                        /\ isRunning(clock'[t].play) <=> ask.pc = "resume"
        OBVIOUS
    <3>2. (status'[t] = "playing") <=> (ask.pc = "resume")
          BY <1>0, <1>5, <1>9
    <3>3. isRunning(clock'[t].play) <=> status'[t] = "playing"
          BY <1>5, <1>6, <1>9
    <3>. QED
      BY <3>2, <3>3
  <2>4. \A u \in step \cap Reached(t) : u \in Pending /\ clock'[u] = clock[u]
        BY <1>3 DEF Reached
  <2>5. \A u \in step \ Reached(t) : u = t \/ (u \notin Pending /\ clock'[u] = clock[u])
        BY <1>3 DEF Reached
  <2>6. ASSUME NEW u \in step PROVE isRunning(clock'[u].play) <=> status'[u] = "playing"
    <3>1. CASE u = t
          BY <2>3, <3>1
    <3>2. CASE u # t
          BY <2>2, <3>2
    <3>. QED
      BY <3>1, <3>2
  <2>7. ASSUME NEW u \in step \cap Reached(t), NEW w \in step \cap Reached(t)
        PROVE  isRunning(clock'[u].play) = isRunning(clock'[w].play)
    <3>1. clock'[u] = clock[u] /\ clock'[w] = clock[w] /\ u \in step \cap Pending /\ w \in step \cap Pending
          BY <2>4
    <3>. QED
      BY <2>1, <3>1
  <2>8. ASSUME NEW u \in step \ Reached(t) PROVE isRunning(clock'[u].play) <=> ask.pc = "resume"
    <3>1. CASE u = t
          BY <2>3, <2>8, <3>1
    <3>2. CASE u # t
      <4>1. u \in step \ Pending /\ clock'[u] = clock[u]
            BY <2>5, <2>8, <3>2
      <4>. QED
        BY <2>1, <4>1
    <3>. QED
      BY <3>1, <3>2
  <2>. QED
    BY <2>6, <2>7, <2>8
<1>. QED
  BY <1>0, <1>7, <1>8, <1>9, OverInStep

(* Pausing them.                                                           *)
LEMMA PauseInStep ==
  ASSUME Sound, SyncInv, NEW t \in Tracks, pause(t)
  PROVE  SyncInv'
<1>0. /\ ask.pc = "pause" /\ t = Head(ask.todo) /\ ask' = Over("idle") /\ now' = now /\ step' = step
      BY DEF pause, Doing
<1>1. /\ StepInv /\ step \in SUBSET Tracks /\ \A u \in step : Playing(clock[u]) \/ Pausing(clock[u])
      /\ clock \in [Tracks -> Clocks] /\ status \in [Tracks -> Statuses]
      BY <1>0, StepFacts DEF Sound, TypeInv
<1>2. t \in Pending /\ Pending \subseteq Range(ask.aim)
      BY <1>0, LoopFacts
<1>3. \A u \in step : u # t => clock'[u] = clock[u] /\ status'[u] = status[u]
      BY <1>1 DEF pause
<1>4. ~WholeAim => t \notin step
      BY <1>1, <1>2 DEF StepInv
<1>5. ASSUME t \in step, WholeAim
      PROVE  /\ status'[t] = "paused" /\ Pausing(clock'[t])
             /\ clock'[t].play.speed = clock[t].play.speed
             /\ getPresentationTime(clock'[t], ask.time) = getPresentationTime(clock[t], ask.time)
  <2>1. status[t] # "stopped" /\ Honest(t)
        BY <1>0, <1>1, <1>5 DEF StepInv
  <2>2. CASE status[t] = "playing"
    <3>1. PICK d : d = pauseClock(clock[t], ask.time)
          OBVIOUS
    <3>2. clock'[t] = d /\ status'[t] = "paused"
          BY <1>1, <2>2, <3>1 DEF pause
    <3>3. ask.time \in Times /\ ask.time <= now
          BY TimesOf
    <3>4. /\ Pausing(d) /\ d.play.speed = clock[t].play.speed
          /\ getPresentationTime(d, ask.time) = getPresentationTime(clock[t], ask.time)
          BY <2>1, <3>1, <3>3, PauseKeeps
    <3>. QED
      BY <3>2, <3>4
  <2>3. CASE status[t] = "paused"
    <3>1. clock'[t] = clock[t] /\ status'[t] = status[t]
          BY <2>3 DEF pause
    <3>2. Pausing(clock[t])
      <4>1. PICK c : c = clock[t] /\ (Playing(c) \/ Pausing(c))
            BY <1>1, <1>5
      <4>2. isRunning(c.play) <=> Playing(c)
            BY <4>1, RunningFacts
      <4>3. ~isRunning(c.play)
            BY <2>1, <2>3, <4>1 DEF Honest
      <4>. QED
        BY <4>1, <4>2, <4>3
    <3>. QED
      BY <2>3, <3>1, <3>2
  <2>. QED
    BY <1>1, <2>1, <2>2, <2>3 DEF Statuses
<1>6. ASSUME t \in step, WholeAim PROVE ~isRunning(clock'[t].play)
  <2>1. PICK c : c = clock'[t] /\ Pausing(c)
        BY <1>5, <1>6
  <2>. QED
    BY <2>1, PresentationPlaying, RunningFacts, StandsStill DEF Pausing
<1>7. \A u \in step : /\ status'[u] # "stopped" /\ (Playing(clock'[u]) \/ Pausing(clock'[u]))
                      /\ clock'[u].play.speed = clock[u].play.speed
                      /\ getPresentationTime(clock'[u], ask.time) = getPresentationTime(clock[u], ask.time)
  <2> TAKE u \in step
  <2>1. status[u] # "stopped"
        BY <1>1 DEF StepInv
  <2>2. CASE u # t
        BY <1>1, <1>3, <2>1, <2>2
  <2>3. CASE u = t
        BY <1>4, <1>5, <2>3
  <2>. QED
    BY <2>2, <2>3
<1>8. ~WholeAim => \A u \in step : clock'[u] = clock[u] /\ status'[u] = status[u]
      BY <1>3, <1>4
<1>9. ASSUME WholeAim
      PROVE  /\ \A u \in step : isRunning(clock'[u].play) <=> status'[u] = "playing"
             /\ \A u, w \in step \cap Reached(t) : isRunning(clock'[u].play) = isRunning(clock'[w].play)
             /\ \A u \in step \ Reached(t) : isRunning(clock'[u].play) <=> ask.pc = "resume"
  <2>1. /\ \A u \in step : Honest(u)
        /\ \A u, w \in step \cap Pending : isRunning(clock[u].play) = isRunning(clock[w].play)
        /\ \A u \in step \ Pending : isRunning(clock[u].play) <=> ask.pc = "resume"
        BY <1>0, <1>1, <1>9 DEF StepInv
  <2>2. \A u \in step : u # t => (isRunning(clock'[u].play) <=> status'[u] = "playing")
        BY <1>3, <2>1 DEF Honest
  <2>3. t \in step => /\ isRunning(clock'[t].play) <=> status'[t] = "playing"
                      /\ isRunning(clock'[t].play) <=> ask.pc = "resume"
    <3> SUFFICES ASSUME t \in step
                 PROVE  /\ isRunning(clock'[t].play) <=> status'[t] = "playing"
                        /\ isRunning(clock'[t].play) <=> ask.pc = "resume"
        OBVIOUS
    <3>2. (status'[t] = "playing") <=> (ask.pc = "resume")
          BY <1>0, <1>5, <1>9
    <3>3. isRunning(clock'[t].play) <=> status'[t] = "playing"
          BY <1>5, <1>6, <1>9
    <3>. QED
      BY <3>2, <3>3
  <2>4. \A u \in step \cap Reached(t) : u \in Pending /\ clock'[u] = clock[u]
        BY <1>3 DEF Reached
  <2>5. \A u \in step \ Reached(t) : u = t \/ (u \notin Pending /\ clock'[u] = clock[u])
        BY <1>3 DEF Reached
  <2>6. ASSUME NEW u \in step PROVE isRunning(clock'[u].play) <=> status'[u] = "playing"
    <3>1. CASE u = t
          BY <2>3, <3>1
    <3>2. CASE u # t
          BY <2>2, <3>2
    <3>. QED
      BY <3>1, <3>2
  <2>7. ASSUME NEW u \in step \cap Reached(t), NEW w \in step \cap Reached(t)
        PROVE  isRunning(clock'[u].play) = isRunning(clock'[w].play)
    <3>1. clock'[u] = clock[u] /\ clock'[w] = clock[w] /\ u \in step \cap Pending /\ w \in step \cap Pending
          BY <2>4
    <3>. QED
      BY <2>1, <3>1
  <2>8. ASSUME NEW u \in step \ Reached(t) PROVE isRunning(clock'[u].play) <=> ask.pc = "resume"
    <3>1. CASE u = t
          BY <2>3, <2>8, <3>1
    <3>2. CASE u # t
      <4>1. u \in step \ Pending /\ clock'[u] = clock[u]
            BY <2>5, <2>8, <3>2
      <4>. QED
        BY <2>1, <4>1
    <3>. QED
      BY <3>1, <3>2
  <2>. QED
    BY <2>6, <2>7, <2>8
<1>. QED
  BY <1>0, <1>7, <1>8, <1>9, OverInStep

(* Once a session is torn down no track is in step.                        *)
LEMMA TeardownInStep ==
  ASSUME Sound, NEW t \in Tracks, teardown(t)
  PROVE  SyncInv'
<1>1. ask.pc = "teardown" /\ ask' = Over("closed") /\ now' = now
      BY DEF teardown, Doing
<1>2. ask'.pc \in {"teardown", "closed"}
      BY <1>1, OverSound
<1>. QED
  BY <1>2 DEF SyncInv

(* Every step.                                                             *)
LEMMA NextInStep ==
  ASSUME Sound, SyncInv, [TimelineNext]_timelineVars
  PROVE  SyncInv'
<1>1. CASE Receive
      BY <1>1, ReceiveInStep
<1>2. CASE SendFrames
      BY <1>2, SendInStep DEF SendFrames
<1>3. CASE Tick
      BY <1>3, TickInStep
<1>4. CASE Serve
  <2>1. ASSUME NEW t \in Tracks, evalStopped(t) \/ evalPlaying(t) \/ evalRefused(t) \/ applyRefused(t)
        PROVE  SyncInv'
        BY <2>1, EvalInStep
  <2>2. ASSUME NEW t \in Tracks, apply(t) PROVE SyncInv'
        BY <2>2, ApplyInStep
  <2>3. ASSUME NEW t \in Tracks, play(t) PROVE SyncInv'
        BY <2>3, PlayInStep
  <2>4. ASSUME NEW t \in Tracks, getPlayRange(t) PROVE SyncInv'
        BY <2>4, AnswersInStep
  <2>5. ASSUME NEW t \in Tracks, unpause(t) PROVE SyncInv'
        BY <2>5, UnpauseInStep
  <2>6. ASSUME NEW t \in Tracks, pause(t) PROVE SyncInv'
        BY <2>6, PauseInStep
  <2>7. ASSUME NEW t \in Tracks, teardown(t) PROVE SyncInv'
        BY <2>7, TeardownInStep
  <2>8. CASE answer \/ report
    <3>1. PICK t \in Tracks : TRUE
          BY OrderFacts, TailFacts
    <3>. QED
      BY <2>8, <3>1, AnswersInStep
  <2>. QED
    BY <1>4, <2>1, <2>2, <2>3, <2>4, <2>5, <2>6, <2>7, <2>8 DEF Serve
<1>5. CASE UNCHANGED timelineVars
  <2>1. ask' = ask /\ now' = now /\ clock' = clock /\ status' = status /\ step' = step
        BY <1>5 DEF timelineVars
  <2>. QED
    BY <2>1, SameInStep DEF SyncInv
<1>. QED
  BY <1>1, <1>2, <1>3, <1>4, <1>5 DEF TimelineNext

(* The tracks that one PLAY of all has set going show the same moment at   *)
(* the same speed, through every PAUSE and resumption that follows, though *)
(* each is reached at its own time (RTP::Session::play, pause, unpause,    *)
(* Timeline::Medium).                                                      *)
THEOREM TracksTogether == TimelineSpec => []InSync
<1>1. TimelineInit => Sound /\ ReadyInv /\ SyncInv
  <2>1. TimelineInit => ReadyInv
        BY DEF TimelineInit, ReadyInv, NoAsk
  <2>2. TimelineInit => SyncInv
    <3> SUFFICES ASSUME TimelineInit PROVE StepInv
        BY DEF SyncInv
    <3>1. step = {} /\ ask.pc = "idle"
          BY DEF TimelineInit, NoAsk
    <3>. QED
      BY <3>1 DEF StepInv
  <2>. QED
    BY <2>1, <2>2, InitSound
<1>2. (Sound /\ ReadyInv /\ SyncInv) /\ [TimelineNext]_timelineVars => (Sound /\ ReadyInv /\ SyncInv)'
      BY NextSound, ReadyKept, Stuttering, NextInStep
<1>3. Sound /\ SyncInv => InSync
  <2> SUFFICES ASSUME Sound, SyncInv, ask.pc = "idle" PROVE InSync
      BY DEF InSync
  <2>1. StepInv
        BY StepFacts
  <2>. QED
    BY <2>1 DEF StepInv, InSync, At, Honest
<1>. QED
  BY <1>1, <1>2, <1>3, PTL DEF TimelineSpec

=============================================================================
