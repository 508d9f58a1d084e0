---------------------------- MODULE RtpTimeline ----------------------------
(***************************************************************************)
(* The clocks of the RTP sessions of one RTSP session (rtp/chrono.cpp,     *)
(* rtp/session_times.cpp), how an aggregate PLAY sets them going from one  *)
(* place (rtsp/session.cpp, rtsp/common.cpp), what the answer announces    *)
(* (rtsp/method.cpp), and which frame each session sends when.             *)
(*                                                                         *)
(* A request is stamped with the time it is read, and is applied track by  *)
(* track later on; the time in between is free.  A step holds the mutex of *)
(* one track's session.  The send thread is reduced to the frame in its    *)
(* hand, the frames it passes over after a seek, and the times it pauses   *)
(* by itself; its rendezvous with the requests is the subject of           *)
(* RtpSession, the frames fetched ahead of it that of RtpBuffer.           *)
(*                                                                         *)
(* Time is in whole seconds, RTP time in half seconds from _rtpStart.      *)
(***************************************************************************)
EXTENDS FrameIterator

CONSTANTS
  Order,     (* the tracks, in the order of the map of sessions            *)
  Videos,    (* which of them are video                                    *)
  Films,     (* files and playlists that may be described: their lines,    *)
             (* whether they are playlists, whether they are played live,  *)
             (* that is with seek support off, whether to a VLC client, and*)
             (* what the client asks to play: of which tracks (all in      *)
             (* order, or one), from and to which times, at which scale;   *)
             (* Huge for what it leaves out; bound: how many requests      *)
  Aims,      (* which tracks it asks to pause and to resume                *)
  MaxTime    (* bound: the clock                                           *)

Tracks == Range(Order)

ASSUME TracksAssumption == Videos \subseteq Tracks

(* The map has each track once, and a session is made for a first one.     *)
ASSUME OrderAssumption ==
  /\ Order \in Seq(Tracks) \ {<<>>}
  /\ \A i, j \in DOMAIN Order : Order[i] = Order[j] => i = j

(* HUGE_VAL is beyond all times and speeds.                                *)
ASSUME TimeAssumption == MaxTime \in Nat /\ MaxTime < Huge /\ 2 < Huge

Plays == UNION {f.plays : f \in Range(Films)}

ASSUME AimAssumption ==
  Aims \cup {p.aim : p \in Plays} \subseteq {Order} \cup {<<t>> : t \in Tracks}

ASSUME SpeedAssumption == {p.speed : p \in Plays} \subseteq {1, 2, -1, -2, Huge}

ASSUME RangeAssumption == \A p \in Plays : p.from \in Int /\ p.to \in Int

VARIABLES
  film,    (* which of the films is described                              *)
  now,     (* Clock::getSec                                                *)
  clock,   (* per track, the Timeline::Medium                              *)
  status,  (* per track, what Session::Status says                         *)
  finish,  (* per track, _timeEnd                                          *)
  reel,    (* per track, the iterator of the buffer, at the frame to be    *)
           (* sent next, and its scale; the send thread, whether it has    *)
           (* that frame in hand, SEEKED, and what it is caught at by a    *)
           (* seek                                                         *)
  ask,     (* the request being handled, how far it is, how many so far    *)
  played,  (* _playIssued                                                  *)
  said,    (* history: per track, the place and RTP time last announced    *)
  mark,    (* history: per track, the time of the last frame, or the one   *)
           (* just before the place sought, and that place                 *)
  step     (* history: the tracks that follow one PLAY of all of them      *)

timelineVars == <<film, now, clock, status, finish, reel, ask, played, said, mark, step>>

(* Container: the media of each film.                                      *)
Described ==
  [k \in DOMAIN Films |->
     IF Films[k].list THEN loadPlayList(Films[k].lines, Videos)
     ELSE loadFile(Films[k].lines[1].file, Videos)]

(* A medium has a length, and its frames have their times.                 *)
ASSUME MediaAssumption ==
  \A k \in DOMAIN Films, t \in Tracks :
    LET m == Described[k][t] IN
    /\ m.duration \in Nat /\ m.times \in Nat
    /\ m.frames \in Seq([time : 0 .. Huge - 1, key : BOOLEAN])

Media == Described[film]

-----------------------------------------------------------------------------
(* Timeline::Segment and MultiSegment.                                     *)

NoSegment == [start |-> Huge, stop |-> Huge, speed |-> 1]

SegmentFrom(t, spd) == [start |-> t, stop |-> Huge, speed |-> spd]

segmentRuns(s) == s.start < Huge /\ s.stop = Huge

segmentElapsed(s, t) ==
  IF s.start < Huge THEN (Min({s.stop, t}) - s.start) * s.speed ELSE 0

stopSegment(s, t) == IF segmentRuns(s) THEN [s EXCEPT !.stop = t] ELSE s

NoSegments == [current |-> NoSegment, speed |-> 1, tot |-> 0]

isRunning(m) == segmentRuns(m.current)

getElapsed(m, t) == m.tot + (IF isRunning(m) THEN segmentElapsed(m.current, t) ELSE 0)

(* A segment that has stopped is only in the total.                        *)
stop(m, t) ==
  IF isRunning(m) THEN [m EXCEPT !.current = NoSegment, !.tot = getElapsed(m, t)] ELSE m

(* A segment that runs is stopped by the clock, not at t.                  *)
nextSegment(m, t, spd, clockNow) ==
  [stop(m, clockNow) EXCEPT !.speed = spd, !.current = SegmentFrom(t, spd)]

-----------------------------------------------------------------------------
(* Timeline::Medium.                                                       *)

NoClock == [life |-> NoSegment, pause |-> NoSegments, play |-> NoSegments, relative |-> 0]

getPresentationTime(c, t) == getElapsed(c.play, t) + c.relative

getPlayTime(c, t) == segmentElapsed(c.life, t) - getElapsed(c.pause, t)

(* Half seconds of play that one second of the medium takes.               *)
Halves(spd) == IF spd > 0 THEN 2 \div spd ELSE -(2 \div (-spd))

(* RTP time is time spent playing, whatever is played.                     *)
PlayRTPtime(c, pt, t) ==
  2 * getPlayTime(c, t) + (pt - getPresentationTime(c, t)) * Halves(c.play.speed)

(* To VLC, it is presentation time.                                        *)
VLCRTPtime(pt) == 2 * pt

getRTPtime(c, pt, t) ==
  IF Films[film].vlc THEN VLCRTPtime(pt) ELSE PlayRTPtime(c, pt, t)

pauseClock(c, t) ==
  IF isRunning(c.play)
  THEN [c EXCEPT !.play = stop(@, t), !.pause = nextSegment(@, t, 1, now)]
  ELSE c

(* Slip: the pause goes on counting.                                       *)
unpauseWithinPause(c, t, spd) ==
  IF isRunning(c.pause) THEN [c EXCEPT !.play = nextSegment(@, t, spd, now)] ELSE c

unpauseClock(c, t, spd) ==
  IF ~segmentRuns(c.life)
  THEN [c EXCEPT !.life = SegmentFrom(t, 1), !.play.current = SegmentFrom(t, spd), !.play.speed = spd]
  ELSE IF isRunning(c.pause)
  THEN [c EXCEPT !.pause = stop(@, t), !.play = nextSegment(@, t, spd, now)]
  ELSE c

stopClock(c, t) ==
  [c EXCEPT !.play = stop(@, t), !.pause = stop(@, t), !.life = stopSegment(@, t)]

(* Slip: the clock goes from now, not from the time of the request.        *)
seekClockNow(c, t, pt, spd) ==
  [c EXCEPT !.relative = @ + pt - getPresentationTime(c, now),
            !.life = IF segmentRuns(@) \/ isRunning(c.pause) THEN @ ELSE SegmentFrom(now, 1),
            !.pause = stop(@, now),
            !.play = nextSegment(@, now, spd, now)]

seekClock(c, t, pt, spd) ==
  [c EXCEPT !.relative = @ + pt - getPresentationTime(c, t),
            !.life = IF segmentRuns(@) \/ isRunning(c.pause) THEN @ ELSE SegmentFrom(t, 1),
            !.pause = stop(@, t),
            !.play = nextSegment(@, t, spd, now)]

-----------------------------------------------------------------------------
(* PlayRequest.                                                            *)

signedMax(a, b, sign) ==
  IF a < Huge /\ b < Huge /\ sign > 0 THEN Max({a, b}) ELSE Min({a, b})

signedMin(a, b, sign) ==
  IF a < Huge /\ b < Huge /\ sign < 0 THEN Max({a, b}) ELSE Min({a, b})

(* A PlayRequest that has been evaluated: speed, range, whether the video  *)
(* leads.                                                                  *)
merge(rt, rq) ==
  [speed |-> rq.speed,
   from  |-> IF rt.lead THEN rt.from
             ELSE IF rq.lead THEN rq.from
             ELSE signedMin(rt.from, rq.from, rq.speed),
   to    |-> signedMax(rt.to, rq.to, rq.speed),
   lead  |-> rt.lead \/ rq.lead]

(* Where a stopped session begins.                                         *)
Beginning(t, spd) == signedMin(0, duration(Media[t]), spd)

speedOr(spd, default) == IF spd = Huge THEN default ELSE spd

-----------------------------------------------------------------------------
NoAsk == [pc |-> "idle", aim |-> <<>>, todo |-> <<>>, time |-> 0, asof |-> 0,
          play |-> [from |-> Huge, to |-> Huge, speed |-> Huge, lead |-> FALSE],
          rt |-> [from |-> Huge, to |-> Huge, speed |-> Huge, lead |-> FALSE], asks |-> 0]

Unsaid == [on |-> FALSE, from |-> 0, rtp |-> 0]

Unmarked == [on |-> FALSE, time |-> 0, fresh |-> FALSE, place |-> 0]

(* fetchNextFrame after a seek: the time and speed it goes by, how far     *)
(* ahead the last frame was, and whether another seek has come since.      *)
NoSearch == [on |-> FALSE, at |-> 0, speed |-> 1, worse |-> Huge, over |-> FALSE]

(* A frame from before the seek that was fetched and is not yet sent, and  *)
(* whether that fetch clears SEEKED.                                       *)
NoLate == [on |-> FALSE, time |-> 0, skip |-> FALSE]

(* The thread is "none", "new" up to its first frame, then "on".  Its hand *)
(* is "empty", or it has "held" a frame, or has to "enter" the send loop   *)
(* with one, which it sends at once.                                       *)
NewReel ==
  [it |-> newFrameIterator, scale |-> 1, thread |-> "none", hand |-> "empty",
   seeked |-> FALSE, search |-> NoSearch, late |-> NoLate]

TimelineInit ==
  /\ film \in DOMAIN Films
  /\ now = 0
  /\ clock = [t \in Tracks |-> NoClock]
  /\ status = [t \in Tracks |-> "stopped"]
  /\ finish = [t \in Tracks |-> Huge]
  /\ reel = [t \in Tracks |-> NewReel]
  /\ ask = NoAsk
  /\ played = FALSE
  /\ said = [t \in Tracks |-> Unsaid]
  /\ mark = [t \in Tracks |-> Unmarked]
  /\ step = {}

(* The loops over the sessions take one track at a time.                   *)
Doing(pc, t) == ask.pc = pc /\ t = Head(ask.todo)

(* On to the next track, or to what follows the loop.                      *)
Onward(then) ==
  IF Len(ask.todo) > 1 THEN [ask EXCEPT !.todo = Tail(@)]
  ELSE [ask EXCEPT !.pc = then, !.todo = ask.aim]

Over(then) ==
  IF Len(ask.todo) > 1 THEN [ask EXCEPT !.todo = Tail(@)]
  ELSE [NoAsk EXCEPT !.pc = then, !.asks = ask.asks]

WholeAim == Len(ask.aim) > 1

-----------------------------------------------------------------------------
(* A request is read, and stamped.                                         *)

Received(pc, aim) ==
  [NoAsk EXCEPT !.pc = pc, !.aim = aim, !.todo = aim, !.time = now, !.asks = ask.asks + 1]

(* Play::prepare refuses a range against the direction of the scale.       *)
Misordered(from, to, spd) ==
  from < Huge /\ (IF speedOr(spd, 1) > 0 THEN to < from ELSE to > from)

receivePlay(p) ==
  /\ ask.pc = "idle" /\ ask.asks < Films[film].asks
  /\ Films[film].live \/ ~Misordered(p.from, p.to, p.speed)
  /\ ~Films[film].live \/ ~played
  /\ LET rq == [from |-> p.from, to |-> p.to, speed |-> p.speed, lead |-> FALSE] IN
       ask' = [Received(IF Len(p.aim) > 1 THEN "eval" ELSE "apply", p.aim) EXCEPT
                 !.play = rq, !.rt = rq]
  /\ step' = IF Len(p.aim) > 1 THEN {} ELSE step \ Range(p.aim)
  /\ UNCHANGED <<film, now, clock, status, finish, reel, played, said, mark>>

(* Without Range and Scale, or live once played, PLAY only resumes.        *)
receiveResume(aim) ==
  /\ ask.pc = "idle" /\ ask.asks < Films[film].asks
  /\ ask' = Received("range", aim)
  /\ step' = IF Len(aim) > 1 THEN step ELSE step \ Range(aim)
  /\ UNCHANGED <<film, now, clock, status, finish, reel, played, said, mark>>

receivePause(aim) ==
  /\ ask.pc = "idle" /\ ask.asks < Films[film].asks
  /\ ask' = Received("pause", aim)
  /\ step' = IF Len(aim) > 1 THEN step ELSE step \ Range(aim)
  /\ UNCHANGED <<film, now, clock, status, finish, reel, played, said, mark>>

receiveTeardown ==
  /\ ask.pc = "idle" /\ ask.asks < Films[film].asks
  /\ ask' = Received("teardown", Order)
  /\ UNCHANGED <<film, now, clock, status, finish, reel, played, said, mark, step>>

-----------------------------------------------------------------------------
(* PLAY of all tracks: what each makes of the request, merged.             *)

Place(t) ==
  IF ask.play.from < Huge THEN ask.play.from
  ELSE IF status[t] = "stopped" THEN Beginning(t, speedOr(ask.play.speed, 1))
  ELSE getPresentationTime(clock[t], now)

evalSpeed(t) ==
  speedOr(ask.play.speed, IF status[t] = "stopped" THEN 1 ELSE clock[t].play.speed)

evalEnd(t) ==
  IF Films[film].live THEN Huge ELSE signedMax(0, duration(Media[t]), evalSpeed(t))

Evaluated(t, from) ==
  [from |-> from, to |-> evalEnd(t), speed |-> evalSpeed(t), lead |-> t \in Videos]

evalStopped(t) ==
  /\ Doing("eval", t) /\ status[t] = "stopped"
  /\ ask' = [Onward("apply") EXCEPT !.rt = merge(@, Evaluated(t, Place(t)))]
  /\ UNCHANGED <<film, now, clock, status, finish, reel, played, said, mark, step>>

(* A buffer that searches a loop backwards never lets its mutex go, and    *)
(* whoever asks it for a place waits for ever.                             *)
BufferFree(t) == ~FetchSpins(Media[t], reel[t].scale)

Probe(t) == drySeek(Media[t], reel[t].it, Place(t))

evalPlaying(t) ==
  /\ Doing("eval", t) /\ status[t] # "stopped" /\ BufferFree(t) /\ Probe(t).ok
  /\ ask' = [Onward("apply") EXCEPT !.rt = merge(@, Evaluated(t, Probe(t).frame.time))]
  /\ reel' = [reel EXCEPT ![t].it = Probe(t).it]
  /\ UNCHANGED <<film, now, clock, status, finish, played, said, mark, step>>

(* Bad Request.  The iterator of a loop may stay elsewhere.                *)
evalRefused(t) ==
  /\ Doing("eval", t) /\ status[t] # "stopped" /\ BufferFree(t) /\ ~Probe(t).ok
  /\ ask' = [NoAsk EXCEPT !.asks = ask.asks]
  /\ reel' = [reel EXCEPT ![t].it = Probe(t).it]
  /\ mark' = [mark EXCEPT ![t].on = @ /\ Probe(t).it = reel[t].it]
  /\ UNCHANGED <<film, now, clock, status, finish, played, said, step>>

-----------------------------------------------------------------------------
(* Session::play(rq) of one track.                                         *)

End(t) ==
  IF ask.rt.speed > 0 THEN Min({duration(Media[t]), ask.rt.to})
  ELSE IF ask.rt.to < Huge THEN ask.rt.to ELSE 0

ApplySpeed(t) ==
  speedOr(ask.rt.speed, IF status[t] = "stopped" THEN 1 ELSE clock[t].play.speed)

ApplyFrom(t) ==
  IF ask.rt.from < Huge THEN ask.rt.from
  ELSE IF status[t] = "stopped" THEN Beginning(t, ApplySpeed(t))
  ELSE getPresentationTime(clock[t], now)

Sought(t) == seek(Media[t], reel[t].it, ApplyFrom(t))

(* The clock runs already, and by now it is later than the request says.   *)
Late(t) == isRunning(clock[t].play) /\ now > ask.time

(* What the buffer gives next, and its time.                               *)
Ahead(t) ==
  LET r == fetchNextFrame(Media[t], reel[t].it, reel[t].scale) IN
  [ok |-> r.ok, it |-> r.it, time |-> r.frame.time + getTimeShift(Media[t], r.it)]

Going(t) == status[t] = "playing" /\ reel[t].thread # "none"

Fetches(t) == Going(t) /\ FetchEnds(Media[t], reel[t].scale)

(* More than a second ahead by the time and speed noted, and no further    *)
(* than the frame before.                                                  *)
Lead(s, time) == IF s.speed > 0 THEN time - s.at ELSE s.at - time

TooFar(s, time) ==
  s.on /\ Lead(s, time) > (IF s.speed > 0 THEN s.speed ELSE -s.speed) /\ Lead(s, time) <= s.worse

(* The first frame is sent at once.                                        *)
Taken(t) == IF reel[t].thread = "new" THEN "enter" ELSE "held"

(* The session drops the frame it holds.  Its thread may be asleep, or go  *)
(* on with a search; or be about to fetch, without a look at SEEKED, the   *)
(* first frame of the new place; or have fetched one of the old.           *)
Dropped(t) ==
  [hand |-> "empty", late |-> NoLate,
   search |-> [reel[t].search EXCEPT !.over = reel[t].search.on]]

Fetching(t) == [hand |-> Taken(t), late |-> NoLate, search |-> NoSearch]

Fetched(t) ==
  [hand |-> Taken(t), search |-> NoSearch,
   late |-> IF reel[t].late.on THEN reel[t].late
            ELSE [on |-> TRUE, time |-> Ahead(t).time, skip |-> reel[t].search.on]]

InFetch(t) ==
  /\ Going(t) /\ ~reel[t].late.on
  /\ reel[t].hand = "held" \/ reel[t].search.on \/ (reel[t].hand = "empty" /\ ~reel[t].seeked)

MayFetch(t) == InFetch(t) /\ ~reel[t].search.on

MayHaveFetched(t) ==
  \/ Going(t) /\ reel[t].late.on
  \/ InFetch(t) /\ Fetches(t) /\ Ahead(t).ok /\ ~TooFar(reel[t].search, Ahead(t).time)

Caught(t) ==
  {Dropped(t)}
    \cup {c \in {Fetching(t)} : MayFetch(t)} \cup {c \in {Fetched(t)} : MayHaveFetched(t)}

(* The request has a range: of its own, or of the merge.                   *)
HasRange == WholeAim \/ ask.play.from < Huge \/ ask.play.to < Huge

apply(t) ==
  /\ Doing("apply", t) /\ BufferFree(t) /\ Sought(t).ok
  /\ finish' = [finish EXCEPT ![t] = End(t)]
  /\ clock' = [clock EXCEPT ![t] = seekClock(@, ask.time, ApplyFrom(t), ApplySpeed(t))]
  /\ \E c \in Caught(t) :
       reel' = [reel EXCEPT ![t] =
         [it |-> Sought(t).it, scale |-> ApplySpeed(t), hand |-> c.hand,
          search |-> c.search, late |-> c.late,
          thread |-> IF c.hand = "empty" THEN @.thread ELSE "on",
          seeked |-> status[t] # "stopped" /\ HasRange /\ ~c.late.skip]]
  /\ status' = [status EXCEPT ![t] = IF @ = "stopped" THEN "paused" ELSE @]
  /\ ask' = [Onward("answer") EXCEPT !.rt.from = ApplyFrom(t)]
  /\ said' = [said EXCEPT ![t] = Unsaid]
  /\ mark' = [mark EXCEPT ![t] =
       IF ApplyFrom(t) < 0 THEN Unmarked
       ELSE [on |-> TRUE, time |-> ApplyFrom(t) - 1, fresh |-> TRUE, place |-> ApplyFrom(t)]]
  /\ step' = IF WholeAim /\ ~Late(t) THEN step \cup {t} ELSE step
  /\ UNCHANGED <<film, now, played>>

(* The buffer's seek throws: on a stopped session after the clock was set, *)
(* else before.  For one track alone this ends the process.                *)
applyRefused(t) ==
  /\ Doing("apply", t) /\ BufferFree(t) /\ ~Sought(t).ok
  /\ finish' = [finish EXCEPT ![t] = End(t)]
  /\ clock' = [clock EXCEPT ![t] =
       IF status[t] = "stopped" THEN seekClock(@, ask.time, ApplyFrom(t), ApplySpeed(t)) ELSE @]
  /\ \E c \in Caught(t) :
       reel' = [reel EXCEPT ![t] =
         [it |-> Sought(t).it, scale |-> @.scale, hand |-> c.hand,
          search |-> c.search, late |-> c.late,
          thread |-> IF c.hand = "empty" THEN @.thread ELSE "on",
          seeked |-> status[t] # "stopped" /\ HasRange /\ ~c.late.skip]]
  /\ status' = [status EXCEPT ![t] = IF @ = "stopped" THEN "paused" ELSE @]
  /\ ask' = [NoAsk EXCEPT !.pc = IF WholeAim THEN "idle" ELSE "closed", !.asks = ask.asks]
  /\ said' = IF status[t] = "stopped" THEN [said EXCEPT ![t] = Unsaid] ELSE said
  /\ mark' = [mark EXCEPT ![t] = Unmarked]
  /\ step' = {}
  /\ UNCHANGED <<film, now, played>>

Announced(t, from, time) ==
  [on |-> TRUE, from |-> from, rtp |-> getRTPtime(clock[t], from, time)]

(* The answer names the place and, for each track, its RTP time.           *)
answer ==
  /\ ask.pc = "answer"
  /\ ask' = [ask EXCEPT !.pc = "execute"]
  /\ said' = [t \in Tracks |->
       IF t \in Range(ask.aim) THEN Announced(t, ask.rt.from, ask.time) ELSE said[t]]
  /\ played' = (played \/ WholeAim)
  /\ UNCHANGED <<film, now, clock, status, finish, reel, mark, step>>

(* Play::execute, after the answer: play() of every track.                 *)
play(t) ==
  /\ Doing("execute", t)
  /\ ask' = Over("idle")
  /\ status' = [status EXCEPT ![t] = "playing"]
  /\ reel' = [reel EXCEPT ![t].thread = IF @ = "none" THEN "new" ELSE @]
  /\ UNCHANGED <<film, now, clock, finish, played, said, mark, step>>

-----------------------------------------------------------------------------
(* PLAY that resumes: the answer tells where the tracks are, each asked at *)
(* its own time, and the RTP time as of the first.                         *)

getPlayRange(t) ==
  /\ Doing("range", t)
  /\ ask' = [Onward("report") EXCEPT
       !.rt = merge(@, [from |-> getPresentationTime(clock[t], now), to |-> finish[t],
                        speed |-> clock[t].play.speed, lead |-> t \in Videos]),
       !.asof = IF ask.todo = ask.aim THEN now ELSE @]
  /\ UNCHANGED <<film, now, clock, status, finish, reel, played, said, mark, step>>

report ==
  /\ ask.pc = "report"
  /\ said' = [t \in Tracks |->
       IF t \in Range(ask.aim) THEN Announced(t, ask.rt.from, ask.asof) ELSE said[t]]
  /\ ask' = [ask EXCEPT !.pc = "resume", !.rt = NoAsk.rt, !.asof = 0]
  /\ UNCHANGED <<film, now, clock, status, finish, reel, played, mark, step>>

unpause(t) ==
  /\ Doing("resume", t)
  /\ IF status[t] = "paused"
     THEN /\ status' = [status EXCEPT ![t] = "playing"]
          /\ clock' = [clock EXCEPT ![t] = unpauseClock(@, ask.time, @.play.speed)]
          /\ reel' = [reel EXCEPT ![t].hand = IF @ = "held" THEN "enter" ELSE @]
     ELSE UNCHANGED <<status, clock, reel>>
  /\ ask' = Over("idle")
  /\ UNCHANGED <<film, now, finish, played, said, mark, step>>

(* PAUSE comes back when the thread has come round to it: not before its   *)
(* first frame, nor out of a search.                                       *)
pause(t) ==
  /\ Doing("pause", t)
  /\ status[t] = "playing" => reel[t].thread = "on" /\ ~reel[t].search.on
  /\ IF status[t] = "playing"
     THEN /\ status' = [status EXCEPT ![t] = "paused"]
          /\ clock' = [clock EXCEPT ![t] = pauseClock(@, ask.time)]
     ELSE UNCHANGED <<status, clock>>
  /\ ask' = Over("idle")
  /\ UNCHANGED <<film, now, finish, reel, played, said, mark, step>>

teardown(t) ==
  /\ Doing("teardown", t)
  /\ status' = [status EXCEPT ![t] = "stopped"]
  /\ clock' = [clock EXCEPT ![t] = stopClock(@, ask.time)]
  /\ ask' = Over("closed")
  /\ UNCHANGED <<film, now, finish, reel, played, said, mark, step>>

-----------------------------------------------------------------------------
(* The send thread of a track.                                             *)

Passed(m, time) == IF m.on THEN [m EXCEPT !.time = time, !.fresh = FALSE] ELSE m

(* fetchNextFrame after a seek goes by the time it is called at.           *)
seekedFetch(t) ==
  /\ Going(t) /\ reel[t].hand = "empty" /\ reel[t].seeked /\ ~reel[t].search.on
  /\ reel' = [reel EXCEPT ![t].search =
       [on |-> TRUE, at |-> getPresentationTime(clock[t], now), speed |-> clock[t].play.speed,
        worse |-> Huge, over |-> FALSE]]
  /\ UNCHANGED <<film, now, clock, status, finish, ask, played, said, mark, step>>

(* A frame too far ahead is passed over, and the time is looked up again.  *)
skipFrame(t) ==
  /\ Fetches(t) /\ reel[t].search.on
  /\ LET ahead == Ahead(t) IN
     /\ ahead.ok /\ TooFar(reel[t].search, ahead.time)
     /\ reel' = [reel EXCEPT ![t].it = ahead.it,
                             ![t].search.worse = Lead(reel[t].search, ahead.time),
                             ![t].search.at = getPresentationTime(clock[t], now)]
     /\ mark' = [mark EXCEPT ![t] = Passed(@, ahead.time)]
  /\ UNCHANGED <<film, now, clock, status, finish, ask, played, said, step>>

installFrame(t) ==
  /\ Fetches(t) /\ reel[t].hand = "empty" /\ (reel[t].seeked => reel[t].search.on)
  /\ LET ahead == Ahead(t) IN ahead.ok /\ ~TooFar(reel[t].search, ahead.time)
  /\ reel' = [reel EXCEPT ![t].hand = Taken(t), ![t].thread = "on", ![t].seeked = FALSE,
                          ![t].search = NoSearch]
  /\ UNCHANGED <<film, now, clock, status, finish, ask, played, said, mark, step>>

Due(t, time) ==
  \/ reel[t].hand = "enter"
  \/ reel[t].hand = "held" /\ time <= getPresentationTime(clock[t], now)

(* A frame is sent when it is due; the one in hand when the loop is        *)
(* entered, at once.  Then the next is fetched.                            *)
sendNextFrame(t) ==
  /\ Fetches(t) /\ reel[t].hand # "empty" /\ ~reel[t].late.on
  /\ LET ahead == Ahead(t) IN
     /\ ahead.ok /\ Due(t, ahead.time)
     /\ reel' = [reel EXCEPT ![t].it = ahead.it,
                             ![t].hand = IF reel[t].seeked THEN "empty" ELSE "held"]
     /\ mark' = [mark EXCEPT ![t] = Passed(@, ahead.time)]
  /\ UNCHANGED <<film, now, clock, status, finish, ask, played, said, step>>

(* So is a frame from before the seek.                                     *)
sendLateFrame(t) ==
  /\ Going(t) /\ reel[t].late.on /\ Due(t, reel[t].late.time)
  /\ reel' = [reel EXCEPT ![t].late = NoLate, ![t].hand = "empty"]
  /\ UNCHANGED <<film, now, clock, status, finish, ask, played, said, mark, step>>

SelfPaused(t) ==
  /\ status' = [status EXCEPT ![t] = "paused"]
  /\ clock' = [clock EXCEPT ![t] = pauseClock(@, now)]
  /\ step' = step \ {t}
  /\ UNCHANGED <<film, now, finish, ask, played, said>>

FetchFails(t) ==
  /\ Fetches(t) /\ ~reel[t].late.on /\ ~Ahead(t).ok
  /\ reel[t].seeked => reel[t].hand # "empty" \/ reel[t].search.on

(* The frames are over.                                                    *)
reachEof(t) ==
  /\ FetchFails(t) /\ reel[t].thread = "on"
  /\ reel' = [reel EXCEPT ![t].it = Ahead(t).it, ![t].hand = "empty", ![t].search = NoSearch]
  /\ SelfPaused(t)
  /\ UNCHANGED mark

(* Nobody catches the end of the frames before the first: run is throw().  *)
firstFails(t) ==
  /\ FetchFails(t) /\ reel[t].thread = "new"
  /\ ask' = [NoAsk EXCEPT !.pc = "closed", !.asks = ask.asks]
  /\ UNCHANGED <<film, now, clock, status, finish, reel, played, said, mark, step>>

(* The time asked for is over, when the thread looks after a sleep.        *)
reachEnd(t) ==
  /\ status[t] = "playing" /\ reel[t].thread = "on" /\ reel[t].hand # "enter"
  /\ ~reel[t].search.on
  /\ reel[t].hand = "empty" \/ reel[t].late.on \/ (Fetches(t) /\ Ahead(t).ok)
  /\ (finish[t] - getPresentationTime(clock[t], now)) * clock[t].play.speed <= 0
  /\ SelfPaused(t)
  /\ UNCHANGED <<reel, mark>>

Tick ==
  /\ now < MaxTime /\ ask.pc # "closed"
  /\ now' = now + 1
  /\ UNCHANGED <<film, clock, status, finish, reel, ask, played, said, mark, step>>

Receive ==
  \/ \E p \in Films[film].plays : receivePlay(p)
  \/ \E aim \in Aims : receiveResume(aim) \/ receivePause(aim)
  \/ receiveTeardown

Serve ==
  \/ \E t \in Tracks :
       \/ evalStopped(t) \/ evalPlaying(t) \/ evalRefused(t)
       \/ apply(t) \/ applyRefused(t) \/ play(t)
       \/ getPlayRange(t) \/ unpause(t) \/ pause(t) \/ teardown(t)
  \/ answer \/ report

TakeFrames(t) ==
  seekedFetch(t) \/ skipFrame(t) \/ installFrame(t) \/ sendNextFrame(t) \/ sendLateFrame(t)

(* None is left when all are torn down, or the process has ended.          *)
SendFrames ==
  /\ ask.pc # "closed"
  /\ \E t \in Tracks : TakeFrames(t) \/ reachEof(t) \/ reachEnd(t) \/ firstFails(t)

TimelineNext == Receive \/ Serve \/ SendFrames \/ Tick

TimelineSpec == TimelineInit /\ [][TimelineNext]_timelineVars

-----------------------------------------------------------------------------
(* Properties.                                                             *)

(* The tracks that one PLAY of all of them set going show the same moment, *)
(* at the same speed, and their clocks run or stand together, through      *)
(* pauses and resumptions (Timeline::Medium, RTP::Session::play, pause,    *)
(* unpause).  A track drops out when it comes to its end by itself, when   *)
(* it is addressed alone, and when it was playing and the PLAY reached it  *)
(* later than it is stamped: MultiSegment::next stops the old segment by   *)
(* the clock.  All drop out when the PLAY fails at one of them.            *)
InSync ==
  ask.pc = "idle" =>
    \A t, u \in step :
      /\ getPresentationTime(clock[t], now) = getPresentationTime(clock[u], now)
      /\ isRunning(clock[t].play) = isRunning(clock[u].play)
      /\ isRunning(clock[t].play) <=> status[t] = "playing"

(* The RTP time that a PLAY announced for the place it starts from is the  *)
(* RTP time of that place for as long as it lasts: pauses, resumptions and *)
(* ends, late or early, do not move it (Timeline::Medium::getRTPtime).     *)
RtpSteady ==
  \A t \in Tracks :
    said[t].on => getRTPtime(clock[t], said[t].from, now) = said[t].rtp

(* When the frames of a track are played, from files one after the other,  *)
(* over and over.                                                          *)
Files(k) == getMediaList(Films[k].lines)

Until(k, n) == FoldLeft(LAMBDA sum, f : sum + f.lasts, 0, SubSeq(Files(k), 1, n - 1))

Rounds(k) ==
  IF ~Films[k].list THEN {0}
  ELSE IF getLoops(Films[k].lines) = 0 THEN 0 .. 8 * MaxTime
  ELSE 0 .. getLoops(Films[k].lines) - 1

InEveryFile(k) == {t \in Tracks : \A n \in DOMAIN Files(k) : t \in DOMAIN Files(k)[n].tracks}

Shown(k, n, t, keys) ==
  {Until(k, n) + f.time + r * Until(k, Len(Files(k)) + 1) :
     f \in {f \in Range(Files(k)[n].tracks[t]) : keys => f.key}, r \in Rounds(k)}

Program ==
  [k \in DOMAIN Films |-> [t \in InEveryFile(k) |-> [keys \in BOOLEAN |->
     UNION {Shown(k, n, t, keys) : n \in DOMAIN Files(k)}]]]

(* From the place sought, the frames are taken each once, in the order and *)
(* at the time of the playlist (of a video, from its next key frame on, and*)
(* above normal speed only those), across the ends of files and rounds     *)
(* (Loop::next, getTimeShift, Container::append).  They are sent, but for  *)
(* those that come first after a seek and lie more than a second beyond    *)
(* the place sought (fetchNextFrame; the bound is that of the seek before  *)
(* if one came during the search).  A frame that was fetched before the    *)
(* seek may be sent among them (sendLateFrame).  Excepted: a track that    *)
(* one of the files lacks, and a loop whose iterator a refused PLAY, or    *)
(* one from before the beginning, has left in another round.               *)
InTurn ==
  [][\A t \in DOMAIN Program[film] :
       mark[t].on /\ (sendNextFrame(t) \/ skipFrame(t)) =>
         LET keys == t \in Videos /\ (mark[t].fresh \/ reel[t].scale > 1) IN
         /\ mark'[t].time = Min({x \in Program[film][t][keys] : x > mark[t].time})
         /\ mark'[t].time > mark[t].place + reel[t].scale
            \/ sendNextFrame(t) \/ reel[t].search.over]_timelineVars

(* A playlist without a number of loops does not come to an end of the     *)
(* range when the client has named none (NEWS).  Violated, so not among    *)
(* the runs' properties: Session::eval gives an endless medium the end 0,  *)
(* the signedMax of 0 and HUGE_VAL, and Session::play keeps it.            *)
PlaysForever ==
  [][(\A p \in Films[film].plays : p.to = Huge) =>
       \A t \in Tracks : duration(Media[t]) = Huge => ~reachEnd(t)]_timelineVars

=============================================================================
