---------------------------- MODULE FrameIterator ----------------------------
(***************************************************************************)
(* The frames of a medium and the iterators over them (sdp/medium.cpp,     *)
(* sdp/frameiterator.cpp), the playlists that join media (lib/pls.cpp,     *)
(* sdp/container.cpp), and what the frame buffer makes of an iterator      *)
(* (rtp/buffer.cpp).                                                       *)
(*                                                                         *)
(* A medium is its frames, in the order they were stored, how long it      *)
(* lasts, whether it is video, and its iterator model: Default, or Loop    *)
(* with a number of rounds.  A frame is its time and whether it is a key   *)
(* frame.  All frames are there: how they are loaded and released is the   *)
(* subject of SdpMedium.  An iterator is the position of the Default one   *)
(* and, for a Loop, the round it is in.  An operation on an iterator gives *)
(* [ok, frame, it]: not ok is OutOfBounds, with the iterator it leaves.    *)
(*                                                                         *)
(* Times are whole numbers; Huge is HUGE_VAL.                              *)
(***************************************************************************)
EXTENDS Integers, Sequences, SequencesExt, FiniteSetsExt

CONSTANT Huge    (* HUGE_VAL: no time given, or a medium without an end    *)

ASSUME HugeAssumption == Huge \in Nat

NoFrame == [time |-> 0, key |-> FALSE]

Got(f, it) == [ok |-> TRUE, frame |-> f, it |-> it]

OutOfBounds(it) == [ok |-> FALSE, frame |-> NoFrame, it |-> it]

newFrameIterator == [pos |-> 0, cur |-> 0]

size(m) == Len(m.frames)

duration(m) ==
  IF ~m.loops THEN m.duration
  ELSE IF m.times > 0 THEN m.duration * m.times
  ELSE Huge

(* Frames come with the time of their own round.                           *)
getTimeShift(m, it) == IF m.loops THEN it.cur * m.duration ELSE 0

pos(m, it) == IF m.loops THEN it.pos + size(m) * it.cur ELSE it.pos

-----------------------------------------------------------------------------
(* Default.                                                                *)

getFrame(m, p, it) ==
  IF p \in 0 .. size(m) - 1 THEN Got(m.frames[p + 1], it) ELSE OutOfBounds(it)

(* _pos moves before getFrame throws.                                      *)
DefaultNext(m, it) == getFrame(m, it.pos, [it EXCEPT !.pos = @ + 1])

DefaultPrev(m, it) ==
  IF it.pos = -1 THEN OutOfBounds(it)
  ELSE getFrame(m, it.pos, [it EXCEPT !.pos = @ - 1])

(* The first frame of the searched time or later; of a video, a key frame. *)
getFramePos(m, t) ==
  {p \in 0 .. size(m) - 1 : m.frames[p + 1].time >= t /\ (m.video => m.frames[p + 1].key)}

DefaultSeek(m, it, t) ==
  LET found == getFramePos(m, t) IN
  IF found = {} THEN OutOfBounds(it)
  ELSE getFrame(m, Min(found), [it EXCEPT !.pos = Min(found)])

DefaultSeekPos(m, it, p) == getFrame(m, p, [it EXCEPT !.pos = p])

-----------------------------------------------------------------------------
(* Loop.                                                                   *)

(* Slip: the round is not counted.                                         *)
LoopNextSameRound(m, it) ==
  LET r == DefaultNext(m, it) IN
  IF r.ok \/ size(m) = 0 THEN r ELSE DefaultNext(m, [it EXCEPT !.pos = 0])

LoopNext(m, it) ==
  LET r == DefaultNext(m, it)
      round == [r.it EXCEPT !.cur = @ + 1] IN
  IF r.ok THEN r
  ELSE IF (m.times # 0 /\ round.cur >= m.times) \/ size(m) = 0 THEN OutOfBounds(round)
  ELSE DefaultNext(m, [round EXCEPT !.pos = 0])

(* Backwards the round is not counted, and there is no end.                *)
LoopPrev(m, it) ==
  LET r == DefaultPrev(m, it) IN
  IF r.ok \/ size(m) = 0 THEN r ELSE DefaultPrev(m, [it EXCEPT !.pos = size(m) - 1])

(* The round is set even when the time is refused.  A time before the      *)
(* beginning, where a clock that runs backwards gets to, makes it a number *)
(* beyond all others (a negative floor as size_t).                         *)
LoopSeek(m, it, t) ==
  LET round == [it EXCEPT !.cur = IF t < 0 THEN Huge ELSE t \div m.duration] IN
  IF m.times = 0 \/ t < m.duration * m.times
  THEN DefaultSeek(m, round, IF t < 0 THEN t ELSE t % m.duration)
  ELSE OutOfBounds(round)

LoopSeekPos(m, it, p) ==
  LET round == [it EXCEPT !.cur = p \div size(m)] IN
  IF m.times = 0 \/ p < size(m) * m.times
  THEN DefaultSeekPos(m, round, p % size(m))
  ELSE OutOfBounds(round)

next(m, it) == IF m.loops THEN LoopNext(m, it) ELSE DefaultNext(m, it)

prev(m, it) == IF m.loops THEN LoopPrev(m, it) ELSE DefaultPrev(m, it)

seek(m, it, t) == IF m.loops THEN LoopSeek(m, it, t) ELSE DefaultSeek(m, it, t)

seekPos(m, it, p) == IF m.loops THEN LoopSeekPos(m, it, p) ELSE DefaultSeekPos(m, it, p)

-----------------------------------------------------------------------------
(* The frame buffer.                                                       *)

(* The time a seek would come to.  The place is found again by number,     *)
(* which throws at the end of the frames; the time is that of the frame in *)
(* its medium, whatever its round.                                         *)
drySeek(m, it, t) ==
  LET there == seek(m, it, t)
      back  == seekPos(m, there.it, pos(m, it)) IN
  IF ~there.ok THEN there
  ELSE IF back.ok THEN Got(there.frame, back.it)
  ELSE OutOfBounds(back.it)

(* next() up to the frame looked for, so many times at most.               *)
Onwards(m, it, times, Found(_)) ==
  LET go[n \in 1 .. times] ==
        IF n = 1 THEN next(m, it)
        ELSE LET before == go[n - 1] IN
             IF ~before.ok \/ Found(before.frame) THEN before ELSE next(m, before.it) IN
  go[times]

(* Audio::fetchNextFrame: above double speed, one frame in so many.        *)
AudioFetch(m, it, scale) ==
  IF scale > 2 THEN Onwards(m, it, scale, LAMBDA f : FALSE) ELSE next(m, it)

(* Video::fetchNextFrame: above normal speed, the next key frame, or the   *)
(* end.  Backwards the test ++n < _scale is never true: every frame is     *)
(* passed over, and in a Loop the search never ends.                       *)
VideoFetch(m, it, scale) ==
  IF scale < 0 THEN OutOfBounds([it EXCEPT !.pos = -1])
  ELSE IF scale = 1 THEN next(m, it)
  ELSE Onwards(m, it, 2 * size(m) + 1, LAMBDA f : f.key)

(* Does the fetch thread come back from fetchNextFrame with an answer?     *)
FetchEnds(m, scale) == scale > 0 \/ (m.video /\ ~m.loops)

(* Does it keep the mutex of the buffer for ever?                          *)
FetchSpins(m, scale) == scale < 0 /\ m.video /\ m.loops

fetchNextFrame(m, it, scale) ==
  IF m.video THEN VideoFetch(m, it, scale) ELSE AudioFetch(m, it, scale)

-----------------------------------------------------------------------------
(* Playlists.  A file is how long it lasts and, for each track it has, its *)
(* frames.  The lines of a playlist are headers, which set the number of   *)
(* loops, and files.                                                       *)

LoopLine(n) == [header |-> TRUE, loops |-> n, file |-> <<>>]

FileLine(f) == [header |-> FALSE, loops |-> 0, file |-> f]

(* PlayList::reload: a header counts wherever it stands, the last one wins;*)
(* it reaches the loop as eight bits.                                      *)
getLoops(lines) ==
  LET headers == SelectSeq(lines, LAMBDA l : l.header) IN
  IF headers = <<>> THEN 0 ELSE Last(headers).loops % 256

getMediaList(lines) ==
  LET files == SelectSeq(lines, LAMBDA l : ~l.header) IN
  [k \in DOMAIN files |-> files[k].file]

addTime(frames, t) == [k \in DOMAIN frames |-> [frames[k] EXCEPT !.time = @ + t]]

append(m, frames, lasts) ==
  [m EXCEPT !.frames = @ \o addTime(frames, m.duration), !.duration = @ + lasts]

(* Container::assign, with an empty copy of each of the first file's media.*)
assign(f, videos) ==
  [t \in DOMAIN f.tracks |->
     append([frames |-> <<>>, duration |-> 0, video |-> t \in videos, loops |-> FALSE,
             times |-> 0], f.tracks[t], f.lasts)]

(* Container::append: a track the file does not have is left as it is, and *)
(* what follows comes too early on it.                                     *)
appendFile(media, f) ==
  [t \in DOMAIN media |->
     IF t \in DOMAIN f.tracks THEN append(media[t], f.tracks[t], f.lasts) ELSE media[t]]

loop(media, times) ==
  [t \in DOMAIN media |-> [media[t] EXCEPT !.loops = TRUE, !.times = times]]

loadPlayList(lines, videos) ==
  LET files == getMediaList(lines) IN
  loop(FoldLeft(appendFile, assign(Head(files), videos), Tail(files)), getLoops(lines))

(* A file that is not a playlist.                                          *)
loadFile(f, videos) == assign(f, videos)

=============================================================================
