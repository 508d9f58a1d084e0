----------------------------- MODULE SdpMedium -----------------------------
(***************************************************************************)
(* The frames of a container and who reads them: the thread that loads     *)
(* them from a media file (container_mediafile.cpp) or from a video device *)
(* (container_v4l.cpp), the list of frames each medium stores              *)
(* (sdp/medium.cpp), and the iterators of the RTP buffers, or of a         *)
(* playlist that copies the file (frameiterator.cpp).  Every medium has a  *)
(* lock for its frames and one for its iterators, the loader has another.  *)
(* On a live cast a frame is freed when every iterator has released it,    *)
(* and the loader sleeps while enough is stored.                           *)
(*                                                                         *)
(* Abstracted: a frame is its medium, its time and whether it is a key     *)
(* frame; of an RTP buffer (module RtpBuffer) there are the bounds that    *)
(* say when it fetches and when it gives frames to the RTP thread.         *)
(***************************************************************************)
EXTENDS Integers, Sequences, FiniteSets

CONSTANTS
  Tracks,    (* the media of the container                                 *)
  Videos,    (* those where only key frames can be sought                  *)
  File,      (* packets in the order of av_read_frame: [track, time, key]  *)
  Coded,     (* times of the device's frames in the order of the encoder   *)
  Modes,     (* what is loaded: "file", a file where seek is not supported *)
             (* ("live") or a device                                       *)
  Iters,     (* iterators there may be                                     *)
  Times,     (* times that are sought                                      *)
  Resumes,   (* iterators that may seek once more than to start            *)
  Low, Full, (* Container::SIZE_LOW, SIZE_FULL                             *)
  BufLow, BufFull (* frames of an RTP buffer that are few, or enough       *)

ASSUME SizesAssumption ==
  /\ {Low, Full, BufLow, BufFull} \subseteq Nat /\ Low < Full /\ BufLow < BufFull

(* A file gives the packets of each medium in the order of their time, as  *)
(* cacheFrame asserts.                                                     *)
ASSUME FileAssumption ==
  /\ Len(File) \in Nat
  /\ \A n \in 1 .. Len(File) : File[n].time \in Nat /\ File[n].key \in BOOLEAN
  /\ \A m, n \in 1 .. Len(File) :
       m < n /\ File[m].track \in Tracks /\ File[m].track = File[n].track =>
         File[m].time < File[n].time

ASSUME VideosAssumption == \E t \in Tracks : t \in Videos

ASSUME ItersAssumption == IsFiniteSet(Iters)

VARIABLES
  mode,      (* which container this is *)
  copied,    (* whether a playlist copies it *)
  read,      (* packets read so far *)
  cache,     (* device: encoded frames that wait for an earlier one *)
  frames,    (* FrameData::list of a medium *)
  count,     (* FrameData::count; -1 is not determined *)
  timeFirst, timeLast, (* of FrameData *)
  running,   (* OwnThread::running *)
  loader,    (* where the loading thread is *)
  cur,       (* the medium it has added to last *)
  stored,    (* its storedFramesDuration *)
  it,        (* iterators: their medium, what they do, and did before a *)
             (* seek, _pos, the time sought, frames fetched and not *)
             (* released, seeks done *)
  asleep,    (* iterators that wait on FrameData::available *)
  quit,      (* iterators somebody wants to delete *)
  closer     (* where Container::~Container is *)

frameVars == <<frames, count, timeFirst, timeLast>>

loaderVars == <<read, cache, running, loader, cur, stored>>

iterVars == <<it, asleep, quit>>

vars == <<mode, copied, frameVars, loaderVars, iterVars, closer>>

(* The one medium of a device.                                             *)
Device == CHOOSE t \in Tracks : t \in Videos

Live == mode # "file"

Ended(i) == it[i].at \in {"absent", "left"}

(* It::instances                                                           *)
Instances(t) == {i \in Iters : it[i].track = t /\ ~Ended(i)}

Init ==
  /\ mode \in Modes /\ copied \in (IF mode = "device" THEN {FALSE} ELSE BOOLEAN)
  /\ read = 0 /\ cache = {}
  /\ frames = [t \in Tracks |-> <<>>] /\ count = [t \in Tracks |-> -1]
  /\ timeFirst = [t \in Tracks |-> 0] /\ timeLast = [t \in Tracks |-> 0]
  /\ running = TRUE /\ loader = "read" /\ cur = Device /\ stored = 0
  /\ it = [i \in Iters |-> [at |-> "absent", was |-> "absent", track |-> cur, pos |-> 0,
                             time |-> 0, held |-> <<>>, seeks |-> 0]]
  /\ asleep = {} /\ quit = {} /\ closer = "none"

-----------------------------------------------------------------------------
(* The list of frames.  A lock of FrameData is held over each of these.    *)

Storing(f) == [time |-> f.time, key |-> f.key, released |-> 0, freed |-> FALSE]

(* Medium::Base::addFrame: the frame is cached and those who wait notified *)
addFrame(t, f) ==
  /\ frames' = [frames EXCEPT ![t] = Append(@, Storing(f))]
  /\ IF frames[t] = <<>>
     THEN timeFirst' = [timeFirst EXCEPT ![t] = f.time] /\ UNCHANGED timeLast
     ELSE timeLast' = [timeLast EXCEPT ![t] = f.time] /\ UNCHANGED timeFirst
  /\ asleep' = {i \in asleep : it[i].track # t}
  /\ UNCHANGED count

getStoredDuration(t) == timeLast[t] - timeFirst[t]

(* Slip: nobody is told.                                                   *)
finalizeSilently ==
  /\ count' = [t \in Tracks |-> Len(frames[t])]
  /\ UNCHANGED <<asleep, frames, timeFirst, timeLast>>

(* Medium::Base::finalizeFrameCount                                        *)
finalizeFrameCount ==
  /\ count' = [t \in Tracks |-> Len(frames[t])]
  /\ asleep' = {} /\ UNCHANGED <<frames, timeFirst, timeLast>>

(* The positions getFramePos may return for a time; none: it waits, or it  *)
(* is out of bounds.                                                       *)
Found(t, time) ==
  {p \in 1..Len(frames[t]) :
     LET f == frames[t][p]
     IN  ~f.freed /\ f.time >= time /\ (t \in Videos => f.key)}

First(S) == CHOOSE p \in S : \A q \in S : p <= q

(* The first frame that is still stored after position p is freed.         *)
TimeAfter(t, p) ==
  LET rest == {q \in p + 1..Len(frames[t]) : ~frames[t][q].freed}
  IN  IF p = Len(frames[t]) THEN timeLast[t]
      ELSE IF rest = {} THEN timeFirst[t] ELSE frames[t][First(rest)].time

(* Slip: the first release frees it.                                       *)
EnoughForOne(t, released) == released >= 1

(* Enough releases to free a frame.                                        *)
Enough(t, released) == released >= Cardinality(Instances(t))

(* Container::requestMoreFrames: a notice without the loader's lock.       *)
requestMoreFrames == loader' = IF loader = "asleep" THEN "yield" ELSE loader

(* Medium::Base::releaseFrame                                              *)
releaseFrame(t, p) ==
  LET n == frames[t][p].released + 1
  IN  IF ~Live \/ frames[t][p].freed
      THEN UNCHANGED <<frameVars, loader>>
      ELSE /\ frames' = [frames EXCEPT ![t][p].released = n, ![t][p].freed = Enough(t, n)]
           /\ timeFirst' = IF Enough(t, n) THEN [timeFirst EXCEPT ![t] = TimeAfter(t, p)]
                           ELSE timeFirst
           /\ IF Enough(t, n) /\ timeLast[t] - timeFirst'[t] <= Low
              THEN requestMoreFrames ELSE UNCHANGED loader
           /\ UNCHANGED <<count, timeLast>>

-----------------------------------------------------------------------------
(* The loader of a file: it holds its lock but where it yields or sleeps.  *)

Loads == mode # "device"

(* A packet that belongs to no medium is skipped.                          *)
readFrame ==
  /\ Loads /\ loader = "read" /\ read < Len(File)
  /\ read' = read + 1
  /\ LET f == File[read + 1]
     IN  IF f.track \in Tracks
         THEN addFrame(f.track, f) /\ cur' = f.track /\ loader' = "measure"
         ELSE UNCHANGED <<frameVars, asleep, cur>> /\ loader' = "added"
  /\ UNCHANGED <<mode, copied, cache, running, stored, it, quit, closer>>

readEof ==
  /\ Loads /\ loader = "read" /\ read = Len(File)
  /\ running' = FALSE /\ loader' = "added"
  /\ UNCHANGED <<mode, copied, read, cache, cur, stored, frameVars, iterVars, closer>>

(* Any other error of the read is logged, and the loop goes on.            *)
readError ==
  /\ Loads /\ loader = "read" /\ loader' = "added"
  /\ UNCHANGED <<mode, copied, read, cache, running, cur, stored, frameVars, iterVars, closer>>

measure ==
  /\ loader = "measure" /\ loader' = "added"
  /\ stored' = IF Live THEN getStoredDuration(cur) ELSE stored
  /\ UNCHANGED <<mode, copied, read, cache, running, cur, frameVars, iterVars, closer>>

suspend ==
  /\ loader = "added"
  /\ loader' = IF stored > Full THEN "asleep" ELSE "yield"
  /\ UNCHANGED <<mode, copied, read, cache, running, cur, stored, frameVars, iterVars, closer>>

(* Back with the lock, after a yield or a notice.                          *)
resume ==
  /\ loader = "yield"
  /\ loader' = IF running THEN "read" ELSE "finalize"
  /\ UNCHANGED <<mode, copied, read, cache, running, cur, stored, frameVars, iterVars, closer>>

finalize ==
  /\ loader = "finalize" /\ loader' = "done" /\ finalizeFrameCount
  /\ UNCHANGED <<mode, copied, read, cache, running, cur, stored, it, quit, closer>>

-----------------------------------------------------------------------------
(* The loader of a device does not sleep.  It reads without its lock, and  *)
(* gives what is encoded to the medium in the order of time.               *)

prevPts == Len(frames[Device]) - 1

(* Slip: a frame goes as soon as it is encoded.                            *)
ReadyAtOnce == cache

(* Cached frames that may go to the medium.                                *)
Ready == cache \cap {prevPts + 1}

captureFrame ==
  /\ mode = "device" /\ loader = "read"
  /\ IF read < Len(Coded)
     THEN /\ cache' = cache \cup {Coded[read + 1]} /\ read' = read + 1
          /\ UNCHANGED running
     ELSE running' = FALSE /\ UNCHANGED <<cache, read>>
  /\ loader' = "push"
  /\ UNCHANGED <<mode, copied, cur, stored, frameVars, iterVars, closer>>

(* A read that fails, or a packet that gives no picture.                   *)
captureNothing ==
  /\ mode = "device" /\ loader = "read" /\ loader' = "push"
  /\ UNCHANGED <<mode, copied, read, cache, running, cur, stored, frameVars, iterVars, closer>>

pushFrames ==
  /\ loader = "push"
  /\ IF Ready # {}
     THEN /\ addFrame(Device, [time |-> First(Ready), key |-> First(Ready) = 0])
          /\ cache' = cache \ {First(Ready)} /\ UNCHANGED loader
     ELSE /\ loader' = IF running THEN "read" ELSE "finalize"
          /\ UNCHANGED <<cache, frameVars, asleep>>
  /\ UNCHANGED <<mode, copied, read, running, cur, stored, it, quit, closer>>

-----------------------------------------------------------------------------
(* The iterators.                                                          *)

Goes(i, place) == it' = [it EXCEPT ![i].at = place]

(* Medium::Base::newFrameIterator, at SETUP or by Container::append        *)
newFrameIterator(i) ==
  /\ it[i].at = "absent" /\ closer = "none"
  /\ \E t \in (IF mode = "device" THEN {Device} ELSE Tracks) :
       it' = [it EXCEPT ![i].at = IF copied THEN "fetching" ELSE "ready", ![i].track = t]
  /\ UNCHANGED <<mode, copied, frameVars, loaderVars, asleep, quit, closer>>

(* AVFrame::seek: PLAY starts at zero, and goes on at some time.           *)
seek(i) ==
  /\ it[i].at \in {"ready", "fetching", "ended"} /\ ~copied /\ i \notin quit
  /\ it[i].seeks < (IF i \in Resumes THEN 2 ELSE 1)
  /\ \E t \in (IF it[i].seeks = 0 THEN {0} ELSE Times) :
       it' = [it EXCEPT ![i] = [@ EXCEPT !.at = "seeking", !.was = it[i].at, !.time = t,
                                         !.held = <<>>, !.seeks = it[i].seeks + 1]]
  /\ UNCHANGED <<mode, copied, frameVars, loaderVars, asleep, quit, closer>>

(* Without frames to give, a reader waits for them or is out of bounds.    *)
WaitOr(i, place) ==
  IF count[it[i].track] < 0
  THEN asleep' = asleep \cup {i} /\ UNCHANGED it
  ELSE Goes(i, place) /\ UNCHANGED asleep

(* Medium::Base::getFramePos; a seek out of bounds leaves all as it was.   *)
getFramePos(i) ==
  /\ it[i].at = "seeking" /\ i \notin asleep
  /\ LET S == Found(it[i].track, it[i].time)
     IN  IF S = {} THEN WaitOr(i, it[i].was)
         ELSE /\ it' = [it EXCEPT ![i].at = "found", ![i].pos = First(S) - 1]
              /\ UNCHANGED asleep
  /\ UNCHANGED <<mode, copied, frameVars, loaderVars, quit, closer>>

(* A null frame raises NullPointer, which no caller is ready for: "dead".  *)
Taken(i, p) == IF frames[it[i].track][p].freed THEN "dead" ELSE "fetching"

(* The frame that was found is taken with the lock held anew.              *)
sought(i) ==
  /\ it[i].at = "found" /\ Goes(i, Taken(i, it[i].pos + 1))
  /\ UNCHANGED <<mode, copied, frameVars, loaderVars, asleep, quit, closer>>

(* AVFrame::fetch, and next: the position moves before the frame is there. *)
next(i) ==
  /\ it[i].at = "fetching" /\ i \notin quit
  /\ (~copied => Len(it[i].held) < BufFull)
  /\ it' = [it EXCEPT ![i].at = "getting", ![i].pos = @ + 1]
  /\ UNCHANGED <<mode, copied, frameVars, loaderVars, asleep, quit, closer>>

(* Medium::Base::getFrame                                                  *)
getFrame(i) ==
  /\ it[i].at = "getting" /\ i \notin asleep
  /\ LET p == it[i].pos
     IN  IF p > Len(frames[it[i].track]) THEN WaitOr(i, "ended")
         ELSE /\ it' = [it EXCEPT ![i].at = Taken(i, p), ![i].held = Append(@, p)]
              /\ UNCHANGED asleep
  /\ UNCHANGED <<mode, copied, frameVars, loaderVars, quit, closer>>

(* Session::sendNextFrame: the buffer gives a frame when it has more than  *)
(* a few, or when no more are to come, and it is released when sent.       *)
sendFrame(i) ==
  /\ it[i].at \in {"fetching", "getting", "ended"} /\ ~copied /\ i \notin quit
  /\ Len(it[i].held) > (IF it[i].at = "ended" THEN 0 ELSE BufLow)
  /\ releaseFrame(it[i].track, Head(it[i].held))
  /\ it' = [it EXCEPT ![i].held = Tail(@)]
  /\ UNCHANGED <<mode, copied, read, cache, running, cur, stored, asleep, quit, closer>>

(* TEARDOWN, or the end of the connection; AVFrame::stop waits for the     *)
(* fetch thread, which nothing wakes from getFrame.                        *)
stop(i) ==
  /\ ~Ended(i) /\ ~copied /\ i \notin quit /\ it[i].at \notin {"seeking", "found"}
  /\ quit' = quit \cup {i}
  /\ UNCHANGED <<mode, copied, frameVars, loaderVars, it, asleep, closer>>

(* Medium::Base::releaseIterator                                           *)
releaseIterator(i) ==
  /\ it[i].at \in (IF copied THEN {"ended"} ELSE {"ready", "fetching", "ended"})
  /\ copied \/ i \in quit
  /\ it' = [it EXCEPT ![i].at = "left", ![i].held = <<>>]
  /\ quit' = quit \ {i}
  /\ UNCHANGED <<mode, copied, frameVars, loaderVars, asleep, closer>>

-----------------------------------------------------------------------------
(* ~Container, when no session uses it: Container::stop takes the lock of  *)
(* the loader to tell it, and joins it.                                    *)
LockIsFree == loader \in {"yield", "asleep", "done"} \/ (mode = "device" /\ loader = "read")

close ==
  /\ closer = "none" /\ \A i \in Iters : Ended(i)
  /\ LockIsFree
  /\ running' = FALSE /\ closer' = "unlocked"
  /\ UNCHANGED <<mode, copied, read, cache, loader, cur, stored, frameVars, iterVars>>

notifyLoader ==
  /\ closer = "unlocked" /\ closer' = "joining"
  /\ requestMoreFrames
  /\ UNCHANGED <<mode, copied, read, cache, running, cur, stored, frameVars, iterVars>>

(* The media, their frames with them, go once the thread is joined.        *)
joined ==
  /\ closer = "joining" /\ loader = "done" /\ closer' = "closed"
  /\ UNCHANGED <<mode, copied, loaderVars, frameVars, iterVars>>

-----------------------------------------------------------------------------
Dead == \E i \in Iters : it[i].at = "dead"

Loader ==
  \/ readFrame \/ readEof \/ readError \/ measure \/ suspend \/ resume \/ finalize
  \/ captureFrame \/ captureNothing \/ pushFrames

Reader(i) == getFramePos(i) \/ sought(i) \/ next(i) \/ getFrame(i)

Closer == notifyLoader \/ joined

Next ==
  /\ ~Dead
  /\ \/ Loader
     \/ close \/ Closer
     \/ \E i \in Iters : \/ newFrameIterator(i) \/ seek(i) \/ Reader(i)
                         \/ sendFrame(i) \/ stop(i) \/ releaseIterator(i)

(* Threads that can go on do, and the sessions that play go on playing.    *)
Fairness ==
  /\ WF_vars(~Dead /\ Loader) /\ WF_vars(~Dead /\ Closer)
  /\ \A i \in Iters : /\ WF_vars(~Dead /\ Reader(i)) /\ WF_vars(~Dead /\ sendFrame(i))
                      /\ WF_vars(~Dead /\ releaseIterator(i))

Spec == Init /\ [][Next]_vars /\ Fairness

-----------------------------------------------------------------------------
(* The frames of a medium are stored in the order of their time, each      *)
(* once, whatever the order in which they were read or encoded             *)
(* (Medium::Base::cacheFrame and its assertion, Container::liveCastLoop).  *)
Ordered ==
  \A t \in Tracks : \A p \in 2..Len(frames[t]) : frames[t][p - 1].time < frames[t][p].time

(* Nobody has left the medium, or gone on elsewhere than where it was.     *)
Undisturbed(t) ==
  \A i \in Iters : it[i].track = t => it[i].at # "left" /\ it[i].seeks <= 1

(* It has taken the frame, and sent it.                                    *)
DoneWith(i, p) ==
  /\ p < it[i].pos \/ (p = it[i].pos /\ it[i].at # "getting")
  /\ \A n \in DOMAIN it[i].held : it[i].held[n] # p

(* A frame is freed only when every iterator that plays has sent it, so    *)
(* that none meets a frame which is not there, whenever the others came    *)
(* (releaseFrame, getFramePos, getFrame).  When one leaves or seeks, the   *)
(* number of releases says no longer who has done them.                    *)
KeptForAll ==
  \A t \in Tracks : Undisturbed(t) =>
    /\ \A i \in Instances(t) : it[i].at # "dead"
    /\ \A p \in DOMAIN frames[t] : frames[t][p].freed =>
         \A i \in Instances(t) : it[i].at \notin {"ready", "seeking"} => DoneWith(i, p)

(* The loader sleeps, and who could wake it does not: a medium is played   *)
(* by nobody, or by one who does not release its frames; or the notice     *)
(* came before the sleep.                                                  *)
Starved ==
  /\ loader = "asleep"
  /\ \/ \E t \in Tracks : Instances(t) = {} \/ ~Undisturbed(t)
     \/ \E i \in Iters : it[i].at = "ready" \/ (copied /\ ~Ended(i))
     \/ getStoredDuration(cur) <= Low

(* The file or the device fails for ever, and is read again for ever.      *)
Failing == []<><<readError \/ captureNothing>>_vars

(* Who waits for a frame gets it, or learns that there are no more         *)
(* (getFrame, getFramePos, requestMoreFrames, finalizeFrameCount); a few   *)
(* reads that fail in between do no harm, but the loop has no end for a    *)
(* file or a device that fails always, and tells nobody.                   *)
Fed == \A i \in Iters : []<>(i \notin asleep) \/ <>[](Starved \/ Dead) \/ Failing

=============================================================================
