-------------------------- MODULE SdpMediumProofs --------------------------
(***************************************************************************)
(* The order of the frames that a medium stores, and when they are freed,  *)
(* for files of any length, devices with any order of encoding, and any    *)
(* number of media and iterators.                                          *)
(***************************************************************************)
EXTENDS SdpMedium, FiniteSetTheorems, WellFoundedInduction, TLAPS

FrameType == [time : Nat, key : BOOLEAN, released : Nat, freed : BOOLEAN]

(* What is stored is a list of frames, and how far the loader is.          *)
StoreType ==
  /\ frames \in [Tracks -> Seq(FrameType)]
  /\ read \in Nat
  /\ loader = "push" => mode = "device"

(* What is still to be read from a file is later than what is stored.      *)
FileAhead ==
  mode # "device" =>
    \A t \in Tracks : \A p \in 1 .. Len(frames[t]) : \A n \in read + 1 .. Len(File) :
      File[n].track = t => frames[t][p].time < File[n].time

(* A device numbers its frames, and stores them by their numbers.          *)
Numbered ==
  mode = "device" => \A p \in 1 .. Len(frames[Device]) : frames[Device][p].time = p - 1

OrderInv == StoreType /\ FileAhead /\ Numbered /\ Ordered

LEMMA DeviceIsTrack == Device \in Tracks
BY VideosAssumption DEF Device

(* Appending to a list.                                                    *)
LEMMA AppendFacts ==
  ASSUME NEW s \in Seq(FrameType), NEW f \in FrameType
  PROVE  /\ Append(s, f) \in Seq(FrameType) /\ Len(s) \in Nat
         /\ Len(Append(s, f)) = Len(s) + 1
         /\ Append(s, f)[Len(s) + 1] = f
         /\ \A p \in 1 .. Len(s) : Append(s, f)[p] = s[p]
OBVIOUS

(* A frame that is later than all of its medium goes to the end.           *)
LEMMA AddKeepsOrder ==
  ASSUME StoreType, Ordered, NEW t \in Tracks, NEW f, f.time \in Nat, f.key \in BOOLEAN,
         addFrame(t, f), \A p \in 1 .. Len(frames[t]) : frames[t][p].time < f.time
  PROVE  /\ frames' \in [Tracks -> Seq(FrameType)]
         /\ Ordered'
         /\ \A u \in Tracks : u # t => frames'[u] = frames[u]
         /\ Len(frames[t]) \in Nat /\ Len(frames'[t]) = Len(frames[t]) + 1
         /\ \A p \in 1 .. Len(frames[t]) : frames'[t][p] = frames[t][p]
         /\ frames'[t][Len(frames[t]) + 1].time = f.time
<1> DEFINE g == Storing(f)
<1>1. g \in FrameType /\ g.time = f.time
      BY DEF Storing, FrameType
<1>2. frames' = [frames EXCEPT ![t] = Append(frames[t], g)]
      BY DEF addFrame
<1> HIDE DEF g
<1>3. frames[t] \in Seq(FrameType) /\ frames'[t] = Append(frames[t], g)
      BY <1>2 DEF StoreType
<1>4. /\ frames'[t] \in Seq(FrameType) /\ Len(frames[t]) \in Nat
      /\ Len(frames'[t]) = Len(frames[t]) + 1
      /\ frames'[t][Len(frames[t]) + 1] = g
      /\ \A p \in 1 .. Len(frames[t]) : frames'[t][p] = frames[t][p]
      BY <1>1, <1>3, AppendFacts
<1>5. \A u \in Tracks : u # t => frames'[u] = frames[u]
      BY <1>2 DEF StoreType
<1>6. frames' \in [Tracks -> Seq(FrameType)]
      BY <1>2, <1>3, <1>4 DEF StoreType
<1>7. ASSUME NEW u \in Tracks, NEW p \in 2 .. Len(frames'[u])
      PROVE  frames'[u][p - 1].time < frames'[u][p].time
  <2>1. CASE u # t
        BY <2>1, <1>5, <1>7 DEF Ordered
  <2>2. CASE u = t /\ p <= Len(frames[t])
    <3>1. p \in 2 .. Len(frames[t]) /\ p \in 1 .. Len(frames[t]) /\ p - 1 \in 1 .. Len(frames[t])
          BY <2>2, <1>4, <1>7
    <3>. QED
      BY <2>2, <3>1, <1>4 DEF Ordered
  <2>3. CASE u = t /\ p = Len(frames[t]) + 1
    <3>1. p - 1 \in 1 .. Len(frames[t]) /\ p - 1 = Len(frames[t])
          BY <2>3, <1>4, <1>7
    <3>2. frames'[t][p - 1] = frames[t][p - 1]
          BY <3>1, <1>4
    <3>. QED
      BY <2>3, <3>1, <3>2, <1>1, <1>4
  <2>. QED
    BY <2>1, <2>2, <2>3, <1>4, <1>7
<1>. QED
  BY <1>1, <1>4, <1>5, <1>6, <1>7 DEF Ordered

(* Writing to a list, which keeps it where it has no such position.        *)
LEMMA WriteFacts ==
  ASSUME NEW s \in Seq(FrameType), NEW p, NEW g, p \in 1 .. Len(s) => g \in FrameType /\ g.time = s[p].time
  PROVE  /\ [s EXCEPT ![p] = g] \in Seq(FrameType)
         /\ Len([s EXCEPT ![p] = g]) = Len(s)
         /\ \A q \in 1 .. Len(s) : [s EXCEPT ![p] = g][q].time = s[q].time
<1>1. Len(s) \in Nat /\ DOMAIN s = 1 .. Len(s)
      OBVIOUS
<1>2. CASE p \notin 1 .. Len(s)
  <2>1. [s EXCEPT ![p] = g] = s
        BY <1>1, <1>2
  <2>. QED
    BY <2>1
<1>3. CASE p \in 1 .. Len(s)
      BY <1>1, <1>3
<1>. QED
  BY <1>2, <1>3

(* A frame keeps its time when the number of its releases changes.         *)
LEMMA FrameFacts ==
  ASSUME NEW f \in FrameType, NEW n \in Nat, NEW b \in BOOLEAN
  PROVE  /\ f.released \in Nat
         /\ [f EXCEPT !.released = n] \in FrameType /\ [f EXCEPT !.released = n].time = f.time
         /\ [f EXCEPT !.freed = b] \in FrameType /\ [f EXCEPT !.freed = b].time = f.time
BY DEF FrameType

(* A release changes no time.                                              *)
LEMMA ReleaseKeepsTimes ==
  ASSUME StoreType, NEW t, NEW p, releaseFrame(t, p)
  PROVE  /\ frames' \in [Tracks -> Seq(FrameType)]
         /\ \A u \in Tracks : /\ Len(frames'[u]) = Len(frames[u])
                              /\ \A q \in 1 .. Len(frames[u]) : frames'[u][q].time = frames[u][q].time
<1> DEFINE n == frames[t][p].released + 1
<1>1. \/ frames' = frames
      \/ frames' = [frames EXCEPT ![t][p].released = n, ![t][p].freed = Enough(t, n)]
      BY DEF releaseFrame, frameVars
<1>2. CASE frames' = frames
      BY <1>2 DEF StoreType
<1>3. CASE frames' = [frames EXCEPT ![t][p].released = n, ![t][p].freed = Enough(t, n)]
  <2>1. CASE t \notin Tracks
    <3>1. frames' = frames
          BY <1>3, <2>1 DEF StoreType
    <3>. QED
      BY <3>1, <1>2
  <2>2. CASE t \in Tracks
    <3> DEFINE s == frames[t]
               r == [[s EXCEPT ![p].released = n] EXCEPT ![p].freed = Enough(t, n)]
    <3>1. s \in Seq(FrameType) /\ frames'[t] = r /\ \A u \in Tracks : u # t => frames'[u] = frames[u]
          BY <1>3, <2>2 DEF StoreType
    <3>2. r \in Seq(FrameType) /\ Len(r) = Len(s) /\ \A q \in 1 .. Len(s) : r[q].time = s[q].time
      <4> DEFINE g == [s[p] EXCEPT !.released = n]
                 s1 == [s EXCEPT ![p] = g]
                 h == [s1[p] EXCEPT !.freed = Enough(t, n)]
      <4>1. p \in 1 .. Len(s) => s[p] \in FrameType /\ n \in Nat
        <5>1. ASSUME p \in 1 .. Len(s) PROVE s[p] \in FrameType
          <6> HIDE DEF r, s, n
          <6>. QED
            BY <3>1, <5>1
        <5>2. n = s[p].released + 1
              OBVIOUS
        <5> HIDE DEF n, s
        <5>. QED
          BY <5>1, <5>2 DEF FrameType
      <4>2. p \in 1 .. Len(s) => g \in FrameType /\ g.time = s[p].time
            BY <4>1, FrameFacts
      <4>3. s1 \in Seq(FrameType) /\ Len(s1) = Len(s) /\ \A q \in 1 .. Len(s) : s1[q].time = s[q].time
            BY <3>1, <4>2, WriteFacts
      <4>4. Enough(t, n) \in BOOLEAN
            BY DEF Enough
      <4>5. p \in 1 .. Len(s1) => h \in FrameType /\ h.time = s1[p].time
        <5> HIDE DEF s1
        <5>1. p \in 1 .. Len(s1) => s1[p] \in FrameType
              BY <4>3
        <5>. QED
          BY <4>4, <5>1, FrameFacts
      <4>6. r = [s1 EXCEPT ![p] = h]
            OBVIOUS
      <4> HIDE DEF s1, h, r
      <4>. QED
        BY <4>3, <4>5, <4>6, WriteFacts
    <3> HIDE DEF r
    <3>3. frames' \in [Tracks -> Seq(FrameType)]
          BY <1>3, <2>2, <3>1, <3>2 DEF StoreType
    <3>. QED
      BY <3>1, <3>2, <3>3
  <2>. QED
    BY <2>1, <2>2
<1>. QED
  BY <1>1, <1>2, <1>3

(* Steps that keep the times of all frames, and read nothing.              *)
LEMMA TimesKept ==
  ASSUME OrderInv, UNCHANGED <<mode, read>>,
         frames' \in [Tracks -> Seq(FrameType)],
         loader' = "push" => mode = "device",
         \A u \in Tracks : /\ Len(frames'[u]) = Len(frames[u])
                           /\ \A q \in 1 .. Len(frames[u]) : frames'[u][q].time = frames[u][q].time
  PROVE  OrderInv'
<1>1. StoreType'
      BY DEF OrderInv, StoreType
<1>2. FileAhead'
      BY DEF OrderInv, FileAhead
<1>3. Numbered'
      BY DeviceIsTrack DEF OrderInv, Numbered
<1>4. Ordered'
  <2> SUFFICES ASSUME NEW t \in Tracks, NEW p \in 2 .. Len(frames'[t])
               PROVE  frames'[t][p - 1].time < frames'[t][p].time
      BY DEF Ordered
  <2>1. Len(frames[t]) \in Nat
        BY DEF OrderInv, StoreType
  <2>2. p \in 1 .. Len(frames[t]) /\ p - 1 \in 1 .. Len(frames[t]) /\ p \in 2 .. Len(frames[t])
        BY <2>1
  <2>3. frames[t][p - 1].time < frames[t][p].time
        BY <2>2 DEF OrderInv, Ordered
  <2>. QED
    BY <2>2, <2>3
<1>. QED
  BY <1>1, <1>2, <1>3, <1>4 DEF OrderInv

LEMMA Untouched ==
  ASSUME OrderInv, UNCHANGED <<mode, read, frames>>, loader' = "push" => mode = "device"
  PROVE  OrderInv'
BY TimesKept DEF OrderInv, StoreType

LEMMA ReadKeepsOrder == OrderInv /\ readFrame => OrderInv'
<1> SUFFICES ASSUME OrderInv, readFrame PROVE OrderInv'
    OBVIOUS
<1> DEFINE f == File[read + 1]
<1>1. /\ mode # "device" /\ mode' = mode /\ read' = read + 1 /\ read \in Nat
      /\ loader' # "push" /\ read + 1 \in 1 .. Len(File)
      BY FileAssumption DEF readFrame, Loads, OrderInv, StoreType
<1>2. read' \in Nat /\ read' + 1 .. Len(File) \subseteq read + 1 .. Len(File)
      BY <1>1, FileAssumption
<1>3. CASE f.track \notin Tracks
  <2>1. frames' = frames
        BY <1>3 DEF readFrame, frameVars
  <2>. QED
    BY <1>1, <1>2, <2>1 DEF OrderInv, StoreType, FileAhead, Numbered, Ordered
<1>4. CASE f.track \in Tracks
  <2> DEFINE t == f.track
  <2>1. addFrame(t, f) /\ t \in Tracks /\ f.time \in Nat /\ f.key \in BOOLEAN
        BY <1>1, <1>4, FileAssumption DEF readFrame
  <2>2. read + 1 \in read + 1 .. Len(File)
        BY <1>1, FileAssumption
  <2>3. \A p \in 1 .. Len(frames[t]) : frames[t][p].time < f.time
        BY <1>1, <2>1, <2>2 DEF OrderInv, FileAhead
  <2>4. /\ frames' \in [Tracks -> Seq(FrameType)] /\ Ordered'
        /\ \A u \in Tracks : u # t => frames'[u] = frames[u]
        /\ Len(frames[t]) \in Nat /\ Len(frames'[t]) = Len(frames[t]) + 1
        /\ \A p \in 1 .. Len(frames[t]) : frames'[t][p] = frames[t][p]
        /\ frames'[t][Len(frames[t]) + 1].time = f.time
        BY <2>1, <2>3, AddKeepsOrder DEF OrderInv
  <2>5. ASSUME NEW u \in Tracks, NEW p \in 1 .. Len(frames'[u]),
               NEW n \in read' + 1 .. Len(File), File[n].track = u
        PROVE  frames'[u][p].time < File[n].time
    <3>1. n \in read + 1 .. Len(File) /\ n \in 1 .. Len(File) /\ read + 1 < n
          BY <1>1, <2>5, FileAssumption
    <3>2. CASE u # t
          BY <1>1, <2>4, <2>5, <3>1, <3>2 DEF OrderInv, FileAhead
    <3>3. CASE u = t /\ p \in 1 .. Len(frames[t])
          BY <1>1, <2>1, <2>4, <2>5, <3>1, <3>3 DEF OrderInv, FileAhead
    <3>4. CASE u = t /\ p = Len(frames[t]) + 1
          BY <1>1, <2>1, <2>4, <2>5, <3>1, <3>4, FileAssumption
    <3>. QED
      BY <2>4, <2>5, <3>2, <3>3, <3>4
  <2>. QED
    BY <1>1, <1>2, <2>4, <2>5 DEF OrderInv, StoreType, FileAhead, Numbered
<1>. QED
  BY <1>3, <1>4

LEMMA PushKeepsOrder == OrderInv /\ pushFrames => OrderInv'
<1> SUFFICES ASSUME OrderInv, pushFrames PROVE OrderInv'
    OBVIOUS
<1>1. mode = "device" /\ UNCHANGED <<mode, read>> /\ Device \in Tracks
      BY DeviceIsTrack DEF pushFrames, OrderInv, StoreType
<1>2. CASE Ready = {}
      BY <1>1, <1>2, Untouched DEF pushFrames, frameVars
<1>3. CASE Ready # {}
  <2> DEFINE f == [time |-> First(Ready), key |-> First(Ready) = 0]
  <2>1. addFrame(Device, f) /\ loader' = loader
        BY <1>3 DEF pushFrames
  <2>2. Len(frames[Device]) \in Nat
        BY <1>1 DEF OrderInv, StoreType
  <2>3. First(Ready) = Len(frames[Device])
    <3>1. Ready = {Len(frames[Device])}
          BY <1>3, <2>2 DEF Ready, prevPts
    <3>. QED
      BY <2>2, <3>1 DEF First
  <2>4. f.time = Len(frames[Device]) /\ f.time \in Nat /\ f.key \in BOOLEAN
        BY <2>2, <2>3
  <2>5. \A p \in 1 .. Len(frames[Device]) : frames[Device][p].time < f.time
        BY <1>1, <2>2, <2>4 DEF OrderInv, Numbered
  <2> HIDE DEF f
  <2>6. /\ frames' \in [Tracks -> Seq(FrameType)] /\ Ordered'
        /\ Len(frames'[Device]) = Len(frames[Device]) + 1
        /\ \A p \in 1 .. Len(frames[Device]) : frames'[Device][p] = frames[Device][p]
        /\ frames'[Device][Len(frames[Device]) + 1].time = f.time
        BY <1>1, <2>1, <2>4, <2>5, AddKeepsOrder DEF OrderInv
  <2>7. Numbered'
    <3> SUFFICES ASSUME NEW p \in 1 .. Len(frames'[Device]) PROVE frames'[Device][p].time = p - 1
        BY DEF Numbered
    <3>1. CASE p \in 1 .. Len(frames[Device])
          BY <1>1, <2>6, <3>1 DEF OrderInv, Numbered
    <3>2. CASE p = Len(frames[Device]) + 1
          BY <2>2, <2>4, <2>6, <3>2
    <3>. QED
      BY <2>2, <2>6, <3>1, <3>2
  <2>. QED
    BY <1>1, <2>1, <2>6, <2>7 DEF OrderInv, StoreType, FileAhead
<1>. QED
  BY <1>2, <1>3

LEMMA NextKeepsOrder == OrderInv /\ [Next]_vars => OrderInv'
<1> SUFFICES ASSUME OrderInv, [Next]_vars PROVE OrderInv'
    OBVIOUS
<1> USE DEF loaderVars, iterVars, frameVars
<1>0. loader = "push" => mode = "device"
      BY DEF OrderInv, StoreType
<1>1. CASE Loader
  <2>1. CASE readEof \/ readError \/ captureNothing \/ measure \/ suspend \/ resume
        BY <2>1, Untouched DEF readEof, readError, captureNothing, measure, suspend, resume
  <2>2. CASE finalize
        BY <2>2, Untouched DEF finalize, finalizeFrameCount
  <2>3. CASE captureFrame
    <3>1. mode = "device" /\ UNCHANGED <<mode, frames>> /\ read' \in Nat
          BY <2>3 DEF captureFrame, OrderInv, StoreType
    <3>. QED
      BY <3>1 DEF OrderInv, StoreType, FileAhead, Numbered, Ordered
  <2>. QED
    BY <1>1, <2>1, <2>2, <2>3, ReadKeepsOrder, PushKeepsOrder DEF Loader
<1>2. CASE close \/ Closer
      BY <1>0, <1>2, Untouched DEF close, Closer, notifyLoader, joined, requestMoreFrames
<1>3. ASSUME NEW i \in Iters, newFrameIterator(i) \/ seek(i) \/ Reader(i)
      PROVE  OrderInv'
      BY <1>0, <1>3, Untouched DEF newFrameIterator, seek, Reader, getFramePos, sought, next, getFrame
<1>4. ASSUME NEW i \in Iters, sendFrame(i)
      PROVE  OrderInv'
  <2>1. releaseFrame(it[i].track, Head(it[i].held)) /\ UNCHANGED <<mode, read>>
        BY <1>4 DEF sendFrame
  <2>2. loader' \in {loader, "yield"}
        BY <2>1 DEF releaseFrame, requestMoreFrames
  <2>3. StoreType
        BY DEF OrderInv
  <2>. QED
    BY <1>0, <2>1, <2>2, <2>3, ReleaseKeepsTimes, TimesKept
<1>5. ASSUME NEW i \in Iters, stop(i) \/ releaseIterator(i)
      PROVE  OrderInv'
      BY <1>0, <1>5, Untouched DEF stop, releaseIterator
<1>6. CASE UNCHANGED vars
      BY <1>0, <1>6, Untouched DEF vars
<1>. QED
  BY <1>1, <1>2, <1>3, <1>4, <1>5, <1>6 DEF Next

LEMMA InitOrder == Init => OrderInv
<1> SUFFICES ASSUME Init PROVE OrderInv
    OBVIOUS
<1>1. \A t \in Tracks : frames[t] = <<>> /\ Len(frames[t]) = 0
      BY DEF Init
<1>2. frames \in [Tracks -> Seq(FrameType)]
      BY DEF Init
<1>. QED
  BY <1>1, <1>2, DeviceIsTrack DEF Init, OrderInv, StoreType, FileAhead, Numbered, Ordered

(* The frames of a medium are stored in the order of their time, whatever  *)
(* the order in which a device encodes them, and whoever reads or releases *)
(* them (Medium::Base::cacheFrame, Container::liveCastLoop).               *)
THEOREM StoredInOrder == Spec => []Ordered
<1>1. OrderInv => Ordered
      BY DEF OrderInv
<1>. QED
  BY <1>1, InitOrder, NextKeepsOrder, PTL DEF Spec

-----------------------------------------------------------------------------
(* A frame is freed only when all have sent it.                            *)

Places == {"absent", "ready", "seeking", "found", "fetching", "getting", "ended", "left", "dead"}

IterType ==
  [at : Places, was : Places, track : Tracks, pos : Nat, time : {0} \cup Times,
   held : Seq(Nat), seeks : Nat]

Started(i) == it[i].at \in {"found", "fetching", "getting", "ended"}

(* The last frame an iterator has fetched, and the last it has sent.       *)
Top(i) == IF it[i].at \in {"getting", "ended"} THEN it[i].pos - 1 ELSE it[i].pos

Past(i) == Top(i) - Len(it[i].held)

(* An iterator holds the frames after the last it has sent, to the last it *)
(* has fetched.                                                            *)
Holds(i) ==
  /\ Past(i) \in Nat /\ Top(i) <= Len(frames[it[i].track])
  /\ \A n \in 1 .. Len(it[i].held) : it[i].held[n] = Past(i) + n
  /\ it[i].at = "found" => it[i].pos < Len(frames[it[i].track])

(* A first seek is for time zero, and one that is refused leaves the       *)
(* iterator unplayed.                                                      *)
InPlace(i) ==
  /\ it[i].at = "absent" => it[i].seeks = 0 /\ it[i].pos = 0 /\ it[i].held = <<>>
  /\ Started(i) /\ ~copied => it[i].seeks >= 1
  /\ it[i].at = "ready" => it[i].held = <<>>
  /\ it[i].at = "seeking" =>
       /\ it[i].was \in {"ready", "fetching", "ended"} /\ it[i].held = <<>> /\ it[i].seeks >= 1
       /\ it[i].seeks = 1 => it[i].time = 0 /\ it[i].was = "ready"

PlacesInv == \A i \in Iters : InPlace(i)

HoldInv ==
  \A t \in Tracks : Undisturbed(t) =>
    \A i \in Instances(t) : it[i].at # "dead" /\ (Started(i) => Holds(i))

(* Those that have sent frame p.                                           *)
Senders(t, p) == {i \in Instances(t) : Started(i) /\ p <= Past(i)}

(* A frame that a new iterator may begin with.                             *)
Entry(t, p) == ~frames[t][p].freed /\ (t \in Videos => frames[t][p].key)

(* Releases are counted where frames are freed: at most one for each that  *)
(* has sent the frame, and exactly one where all of them began before it.  *)
Counted(t, p) ==
  LET f == frames[t][p] IN
  /\ f.freed => \A i \in Instances(t) : Started(i) => p <= Past(i)
  /\ ~f.freed => f.released <= Cardinality(Senders(t, p))
  /\ ~f.freed /\ f.released # 0 => f.released < Cardinality(Instances(t))
  /\ Entry(t, p) => f.released = Cardinality(Senders(t, p))
  /\ f.freed => \A q \in 1 .. p : ~Entry(t, q)

CountInv ==
  /\ Live /\ ~copied =>
       \A t \in Tracks : Undisturbed(t) => \A p \in 1 .. Len(frames[t]) : Counted(t, p)
  /\ ~Live \/ copied => \A t \in Tracks : \A p \in 1 .. Len(frames[t]) : ~frames[t][p].freed

KeptInv == it \in [Iters -> IterType] /\ cur \in Tracks /\ PlacesInv /\ HoldInv /\ CountInv

LEMMA KeptMeansKeptForAll == KeptInv /\ StoreType => KeptForAll
<1> SUFFICES ASSUME KeptInv, StoreType, NEW t \in Tracks, Undisturbed(t)
             PROVE  /\ \A i \in Instances(t) : it[i].at # "dead"
                    /\ \A p \in DOMAIN frames[t] : frames[t][p].freed =>
                         \A i \in Instances(t) : it[i].at \notin {"ready", "seeking"} => DoneWith(i, p)
    BY DEF KeptForAll
<1>1. \A i \in Instances(t) : it[i].at # "dead" /\ (Started(i) => Holds(i))
      BY DEF KeptInv, HoldInv
<1>2. ASSUME NEW p \in DOMAIN frames[t], frames[t][p].freed, NEW i \in Instances(t),
             it[i].at \notin {"ready", "seeking"}
      PROVE  DoneWith(i, p)
  <2>1. p \in 1 .. Len(frames[t])
        BY <1>2 DEF StoreType
  <2>2. it[i] \in IterType /\ it[i].at \notin {"absent", "left"}
        BY <1>2 DEF KeptInv, Instances, Ended
  <2>3. Started(i)
        BY <1>1, <1>2, <2>2 DEF Started, IterType, Places
  <2>4. p <= Past(i)
        BY <1>2, <2>1, <2>3 DEF KeptInv, CountInv, Counted
  <2>5. it[i].held \in Seq(Nat) /\ Len(it[i].held) \in Nat /\ DOMAIN it[i].held = 1 .. Len(it[i].held)
        /\ it[i].pos \in Nat /\ p \in Nat
        BY <2>1, <2>2 DEF IterType
  <2>6. Holds(i)
        BY <1>1, <2>3
  <2>7. \A n \in DOMAIN it[i].held : it[i].held[n] # p
        BY <2>4, <2>5, <2>6 DEF Holds
  <2>8. p <= Top(i)
        BY <2>4, <2>5, <2>6 DEF Holds, Past, Top
  <2>9. p < it[i].pos \/ (p = it[i].pos /\ it[i].at # "getting")
        BY <2>5, <2>8 DEF Top
  <2>. QED
    BY <2>7, <2>9 DEF DoneWith
<1>. QED
  BY <1>1, <1>2

LEMMA InitKept == Init => KeptInv
<1> SUFFICES ASSUME Init PROVE KeptInv
    OBVIOUS
<1>1. cur \in Tracks /\ \A i \in Iters : it[i] = [at |-> "absent", was |-> "absent", track |-> cur,
                                    pos |-> 0, time |-> 0, held |-> <<>>, seeks |-> 0]
      BY DeviceIsTrack DEF Init
<1>2. it \in [Iters -> IterType]
      BY <1>1, DeviceIsTrack DEF Init, IterType, Places
<1>3. \A t \in Tracks : frames[t] = <<>> /\ Len(frames[t]) = 0 /\ Instances(t) = {}
      BY <1>1 DEF Init, Instances, Ended
<1>4. PlacesInv
      BY <1>1 DEF PlacesInv, InPlace, Started
<1>. QED
  BY <1>1, <1>2, <1>3, <1>4 DEF KeptInv, HoldInv, CountInv

LEMMA SendersFinite ==
  ASSUME NEW t, NEW p
  PROVE  /\ IsFiniteSet(Instances(t)) /\ IsFiniteSet(Senders(t, p))
         /\ Cardinality(Instances(t)) \in Nat /\ Cardinality(Senders(t, p)) \in Nat
         /\ Senders(t, p) \subseteq Instances(t) /\ Instances(t) \subseteq Iters
BY ItersAssumption, FS_Subset, FS_CardinalityType DEF Senders, Instances

(* What Counted says is kept for a frame that does not change while the    *)
(* iterators and the senders of it can only be more, and the senders the   *)
(* same if an iterator may begin with it.                                  *)
LEMMA CountKept ==
  ASSUME NEW t \in Tracks, NEW p \in 1 .. Len(frames[t]), Counted(t, p), StoreType,
         frames'[t] = frames[t],
         Instances(t) \subseteq Instances(t)', Senders(t, p) \subseteq Senders(t, p)',
         Entry(t, p) => Senders(t, p)' = Senders(t, p),
         frames[t][p].freed => \A i \in Instances(t)' : Started(i)' => p <= Past(i)'
  PROVE  Counted(t, p)'
<1>1. /\ Cardinality(Instances(t)) <= Cardinality(Instances(t)')
      /\ Cardinality(Senders(t, p)) <= Cardinality(Senders(t, p)')
  <2>1. IsFiniteSet(Instances(t)') /\ IsFiniteSet(Senders(t, p)')
        BY ItersAssumption, FS_Subset DEF Senders, Instances
  <2>. QED
    BY <2>1, FS_Subset
<1>2. frames[t][p].released \in Nat
  <2>1. frames[t] \in Seq(FrameType)
        BY DEF StoreType
  <2>2. frames[t][p] \in FrameType
        BY <2>1
  <2>. QED
    BY <2>2 DEF FrameType
<1>3. /\ Cardinality(Instances(t)) \in Nat /\ Cardinality(Senders(t, p)) \in Nat
      /\ Cardinality(Instances(t)') \in Nat /\ Cardinality(Senders(t, p)') \in Nat
      BY ItersAssumption, FS_Subset, FS_CardinalityType DEF Senders, Instances
<1>4. \A q \in 1 .. p : Entry(t, q)' <=> Entry(t, q)
      BY DEF Entry
<1>5. Entry(t, p)' <=> Entry(t, p)
      BY DEF Entry
<1>6. Entry(t, p) => frames[t][p].released = Cardinality(Senders(t, p)')
      BY DEF Counted
<1>. HIDE DEF Entry
<1>. QED
  BY <1>1, <1>2, <1>3, <1>4, <1>5, <1>6 DEF Counted

(* What one iterator does is kept within bounds if it goes on from where   *)
(* it is, or begins at no frame that is freed and before all it may begin  *)
(* with.                                                                   *)
LEMMA MoveKeeps ==
  ASSUME KeptInv, StoreType, UNCHANGED <<frames, mode, copied>>, cur' \in Tracks,
         NEW i \in Iters, NEW g \in IterType, it' = [it EXCEPT ![i] = g], InPlace(i)',
         it[i].at # "left", g.at # "absent", g.seeks >= it[i].seeks,
         g.track = it[i].track \/ it[i].at = "absent",
         Undisturbed(g.track)' =>
           /\ g.at # "dead" /\ (Started(i) => Started(i)') /\ (Started(i)' => Holds(i)')
           /\ Started(i) => Past(i)' = Past(i)
           /\ Started(i)' /\ ~Started(i) =>
                \A p \in 1 .. Len(frames[g.track]) :
                  /\ frames[g.track][p].freed => p <= Past(i)'
                  /\ Entry(g.track, p) => ~(p <= Past(i)')
  PROVE  KeptInv'
<1>1. it[i] \in IterType /\ it' \in [Iters -> IterType] /\ it'[i] = g
      /\ \A j \in Iters : j # i => it'[j] = it[j]
      BY DEF KeptInv
<1>2. \A j \in Iters : j # i =>
        (Started(j)' <=> Started(j)) /\ Past(j)' = Past(j) /\ (Ended(j)' <=> Ended(j)) /\ (Holds(j)' <=> Holds(j))
      BY <1>1 DEF Started, Past, Top, Ended, Holds
<1>3. ASSUME NEW t \in Tracks, Undisturbed(t)'
      PROVE  Undisturbed(t)
  <2>1. it[i].at = "absent" => it[i].seeks = 0
        BY DEF KeptInv, PlacesInv, InPlace
  <2>. SUFFICES ASSUME NEW j \in Iters, it[j].track = t PROVE it[j].at # "left" /\ it[j].seeks <= 1
       BY DEF Undisturbed
  <2>2. CASE j # i
        BY <1>1, <1>3, <2>2 DEF Undisturbed
  <2>3. CASE j = i /\ it[i].at = "absent"
        BY <2>1, <2>3
  <2>4. CASE j = i /\ it[i].at # "absent"
    <3>1. g.seeks <= 1
          BY <1>1, <1>3, <2>4 DEF Undisturbed
    <3>. QED
      BY <1>1, <2>4, <3>1 DEF IterType
  <2>. QED
    BY <2>2, <2>3, <2>4
<1>4. ASSUME NEW t \in Tracks, t # g.track
      PROVE  /\ Instances(t)' = Instances(t)
             /\ \A p : Senders(t, p)' = Senders(t, p)
  <2>1. i \notin Instances(t) /\ i \notin Instances(t)'
        BY <1>1, <1>4 DEF Instances, Ended
  <2>2. Instances(t)' = Instances(t)
        BY <1>1, <1>2, <2>1 DEF Instances
  <2>. QED
    BY <1>2, <2>1, <2>2 DEF Senders, Instances
<1>5. ASSUME Undisturbed(g.track)'
      PROVE  /\ Instances(g.track) \subseteq Instances(g.track)'
             /\ Instances(g.track)' = Instances(g.track) \cup {i}
  <2>1. g.at \notin {"absent", "left"}
        BY <1>1, <1>5 DEF Undisturbed
  <2>. QED
    BY <1>1, <1>2, <2>1 DEF Instances, Ended
<1>6. HoldInv'
  <2>. SUFFICES ASSUME NEW t \in Tracks, Undisturbed(t)', NEW j \in Instances(t)'
                PROVE  it'[j].at # "dead" /\ (Started(j)' => Holds(j)')
       BY DEF HoldInv
  <2>1. j \in Iters /\ it'[j].track = t
        BY DEF Instances
  <2>2. CASE j = i
        BY <1>1, <2>1, <2>2
  <2>3. CASE j # i
    <3>1. j \in Instances(t)
          BY <1>1, <1>2, <2>1, <2>3 DEF Instances
    <3>. QED
      BY <1>1, <1>2, <1>3, <2>1, <2>3, <3>1 DEF KeptInv, HoldInv
  <2>. QED
    BY <2>2, <2>3
<1>7. CountInv'
  <2>1. CASE ~Live \/ copied
    <3>1. (~Live \/ copied)'
          BY <2>1 DEF Live
    <3>. QED
      BY <2>1, <3>1 DEF KeptInv, CountInv
  <2>2. CASE Live /\ ~copied
    <3>1. (Live /\ ~copied)'
          BY <2>2 DEF Live
    <3>2. ASSUME NEW t \in Tracks, Undisturbed(t)', NEW p \in 1 .. Len(frames[t])
          PROVE  Counted(t, p)'
      <4>1. Counted(t, p)
            BY <1>3, <2>2, <3>2 DEF KeptInv, CountInv
      <4>2. CASE t # g.track
        <5>1. frames[t][p].freed => \A j \in Instances(t)' : Started(j)' => p <= Past(j)'
          <6>1. i \notin Instances(t)'
                BY <1>1, <4>2 DEF Instances
          <6>. QED
            BY <1>2, <1>4, <4>1, <4>2, <6>1 DEF Counted, Instances
        <5>. QED
          BY <1>4, <4>1, <4>2, <5>1, CountKept
      <4>3. CASE t = g.track
        <5>1. Instances(t) \subseteq Instances(t)' /\ Instances(t)' = Instances(t) \cup {i}
              BY <1>5, <3>2, <4>3
        <5>2. Started(i) => Started(i)' /\ Past(i)' = Past(i)
              BY <3>2, <4>3
        <5>3. Started(i)' /\ ~Started(i) =>
                (frames[t][p].freed => p <= Past(i)') /\ (Entry(t, p) => ~(p <= Past(i)'))
              BY <3>2, <4>3
        <5>3a. Started(i) => it[i].at \notin {"absent", "left"}
              BY DEF Started
        <5>3b. Started(i) => i \in Instances(t)
              BY <4>3, <5>3a DEF Instances, Ended
        <5>4. frames[t][p].freed => \A j \in Instances(t)' : Started(j)' => p <= Past(j)'
              BY <1>2, <4>1, <5>1, <5>2, <5>3, <5>3b DEF Counted, Instances
        <5>5. Senders(t, p) \subseteq Senders(t, p)'
              BY <1>2, <5>1, <5>2 DEF Senders, Instances
        <5>6. Entry(t, p) => Senders(t, p)' = Senders(t, p)
              BY <1>2, <5>1, <5>2, <5>3, <5>3b, <5>5 DEF Senders, Instances
        <5>. QED
          BY <4>1, <5>1, <5>4, <5>5, <5>6, CountKept
      <4>. QED
        BY <4>2, <4>3
    <3>. QED
      BY <3>1, <3>2 DEF CountInv
  <2>. QED
    BY <2>1, <2>2
<1>8. PlacesInv'
      BY <1>1, <1>2 DEF KeptInv, PlacesInv, InPlace
<1>. QED
  BY <1>1, <1>6, <1>7, <1>8 DEF KeptInv

(* A frame that is added counts as sent by nobody.                         *)
LEMMA AddKeeps ==
  ASSUME KeptInv, StoreType, UNCHANGED <<it, mode, copied>>, cur' \in Tracks,
         NEW u \in Tracks, NEW f, f.time \in Nat, f.key \in BOOLEAN, addFrame(u, f)
  PROVE  KeptInv'
<1> DEFINE g == Storing(f)
<1>1. g \in FrameType /\ g.released = 0 /\ g.freed = FALSE
      BY DEF Storing, FrameType
<1>2. frames' = [frames EXCEPT ![u] = Append(frames[u], g)]
      BY DEF addFrame
<1> HIDE DEF g
<1>3. frames[u] \in Seq(FrameType) /\ frames'[u] = Append(frames[u], g)
      BY <1>2 DEF StoreType
<1>4. /\ Len(frames[u]) \in Nat /\ Len(frames'[u]) = Len(frames[u]) + 1
      /\ frames'[u][Len(frames[u]) + 1] = g
      /\ \A p \in 1 .. Len(frames[u]) : frames'[u][p] = frames[u][p]
      BY <1>1, <1>3, AppendFacts
<1>5. \A t \in Tracks : t # u => frames'[t] = frames[t]
      BY <1>2 DEF StoreType
<1>6. /\ \A t : (Undisturbed(t)' <=> Undisturbed(t)) /\ Instances(t)' = Instances(t)
      /\ \A i : (Started(i)' <=> Started(i)) /\ Past(i)' = Past(i) /\ Top(i)' = Top(i)
      /\ \A t, p : Senders(t, p)' = Senders(t, p)
      BY DEF Undisturbed, Instances, Ended, Started, Past, Top, Senders
<1>7. PlacesInv' /\ it' \in [Iters -> IterType]
      BY DEF KeptInv, PlacesInv, InPlace, Started
<1>8. HoldInv'
  <2>. SUFFICES ASSUME NEW t \in Tracks, Undisturbed(t)', NEW i \in Instances(t)'
                PROVE  it'[i].at # "dead" /\ (Started(i)' => Holds(i)')
       BY DEF HoldInv
  <2>1. i \in Instances(t) /\ it[i].at # "dead" /\ (Started(i) => Holds(i))
        BY <1>6 DEF KeptInv, HoldInv
  <2>2. it[i].track = t /\ it[i] \in IterType
        BY <2>1 DEF Instances, KeptInv
  <2>3. Top(i) \in Int
        BY <2>2 DEF Top, IterType
  <2>4. Len(frames'[t]) >= Len(frames[t]) /\ Len(frames[t]) \in Nat
    <3>1. CASE t = u
          BY <1>4, <3>1
    <3>2. CASE t # u
          BY <1>5, <3>2 DEF StoreType
    <3>. QED
      BY <3>1, <3>2
  <2>5. Started(i) => Holds(i)'
    <3>1. Top(i) <= Len(frames[t]) => Top(i) <= Len(frames'[t])
      <4>1. Len(frames'[t]) \in Int
        <5>1. CASE t = u
              BY <1>4, <5>1
        <5>2. CASE t # u
              BY <1>5, <2>4, <5>2
        <5>. QED
          BY <5>1, <5>2
      <4>. QED
        BY <2>3, <2>4, <4>1
    <3>2. it[i].pos < Len(frames[t]) => it[i].pos < Len(frames'[t])
      <4>1. Len(frames'[t]) \in Int /\ it[i].pos \in Nat
            BY <1>4, <1>5, <2>2, <2>4 DEF IterType
      <4>. QED
        BY <2>4, <4>1
    <3>. QED
      BY <1>6, <2>1, <2>2, <3>1, <3>2 DEF Holds
  <2>. QED
    BY <1>6, <2>1, <2>5
<1>9. CountInv'
  <2>1. (Live' <=> Live) /\ copied' = copied
        BY DEF Live
  <2>2. CASE ~Live \/ copied
    <3>. SUFFICES ASSUME NEW t \in Tracks, NEW p \in 1 .. Len(frames'[t]) PROVE ~frames'[t][p].freed
         BY <2>1, <2>2 DEF CountInv
    <3>1. \A q \in 1 .. Len(frames[t]) : ~frames[t][q].freed
          BY <2>2 DEF KeptInv, CountInv
    <3>2. CASE t # u
          BY <1>5, <3>1, <3>2
    <3>3. CASE t = u /\ p \in 1 .. Len(frames[u])
          BY <1>4, <3>1, <3>3
    <3>4. CASE t = u /\ p = Len(frames[u]) + 1
          BY <1>1, <1>4, <3>4
    <3>. QED
      BY <1>4, <3>2, <3>3, <3>4
  <2>3. CASE Live /\ ~copied
    <3>. SUFFICES ASSUME NEW t \in Tracks, Undisturbed(t)', NEW p \in 1 .. Len(frames'[t])
                  PROVE  Counted(t, p)'
         BY <2>1, <2>3 DEF CountInv
    <3>1. \A q \in 1 .. Len(frames[t]) : Counted(t, q)
          BY <1>6, <2>3 DEF KeptInv, CountInv
    <3>2. CASE p \in 1 .. Len(frames[t])
      <4>1. \A q \in 1 .. p : frames'[t][q] = frames[t][q]
            BY <1>4, <1>5, <3>2
      <4>2. p \in 1 .. p
            BY <3>2
      <4>3. \A q \in 1 .. p : Entry(t, q)' <=> Entry(t, q)
            BY <4>1 DEF Entry
      <4>. HIDE DEF Entry
      <4>. QED
        BY <1>6, <3>1, <3>2, <4>1, <4>2, <4>3 DEF Counted
    <3>3. CASE t = u /\ p = Len(frames[u]) + 1
      <4>1. Senders(t, p) = {}
        <5>. SUFFICES ASSUME NEW i \in Senders(t, p) PROVE FALSE
             OBVIOUS
        <5>1. i \in Instances(t) /\ Started(i) /\ p <= Past(i) /\ it[i] \in IterType
              BY DEF Senders, Instances, KeptInv
        <5>2. Top(i) <= Len(frames[t]) /\ Past(i) \in Nat
              BY <1>6, <5>1 DEF KeptInv, HoldInv, Holds, Instances
        <5>3. Top(i) \in Int /\ Len(it[i].held) \in Nat /\ Past(i) = Top(i) - Len(it[i].held)
              BY <5>1 DEF IterType, Top, Past
        <5>. QED
          BY <1>4, <3>3, <5>1, <5>2, <5>3
      <4>2. frames'[t][p] = g
            BY <1>4, <3>3
      <4>3. Cardinality(Senders(t, p)') = 0
            BY <1>6, <4>1, FS_EmptySet
      <4>. QED
        BY <1>1, <4>2, <4>3 DEF Counted
    <3>. QED
      BY <1>4, <1>5, <3>2, <3>3
  <2>. QED
    BY <2>2, <2>3
<1>. QED
  BY <1>7, <1>8, <1>9 DEF KeptInv

(* Steps of the loader that add nothing, and of others that move nobody.   *)
LEMMA NothingMoves ==
  ASSUME KeptInv, UNCHANGED <<it, frames, mode, copied>>, cur' \in Tracks
  PROVE  KeptInv'
<1>1. /\ \A t : (Undisturbed(t)' <=> Undisturbed(t)) /\ Instances(t)' = Instances(t)
      /\ \A i : (Started(i)' <=> Started(i)) /\ Past(i)' = Past(i) /\ Top(i)' = Top(i)
                /\ (Holds(i)' <=> Holds(i))
      /\ \A t, p : Senders(t, p)' = Senders(t, p) /\ (Entry(t, p)' <=> Entry(t, p))
      /\ (Live' <=> Live)
      BY DEF Undisturbed, Instances, Ended, Started, Past, Top, Senders, Holds, Entry, Live
<1>2. \A t, p : Counted(t, p)' <=> Counted(t, p)
      BY <1>1 DEF Counted
<1>. QED
  BY <1>1, <1>2 DEF KeptInv, PlacesInv, InPlace, HoldInv, CountInv

(* A release counts on its frame, and changes nothing else.                *)
LEMMA ReleaseFacts ==
  ASSUME StoreType, NEW t \in Tracks, NEW p \in 1 .. Len(frames[t]), releaseFrame(t, p),
         Live, ~frames[t][p].freed
  PROVE  /\ \A u \in Tracks : u # t => frames'[u] = frames[u]
         /\ frames'[t] \in Seq(FrameType) /\ Len(frames'[t]) = Len(frames[t])
         /\ \A q \in 1 .. Len(frames[t]) : q # p => frames'[t][q] = frames[t][q]
         /\ frames'[t][p].released = frames[t][p].released + 1
         /\ frames'[t][p].freed = Enough(t, frames[t][p].released + 1)
         /\ frames'[t][p].key = frames[t][p].key
<1> DEFINE n == frames[t][p].released + 1
           g == [frames[t][p] EXCEPT !.released = n, !.freed = Enough(t, n)]
<1>1. frames[t] \in Seq(FrameType)
      BY DEF StoreType
<1>2. frames[t][p] \in FrameType
      BY <1>1
<1>3. n \in Nat /\ Enough(t, n) \in BOOLEAN
      BY <1>2 DEF FrameType, Enough
<1>4. /\ g \in FrameType /\ g.released = n /\ g.freed = Enough(t, n) /\ g.key = frames[t][p].key
      /\ g.time = frames[t][p].time
      BY <1>2, <1>3 DEF FrameType
<1>5. frames' = [frames EXCEPT ![t][p].released = n, ![t][p].freed = Enough(t, n)]
      BY DEF releaseFrame
<1>6. frames'[t] = [frames[t] EXCEPT ![p] = g] /\ \A u \in Tracks : u # t => frames'[u] = frames[u]
      BY <1>1, <1>5 DEF StoreType
<1> HIDE DEF g, n
<1>7. frames'[t] \in Seq(FrameType) /\ Len(frames'[t]) = Len(frames[t])
      BY <1>1, <1>4, <1>6, WriteFacts
<1>8. frames'[t][p] = g /\ \A q \in 1 .. Len(frames[t]) : q # p => frames'[t][q] = frames[t][q]
      BY <1>1, <1>6
<1>. QED
  BY <1>4, <1>6, <1>7, <1>8 DEF n

LEMMA OneMore == \A a, b \in Nat : a - (b + 1) = a - 1 - b /\ a = a - 1 - b + (b + 1)
OBVIOUS

LEMMA OneLess == \A a \in Int, b \in Nat : a - b \in Int /\ a - (b - 1) = a - b + 1
OBVIOUS

LEMMA SendKeeps ==
  ASSUME KeptInv, StoreType, NEW i \in Iters, sendFrame(i),
         NEW t, t = it[i].track, NEW p, p = Head(it[i].held)
  PROVE  KeptInv'
<1> DEFINE g == [it[i] EXCEPT !.held = Tail(@)]
<1>1. /\ it[i] \in IterType /\ it[i].at \in {"fetching", "getting", "ended"}
      /\ UNCHANGED <<mode, copied, cur>> /\ ~copied /\ Len(it[i].held) > 0 /\ releaseFrame(t, p)
      /\ it' = [it EXCEPT ![i].held = Tail(@)]
  <2>1. it[i].held \in Seq(Nat) /\ Len(it[i].held) \in Nat
        BY DEF KeptInv, IterType
  <2>2. Len(it[i].held) > (IF it[i].at = "ended" THEN 0 ELSE BufLow) /\ BufLow \in Nat
        BY SizesAssumption DEF sendFrame
  <2>. QED
    BY <2>1, <2>2 DEF KeptInv, sendFrame
<1>2. /\ it[i].held \in Seq(Nat) /\ Len(it[i].held) \in Nat /\ t \in Tracks /\ it[i].pos \in Nat
      /\ Tail(it[i].held) \in Seq(Nat) /\ Len(Tail(it[i].held)) = Len(it[i].held) - 1
      /\ \A n \in 1 .. Len(it[i].held) - 1 : Tail(it[i].held)[n] = it[i].held[n + 1]
      /\ p = it[i].held[1]
      BY <1>1 DEF IterType
<1>3. g \in IterType /\ g.at = it[i].at /\ g.track = t /\ g.seeks = it[i].seeks /\ g.pos = it[i].pos
      /\ g.held = Tail(it[i].held) /\ g.time = it[i].time /\ g.was = it[i].was
      BY <1>1, <1>2 DEF IterType
<1>4. it' \in [Iters -> IterType] /\ it'[i] = g /\ \A j \in Iters : j # i => it'[j] = it[j]
      BY <1>1, <1>3 DEF KeptInv
<1>5. Started(i) /\ Started(i)'
      BY <1>1, <1>3, <1>4 DEF Started
<1> HIDE DEF g
<1>6. Top(i)' = Top(i) /\ Top(i) \in Int /\ Past(i) \in Int /\ Past(i)' = Past(i) + 1
  <2>1. it'[i].at = it[i].at /\ it'[i].pos = it[i].pos /\ Len(it'[i].held) = Len(it[i].held) - 1
        BY <1>2, <1>3, <1>4
  <2>2. Top(i)' = Top(i) /\ Top(i) \in Int
        BY <1>2, <2>1 DEF Top
  <2>3. Len(it[i].held) \in Nat
        BY <1>2
  <2>4. Past(i) = Top(i) - Len(it[i].held) /\ Past(i)' = Top(i)' - Len(it'[i].held)
        BY DEF Past
  <2>. QED
    BY <2>1, <2>2, <2>3, <2>4, OneLess, Zenon
<1>7. \A j \in Iters : j # i =>
        (Started(j)' <=> Started(j)) /\ Past(j)' = Past(j) /\ Top(j)' = Top(j)
      BY <1>4 DEF Started, Past, Top
<1>8. /\ \A u : Undisturbed(u)' <=> Undisturbed(u)
      /\ \A u : Instances(u)' = Instances(u)
      BY <1>3, <1>4 DEF Undisturbed, Instances, Ended
<1>9. i \in Instances(t)
      BY <1>1 DEF Instances, Ended
<1>10. /\ frames' \in [Tracks -> Seq(FrameType)]
       /\ \A u \in Tracks : Len(frames'[u]) = Len(frames[u])
       BY <1>1, ReleaseKeepsTimes
<1>11. PlacesInv'
  <2>. SUFFICES ASSUME NEW j \in Iters PROVE InPlace(j)'
       BY DEF PlacesInv
  <2>1. CASE j = i
        BY <1>1, <1>3, <1>4, <1>5, <2>1 DEF KeptInv, PlacesInv, InPlace
  <2>2. CASE j # i
        BY <1>1, <1>4, <1>7, <2>2 DEF KeptInv, PlacesInv, InPlace
  <2>. QED
    BY <2>1, <2>2
<1>12. HoldInv'
  <2>. SUFFICES ASSUME NEW u \in Tracks, Undisturbed(u)', NEW j \in Instances(u)'
                PROVE  it'[j].at # "dead" /\ (Started(j)' => Holds(j)')
       BY DEF HoldInv
  <2>1. j \in Iters /\ it[j].track = u /\ it[j].at # "dead" /\ (Started(j) => Holds(j))
        BY <1>8 DEF KeptInv, HoldInv, Instances
  <2>2. CASE j # i
        BY <1>4, <1>7, <1>10, <2>1, <2>2 DEF Holds
  <2>3. CASE j = i
    <3>1. Holds(i)
          BY <1>5, <2>1, <2>3
    <3>2. Past(i)' \in Nat /\ Top(i)' <= Len(frames'[it'[i].track])
          BY <1>2, <1>3, <1>4, <1>6, <1>10, <3>1 DEF Holds
    <3>3. \A n \in 1 .. Len(it'[i].held) : it'[i].held[n] = Past(i)' + n
      <4>. SUFFICES ASSUME NEW n \in 1 .. Len(it'[i].held) PROVE it'[i].held[n] = Past(i)' + n
           OBVIOUS
      <4>1. it'[i].held = Tail(it[i].held)
            BY <1>3, <1>4
      <4>2. n \in 1 .. Len(it[i].held) - 1 /\ n + 1 \in 1 .. Len(it[i].held)
            BY <1>2, <4>1
      <4>3. it'[i].held[n] = it[i].held[n + 1] /\ it[i].held[n + 1] = Past(i) + (n + 1)
            BY <1>2, <3>1, <4>1, <4>2 DEF Holds
      <4>. QED
        BY <1>6, <4>2, <4>3
    <3>4. it'[i].at # "found"
          BY <1>1, <1>3, <1>4
    <3>. QED
      BY <1>1, <1>3, <1>4, <2>3, <3>2, <3>3, <3>4 DEF Holds
  <2>. QED
    BY <2>2, <2>3
<1>13. CASE ~Live
  <2>1. frames' = frames /\ ~Live'
        BY <1>1, <1>13 DEF releaseFrame, frameVars, Live
  <2>2. CountInv'
        BY <1>13, <2>1 DEF KeptInv, CountInv
  <2>. QED
    BY <1>1, <1>4, <1>11, <1>12, <2>2 DEF KeptInv
<1>14. CASE Live
  <2>. SUFFICES ASSUME NEW u \in Tracks, Undisturbed(u)', NEW q \in 1 .. Len(frames'[u])
                PROVE  Counted(u, q)'
    <3>1. Live' /\ ~copied'
          BY <1>1, <1>14 DEF Live
    <3>. QED
      BY <1>1, <1>4, <1>11, <1>12, <3>1 DEF KeptInv, CountInv
  <2>1. Undisturbed(u) /\ q \in 1 .. Len(frames[u]) /\ \A r \in 1 .. Len(frames[u]) : Counted(u, r)
        BY <1>1, <1>8, <1>10, <1>14 DEF KeptInv, CountInv
  <2>2. CASE u # t
    <3>1. frames'[u] = frames[u]
      <4>1. CASE frames[t][p].freed
            BY <1>1, <4>1 DEF releaseFrame, frameVars
      <4>2. CASE ~frames[t][p].freed
            BY <1>1, <1>14, <2>2, <4>2 DEF releaseFrame, StoreType
      <4>. QED
        BY <4>1, <4>2
    <3>2. i \notin Instances(u)
          BY <2>2 DEF Instances
    <3>3. \A r : Senders(u, r)' = Senders(u, r)
          BY <1>7, <1>8, <3>2 DEF Senders, Instances
    <3>4. \A r : Entry(u, r)' <=> Entry(u, r)
          BY <3>1 DEF Entry
    <3>5. \A j \in Instances(u)' : (Started(j)' <=> Started(j)) /\ Past(j)' = Past(j)
          BY <1>7, <1>8, <3>2 DEF Instances
    <3>. QED
      BY <1>8, <2>1, <3>1, <3>3, <3>4, <3>5 DEF Counted
  <2>3. CASE u = t
    <3>1. Holds(i)
          BY <1>5, <1>9, <2>1, <2>3 DEF KeptInv, HoldInv
    <3>2. p = Past(i) + 1 /\ p \in 1 .. Len(frames[t])
      <4>1. p = Past(i) + 1 /\ Past(i) \in Nat /\ Top(i) <= Len(frames[t])
            BY <1>1, <1>2, <3>1 DEF Holds
      <4>2. Past(i) = Top(i) - Len(it[i].held) /\ Len(frames[t]) \in Nat
            BY <1>2 DEF Past, StoreType
      <4>3. Len(it[i].held) \in Nat /\ Len(it[i].held) > 0
            BY <1>1, <1>2
      <4>. QED
        BY <1>6, <4>1, <4>2, <4>3
    <3>3. ~frames[t][p].freed
      <4>1. Counted(t, p)
            BY <2>1, <2>3, <3>2
      <4>. QED
        BY <1>5, <1>6, <1>9, <3>2, <4>1 DEF Counted
    <3> DEFINE n == frames[t][p].released + 1
    <3>4. /\ frames'[t] \in Seq(FrameType) /\ Len(frames'[t]) = Len(frames[t])
          /\ \A r \in 1 .. Len(frames[t]) : r # p => frames'[t][r] = frames[t][r]
          /\ frames'[t][p].released = n /\ frames'[t][p].freed = Enough(t, n)
          /\ frames'[t][p].key = frames[t][p].key
          BY <1>1, <1>2, <1>14, <3>2, <3>3, ReleaseFacts
    <3>5. \A r \in 1 .. Len(frames[t]) : r # p => Senders(t, r)' = Senders(t, r)
      <4>1. ASSUME NEW r \in 1 .. Len(frames[t]), r # p PROVE r <= Past(i)' <=> r <= Past(i)
            BY <1>6, <3>2, <4>1
      <4>. SUFFICES ASSUME NEW r \in 1 .. Len(frames[t]), r # p PROVE Senders(t, r)' = Senders(t, r)
           OBVIOUS
      <4>2. \A j \in Instances(t) : (Started(j)' <=> Started(j)) /\ (r <= Past(j)' <=> r <= Past(j))
            BY <1>5, <1>7, <4>1 DEF Instances
      <4>. QED
        BY <1>8, <4>2 DEF Senders
    <3>6. Senders(t, p)' = Senders(t, p) \cup {i} /\ i \notin Senders(t, p)
          BY <1>5, <1>6, <1>7, <1>8, <1>9, <3>2 DEF Senders, Instances
    <3>7. /\ Cardinality(Senders(t, p)') = Cardinality(Senders(t, p)) + 1
          /\ Cardinality(Senders(t, p)) \in Nat /\ IsFiniteSet(Senders(t, p)')
          /\ Cardinality(Senders(t, p)') \in Nat
      <4>1. IsFiniteSet(Senders(t, p)) /\ Cardinality(Senders(t, p)) \in Nat
            BY SendersFinite
      <4>2. /\ IsFiniteSet(Senders(t, p) \cup {i})
            /\ Cardinality(Senders(t, p) \cup {i}) = Cardinality(Senders(t, p)) + 1
            BY <3>6, <4>1, FS_AddElement
      <4>3. Cardinality(Senders(t, p)) + 1 \in Nat
            BY <4>1
      <4>. QED
        BY <3>6, <4>1, <4>2, <4>3, Zenon
    <3>8. Senders(t, p)' \subseteq Instances(t)
          BY <1>8 DEF Senders
    <3>9. n \in Nat /\ n <= Cardinality(Senders(t, p)') /\ frames[t][p].released \in Nat
      <4>1. frames[t][p] \in FrameType
            BY <1>2, <3>2 DEF StoreType
      <4>2. Counted(t, p)
            BY <2>1, <2>3, <3>2
      <4>3. frames[t][p].released \in Nat
            BY <4>1 DEF FrameType
      <4>4. frames[t][p].released <= Cardinality(Senders(t, p))
            BY <3>3, <4>2 DEF Counted
      <4>. QED
        BY <3>7, <4>3, <4>4
    <3>10. Enough(t, n) => Senders(t, p)' = Instances(t)
      <4>1. Cardinality(Senders(t, p)') <= Cardinality(Instances(t)) /\ Cardinality(Instances(t)) \in Nat
            BY <3>8, SendersFinite, FS_Subset
      <4>2. Enough(t, n) => Cardinality(Senders(t, p)') = Cardinality(Instances(t))
            BY <3>7, <3>9, <4>1 DEF Enough
      <4>. QED
        BY <3>8, <4>2, SendersFinite, FS_Subset
    <3>11. Enough(t, n) => \A j \in Instances(t)' : Started(j)' /\ p <= Past(j)'
           BY <1>8, <3>10 DEF Senders
    <3>12. Enough(t, n) => \A r \in 1 .. p - 1 : ~Entry(t, r)
      <4>. SUFFICES ASSUME Enough(t, n), NEW r \in 1 .. p - 1, Entry(t, r) PROVE FALSE
           OBVIOUS
      <4>1. r \in 1 .. Len(frames[t]) /\ r # p /\ Counted(t, r) /\ r <= p
            BY <2>1, <2>3, <3>2
      <4>2. Senders(t, r)' = Instances(t)'
        <5>1. \A j \in Instances(t)' : Started(j)' /\ Past(j)' \in Int
          <6>1. \A j \in Iters : Past(j)' \in Int
                BY <1>4 DEF Past, Top, IterType
          <6>. QED
            BY <3>11, <6>1 DEF Instances
        <5>2. \A j \in Instances(t)' : r <= Past(j)'
              BY <3>2, <3>11, <4>1, <5>1
        <5>. QED
          BY <5>1, <5>2 DEF Senders
      <4>3. Senders(t, r) = Instances(t)
            BY <1>8, <3>5, <4>1, <4>2
      <4>4. Cardinality(Instances(t)) \in Nat \ {0}
            BY <1>9, SendersFinite, FS_EmptySet
      <4>5. ~frames[t][r].freed /\ frames[t][r].released = Cardinality(Instances(t))
            BY <4>1, <4>3 DEF Counted, Entry
      <4>. QED
        BY <4>1, <4>4, <4>5 DEF Counted
    <3>. HIDE DEF n
    <3>13. \A r \in 1 .. Len(frames[t]) : Entry(t, r)' => Entry(t, r)
      <4>. SUFFICES ASSUME NEW r \in 1 .. Len(frames[t]) PROVE Entry(t, r)' => Entry(t, r)
           OBVIOUS
      <4>1. CASE r = p
            BY <3>3, <3>4, <4>1 DEF Entry
      <4>2. CASE r # p
            BY <3>4, <4>2 DEF Entry
      <4>. QED
        BY <4>1, <4>2
    <3>14. CASE q = p
      <4>1. Counted(t, p)
            BY <2>1, <2>3, <3>2
      <4>2. Entry(t, p)' => frames'[t][p].released = Cardinality(Senders(t, p)')
            BY <3>2, <3>4, <3>7, <3>13, <4>1 DEF Counted, n
      <4>3. ~Enough(t, n) => n < Cardinality(Instances(t)')
        <5>1. Cardinality(Instances(t)) \in Nat
              BY SendersFinite
        <5>. QED
          BY <1>8, <3>9, <5>1 DEF Enough
      <4>4. Enough(t, n) => \A r \in 1 .. p : ~Entry(t, r)'
        <5>1. Enough(t, n) => ~Entry(t, p)'
              BY <3>4 DEF Entry
        <5>2. \A r \in 1 .. p : r = p \/ r \in 1 .. p - 1
              BY <3>2
        <5>3. \A r \in 1 .. p : r \in 1 .. Len(frames[t])
              BY <3>2
        <5>. QED
          BY <3>12, <3>13, <5>1, <5>2, <5>3
      <4>. QED
        BY <2>3, <3>4, <3>9, <3>11, <3>14, <4>2, <4>3, <4>4 DEF Counted
    <3>15. CASE q # p
      <4>1. Counted(t, q) /\ frames'[t][q] = frames[t][q] /\ q \in 1 .. Len(frames[t])
            BY <2>1, <2>3, <3>4, <3>15
      <4>2. Senders(t, q)' = Senders(t, q)
            BY <3>5, <3>15, <4>1
      <4>3. \A j \in Instances(t)' : Started(j)' => Started(j) /\ (q <= Past(j) => q <= Past(j)')
            BY <1>5, <1>6, <1>7, <4>1 DEF Instances
      <4>4. \A r \in 1 .. q : r \in 1 .. Len(frames[t])
            BY <4>1
      <4>5. \A r \in 1 .. q : Entry(t, r)' => Entry(t, r)
            BY <3>13, <4>4
      <4>6. Entry(t, q)' => Entry(t, q)
            BY <3>13, <4>1
      <4>. QED
        BY <1>8, <2>3, <4>1, <4>2, <4>3, <4>5, <4>6 DEF Counted
    <3>. QED
      BY <3>14, <3>15
  <2>. QED
    BY <2>2, <2>3
<1>. QED
  BY <1>13, <1>14

(* If the medium of an iterator is undisturbed after it moves, it was.     *)
LEMMA UndisturbedBefore ==
  ASSUME KeptInv, NEW i \in Iters, NEW g \in IterType, it' = [it EXCEPT ![i] = g],
         g.seeks >= it[i].seeks, it[i].at # "left", g.track = it[i].track, Undisturbed(g.track)'
  PROVE  Undisturbed(g.track) /\ it[i].seeks \in {0, 1} /\ g.seeks \in {0, 1} /\ g.at # "left"
<1>1. it'[i] = g /\ (\A j \in Iters : j # i => it'[j] = it[j]) /\ it[i] \in IterType
      BY DEF KeptInv
<1>2. g.seeks <= 1 /\ g.at # "left"
      BY <1>1 DEF Undisturbed
<1>3. it[i].seeks \in {0, 1} /\ g.seeks \in {0, 1}
      BY <1>1, <1>2 DEF IterType
<1>. QED
  BY <1>1, <1>2, <1>3 DEF Undisturbed

(* Who plays holds what it should, and meets no frame that is freed after  *)
(* those it has sent.                                                      *)
LEMMA NoFreedAhead ==
  ASSUME KeptInv, NEW i \in Iters, Started(i), NEW t, t = it[i].track, Undisturbed(t)
  PROVE  /\ Holds(i)
         /\ \A p \in 1 .. Len(frames[t]) : frames[t][p].freed => p <= Past(i)
<1>1. i \in Instances(t) /\ t \in Tracks
      BY DEF KeptInv, IterType, Instances, Ended, Started
<1>2. Holds(i)
      BY <1>1 DEF KeptInv, HoldInv
<1>3. CASE ~Live \/ copied
  <2>1. \A p \in 1 .. Len(frames[t]) : ~frames[t][p].freed
        BY <1>1, <1>3 DEF KeptInv, CountInv
  <2>. QED
    BY <1>2, <2>1
<1>4. CASE Live /\ ~copied
  <2>1. \A p \in 1 .. Len(frames[t]) : Counted(t, p)
        BY <1>1, <1>4 DEF KeptInv, CountInv
  <2>. QED
    BY <1>1, <1>2, <2>1 DEF Counted
<1>. QED
  BY <1>3, <1>4

LEMMA NewKeeps ==
  ASSUME KeptInv, StoreType, NEW i \in Iters, newFrameIterator(i)
  PROVE  KeptInv'
<1>1. PICK t \in Tracks :
        it' = [it EXCEPT ![i].at = IF copied THEN "fetching" ELSE "ready", ![i].track = t]
      BY DeviceIsTrack DEF newFrameIterator
<1>g. PICK g : g = [it[i] EXCEPT !.at = IF copied THEN "fetching" ELSE "ready", !.track = t]
      OBVIOUS
<1>2. /\ it[i] \in IterType /\ it[i].at = "absent" /\ it[i].seeks = 0 /\ it[i].pos = 0
      /\ it[i].held = <<>>
      BY DEF KeptInv, PlacesInv, InPlace, newFrameIterator
<1>3. /\ g \in IterType /\ g.at = (IF copied THEN "fetching" ELSE "ready") /\ g.track = t
      /\ g.seeks = 0 /\ g.pos = 0 /\ g.held = <<>>
      BY <1>2, <1>g DEF IterType, Places
<1>4. it' = [it EXCEPT ![i] = g] /\ UNCHANGED <<frames, mode, copied>> /\ cur' \in Tracks
      BY <1>1, <1>g DEF newFrameIterator, frameVars, loaderVars, KeptInv
<1>5. it'[i] = g
      BY <1>4 DEF KeptInv
<1>6. ~Started(i) /\ (Started(i)' => copied)
      BY <1>2, <1>3, <1>5 DEF Started
<1>7. InPlace(i)'
      BY <1>3, <1>4, <1>5, <1>6 DEF InPlace
<1>8. Started(i)' => Past(i)' = 0 /\ Top(i)' = 0
      BY <1>3, <1>5, <1>6 DEF Past, Top
<1>9. Started(i)' => Holds(i)'
  <2>1. Len(frames[t]) \in Nat
        BY DEF StoreType
  <2>. QED
    BY <1>3, <1>4, <1>5, <1>6, <1>8, <2>1 DEF Holds
<1>10. Started(i)' => \A p \in 1 .. Len(frames[t]) : ~frames[t][p].freed /\ ~(p <= Past(i)')
       BY <1>6, <1>8 DEF KeptInv, CountInv
<1>11. g.seeks >= it[i].seeks
       BY <1>2, <1>3
<1>. QED
  BY <1>2, <1>3, <1>4, <1>6, <1>7, <1>9, <1>10, <1>11, MoveKeeps

(* A second seek disturbs the medium, and a first one is done from rest.   *)
LEMMA SeekKeeps ==
  ASSUME KeptInv, StoreType, NEW i \in Iters, seek(i)
  PROVE  KeptInv'
<1>1. PICK s, g :
        /\ s \in {0} \cup Times
        /\ it[i].seeks = 0 => s = 0
        /\ g = [it[i] EXCEPT !.at = "seeking", !.was = it[i].at, !.time = s, !.held = <<>>,
                             !.seeks = it[i].seeks + 1]
        /\ it' = [it EXCEPT ![i] = g]
      BY DEF seek
<1>2. /\ it[i] \in IterType /\ it[i].at \in {"ready", "fetching", "ended"} /\ ~copied
      /\ it[i].seeks \in Nat
      BY DEF KeptInv, seek, IterType
<1>3. /\ g \in IterType /\ g.at = "seeking" /\ g.track = it[i].track /\ g.was = it[i].at
      /\ g.time = s /\ g.held = <<>> /\ g.seeks = it[i].seeks + 1
  <2>1. it[i].held \in Seq(Nat) /\ <<>> \in Seq(Nat) /\ it[i].seeks + 1 \in Nat
        BY <1>2 DEF IterType
  <2>2. it[i].at \in Places /\ "seeking" \in Places
        BY <1>2 DEF Places
  <2>. QED
    BY <1>1, <1>2, <2>1, <2>2 DEF IterType
<1>4. it' = [it EXCEPT ![i] = g] /\ UNCHANGED <<frames, mode, copied>> /\ cur' \in Tracks
      BY <1>1 DEF seek, frameVars, loaderVars, KeptInv
<1>5. it'[i] = g
      BY <1>4 DEF KeptInv
<1>6. ~Started(i)' /\ (it[i].at # "ready" => Started(i))
      BY <1>2, <1>3, <1>5 DEF Started
<1>7. it[i].seeks = 0 => ~Started(i)
      BY <1>2 DEF KeptInv, PlacesInv, InPlace
<1>8. InPlace(i)'
  <2>1. g.seeks >= 1 /\ (g.seeks = 1 => it[i].seeks = 0)
        BY <1>2, <1>3
  <2>. QED
    BY <1>1, <1>2, <1>3, <1>5, <1>6, <1>7, <2>1 DEF InPlace
<1>9. g.seeks >= it[i].seeks
      BY <1>2, <1>3
<1>10. Undisturbed(g.track)' => ~Started(i)
  <2>. SUFFICES ASSUME Undisturbed(g.track)' PROVE ~Started(i)
       OBVIOUS
  <2>1. it[i].seeks \in {0, 1} /\ g.seeks \in {0, 1}
        BY <1>2, <1>3, <1>4, <1>9, UndisturbedBefore
  <2>2. it[i].seeks = 0
        BY <1>3, <2>1
  <2>. QED
    BY <1>7, <2>2
<1>. QED
  BY <1>2, <1>3, <1>4, <1>6, <1>8, <1>9, <1>10, MoveKeeps

(* The first position of a set of positions.                               *)
LEMMA FirstFacts ==
  ASSUME NEW S \in SUBSET Nat, S # {}
  PROVE  First(S) \in S /\ \A q \in S : First(S) <= q
<1>1. PICK p \in S : \A q \in S : ~(<<q, p>> \in OpToRel(<, Nat))
      BY NatLessThanWellFounded, WFMin, Zenon
<1>2. \A q \in S : ~(q < p)
      BY <1>1 DEF OpToRel
<1>3. \A q \in S : p <= q
      BY <1>2
<1>. QED
  BY <1>3 DEF First

(* Who begins does at the first frame it may begin with, which is after    *)
(* all that are freed.                                                     *)
LEMMA FoundKeeps ==
  ASSUME KeptInv, StoreType, NEW i \in Iters, getFramePos(i)
  PROVE  KeptInv'
<1>1. /\ it[i] \in IterType /\ it[i].at = "seeking" /\ it[i].was \in {"ready", "fetching", "ended"}
      /\ it[i].held = <<>> /\ it[i].seeks >= 1 /\ it[i].seeks \in Nat
      /\ it[i].seeks = 1 => it[i].time = 0 /\ it[i].was = "ready"
      /\ UNCHANGED <<frames, mode, copied>> /\ cur' \in Tracks
      BY DEF KeptInv, PlacesInv, InPlace, getFramePos, frameVars, loaderVars, IterType
<1>2. ~Started(i)
      BY <1>1 DEF Started
<1> DEFINE S == Found(it[i].track, it[i].time)
<1>3. CASE UNCHANGED it
      BY <1>1, <1>3, NothingMoves DEF KeptInv
<1>4. CASE it' = [it EXCEPT ![i].at = it[i].was]
  <2>g. PICK g : g = [it[i] EXCEPT !.at = it[i].was]
        OBVIOUS
  <2>1. /\ g \in IterType /\ g.at = it[i].was /\ g.track = it[i].track /\ g.held = <<>>
        /\ g.seeks = it[i].seeks
        BY <1>1, <2>g DEF IterType
  <2>2. it' = [it EXCEPT ![i] = g]
        BY <1>4, <2>g DEF KeptInv
  <2>3. it'[i] = g
        BY <2>2 DEF KeptInv
  <2>4. InPlace(i)'
        BY <1>1, <2>1, <2>3 DEF InPlace
  <2>5. g.seeks >= it[i].seeks
        BY <1>1, <2>1
  <2>6. Undisturbed(g.track)' => g.at = "ready"
    <3>1. Undisturbed(g.track)' => g.seeks \in {0, 1}
          BY <1>1, <2>1, <2>2, <2>5, UndisturbedBefore
    <3>. QED
      BY <1>1, <2>1, <3>1
  <2>7. Undisturbed(g.track)' => ~Started(i)'
        BY <2>3, <2>6 DEF Started
  <2>. QED
    BY <1>1, <1>2, <2>1, <2>2, <2>4, <2>5, <2>6, <2>7, MoveKeeps
<1>5. CASE S # {} /\ it' = [it EXCEPT ![i].at = "found", ![i].pos = First(S) - 1]
  <2>1. PICK t \in Tracks : t = it[i].track
        BY <1>1 DEF IterType
  <2>2. PICK m : m = First(S)
        OBVIOUS
  <2>3. Len(frames[t]) \in Nat /\ frames[t] \in Seq(FrameType)
        BY DEF StoreType
  <2>4. /\ m \in 1 .. Len(frames[t]) /\ Entry(t, m)
        /\ \A q \in S : m <= q
    <3>1. S \in SUBSET (1 .. Len(frames[t]))
          BY <2>1 DEF Found
    <3>2. S \in SUBSET Nat
          BY <2>3, <3>1
    <3>3. m \in S /\ \A q \in S : m <= q
      <4> HIDE DEF S
      <4>. QED
        BY <1>5, <2>2, <3>2, FirstFacts
    <3>. QED
      BY <2>1, <3>1, <3>3 DEF Found, Entry
  <2>g. PICK g : g = [it[i] EXCEPT !.at = "found", !.pos = m - 1]
        OBVIOUS
  <2>5. m - 1 \in Nat /\ m \in Nat
        BY <2>3, <2>4
  <2>6. /\ g \in IterType /\ g.at = "found" /\ g.track = t /\ g.held = <<>> /\ g.pos = m - 1
        /\ g.seeks = it[i].seeks
        BY <1>1, <2>1, <2>5, <2>g DEF IterType, Places
  <2>7. it' = [it EXCEPT ![i] = g]
        BY <1>5, <2>2, <2>g DEF KeptInv
  <2>8. it'[i] = g
        BY <2>7 DEF KeptInv
  <2>9. InPlace(i)'
        BY <1>1, <2>6, <2>8 DEF InPlace
  <2>10. g.seeks >= it[i].seeks
         BY <1>1, <2>6
  <2>11. Past(i)' = m - 1 /\ Top(i)' = m - 1
         BY <2>5, <2>6, <2>8 DEF Past, Top
  <2>12. Holds(i)'
    <3>1. m - 1 < Len(frames[t]) /\ m - 1 <= Len(frames[t])
          BY <2>3, <2>4
    <3>. QED
      BY <1>1, <2>5, <2>6, <2>8, <2>11, <3>1 DEF Holds
  <2>13. ASSUME Undisturbed(t)', NEW p \in 1 .. Len(frames[t])
         PROVE  (frames[t][p].freed => p <= m - 1) /\ (Entry(t, p) => ~(p <= m - 1))
    <3>1. Undisturbed(t) /\ g.seeks \in {0, 1}
          BY <1>1, <2>1, <2>6, <2>7, <2>10, <2>13, UndisturbedBefore
    <3>2. it[i].time = 0
          BY <1>1, <2>6, <3>1
    <3>3. Entry(t, p) => m <= p
      <4>1. frames[t][p].time >= 0
        <5>1. frames[t][p] \in FrameType
              BY <2>3
        <5>. QED
          BY <5>1 DEF FrameType
      <4>2. Entry(t, p) => p \in S
            BY <2>1, <3>2, <4>1 DEF Found, Entry
      <4>. QED
        BY <2>4, <4>2
    <3>4. frames[t][p].freed => ~(m <= p)
      <4>1. CASE ~Live \/ copied
            BY <4>1 DEF KeptInv, CountInv
      <4>2. CASE Live /\ ~copied
        <5>1. Counted(t, p)
              BY <3>1, <4>2 DEF KeptInv, CountInv
        <5>2. m <= p => m \in 1 .. p
              BY <2>4
        <5>. QED
          BY <2>4, <5>1, <5>2 DEF Counted
      <4>. QED
        BY <4>1, <4>2
    <3>. QED
      BY <2>5, <3>3, <3>4
  <2>. QED
    BY <1>1, <1>2, <2>1, <2>6, <2>7, <2>9, <2>10, <2>11, <2>12, <2>13, MoveKeeps
<1>. QED
  BY <1>3, <1>4, <1>5 DEF getFramePos, WaitOr, Goes

LEMMA SoughtKeeps ==
  ASSUME KeptInv, StoreType, NEW i \in Iters, sought(i)
  PROVE  KeptInv'
<1>1. /\ it[i] \in IterType /\ it[i].at = "found" /\ it[i].seeks \in Nat /\ InPlace(i) /\ Started(i)
      /\ UNCHANGED <<frames, mode, copied>> /\ cur' \in Tracks
      BY DEF KeptInv, PlacesInv, sought, frameVars, loaderVars, IterType, Started
<1>2. PICK t \in Tracks : t = it[i].track
      BY <1>1 DEF IterType
<1>3. PICK g : g = [it[i] EXCEPT !.at = Taken(i, it[i].pos + 1)]
      OBVIOUS
<1>4. /\ g \in IterType /\ g.at \in {"dead", "fetching"} /\ g.track = t /\ g.seeks = it[i].seeks
      /\ g.pos = it[i].pos /\ g.held = it[i].held
      BY <1>1, <1>2, <1>3 DEF IterType, Places, Taken
<1>5. it' = [it EXCEPT ![i] = g]
      BY <1>3 DEF sought, Goes, KeptInv
<1>6. it'[i] = g
      BY <1>5 DEF KeptInv
<1>7. InPlace(i)'
      BY <1>1, <1>4, <1>6 DEF InPlace
<1>8. g.seeks >= it[i].seeks
      BY <1>1, <1>4
<1>9. Past(i)' = Past(i) /\ Top(i)' = Top(i)
      BY <1>1, <1>4, <1>6 DEF Past, Top
<1>10. Undisturbed(t)' => g.at = "fetching" /\ Holds(i)'
  <2>. SUFFICES ASSUME Undisturbed(t)' PROVE g.at = "fetching" /\ Holds(i)'
       OBVIOUS
  <2>1. Undisturbed(t)
        BY <1>1, <1>2, <1>4, <1>5, <1>8, UndisturbedBefore
  <2>2. Holds(i) /\ \A p \in 1 .. Len(frames[t]) : frames[t][p].freed => p <= Past(i)
        BY <1>1, <1>2, <2>1, NoFreedAhead
  <2>3. it[i].pos + 1 \in 1 .. Len(frames[t]) /\ ~(it[i].pos + 1 <= Past(i))
    <3>1. it[i].pos \in Nat /\ Len(it[i].held) \in Nat /\ Len(frames[t]) \in Nat
          BY <1>1 DEF IterType, StoreType
    <3>2. it[i].pos < Len(frames[t]) /\ Past(i) = it[i].pos - Len(it[i].held)
          BY <1>1, <1>2, <2>2 DEF Holds, Past, Top
    <3>. QED
      BY <3>1, <3>2
  <2>4. g.at = "fetching"
        BY <1>1, <1>2, <1>3, <2>2, <2>3 DEF Taken, IterType
  <2>. QED
    BY <1>1, <1>2, <1>4, <1>6, <1>9, <2>2, <2>4 DEF Holds
<1>11. g.at = "fetching" => Started(i)'
       BY <1>6 DEF Started
<1>. QED
  BY <1>1, <1>2, <1>4, <1>5, <1>7, <1>8, <1>9, <1>10, <1>11, MoveKeeps

LEMMA NextFrameKeeps ==
  ASSUME KeptInv, StoreType, NEW i \in Iters, next(i)
  PROVE  KeptInv'
<1>1. /\ it[i] \in IterType /\ it[i].at = "fetching" /\ it[i].seeks \in Nat /\ InPlace(i) /\ Started(i)
      /\ it[i].pos \in Nat /\ UNCHANGED <<frames, mode, copied>> /\ cur' \in Tracks
      BY DEF KeptInv, PlacesInv, next, frameVars, loaderVars, IterType, Started
<1>2. PICK t \in Tracks : t = it[i].track
      BY <1>1 DEF IterType
<1>3. PICK g : g = [it[i] EXCEPT !.at = "getting", !.pos = it[i].pos + 1]
      OBVIOUS
<1>4. /\ g \in IterType /\ g.at = "getting" /\ g.track = t /\ g.seeks = it[i].seeks
      /\ g.pos = it[i].pos + 1 /\ g.held = it[i].held
  <2>1. it[i].pos + 1 \in Nat /\ "getting" \in Places
        BY <1>1 DEF Places
  <2>. QED
    BY <1>1, <1>2, <1>3, <2>1 DEF IterType
<1>5. it' = [it EXCEPT ![i] = g]
      BY <1>3 DEF next, KeptInv
<1>6. it'[i] = g
      BY <1>5 DEF KeptInv
<1>7. Started(i)' /\ InPlace(i)'
      BY <1>1, <1>4, <1>6 DEF InPlace, Started
<1>8. g.seeks >= it[i].seeks
      BY <1>1, <1>4
<1>9. Past(i)' = Past(i) /\ Top(i)' = Top(i)
  <2>1. Top(i)' = it[i].pos + 1 - 1 /\ Top(i) = it[i].pos
        BY <1>1, <1>4, <1>6 DEF Top
  <2>2. Top(i)' = Top(i)
        BY <1>1, <2>1
  <2>. QED
    BY <1>4, <1>6, <2>2 DEF Past
<1>10. Undisturbed(t)' => Holds(i)'
  <2>. SUFFICES ASSUME Undisturbed(t)' PROVE Holds(i)'
       OBVIOUS
  <2>1. Undisturbed(t)
        BY <1>1, <1>2, <1>4, <1>5, <1>8, UndisturbedBefore
  <2>2. Holds(i)
        BY <1>1, <1>2, <2>1, NoFreedAhead
  <2>. QED
    BY <1>1, <1>2, <1>4, <1>6, <1>9, <2>2 DEF Holds
<1>. QED
  BY <1>1, <1>2, <1>4, <1>5, <1>7, <1>8, <1>9, <1>10, MoveKeeps

(* The frame that is taken is one after those that are held.               *)
LEMMA GetKeeps ==
  ASSUME KeptInv, StoreType, NEW i \in Iters, getFrame(i)
  PROVE  KeptInv'
<1>1. /\ it[i] \in IterType /\ it[i].at = "getting" /\ it[i].seeks \in Nat /\ InPlace(i) /\ Started(i)
      /\ it[i].pos \in Nat /\ it[i].held \in Seq(Nat) /\ Len(it[i].held) \in Nat
      /\ UNCHANGED <<frames, mode, copied>> /\ cur' \in Tracks
      BY DEF KeptInv, PlacesInv, getFrame, frameVars, loaderVars, IterType, Started
<1>2. PICK t \in Tracks : t = it[i].track
      BY <1>1 DEF IterType
<1>3. Len(frames[t]) \in Nat /\ Top(i) = it[i].pos - 1 /\ Past(i) = it[i].pos - 1 - Len(it[i].held)
      BY <1>1 DEF StoreType, Top, Past
<1>4. CASE UNCHANGED it
      BY <1>1, <1>4, NothingMoves
<1>5. CASE it' = [it EXCEPT ![i].at = "ended"]
  <2>1. PICK g : g = [it[i] EXCEPT !.at = "ended"]
        OBVIOUS
  <2>2. /\ g \in IterType /\ g.at = "ended" /\ g.track = t /\ g.seeks = it[i].seeks
        /\ g.pos = it[i].pos /\ g.held = it[i].held
        BY <1>1, <1>2, <2>1 DEF IterType, Places
  <2>3. it' = [it EXCEPT ![i] = g]
        BY <1>5, <2>1 DEF KeptInv
  <2>4. it'[i] = g
        BY <2>3 DEF KeptInv
  <2>5. Started(i)' /\ InPlace(i)'
        BY <1>1, <2>2, <2>4 DEF InPlace, Started
  <2>6. g.seeks >= it[i].seeks
        BY <1>1, <2>2
  <2>7. Past(i)' = Past(i) /\ Top(i)' = Top(i)
        BY <1>1, <2>2, <2>4 DEF Past, Top
  <2>8. Undisturbed(t)' => Holds(i)'
    <3>. SUFFICES ASSUME Undisturbed(t)' PROVE Holds(i)'
         OBVIOUS
    <3>1. Undisturbed(t)
          BY <1>1, <1>2, <2>2, <2>3, <2>6, UndisturbedBefore
    <3>2. Holds(i)
          BY <1>1, <1>2, <3>1, NoFreedAhead
    <3>. QED
      BY <1>1, <1>2, <2>2, <2>4, <2>7, <3>2 DEF Holds
  <2>. QED
    BY <1>1, <1>2, <2>2, <2>3, <2>5, <2>6, <2>7, <2>8, MoveKeeps
<1>6. CASE /\ ~(it[i].pos > Len(frames[t]))
           /\ it' = [it EXCEPT ![i].at = Taken(i, it[i].pos), ![i].held = Append(@, it[i].pos)]
  <2>1. PICK g : g = [it[i] EXCEPT !.at = Taken(i, it[i].pos), !.held = Append(it[i].held, it[i].pos)]
        OBVIOUS
  <2>2. /\ Append(it[i].held, it[i].pos) \in Seq(Nat)
        /\ Len(Append(it[i].held, it[i].pos)) = Len(it[i].held) + 1
        /\ Append(it[i].held, it[i].pos)[Len(it[i].held) + 1] = it[i].pos
        /\ \A n \in 1 .. Len(it[i].held) : Append(it[i].held, it[i].pos)[n] = it[i].held[n]
        BY <1>1
  <2>3. Taken(i, it[i].pos) \in {"dead", "fetching"}
        BY DEF Taken
  <2>4. /\ g \in IterType /\ g.at = Taken(i, it[i].pos) /\ g.track = t /\ g.seeks = it[i].seeks
        /\ g.pos = it[i].pos /\ g.held = Append(it[i].held, it[i].pos)
        BY <1>1, <1>2, <2>1, <2>2, <2>3 DEF IterType, Places
  <2>5. it' = [it EXCEPT ![i] = g]
        BY <1>6, <2>1 DEF KeptInv
  <2>6. it'[i] = g
        BY <2>5 DEF KeptInv
  <2>7. InPlace(i)'
        BY <1>1, <2>3, <2>4, <2>6 DEF InPlace
  <2>8. g.seeks >= it[i].seeks
        BY <1>1, <2>4
  <2>9. Undisturbed(t)' => g.at = "fetching" /\ Started(i)' /\ Holds(i)' /\ Past(i)' = Past(i)
    <3>. SUFFICES ASSUME Undisturbed(t)'
                  PROVE  g.at = "fetching" /\ Started(i)' /\ Holds(i)' /\ Past(i)' = Past(i)
         OBVIOUS
    <3>1. Undisturbed(t)
          BY <1>1, <1>2, <2>4, <2>5, <2>8, UndisturbedBefore
    <3>2. Holds(i) /\ \A p \in 1 .. Len(frames[t]) : frames[t][p].freed => p <= Past(i)
          BY <1>1, <1>2, <3>1, NoFreedAhead
    <3>3. it[i].pos \in 1 .. Len(frames[t]) /\ ~(it[i].pos <= Past(i)) /\ Past(i) \in Nat
      <4>1. Past(i) \in Nat
            BY <3>2 DEF Holds
      <4>2. it[i].pos >= 1
            BY <1>1, <1>3, <4>1
      <4>. QED
        BY <1>1, <1>3, <1>6, <4>1, <4>2
    <3>4. g.at = "fetching"
          BY <1>2, <2>4, <3>2, <3>3 DEF Taken
    <3>5. Top(i)' = it[i].pos /\ Past(i)' = it[i].pos - (Len(it[i].held) + 1)
          BY <2>2, <2>4, <2>6, <3>4 DEF Top, Past
    <3>6. Past(i)' = Past(i) /\ it[i].pos = Past(i) + (Len(it[i].held) + 1)
      <4>1. it[i].pos \in Nat /\ Len(it[i].held) \in Nat
            BY <1>1
      <4>2. /\ it[i].pos - (Len(it[i].held) + 1) = it[i].pos - 1 - Len(it[i].held)
            /\ it[i].pos = it[i].pos - 1 - Len(it[i].held) + (Len(it[i].held) + 1)
            BY <4>1, OneMore, Zenon
      <4>3. Past(i) = it[i].pos - 1 - Len(it[i].held)
            BY <1>3
      <4>4. Past(i)' = Past(i)
            BY <3>5, <4>2, <4>3, Zenon
      <4>. QED
        BY <4>2, <4>3, <4>4, Zenon
    <3>7. \A n \in 1 .. Len(g.held) : g.held[n] = Past(i) + n
      <4>. SUFFICES ASSUME NEW n \in 1 .. Len(it[i].held) + 1
                    PROVE  Append(it[i].held, it[i].pos)[n] = Past(i) + n
           BY <2>2, <2>4
      <4>1. CASE n = Len(it[i].held) + 1
            BY <2>2, <3>6, <4>1
      <4>2. CASE n \in 1 .. Len(it[i].held)
            BY <2>2, <3>2, <4>2 DEF Holds
      <4>. QED
        BY <1>1, <4>1, <4>2
    <3>8. it[i].pos <= Len(frames[t])
          BY <3>3, <1>3
    <3>. QED
      BY <1>1, <2>4, <2>6, <3>3, <3>4, <3>5, <3>6, <3>7, <3>8 DEF Holds, Started
  <2>. QED
    BY <1>1, <1>2, <2>3, <2>4, <2>5, <2>7, <2>8, <2>9, MoveKeeps
<1>. QED
  BY <1>2, <1>4, <1>5, <1>6 DEF getFrame, WaitOr, Goes

(* Who leaves disturbs the medium.                                         *)
LEMMA LeaveKeeps ==
  ASSUME KeptInv, StoreType, NEW i \in Iters, releaseIterator(i)
  PROVE  KeptInv'
<1>1. /\ it[i] \in IterType /\ it[i].at # "left" /\ it[i].seeks \in Nat
      /\ UNCHANGED <<frames, mode, copied>> /\ cur' \in Tracks
      BY DEF KeptInv, releaseIterator, frameVars, loaderVars, IterType
<1>2. PICK g : g = [it[i] EXCEPT !.at = "left", !.held = <<>>]
      OBVIOUS
<1>3. g \in IterType /\ g.at = "left" /\ g.track = it[i].track /\ g.seeks = it[i].seeks
  <2>1. <<>> \in Seq(Nat) /\ "left" \in Places
        BY DEF Places
  <2>. QED
    BY <1>1, <1>2, <2>1 DEF IterType
<1>4. it' = [it EXCEPT ![i] = g]
      BY <1>2 DEF releaseIterator, KeptInv
<1>5. it'[i] = g
      BY <1>4 DEF KeptInv
<1>6. InPlace(i)' /\ g.seeks >= it[i].seeks
      BY <1>1, <1>3, <1>5 DEF InPlace, Started
<1>7. ~Undisturbed(g.track)'
      BY <1>3, <1>5 DEF Undisturbed
<1>. QED
  BY <1>1, <1>3, <1>4, <1>6, <1>7, MoveKeeps

LEMMA LoadKeeps ==
  ASSUME KeptInv, OrderInv, Loader
  PROVE  KeptInv'
<1>. USE DEF frameVars, iterVars
<1>0. StoreType
      BY DEF OrderInv
<1>1. CASE readFrame
  <2> DEFINE f == File[read + 1]
  <2>1. UNCHANGED <<it, mode, copied>>
        BY <1>1 DEF readFrame
  <2>2. CASE f.track \in Tracks
    <3>1. addFrame(f.track, f) /\ cur' = f.track
          BY <1>1, <2>2 DEF readFrame
    <3>2. read + 1 \in 1 .. Len(File)
          BY <1>0, <1>1, FileAssumption DEF readFrame, StoreType
    <3>3. f.time \in Nat /\ f.key \in BOOLEAN
          BY <3>2, FileAssumption
    <3> HIDE DEF f
    <3>. QED
      BY <1>0, <2>1, <2>2, <3>1, <3>3, AddKeeps
  <2>3. CASE f.track \notin Tracks
        BY <1>1, <2>1, <2>3, NothingMoves DEF readFrame, KeptInv
  <2>. QED
    BY <2>2, <2>3
<1>2. CASE pushFrames
  <2>1. UNCHANGED <<it, mode, copied, cur>>
        BY <1>2 DEF pushFrames
  <2>2. CASE Ready # {}
    <3> DEFINE f == [time |-> First(Ready), key |-> First(Ready) = 0]
    <3>1. addFrame(Device, f)
          BY <1>2, <2>2 DEF pushFrames
    <3>2. First(Ready) \in Nat
      <4>1. Len(frames[Device]) \in Nat
            BY <1>0, DeviceIsTrack DEF StoreType
      <4>2. Ready = {Len(frames[Device])}
            BY <2>2, <4>1 DEF Ready, prevPts
      <4>. QED
        BY <4>1, <4>2 DEF First
    <3>3. f.time \in Nat /\ f.key \in BOOLEAN
          BY <3>2
    <3> HIDE DEF f
    <3>. QED
      BY <1>0, <2>1, <3>1, <3>3, DeviceIsTrack, AddKeeps DEF KeptInv
  <2>3. CASE Ready = {}
        BY <1>2, <2>1, <2>3, NothingMoves DEF pushFrames, KeptInv
  <2>. QED
    BY <2>2, <2>3
<1>3. CASE readEof \/ readError \/ captureNothing \/ measure \/ suspend \/ resume \/ captureFrame
      BY <1>3, NothingMoves DEF readEof, readError, captureNothing, measure, suspend, resume,
                                captureFrame, KeptInv
<1>4. CASE finalize
      BY <1>4, NothingMoves DEF finalize, finalizeFrameCount, KeptInv
<1>. QED
  BY <1>1, <1>2, <1>3, <1>4 DEF Loader

LEMMA NextKept == OrderInv /\ KeptInv /\ [Next]_vars => KeptInv'
<1> SUFFICES ASSUME OrderInv, KeptInv, [Next]_vars PROVE KeptInv'
    OBVIOUS
<1> USE DEF loaderVars, iterVars, frameVars
<1>0. StoreType
      BY DEF OrderInv
<1>1. CASE close \/ Closer
      BY <1>1, NothingMoves DEF close, Closer, notifyLoader, joined, KeptInv
<1>2. ASSUME NEW i \in Iters, stop(i) PROVE KeptInv'
      BY <1>2, NothingMoves DEF stop, KeptInv
<1>3. ASSUME NEW i \in Iters, Reader(i) PROVE KeptInv'
      BY <1>0, <1>3, FoundKeeps, SoughtKeeps, NextFrameKeeps, GetKeeps DEF Reader
<1>4. ASSUME NEW i \in Iters, newFrameIterator(i) \/ seek(i) \/ releaseIterator(i) PROVE KeptInv'
      BY <1>0, <1>4, NewKeeps, SeekKeeps, LeaveKeeps
<1>5. ASSUME NEW i \in Iters, sendFrame(i) PROVE KeptInv'
      BY <1>0, <1>5, SendKeeps
<1>6. CASE UNCHANGED vars
      BY <1>6, NothingMoves DEF vars, KeptInv
<1>. QED
  BY <1>1, <1>2, <1>3, <1>4, <1>5, <1>6, LoadKeeps DEF Next

(* A live frame is freed only when every iterator that plays its medium    *)
(* has sent it, and no iterator meets a frame that is not there, however   *)
(* many there are and whenever each of them comes, as long as none leaves  *)
(* or seeks again (Medium::Base::releaseFrame, getFramePos, getFrame).     *)
THEOREM FreedWhenSentByAll == Spec => []KeptForAll
<1>1. OrderInv /\ KeptInv => KeptForAll
      BY KeptMeansKeptForAll DEF OrderInv
<1>2. Init => OrderInv /\ KeptInv
      BY InitOrder, InitKept
<1>3. OrderInv /\ KeptInv /\ [Next]_vars => (OrderInv /\ KeptInv)'
      BY NextKeepsOrder, NextKept
<1>. QED
  BY <1>1, <1>2, <1>3, PTL DEF Spec

=============================================================================
