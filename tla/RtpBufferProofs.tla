--------------------------- MODULE RtpBufferProofs ---------------------------
(***************************************************************************)
(* Theorems about RtpBuffer, for media of any length, looping or not, any  *)
(* water marks and any number of seeks, granted and refused: the buffer is *)
(* bounded, it implements FrameStream, and its two threads do not both     *)
(* sleep but in the two cases the code leaves open.                        *)
(***************************************************************************)
EXTENDS RtpBuffer, SequenceTheorems, TLAPS

(* The frames fetched ahead are successive, and the iterator is next to    *)
(* the last of them.                                                       *)
InOrder ==
  /\ \A i \in 1 .. Len(data) - 1 : data[i + 1] = Advance(data[i])
  /\ data # <<>> => Capped(pos) = Advance(data[Len(data)])

(* Frames are held only forward, and only backwards does the iterator      *)
(* leave the medium at its beginning.                                      *)
Ends == (data # <<>> => scale = 1) /\ (pos = -1 => scale = -1)

(* Room for one frame from the test for "full" to the end of the fetch.    *)
Room == fetch = "yield" => Len(data) <= Full

IInv == TypeOK /\ InOrder /\ Ends /\ Room /\ Bounded

(* The next position is in the medium or just behind it.                   *)
LEMMA AdvanceType ==
  ASSUME NEW p \in Frame PROVE Advance(p) \in 0 .. Length
<1>1. CASE Endless
  <2>1. (p + 1) % Length \in 0 .. Length - 1
    BY LengthAssumption DEF Frame
  <2> QED BY <1>1, <2>1, LengthAssumption DEF Advance
<1>2. CASE ~Endless
  BY <1>2, LengthAssumption DEF Advance, Frame
<1> QED BY <1>1, <1>2

(* Facts on the sequence of frames: appending and taking.                  *)
LEMMA AppendFacts ==
  ASSUME NEW d \in Seq(Frame), NEW p \in Frame, NEW e, e = Append(d, p)
  PROVE  /\ e \in Seq(Frame) /\ e # <<>> /\ Len(e) = Len(d) + 1
         /\ e[Len(e)] = p
         /\ \A i \in 1 .. Len(d) : e[i] = d[i]
OBVIOUS

LEMMA TailFacts ==
  ASSUME NEW d \in Seq(Frame), d # <<>>
  PROVE  /\ Tail(d) \in Seq(Frame) /\ Len(Tail(d)) = Len(d) - 1 /\ Len(d) > 0
         /\ Head(d) = d[1] /\ Head(d) \in Frame
         /\ \A i \in 1 .. Len(d) - 1 : Tail(d)[i] = d[i + 1]
OBVIOUS

LEMMA EmptyFacts ==
  /\ <<>> \in Seq(Frame) /\ Len(<<>>) = 0
  /\ \A d \in Seq(Frame) : Len(d) \in Nat /\ (Len(d) = 0 <=> d = <<>>)
OBVIOUS

(* The invariant holds at the start.                                       *)
LEMMA InitInv == Init => IInv
<1> SUFFICES ASSUME Init PROVE IInv OBVIOUS
<1>1. data = <<>> /\ Len(data) = 0 /\ data \in Seq(Frame)
  BY EmptyFacts DEF Init
<1>2. TypeOK
  <2>1. pos \in -1 .. Length + 1 /\ seeks \in 0 .. MaxSeeks
    BY LengthAssumption, SeeksAssumption DEF Init
  <2>2. woken \in [empty : BOOLEAN, full : BOOLEAN]
    BY DEF Init
  <2>3. out \in [kind : {"none", "frame", "eof"}, last : Frame \cup {-1}]
    BY DEF Init
  <2>4. fetch \in FetchPcs /\ consumer \in ConsumerPcs /\ control \in ControlPcs
    BY DEF Init, FetchPcs, ConsumerPcs, ControlPcs
  <2> QED BY <1>1, <2>1, <2>2, <2>3, <2>4 DEF Init, TypeOK
<1>3. InOrder /\ Ends /\ Room /\ Bounded
  BY <1>1, MarksAssumption DEF Init, InOrder, Ends, Room, Bounded
<1> QED BY <1>2, <1>3 DEF IInv

(* A step that leaves the frames and the iterator alone.                   *)
LEMMA QuietInv ==
  ASSUME IInv, TypeOK', UNCHANGED <<data, pos, scale>>, fetch' = "yield" => Len(data) <= Full
  PROVE  IInv'
<1>1. InOrder'
  BY DEF IInv, InOrder, Advance, Capped
<1> QED BY <1>1 DEF IInv, Ends, Room, Bounded

(* A step that empties the buffer.                                         *)
LEMMA ClearInv ==
  ASSUME IInv, TypeOK', data' = <<>>, pos' = -1 => scale' = -1
  PROVE  IInv'
<1>1. Len(data') = 0 BY EmptyFacts
<1>2. InOrder'
  BY <1>1 DEF InOrder
<1> QED BY <1>1, <1>2, MarksAssumption DEF IInv, Ends, Room, Bounded

(* Every step keeps the invariant: one step of the proof for each action.  *)
LEMMA NextInv == IInv /\ [Next]_vars => IInv'
<1> SUFFICES ASSUME IInv, [Next]_vars PROVE IInv' OBVIOUS
<1> USE DEF IInv
<1>t. TypeOK BY DEF IInv
<1>1. CASE FetchTest
  <2>1. TypeOK' BY <1>1, <1>t DEF FetchTest, FetchAt, TypeOK, FetchPcs
  <2>2. fetch' = "yield" => Len(data) <= Full
    BY <1>1, <1>t, EmptyFacts, MarksAssumption DEF FetchTest, FetchAt, IsFull, TimeSize, TypeOK
  <2> QED BY <1>1, <2>1, <2>2, QuietInv DEF FetchTest
<1>2. CASE FetchWoken
  <2>1. TypeOK' BY <1>2, <1>t DEF FetchWoken, FetchAt, TypeOK, FetchPcs
  <2> QED BY <1>2, <2>1, QuietInv DEF FetchWoken, FetchAt
<1>3. CASE FetchFrame
  <2>1. data' \in Seq(Frame) /\ data' # <<>> /\ Len(data') = Len(data) + 1
        /\ data'[Len(data')] = pos /\ \A i \in 1 .. Len(data) : data'[i] = data[i]
    BY <1>3, <1>t, AppendFacts DEF FetchFrame, TypeOK
  <2>2. pos \in Frame /\ pos' = Advance(pos) /\ scale' = scale /\ Len(data) \in Nat
    BY <1>3, <1>t, EmptyFacts DEF FetchFrame, TypeOK
  <2>3. pos' \in 0 .. Length /\ scale' = 1
    BY <1>3, <2>2, <1>t, AdvanceType DEF FetchFrame, TypeOK
  <2>4. TypeOK'
    BY <1>3, <1>t, <2>1, <2>3, LengthAssumption DEF FetchFrame, FetchAt, TypeOK, FetchPcs
  <2>5. InOrder'
    <3>1. \A p : Advance(p)' = Advance(p) BY <2>2 DEF Advance
    <3>2. Capped(pos)' = pos' BY <2>3, LengthAssumption DEF Capped
    <3>3. Capped(pos) = pos BY <2>2, LengthAssumption DEF Capped, Frame
    <3>4. ASSUME NEW i \in 1 .. Len(data') - 1 PROVE data'[i + 1] = Advance(data'[i])
      <4>1. CASE i = Len(data)
        <5>1. data # <<>> /\ Len(data) >= 1 BY <4>1, <3>4, <2>1, <2>2, EmptyFacts, <1>t DEF TypeOK
        <5>2. pos = Advance(data[Len(data)]) BY <5>1, <3>3 DEF InOrder
        <5> QED BY <4>1, <5>1, <5>2, <2>1, <2>2
      <4>2. CASE i # Len(data)
        <5>1. i \in 1 .. Len(data) - 1 BY <4>2, <3>4, <2>1, <2>2
        <5>2. data'[i] = data[i] /\ data'[i + 1] = data[i + 1] BY <5>1, <2>1, <2>2
        <5>3. data[i + 1] = Advance(data[i]) BY <5>1 DEF InOrder
        <5> QED BY <5>2, <5>3
      <4> QED BY <4>1, <4>2
    <3> QED BY <3>1, <3>2, <3>4, <2>1, <2>2 DEF InOrder
  <2>6. Len(data) <= Full BY <1>3 DEF FetchFrame, FetchAt, Room
  <2>7. fetch' # "yield" BY <1>3 DEF FetchFrame, FetchAt
  <2> QED BY <2>1, <2>2, <2>3, <2>4, <2>5, <2>6, <2>7, MarksAssumption DEF Ends, Room, Bounded
<1>4. CASE FetchNothing
  <2>1. TypeOK' BY <1>4, <1>t DEF FetchNothing, FetchAt, TypeOK, FetchPcs
  <2> QED BY <1>4, <2>1, QuietInv DEF FetchNothing, FetchAt
<1>5. CASE FetchSignal
  <2>1. TypeOK' BY <1>5, <1>t DEF FetchSignal, FetchAt, NotifyFull, TypeOK, FetchPcs
  <2> QED BY <1>5, <2>1, QuietInv DEF FetchSignal, FetchAt
<1>6. CASE FetchOutOfBounds
  <2>1. TypeOK'
    BY <1>6, <1>t, LengthAssumption DEF FetchOutOfBounds, FetchAt, TypeOK, FetchPcs
  <2>2. Capped(pos)' = Capped(pos) /\ (pos' = -1 => scale' = -1)
    BY <1>6, <1>t, LengthAssumption DEF FetchOutOfBounds, TypeOK, Frame, Capped, Ends
  <2>3. InOrder'
    BY <1>6, <2>2 DEF FetchOutOfBounds, InOrder, Advance
  <2> QED BY <1>6, <2>1, <2>2, <2>3 DEF FetchOutOfBounds, FetchAt, Ends, Room, Bounded
<1>21. CASE PassAllBy
  <2>1. data = <<>> /\ scale = -1 /\ UNCHANGED <<data, scale>> /\ pos' = -1
    BY <1>21, <1>t DEF PassAllBy, TypeOK, Ends
  <2>2. TypeOK'
    BY <1>21, <1>t, LengthAssumption DEF PassAllBy, FetchAt, TypeOK, FetchPcs
  <2> QED BY <2>1, <2>2, ClearInv
<1>22. CASE Spin
  <2>1. TypeOK' BY <1>22, <1>t DEF Spin, FetchAt, TypeOK, FetchPcs
  <2> QED BY <1>22, <2>1, QuietInv DEF Spin, FetchAt
<1>7. CASE FetchEnds
  <2>1. TypeOK' BY <1>7, <1>t DEF FetchEnds, FetchAt, TypeOK, FetchPcs
  <2> QED BY <1>7, <2>1, QuietInv DEF FetchEnds, FetchAt
<1>8. CASE FetchSaysSo
  <2>1. TypeOK' BY <1>8, <1>t DEF FetchSaysSo, FetchAt, NotifyFull, TypeOK, FetchPcs
  <2> QED BY <1>8, <2>1, QuietInv DEF FetchSaysSo, FetchAt
<1>9. CASE Call
  <2>1. TypeOK' BY <1>9, <1>t DEF Call, ConsumerAt, TypeOK, ConsumerPcs
  <2> QED BY <1>9, <2>1, QuietInv DEF Call, Room
<1>10. CASE TestLow \/ WaitFull \/ ConsumerWoken
  <2>1. TypeOK'
    BY <1>10, <1>t DEF TestLow, WaitFull, ConsumerWoken, ConsumerAt, TypeOK, ConsumerPcs
  <2> QED BY <1>10, <2>1, QuietInv DEF TestLow, WaitFull, ConsumerWoken, Room
<1>11. CASE TakeFrame
  <2> DEFINE d == Tail(data)
  <2>1. data \in Seq(Frame) /\ data # <<>> /\ data' = d
    BY <1>11, <1>t DEF TakeFrame, TypeOK
  <2>2. /\ d \in Seq(Frame) /\ Len(d) = Len(data) - 1 /\ Len(data) > 0
        /\ Head(data) \in Frame
        /\ \A i \in 1 .. Len(data) - 1 : d[i] = data[i + 1]
    BY <2>1, TailFacts
  <2>3. Len(data) \in Nat /\ (Len(d) = 0 <=> d = <<>>)
    BY <2>1, <2>2, EmptyFacts
  <2>4. TypeOK'
    BY <1>11, <1>t, <2>1, <2>2 DEF TakeFrame, ConsumerAt, TypeOK, ConsumerPcs
  <2>5. pos' = pos /\ scale' = scale /\ fetch' = fetch
    BY <1>11 DEF TakeFrame
  <2> HIDE DEF d
  <2>6. InOrder'
    <3>1. \A p : Advance(p)' = Advance(p) BY <2>5 DEF Advance
    <3>2. ASSUME NEW i \in 1 .. Len(d) - 1 PROVE d[i + 1] = Advance(d[i])
      <4>1. d[i] = data[i + 1] /\ d[i + 1] = data[i + 2] /\ i + 1 \in 1 .. Len(data) - 1
        BY <3>2, <2>2, <2>3
      <4> QED BY <4>1 DEF InOrder
    <3>3. d # <<>> => d[Len(d)] = data[Len(data)]
      BY <2>2, <2>3
    <3> QED BY <3>1, <3>2, <3>3, <2>1, <2>5 DEF InOrder, Capped
  <2> QED BY <2>1, <2>2, <2>3, <2>4, <2>5, <2>6, MarksAssumption DEF Ends, Room, Bounded
<1>12. CASE TakeEof
  <2>1. TypeOK' BY <1>12, <1>t DEF TakeEof, ConsumerAt, TypeOK, ConsumerPcs
  <2> QED BY <1>12, <2>1, QuietInv DEF TakeEof, Room
<1>13. CASE ConsumerSignal
  <2>1. TypeOK' BY <1>13, <1>t DEF ConsumerSignal, ConsumerAt, NotifyEmpty, TypeOK, ConsumerPcs
  <2> QED BY <1>13, <2>1, QuietInv DEF ConsumerSignal, Room
<1>14. CASE Seek
  <2>1. TypeOK'
    BY <1>14, <1>t, EmptyFacts, LengthAssumption, SeeksAssumption DEF Seek, ControlAt, TypeOK, ControlPcs, Frame
  <2> QED BY <1>14, <2>1, ClearInv, LengthAssumption DEF Seek, Frame
<1>15. CASE SeekFails
  <2>1. TypeOK'
    BY <1>15, <1>t, EmptyFacts, SeeksAssumption DEF SeekFails, TypeOK
  <2> QED BY <1>15, <2>1, ClearInv DEF SeekFails, Ends
<1>16. CASE DrySeek
  <2>1. TypeOK' BY <1>16, <1>t DEF DrySeek, TypeOK
  <2> QED BY <1>16, <2>1, QuietInv DEF DrySeek, Room
<1>17. CASE StartThread
  <2>1. TypeOK'
    BY <1>17, <1>t DEF StartThread, ControlAt, TypeOK, FetchPcs, ConsumerPcs, ControlPcs
  <2> QED BY <1>17, <2>1, QuietInv DEF StartThread
<1>18. CASE StartAgain \/ StartNotify \/ Stop \/ StopNotify
  <2>1. TypeOK'
    <3>1. CASE StartAgain BY <3>1, <1>t DEF StartAgain, ControlAt, TypeOK, ControlPcs
    <3>2. CASE StartNotify BY <3>2, <1>t DEF StartNotify, ControlAt, NotifyEmpty, TypeOK, ControlPcs
    <3>3. CASE Stop BY <3>3, <1>t DEF Stop, ControlAt, TypeOK, ControlPcs
    <3>4. CASE StopNotify
      <4>1. woken' \in [empty : BOOLEAN, full : BOOLEAN]
        BY <3>4, <1>t DEF StopNotify, TypeOK
      <4>2. control' \in ControlPcs BY <3>4 DEF StopNotify, ControlAt, ControlPcs
      <4> QED BY <3>4, <1>t, <4>1, <4>2 DEF StopNotify, TypeOK
    <3> QED BY <1>18, <3>1, <3>2, <3>3, <3>4
  <2> QED BY <1>18, <2>1, QuietInv DEF StartAgain, StartNotify, Stop, StopNotify, Room
<1>19. CASE Join
  <2>1. TypeOK' BY <1>19, <1>t DEF Join, FetchAt, ControlAt, TypeOK, FetchPcs, ControlPcs
  <2> QED BY <1>19, <2>1, QuietInv DEF Join, FetchAt
<1>20. CASE UNCHANGED vars
  <2>1. TypeOK' BY <1>20, <1>t DEF vars, TypeOK
  <2> QED BY <1>20, <2>1, QuietInv DEF vars, Room
<1> QED
  BY <1>1, <1>2, <1>3, <1>4, <1>5, <1>6, <1>7, <1>8, <1>9, <1>10, <1>11, <1>12, <1>13, <1>14, <1>15,
     <1>16, <1>17, <1>18, <1>19, <1>20, <1>21, <1>22
  DEF Next, Fetch, GetNextFrame, Ask, Answer

(* The invariant of the buffer.                                            *)
THEOREM Invariance == Spec => []IInv
BY InitInv, NextInv, PTL DEF Spec

(* Every variable stays in its range (the members of AVFrame).             *)
THEOREM TypeCorrect == Spec => []TypeOK
<1>1. IInv => TypeOK BY DEF IInv
<1> QED BY <1>1, Invariance, PTL

(* The buffer never holds more than "full" seconds and one frame (fetch).  *)
THEOREM NeverOverfull == Spec => []Bounded
<1>1. IInv => Bounded BY DEF IInv
<1> QED BY <1>1, Invariance, PTL

-----------------------------------------------------------------------------
(* A step that leaves frames and iterator alone is a stutter.              *)
LEMMA QuietMaps ==
  ASSUME UNCHANGED <<data, pos, scale, out, seeks>> PROVE UNCHANGED FS!vars
BY DEF FS!vars, Capped

(* Every step maps to a step of FrameStream or to a stutter.               *)
LEMMA StepMaps == IInv /\ IInv' /\ [Next]_vars => [FS!Next]_FS!vars
<1> SUFFICES ASSUME IInv, IInv', [Next]_vars PROVE [FS!Next]_FS!vars OBVIOUS
<1>t. TypeOK /\ TypeOK' BY DEF IInv
<1>1. CASE \/ FetchTest \/ FetchWoken \/ FetchNothing \/ Spin \/ FetchSignal \/ FetchEnds
          \/ FetchSaysSo
  BY <1>1, QuietMaps
  DEF FetchTest, FetchWoken, FetchNothing, Spin, FetchSignal, FetchEnds, FetchSaysSo
<1>2. CASE FetchFrame
  <2>1. CASE data = <<>>
    <3>1. data' # <<>> /\ Head(data') = pos
      BY <1>2, <1>t, <2>1, AppendFacts, TailFacts, EmptyFacts DEF FetchFrame, TypeOK
    <3>2. Capped(pos) = pos BY <1>2, LengthAssumption DEF FetchFrame, Capped, Frame
    <3> QED BY <1>2, <2>1, <3>1, <3>2 DEF FetchFrame, FS!vars
  <2>2. CASE data # <<>>
    <3>1. data' # <<>> /\ data'[1] = data[1] /\ Len(data) > 0
      BY <1>2, <1>t, <2>2, AppendFacts, TailFacts DEF FetchFrame, TypeOK
    <3>2. Head(data') = Head(data)
      BY <3>1, <1>t, <2>2, TailFacts DEF TypeOK
    <3> QED BY <1>2, <2>2, <3>1, <3>2 DEF FetchFrame, FS!vars
  <2> QED BY <2>1, <2>2
<1>3. CASE FetchOutOfBounds
  <2>1. Capped(pos)' = Capped(pos)
    BY <1>3, <1>t, LengthAssumption DEF FetchOutOfBounds, TypeOK, Frame, Capped, IInv, Ends
  <2> QED BY <1>3, <2>1 DEF FetchOutOfBounds, FS!vars
<1>4. CASE Call \/ TakeEof
  BY <1>4, <1>t DEF Call, TakeEof, TypeOK, FS!vars, Capped
<1>5. CASE TestLow \/ WaitFull \/ ConsumerWoken \/ ConsumerSignal
  BY <1>5, QuietMaps DEF TestLow, WaitFull, ConsumerWoken, ConsumerSignal
<1>6. CASE TakeFrame
  <2> DEFINE d == Tail(data)
  <2>1. data \in Seq(Frame) /\ data # <<>> /\ data' = d /\ pos' = pos /\ scale' = scale
        /\ out'.last = Head(data) /\ seeks' = seeks
    BY <1>6, <1>t DEF TakeFrame, TypeOK
  <2>2. /\ d \in Seq(Frame) /\ Len(d) = Len(data) - 1 /\ Len(data) > 0
        /\ Head(data) = data[1] /\ Head(data) \in Frame
        /\ \A i \in 1 .. Len(data) - 1 : d[i] = data[i + 1]
    BY <2>1, TailFacts
  <2>3. Len(data) \in Nat /\ (Len(d) = 0 <=> d = <<>>)
    BY <2>1, <2>2, EmptyFacts
  <2> HIDE DEF d
  <2>4. (IF data' = <<>> THEN Capped(pos)' ELSE Head(data')) = Advance(Head(data))
    <3>1. CASE d = <<>>
      <4>1. Len(data) = 1 BY <3>1, <2>2, <2>3
      <4>2. Capped(pos) = Advance(data[Len(data)]) BY <2>1 DEF IInv, InOrder
      <4> QED BY <3>1, <4>1, <4>2, <2>1, <2>2 DEF Capped
    <3>2. CASE d # <<>>
      <4>1. Head(d) = d[1] BY <3>2, <2>2, TailFacts
      <4>2. 1 \in 1 .. Len(data) - 1 BY <3>2, <2>2, <2>3
      <4>3. d[1] = data[2] /\ data[2] = Advance(data[1])
        BY <4>2, <2>2 DEF IInv, InOrder
      <4> QED BY <3>2, <4>1, <4>3, <2>1, <2>2
    <3> QED BY <3>1, <3>2
  <2>5. FS!Following(Head(data)) = Advance(Head(data)) /\ scale = 1
    BY <2>1 DEF FS!Following, Advance, IInv, Ends
  <2>6. FS!Deliver
    BY <2>1, <2>2, <2>4, <2>5 DEF FS!Deliver, FS!Frame, Frame
  <2> QED BY <2>6 DEF FS!Next
<1>7. CASE Seek
  <2>1. pos' \in Frame /\ data' = <<>> /\ scale' \in {1, -1} /\ out' = out /\ seeks' = seeks + 1
    BY <1>7 DEF Seek
  <2>2. Capped(pos)' \in Frame BY <2>1, LengthAssumption DEF Capped, Frame
  <2> QED BY <2>1, <2>2 DEF FS!Next, FS!Seek, FS!Frame, Frame
<1>8. CASE SeekFails
  <2>1. Capped(pos) \in Frame \cup {-1, Length}
    BY <1>t, LengthAssumption DEF Capped, TypeOK, Frame
  <2> QED BY <1>8, <2>1 DEF SeekFails, FS!Next, FS!Lose, FS!Frame, Frame, Capped
<1>9. CASE DrySeek \/ StartThread \/ StartAgain \/ StartNotify \/ Join \/ Stop \/ StopNotify
  BY <1>9, QuietMaps DEF DrySeek, StartThread, StartAgain, StartNotify, Join, Stop, StopNotify
<1>10. CASE UNCHANGED vars
  BY <1>10, QuietMaps DEF vars
<1>11. CASE PassAllBy
  <2>1. data = <<>> /\ scale = -1 BY <1>11, <1>t DEF PassAllBy, IInv, Ends, TypeOK
  <2>2. Capped(pos)' = -1 BY <1>11, LengthAssumption DEF PassAllBy, Capped
  <2> QED BY <1>11, <2>1, <2>2 DEF PassAllBy, FS!Next, FS!Skip
<1> QED
  BY <1>1, <1>2, <1>3, <1>4, <1>5, <1>6, <1>7, <1>8, <1>9, <1>10, <1>11
  DEF Next, Fetch, GetNextFrame, Ask, Answer

(* The buffer implements FrameStream: whatever the threads do, the frames  *)
(* come in order from the last seek, each once, and none come backwards    *)
(* (fetch, fetchNextFrame, getNextFrame).                                  *)
THEOREM Refinement == Spec => ImplementsFrameStream
<1>1. Init => FS!Init
  BY LengthAssumption DEF Init, FS!Init, Capped
<1> QED BY <1>1, StepMaps, Invariance, PTL DEF Spec, ImplementsFrameStream, FS!Spec

-----------------------------------------------------------------------------
(* Frames are few, and the send thread may wait for more.                  *)
Few == data = <<>> \/ TimeSize(data) < Low

BackwardAudio == audio /\ scale < 0

(* A fetch thread that sleeps untold has enough frames, or is about to be  *)
(* told: by who has taken one, by a seek or by stop; or a send thread that *)
(* takes whatever there is does not wait; or the code has forgotten it.    *)
(* Only stop clears _running while it sleeps.                              *)
FetchAsleep ==
  fetch = "waitEmpty" /\ ~woken.empty =>
    /\ running \/ control = "stopNotify"
    /\ \/ ~Few
       \/ Low = 0 /\ consumer \notin {"low", "waitFull"}
       \/ consumer = "signal" \/ control \in {"start", "notify", "stopNotify"}
       \/ BackwardAudio \/ forgotten

(* A send thread that sleeps untold has few, or is about to be told, or    *)
(* waits for audio backwards.                                              *)
ConsumerAsleep ==
  /\ consumer = "low" => Few \/ BackwardAudio
  /\ consumer = "waitFull" /\ ~woken.full => Few \/ fetch = "signal" \/ BackwardAudio

AwakeInv == FetchAsleep /\ ConsumerAsleep

LEMMA TimeSizeFacts ==
  ASSUME TypeOK PROVE TimeSize(data) \in Nat /\ TimeSize(<<>>) = 0
BY EmptyFacts DEF TypeOK, TimeSize

(* Where audio is not played backwards, low and full are what the marks    *)
(* say.                                                                    *)
LEMMA Marks ==
  ASSUME TypeOK, ~Backwards
  PROVE  /\ IsLow(data) => Few /\ Low > 0
         /\ ~IsLow(data) => ~Few \/ (data = <<>> /\ Low = 0)
         /\ IsFull(data) /\ Full > 0 => ~Few
BY TimeSizeFacts, MarksAssumption DEF IsLow, IsFull, Few

LEMMA NextAwake ==
  ASSUME Full > 0, TypeOK, TypeOK', AwakeInv, [Next]_vars
  PROVE  AwakeInv'
<1> USE DEF AwakeInv, FetchAsleep, ConsumerAsleep, BackwardAudio
<1>w. woken \in [empty : BOOLEAN, full : BOOLEAN] /\ Low \in Nat
  BY MarksAssumption DEF TypeOK
<1>s. data' = data => (Few' <=> Few)
  BY DEF Few, TimeSize
<1>1. CASE FetchTest
  <2>1. fetch' = "waitEmpty" =>
          /\ running
          /\ ~Few \/ BackwardAudio
    <3>1. CASE Backwards BY <1>1, <3>1 DEF FetchTest, FetchAt, Backwards, BackwardAudio
    <3>2. CASE ~Backwards BY <1>1, <3>2, Marks DEF FetchTest, FetchAt
    <3> QED BY <3>1, <3>2
  <2> QED BY <1>1, <2>1, <1>s DEF FetchTest, FetchAt
<1>2. CASE FetchWoken
  BY <1>2, <1>s, <1>w DEF FetchWoken, FetchAt
<1>3. CASE FetchFrame
  <2>1. IsLow(data') => Few'
    <3>1. scale = 1 BY <1>3 DEF FetchFrame, TypeOK
    <3>2. IsLow(data') => TimeSize(data') < Low BY <3>1 DEF IsLow, Backwards
    <3>3. TimeSize(data)' = TimeSize(data') BY DEF TimeSize
    <3> QED BY <3>2, <3>3 DEF Few
  <2> QED BY <1>3, <2>1 DEF FetchFrame, FetchAt, LockFree
<1>4. CASE FetchSignal
  BY <1>4, <1>s, <1>w DEF FetchSignal, FetchAt, NotifyFull
<1>5. CASE FetchNothing \/ PassAllBy \/ Spin \/ FetchOutOfBounds \/ FetchEnds
  BY <1>5, <1>s DEF FetchNothing, PassAllBy, Spin, FetchOutOfBounds, FetchEnds, FetchAt
<1>6. CASE FetchSaysSo
  BY <1>6, <1>s, <1>w DEF FetchSaysSo, FetchAt, NotifyFull
<1>7. CASE Call \/ WaitFull \/ TakeEof
  BY <1>7, <1>s DEF Call, WaitFull, TakeEof, ConsumerAt
<1>8. CASE TestLow
  <2>1. (Few /\ Low > 0) \/ BackwardAudio
    BY <1>8, Marks DEF TestLow, Backwards, BackwardAudio
  <2> QED BY <1>8, <1>s, <1>w, <2>1 DEF TestLow, ConsumerAt
<1>9. CASE ConsumerWoken
  BY <1>9, <1>s, <1>w DEF ConsumerWoken, ConsumerAt
<1>10. CASE TakeFrame
  <2>1. running /\ Few' => consumer' = "signal" \/ Low = 0
    <3>1. TimeSize(<<>>) = 0 BY TimeSizeFacts
    <3> QED BY <1>10, <1>w, <3>1 DEF TakeFrame, ConsumerAt, IsLow, Few, TimeSize
  <2>2. consumer' \in {"signal", "idle"} /\ UNCHANGED <<running, fetch, control, woken>>
    BY <1>10 DEF TakeFrame, ConsumerAt
  <2> QED BY <2>1, <2>2
<1>11. CASE ConsumerSignal
  BY <1>11, <1>s, <1>w DEF ConsumerSignal, ConsumerAt, NotifyEmpty
<1>12. CASE Seek
  BY <1>12 DEF Seek, ControlAt, LockFree, Few
<1>13. CASE SeekFails
  BY <1>13 DEF SeekFails, Few, LockFree
<1>20. CASE DrySeek
  BY <1>20, <1>s DEF DrySeek
<1>14. CASE StartThread
  BY <1>14, <1>s DEF StartThread, ControlAt
<1>15. CASE StartAgain
  BY <1>15, <1>s DEF StartAgain, ControlAt
<1>16. CASE StartNotify
  BY <1>16, <1>s, <1>w DEF StartNotify, ControlAt, NotifyEmpty
<1>17. CASE Join \/ Stop
  BY <1>17, <1>s DEF Join, Stop, FetchAt, ControlAt
<1>18. CASE StopNotify
  BY <1>18, <1>s, <1>w DEF StopNotify, ControlAt
<1>19. CASE UNCHANGED vars
  BY <1>19, <1>s DEF vars
<1> QED
  BY <1>1, <1>2, <1>3, <1>4, <1>5, <1>6, <1>7, <1>8, <1>9, <1>10, <1>11, <1>12, <1>13, <1>14, <1>15,
     <1>16, <1>17, <1>18, <1>19, <1>20
  DEF Next, Fetch, GetNextFrame, Ask, Answer

(* The fetch thread and the send thread never both sleep with nobody about *)
(* to wake them, but where audio is played backwards and where a refused   *)
(* seek has emptied a full buffer (fetch, getNextFrame, seek, stop).  The  *)
(* assumption leaves out a buffer that is full when it is empty: its fetch *)
(* thread, of audio, sleeps again at once after a seek forward.            *)
THEOREM OneIsAwake == ASSUME Full > 0 PROVE Spec => []NeverBothAsleep
<1>1. Init => AwakeInv
  BY DEF Init, AwakeInv, FetchAsleep, ConsumerAsleep
<1>2. TypeOK /\ TypeOK' /\ AwakeInv /\ [Next]_vars => AwakeInv'
  BY NextAwake
<1>3. TypeOK /\ AwakeInv => NeverBothAsleep
  BY DEF AwakeInv, FetchAsleep, ConsumerAsleep, BackwardAudio, NeverBothAsleep, BothAsleep,
      Backwards
<1> QED BY <1>1, <1>2, <1>3, TypeCorrect, PTL DEF Spec

=============================================================================
