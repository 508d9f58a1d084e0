-------------------------- MODULE RtpChannelsProofs --------------------------
(***************************************************************************)
(* The framing of an interleaved connection, the packets of a track and    *)
(* the reports of a client: for tracks of any format and length, frames,   *)
(* reports and answers of any length, and any number of faults.            *)
(***************************************************************************)
EXTENDS RtpChannels, WellFoundedInduction, TLAPS

(* The process has ended: nobody is left to write.                         *)
Ended == ~serving /\ chan = "closed" /\ late = {}

(* Of an answer there is as much left as its thread still has to write,    *)
(* unless it was given up.                                                 *)
AnswerInv ==
  /\ reply \in [left : 0 .. Answer, tries : Nat]
  /\ owed.who = "rtsp" => owed.left \in Nat /\ owed.left < Answer
  /\ owed.who = "rtsp" /\ owed.left > 0 => reply.left = owed.left \/ torn \/ Ended

(* What is left of a packet or of a report has been torn.                  *)
TornInv == owed.left > 0 /\ owed.who # "rtsp" => torn

(* Over UDP there is no connection to share.                               *)
UdpInv == ~tunnel => reply.left = 0 /\ owed = Nothing

FramingInv == mixed \in BOOLEAN /\ torn \in BOOLEAN /\ AnswerInv /\ TornInv /\ UdpInv /\ Framed

(* A connection begins with nothing in it.                                 *)
LEMMA InitFraming == Init => FramingInv
<1> SUFFICES ASSUME Init PROVE FramingInv
    OBVIOUS
<1>1. reply = NoReply /\ owed = Nothing /\ mixed = FALSE /\ torn = FALSE
      BY DEF Init
<1>2. NoReply \in [left : 0 .. Answer, tries : Nat] /\ NoReply.left = 0
      BY ShortsAssumption DEF NoReply
<1>3. ~(Nothing.left > 0) /\ Nothing.who # "rtsp"
      BY DEF Nothing
<1>. QED
  BY <1>1, <1>2, <1>3 DEF FramingInv, AnswerInv, TornInv, UdpInv, Framed

(* A packet or a report is not written into an answer: the answer holds    *)
(* the lock of the tunnel until it is out, or given up.                    *)
LEMMA ChannelWrites ==
  ASSUME FramingInv, NEW who \in Writers, NEW bytes, NEW taken,
         MayWrite(who), Wrote(who), writeSome(who, bytes, taken),
         UNCHANGED <<reply, serving, tunnel>>,
         \/ taken = bytes /\ torn' = torn
         \/ torn' = TRUE
  PROVE  FramingInv'
<1>1. CASE ~tunnel
  <2>1. UNCHANGED <<owed, mixed, reply, tunnel>> /\ owed.who # "rtsp" /\ ~(owed.left > 0)
        BY <1>1 DEF FramingInv, UdpInv, Nothing, writeSome
  <2>2. torn' \in BOOLEAN /\ (mixed' => torn')
        BY <2>1 DEF FramingInv, Framed
  <2>. QED
    BY <1>1, <2>1, <2>2 DEF FramingInv, AnswerInv, TornInv, UdpInv, Framed
<1>2. CASE tunnel
  <2>1. owed.who = "rtsp" /\ owed.left > 0 => torn
    <3>1. reply.left = 0 /\ ~Ended
          BY <1>2 DEF MayWrite, TunnelFree, Ended
    <3>. QED
      BY <3>1 DEF FramingInv, AnswerInv
  <2>2. owed.left > 0 \/ mixed => torn
        BY <2>1 DEF FramingInv, TornInv, Framed
  <2>3. mixed' \in BOOLEAN /\ torn' \in BOOLEAN /\ (mixed' => torn')
    <3>1. mixed' = (mixed \/ owed.left > 0)
          BY <1>2 DEF writeSome, Writers
    <3>. QED
      BY <2>2, <3>1 DEF FramingInv
  <2>4. owed'.who # "rtsp" /\ (owed'.left > 0 => torn')
    <3>1. CASE taken = bytes
          BY <1>2, <3>1 DEF writeSome, Nothing
    <3>2. CASE taken # bytes
          BY <1>2, <3>2 DEF writeSome, Writers
    <3>. QED
      BY <3>1, <3>2
  <2>. QED
    BY <1>2, <2>3, <2>4 DEF FramingInv, AnswerInv, TornInv, UdpInv, Framed
<1>. QED
  BY <1>1, <1>2

(* Steps that write nothing; the threads that may write get fewer, or the  *)
(* connection is closed while no answer is under way.                      *)
LEMMA NoWrite ==
  ASSUME FramingInv, UNCHANGED <<tunnel, owed, mixed, torn>>,
         \/ UNCHANGED <<reply, serving, chan, late>>
         \/ UNCHANGED <<reply, serving, chan>> /\ late' \subseteq late
         \/ UNCHANGED <<reply, serving>> /\ chan = "open"
         \/ reply' = NoReply /\ Ended'
  PROVE  FramingInv'
<1>1. Ended => Ended' \/ UNCHANGED <<reply, serving, chan, late>>
      BY DEF Ended
<1>2. reply' \in [left : 0 .. Answer, tries : Nat] /\ (~tunnel => reply'.left = 0)
  <2>1. NoReply \in [left : 0 .. Answer, tries : Nat] /\ NoReply.left = 0
        BY ShortsAssumption DEF NoReply
  <2>. QED
    BY <2>1 DEF FramingInv, AnswerInv, UdpInv
<1>3. reply'.left = reply.left \/ Ended'
      OBVIOUS
<1>4. Ended => Ended'
      BY <1>1 DEF Ended
<1>5. AnswerInv'
      BY <1>2, <1>3, <1>4 DEF FramingInv, AnswerInv
<1>. QED
  BY <1>2, <1>5 DEF FramingInv, TornInv, UdpInv, Framed

(* The send thread does not come in between.                               *)
LEMMA SendFraming == FramingInv /\ SendNextFrame => FramingInv'
<1> SUFFICES ASSUME FramingInv, SendNextFrame PROVE FramingInv'
    OBVIOUS
<1> USE DEF track, sending, reporting, stream, receiving, channels
<1>1. CASE NextFrame \/ Eof \/ PacketLost \/ PacketFails
  <2>1. UNCHANGED <<tunnel, owed, mixed, torn, reply, serving, chan>> /\ late' \subseteq late
        BY <1>1 DEF NextFrame, Eof, PacketLost, PacketFails, Wrote
  <2>. QED
    BY <2>1, NoWrite
<1>2. CASE FrameRefused
  <2>1. UNCHANGED <<tunnel, owed, mixed, torn>> /\ reply' = NoReply /\ Ended'
        BY <1>2 DEF FrameRefused, Ended
  <2>. QED
    BY <2>1, NoWrite
<1>3. CASE PacketSent
  <2> DEFINE n == Envelope + Head(pkts).rem
  <2>1. /\ writeSome("rtp", n, n) /\ MayWrite("rtp") /\ Wrote("rtp")
        /\ UNCHANGED <<reply, serving, tunnel, torn>>
        BY <1>3 DEF PacketSent
  <2> HIDE DEF n
  <2>. QED
    BY <2>1, ChannelWrites DEF Writers
<1>4. CASE PacketCut
  <2>1. PICK k \in Shorts : writeSome("rtp", 4 + Head(pkts).rem, k)
        BY <1>4 DEF PacketCut
  <2>2. /\ MayWrite("rtp") /\ Wrote("rtp")
        /\ UNCHANGED <<reply, serving, tunnel>> /\ torn' = TRUE
        BY <1>4 DEF PacketCut
  <2>. QED
    BY <2>1, <2>2, ChannelWrites DEF Writers
<1>. QED
  BY <1>1, <1>2, <1>3, <1>4 DEF SendNextFrame

(* Nor does the RTCP thread.                                               *)
LEMMA ReportFraming == ASSUME FramingInv, NEW bye, SendReport(bye) PROVE FramingInv'
<1> USE DEF track, sending, reporting, stream, receiving
<1> DEFINE n == Envelope + Compound(bye)
           cut == 4 + Compound(bye)
<1>1. Wrote("rtcp") /\ UNCHANGED <<reply, serving, tunnel>>
      BY DEF SendReport
<1>2. \/ MayWrite("rtcp") /\ writeSome("rtcp", n, n) /\ UNCHANGED torn
      \/ MayWrite("rtcp") /\ (\E k \in Shorts : writeSome("rtcp", cut, k)) /\ torn' = TRUE
      \/ UNCHANGED stream
      BY DEF SendReport
<1> HIDE DEF n, cut
<1>3. CASE UNCHANGED stream
  <2>1. UNCHANGED chan /\ late' \subseteq late
        BY <1>1 DEF Wrote
  <2>. QED
    BY <1>1, <1>3, <2>1, NoWrite
<1>. QED
  BY <1>1, <1>2, <1>3, ChannelWrites DEF Writers

(* Nor does the RTSP thread, whose answers may be cut.                     *)
LEMMA ServeFraming == FramingInv /\ Serve => FramingInv'
<1> SUFFICES ASSUME FramingInv, Serve PROVE FramingInv'
    OBVIOUS
<1> USE DEF track, sending, reporting, stream, receiving, channels
<1>1. CASE Play \/ Unpause \/ Pause \/ Teardown
      BY <1>1, NoWrite DEF Play, Unpause, Pause, Teardown
<1>2. CASE Close
      BY <1>2, NoWrite DEF Close
<1>3. CASE Reply
  <2>1. /\ tunnel /\ serving /\ reply.left = 0
        /\ UNCHANGED <<tunnel, serving, chan, late, owed, mixed, torn>>
        BY <1>3 DEF Reply, Ask
  <2>2. reply' \in [left : 0 .. Answer, tries : Nat]
        BY <1>3, ShortsAssumption DEF Reply, NoReply
  <2>3. owed.who = "rtsp" /\ owed.left > 0 => torn
        BY <2>1 DEF FramingInv, AnswerInv, Ended
  <2>. QED
    BY <2>1, <2>2, <2>3 DEF FramingInv, AnswerInv, TornInv, UdpInv, Framed
<1>4. CASE ReplySome
  <2>1. PICK k \in Shorts \cup {reply.left} :
          /\ k <= reply.left
          /\ writeSome("rtsp", reply.left, k)
          /\ reply' = IF k = reply.left THEN NoReply ELSE [reply EXCEPT !.left = @ - k]
        BY <1>4 DEF ReplySome
  <2>2. /\ reply.left \in 0 .. Answer /\ reply.left > 0 /\ tunnel
        /\ UNCHANGED <<tunnel, torn>>
        BY <1>4 DEF ReplySome, FramingInv, AnswerInv, UdpInv
  <2>3. k \in Nat /\ k > 0 /\ Answer \in Nat
        BY <2>1, <2>2, ShortsAssumption
  <2>4. /\ owed' = IF k = reply.left THEN Nothing ELSE [who |-> "rtsp", left |-> reply.left - k]
        /\ mixed' = (mixed \/ (owed.left > 0 /\ owed.who # "rtsp"))
        BY <2>1, <2>2 DEF writeSome
  <2>5. mixed' \in BOOLEAN /\ torn' \in BOOLEAN /\ (mixed' => torn')
        BY <2>2, <2>4 DEF FramingInv, TornInv, Framed
  <2>6. CASE k = reply.left
    <3>1. owed'.who # "rtsp" /\ ~(owed'.left > 0)
          BY <2>4, <2>6 DEF Nothing
    <3>2. reply' \in [left : 0 .. Answer, tries : Nat]
          BY <2>1, <2>3, <2>6 DEF NoReply
    <3>. QED
      BY <2>2, <2>5, <3>1, <3>2 DEF FramingInv, AnswerInv, TornInv, UdpInv, Framed
  <2>7. CASE k # reply.left
    <3>1. owed'.who = "rtsp" /\ owed'.left = reply.left - k
          BY <2>4, <2>7
    <3>2. reply' = [reply EXCEPT !.left = reply.left - k]
          BY <2>1, <2>7
    <3>3. reply.left - k \in 0 .. Answer /\ reply.left - k < Answer
          BY <2>1, <2>2, <2>3
    <3>4. reply'.left = reply.left - k
          BY <3>2 DEF FramingInv, AnswerInv
    <3>5. reply' \in [left : 0 .. Answer, tries : Nat]
          BY <3>2, <3>3 DEF FramingInv, AnswerInv
    <3>. QED
      BY <2>2, <2>5, <3>1, <3>3, <3>4, <3>5 DEF FramingInv, AnswerInv, TornInv, UdpInv, Framed
  <2>. QED
    BY <2>6, <2>7
<1>5. CASE ReplyBlocked
  <2>1. reply.left > 0 /\ UNCHANGED <<tunnel, chan, late, owed, mixed>>
        BY <1>5 DEF ReplyBlocked
  <2>2. CASE reply' = [reply EXCEPT !.tries = @ + 1] /\ UNCHANGED <<serving, torn>>
    <3>1. reply' \in [left : 0 .. Answer, tries : Nat] /\ reply'.left = reply.left
          BY <2>2 DEF FramingInv, AnswerInv
    <3>2. UNCHANGED Ended
          BY <2>1, <2>2 DEF Ended
    <3>. QED
      BY <2>1, <2>2, <3>1, <3>2 DEF FramingInv, AnswerInv, TornInv, UdpInv, Framed
  <2>3. CASE reply' = NoReply /\ serving' = FALSE /\ torn' = (torn \/ reply.left < Answer)
    <3>1. torn' \in BOOLEAN /\ (torn => torn')
          BY <2>3 DEF FramingInv
    <3>2. owed.who = "rtsp" /\ owed.left > 0 => torn' \/ Ended'
      <4>1. Ended => Ended'
            BY <2>1, <2>3 DEF Ended
      <4>2. reply.left = owed.left /\ owed.who = "rtsp" => torn'
            BY <2>3 DEF FramingInv, AnswerInv
      <4>. QED
        BY <3>1, <4>1, <4>2 DEF FramingInv, AnswerInv
    <3>3. reply' \in [left : 0 .. Answer, tries : Nat] /\ reply'.left = 0
          BY <2>3, ShortsAssumption DEF NoReply
    <3>. QED
      BY <2>1, <3>1, <3>2, <3>3 DEF FramingInv, AnswerInv, TornInv, UdpInv, Framed
  <2>. QED
    BY <1>5, <2>2, <2>3 DEF ReplyBlocked
<1>. QED
  BY <1>1, <1>2, <1>3, <1>4, <1>5 DEF Serve

(* No step breaks the framing.                                             *)
LEMMA NextFraming == FramingInv /\ [Next]_vars => FramingInv'
<1> SUFFICES ASSUME FramingInv, [Next]_vars PROVE FramingInv'
    OBVIOUS
<1>1. CASE ClientReports \/ Receive \/ UNCHANGED vars
      BY <1>1, NoWrite DEF ClientReports, Receive, vars, track, sending, reporting, stream,
                           receiving, channels
<1>. QED
  BY <1>1, SendFraming, ReportFraming, ServeFraming DEF Next

(* No packet, report or answer comes in the middle of another, as long as  *)
(* no packet or report is cut and no answer is given up half way           *)
(* (Interleave::writeSome, Socket::reply), whatever their lengths, and     *)
(* though the channels stay open behind an answer that fails.              *)
THEOREM StaysFramed == Spec => []Framed
<1>1. FramingInv => Framed
      BY DEF FramingInv
<1>. QED
  BY <1>1, InitFraming, NextFraming, PTL DEF Spec

-----------------------------------------------------------------------------
(* The reports of a client.                                                *)

InputType ==
  /\ input \in Seq([report : Reports, end : Nat \ {0}])
  /\ read \in Nat /\ listening \in BOOLEAN /\ astray \in BOOLEAN

(* They end one behind the other.                                          *)
EndsInOrder ==
  \A n \in 1 .. Len(input) : Upto(input, n - 1) < Upto(input, n)

(* What is handled is what came first, as far as it was read.              *)
HandledInv ==
  /\ Len(handled) <= Len(input) /\ handled = SubSeq(input, 1, Len(handled))
  /\ Upto(input, Len(handled)) <= read /\ read <= Upto(input, Len(input))
  /\ Len(handled) < Len(input) /\ ~astray => read < Upto(input, Len(handled) + 1)
  /\ \A i \in DOMAIN handled : handled[i].report.type = "BYE" => ~listening

ParseInv == InputType /\ EndsInOrder /\ HandledInv

(* Packets end somewhere in the stream.                                    *)
LEMMA UptoType ==
  ASSUME InputType, NEW n \in 0 .. Len(input)
  PROVE  Upto(input, n) \in Nat
<1>1. ASSUME n # 0 PROVE input[n] \in [report : Reports, end : Nat \ {0}]
  <2> DEFINE R == [report : Reports, end : Nat \ {0}]
  <2>1. input \in Seq(R)
        BY DEF InputType
  <2> HIDE DEF R
  <2>2. n \in 1 .. Len(input)
        BY <1>1, <2>1
  <2>3. input[n] \in R
        BY <2>1, <2>2
  <2>. QED
    BY <2>3 DEF R
<1>. QED
  BY <1>1 DEF Upto

(* A packet more does not move those before it.                            *)
LEMMA UptoAppend ==
  ASSUME InputType, NEW p \in [report : Reports, end : Nat \ {0}], NEW n \in 0 .. Len(input)
  PROVE  Upto(Append(input, p), n) = Upto(input, n)
<1>1. n # 0 => Append(input, p)[n] = input[n]
      BY DEF InputType
<1>. QED
  BY <1>1 DEF Upto

(* Steps of the client.                                                    *)
LEMMA ReportFollows ==
  ASSUME ParseInv, ClientReports
  PROVE  ParseInv'
<1>1. PICK p \in Reports :
        input' = Append(input, [report |-> p, end |-> Upto(input, Len(input)) + p.size])
      BY DEF ClientReports
<1> DEFINE q == [report |-> p, end |-> Upto(input, Len(input)) + p.size]
           N == Len(input)
<1>2. p.size \in Nat \ {0} /\ Upto(input, N) \in Nat /\ N \in Nat
      BY ReportsAssumption, UptoType DEF ParseInv, InputType
<1>3. q \in [report : Reports, end : Nat \ {0}] /\ q.end > Upto(input, N)
      BY <1>2
<1>4. UNCHANGED <<read, handled, listening, astray>>
      BY DEF ClientReports
<1> HIDE DEF q
<1>5. Len(input') = N + 1 /\ input' = Append(input, q)
      BY <1>1 DEF ParseInv, InputType, q
<1>6. InputType'
      BY <1>3, <1>4, <1>5 DEF ParseInv, InputType
<1>7. \A n \in 0 .. N : Upto(input', n) = Upto(input, n)
      BY <1>3, <1>5, UptoAppend DEF ParseInv
<1>8. Upto(input', N + 1) = q.end
      BY <1>2, <1>5 DEF ParseInv, InputType, Upto
<1>9. EndsInOrder'
  <2>1. SUFFICES ASSUME NEW n \in 1 .. N + 1 PROVE Upto(input', n - 1) < Upto(input', n)
        BY <1>5 DEF EndsInOrder
  <2>2. CASE n = N + 1
    <3>1. Upto(input', n - 1) = Upto(input, N)
          BY <1>2, <1>7, <2>2
    <3>. QED
      BY <1>2, <1>3, <1>8, <2>2, <3>1
  <2>3. CASE n \in 1 .. N
    <3>1. Upto(input', n - 1) = Upto(input, n - 1) /\ Upto(input', n) = Upto(input, n)
          BY <1>2, <1>7, <2>3
    <3>. QED
      BY <2>3, <3>1 DEF ParseInv, EndsInOrder
  <2>. QED
    BY <1>2, <2>2, <2>3
<1>10. HandledInv'
  <2>1. Len(handled) \in 0 .. N
        BY <1>2 DEF ParseInv, HandledInv
  <2>2. SubSeq(input', 1, Len(handled)) = SubSeq(input, 1, Len(handled))
        BY <1>2, <1>5, <2>1 DEF ParseInv, InputType
  <2>3. Upto(input', Len(handled)) = Upto(input, Len(handled))
        BY <1>7, <2>1
  <2>4. read <= Upto(input', N + 1)
        BY <1>2, <1>3, <1>8 DEF ParseInv, InputType, HandledInv
  <2>5. ~astray => read < Upto(input', Len(handled) + 1)
    <3>1. CASE Len(handled) = N
          BY <1>2, <1>3, <1>8, <3>1 DEF ParseInv, InputType, HandledInv
    <3>2. CASE Len(handled) < N
          BY <1>2, <1>7, <2>1, <3>2 DEF ParseInv, HandledInv
    <3>. QED
      BY <1>2, <2>1, <3>1, <3>2
  <2>. QED
    BY <1>2, <1>4, <1>5, <2>1, <2>2, <2>3, <2>4, <2>5 DEF ParseInv, HandledInv
<1>. QED
  BY <1>6, <1>9, <1>10 DEF ParseInv

(* The last of a set of numbers that is bounded.                           *)
LEMMA LastFacts ==
  ASSUME NEW N \in Nat, NEW S \in SUBSET (0 .. N), S # {},
         NEW last, last = CHOOSE n \in S : \A i \in S : i <= n
  PROVE  last \in S /\ \A i \in S : i <= last
<1> DEFINE T == {N - i : i \in S}
<1>1. T \subseteq Nat /\ T # {}
  <2>1. \A i \in S : i \in 0 .. N
        OBVIOUS
  <2>2. \A i \in S : N - i \in Nat
        BY <2>1
  <2>3. PICK i \in S : TRUE
        OBVIOUS
  <2>. QED
    BY <2>2, <2>3
<1> HIDE DEF T
<1>2. PICK p \in T : \A q \in T : ~(<<q, p>> \in OpToRel(<, Nat))
      BY <1>1, NatLessThanWellFounded, WFMin, Zenon
<1>3. \A q \in T : ~(q < p)
      BY <1>1, <1>2 DEF OpToRel
<1>4. PICK n \in S : p = N - n
      BY DEF T
<1>5. ASSUME NEW i \in S PROVE i <= n
      BY <1>3, <1>4 DEF T
<1>. QED
  BY <1>5

(* push stops before the first packet that is not all there, or at the     *)
(* first that is broken.                                                   *)
LEMMA PushFacts ==
  ASSUME ParseInv, NEW n \in Nat, read < n, NEW to, to = push(n)
  PROVE  /\ to.upTo \in Len(handled) .. Len(input) /\ to.astray \in BOOLEAN
         /\ Upto(input, to.upTo) <= n
         /\ to.upTo < Len(input) /\ ~to.astray => n < Upto(input, to.upTo + 1)
<1> DEFINE done == Len(handled)
           N == Len(input)
           There == {m \in done + 1 .. N :
                       \A i \in done + 1 .. m :
                         Received(Upto(input, i), n) /\ (i < m => Handled(input[i].report))}
           last == IF There = {} THEN done ELSE CHOOSE m \in There : \A i \in There : i <= m
           bad == last > done /\ ~Handled(input[last].report)
<1>1. done \in Nat /\ N \in Nat /\ done <= N /\ \A i \in 0 .. N : Upto(input, i) \in Nat
      BY UptoType DEF ParseInv, InputType, HandledInv
<1>2. to = [upTo |-> IF bad THEN last - 1 ELSE last, astray |-> bad]
      BY DEF push
<1>3. last \in done .. N /\ (last > done => last \in There) /\ \A i \in There : i <= last
  <2>1. CASE There = {}
    <3> HIDE DEF There
    <3>. QED
      BY <1>1, <2>1
  <2>2. CASE There # {}
    <3>1. There \in SUBSET (0 .. N)
          BY <1>1
    <3>2. last = CHOOSE m \in There : \A i \in There : i <= m
          BY <2>2
    <3> HIDE DEF There, last
    <3>3. last \in There /\ \A i \in There : i <= last
          BY <1>1, <2>2, <3>1, <3>2, LastFacts
    <3>. QED
      BY <1>1, <3>3 DEF There
  <2>. QED
    BY <2>1, <2>2
<1> HIDE DEF last
<1>4. \A i \in done + 1 .. last : Upto(input, i) <= n /\ (i < last => Handled(input[i].report))
      BY <1>1, <1>3 DEF Received
<1>5. Upto(input, done) <= n
      BY <1>1 DEF ParseInv, HandledInv, InputType
<1>6. last < N /\ ~bad => n < Upto(input, last + 1)
  <2>1. SUFFICES ASSUME last < N, ~bad, ~(n < Upto(input, last + 1)) PROVE FALSE
        OBVIOUS
  <2>2. last + 1 \in done + 1 .. N /\ Upto(input, last + 1) <= n
        BY <1>1, <1>3, <2>1
  <2>3. last + 1 \in There
    <3>1. SUFFICES ASSUME NEW i \in done + 1 .. last + 1
                   PROVE  Received(Upto(input, i), n) /\ (i < last + 1 => Handled(input[i].report))
          BY <2>2
    <3>2. CASE i = last + 1
          BY <1>1, <1>3, <2>2, <3>2 DEF Received
    <3>3. CASE i \in done + 1 .. last
      <4>1. i < last => Handled(input[i].report)
            BY <1>4, <3>3
      <4>2. i = last => Handled(input[i].report)
            BY <1>1, <1>3, <2>1, <3>3
      <4>. QED
        BY <1>1, <1>3, <1>4, <3>3, <4>1, <4>2 DEF Received
    <3>. QED
      BY <1>1, <1>3, <3>2, <3>3
  <2>. QED
    BY <1>1, <1>3, <2>3
<1>7. bad \in BOOLEAN /\ (bad => last > done)
      OBVIOUS
<1> HIDE DEF bad, There
<1>8. to.upTo = (IF bad THEN last - 1 ELSE last) /\ to.astray = bad
      BY <1>2
<1>9. to.upTo \in done .. last /\ to.upTo \in done .. N
      BY <1>1, <1>3, <1>7, <1>8
<1>10. Upto(input, to.upTo) <= n
      BY <1>1, <1>3, <1>4, <1>5, <1>9
<1>. QED
  BY <1>1, <1>3, <1>6, <1>7, <1>8, <1>9, <1>10

(* A read, wherever it ends.                                               *)
LEMMA ReceiveParses ==
  ASSUME ParseInv, Receive
  PROVE  ParseInv'
<1>1. PICK n \in Cuts :
        /\ read' = n
        /\ handled' = SubSeq(input, 1, push(n).upTo)
        /\ astray' = push(n).astray
        /\ listening' = ~\E i \in Len(handled) + 1 .. push(n).upTo : input[i].report.type = "BYE"
      BY DEF Receive
<1>2. listening /\ ~astray /\ UNCHANGED input
      BY DEF Receive
<1> DEFINE to == push(n)
           N == Len(input)
<1>3. read \in Nat /\ N \in Nat /\ Len(handled) \in Nat /\ Upto(input, N) \in Nat
      BY UptoType DEF ParseInv, InputType, HandledInv
<1>4. n \in Nat /\ read < n /\ n <= Upto(input, N)
      BY <1>3 DEF Cuts
<1>5. /\ to.upTo \in Len(handled) .. N /\ to.astray \in BOOLEAN
      /\ Upto(input, to.upTo) <= n
      /\ to.upTo < N /\ ~to.astray => n < Upto(input, to.upTo + 1)
      BY <1>4, PushFacts
<1>6. /\ handled' = SubSeq(input, 1, to.upTo) /\ astray' = to.astray
      /\ listening' = ~\E i \in Len(handled) + 1 .. to.upTo : input[i].report.type = "BYE"
      BY <1>1
<1> HIDE DEF to
<1>7. Len(handled') = to.upTo /\ \A i \in 1 .. to.upTo : handled'[i] = input[i]
      BY <1>3, <1>5, <1>6 DEF ParseInv, InputType
<1>8. InputType' /\ EndsInOrder'
      BY <1>1, <1>2, <1>4, <1>5, <1>6 DEF ParseInv, InputType, EndsInOrder
<1>9. \A i \in DOMAIN handled' : handled'[i].report.type = "BYE" => ~listening'
  <2>1. SUFFICES ASSUME NEW i \in DOMAIN handled', handled'[i].report.type = "BYE"
                 PROVE  ~listening'
        OBVIOUS
  <2>2. i \in 1 .. to.upTo /\ input[i].report.type = "BYE"
        BY <1>3, <1>5, <1>6, <1>7, <2>1 DEF ParseInv, InputType
  <2>3. CASE i \in 1 .. Len(handled)
    <3>1. handled = SubSeq(input, 1, Len(handled)) /\ Len(handled) <= N
          BY DEF ParseInv, HandledInv
    <3>2. i \in DOMAIN handled /\ handled[i] = input[i]
          BY <1>3, <2>3, <3>1 DEF ParseInv, InputType
    <3>. QED
      BY <1>2, <2>2, <3>2 DEF ParseInv, HandledInv
  <2>4. CASE i \in Len(handled) + 1 .. to.upTo
        BY <1>6, <2>2, <2>4
  <2>. QED
    BY <1>3, <1>5, <2>2, <2>3, <2>4
<1>10. HandledInv'
  <2>1. read' = n /\ input' = input /\ Len(handled') = to.upTo /\ handled' = SubSeq(input, 1, to.upTo)
        BY <1>1, <1>2, <1>6, <1>7
  <2>2. to.upTo <= N /\ (to.upTo < N /\ ~astray' => n < Upto(input, to.upTo + 1))
        BY <1>3, <1>5, <1>6
  <2>. QED
    BY <1>4, <1>5, <1>9, <2>1, <2>2 DEF HandledInv
<1>. QED
  BY <1>8, <1>10 DEF ParseInv

(* The invariant holds from the start, and the other steps leave it        *)
(* alone.                                                                  *)
LEMMA ParseHolds == Spec => []ParseInv
<1>1. ASSUME Init PROVE ParseInv
  <2>1. /\ input = <<>> /\ read = 0 /\ handled = <<>> /\ listening = TRUE /\ astray = FALSE
        /\ Len(input) = 0 /\ Len(handled) = 0 /\ handled = SubSeq(input, 1, 0)
        BY <1>1 DEF Init
  <2>2. InputType /\ EndsInOrder
    <3>1. <<>> \in Seq([report : Reports, end : Nat \ {0}])
          OBVIOUS
    <3>2. 1 .. Len(input) = {}
          BY <2>1
    <3>. QED
      BY <2>1, <3>1, <3>2 DEF InputType, EndsInOrder
  <2>3. Upto(input, 0) = 0 /\ DOMAIN handled = {}
        BY <2>1 DEF Upto
  <2>. QED
    BY <2>1, <2>2, <2>3 DEF ParseInv, HandledInv
<1>2. ASSUME ParseInv, UNCHANGED <<input, read, handled, astray>>, listening' \in {listening, FALSE}
      PROVE  ParseInv'
  <2>1. InputType'
        BY <1>2 DEF ParseInv, InputType
  <2>2. listening' => listening
        BY <1>2 DEF ParseInv, InputType
  <2>3. EndsInOrder'
        BY <1>2 DEF ParseInv, EndsInOrder, Upto
  <2>4. HandledInv'
        BY <1>2, <2>2 DEF ParseInv, HandledInv, Upto
  <2>. QED
    BY <2>1, <2>3, <2>4 DEF ParseInv
<1>3. ASSUME ParseInv, [Next]_vars PROVE ParseInv'
  <2> USE DEF vars, track, sending, reporting, stream, receiving
  <2>1. CASE SendNextFrame
        BY <1>2, <1>3, <2>1 DEF SendNextFrame, NextFrame, FrameRefused, Eof, PacketSent, PacketCut,
                     PacketLost, PacketFails
  <2>2. CASE Serve
        BY <1>2, <1>3, <2>2 DEF Serve, Play, Unpause, Pause, Teardown, Close, Reply, ReplySome, ReplyBlocked
  <2>3. CASE \E bye \in BOOLEAN : SendReport(bye)
        BY <1>2, <1>3, <2>3 DEF SendReport
  <2>4. CASE UNCHANGED vars
        BY <1>2, <1>3, <2>4
  <2>. QED
    BY <1>3, <2>1, <2>2, <2>3, <2>4, ReportFollows, ReceiveParses DEF Next
<1>. QED
  BY <1>1, <1>3, PTL DEF Spec

(* The reports of a client are handled once and in order, however they are *)
(* cut (Receiver::push), whatever their number and sizes.                  *)
THEOREM HandledOnce == Spec => []ParsedOnce
<1>1. ASSUME ParseInv PROVE ParsedOnce
  <2>1. handled = SubSeq(input, 1, Len(handled)) /\ Len(handled) <= Len(input)
        BY <1>1 DEF ParseInv, HandledInv
  <2>2. IsPrefix(handled, input)
        BY <1>1, <2>1 DEF ParseInv, InputType, IsPrefix
  <2>. QED
    BY <1>1, <2>2 DEF ParseInv, HandledInv, ParsedOnce
<1>. QED
  BY <1>1, ParseHolds, PTL

-----------------------------------------------------------------------------
(* The packets of a frame.                                                 *)

PayloadSizes == {1424, 1426, 1428}

PayloadSize(format) == MTU - SIZE - Extra(format)

Number(format, tot) == (tot + PayloadSize(format) - 1) \div PayloadSize(format)

(* What packet i of n is, after number x.                                  *)
PieceIs(format, tot, x, p, i, n) ==
  /\ p.seqNo = (x + i) % SeqNumbers
  /\ p.from = (i - 1) * PayloadSize(format)
  /\ p.size = IF i < n THEN PayloadSize(format) ELSE tot - p.from
  /\ p.data <= MTU
  /\ p.isLastOfSequence <=> i = n
  /\ format \in {"MP4", "AAC"} => (p.marker = 1 <=> i = n)
  /\ format = "MP2" => p.note = p.from
  /\ format = "AAC" => p.note = p.size
  /\ format = "MP3" => p.note = NoteMP3(p.from, tot)

Notes == Nat \cup (BOOLEAN \X Nat)

PacketType ==
  [seqNo : Nat, from : Nat, size : Nat, data : Nat, marker : {0, 1},
   note : Notes, isLastOfSequence : BOOLEAN]

(* The extra bytes of a packet of an MP3 track.                            *)
LEMMA NoteFacts ==
  ASSUME NEW from \in Nat, NEW tot \in Nat
  PROVE  /\ NoteMP3(from, tot) \in BOOLEAN \X Nat
         /\ NoteMP3(from, tot)[1] = (from > 0) /\ NoteMP3(from, tot)[2] = tot % 16384
<1> DEFINE b == from > 0
           r == tot % 16384
<1>1. NoteMP3(from, tot) = <<b, r>>
      BY DEF NoteMP3
<1>2. b \in BOOLEAN /\ r \in Nat
      OBVIOUS
<1> HIDE DEF b, r
<1>3. NoteMP3(from, tot) \in BOOLEAN \X Nat /\ NoteMP3(from, tot)[1] = b /\ NoteMP3(from, tot)[2] = r
      BY <1>1, <1>2
<1>. QED
  BY <1>3 DEF b, r

(* What is left in a packet for the bytes of a frame.                      *)
LEMMA SizeFacts ==
  ASSUME NEW format \in Formats
  PROVE  /\ PayloadSize(format) \in PayloadSizes
         /\ SIZE + Extra(format) + PayloadSize(format) = MTU
         /\ SIZE + Extra(format) \in Nat
BY DEF Formats, PayloadSizes, PayloadSize, MTU, SIZE, Extra

(* Where the slices of a frame begin and end.                              *)
SliceIs(w, tot, i, n) ==
  /\ (i - 1) * w \in Nat /\ (i - 1) * w < tot
  /\ i < n => tot - (i - 1) * w > w
  /\ i = n => tot - (i - 1) * w <= w
  /\ (i - 1) * w = 0 <=> i = 1
  /\ i > 1 => (i - 1) * w = (i - 2) * w + w

(* Rounding up gives the number of slices.                                 *)
LEMMA SliceFacts ==
  ASSUME NEW w \in PayloadSizes, NEW tot \in Nat \ {0},
         NEW n, n = (tot + w - 1) \div w
  PROVE  n \in Nat \ {0} /\ \A i \in 1 .. n : SliceIs(w, tot, i, n)
<1>1. CASE w = 1424
      BY <1>1, SMTT(60) DEF SliceIs
<1>2. CASE w = 1426
      BY <1>2, SMTT(60) DEF SliceIs
<1>3. CASE w = 1428
      BY <1>3, SMTT(60) DEF SliceIs
<1>. QED
  BY <1>1, <1>2, <1>3 DEF PayloadSizes

RawPiece(w, tot, x, p, i, n) ==
  /\ p \in PacketType
  /\ p.seqNo = (x + i) % SeqNumbers
  /\ p.from = (i - 1) * w /\ p.from < tot
  /\ p.size = IF i < n THEN w ELSE tot - p.from
  /\ p.size <= w
  /\ p.data <= MTU
  /\ p.isLastOfSequence <=> i = n
  /\ p.from + p.size >= tot <=> i = n
  /\ p.from = 0 <=> i = 1

(* The loop of RTPPacket::get cuts a frame into these slices.              *)
LEMMA PacketsFacts ==
  ASSUME NEW format \in Formats, NEW tot \in Nat \ {0}, NEW x \in Int,
         NEW n, n = Number(format, tot), NEW cut, cut = Packets(format, tot, x)
  PROVE  /\ n \in Nat \ {0} /\ DOMAIN cut = 1 .. n
         /\ \A i \in 1 .. n : RawPiece(PayloadSize(format), tot, x, cut[i], i, n)
<1> DEFINE w == PayloadSize(format)
           Size(i) == IF tot - (i - 1) * w < w THEN tot - (i - 1) * w ELSE w
<1>1. /\ w \in PayloadSizes /\ w \in Nat \ {0} /\ SIZE + Extra(format) + w = MTU
      /\ SIZE + Extra(format) \in Nat /\ MTU \in Nat
      BY SizeFacts DEF PayloadSizes, MTU
<1>2. w = MTU - SIZE - Extra(format)
      BY DEF PayloadSize
<1>3. n = (tot + w - 1) \div w
      BY DEF Number
<1>4. cut = [i \in 1 .. n |->
               [seqNo |-> (x + i) % SeqNumbers, from |-> (i - 1) * w, size |-> Size(i),
                data |-> SIZE + Extra(format) + Size(i), marker |-> 0, note |-> 0,
                isLastOfSequence |-> i = n]]
      BY <1>2, <1>3 DEF Packets
<1> HIDE DEF w
<1>5. n \in Nat \ {0} /\ \A i \in 1 .. n : SliceIs(w, tot, i, n)
      BY <1>1, <1>3, SliceFacts, Zenon
<1>6. ASSUME NEW i \in 1 .. n PROVE RawPiece(w, tot, x, cut[i], i, n)
  <2> DEFINE from == (i - 1) * w
  <2>1. /\ from \in Nat /\ from < tot /\ (i < n => tot - from > w)
        /\ (i = n => tot - from <= w) /\ (from = 0 <=> i = 1)
        BY <1>5 DEF SliceIs
  <2>2. Size(i) = IF tot - from < w THEN tot - from ELSE w
        OBVIOUS
  <2>3. cut[i] = [seqNo |-> (x + i) % SeqNumbers, from |-> from, size |-> Size(i),
                  data |-> SIZE + Extra(format) + Size(i), marker |-> 0, note |-> 0,
                  isLastOfSequence |-> i = n]
        BY <1>4
  <2>4. i \in Nat /\ i <= n
        BY <1>5
  <2> HIDE DEF from, Size
  <2>5. /\ Size(i) \in Nat /\ Size(i) <= w /\ (i < n => Size(i) = w) /\ (i = n => Size(i) = tot - from)
        /\ from + Size(i) >= tot <=> i = n
        BY <1>1, <1>5, <2>1, <2>2, <2>4
  <2>6. SIZE + Extra(format) + Size(i) \in Nat /\ SIZE + Extra(format) + Size(i) <= MTU
        BY <1>1, <2>5
  <2>7. (x + i) % SeqNumbers \in Nat
        BY <2>4 DEF SeqNumbers
  <2>8. cut[i] \in PacketType
        BY <2>1, <2>3, <2>5, <2>6, <2>7 DEF PacketType, Notes
  <2>9. /\ cut[i].seqNo = (x + i) % SeqNumbers /\ cut[i].from = from /\ cut[i].size = Size(i)
        /\ cut[i].data = SIZE + Extra(format) + Size(i) /\ (cut[i].isLastOfSequence <=> i = n)
    <3>1. /\ cut[i].seqNo = (x + i) % SeqNumbers /\ cut[i].from = from /\ cut[i].size = Size(i)
          /\ cut[i].data = SIZE + Extra(format) + Size(i)
          BY <2>3
    <3> DEFINE last == i = n
    <3>2. cut[i] = [seqNo |-> (x + i) % SeqNumbers, from |-> from, size |-> Size(i),
                    data |-> SIZE + Extra(format) + Size(i), marker |-> 0, note |-> 0,
                    isLastOfSequence |-> last]
          BY <2>3
    <3> HIDE DEF last
    <3>3. cut[i].isLastOfSequence = last
          BY <3>2
    <3>. QED
      BY <3>1, <3>3 DEF last
  <2>10. i < n \/ i = n
         BY <1>5, <2>4
  <2>11. from = (i - 1) * w
         BY DEF from
  <2>. QED
    BY <2>1, <2>5, <2>6, <2>8, <2>9, <2>10, <2>11 DEF RawPiece
<1>7. DOMAIN cut = 1 .. n
      BY <1>4
<1>. QED
  BY <1>5, <1>6, <1>7 DEF w

Remarked(p, q, m, k) ==
  \/ q = [p EXCEPT !.marker = m, !.note = k]
  \/ q = [p EXCEPT !.marker = m] /\ k = p.note
  \/ q = [p EXCEPT !.note = k] /\ m = p.marker
  \/ q = p /\ m = p.marker /\ k = p.note

(* What marking a packet leaves alone.                                     *)
LEMMA RecordFacts ==
  ASSUME NEW p \in PacketType, NEW m \in {0, 1}, NEW k \in Notes, NEW q,
         Remarked(p, q, m, k)
  PROVE  /\ q \in PacketType /\ q.marker = m /\ q.note = k
         /\ q.seqNo = p.seqNo /\ q.from = p.from /\ q.size = p.size
         /\ q.data = p.data /\ q.isLastOfSequence = p.isLastOfSequence
BY DEF PacketType, Remarked

(* A piece with the marker and the extra bytes of its format.              *)
Marks(format, tot, p, m, k, i, n) ==
  /\ m \in {0, 1} /\ k \in Notes
  /\ format \in {"MP4", "AAC"} => m = IF i = n THEN 1 ELSE 0
  /\ format = "MP2" => k = p.from
  /\ format = "AAC" => k = p.size
  /\ format = "MP3" => k = NoteMP3(p.from, tot)

(* A slice that is marked as its format wants is a piece.                  *)
LEMMA MarkedPiece ==
  ASSUME NEW format, NEW tot, NEW x, NEW i, NEW n, NEW p, NEW q, NEW m, NEW k,
         RawPiece(PayloadSize(format), tot, x, p, i, n), Marks(format, tot, p, m, k, i, n),
         Remarked(p, q, m, k)
  PROVE  q \in PacketType /\ PieceIs(format, tot, x, q, i, n)
<1> DEFINE w == PayloadSize(format)
           from == (i - 1) * w
           same == /\ q.seqNo = p.seqNo /\ q.from = p.from /\ q.size = p.size
                   /\ q.data = p.data /\ q.isLastOfSequence = p.isLastOfSequence
<1>1. p \in PacketType /\ m \in {0, 1} /\ k \in Notes
      BY DEF RawPiece, Marks
<1>2. q \in PacketType /\ q.marker = m /\ q.note = k /\ same
  <2> HIDE DEF same
  <2>. QED
    BY <1>1, RecordFacts DEF same
<1>3. /\ p.seqNo = (x + i) % SeqNumbers /\ p.from = from
      /\ p.size = IF i < n THEN w ELSE tot - p.from
      /\ p.data <= MTU
      /\ p.isLastOfSequence <=> i = n
      BY DEF RawPiece
<1>4. /\ q.seqNo = (x + i) % SeqNumbers /\ q.from = from
      /\ q.size = IF i < n THEN w ELSE tot - q.from
      /\ q.data <= MTU
      /\ q.isLastOfSequence <=> i = n
  <2> HIDE DEF from, w
  <2>. QED
    BY <1>2, <1>3, Zenon
<1>5. /\ format \in {"MP4", "AAC"} => (q.marker = 1 <=> i = n)
      /\ format = "MP2" => q.note = q.from
      /\ format = "AAC" => q.note = q.size
      /\ format = "MP3" => q.note = NoteMP3(q.from, tot)
  <2>1. /\ format \in {"MP4", "AAC"} => m = IF i = n THEN 1 ELSE 0
        /\ format = "MP2" => k = p.from
        /\ format = "AAC" => k = p.size
        /\ format = "MP3" => k = NoteMP3(p.from, tot)
        BY Zenon DEF Marks
  <2> HIDE DEF from, w
  <2>. QED
    BY <1>2, <2>1
<1>. QED
  BY <1>2, <1>4, <1>5, Zenon DEF PieceIs

(* A function over 1 .. n is a sequence.                                   *)
LEMMA FunctionIsSequence ==
  ASSUME NEW n \in Nat, NEW S, NEW f, f = [i \in 1 .. n |-> f[i]], \A i \in 1 .. n : f[i] \in S
  PROVE  f \in Seq(S) /\ Len(f) = n
<1>1. f \in [1 .. n -> S]
      OBVIOUS
<1>. QED
  BY <1>1

(* Every format cuts a frame of any length it lets through into pieces     *)
(* that make it up (getPackets).                                           *)
LEMMA CutFacts ==
  ASSUME NEW format \in Formats, NEW tot \in Nat \ {0}, Fits(format, tot), NEW x \in Int,
         NEW n, n = Number(format, tot), NEW cut, cut = getPackets(format, tot, x)
  PROVE  /\ n \in Nat \ {0} /\ cut \in Seq(PacketType) /\ Len(cut) = n
         /\ \A i \in 1 .. n : PieceIs(format, tot, x, cut[i], i, n)
<1> DEFINE base == Packets(format, tot, x)
           w == PayloadSize(format)
<1>1. n \in Nat \ {0} /\ DOMAIN base = 1 .. n /\ \A i \in 1 .. n : RawPiece(w, tot, x, base[i], i, n)
      BY PacketsFacts, Zenon
<1>2. w \in PayloadSizes /\ n \in Nat
      BY <1>1, SizeFacts
<1>3. base = [i \in 1 .. n |-> base[i]]
      BY <1>1 DEF Packets, Number, PayloadSize
<1>4. /\ format = "Base" => cut = base
      /\ format = "MP4" => cut = [i \in 1 .. n |-> [base[i] EXCEPT !.marker = MarkLast(base[i], tot)]]
      /\ format = "MP2" => cut = [i \in 1 .. n |-> [base[i] EXCEPT !.marker = MarkFirstOfMany(base[i], tot),
                                                                    !.note = NoteMP2(base[i])]]
      /\ format = "AAC" => cut = [i \in 1 .. n |-> [base[i] EXCEPT !.marker = MarkLast(base[i], tot),
                                                                    !.note = NoteAAC(base[i])]]
      /\ format = "MP3" => cut = [i \in 1 .. n |-> [base[i] EXCEPT !.note = NoteMP3(base[i].from, tot)]]
  <2>1. /\ format = "Base" => cut = BasePackets(tot, x)
        /\ format = "MP4" => cut = MP4Packets(tot, x)
        /\ format = "MP2" => cut = MP2Packets(tot, x)
        /\ format = "AAC" => cut = AACPackets(tot, x)
        /\ format = "MP3" => cut = MP3Packets(tot, x)
        BY DEF getPackets
  <2> HIDE DEF base, w
  <2>2. /\ format = "Base" => BasePackets(tot, x) = base
        /\ format = "MP4" => Packets("MP4", tot, x) = base
        /\ format = "MP2" => Packets("MP2", tot, x) = base
        /\ format = "AAC" => Packets("AAC", tot, x) = base
        /\ format = "MP3" => Packets("MP3", tot, x) = base
        BY DEF base, BasePackets
  <2>3. DOMAIN base = 1 .. n
        BY <1>1
  <2>4. CASE format = "MP4"
        BY <2>1, <2>2, <2>3, <2>4, Zenon DEF MP4Packets
  <2>5. CASE format = "MP2"
        BY <2>1, <2>2, <2>3, <2>5, Zenon DEF MP2Packets
  <2>6. CASE format = "AAC"
        BY <2>1, <2>2, <2>3, <2>6, Zenon DEF AACPackets
  <2>7. CASE format = "MP3"
        BY <2>1, <2>2, <2>3, <2>7, Zenon DEF MP3Packets
  <2>. QED
    BY <2>1, <2>2, <2>4, <2>5, <2>6, <2>7, Zenon
<1> HIDE DEF base, w
<1>5. ASSUME NEW i \in 1 .. n
      PROVE  cut[i] \in PacketType /\ PieceIs(format, tot, x, cut[i], i, n)
  <2>0. RawPiece(w, tot, x, base[i], i, n) /\ i \in Nat \ {0}
        BY <1>1
  <2> DEFINE p == base[i]
  <2>1. /\ p \in PacketType /\ p.from < tot /\ p.size <= w
        /\ p.from + p.size >= tot <=> i = n
        /\ p.from = 0 <=> i = 1
        BY <2>0 DEF RawPiece
  <2> HIDE DEF p
  <2>2. /\ p.from \in Nat /\ p.size \in Nat /\ p.marker \in {0, 1}
        /\ p.note \in Notes
        BY <2>1 DEF PacketType
  <2>3. w \in {1424, 1426, 1428}
        BY <1>2 DEF PayloadSizes
  <2>4. SUFFICES \E m, k : Marks(format, tot, p, m, k, i, n) /\ Remarked(p, cut[i], m, k)
        BY <2>0, MarkedPiece, Zenon DEF p, w
  <2>5. CASE format = "Base"
    <3>1. cut[i] = p
          BY <1>4, <2>5 DEF p
    <3>2. Marks(format, tot, p, p.marker, p.note, i, n)
          BY <2>2, <2>5 DEF Marks
    <3>. QED
      BY <3>1, <3>2 DEF Remarked
  <2>6. CASE format = "MP4"
    <3> DEFINE m == MarkLast(p, tot)
    <3>1. cut[i] = [p EXCEPT !.marker = m]
          BY <1>4, <2>6, Zenon DEF p
    <3>2. m = IF i = n THEN 1 ELSE 0
          BY <2>1 DEF MarkLast
    <3> HIDE DEF m
    <3>3. Marks(format, tot, p, m, p.note, i, n)
          BY <2>2, <2>6, <3>2 DEF Marks
    <3>. QED
      BY <3>1, <3>3, Zenon DEF Remarked
  <2>7. CASE format = "MP2"
    <3> DEFINE m == MarkFirstOfMany(p, tot)
               k == NoteMP2(p)
    <3>1. cut[i] = [p EXCEPT !.marker = m, !.note = k]
          BY <1>4, <2>7, Zenon DEF p
    <3>2. m \in {0, 1}
          BY DEF MarkFirstOfMany
    <3>3. k = p.from /\ k \in Notes
          BY <2>1, <2>2, <2>7 DEF NoteMP2, Fits, Notes
    <3> HIDE DEF m, k
    <3>4. Marks(format, tot, p, m, k, i, n)
          BY <2>2, <2>7, <3>2, <3>3 DEF Marks
    <3>. QED
      BY <3>1, <3>4, Zenon DEF Remarked
  <2>8. CASE format = "AAC"
    <3> DEFINE m == MarkLast(p, tot)
               k == NoteAAC(p)
    <3>1. cut[i] = [p EXCEPT !.marker = m, !.note = k]
          BY <1>4, <2>8, Zenon DEF p
    <3>2. m = IF i = n THEN 1 ELSE 0
          BY <2>1 DEF MarkLast
    <3>3. k = p.size /\ k \in Notes
          BY <2>1, <2>2, <2>3 DEF NoteAAC, Notes
    <3> HIDE DEF m, k
    <3>4. Marks(format, tot, p, m, k, i, n)
          BY <2>2, <2>8, <3>2, <3>3 DEF Marks
    <3>. QED
      BY <3>1, <3>4, Zenon DEF Remarked
  <2>9. CASE format = "MP3"
    <3> DEFINE k == NoteMP3(p.from, tot)
    <3>1. cut[i] = [p EXCEPT !.note = k]
          BY <1>4, <2>9, Zenon DEF p
    <3>2. k \in Notes
          BY <2>2, NoteFacts DEF Notes
    <3> HIDE DEF k
    <3>3. Marks(format, tot, p, p.marker, k, i, n)
          BY <2>2, <2>9, <3>2 DEF Marks, k
    <3>. QED
      BY <3>1, <3>3, Zenon DEF Remarked
  <2>. QED
    BY <2>5, <2>6, <2>7, <2>8, <2>9 DEF Formats
<1>6. cut = [i \in 1 .. n |-> cut[i]]
  <2>1. CASE format = "Base"
        BY <1>3, <1>4, <2>1, Zenon
  <2>2. CASE format # "Base"
    <3>1. \E e : cut = [i \in 1 .. n |-> e[i]]
      <4>1. CASE format = "MP4"
        <5> DEFINE e == [i \in 1 .. n |-> [base[i] EXCEPT !.marker = MarkLast(base[i], tot)]]
        <5>1. e = [i \in 1 .. n |-> e[i]]
              OBVIOUS
        <5>2. cut = e
              BY <1>4, <4>1, Zenon
        <5> HIDE DEF e
        <5>. QED
          BY <5>1, <5>2, Zenon
      <4>2. CASE format = "MP2"
        <5> DEFINE e == [i \in 1 .. n |-> [base[i] EXCEPT !.marker = MarkFirstOfMany(base[i], tot),
                                                          !.note = NoteMP2(base[i])]]
        <5>1. e = [i \in 1 .. n |-> e[i]]
              OBVIOUS
        <5>2. cut = e
              BY <1>4, <4>2, Zenon
        <5> HIDE DEF e
        <5>. QED
          BY <5>1, <5>2, Zenon
      <4>3. CASE format = "AAC"
        <5> DEFINE e == [i \in 1 .. n |-> [base[i] EXCEPT !.marker = MarkLast(base[i], tot),
                                                          !.note = NoteAAC(base[i])]]
        <5>1. e = [i \in 1 .. n |-> e[i]]
              OBVIOUS
        <5>2. cut = e
              BY <1>4, <4>3, Zenon
        <5> HIDE DEF e
        <5>. QED
          BY <5>1, <5>2, Zenon
      <4>4. CASE format = "MP3"
        <5> DEFINE e == [i \in 1 .. n |-> [base[i] EXCEPT !.note = NoteMP3(base[i].from, tot)]]
        <5>1. e = [i \in 1 .. n |-> e[i]]
              OBVIOUS
        <5>2. cut = e
              BY <1>4, <4>4, Zenon
        <5> HIDE DEF e
        <5>. QED
          BY <5>1, <5>2, Zenon
      <4>. QED
        BY <2>2, <4>1, <4>2, <4>3, <4>4 DEF Formats
    <3>2. PICK e : cut = [i \in 1 .. n |-> e[i]]
          BY <3>1
    <3>3. \A i \in 1 .. n : cut[i] = e[i]
          BY <3>2
    <3>. QED
      BY <3>2, <3>3
  <2>. QED
    BY <2>1, <2>2
<1>7. cut \in Seq(PacketType) /\ Len(cut) = n
      BY <1>2, <1>5, <1>6, FunctionIsSequence
<1>. QED
  BY <1>1, <1>5, <1>7

(* Pieces 1 to n make up a frame.                                          *)
LEMMA PiecesMakeUp ==
  ASSUME NEW format \in Formats, NEW frame, frame.tot \in Nat \ {0}, NEW x,
         NEW n, n = Number(format, frame.tot),
         NEW ps, Len(ps) = n, DOMAIN ps = 1 .. n,
         \A i \in 1 .. n : PieceIs(format, frame.tot, x, ps[i].pkt, i, n)
  PROVE  Assembled(format, ps, frame)
<1> DEFINE w == PayloadSize(format)
           tot == frame.tot
<1>1. w \in PayloadSizes
      BY SizeFacts
<1>2. /\ n \in Nat \ {0}
      /\ \A i \in 1 .. n : (i - 1) * w \in Nat /\ ((i - 1) * w = 0 <=> i = 1) /\ (i > 1 => (i - 1) * w = (i - 2) * w + w)
  <2>1. n = (tot + w - 1) \div w /\ tot \in Nat \ {0}
        BY DEF Number
  <2> HIDE DEF w, tot
  <2>2. n \in Nat \ {0} /\ \A i \in 1 .. n : SliceIs(w, tot, i, n)
        BY <1>1, <2>1, SliceFacts, Zenon
  <2>. QED
    BY <2>2 DEF SliceIs
<1>3. ASSUME NEW i \in 1 .. n
      PROVE  /\ ps[i].pkt.from = (i - 1) * w
             /\ ps[i].pkt.size = IF i < n THEN w ELSE tot - ps[i].pkt.from
             /\ ps[i].pkt.data <= MTU
             /\ format \in {"MP4", "AAC"} => (ps[i].pkt.marker = 1 <=> i = n)
             /\ format = "MP2" => ps[i].pkt.note = ps[i].pkt.from
             /\ format = "AAC" => ps[i].pkt.note = ps[i].pkt.size
             /\ format = "MP3" => ps[i].pkt.note = NoteMP3(ps[i].pkt.from, tot)
      BY DEF PieceIs
<1> HIDE DEF w
<1>4. 1 \in 1 .. n /\ n \in 1 .. n
      BY <1>2
<1>5. ps # <<>> /\ ps[1].pkt.from = 0
  <2>1. ps[1].pkt.from = (1 - 1) * w
        BY <1>3, <1>4
  <2>2. w \in Int
        BY <1>1 DEF PayloadSizes
  <2>. QED
    BY <1>2, <2>1, <2>2
<1>6. ps[n].pkt.from + ps[n].pkt.size = tot
  <2>1. ps[n].pkt.from = (n - 1) * w /\ ps[n].pkt.size = tot - ps[n].pkt.from
        BY <1>2, <1>3, <1>4
  <2>2. (n - 1) * w \in Nat
        BY <1>2, <1>4
  <2>. QED
    BY <2>1, <2>2
<1>7. ASSUME NEW i \in 1 .. n, i > 1
      PROVE  ps[i].pkt.from = ps[i - 1].pkt.from + ps[i - 1].pkt.size
  <2>1. i - 1 \in 1 .. n /\ i - 1 < n /\ (i - 1) - 1 = i - 2
        BY <1>2, <1>7
  <2>2. ps[i - 1].pkt.from = ((i - 1) - 1) * w /\ ps[i - 1].pkt.size = w
        BY <1>3, <2>1
  <2>. QED
    BY <1>2, <1>3, <1>7, <2>1, <2>2
<1>8. ASSUME format = "MP3", NEW i \in 1 .. n
      PROVE  ps[i].pkt.note[1] = (i > 1) /\ ps[i].pkt.note[2] = tot % 16384
  <2> DEFINE from == ps[i].pkt.from
             note == ps[i].pkt.note
             b == i > 1
             c == from > 0
             r == tot % 16384
  <2>0. from \in Nat
        BY <1>2, <1>3
  <2>1. c = b
        BY <1>2, <1>3
  <2>2. note = NoteMP3(from, tot) /\ tot \in Nat
        BY <1>3, <1>8
  <2> HIDE DEF from, note, tot
  <2>3. NoteMP3(from, tot)[1] = c /\ NoteMP3(from, tot)[2] = r
        BY <2>0, <2>2, NoteFacts
  <2> HIDE DEF b, c, r
  <2>4. note[1] = b /\ note[2] = r
        BY <2>1, <2>2, <2>3
  <2>. QED
    BY <2>4 DEF b, r, note
<1>9. tot < 16384 => tot % 16384 = tot
      OBVIOUS
<1>. QED
  BY <1>3, <1>4, <1>5, <1>6, <1>7, <1>8, <1>9 DEF Assembled

-----------------------------------------------------------------------------
(* The packets that get out.                                               *)

OutType == [pkt : PacketType, frame : Nat, base : Nat, lost : Nat]

WaitingType == [pkt : PacketType, frame : Nat, base : Nat, rem : Int]

SameFrame(p, q) == p.frame = q.frame /\ p.base = q.base

(* The packet at a place since PLAY is the piece of its frame that it      *)
(* should be.                                                              *)
PieceOf(format, frames, first, p, place) ==
  LET tot == frames[p.frame].tot
      n == Number(format, tot)
      i == place - p.base + 1 IN
  /\ p.frame \in DOMAIN frames
  /\ p.base <= place /\ i <= n
  /\ PieceIs(format, tot, first - 1 + p.base, p.pkt, i, n)

CarryType ==
  /\ film \in Films /\ start \in 0 .. SeqNumbers - 1 /\ dropped \in Nat
  /\ got \in Seq(OutType) /\ pkts \in Seq(WaitingType)

SeqInv == seq = (start - 1 + Len(got) + dropped + Len(pkts)) % SeqNumbers

(* Each packet out follows those of its frame that come before it.         *)
OutInv ==
  \A i \in DOMAIN got :
    /\ got[i].lost <= dropped /\ (i > 1 => got[i - 1].lost <= got[i].lost)
    /\ PieceOf(film.format, Frames, start, got[i], Place(i))
    /\ \A m \in 1 .. Place(i) - got[i].base :
         m < i /\ SameFrame(got[i - m], got[i]) /\ got[i - m].lost = got[i].lost

(* So do those that wait.                                                  *)
WaitingInv ==
  /\ \A i \in DOMAIN pkts :
       /\ SameFrame(pkts[i], pkts[1])
       /\ PieceOf(film.format, Frames, start, pkts[i], Len(got) + dropped + i - 1)
  /\ pkts # <<>> =>
       \A m \in 1 .. Len(got) + dropped - pkts[1].base :
         /\ m <= Len(got) /\ SameFrame(got[Len(got) + 1 - m], pkts[1])
         /\ got[Len(got) + 1 - m].lost = dropped

CarryInv == CarryType /\ SeqInv /\ OutInv /\ WaitingInv

(* The frames of a track are none of them empty.                           *)
LEMMA FramesFacts ==
  ASSUME film \in Films
  PROVE  /\ film.format \in Formats
         /\ Len(Frames) \in Nat /\ DOMAIN Frames = 1 .. Len(Frames)
         /\ \A n \in DOMAIN Frames : Frames[n].tot \in Nat \ {0}
<1> DEFINE Raw == [tot : Nat \ {0}]
<1>1. film.format \in Formats /\ Frames \in Seq(Raw)
      BY FilmsAssumption DEF Frames
<1> HIDE DEF Raw
<1>2. /\ Len(Frames) \in Nat /\ DOMAIN Frames = 1 .. Len(Frames)
      /\ \A n \in DOMAIN Frames : Frames[n] \in Raw
      BY <1>1
<1>3. \A n \in DOMAIN Frames : Frames[n].tot \in Nat \ {0}
      BY <1>2 DEF Raw
<1>. QED
  BY <1>1, <1>2, <1>3

(* Numbers around the end of the 16 bits.                                  *)
LEMMA ModAdd ==
  ASSUME NEW a \in Int, NEW k \in Int
  PROVE  /\ ((a % SeqNumbers) + k) % SeqNumbers = (a + k) % SeqNumbers
         /\ a % SeqNumbers \in 0 .. SeqNumbers - 1
         /\ a \in 0 .. SeqNumbers - 1 => a % SeqNumbers = a
         /\ SeqNumbers \in Nat
<1>1. ((a % SeqNumbers) + k) % SeqNumbers = (a + k) % SeqNumbers
      BY SMTT(30) DEF SeqNumbers
<1>2. a % SeqNumbers \in 0 .. SeqNumbers - 1
      BY DEF SeqNumbers
<1>3. ASSUME a \in 0 .. SeqNumbers - 1 PROVE a % SeqNumbers = a
  <2>1. 0 <= a /\ a < 65536
        BY <1>3 DEF SeqNumbers
  <2>2. a % 65536 = a
        BY <2>1
  <2>. QED
    BY <2>2 DEF SeqNumbers
<1>4. SeqNumbers \in Nat
      BY DEF SeqNumbers
<1>. QED
  BY <1>1, <1>2, <1>3, <1>4

(* Pieces may be counted from the number before its reduction.             *)
LEMMA Renumbered ==
  ASSUME NEW format, NEW tot, NEW x \in Int, NEW y \in Int, NEW p, NEW i \in Int, NEW n,
         PieceIs(format, tot, x, p, i, n), x = y % SeqNumbers
  PROVE  PieceIs(format, tot, y, p, i, n)
<1>1. (x + i) % SeqNumbers = (y + i) % SeqNumbers
      BY ModAdd
<1>. QED
  BY <1>1 DEF PieceIs

(* Steps that leave the packets alone.                                     *)
LEMMA CarryUnchanged ==
  ASSUME CarryInv, UNCHANGED <<film, start, pkts, got, dropped, seq>>
  PROVE  CarryInv'
<1>1. Frames' = Frames
      BY DEF Frames
<1>2. \A i \in DOMAIN got : Place(i)' = Place(i)
      BY DEF Place
<1>3. CarryType' /\ SeqInv'
      BY DEF CarryInv, CarryType, SeqInv
<1>4. OutInv'
  <2>1. SUFFICES ASSUME NEW i \in DOMAIN got
                 PROVE  /\ got[i].lost <= dropped /\ (i > 1 => got[i - 1].lost <= got[i].lost)
                        /\ PieceOf(film.format, Frames, start, got[i], Place(i))
                        /\ \A m \in 1 .. Place(i) - got[i].base :
                             m < i /\ SameFrame(got[i - m], got[i]) /\ got[i - m].lost = got[i].lost
        BY <1>1, <1>2 DEF OutInv
  <2>. QED
    BY DEF CarryInv, OutInv
<1>5. WaitingInv'
      BY <1>1 DEF CarryInv, WaitingInv
<1>. QED
  BY <1>3, <1>4, <1>5 DEF CarryInv

(* Those that wait are given up, for good.                                 *)
LEMMA CarryGivenUp ==
  ASSUME CarryInv, GiveUp, UNCHANGED <<film, start, got, seq>>
  PROVE  CarryInv'
<1>1. /\ pkts' = <<>> /\ dropped' = dropped + Len(pkts) /\ Len(pkts) \in Nat /\ Len(got) \in Nat
      /\ dropped \in Nat /\ start \in Int
      BY DEF GiveUp, CarryInv, CarryType
<1>2. Frames' = Frames
      BY DEF Frames
<1>3. \A i \in DOMAIN got : Place(i)' = Place(i)
      BY DEF Place
<1>4. CarryType'
      BY <1>1 DEF CarryInv, CarryType
<1>5. SeqInv'
  <2>1. Len(pkts') = 0
        BY <1>1
  <2>2. start - 1 + Len(got) + dropped' + Len(pkts') = start - 1 + Len(got) + dropped + Len(pkts)
        BY <1>1, <2>1
  <2>. QED
    BY <2>2 DEF CarryInv, SeqInv
<1>6. OutInv'
  <2>1. SUFFICES ASSUME NEW i \in DOMAIN got
                 PROVE  /\ got[i].lost <= dropped' /\ (i > 1 => got[i - 1].lost <= got[i].lost)
                        /\ PieceOf(film.format, Frames, start, got[i], Place(i))
                        /\ \A m \in 1 .. Place(i) - got[i].base :
                             m < i /\ SameFrame(got[i - m], got[i]) /\ got[i - m].lost = got[i].lost
        BY <1>2, <1>3 DEF OutInv
  <2>2. got[i].lost \in Nat
    <3>1. got[i] \in OutType
          BY DEF CarryInv, CarryType
    <3>. QED
      BY <3>1 DEF OutType
  <2>. QED
    BY <1>1, <2>2 DEF CarryInv, OutInv
<1>7. WaitingInv'
  <2>1. DOMAIN pkts' = {}
        BY <1>1
  <2>. QED
    BY <1>1, <2>1 DEF WaitingInv
<1>. QED
  BY <1>4, <1>5, <1>6, <1>7 DEF CarryInv

(* PLAY names the number of the first packet.                              *)
LEMMA PlayCarries ==
  ASSUME CarryInv, Play
  PROVE  CarryInv'
<1>1. /\ pkts = <<>> /\ start' = (seq + 1) % SeqNumbers /\ got' = <<>> /\ dropped' = 0
      /\ UNCHANGED <<film, pkts, seq>>
      BY DEF Play, track
<1>2. seq \in 0 .. SeqNumbers - 1
  <2>1. start - 1 + Len(got) + dropped + Len(pkts) \in Int
        BY DEF CarryInv, CarryType
  <2>. QED
    BY <2>1, ModAdd DEF CarryInv, SeqInv
<1>3. start' \in 0 .. SeqNumbers - 1 /\ seq = (start' - 1) % SeqNumbers
  <2>1. seq + 1 \in Int /\ (seq + 1) + -1 = seq
        BY <1>2, ModAdd
  <2>2. start' \in 0 .. SeqNumbers - 1 /\ (start' + -1) % SeqNumbers = seq % SeqNumbers
        BY <1>1, <2>1, ModAdd
  <2>3. seq % SeqNumbers = seq
        BY <1>2, <2>1, ModAdd
  <2>4. start' + -1 = start' - 1
        BY <2>2, ModAdd
  <2>. QED
    BY <2>2, <2>3, <2>4
<1>4. got' \in Seq(OutType) /\ Len(got') = 0 /\ Len(pkts') = 0 /\ DOMAIN got' = {} /\ DOMAIN pkts' = {} /\ pkts' = <<>>
      BY <1>1
<1>5. CarryType'
      BY <1>1, <1>3, <1>4 DEF CarryInv, CarryType
<1>6. SeqInv'
  <2>1. start' - 1 + 0 + 0 + 0 = start' - 1
        BY <1>3
  <2>. QED
    BY <1>1, <1>3, <1>4, <2>1 DEF SeqInv
<1>. QED
  BY <1>4, <1>5, <1>6 DEF CarryInv, OutInv, WaitingInv

(* A frame is cut.                                                         *)
LEMMA FrameCarries ==
  ASSUME CarryInv, NextFrame
  PROVE  CarryInv'
<1> DEFINE tot == Frames[at].tot
           cut == getPackets(film.format, tot, seq)
           n == Number(film.format, tot)
           b == Len(got) + dropped
<1>1. /\ pkts = <<>> /\ at \in DOMAIN Frames /\ Fits(film.format, tot)
      /\ pkts' = [i \in DOMAIN cut |-> [pkt |-> cut[i], frame |-> at, base |-> b, rem |-> cut[i].data]]
      /\ seq' = (seq + Len(cut)) % SeqNumbers
      /\ UNCHANGED <<film, start, got, dropped>>
      BY DEF NextFrame, track
<1>2. /\ film \in Films /\ start \in Int /\ dropped \in Nat /\ Len(got) \in Nat /\ b \in Nat
      /\ seq = (start - 1 + b) % SeqNumbers
  <2>1. /\ film \in Films /\ start \in 0 .. SeqNumbers - 1 /\ dropped \in Nat /\ Len(got) \in Nat
        BY DEF CarryInv, CarryType
  <2>2. start \in Int /\ Len(pkts) = 0
        BY <1>1, <2>1, ModAdd
  <2>3. start - 1 + Len(got) + dropped + Len(pkts) = start - 1 + b
        BY <2>1, <2>2
  <2>. QED
    BY <2>1, <2>2, <2>3 DEF CarryInv, SeqInv
<1>3. /\ film.format \in Formats /\ tot \in Nat \ {0} /\ at \in Nat
      BY <1>1, <1>2, FramesFacts
<1>4. seq \in Nat /\ start - 1 + b \in Int
  <2>1. start - 1 + b \in Int
        BY <1>2
  <2>. QED
    BY <1>2, <2>1, ModAdd
<1> HIDE DEF tot, b
<1>5. /\ n \in Nat \ {0} /\ cut \in Seq(PacketType) /\ Len(cut) = n
      /\ \A i \in 1 .. n : PieceIs(film.format, tot, seq, cut[i], i, n)
      BY <1>1, <1>3, <1>4, CutFacts
<1> HIDE DEF cut, n
<1>6. /\ pkts' = [i \in 1 .. n |-> pkts'[i]]
      /\ \A i \in 1 .. n : pkts'[i] = [pkt |-> cut[i], frame |-> at, base |-> b, rem |-> cut[i].data]
      BY <1>1, <1>5
<1>7. \A i \in 1 .. n : pkts'[i] \in WaitingType
  <2>1. \A i \in 1 .. n : cut[i] \in PacketType
        BY <1>5
  <2>2. \A i \in 1 .. n : cut[i].data \in Int
        BY <2>1 DEF PacketType
  <2>. QED
    BY <1>2, <1>3, <1>6, <2>1, <2>2 DEF WaitingType
<1>8. pkts' \in Seq(WaitingType) /\ Len(pkts') = n /\ DOMAIN pkts' = 1 .. n
  <2>1. pkts' \in Seq(WaitingType) /\ Len(pkts') = n
        BY <1>5, <1>6, <1>7, FunctionIsSequence
  <2>. QED
    BY <2>1
<1>9. Frames' = Frames /\ \A i \in DOMAIN got : Place(i)' = Place(i)
      BY <1>1 DEF Frames, Place
<1>10. CarryType'
       BY <1>1, <1>8 DEF CarryInv, CarryType
<1>11. SeqInv'
  <2>1. seq' = (start - 1 + b + n) % SeqNumbers
        BY <1>1, <1>2, <1>4, <1>5, ModAdd
  <2>2. start - 1 + Len(got) + dropped + n = start - 1 + b + n
        BY <1>2, <1>5 DEF b
  <2>. QED
    BY <1>1, <1>8, <2>1, <2>2 DEF SeqInv
<1>12. OutInv'
  <2>1. SUFFICES ASSUME NEW i \in DOMAIN got
                 PROVE  /\ got[i].lost <= dropped /\ (i > 1 => got[i - 1].lost <= got[i].lost)
                        /\ PieceOf(film.format, Frames, start, got[i], Place(i))
                        /\ \A m \in 1 .. Place(i) - got[i].base :
                             m < i /\ SameFrame(got[i - m], got[i]) /\ got[i - m].lost = got[i].lost
        BY <1>1, <1>9 DEF OutInv
  <2>. QED
    BY DEF CarryInv, OutInv
<1>13. WaitingInv'
  <2>1. ASSUME NEW i \in 1 .. n
        PROVE  /\ SameFrame(pkts'[i], pkts'[1])
               /\ PieceOf(film.format, Frames, start, pkts'[i], b + i - 1)
    <3>1. 1 \in 1 .. n /\ i \in Nat /\ i <= n
          BY <1>5
    <3>2. pkts'[i].frame = at /\ pkts'[i].base = b /\ pkts'[i].pkt = cut[i]
          BY <1>6
    <3>3. SameFrame(pkts'[i], pkts'[1])
          BY <1>6, <3>1 DEF SameFrame
    <3>4. PieceIs(film.format, tot, start - 1 + b, cut[i], i, n)
          BY <1>2, <1>4, <1>5, <3>1, Renumbered
    <3>5. (b + i - 1) - b + 1 = i /\ b <= b + i - 1
          BY <1>2, <3>1
    <3>. QED
      BY <1>1, <3>1, <3>2, <3>3, <3>4, <3>5 DEF PieceOf, tot, n
  <2>2. b - pkts'[1].base = 0
    <3>1. pkts'[1].base = b
          BY <1>5, <1>6
    <3>. QED
      BY <1>2, <3>1
  <2>3. \A i \in DOMAIN pkts' :
          /\ SameFrame(pkts'[i], pkts'[1])
          /\ PieceOf(film'.format, Frames', start', pkts'[i], Len(got') + dropped' + i - 1)
    <3>1. Len(got') + dropped' = b
          BY <1>1 DEF b
    <3>. QED
      BY <1>1, <1>8, <1>9, <2>1, <3>1
  <2>4. 1 .. Len(got') + dropped' - pkts'[1].base = {}
    <3>1. Len(got') + dropped' = b
          BY <1>1 DEF b
    <3>2. pkts'[1].base = b
          BY <1>5, <1>6
    <3>3. Len(got') \in Int /\ dropped' \in Int /\ pkts'[1].base \in Int
          BY <1>1, <1>2, <3>2
    <3>4. Len(got') + dropped' - pkts'[1].base = 0
          BY <3>1, <3>2, <3>3
    <3>. QED
      BY <3>4
  <2>. QED
    BY <2>3, <2>4 DEF WaitingInv
<1>. QED
  BY <1>10, <1>11, <1>12, <1>13 DEF CarryInv

(* A piece is known by its packet, its frame and where that begins.        *)
LEMMA SamePiece ==
  ASSUME NEW format, NEW frames, NEW first, NEW p, NEW q, NEW place,
         PieceOf(format, frames, first, p, place),
         q.pkt = p.pkt, q.frame = p.frame, q.base = p.base
  PROVE  PieceOf(format, frames, first, q, place)
BY DEF PieceOf

(* A packet is written in part: what is left of it is one that waits.      *)
LEMMA CutCarries ==
  ASSUME CarryInv, PacketCut
  PROVE  CarryInv'
<1>1. PICK k \in Shorts : pkts' = [pkts EXCEPT ![1].rem = @ - (k - 4)]
      BY DEF PacketCut
<1>2. pkts # <<>> /\ UNCHANGED <<film, start, got, dropped, seq>>
      BY DEF PacketCut, MayWrite, track
<1>3. /\ pkts \in Seq(WaitingType) /\ k \in Nat /\ Len(pkts) \in Nat
      /\ DOMAIN pkts = 1 .. Len(pkts) /\ 1 \in DOMAIN pkts
      BY <1>2, ShortsAssumption DEF CarryInv, CarryType
<1> DEFINE r == pkts[1].rem - (k - 4)
           p == [pkts[1] EXCEPT !.rem = r]
<1>4. pkts' = [pkts EXCEPT ![1] = p]
      BY <1>1, <1>3
<1>5. p \in WaitingType /\ p.pkt = pkts[1].pkt /\ p.frame = pkts[1].frame /\ p.base = pkts[1].base
  <2>1. pkts[1] \in WaitingType
        BY <1>3
  <2>2. r \in Int
        BY <1>3, <2>1 DEF WaitingType
  <2> HIDE DEF r
  <2>. QED
    BY <2>1, <2>2 DEF WaitingType
<1> HIDE DEF p
<1>6. pkts' \in Seq(WaitingType) /\ Len(pkts') = Len(pkts) /\ DOMAIN pkts' = DOMAIN pkts
      BY <1>3, <1>4, <1>5
<1>7. \A i \in DOMAIN pkts :
        pkts'[i].pkt = pkts[i].pkt /\ pkts'[i].frame = pkts[i].frame /\ pkts'[i].base = pkts[i].base
      BY <1>3, <1>4, <1>5
<1>8. Frames' = Frames /\ \A i \in DOMAIN got : Place(i)' = Place(i)
      BY <1>2 DEF Frames, Place
<1>9. CarryType' /\ SeqInv'
      BY <1>2, <1>6 DEF CarryInv, CarryType, SeqInv
<1>10. OutInv'
  <2>1. SUFFICES ASSUME NEW i \in DOMAIN got
                 PROVE  /\ got[i].lost <= dropped /\ (i > 1 => got[i - 1].lost <= got[i].lost)
                        /\ PieceOf(film.format, Frames, start, got[i], Place(i))
                        /\ \A m \in 1 .. Place(i) - got[i].base :
                             m < i /\ SameFrame(got[i - m], got[i]) /\ got[i - m].lost = got[i].lost
        BY <1>2, <1>8 DEF OutInv
  <2>. QED
    BY DEF CarryInv, OutInv
<1>11. WaitingInv'
  <2>1. ASSUME NEW i \in DOMAIN pkts
        PROVE  /\ SameFrame(pkts'[i], pkts'[1])
               /\ PieceOf(film.format, Frames, start, pkts'[i], Len(got) + dropped + i - 1)
    <3>1. /\ SameFrame(pkts[i], pkts[1])
          /\ PieceOf(film.format, Frames, start, pkts[i], Len(got) + dropped + i - 1)
          BY DEF CarryInv, WaitingInv
    <3>2. SameFrame(pkts'[i], pkts'[1])
          BY <1>3, <1>7, <3>1 DEF SameFrame
    <3>3. PieceOf(film.format, Frames, start, pkts'[i], Len(got) + dropped + i - 1)
          BY <1>7, <3>1, SamePiece
    <3>. QED
      BY <3>2, <3>3
  <2>2. pkts'[1].base = pkts[1].base /\ pkts'[1].frame = pkts[1].frame
        BY <1>3, <1>7
  <2>3. \A m \in 1 .. Len(got) + dropped - pkts[1].base :
          /\ m <= Len(got) /\ SameFrame(got[Len(got) + 1 - m], pkts[1])
          /\ got[Len(got) + 1 - m].lost = dropped
        BY <1>2 DEF CarryInv, WaitingInv
  <2>4. \A m \in 1 .. Len(got) + dropped - pkts'[1].base :
          /\ m <= Len(got) /\ SameFrame(got[Len(got) + 1 - m], pkts'[1])
          /\ got[Len(got) + 1 - m].lost = dropped
        BY <2>2, <2>3 DEF SameFrame
  <2>. QED
    BY <1>2, <1>6, <1>8, <2>1, <2>4 DEF WaitingInv
<1>. QED
  BY <1>9, <1>10, <1>11 DEF CarryInv

(* A packet gets out.                                                      *)
LEMMA SentCarries ==
  ASSUME CarryInv, PacketSent
  PROVE  CarryInv'
<1> DEFINE N == Len(got)
           q == [pkt |-> Head(pkts).pkt, frame |-> Head(pkts).frame, base |-> Head(pkts).base,
                 lost |-> dropped]
<1>1. /\ pkts # <<>> /\ pkts' = Tail(pkts) /\ got' = Append(got, q)
      /\ UNCHANGED <<film, start, dropped, seq>>
      BY DEF PacketSent, MayWrite, track
<1>2. /\ pkts \in Seq(WaitingType) /\ got \in Seq(OutType) /\ dropped \in Nat /\ N \in Nat
      /\ Len(pkts) \in Nat \ {0} /\ DOMAIN pkts = 1 .. Len(pkts) /\ DOMAIN got = 1 .. N
      /\ Head(pkts) = pkts[1] /\ 1 \in DOMAIN pkts /\ start \in 0 .. SeqNumbers - 1
      BY <1>1 DEF CarryInv, CarryType
<1>3. /\ q.pkt = pkts[1].pkt /\ q.frame = pkts[1].frame /\ q.base = pkts[1].base /\ q.lost = dropped
      /\ q \in OutType
  <2>1. pkts[1] \in WaitingType
        BY <1>2
  <2>. QED
    BY <1>2, <2>1 DEF WaitingType, OutType
<1> HIDE DEF q
<1>4. /\ got' \in Seq(OutType) /\ Len(got') = N + 1 /\ DOMAIN got' = 1 .. N + 1
      /\ got'[N + 1] = q /\ \A i \in 1 .. N : got'[i] = got[i]
      BY <1>1, <1>2, <1>3
<1>5. /\ pkts' \in Seq(WaitingType) /\ Len(pkts') = Len(pkts) - 1 /\ DOMAIN pkts' = 1 .. Len(pkts) - 1
      /\ \A i \in 1 .. Len(pkts) - 1 : pkts'[i] = pkts[i + 1]
      BY <1>1, <1>2
<1>6. Frames' = Frames
      BY <1>1 DEF Frames
<1>7. \A i \in 1 .. N : Place(i)' = Place(i)
      BY <1>4 DEF Place
<1>8. ASSUME NEW i \in 1 .. N + 1, i = N + 1
      PROVE  Place(i)' = N + dropped
  <2>1. Place(i)' = i - 1 + got'[i].lost
        BY DEF Place
  <2>2. got'[i].lost = dropped /\ i - 1 = N
        BY <1>2, <1>3, <1>4, <1>8
  <2>. QED
    BY <2>1, <2>2
<1>9. CarryType'
      BY <1>1, <1>4, <1>5 DEF CarryInv, CarryType
<1>10. SeqInv'
  <2>1. start \in Int
        BY <1>2, ModAdd
  <2>2. start - 1 + Len(got') + dropped + Len(pkts') = start - 1 + N + dropped + Len(pkts)
        BY <1>2, <1>4, <1>5, <2>1
  <2>. QED
    BY <1>1, <2>2 DEF CarryInv, SeqInv
<1>11. /\ PieceOf(film.format, Frames, start, pkts[1], N + dropped)
       /\ \A m \in 1 .. N + dropped - pkts[1].base :
            /\ m <= N /\ SameFrame(got[N + 1 - m], pkts[1]) /\ got[N + 1 - m].lost = dropped
  <2>1. PieceOf(film.format, Frames, start, pkts[1], N + dropped + 1 - 1)
        BY <1>2 DEF CarryInv, WaitingInv
  <2>2. N + dropped + 1 - 1 = N + dropped
        BY <1>2
  <2>. QED
    BY <1>1, <2>1, <2>2 DEF CarryInv, WaitingInv
<1>12. \A i \in 1 .. N : got[i].lost \in Nat /\ got[i].lost <= dropped
  <2>1. \A i \in 1 .. N : got[i] \in OutType
        BY <1>2
  <2>. QED
    BY <1>2, <2>1 DEF CarryInv, OutInv, OutType
<1>13. OutInv'
  <2>1. ASSUME NEW i \in 1 .. N + 1
        PROVE  /\ got'[i].lost <= dropped /\ (i > 1 => got'[i - 1].lost <= got'[i].lost)
               /\ PieceOf(film.format, Frames, start, got'[i], Place(i)')
               /\ \A m \in 1 .. Place(i)' - got'[i].base :
                    m < i /\ SameFrame(got'[i - m], got'[i]) /\ got'[i - m].lost = got'[i].lost
    <3>1. CASE i \in 1 .. N
      <4>1. /\ got[i].lost <= dropped /\ (i > 1 => got[i - 1].lost <= got[i].lost)
            /\ PieceOf(film.format, Frames, start, got[i], Place(i))
            /\ \A m \in 1 .. Place(i) - got[i].base :
                 m < i /\ SameFrame(got[i - m], got[i]) /\ got[i - m].lost = got[i].lost
            BY <1>2, <3>1 DEF CarryInv, OutInv
      <4>2. got'[i] = got[i] /\ Place(i)' = Place(i) /\ (i > 1 => got'[i - 1] = got[i - 1])
            BY <1>4, <1>7, <3>1
      <4>3. \A m \in 1 .. Place(i) - got[i].base : m < i => got'[i - m] = got[i - m]
            BY <1>4, <3>1
      <4>. QED
        BY <4>1, <4>2, <4>3
    <3>2. CASE i = N + 1
      <4>1. got'[i] = q /\ Place(i)' = N + dropped
            BY <1>4, <1>8, <3>2
      <4>2. PieceOf(film.format, Frames, start, q, N + dropped)
            BY <1>3, <1>11, SamePiece
      <4>3. i > 1 => got'[i - 1].lost <= q.lost
        <5>1. i > 1 => i - 1 \in 1 .. N /\ got'[i - 1] = got[i - 1]
              BY <1>2, <1>4, <3>2
        <5>. QED
          BY <1>3, <1>12, <5>1
      <4>4. ASSUME NEW m \in 1 .. N + dropped - q.base
            PROVE  m < i /\ SameFrame(got'[i - m], q) /\ got'[i - m].lost = q.lost
        <5>1. m <= N /\ SameFrame(got[N + 1 - m], pkts[1]) /\ got[N + 1 - m].lost = dropped
              BY <1>3, <1>11
        <5>2. i - m \in 1 .. N /\ m < i
              BY <1>2, <3>2, <5>1
        <5>3. got'[i - m] = got[N + 1 - m]
              BY <1>4, <3>2, <5>2
        <5>. QED
          BY <1>3, <5>1, <5>2, <5>3 DEF SameFrame
      <4>5. \A m \in 1 .. N + dropped - q.base :
              m < i /\ SameFrame(got'[i - m], q) /\ got'[i - m].lost = q.lost
            BY <4>4
      <4>6. got'[i].lost <= dropped /\ (i > 1 => got'[i - 1].lost <= got'[i].lost)
            BY <1>2, <1>3, <4>1, <4>3
      <4>7. PieceOf(film.format, Frames, start, got'[i], Place(i)')
            BY <4>1, <4>2
      <4>8. ASSUME NEW m \in 1 .. Place(i)' - got'[i].base
            PROVE  m < i /\ SameFrame(got'[i - m], got'[i]) /\ got'[i - m].lost = got'[i].lost
        <5>1. q.base \in Int
              BY <1>3 DEF OutType
        <5>2. m \in 1 .. N + dropped - q.base
              BY <1>2, <4>1, <5>1
        <5>. QED
          BY <4>1, <4>5, <5>2
      <4>. QED
        BY <4>6, <4>7, <4>8
    <3>. QED
      BY <1>2, <3>1, <3>2
  <2>. QED
    BY <1>1, <1>4, <1>6, <2>1 DEF OutInv
<1>14. WaitingInv'
  <2>1. ASSUME NEW i \in 1 .. Len(pkts) - 1
        PROVE  /\ SameFrame(pkts'[i], pkts'[1])
               /\ PieceOf(film.format, Frames, start, pkts'[i], Len(got') + dropped + i - 1)
    <3>1. i + 1 \in DOMAIN pkts /\ 2 \in DOMAIN pkts /\ 1 \in 1 .. Len(pkts) - 1
          BY <1>2
    <3>2. /\ SameFrame(pkts[i + 1], pkts[1]) /\ SameFrame(pkts[2], pkts[1])
          /\ PieceOf(film.format, Frames, start, pkts[i + 1], N + dropped + (i + 1) - 1)
          BY <3>1 DEF CarryInv, WaitingInv
    <3>3. pkts'[i] = pkts[i + 1] /\ pkts'[1] = pkts[2]
          BY <1>5, <3>1
    <3>4. N + dropped + (i + 1) - 1 = Len(got') + dropped + i - 1
          BY <1>2, <1>4
    <3>. QED
      BY <3>2, <3>3, <3>4 DEF SameFrame
  <2>2. ASSUME pkts' # <<>>, NEW m \in 1 .. Len(got') + dropped - pkts'[1].base
        PROVE  /\ m <= Len(got') /\ SameFrame(got'[Len(got') + 1 - m], pkts'[1])
               /\ got'[Len(got') + 1 - m].lost = dropped
    <3>1. 2 \in DOMAIN pkts /\ pkts'[1] = pkts[2]
          BY <1>2, <1>5, <2>2
    <3>2. SameFrame(pkts[2], pkts[1])
          BY <3>1 DEF CarryInv, WaitingInv
    <3>3. pkts[1].base \in Nat /\ pkts'[1].base = pkts[1].base /\ pkts'[1].frame = pkts[1].frame
      <4>1. pkts[1] \in WaitingType
            BY <1>2
      <4>. QED
        BY <3>1, <3>2, <4>1 DEF SameFrame, WaitingType
    <3>4. m \in 1 .. N + 1 + dropped - pkts[1].base
          BY <1>4, <3>3
    <3>5. CASE m = 1
      <4>1. Len(got') + 1 - m = N + 1
            BY <1>2, <1>4, <3>5
      <4>. QED
        BY <1>2, <1>3, <1>4, <3>3, <3>5, <4>1 DEF SameFrame
    <3>6. CASE m # 1
      <4>1. m - 1 \in 1 .. N + dropped - pkts[1].base
            BY <1>2, <3>3, <3>4, <3>6
      <4>2. /\ m - 1 <= N /\ SameFrame(got[N + 1 - (m - 1)], pkts[1]) /\ got[N + 1 - (m - 1)].lost = dropped
            BY <1>11, <4>1
      <4>3. /\ Len(got') + 1 - m = N + 1 - (m - 1) /\ N + 1 - (m - 1) \in 1 .. N /\ m <= Len(got')
            BY <1>2, <1>4, <4>1, <4>2
      <4>. QED
        BY <1>4, <3>3, <4>2, <4>3 DEF SameFrame
    <3>. QED
      BY <3>5, <3>6
  <2>. QED
    BY <1>1, <1>5, <1>6, <2>1, <2>2 DEF WaitingInv
<1>. QED
  BY <1>9, <1>10, <1>13, <1>14 DEF CarryInv

(* At first nothing is out, and nothing waits.                             *)
LEMMA InitCarry == Init => CarryInv
<1> SUFFICES ASSUME Init PROVE CarryInv
    OBVIOUS
<1>1. /\ film \in Films /\ start \in FirstSeqs /\ seq = start - 1
      /\ got = <<>> /\ pkts = <<>> /\ dropped = 0
      BY DEF Init
<1>2. SeqNumbers \in Nat /\ start \in Int /\ 0 < start /\ start <= SeqNumbers - 2
  <2>1. start \in 1 .. SeqNumbers - 2
        BY <1>1, SeqAssumption
  <2>2. SeqNumbers \in Nat
        BY DEF SeqNumbers
  <2>. QED
    BY <2>1, <2>2
<1>3. Len(got) = 0 /\ Len(pkts) = 0 /\ DOMAIN got = {} /\ DOMAIN pkts = {}
      BY <1>1
<1>4. CarryType
  <2>1. got \in Seq(OutType) /\ pkts \in Seq(WaitingType)
        BY <1>1
  <2>2. start \in 0 .. SeqNumbers - 1
        BY <1>2
  <2>. QED
    BY <1>1, <2>1, <2>2 DEF CarryType
<1>5. SeqInv
  <2>1. start - 1 \in 0 .. SeqNumbers - 1 /\ start - 1 + 0 + 0 + 0 = start - 1
        BY <1>2
  <2>2. (start - 1) % SeqNumbers = start - 1
        BY <1>2, <2>1, ModAdd
  <2>. QED
    BY <1>1, <1>3, <2>1, <2>2 DEF SeqInv
<1>. QED
  BY <1>1, <1>3, <1>4, <1>5 DEF CarryInv, OutInv, WaitingInv

(* No step breaks the invariant.                                           *)
LEMMA NextCarries == CarryInv /\ [Next]_vars => CarryInv'
<1> SUFFICES ASSUME CarryInv, [Next]_vars PROVE CarryInv'
    OBVIOUS
<1> USE DEF track, sending
<1>1. CASE SendNextFrame
  <2>1. CASE FrameRefused
        BY <2>1, CarryUnchanged DEF FrameRefused
  <2>2. CASE Eof \/ PacketLost \/ PacketFails
        BY <2>2, CarryGivenUp DEF Eof, PacketLost, PacketFails, SelfPause
  <2>. QED
    BY <1>1, <2>1, <2>2, FrameCarries, SentCarries, CutCarries DEF SendNextFrame
<1>2. CASE Serve
  <2>1. CASE ~Play
        BY <1>2, <2>1, CarryUnchanged
        DEF Serve, Unpause, Pause, Teardown, Close, Reply, ReplySome, ReplyBlocked
  <2>. QED
    BY <2>1, PlayCarries
<1>3. CASE (\E bye \in BOOLEAN : SendReport(bye)) \/ ClientReports \/ Receive
      BY <1>3, CarryUnchanged DEF SendReport, ClientReports, Receive
<1>4. CASE UNCHANGED vars
      BY <1>4, CarryUnchanged DEF vars
<1>. QED
  BY <1>1, <1>2, <1>3, <1>4 DEF Next

(* What is out of a frame whose last packet is out.                        *)
LEMMA WholeFrames ==
  ASSUME CarryInv
  PROVE  MadeUp
<1> SUFFICES ASSUME NEW i \in DOMAIN got, got[i].pkt.isLastOfSequence
             PROVE  \E j \in 1 .. i :
                      /\ Place(j) = got[i].base /\ got[j].lost = got[i].lost
                      /\ Assembled(film.format, SubSeq(got, j, i), Frames[got[i].frame])
    BY DEF MadeUp
<1> DEFINE fr == Frames[got[i].frame]
           n == Number(film.format, fr.tot)
           first == got[i].base
           back == Place(i) - first
           x == start - 1 + first
<1>1. /\ got \in Seq(OutType) /\ i \in 1 .. Len(got) /\ Len(got) \in Nat /\ film \in Films
      BY DEF CarryInv, CarryType
<1>2. /\ PieceOf(film.format, Frames, start, got[i], Place(i))
      /\ \A m \in 1 .. back : m < i /\ SameFrame(got[i - m], got[i]) /\ got[i - m].lost = got[i].lost
      BY DEF CarryInv, OutInv
<1>3. \A k \in 1 .. Len(got) : got[k].base \in Nat /\ got[k].lost \in Nat /\ got[k].frame \in Nat
  <2>1. \A k \in 1 .. Len(got) : got[k] \in OutType
        BY <1>1
  <2>. QED
    BY <2>1 DEF OutType
<1>4. Place(i) = i - 1 + got[i].lost /\ Place(i) \in Nat /\ first \in Nat
      BY <1>1, <1>3 DEF Place
<1>5. got[i].frame \in DOMAIN Frames /\ first <= Place(i) /\ back + 1 <= n
      /\ PieceIs(film.format, fr.tot, x, got[i].pkt, back + 1, n)
      BY <1>2 DEF PieceOf
<1>6. n = back + 1 /\ back \in Nat
      BY <1>4, <1>5 DEF PieceIs
<1>7. back < i
  <2>1. CASE back = 0
        BY <1>1, <2>1
  <2>2. CASE back # 0
    <3>1. back \in 1 .. back
          BY <1>6, <2>2
    <3>. QED
      BY <1>2, <3>1
  <2>. QED
    BY <2>1, <2>2
<1> DEFINE j == i - back
           ps == SubSeq(got, j, i)
<1>8. j \in 1 .. i /\ got[j].lost = got[i].lost /\ Place(j) = first
  <2>1. j \in 1 .. i
        BY <1>1, <1>6, <1>7
  <2>2. got[j].lost = got[i].lost
    <3>1. CASE back = 0
          BY <1>1, <3>1
    <3>2. CASE back # 0
      <4>1. back \in 1 .. back
            BY <1>6, <3>2
      <4>. QED
        BY <1>2, <4>1
    <3>. QED
      BY <3>1, <3>2
  <2>3. Place(j) = j - 1 + got[i].lost
        BY <2>2 DEF Place
  <2>4. got[i].lost \in Nat /\ i \in Int
        BY <1>1, <1>3
  <2>5. j - 1 + got[i].lost = first
        BY <1>4, <1>6, <2>4
  <2>. QED
    BY <2>1, <2>2, <2>3, <2>5
<1> HIDE DEF back, n, fr, first, x
<1>9. Len(ps) = n /\ DOMAIN ps = 1 .. n /\ \A m \in 1 .. n : ps[m] = got[j + m - 1]
  <2>1. ps \in Seq(OutType) /\ Len(ps) = i - j + 1 /\ \A m \in 1 .. i - j + 1 : ps[m] = got[j + m - 1]
        BY <1>1, <1>8
  <2>2. i - j + 1 = n
        BY <1>1, <1>6
  <2>. QED
    BY <2>1, <2>2
<1>10. ASSUME NEW m \in 1 .. n PROVE PieceIs(film.format, fr.tot, x, ps[m].pkt, m, n)
  <2> DEFINE k == j + m - 1
  <2>1. k \in DOMAIN got /\ k = i - (n - m) /\ n - m \in Nat
        BY <1>1, <1>6, <1>8
  <2>2. got[k].base = first /\ got[k].frame = got[i].frame /\ got[k].lost = got[i].lost
    <3>1. CASE m = n
          BY <1>1, <2>1, <3>1 DEF first
    <3>2. CASE m # n
      <4>1. n - m \in 1 .. back
            BY <1>6, <2>1, <3>2
      <4>. QED
        BY <1>2, <2>1, <4>1 DEF SameFrame, back, first
    <3>. QED
      BY <3>1, <3>2
  <2>3. PieceOf(film.format, Frames, start, got[k], Place(k))
        BY <2>1 DEF CarryInv, OutInv
  <2>4. Place(k) - first + 1 = m
    <3>1. Place(k) = k - 1 + got[i].lost
          BY <2>2 DEF Place
    <3>2. Place(i) - first = back /\ Place(i) = i - 1 + got[i].lost /\ got[i].lost \in Nat
          BY <1>1, <1>3, <1>4 DEF back
    <3>3. i \in Int /\ n \in Int /\ back \in Int /\ first \in Int /\ m \in Int /\ k \in Int /\ k = i - (n - m) /\ n = back + 1
          BY <1>1, <1>4, <1>6, <2>1
    <3>4. \A a, b, c, d, e, f, l \in Int :
            (a - 1 + l) - d = c /\ e = a - (f - b) /\ f = c + 1 => (e - 1 + l) - d + 1 = b
          OBVIOUS
    <3>5. (i - 1 + got[i].lost) - first = back /\ got[i].lost \in Int
          BY <3>2
    <3> HIDE DEF k
    <3>6. (k - 1 + got[i].lost) - first + 1 = m
          BY <3>3, <3>4, <3>5
    <3>. QED
      BY <3>1, <3>6
  <2>5. PieceIs(film.format, fr.tot, start - 1 + got[k].base, got[k].pkt, Place(k) - got[k].base + 1, n)
        BY <2>2, <2>3 DEF PieceOf, fr, n
  <2>6. ps[m] = got[k]
        BY <1>9
  <2> HIDE DEF k, ps
  <2>. QED
    BY <2>2, <2>4, <2>5, <2>6 DEF x
<1>11. Assembled(film.format, ps, fr)
  <2>1. film.format \in Formats /\ fr.tot \in Nat \ {0}
        BY <1>1, <1>5, FramesFacts DEF fr
  <2>2. n = Number(film.format, fr.tot)
        BY DEF n
  <2> HIDE DEF ps
  <2>. QED
    BY <1>9, <1>10, <2>1, <2>2, PiecesMakeUp
<1>. QED
  BY <1>8, <1>11 DEF first, fr

(* What is out is numbered by its place.                                   *)
LEMMA NumberedFrames ==
  ASSUME CarryInv
  PROVE  NumberedOn
<1>1. ASSUME NEW i \in DOMAIN got PROVE got[i].pkt.seqNo = (start + Place(i)) % SeqNumbers
  <2> DEFINE fr == Frames[got[i].frame]
             first == got[i].base
             k == Place(i) - first + 1
  <2>1. PieceIs(film.format, fr.tot, start - 1 + first, got[i].pkt, k, Number(film.format, fr.tot))
        BY DEF CarryInv, OutInv, PieceOf
  <2>2. got[i].pkt.seqNo = (start - 1 + first + k) % SeqNumbers
        BY <2>1 DEF PieceIs
  <2>3. first \in Int /\ Place(i) \in Int /\ start \in Int
    <3>1. got[i] \in OutType /\ i \in Nat
          BY DEF CarryInv, CarryType
    <3>2. start \in 0 .. SeqNumbers - 1
          BY DEF CarryInv, CarryType
    <3>3. got[i].base \in Int /\ got[i].lost \in Int
          BY <3>1 DEF OutType
    <3>4. Place(i) \in Int
          BY <3>1, <3>3 DEF Place
    <3>. QED
      BY <3>2, <3>3, <3>4
  <2> HIDE DEF first
  <2>4. start - 1 + first + k = start + Place(i)
        BY <2>3
  <2>. QED
    BY <2>2, <2>4
<1>. QED
  BY <1>1 DEF CarryInv, OutInv, SeqInv, NumberedOn

(* A client gets out of the packets the frames of the track, whatever the  *)
(* format, the frames, the pauses and the losses: each packet has the      *)
(* number that its place calls for, and frames whose last packet is out    *)
(* are complete (Session::sendNextFrame, getPackets of the formats).       *)
THEOREM CarriesTheTrack == Spec => []Carried
<1>1. CarryInv => Carried
      BY WholeFrames, NumberedFrames DEF Carried
<1>. QED
  BY <1>1, InitCarry, NextCarries, PTL DEF Spec
=============================================================================
