---------------------------- MODULE RtpChannels -----------------------------
(***************************************************************************)
(* The two channels of an RTP session: the packets of its frames           *)
(* (rtp/session.cpp, rtp/packet.cpp), the RTCP reports it sends            *)
(* (rtcp/sender.cpp) and those it gets (rtcp/receiver.cpp), over UDP or in *)
(* the RTSP connection, which they share with its answers                  *)
(* (rtsp/interleave.cpp).                                                  *)
(*                                                                         *)
(* A write on a socket with a timeout (Writer::writeSome) takes all bytes, *)
(* some, none (it would block), or fails.                                  *)
(*                                                                         *)
(* Abstracted: bytes are counted.  Time is left out: after a write that    *)
(* would block, each later one may be the one 5 seconds after it.  The     *)
(* lock of the session is held while the packets of a frame go out, and    *)
(* while PLAY or PAUSE change it, so each of these is one step here.       *)
(***************************************************************************)
EXTENDS RtpPackets, SequencesExt

CONSTANTS
  Films,      (* what tracks there are: [format, frames], with bounds on   *)
              (* the writes that do not take all, the requests and the     *)
              (* packets of the client: faults, asks and inputs            *)
  FirstSeqs,  (* the numbers a session may begin with                      *)
  Names,      (* the lengths of host and tool, <<host, tool>>              *)
  Answer,     (* the bytes of an answer                                    *)
  Shorts,     (* the bytes a write takes when it does not take all         *)
  MaxReports, (* bound on reports sent                                     *)
  Reports     (* the RTCP packets the client may send                      *)

(* Below four bytes not even the envelope is out: see the README.          *)
ASSUME ShortsAssumption ==
  Answer \in Nat \ {0} /\ Shorts \subseteq Nat /\ \A k \in Shorts : 4 <= k /\ k < Answer

ASSUME SeqAssumption == FirstSeqs \subseteq 1 .. SeqNumbers - 2

(* The loader skips empty frames (container_mediafile.cpp).                *)
ASSUME FilmsAssumption ==
  \A f \in Films : f.format \in Formats /\ f.frames \in Seq([tot : Nat \ {0}])

ASSUME ReportsAssumption == \A p \in Reports : p.size \in Nat \ {0}

VARIABLES
  film, tunnel,   (* the track; whether its channels are interleaved       *)
  play,           (* Session::_status                                      *)
  at,             (* Session::_frame.next                                  *)
  pkts,           (* the packets of the frame still to be written          *)
  seq, start,     (* Session::_seqCur, _seqStart                           *)
  blocked,        (* _frame.firstLost is set                               *)
  stats,          (* of the sender: packets sent and lost                  *)
  rtcp,           (* the sender: "stopping" until its BYE is written       *)
  report,         (* bytes in Sender::_buffer                              *)
  reply,          (* the answer being written: bytes left, and tries       *)
  serving,        (* the connection listens for requests                   *)
  chan,           (* Interleave::_running                                  *)
  late,           (* the threads that had read _running when it was        *)
                  (* cleared, and wait for the lock to write               *)
  owed,           (* history: what the last write left of its bytes        *)
  mixed,          (* history: another's bytes came between                 *)
  torn,           (* history: a packet or a report was cut, or what was    *)
                  (* left of an answer given up                            *)
  got, dropped,   (* history: since PLAY, the packets out, each with what  *)
                  (* was lost before it, and the number of those lost      *)
  used,           (* faults, asks and reports so far                       *)
  input,          (* what the client reports, in order, and where in its   *)
                  (* bytes each ends: [report, end]                        *)
  read,           (* bytes of it read                                      *)
  handled,        (* history: the packets handled                          *)
  listening,      (* RUNNING of the receiver                               *)
  astray          (* it has taken a packet for a broken one                *)

track == <<film, tunnel>>
sending == <<play, at, pkts, seq, start, blocked, stats, got, dropped>>
reporting == <<rtcp, report>>
stream == <<owed, mixed, torn>>
receiving == <<input, read, handled, listening, astray>>
channels == <<chan, late>>
vars == <<track, sending, reporting, reply, serving, channels, stream, used, receiving>>

Nothing == [who |-> "none", left |-> 0]

NoReply == [left |-> 0, tries |-> 0]

Writers == {"rtp", "rtcp"}

Frames == film.frames

Init ==
  /\ film \in Films /\ tunnel \in BOOLEAN
  /\ play = "new" /\ at = 1 /\ pkts = <<>>
  /\ start \in FirstSeqs /\ seq = start - 1
  /\ blocked = FALSE /\ stats = [pktCount |-> 0, pktLost |-> 0]
  /\ rtcp = "off" /\ report = 0
  /\ reply = NoReply /\ serving = TRUE /\ chan = "open" /\ late = {}
  /\ owed = Nothing /\ mixed = FALSE /\ torn = FALSE
  /\ got = <<>> /\ dropped = 0
  /\ used = [faults |-> 0, asks |-> 0, reports |-> 0]
  /\ input = <<>> /\ read = 0 /\ handled = <<>>
  /\ listening = TRUE /\ astray = FALSE

Fault == used.faults < film.faults /\ used' = [used EXCEPT !.faults = @ + 1]

(* A request is served by the thread that writes the answers.              *)
Ask ==
  /\ serving /\ reply.left = 0
  /\ used.asks < film.asks /\ used' = [used EXCEPT !.asks = @ + 1]

-----------------------------------------------------------------------------
(* Writing.  In the connection each write of a channel is put into an      *)
(* envelope of its own, with the length it should have.                    *)

Envelope == IF tunnel THEN 4 ELSE 0

(* An answer holds the lock of the tunnel until it is out.                 *)
(* Slip: between its tries, too.                                           *)
NoLock == TRUE

TunnelFree == tunnel => reply.left = 0

writeSome(who, bytes, taken) ==
  IF tunnel
  THEN /\ owed' = IF taken = bytes THEN Nothing ELSE [who |-> who, left |-> bytes - taken]
       /\ mixed' = (mixed \/ (owed.left > 0 /\ ~(who = "rtsp" /\ owed.who = "rtsp")))
  ELSE UNCHANGED <<owed, mixed>>

(* Interleave::writeSome looks at _running before it takes the lock.       *)
MayWrite(w) == TunnelFree /\ (chan = "open" \/ w \in late)

Wrote(w) == late' = late \ {w} /\ UNCHANGED chan

-----------------------------------------------------------------------------
(* The send thread: Session::sendNextFrame.                                *)

NextFrame ==
  /\ play = "playing" /\ pkts = <<>> /\ at \in DOMAIN Frames
  /\ Fits(film.format, Frames[at].tot)
  /\ LET cut == getPackets(film.format, Frames[at].tot, seq) IN
       /\ pkts' = [i \in DOMAIN cut |-> [pkt |-> cut[i], frame |-> at,
                                         base |-> Len(got) + dropped, rem |-> cut[i].data]]
       /\ seq' = (seq + Len(cut)) % SeqNumbers
  /\ UNCHANGED <<track, play, at, start, blocked, stats, got, dropped, reporting, reply,
                 serving, channels, stream, used, receiving>>

(* Slip: only the first packet is given up.                                *)
DropOne == pkts' = Tail(pkts) /\ dropped' = dropped + 1

(* The list of packets goes, with those that are not out.                  *)
GiveUp == pkts' = <<>> /\ dropped' = dropped + Len(pkts)

(* Out of the send loop: the thread pauses itself, and the sender.         *)
SelfPause == play' = "paused" /\ GiveUp

Quiet == rtcp' = IF rtcp = "on" THEN "paused" ELSE rtcp

(* Sender::stop: the session goes on when the BYE is out.                  *)
Stop == rtcp' = IF rtcp \in {"on", "paused"} THEN "stopping" ELSE rtcp

(* The frame is too long for its format: OutOfBounds may not leave         *)
(* sendNextFrame, and the process ends with all its sockets.               *)
FrameRefused ==
  /\ play = "playing" /\ pkts = <<>> /\ at \in DOMAIN Frames
  /\ ~Fits(film.format, Frames[at].tot)
  /\ play' = "stopped" /\ rtcp' = "off" /\ reply' = NoReply
  /\ serving' = FALSE /\ chan' = "closed" /\ late' = {} /\ listening' = FALSE
  /\ UNCHANGED <<track, at, pkts, seq, start, blocked, stats, got, dropped, report, stream,
                 used, input, read, handled, astray>>

Eof ==
  /\ play = "playing" /\ pkts = <<>> /\ at \notin DOMAIN Frames
  /\ SelfPause /\ Stop
  /\ UNCHANGED <<track, at, seq, start, blocked, stats, got, report, reply, serving, channels,
                 stream, used, receiving>>

PacketSent ==
  /\ pkts # <<>> /\ MayWrite("rtp") /\ Wrote("rtp")
  /\ writeSome("rtp", Envelope + Head(pkts).rem, Envelope + Head(pkts).rem)
  /\ pkts' = Tail(pkts) /\ got' = Append(got, [pkt |-> Head(pkts).pkt, frame |-> Head(pkts).frame,
                                             base |-> Head(pkts).base, lost |-> dropped])
  /\ stats' = [stats EXCEPT !.pktCount = @ + 1]
  /\ blocked' = FALSE
  /\ at' = IF Len(pkts) = 1 THEN at + 1 ELSE at
  /\ UNCHANGED <<track, play, seq, start, dropped, reporting, reply, serving, torn, used,
                 receiving>>

(* The rest is written again, as if it were a packet.                      *)
PacketCut ==
  /\ pkts # <<>> /\ MayWrite("rtp") /\ Wrote("rtp") /\ tunnel /\ Fault
  /\ \E k \in Shorts :
       /\ k < 4 + Head(pkts).rem
       /\ writeSome("rtp", 4 + Head(pkts).rem, k)
       /\ pkts' = [pkts EXCEPT ![1].rem = @ - (k - 4)]
  /\ torn' = TRUE
  /\ UNCHANGED <<track, play, at, seq, start, blocked, stats, got, dropped, reporting, reply,
                 serving, receiving>>

(* The rest of the frame is given up; after 5 seconds, the track.          *)
PacketLost ==
  /\ pkts # <<>> /\ MayWrite("rtp") /\ Wrote("rtp") /\ Fault
  /\ stats' = [stats EXCEPT !.pktLost = @ + 1]
  /\ GiveUp /\ blocked' = TRUE
  /\ \/ /\ at' = at + 1
        /\ UNCHANGED <<play, rtcp>>
     \/ /\ blocked
        /\ play' = "paused" /\ Stop
        /\ UNCHANGED at
  /\ UNCHANGED <<track, seq, start, got, report, reply, serving, stream, receiving>>

PacketFails ==
  /\ pkts # <<>> /\ TunnelFree
  /\ \/ chan = "closed" /\ UNCHANGED used
     \/ chan = "open" /\ Fault
  /\ SelfPause /\ Quiet /\ Wrote("rtp")
  /\ UNCHANGED <<track, at, seq, start, blocked, stats, got, report, reply, serving, stream,
                 receiving>>

SendNextFrame ==
  NextFrame \/ FrameRefused \/ Eof \/ PacketSent \/ PacketCut \/ PacketLost \/ PacketFails

-----------------------------------------------------------------------------
(* The RTCP sender: what it has not got out stays in front of the next.    *)

Compound(bye) ==
  IF bye THEN enqueueBye(enqueueReport(report))
  ELSE enqueueDescription(enqueueReport(report), Names[1], Names[2])

(* dequeue( wrote )                                                        *)
Dequeued(bytes, wrote) == bytes - wrote

(* The report under way when the sender is stopped may still be written.   *)
SendReport(bye) ==
  /\ IF bye THEN rtcp = "stopping"
     ELSE (rtcp = "on" \/ "rtcp" \in late) /\ used.reports < MaxReports
  /\ TunnelFree /\ Wrote("rtcp")
  /\ \/ /\ MayWrite("rtcp")
        /\ writeSome("rtcp", Envelope + Compound(bye), Envelope + Compound(bye))
        /\ report' = Dequeued(Compound(bye), Compound(bye))
        /\ rtcp' = IF bye THEN "off" ELSE rtcp
        /\ used' = [used EXCEPT !.reports = @ + 1]
        /\ UNCHANGED torn
     \/ /\ MayWrite("rtcp") /\ tunnel /\ used.faults < film.faults
        /\ \E k \in Shorts :
             /\ k < 4 + Compound(bye)
             /\ writeSome("rtcp", 4 + Compound(bye), k)
             /\ report' = Dequeued(Compound(bye), k - 4)
        /\ torn' = TRUE
        /\ rtcp' = IF bye THEN "off" ELSE rtcp
        /\ used' = [used EXCEPT !.reports = @ + 1, !.faults = @ + 1]
     \/ /\ MayWrite("rtcp") /\ used.faults < film.faults      (* would block *)
        /\ report' = Compound(bye)
        /\ rtcp' = IF bye THEN "off" ELSE rtcp
        /\ used' = [used EXCEPT !.reports = @ + 1, !.faults = @ + 1]
        /\ UNCHANGED stream
     \/ /\ chan = "closed"                                   (* fails      *)
        /\ report' = Compound(bye) /\ rtcp' = "off"
        /\ UNCHANGED <<stream, used>>
  /\ UNCHANGED <<track, sending, reply, serving, receiving>>

-----------------------------------------------------------------------------
(* The RTSP thread.                                                        *)

(* PLAY at a place: the answer names start as the number of the first      *)
(* packet (doFirstPlay, doSeekScale, Play::getReply).                      *)
Play ==
  /\ Ask /\ play # "stopped" /\ rtcp # "stopping" /\ pkts = <<>> /\ chan = "open"
  /\ \E n \in DOMAIN Frames : at' = n
  /\ play' = "playing" /\ rtcp' = "on"
  /\ start' = (seq + 1) % SeqNumbers
  /\ got' = <<>> /\ dropped' = 0
  /\ UNCHANGED <<track, pkts, seq, blocked, stats, report, reply, serving, channels, stream,
                 receiving>>

Unpause ==
  /\ Ask /\ play = "paused" /\ rtcp # "stopping" /\ chan = "open"
  /\ play' = "playing" /\ rtcp' = "on"
  /\ UNCHANGED <<track, at, pkts, seq, start, blocked, stats, got, dropped, report, reply,
                 serving, channels, stream, receiving>>

Pause ==
  /\ Ask /\ play = "playing" /\ pkts = <<>>
  /\ play' = "paused" /\ Quiet
  /\ UNCHANGED <<track, at, pkts, seq, start, blocked, stats, got, dropped, report, reply,
                 serving, channels, stream, receiving>>

(* On request, or because the connection ends (Connection::shutdown).      *)
Teardown ==
  /\ IF serving THEN Ask ELSE UNCHANGED used
  /\ play \in {"playing", "paused"} /\ pkts = <<>>
  /\ play' = "stopped" /\ Stop
  /\ UNCHANGED <<track, at, pkts, seq, start, blocked, stats, got, dropped, report, reply,
                 serving, channels, stream, receiving>>

(* TEARDOWN closes the channels before it ends the session, shutdown after *)
(* that.  A thread past its look at _running has still to write.           *)
Close ==
  /\ chan = "open"
  /\ IF serving THEN Ask ELSE UNCHANGED used /\ play \in {"new", "stopped"} /\ rtcp = "off"
  /\ chan' = "closed"
  /\ late' \in SUBSET {w \in Writers :
       /\ tunnel
       /\ w = "rtp" => pkts # <<>>
       /\ w = "rtcp" => rtcp \in {"on", "stopping"}}
  /\ UNCHANGED <<track, sending, reporting, reply, serving, stream, receiving>>

Reply ==
  /\ Ask /\ tunnel
  /\ reply' = [NoReply EXCEPT !.left = Answer]
  /\ UNCHANGED <<track, sending, reporting, serving, channels, stream, receiving>>

ReplySome ==
  /\ reply.left > 0
  /\ \E k \in Shorts \cup {reply.left} :
       /\ k <= reply.left
       /\ writeSome("rtsp", reply.left, k)
       /\ reply' = IF k = reply.left THEN NoReply ELSE [reply EXCEPT !.left = @ - k]
  /\ UNCHANGED <<track, sending, reporting, serving, channels, torn, used, receiving>>

(* Five tries; then reply throws.  The lock is free again, listen ends,    *)
(* and the channels stay open until the connection is shut down.           *)
ReplyBlocked ==
  /\ reply.left > 0
  /\ IF reply.tries < 5
     THEN reply' = [reply EXCEPT !.tries = @ + 1] /\ UNCHANGED <<serving, torn>>
     ELSE reply' = NoReply /\ serving' = FALSE /\ torn' = (torn \/ reply.left < Answer)
  /\ UNCHANGED <<track, sending, reporting, channels, owed, mixed, used, receiving>>

Serve == Play \/ Unpause \/ Pause \/ Teardown \/ Close \/ Reply \/ ReplySome \/ ReplyBlocked

-----------------------------------------------------------------------------
(* The RTCP receiver.                                                      *)

(* Where in its bytes the first n packets of the client end.               *)
Upto(s, n) == IF n = 0 THEN 0 ELSE s[n].end

ClientReports ==
  /\ Len(input) < film.inputs
  /\ \E p \in Reports :
       input' = Append(input, [report |-> p, end |-> Upto(input, Len(input)) + p.size])
  /\ UNCHANGED <<track, sending, reporting, reply, serving, channels, stream, used, read,
                 handled, listening, astray>>

(* Slip: a packet is left until there is more behind it.                   *)
ReceivedBefore(i, upTo) == i < upTo

(* Whether the packet that ends at i is all there.                         *)
Received(i, upTo) == i <= upTo

(* Receiver::push, from one packet to the next; out says why it ended.     *)
push(upTo) ==
  LET done == Len(handled)
      Walk(n) == Received(Upto(input, n), upTo)
      There == {n \in done + 1 .. Len(input) :
                  \A i \in done + 1 .. n : Walk(i) /\ (i < n => Handled(input[i].report))}
      last == IF There = {} THEN done ELSE CHOOSE n \in There : \A i \in There : i <= n
      bad == last > done /\ ~Handled(input[last].report) IN
  [upTo |-> IF bad THEN last - 1 ELSE last, astray |-> bad]

(* The places in the stream where a read may end, as far as they matter.   *)
Cuts == {n \in read + 1 .. Upto(input, Len(input)) :
           \E i \in 0 .. Len(input), d \in {-1, 0, 1, 3, 4} : n = Upto(input, i) + d}

Receive ==
  /\ listening /\ ~astray
  /\ \E n \in Cuts :
       LET to == push(n) IN
       /\ read' = n
       /\ handled' = SubSeq(input, 1, to.upTo)
       /\ astray' = to.astray
       /\ listening' = ~\E i \in Len(handled) + 1 .. to.upTo : input[i].report.type = "BYE"
  /\ UNCHANGED <<track, sending, reporting, reply, serving, channels, stream, used, input>>

-----------------------------------------------------------------------------
Next ==
  \/ SendNextFrame
  \/ \E bye \in BOOLEAN : SendReport(bye)
  \/ Serve
  \/ ClientReports \/ Receive

Spec == Init /\ [][Next]_vars

-----------------------------------------------------------------------------
(* Properties.                                                             *)

(* What arrives in the connection can be told apart: no packet, report or  *)
(* answer comes in the middle of another (Interleave::writeSome,           *)
(* Socket::reply and their lock), as long as no packet or report is cut,   *)
(* for the rest of those goes in a new envelope, and no answer given up    *)
(* half way, for the other threads write on until the connection is shut   *)
(* down.                                                                   *)
Framed == mixed => torn

(* The number of packets since PLAY before the i-th that got out.          *)
Place(i) == i - 1 + got[i].lost

(* Whether a client that goes by the rules of the format gets the frame    *)
(* out of the packets.                                                     *)
Assembled(format, ps, frame) ==
  /\ ps # <<>> /\ ps[1].pkt.from = 0
  /\ ps[Len(ps)].pkt.from + ps[Len(ps)].pkt.size = frame.tot
  /\ \A i \in DOMAIN ps :
       /\ i > 1 => ps[i].pkt.from = ps[i - 1].pkt.from + ps[i - 1].pkt.size
       /\ ps[i].pkt.data <= MTU
       /\ format \in {"MP4", "AAC"} => (ps[i].pkt.marker = 1 <=> i = Len(ps))
       /\ format = "MP2" => ps[i].pkt.note = ps[i].pkt.from
       /\ format = "AAC" => ps[i].pkt.note = ps[i].pkt.size
       /\ format = "MP3" => ps[i].pkt.note[1] = (i > 1)
  /\ format = "MP3" /\ frame.tot < 16384 => ps[1].pkt.note[2] = frame.tot

(* The packets that get out since a PLAY are numbered one by one from the  *)
(* number its answer has named, around the end of the 16 bits, with a gap  *)
(* for each that is lost, through pauses (Session::sendNextFrame).         *)
NumberedOn ==
  /\ \A i \in DOMAIN got :
       /\ got[i].pkt.seqNo = (start + Place(i)) % SeqNumbers
       /\ got[i].lost <= dropped /\ (i > 1 => got[i - 1].lost <= got[i].lost)
  /\ seq = (start - 1 + Len(got) + dropped + Len(pkts)) % SeqNumbers

(* The last packet of a frame gets out only after all the others, and they *)
(* make it up (getPackets of the formats).                                 *)
MadeUp ==
  \A i \in DOMAIN got :
    got[i].pkt.isLastOfSequence =>
      \E j \in 1 .. i :
        /\ Place(j) = got[i].base /\ got[j].lost = got[i].lost
        /\ Assembled(film.format, SubSeq(got, j, i), Frames[got[i].frame])

(* A client gets out of the packets the frames of the track.               *)
Carried == NumberedOn /\ MadeUp

(* However the reports of a client are cut in pieces, each is handled once *)
(* and in order, as soon as its last byte is read, until one is taken for  *)
(* broken; nothing is read after a BYE, though what came with it is        *)
(* handled (Receiver::push and its handlers).                              *)
ParsedOnce ==
  /\ IsPrefix(handled, input)
  /\ Upto(input, Len(handled)) <= read
  /\ Len(handled) < Len(input) /\ ~astray => read < Upto(input, Len(handled) + 1)
  /\ \A i \in DOMAIN handled :
       handled[i].report.type = "BYE" => ~listening

=============================================================================
