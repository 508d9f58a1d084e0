----------------------------- MODULE RtpPackets -----------------------------
(***************************************************************************)
(* What the packets of a track hold: the RTP packets a frame is cut into,  *)
(* for each format (rtp/frame.cpp, formats/), and the RTCP packets sent    *)
(* (rtcp/sender.cpp) and read (rtcp/receiver.cpp).  Bytes are counted, not *)
(* looked at.  MP3 frames are cut as they are read: MP3::addFrame, which   *)
(* would make ADUs of them, hides Base::addFrame and is not called.        *)
(***************************************************************************)
EXTENDS Integers, Sequences

MTU == 1440                                       (* Packet::MTU           *)

SIZE == 12                                        (* Header::SIZE          *)

SeqNumbers == 65536                               (* TCseq has 16 bits     *)

Formats == {"Base", "MP4", "MP2", "AAC", "MP3"}

(* Bytes between the RTP header and the payload.                           *)
Extra(format) ==
  CASE format \in {"MP2", "AAC"} -> 4
    [] format = "MP3" -> 2
    [] format \in {"Base", "MP4"} -> 0

(* Longer frames are refused with OutOfBounds.                             *)
Fits(format, tot) ==
  CASE format = "AAC" -> tot <= 8191
    [] format = "MP2" -> tot < 65536
    [] format = "MP3" -> tot < 262144
    [] format \in {"Base", "MP4"} -> TRUE

(* The note is what the extra bytes say: an MP2 packet its offset in the   *)
(* frame, an AAC packet its own size in 13 bits, an MP3 packet whether it  *)
(* continues a frame, and the size of the frame in 14 bits.                *)
MarkLast(p, tot) == IF p.from + p.size >= tot THEN 1 ELSE 0

MarkFirstOfMany(p, tot) == IF p.from = 0 /\ p.size < tot THEN 1 ELSE 0

NoteMP2(p) == p.from % 65536

NoteAAC(p) == p.size % 8192

NoteMP3(from, tot) == <<from > 0, tot % 16384>>

(* A frame of tot bytes, cut; seq is the number of the packet before.      *)
Packets(format, tot, seq) ==
  LET payloadSize == MTU - SIZE - Extra(format)
      Size(i) == IF tot - (i - 1) * payloadSize < payloadSize
                 THEN tot - (i - 1) * payloadSize ELSE payloadSize
      n == (tot + payloadSize - 1) \div payloadSize IN
  [i \in 1 .. n |->
     [seqNo  |-> (seq + i) % SeqNumbers,
      from   |-> (i - 1) * payloadSize,
      size   |-> Size(i),
      data   |-> SIZE + Extra(format) + Size(i),
      marker |-> 0, note |-> 0,
      isLastOfSequence |-> i = n]]

BasePackets(tot, seq) == Packets("Base", tot, seq)

MP4Packets(tot, seq) ==
  LET cut == Packets("MP4", tot, seq) IN
  [i \in DOMAIN cut |-> [cut[i] EXCEPT !.marker = MarkLast(cut[i], tot)]]

MP2Packets(tot, seq) ==
  LET cut == Packets("MP2", tot, seq) IN
  [i \in DOMAIN cut |-> [cut[i] EXCEPT !.marker = MarkFirstOfMany(cut[i], tot),
                                       !.note = NoteMP2(cut[i])]]

AACPackets(tot, seq) ==
  LET cut == Packets("AAC", tot, seq) IN
  [i \in DOMAIN cut |-> [cut[i] EXCEPT !.marker = MarkLast(cut[i], tot),
                                       !.note = NoteAAC(cut[i])]]

MP3Packets(tot, seq) ==
  LET cut == Packets("MP3", tot, seq) IN
  [i \in DOMAIN cut |-> [cut[i] EXCEPT !.note = NoteMP3(cut[i].from, tot)]]

getPackets(format, tot, seq) ==
  CASE format = "Base" -> BasePackets(tot, seq)
    [] format = "MP4" -> MP4Packets(tot, seq)
    [] format = "MP2" -> MP2Packets(tot, seq)
    [] format = "AAC" -> AACPackets(tot, seq)
    [] format = "MP3" -> MP3Packets(tot, seq)

-----------------------------------------------------------------------------
(* RTCP packets sent, in bytes.  host and tool are the lengths of the      *)
(* names; SR and header have no gaps.                                      *)

enqueueReport(buffer) == buffer + 4 + 24

(* Filled up to a multiple of four by the length of the whole buffer,      *)
(* which the report in front of it has always reached.                     *)
enqueueDescription(buffer, host, tool) ==
  LET items == 4 + 2 + host + 2 + tool
      pktSize == 4 * ((items + 3) \div 4)
      full == buffer + 4 + items IN
  IF full < pktSize THEN pktSize ELSE full

enqueueBye(buffer) == buffer + 4 + 5 + Len("Stream terminated")

(* RTCP packets read: type, bytes of the packet, reports or sources in it, *)
(* and the bytes behind the last whole item of its first source: less than *)
(* none if that item reaches past the packet.                              *)
handleSenderReport(p) == p.size >= 4 + 24 + p.count * 24

handleReceiverReport(p) == p.size >= 4 + 4 + p.count * 24

(* An item takes two bytes or more; the zero that ends the items takes all *)
(* that is left.  So the items of the first source run to the end of the   *)
(* packet, and a second source finds no bytes, which are compared without  *)
(* a sign: past the end there seem to be enough.                           *)
handleSourceDescription(p) ==
  p.count > 0 =>
    /\ p.size >= 4 + 4 /\ p.rest # 1
    /\ p.count > 1 => p.rest < 0

(* Whether the packet is passed over as a whole: of one that is broken, or *)
(* of an unknown type, one byte is, and the next is taken for a packet.    *)
Handled(p) ==
  CASE p.type = "SR" -> handleSenderReport(p)
    [] p.type = "RR" -> handleReceiverReport(p)
    [] p.type = "SDES" -> handleSourceDescription(p)
    [] p.type \in {"BYE", "APP"} -> TRUE
    [] p.type = "unknown" -> FALSE

=============================================================================
