----------------------------- MODULE RtspSocket -----------------------------
(***************************************************************************)
(* The RTSP socket of a connection (rtsp/interleave.cpp) with its input    *)
(* buffer (rtsp/buffer.cpp, lib/buffer.cpp), and the thread that receives  *)
(* the RTCP of one interleaved channel (rtcp/receiver.cpp).                *)
(*                                                                         *)
(* The client writes messages; a read takes any piece of them; after every *)
(* read the socket looks for one message at the head of its buffer, and    *)
(* makes it a request, a response, or data for a channel, or drops it.     *)
(*                                                                         *)
(* Abstracted: a message is cut in units: two for the header of a text     *)
(* message, of which the last has the Content-Length and the empty line,   *)
(* one for the four bytes in front of a packet, which have a NUL among     *)
(* them, and the rest for what follows.  SETUP opens one channel, the RTCP *)
(* one of its pair, PLAY starts its receiver and TEARDOWN closes it; other *)
(* requests do nothing here.  The receiver takes a whole packet at a time, *)
(* and is paused and unpaused by the send thread of its session, which may *)
(* do either at any moment.                                                *)
(***************************************************************************)
EXTENDS Integers, Sequences, FiniteSets, FiniteSetsExt

CONSTANTS
  Kinds,      (* the messages this client writes                           *)
  MaxMsgs,    (* bound on how many                                         *)
  MaxWire,    (* bound on the units written and not yet read               *)
  Width       (* 2^16, the modulus of the length given to dequeue, in      *)
              (* units                                                     *)

Text == {"setup", "play", "teardown", "bodied", "large", "bad", "response", "junk"}

Binary == {"packet", "data"}     (* with a NUL after its header, or without *)

ASSUME KindsAssumption == Kinds \subseteq Text \cup Binary

ASSUME WidthAssumption == Width \in Nat /\ Width > 2

LenOf(k) == CASE k = "bodied" -> 3 [] k = "large" -> Width [] OTHER -> 2

Requests == {"setup", "play", "teardown", "bodied", "large"}

VARIABLES
  sent,       (* the messages the client has written, in order *)
  wire,       (* the units written and not yet read *)
  buf,        (* Socket::_inBuf *)
  pc,         (* where the thread of the connection is *)
  now,        (* the request it serves *)
  chan,       (* the channel: not there, _running, or closed *)
  recv,       (* Interleave::_recv, the packets as numbers in sent *)
  rpc,        (* where the receiver is *)
  running,    (* its flag RUNNING *)
  paused,     (* its flag PAUSED *)
  handled,    (* history: the requests that listen has thrown, in order *)
  stray,      (* history: something else than one message was dequeued *)
  wrapped,    (* history: dequeue took less than it was told *)
  extra       (* history: ends of messages beyond one in each read *)

vars == <<sent, wire, buf, pc, now, chan, recv, rpc, running, paused, handled,
          stray, wrapped, extra>>

receiver == <<chan, recv, rpc, running, paused>>

Init ==
  /\ sent = <<>> /\ wire = <<>> /\ buf = <<>>
  /\ pc = "read" /\ now = 0
  /\ chan = "none" /\ recv = <<>> /\ rpc = "off"
  /\ running = FALSE /\ paused = FALSE
  /\ handled = <<>> /\ stray = FALSE /\ wrapped = FALSE /\ extra = 0

Min0(S) == IF S = {} THEN 0 ELSE Min(S)

Elements(s) == {s[i] : i \in DOMAIN s}

-----------------------------------------------------------------------------
(* What the buffer holds.                                                  *)

KindOf(u) == sent[u.of]

Opens(u) == u.at = 1

Last(u) == u.at = LenOf(KindOf(u))

(* Is it a packet that begins here?  It has a '$'.                         *)
Dollar == buf # <<>> /\ Opens(buf[1]) /\ KindOf(buf[1]) \in Binary

HasNul(u) == KindOf(u) = "packet" \/ (KindOf(u) = "data" /\ Opens(u))

(* The empty lines that a search in the buffer as a C string finds.        *)
EmptyLines ==
  {e \in DOMAIN buf : /\ KindOf(buf[e]) \in Text /\ buf[e].at = 2
                      /\ \A d \in 1 .. e : ~HasNul(buf[d])}

BodyOf(k) == IF k \in Text THEN LenOf(k) - 2 ELSE 0

(* The first Content-Length in the whole buffer, whosever it is.           *)
getContentLength ==
  LET e == Min0({d \in EmptyLines : BodyOf(KindOf(buf[d])) > 0})
  IN IF e = 0 THEN 0 ELSE BodyOf(KindOf(buf[e]))

(* Slip: a message that ends with the buffer counts as incomplete.         *)
getNextPacketLengthStrict ==
  LET sz == IF Dollar THEN LenOf(KindOf(buf[1]))
            ELSE IF EmptyLines = {} THEN 0
            ELSE Min(EmptyLines) + getContentLength
  IN IF sz >= Len(buf) THEN 0 ELSE sz

(* Zero for a message that is not all there yet.                           *)
getNextPacketLength ==
  LET sz == IF Dollar THEN LenOf(KindOf(buf[1]))
            ELSE IF EmptyLines = {} THEN 0
            ELSE Min(EmptyLines) + getContentLength
  IN IF sz > Len(buf) THEN 0 ELSE sz

(* The message a packet of text is parsed as, by the first line of it that *)
(* looks like one: its first, or one after a body that ends a line; 0 is   *)
(* none.                                                                   *)
Parsed(sz) ==
  IF Opens(buf[1]) THEN {buf[1].of}
  ELSE {0} \cup {buf[e].of : e \in {d \in 2 .. sz :
                   /\ Opens(buf[d]) /\ KindOf(buf[d]) \in Text
                   /\ KindOf(buf[d - 1]) \in Text /\ Last(buf[d - 1])}}

(* The 16 bits of the argument of Buffer::dequeue.                         *)
Dequeued(sz) == sz % Width

dequeue(sz) ==
  /\ buf' = SubSeq(buf, Dequeued(sz) + 1, Len(buf))
  /\ stray' = (stray \/ ~Opens(buf[1]) \/ sz # LenOf(KindOf(buf[1])))
  /\ wrapped' = (wrapped \/ Dequeued(sz) # sz)

-----------------------------------------------------------------------------
Send(k) ==
  /\ pc # "ended" /\ Len(sent) < MaxMsgs /\ Len(wire) + LenOf(k) <= MaxWire
  /\ sent' = Append(sent, k)
  /\ wire' = wire \o [j \in 1 .. LenOf(k) |-> [of |-> Len(sent) + 1, at |-> j]]
  /\ UNCHANGED <<buf, pc, now, receiver, handled, stray, wrapped, extra>>

(* One read of the socket, and what of it goes to the buffer.              *)
enqueue(n) ==
  /\ pc = "read" /\ pc' = "parse"
  /\ buf' = buf \o SubSeq(wire, 1, n)
  /\ wire' = SubSeq(wire, n + 1, Len(wire))
  /\ LET ends == Cardinality({j \in 1 .. n : Last(wire[j])})
     IN extra' = extra + (IF ends > 1 THEN ends - 1 ELSE 0)
  /\ UNCHANGED <<sent, now, receiver, handled, stray, wrapped>>

(* The client is gone; what a reset would lose it has not written.         *)
ReadFails ==
  /\ pc = "read" /\ wire = <<>> /\ pc' = "ended"
  /\ UNCHANGED <<sent, wire, buf, now, receiver, handled, stray, wrapped, extra>>

ReadMore ==
  /\ pc = "parse" /\ getNextPacketLength = 0 /\ pc' = "read"
  /\ UNCHANGED <<sent, wire, buf, now, receiver, handled, stray, wrapped, extra>>

(* A message of text that is not the data of a channel.                    *)
IsText(sz) == pc = "parse" /\ sz > 0 /\ ~Dollar

(* Slip: the request stays in the buffer.                                  *)
getNextRequestKept(sz) ==
  /\ IsText(sz)
  /\ \E i \in Parsed(sz) \ {0} :
       /\ sent[i] \in Requests
       /\ pc' = "serve" /\ now' = i /\ handled' = Append(handled, i)
       /\ UNCHANGED <<buf, stray, wrapped>>
  /\ UNCHANGED <<sent, wire, receiver, extra>>

(* A request leaves listen as an exception, to be served.                  *)
getNextRequest(sz) ==
  /\ IsText(sz)
  /\ \E i \in Parsed(sz) \ {0} :
       /\ sent[i] \in Requests
       /\ pc' = "serve" /\ now' = i /\ handled' = Append(handled, i)
       /\ dequeue(sz)
  /\ UNCHANGED <<sent, wire, receiver, extra>>

(* An unknown method, another version or no CSeq: an error is replied from *)
(* within the loop, and the request is still at the head of the buffer.    *)
ReplyError(sz) ==
  /\ IsText(sz) /\ \E i \in Parsed(sz) \ {0} : sent[i] = "bad"
  /\ pc' \in {"read", "ended"}
  /\ UNCHANGED <<sent, wire, buf, now, receiver, handled, stray, wrapped, extra>>

(* A response is kept by the connection; one to another request ends the   *)
(* loop, and so the connection; one of another version throws what the     *)
(* constructor does not declare, and that is the end of the process.       *)
getNextResponse(sz) ==
  /\ IsText(sz) /\ \E i \in Parsed(sz) \ {0} : sent[i] = "response"
  /\ \/ pc' \in {"read", "ended"} /\ dequeue(sz)
     \/ pc' = "dead" /\ UNCHANGED <<buf, stray, wrapped>>
  /\ UNCHANGED <<sent, wire, now, receiver, handled, extra>>

Unrecognized(sz) ==
  /\ IsText(sz)
  /\ Parsed(sz) \cap ({0} \cup {i \in DOMAIN sent : sent[i] = "junk"}) # {}
  /\ dequeue(sz) /\ pc' = "read"
  /\ UNCHANGED <<sent, wire, now, receiver, handled, extra>>

(* Data for a channel that is there is appended to what its reader finds.  *)
getNextInterleave(sz) ==
  /\ pc = "parse" /\ sz > 0 /\ Dollar /\ chan # "none"
  /\ recv' = Append(recv, buf[1].of)
  /\ dequeue(sz) /\ pc' = "push"
  /\ UNCHANGED <<sent, wire, now, chan, rpc, running, paused, handled, extra>>

(* Data for a channel that is not there has been dequeued when this shows, *)
(* and is dequeued again, from what follows it.                            *)
NoSuchChannel(sz) ==
  /\ pc = "parse" /\ sz > 0 /\ Dollar /\ chan = "none"
  /\ LET once  == SubSeq(buf, Dequeued(sz) + 1, Len(buf))
         twice == Dequeued(sz) <= Len(once)
     IN /\ buf' = IF twice THEN SubSeq(once, Dequeued(sz) + 1, Len(once)) ELSE once
        /\ pc' = IF twice THEN "read" ELSE "ended"
        /\ stray' = TRUE
        /\ wrapped' = (wrapped \/ Dequeued(sz) # sz)
  /\ UNCHANGED <<sent, wire, now, receiver, handled, extra>>

(* Notifying without the lock of the buffer wakes only who waits by now.   *)
notify == rpc' = IF rpc = "waiting" THEN "woken" ELSE rpc

pushToRead ==
  /\ pc = "push" /\ notify /\ pc' = "read"
  /\ UNCHANGED <<sent, wire, buf, now, chan, recv, running, paused, handled,
                 stray, wrapped, extra>>

-----------------------------------------------------------------------------
(* The request in hand is served; whatever it is, its reply may fail.      *)
Serve ==
  /\ pc = "serve"
  /\ sent[now] = "setup" => chan # "none"
  /\ sent[now] = "play" => chan = "none" \/ rpc # "off"
  /\ sent[now] = "teardown" => chan = "none"
  /\ pc' \in {"read", "ended"} /\ now' = 0
  /\ UNCHANGED <<sent, wire, buf, receiver, handled, stray, wrapped, extra>>

addInterleavePair ==
  /\ pc = "serve" /\ sent[now] = "setup" /\ chan = "none"
  /\ chan' = "open" /\ pc' \in {"read", "ended"} /\ now' = 0
  /\ UNCHANGED <<sent, wire, buf, recv, rpc, running, paused, handled, stray,
                 wrapped, extra>>

(* Playing starts the receiver; what came before has been waiting for it.  *)
start ==
  /\ pc = "serve" /\ sent[now] = "play" /\ chan = "open" /\ rpc = "off"
  /\ rpc' = "start" /\ running' = TRUE /\ paused' = FALSE
  /\ pc' \in {"read", "ended"} /\ now' = 0
  /\ UNCHANGED <<sent, wire, buf, chan, recv, handled, stray, wrapped, extra>>

(* The channels of a session are closed before it is destroyed.            *)
stopInterleaving ==
  /\ pc = "serve" /\ sent[now] = "teardown" /\ chan = "open"
  /\ chan' = "closed" /\ notify /\ pc' = "closing"
  /\ UNCHANGED <<sent, wire, buf, now, recv, running, paused, handled, stray,
                 wrapped, extra>>

(* The lock of the receiver is free before its thread takes it and while   *)
(* it waits, for data or to be unpaused.                                   *)
Unlocked == rpc \in {"start", "waiting", "woken", "asleep"}

(* A wait for data is interrupted, at once or after it has ended anyway.   *)
interrupt == rpc' \in {rpc} \cup (IF rpc \in {"waiting", "woken"} THEN {"top"} ELSE {})

(* Destroying the session stops its receiver.                              *)
stop ==
  /\ running /\ pc \in {"closing", "ended"} /\ Unlocked
  /\ running' = FALSE /\ paused' = FALSE
  /\ interrupt
  /\ UNCHANGED <<sent, wire, buf, pc, now, chan, recv, handled, stray, wrapped,
                 extra>>

(* The send thread of the session goes to its pause ...                    *)
pause ==
  /\ running /\ ~paused /\ Unlocked
  /\ paused' = TRUE
  /\ interrupt
  /\ UNCHANGED <<sent, wire, buf, pc, now, chan, recv, running, handled, stray,
                 wrapped, extra>>

(* ... and comes out of it; a receiver that is not paused is interrupted.  *)
unpause ==
  /\ running /\ Unlocked
  /\ paused' = FALSE
  /\ IF paused THEN UNCHANGED rpc ELSE interrupt
  /\ UNCHANGED <<sent, wire, buf, pc, now, chan, recv, running, handled, stray,
                 wrapped, extra>>

(* Once the receiver has ended the channel goes.                           *)
release ==
  /\ pc \in {"closing", "ended"} /\ chan # "none" /\ rpc \in {"off", "ended"}
  /\ chan' = "none" /\ recv' = <<>> /\ rpc' = "off"
  /\ pc' = IF pc = "closing" THEN "read" ELSE pc
  /\ now' = 0
  /\ UNCHANGED <<sent, wire, buf, running, paused, handled, stray, wrapped, extra>>

-----------------------------------------------------------------------------
(* The receiver.                                                           *)

(* The loop: a paused receiver sleeps until it is unpaused or stopped.     *)
run ==
  /\ \/ /\ rpc \in {"start", "top"} /\ running
        /\ rpc' = IF paused THEN "asleep" ELSE "read"
        /\ UNCHANGED paused
     \/ /\ rpc = "asleep" /\ ~paused /\ rpc' = "top"
        /\ UNCHANGED paused
     \/ /\ rpc \in {"start", "top"} /\ ~running
        /\ rpc' = "ended" /\ paused' = FALSE
  /\ UNCHANGED <<sent, wire, buf, pc, now, chan, recv, running, handled, stray,
                 wrapped, extra>>

(* The front of the buffer, if there is one; a BYE in it ends the receiver *)
(* and so does a channel that is closed.                                   *)
readSome ==
  /\ rpc = "read"
  /\ \/ /\ chan = "closed"
        /\ running' = FALSE /\ rpc' = "top" /\ UNCHANGED recv
     \/ /\ chan = "open" /\ recv # <<>>
        /\ recv' = Tail(recv) /\ rpc' = "top" /\ running' \in {running, FALSE}
     \/ /\ chan = "open" /\ recv = <<>>
        /\ rpc' = "empty" /\ UNCHANGED <<recv, running>>
  /\ UNCHANGED <<sent, wire, buf, pc, now, chan, paused, handled, stray, wrapped,
                 extra>>

(* Between the look and the wait the receiver holds no lock that a push    *)
(* needs: it may be notified too early.                                    *)
wait ==
  /\ rpc = "empty" /\ rpc' = "waiting"
  /\ UNCHANGED <<sent, wire, buf, pc, now, chan, recv, running, paused, handled,
                 stray, wrapped, extra>>

(* A notified wait goes back to look.                                      *)
wake ==
  /\ rpc = "woken" /\ rpc' = "read"
  /\ UNCHANGED <<sent, wire, buf, pc, now, chan, recv, running, paused, handled,
                 stray, wrapped, extra>>

(* Slip: the wait has no end of its own.                                   *)
waitMoreNever == FALSE /\ UNCHANGED vars

(* The wait ends by itself after the poll interval, and begins again.      *)
waitMore ==
  /\ rpc = "waiting" /\ rpc' = "top"
  /\ UNCHANGED <<sent, wire, buf, pc, now, chan, recv, running, paused, handled,
                 stray, wrapped, extra>>

-----------------------------------------------------------------------------
listen ==
  LET sz == getNextPacketLength
  IN \/ getNextRequest(sz)
     \/ ReplyError(sz)
     \/ getNextResponse(sz)
     \/ Unrecognized(sz)
     \/ getNextInterleave(sz)
     \/ NoSuchChannel(sz)

Connection ==
  \/ listen
  \/ ReadMore
  \/ pushToRead
  \/ Serve
  \/ addInterleavePair
  \/ start
  \/ stopInterleaving
  \/ stop
  \/ release

Receiver == run \/ readSome \/ wait \/ wake \/ waitMore

Next ==
  /\ pc # "dead"
  /\ \/ Connection
     \/ Receiver
     \/ pause
     \/ unpause
     \/ ReadFails
     \/ \E n \in 1 .. Len(wire) : enqueue(n)
     \/ \E k \in Kinds : Send(k)

(* Both threads get to run, and no wait of the receiver outlasts its poll  *)
(* interval; nothing makes the client write, or the session pause or play. *)
Fairness == WF_vars(pc # "dead" /\ Connection) /\ WF_vars(pc # "dead" /\ Receiver)

Spec == Init /\ [][Next]_vars /\ Fairness

-----------------------------------------------------------------------------
(* Values, and what ties the channel to its reader: nothing is there to    *)
(* read from a channel that is not there (~Interleave clears _recv).       *)
TypeOK ==
  /\ sent \in Seq(Kinds)
  /\ \A u \in Elements(wire) \cup Elements(buf) :
       u.of \in DOMAIN sent /\ u.at \in 1 .. LenOf(KindOf(u))
  /\ pc \in {"read", "parse", "push", "serve", "closing", "ended", "dead"}
  /\ now \in {0} \cup DOMAIN sent /\ (pc = "serve" => now # 0)
  /\ chan \in {"none", "open", "closed"}
  /\ rpc \in {"off", "start", "top", "asleep", "read", "empty", "waiting", "woken",
              "ended"}
  /\ chan = "none" => recv = <<>> /\ rpc = "off"
  /\ running \in BOOLEAN /\ paused \in BOOLEAN /\ extra \in Nat

(* The message at the head of the buffer, or the next one to come to it.   *)
HeadOf == IF buf # <<>> THEN buf[1].of
          ELSE IF wire # <<>> THEN wire[1].of ELSE Len(sent) + 1

(* Requests are served in the order they were sent, and never twice; and   *)
(* as long as the buffer was cut at the ends of messages, every request    *)
(* that has left it has been served (getNextPacketLength, dequeue).  It is *)
(* cut elsewhere after data for a channel that is not there, a message     *)
(* that took the Content-Length of a later one, or a length beyond 2^16.   *)
InOrder ==
  /\ ~wrapped => \A i, j \in DOMAIN handled : i < j => handled[i] < handled[j]
  /\ ~stray /\ ~wrapped =>
       Elements(handled) = {i \in 1 .. HeadOf - 1 : sent[i] \in Requests}

(* The messages that are complete in the buffer.                           *)
Complete == {e \in DOMAIN buf : Last(buf[e])}

(* The loop takes one message per read: no more messages wait for a read   *)
(* than have come two or more in one (Socket::listen) - so none when the   *)
(* client waits for each answer.  Not so behind a request answered with an *)
(* error, which stays, or while a Content-Length that is a later one's is  *)
(* waited for.                                                             *)
Jammed == buf # <<>> /\ KindOf(buf[1]) = "bad"

Borrowed == buf # <<>> /\ getContentLength > BodyOf(KindOf(buf[1]))

OnePerRead ==
  pc = "read" /\ ~stray /\ ~wrapped /\ ~Jammed /\ ~Borrowed
    => Cardinality(Complete) <= extra

(* What was pushed to a channel is read in the end, though the notice of   *)
(* it may come before the receiver waits (Interleave::pushToRead), unless  *)
(* the receiver ends or was never started.  While its session is paused    *)
(* nothing is read (doPause): what came then is read once the session      *)
(* plays, unless that is paused again first.                               *)
PushedIsRead ==
  recv # <<>> /\ rpc \notin {"off", "ended"}
    ~> recv = <<>> \/ rpc = "ended" \/ pc = "dead" \/ paused

=============================================================================
