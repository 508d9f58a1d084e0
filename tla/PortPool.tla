------------------------------ MODULE PortPool ------------------------------
(***************************************************************************)
(* The pool of UDP ports (rtsp/ports.cpp) and the life of the pairs that   *)
(* RTP sessions take from it: createSession (rtsp/session.cpp) takes a     *)
(* pair and binds two sockets to it, the destructor of the RTP session     *)
(* (rtp/session.cpp) gives the pair back, then closes the sockets.         *)
(*                                                                         *)
(* Sessions of different connections run in different threads; taking and  *)
(* giving back hold the pool's mutex.  The reload on SIGHUP (daemon.cpp)   *)
(* rebuilds the free list in the signal handler, without the mutex, and so *)
(* at any moment of the others.                                            *)
(*                                                                         *)
(* Abstracted: a session is one RTP session over UDP, SET UP again after   *)
(* it is gone; a change to _free or _used of both ports of a pair is one   *)
(* step; what two threads in a std::set at once do to the tree itself is   *)
(* not followed.                                                           *)
(***************************************************************************)
EXTENDS Integers, FiniteSets

CONSTANTS
  Sessions,   (* RTP sessions                                              *)
  Nobody,     (* holds the mutex while it is free                          *)
  Width,      (* number of values of TPort, an unsigned short: 2^16        *)
  Ranges      (* what udp-first and udp-last are configured to             *)

Port == 0 .. Width - 1

ASSUME WidthAssumption == Width \in Nat /\ Width > 0

ASSUME RangesAssumption == Ranges \subseteq [first : Port, last : Port]

ASSUME NobodyAssumption == Nobody \notin Sessions

VARIABLES
  range,   (* _first and _last                                             *)
  free,    (* _free                                                        *)
  used,    (* _used                                                        *)
  lock,    (* who holds the mutex of Udp                                   *)
  st,      (* where each session is                                        *)
  even,    (* the first port of its pair                                   *)
  inside,  (* what release has found to be in the range                    *)
  reloading, (* the reload: where it is, and the bound it sets or the port   *)
           (* its loop is at                                               *)
  overlapped (* history: operations in the midst of which a reload has run   *)

poolVars == <<range, free, used, lock, st, even, inside, reloading, overlapped>>

Taking == {"take", "use"}
Giving == {"test", "give"}

SessionPcs == {"none", "taken", "open", "closing"} \cup Taking \cup Giving
ReloadPcs  == {"idle", "last", "clear", "check", "insert"}

InRange == range.first .. range.last

Pair(s) == {even[s], even[s] + 1}

(* Pool::Pool, whose loop, too, has no end for a range that ends at the    *)
(* last port.                                                              *)
PoolInit ==
  /\ range \in {r \in Ranges : r.last < Width - 1}
  /\ free = InRange
  /\ used = {}
  /\ lock = Nobody
  /\ st = [s \in Sessions |-> "none"]
  /\ even = [s \in Sessions |-> 0]
  /\ inside = {}
  /\ reloading = [pc |-> "idle", port |-> 0]
  /\ overlapped = {}

Step(s, from, to) ==
  /\ st[s] = from
  /\ st' = [st EXCEPT ![s] = to]

Acquire(s, op) ==
  /\ lock = Nobody /\ lock' = s
  /\ overlapped' = IF reloading.pc = "idle" THEN overlapped ELSE overlapped \cup {op}

Release(s) == lock = s /\ lock' = Nobody

-----------------------------------------------------------------------------
(* getPair: the lowest even port that is free together with the next one;  *)
(* without one SETUP is answered "not enough bandwidth".                   *)
FreePairs == {p \in free : p % 2 = 0 /\ p + 1 \in free}

FindPair(s) ==
  /\ Step(s, "none", "take") /\ Acquire(s, "getPair")
  /\ \E p \in FreePairs :
       /\ \A q \in FreePairs : p <= q
       /\ even' = [even EXCEPT ![s] = p]
  /\ UNCHANGED <<range, free, used, inside, reloading>>

ErasePair(s) ==
  /\ Step(s, "take", "use")
  /\ free' = free \ Pair(s)
  /\ UNCHANGED <<range, used, lock, even, inside, reloading, overlapped>>

UsePair(s) ==
  /\ Step(s, "use", "taken") /\ Release(s)
  /\ used' = used \cup Pair(s)
  /\ UNCHANGED <<range, free, even, inside, reloading, overlapped>>

(* The sockets are bound (with SO_REUSEADDR) and the RTP session created.  *)
OpenSockets(s) ==
  /\ Step(s, "taken", "open")
  /\ UNCHANGED <<range, free, used, lock, even, inside, reloading, overlapped>>

(* A socket cannot be bound or connected, or the track does not exist.     *)
SetupFails(s) ==
  /\ Step(s, "taken", "none")
  /\ even' = [even EXCEPT ![s] = 0]
  /\ UNCHANGED <<range, free, used, lock, inside, reloading, overlapped>>

(* ~Session: the pair leaves _used, joins _free as far as it is in range.  *)
UnusePair(s) ==
  /\ Step(s, "open", "test") /\ Acquire(s, "release")
  /\ used' = used \ Pair(s)
  /\ UNCHANGED <<range, free, even, inside, reloading>>

(* Slip: the range is not looked at.                                       *)
TestNothing(s) ==
  /\ Step(s, "test", "give")
  /\ inside' = Pair(s)
  /\ UNCHANGED <<range, free, used, lock, even, reloading, overlapped>>

TestRange(s) ==
  /\ Step(s, "test", "give")
  /\ inside' = Pair(s) \cap InRange
  /\ UNCHANGED <<range, free, used, lock, even, reloading, overlapped>>

FreePair(s) ==
  /\ Step(s, "give", "closing") /\ Release(s)
  /\ free' = free \cup inside
  /\ inside' = {}
  /\ UNCHANGED <<range, used, even, reloading, overlapped>>

(* The members of the RTP session go after the body of its destructor.     *)
CloseSockets(s) ==
  /\ Step(s, "closing", "none")
  /\ even' = [even EXCEPT ![s] = 0]
  /\ UNCHANGED <<range, free, used, lock, inside, reloading, overlapped>>

-----------------------------------------------------------------------------
(* Pool::reset, from the handler of SIGHUP, on whatever thread and whoever *)
(* holds the mutex.                                                        *)
Reload ==
  /\ reloading.pc = "idle"
  /\ \E r \in Ranges :
       /\ range' = [range EXCEPT !.first = r.first]
       /\ reloading' = [pc |-> "last", port |-> r.last]
  /\ overlapped' = overlapped
       \cup {op \in {"getPair", "release"} : \E s \in Sessions :
               st[s] \in (IF op = "getPair" THEN Taking ELSE Giving)}
  /\ UNCHANGED <<free, used, lock, st, even, inside>>

SetLast ==
  /\ reloading.pc = "last"
  /\ range' = [range EXCEPT !.last = reloading.port]
  /\ reloading' = [pc |-> "clear", port |-> range.first]
  /\ UNCHANGED <<free, used, lock, st, even, inside, overlapped>>

ClearFree ==
  /\ reloading.pc = "clear"
  /\ free' = {}
  /\ reloading' = [reloading EXCEPT !.pc = "check"]
  /\ UNCHANGED <<range, used, lock, st, even, inside, overlapped>>

(* ++p wraps at the width of TPort.                                        *)
NextPort == IF reloading.port = Width - 1 THEN 0 ELSE reloading.port + 1

(* Slip: used ports are put in the free list as well.                      *)
CheckRangeOnly ==
  /\ reloading.pc = "check"
  /\ reloading' = IF reloading.port > range.last THEN [pc |-> "idle", port |-> 0]
                  ELSE [reloading EXCEPT !.pc = "insert"]
  /\ UNCHANGED <<range, free, used, lock, st, even, inside, overlapped>>

CheckPort ==
  /\ reloading.pc = "check"
  /\ reloading' = IF reloading.port > range.last THEN [pc |-> "idle", port |-> 0]
                  ELSE IF reloading.port \in used THEN [reloading EXCEPT !.port = NextPort]
                  ELSE [reloading EXCEPT !.pc = "insert"]
  /\ UNCHANGED <<range, free, used, lock, st, even, inside, overlapped>>

InsertPort ==
  /\ reloading.pc = "insert"
  /\ free' = free \cup {reloading.port}
  /\ reloading' = [pc |-> "check", port |-> NextPort]
  /\ UNCHANGED <<range, used, lock, st, even, inside, overlapped>>

-----------------------------------------------------------------------------
Session(s) ==
  \/ FindPair(s) \/ ErasePair(s) \/ UsePair(s) \/ OpenSockets(s)
  \/ SetupFails(s) \/ UnusePair(s) \/ TestRange(s) \/ FreePair(s) \/ CloseSockets(s)

Reset == SetLast \/ ClearFree \/ CheckPort \/ InsertPort

PoolNext == (\E s \in Sessions : Session(s)) \/ Reload \/ Reset

PoolSpec == PoolInit /\ [][PoolNext]_poolVars

-----------------------------------------------------------------------------
Holding(s) == st[s] \in {"taken", "open"}

(* Every variable stays in its range (the members of Pool, ports.h).       *)
TypeOK ==
  /\ range \in [first : Port, last : Port]
  /\ free \subseteq Port
  /\ used \subseteq Port
  /\ lock \in Sessions \cup {Nobody}
  /\ st \in [Sessions -> SessionPcs]
  /\ even \in [Sessions -> Port]
  /\ inside \subseteq Port
  /\ reloading \in [pc : ReloadPcs, port : Port]
  /\ overlapped \subseteq {"getPair", "release"}

(* No two sessions are given the same port, whatever reloads happened      *)
(* since the first of them was set up and in the midst of whatever release *)
(* of others, as long as none has run in the midst of a getPair: there it  *)
(* offers the port that is no longer free and not yet used (getPair,       *)
(* release, reset).                                                        *)
Exclusive ==
  "getPair" \notin overlapped =>
    \A s, t \in Sessions :
      s # t /\ Holding(s) /\ Holding(t) => Pair(s) \cap Pair(t) = {}

(* The pool knows who is in use, and a used port is never offered.         *)
HeldAreUsed ==
  "getPair" \notin overlapped =>
    /\ free \cap used = {}
    /\ \A s \in Sessions : Holding(s) => Pair(s) \subseteq used

(* Between operations every port of the range is free or used, and nothing *)
(* outside the range is offered, even if it was taken under another range  *)
(* or a reload ran in the midst of getPairs; one in the midst of a release *)
(* may change the range between its test and its insertion.                *)
NoPortLost ==
  lock = Nobody /\ reloading.pc = "idle" /\ "release" \notin overlapped =>
    /\ free \subseteq InRange
    /\ InRange \subseteq free \cup used

=============================================================================
