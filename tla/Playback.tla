------------------------------ MODULE Playback ------------------------------
(***************************************************************************)
(* What one RTP session of the streaming daemon promises to the client     *)
(* that drives it with SETUP, PLAY, PAUSE and TEARDOWN: packets leave only *)
(* while the session is active.  It is hushed from the moment a PAUSE has  *)
(* been answered until the next PLAY, and it is closed for good once       *)
(* TEARDOWN has been answered.  How the send thread is brought to sleep,   *)
(* woken and joined is left to the module that implements this one.        *)
(***************************************************************************)

VARIABLES
  mode,    (* where the session is in its life                             *)
  beat     (* flips each time the packets of a frame have been sent        *)

vars == <<mode, beat>>

Modes == {"idle", "active", "hushed", "closed", "dead"}

TypeOK ==
  /\ mode \in Modes
  /\ beat \in BOOLEAN

Init ==
  /\ mode = "idle"
  /\ beat = FALSE

Become(from, to) ==
  /\ mode \in from
  /\ mode' = to
  /\ UNCHANGED beat

(* The first PLAY starts the stream.                                       *)
Start == Become({"idle"}, "active")

(* PAUSE has been answered.                                                *)
Hush == Become({"active"}, "hushed")

(* PLAY after a PAUSE.                                                     *)
Resume == Become({"hushed"}, "active")

(* TEARDOWN, or the loss of the connection.                                *)
Close == Become({"idle", "active"}, "closed")

(* The process ends without an answer.                                     *)
Die == Become({"idle", "active", "hushed"}, "dead")

Packet ==
  /\ mode = "active"
  /\ beat' = ~beat
  /\ UNCHANGED mode

Next == Start \/ Hush \/ Resume \/ Close \/ Die \/ Packet

Spec == Init /\ [][Next]_vars

=============================================================================
