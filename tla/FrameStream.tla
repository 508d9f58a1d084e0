----------------------------- MODULE FrameStream -----------------------------
(***************************************************************************)
(* What the frame buffer of an RTP session promises to the thread that     *)
(* takes frames from it: from the position of the last seek it gets the    *)
(* frames of the medium in order, each once, none left out; backwards it   *)
(* gets none, and may be told that the medium is over.  Which frames are   *)
(* fetched ahead and when the two threads wait is left to the module that  *)
(* implements this one.                                                    *)
(***************************************************************************)
EXTENDS Integers

CONSTANTS
  Length,    (* number of frames in the medium                             *)
  Endless    (* does the medium start again at its end?                    *)

VARIABLES
  at,      (* the next frame to deliver; just outside the medium at its end*)
  scale,   (* 1 forward, -1 backward                                       *)
  last,    (* the last frame delivered                                     *)
  seeks    (* seeks asked for so far                                       *)

vars == <<at, scale, last, seeks>>

Frame == 0 .. Length - 1

Following(p) == IF Endless THEN (p + 1) % Length ELSE p + 1

Init ==
  /\ at = 0
  /\ scale = 1
  /\ last = -1
  /\ seeks = 0

Deliver ==
  /\ at \in Frame /\ scale = 1
  /\ last' = at
  /\ at' = Following(at)
  /\ UNCHANGED <<scale, seeks>>

(* All frames are passed by.                                               *)
Skip ==
  /\ scale = -1 /\ at' = -1
  /\ UNCHANGED <<scale, last, seeks>>

Seek ==
  /\ at' \in Frame
  /\ scale' \in {1, -1}
  /\ seeks' = seeks + 1
  /\ UNCHANGED last

(* A seek beyond the medium is refused, and what was buffered is gone.     *)
Lose ==
  /\ at' \in Frame \cup {-1, Length}
  /\ seeks' = seeks + 1
  /\ UNCHANGED <<scale, last>>

Next == Deliver \/ Skip \/ Seek \/ Lose

Spec == Init /\ [][Next]_vars

=============================================================================
