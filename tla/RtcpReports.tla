---------------------------- MODULE RtcpReports ----------------------------
(***************************************************************************)
(* What an RTCP sender promises to the RTP session it belongs to, and what *)
(* RtpSession takes for granted: reports leave only while the sender runs, *)
(* between the session's request to start it and its requests to pause or  *)
(* stop it, and one after it was stopped, in front of the BYE; it may also *)
(* end by itself.  How its thread is started, put to sleep, woken and      *)
(* joined is left to the module that implements this one.                  *)
(***************************************************************************)

VARIABLES
  mode,    (* off, run, paused, or ending: stopped, with a BYE to send      *)
  beat     (* flips with each report                                       *)

vars == <<mode, beat>>

Init ==
  /\ mode = "off"
  /\ beat = FALSE

Become(from, to) ==
  /\ mode \in from
  /\ mode' = to
  /\ UNCHANGED beat

Start == Become({"off"}, "run")

Pause == Become({"run"}, "paused")

Resume == Become({"paused"}, "run")

Stop == Become({"run", "paused"}, "ending")

(* Its socket fails, or has failed before it is stopped.                   *)
End == Become({"run", "paused"}, "off")

Report ==
  /\ mode = "run"
  /\ beat' = ~beat
  /\ UNCHANGED mode

(* The socket may refuse it.                                               *)
Bye ==
  /\ mode = "ending" /\ mode' = "off"
  /\ beat' \in {beat, ~beat}

Next == Start \/ Pause \/ Resume \/ Stop \/ End \/ Report \/ Bye

Spec == Init /\ [][Next]_vars

=============================================================================
