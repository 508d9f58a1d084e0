---------------------------- MODULE MCRtcpSender ----------------------------
(* RtcpSender has no constants; its state space is finite as it stands.    *)
EXTENDS RtcpSender

=============================================================================
