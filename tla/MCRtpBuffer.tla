----------------------------- MODULE MCRtpBuffer -----------------------------
(* Instances of RtpBuffer for TLC.                                         *)
EXTENDS RtpBuffer

=============================================================================
