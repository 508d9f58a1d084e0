---------------------------- MODULE MCRtpSession ----------------------------
(***************************************************************************)
(* Instances of RtpSession for TLC.                                        *)
(***************************************************************************)
EXTENDS RtpSession

=============================================================================
