-------------------------- MODULE MCRtspConnection --------------------------
(***************************************************************************)
(* Instances of RtspConnection for TLC.                                    *)
(***************************************************************************)
EXTENDS RtspConnection

=============================================================================
