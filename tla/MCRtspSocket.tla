---------------------------- MODULE MCRtspSocket ----------------------------
(***************************************************************************)
(* Instances of RtspSocket for TLC.                                        *)
(***************************************************************************)
EXTENDS RtspSocket

=============================================================================
