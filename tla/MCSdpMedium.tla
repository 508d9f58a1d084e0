---------------------------- MODULE MCSdpMedium ----------------------------
(***************************************************************************)
(* Instances of SdpMedium for TLC: an audio and a video track; on the      *)
(* device a frame is encoded before an earlier one.                        *)
(***************************************************************************)
EXTENDS SdpMedium

Packet(track, time, key) == [track |-> track, time |-> time, key |-> key]

MCFile ==
  << Packet("a", 0, TRUE), Packet("v", 0, TRUE), Packet("a", 1, TRUE), Packet("none", 0, FALSE),
     Packet("a", 2, TRUE), Packet("v", 1, FALSE), Packet("a", 3, TRUE), Packet("v", 2, TRUE) >>

MCCoded == <<0, 2, 1, 3>>

=============================================================================
