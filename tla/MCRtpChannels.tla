--------------------------- MODULE MCRtpChannels ---------------------------
(***************************************************************************)
(* Instances of RtpChannels for TLC: films of frames at the sizes where    *)
(* the number of packets changes, and one that leaves the word to the      *)
(* client.                                                                 *)
(***************************************************************************)
EXTENDS RtpChannels

(* One byte short of, at and over what a packet takes, two packets, and    *)
(* one frame too long.                                                     *)
Cut(format, faults, sizes) ==
  [format |-> format, frames |-> [i \in DOMAIN sizes |-> [tot |-> sizes[i]]],
   faults |-> faults, asks |-> 2, inputs |-> 0]

Talk == [Cut("Base", 0, <<100>>) EXCEPT !.asks = 0, !.inputs = 3]

MCFilms ==
  {Cut("Base", 2, <<1428, 1429>>), Cut("MP4", 1, <<1428, 2857>>), Cut("MP2", 1, <<1425, 65536>>),
   Cut("AAC", 1, <<1424, 2849, 8192>>), Talk,
   Cut("MP3", 1, <<1426, 16385>>)}

MCNames == <<9, 8>>

MCFirstSeqs == {1, 65534}

Packet(type, size, count, rest) ==
  [type |-> type, size |-> size, count |-> count, rest |-> rest]

MCReports ==
  {Packet("SR", 28, 0, 0), Packet("RR", 32, 1, 0), Packet("SDES", 20, 1, 0), Packet("SDES", 20, 1, 1),
   Packet("SDES", 20, 2, 0), Packet("SDES", 12, 2, -3), Packet("SDES", 4, 1, 0), Packet("unknown", 8, 0, 0),
   Packet("APP", 12, 0, 0), Packet("BYE", 8, 1, 0)}

=============================================================================
