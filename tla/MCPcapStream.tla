---------------------------- MODULE MCPcapStream ----------------------------
(***************************************************************************)
(* TLC instances of PcapStream: two clients, so that one comes while the   *)
(* other is served, records of more units than the buffer holds, and a few *)
(* frames, enough for the buffer to fill and drain.                        *)
(***************************************************************************)
EXTENDS PcapStream, TLC

Symmetry == Permutations(Client)
=============================================================================
