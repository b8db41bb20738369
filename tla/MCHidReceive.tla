---------------------------- MODULE MCHidReceive ----------------------------
(***************************************************************************)
(* Instances of HidReceive for TLC.  A packet of 262 bytes over an endpoint *)
(* of 64 comes in four full fragments and a short one; here in two full and *)
(* one short, so that a packet that misses a full fragment is completed by  *)
(* the next header, and one that misses the short one overflows.            *)
(***************************************************************************)
EXTENDS HidReceive, SequencesExt

Lengths == <<3, 2, 1, 3>>
MCPackets ==
  FlattenSeq([m \in 1..Len(Lengths) |->
    [c \in 1..Lengths[m] |-> [msg |-> m, cnt |-> c - 1, num |-> Lengths[m]]]])
MCSizes == <<2, 2, 1>>
=============================================================================
