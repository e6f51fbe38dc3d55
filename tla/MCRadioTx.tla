------------------------------ MODULE MCRadioTx -----------------------------
(***************************************************************************)
(* RadioTx for TLC: a queue of three packets and so four blocks, a send that*)
(* is given up after two ticks, and a drain budget with nothing to spare.  *)
(***************************************************************************)
EXTENDS RadioTx

CONSTANTS p1, p2, p3, p4

MCPackets == {p1, p2, p3, p4}
=============================================================================
