---------------------------- MODULE MCCustomCodec ---------------------------
(***************************************************************************)
(* The CUSTOM codec for TLC: RateControl for the 330 kbit/s stream of the  *)
(* profile, with targets of 51 and 52 bytes and the gain offsets of 48 kHz,*)
(* and ShapeTables, which has no parameters: all of its bands and codes.   *)
(*                                                                         *)
(* The modules share no variable and no property speaks of both, so that   *)
(* interleaving their steps would show nothing: the first step of a        *)
(* behaviour chooses the module whose steps it takes.                      *)
(***************************************************************************)
EXTENDS RateControl, ShapeTables

MCGainOffset ==
  [n \in 20 .. 100 |-> 130 + (IF (8 * n) \div 50 <= 115 THEN (8 * n) \div 50 ELSE 115)]

(* Frames that ask for nothing, a little less or more than the target, and *)
(* far more than a burst can give.                                         *)
MCDemands == {0, 47, 52, 57, 200}

MCGains == {-300, 0, 300}

MCInit == Init /\ ShapeInit
MCNext == \/ ShapeInit /\ Next /\ UNCHANGED shapeVars
          \/ Init /\ ShapeNext /\ UNCHANGED vars
MCSpec == MCInit /\ [][MCNext]_<<vars, shapeVars>>
=============================================================================
