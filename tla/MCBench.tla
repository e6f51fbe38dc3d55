------------------------------- MODULE MCBench ------------------------------
(***************************************************************************)
(* What the bench leaves, for TLC.  RttReader with a ring of three bytes,  *)
(* one byte of which stays free, so that five written bytes wrap it; a     *)
(* marker of two bytes, which polls can cut anywhere.  Evidence with the   *)
(* four trees, two masks, which nothing tells apart, and a few tools and   *)
(* steps of the operator in any order.                                     *)
(*                                                                         *)
(* The one is how a log is captured, the other what is done with the files;*)
(* they share no variable and no property speaks of both.  The first step  *)
(* of a behaviour chooses the module whose steps it takes; the log is read *)
(* beside one of the trees.                                                *)
(***************************************************************************)
EXTENDS RttReader, Evidence

CONSTANTS m14, m31

MCLetters == 1 .. 3
MCNeedle == <<1, 2>>
MCRoots == {"optimizations", "usb", "custom", "lite"}
MCMasks == {m14, m31}
MaskSymmetry == Permutations(MCMasks)

MCInit == Init /\ EvidenceInit
MCNext ==
  \/ EvidenceInit /\ root = "lite" /\ Next /\ UNCHANGED evidenceVars
  \/ Init /\ EvidenceNext /\ UNCHANGED vars
MCSpec == MCInit /\ [][MCNext]_<<vars, evidenceVars>>
=============================================================================
