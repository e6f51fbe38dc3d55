------------------------------ MODULE MCUsbPcm ------------------------------
(***************************************************************************)
(* The USB endpoint for TLC.  UsbPcm with a queue of two frames, so four   *)
(* blocks; a frame of three units that packets of one or two fill at every *)
(* offset; one warm-up frame and runs short enough to end and long enough  *)
(* to overflow the queue.  CommandMatcher with a marker of a word and its  *)
(* repetitions, like the endpoint's, among more bytes than it has.         *)
(*                                                                         *)
(* CommandMatcher is one step of UsbPcm from the inside: a behaviour takes *)
(* the steps of one of them, whichever moves first.                        *)
(***************************************************************************)
EXTENDS UsbPcm, CommandMatcher, TLC

CONSTANTS b1, b2, b3, b4

MCBuffers == {b1, b2, b3, b4}
MCPacketUnits == {1, 2}
MCFrameCounts == {1, 4}

MCMarker == <<"N", "R", "N", "R", "N", "R">>
MCBytes == {"N", "R", "x"}
MCHeaders == {<<"x", "x">>, <<"x", "N">>}

(* The real marker. *)
Word == << "N", "R", "F", "P", "C", "M", "2", "4",
           "n", "r", "f", "5", "2", "8", "4", "0" >>
ASSUME RealMarker == Recurs(Word \o Word \o Word)

MCInit == Init /\ MatcherInit
MCNext == \/ MatcherInit /\ Next /\ UNCHANGED matcherVars
          \/ Init /\ MatcherNext /\ UNCHANGED vars
(* The fairness of FairSpec. *)
MCSpec == MCInit /\ [][MCNext]_<<vars, matcherVars>> /\ WF_vars(MainStep)
=============================================================================
