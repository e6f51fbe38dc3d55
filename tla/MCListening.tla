----------------------------- MODULE MCListening ----------------------------
(***************************************************************************)
(* The listening set for TLC.  ListeningStream with frames of three samples*)
(* and a delay of four, so that frames and delay do not divide each other; *)
(* a second of six samples and lags of one; excerpts at the start of their *)
(* source, within its first second, later, at its end and beyond it, of a  *)
(* second or less, which are refused, of 9 and 12 samples, at which the    *)
(* verifier raises, and of 15 and 18; packets of the least lengths and more*)
(* in patterns that do not go with the two channels.  ListeningSet with    *)
(* two tracks at two bitrates, so that a killed run leaves one track or one*)
(* rate of another build behind; two builds; three runs: one that finishes,*)
(* one that is killed or does one track, and one over the remains of both. *)
(* ListeningSources with the manifest of tools/listening-sources.json, a   *)
(* .zip and two .flac, and three runs to the same end.                     *)
(*                                                                         *)
(* They are a single archive from the inside, the files of the set from the*)
(* outside, and the downloads before either; they share no variable and no *)
(* property speaks of two.  The first step of a behaviour chooses the      *)
(* module whose steps it takes; the set and the downloads are done beside  *)
(* one of the excerpts.                                                    *)
(***************************************************************************)
EXTENDS ListeningStream, ListeningSet, ListeningSources

MCExcerpts ==
  [samples : {20, 30, 36}, start : {0, 3, 7, 12}, duration : {6, 10, 14, 17, 20}]
MCSizes == {<<22>>, <<23, 22>>, <<22, 23, 24>>}
MCTracks == <<"bee", "jazzy">>
MCRates == <<400, 320>>
MCItems == <<"bee.zip", "jazzy.flac", "techno.flac">>

OneExcerpt ==
  phase = "cut" /\ size = <<22>> /\ track = [samples |-> 20, start |-> 0, duration |-> 6]

MCInit == StreamInit /\ Init /\ SourcesInit
MCNext ==
  \/ Init /\ SourcesInit /\ StreamNext /\ UNCHANGED <<vars, sourcesVars>>
  \/ OneExcerpt /\ SourcesInit /\ Next /\ UNCHANGED <<streamVars, sourcesVars>>
  \/ OneExcerpt /\ Init /\ SourcesNext /\ UNCHANGED <<vars, streamVars>>
MCSpec == MCInit /\ [][MCNext]_<<vars, streamVars, sourcesVars>>
=============================================================================
