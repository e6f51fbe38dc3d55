---------------------------- MODULE ListeningSet ----------------------------
(***************************************************************************)
(* The files of the listening set: what tools/make-lc3-listening-set.py    *)
(* writes, in which order, and what tools/verify-lc3-listening-set.py      *)
(* concludes from them.  The codec's sources change and are built between  *)
(* runs, a run may do one track only, may use the binary that an earlier   *)
(* one archived, and may be killed in the middle of any file.              *)
(*                                                                         *)
(* A file is the edition of the codec it was made with; editions differ in *)
(* what they encode, and decode each other's packets.  ListeningStream     *)
(* models what one container and its WAV hold.                             *)
(***************************************************************************)
EXTENDS Integers, Sequences, SequencesExt

CONSTANTS
  Tracks,      \* the sources, in order
  Rates,       \* the bitrates, in order
  MaxEditions, \* bound: editions of the codec's sources
  MaxRuns      \* bound: runs of the maker

ASSUME SetAssumption ==
  /\ Tracks \in Seq(Range(Tracks)) /\ Len(Tracks) > 1 /\ IsInjective(Tracks)
  /\ Rates \in Seq(Range(Rates)) /\ Len(Rates) > 0 /\ IsInjective(Rates)
  /\ MaxEditions \in Nat \ {0} /\ MaxRuns \in Nat

VARIABLES
  sources,   \* edition of the working sources
  dll,       \* edition of the built binary, 0 when there is none
  kept,      \* edition of the archived binary
  container, \* edition of each packet archive, -1 when it was torn
  wav,       \* edition of each WAV, with the reference's for all rates
  manifest,  \* of the set: the binary's edition and that of each track's WAVs
  pc,        \* "off", "encode", "save", "archive", "record"; "finished" after
             \* a run of all tracks, "failed" after one that raised, "verified"
             \* after a verification that passed
  loaded,    \* the edition a run uses
  reuse,     \* --dll names the archived binary
  plan,      \* tracks the run still has to do, with the one it does
  ran,       \* tracks it has done
  rate,      \* index of the next rate
  runs

set == <<kept, container, wav, manifest>>
vars == <<sources, dll, set, pc, loaded, reuse, plan, ran, rate, runs>>

TrackSet == Range(Tracks)
RateSet == Range(Rates)
NoManifest == [dll |-> 0, wav |-> <<>>]
Torn == -1

Init ==
  /\ sources = 1 /\ dll = 0 /\ kept = 0
  /\ container = [t \in TrackSet |-> [r \in RateSet |-> 0]]
  /\ wav = [t \in TrackSet |-> [r \in RateSet |-> 0]]
  /\ manifest = NoManifest
  /\ pc = "off" /\ loaded = 0 /\ reuse = FALSE
  /\ plan = <<>> /\ ran = {} /\ rate = 1 /\ runs = 0

Idle == pc \in {"off", "finished", "failed", "verified"}

EditSources ==
  /\ sources < MaxEditions /\ sources' = sources + 1
  /\ UNCHANGED <<dll, set, pc, loaded, reuse, plan, ran, rate, runs>>

(* The binary in use cannot be written. *)
Build ==
  /\ Idle \/ reuse
  /\ dll' = sources
  /\ UNCHANGED <<sources, set, pc, loaded, reuse, plan, ran, rate, runs>>

(* All tracks, or the one of --track. *)
Start(tracks, archived) ==
  /\ Idle /\ runs < MaxRuns
  /\ loaded' = (IF archived THEN kept ELSE dll) /\ loaded' > 0
  /\ reuse' = archived
  /\ plan' = tracks /\ ran' = {} /\ rate' = 1 /\ runs' = runs + 1
  /\ pc' = "encode"
  /\ UNCHANGED <<sources, dll, set>>

(* All rates of a track are encoded, each into its container. *)
WriteContainer ==
  /\ pc = "encode" /\ rate <= Len(Rates)
  /\ container' = [container EXCEPT ![Head(plan)][Rates[rate]] = loaded]
  /\ rate' = rate + 1
  /\ UNCHANGED <<sources, dll, kept, wav, manifest, pc, loaded, reuse, plan, ran, runs>>

(* The common gain is known: the WAVs can be saved. *)
Encoded ==
  /\ pc = "encode" /\ rate > Len(Rates)
  /\ pc' = "save" /\ rate' = 1
  /\ UNCHANGED <<sources, dll, set, loaded, reuse, plan, ran, runs>>

WriteWav ==
  /\ pc = "save" /\ rate <= Len(Rates)
  /\ wav' = [wav EXCEPT ![Head(plan)][Rates[rate]] = loaded]
  /\ rate' = rate + 1
  /\ UNCHANGED <<sources, dll, kept, container, manifest, pc, loaded, reuse, plan,
                 ran, runs>>

(* The playlist and the track's own manifest follow. *)
TrackDone ==
  /\ pc = "save" /\ rate > Len(Rates)
  /\ ran' = ran \cup {Head(plan)} /\ plan' = Tail(plan) /\ rate' = 1
  /\ pc' = IF Len(plan) = 1 THEN "archive" ELSE "encode"
  /\ UNCHANGED <<sources, dll, set, loaded, reuse, runs>>

\* Mutant: a binary that is there is not replaced.
KeptOnceMutant == IF kept = 0 THEN loaded ELSE kept
Kept == loaded

(* The binary is copied beside the set; copy2 raises when both are one file.*)
Archive ==
  /\ pc = "archive"
  /\ IF reuse
       THEN pc' = "failed" /\ UNCHANGED kept
       ELSE pc' = "record" /\ kept' = Kept
  /\ UNCHANGED <<sources, dll, container, wav, manifest, loaded, reuse, plan, ran,
                 rate, runs>>

\* Mutant: the manifest of a smoke run takes the place of the set's.
AlwaysSetMutant == TRUE
OfTheSet == ran = TrackSet

(* A smoke run writes a manifest of its own, which nothing reads. *)
Record ==
  /\ pc = "record"
  /\ IF OfTheSet
       THEN /\ manifest' = [dll |-> loaded, wav |-> [t \in ran |-> loaded]]
            /\ pc' = "finished"
       ELSE pc' = "off" /\ UNCHANGED manifest
  /\ UNCHANGED <<sources, dll, kept, container, wav, loaded, reuse, plan, ran, rate,
                 runs>>

(* A killed run may tear the file that it writes. *)
Kill ==
  /\ ~Idle /\ pc' = "off"
  /\ \/ UNCHANGED set
     \/ /\ pc = "encode" /\ rate <= Len(Rates)
        /\ container' = [container EXCEPT ![Head(plan)][Rates[rate]] = Torn]
        /\ UNCHANGED <<kept, wav, manifest>>
     \/ /\ pc = "save" /\ rate <= Len(Rates)
        /\ wav' = [wav EXCEPT ![Head(plan)][Rates[rate]] = Torn]
        /\ UNCHANGED <<kept, container, manifest>>
     \/ pc = "archive" /\ kept' = Torn /\ UNCHANGED <<container, wav, manifest>>
     \/ /\ pc = "record" /\ OfTheSet /\ manifest' = NoManifest
        /\ UNCHANGED <<kept, container, wav>>
  /\ UNCHANGED <<sources, dll, loaded, reuse, plan, ran, rate, runs>>

-----------------------------------------------------------------------------
(* The verifier. *)

BinaryIsRecorded == kept = manifest.dll
DecodesToWav(t, r) == container[t][r] = wav[t][r]

Passes ==
  /\ manifest # NoManifest /\ BinaryIsRecorded
  /\ \A t \in DOMAIN manifest.wav : \A r \in RateSet :
       wav[t][r] = manifest.wav[t] /\ DecodesToWav(t, r)

Verify ==
  /\ Idle
  /\ pc' = IF Passes THEN "verified" ELSE "off"
  /\ UNCHANGED <<sources, dll, set, loaded, reuse, plan, ran, rate, runs>>

Next ==
  \/ EditSources \/ Build
  \/ \E archived \in BOOLEAN :
       \E tracks \in {Tracks} \cup {<<t>> : t \in TrackSet} : Start(tracks, archived)
  \/ WriteContainer \/ Encoded \/ WriteWav \/ TrackDone \/ Archive \/ Record
  \/ Kill \/ Verify

Spec == Init /\ [][Next]_vars

-----------------------------------------------------------------------------
MadeWith(e) ==
  /\ kept = e
  /\ \A t \in TrackSet, r \in RateSet : container[t][r] = e /\ wav[t][r] = e

(* A verification that passes vouches for one build: every WAV and every   *)
(* packet archive of every track was made with the archived binary,        *)
(* whatever runs were killed, done for one track or with another build     *)
(* before (verify-lc3-listening-set.py:29-75).                             *)
VerifiedSetIsOneBuild == pc = "verified" => \E e \in 1 .. MaxEditions : MadeWith(e)

(* A run of all tracks that comes to its end leaves a set that verifies,   *)
(* whatever was there before (make-lc3-listening-set.py:198-238).          *)
FinishedSetVerifies == pc = "finished" => Passes

(* The README of the set: the generator "accepts `--dll` to reuse that     *)
(* binary", the archived one, "even if the working codec sources           *)
(* subsequently change".  No run raises.                                   *)
ArchivedBinaryIsReusable == pc # "failed"
=============================================================================
