----------------------------- MODULE SourceTrees ----------------------------
(***************************************************************************)
(* The scripts that make the source trees a build compiles: fetch-codecs.py,*)
(* -opus.py, -sbc.py and -wavpack-stream.py download an archive, keep it,  *)
(* check its hash and write its files;                                     *)
(* prepare-lc3-custom.py and -lite.py copy upstream's liblc3 and then read,*)
(* patch and write one file after the other, at places that must occur     *)
(* exactly once.                                                           *)
(*                                                                         *)
(* A script may be killed between any two of its writes and in the middle  *)
(* of one, the server may serve another archive than the pinned one,       *)
(* upstream may have drifted, and a script may be run again on whatever the*)
(* runs before left.  The scripts share no files: a behaviour is about one *)
(* of them, chosen at the beginning.  Google's archive, which is named by a*)
(* commit and comes without a hash, is taken to be what it is named; a body*)
(* that ends early makes read() raise.  ListeningSources is the remaining  *)
(* script, which checks no hash.                                           *)
(*                                                                         *)
(* A text is the sequence of the patches applied to the pinned one.        *)
(***************************************************************************)
EXTENDS Integers, Sequences, SequencesExt

CONSTANTS
  Fetched,     \* files of an archive
  EtsiHeader,  \* basop_util.h, which the ETSI script patches
  MaxRuns,     \* bound: times the script is started
  MaxDrifts    \* bound: changes of upstream

ASSUME TreeAssumption ==
  /\ EtsiHeader \in Fetched /\ Fetched \cap {"none", "archive"} = {}
  /\ {MaxRuns, MaxDrifts} \subseteq Nat

Pinned  == <<>>
Absent  == <<"absent">>
Partial == <<"partial">>
Other   == <<"other">>

-----------------------------------------------------------------------------
(* What the two generators change in a file of liblc3, in their order. *)
LitePatches(f) ==
  CASE f = "lc3.c"  -> <<"attack", "ltpf", "mdct", "bw", "sns", "tns", "spec",
                         "bits", "energy">>
    [] f = "tns.c"  -> <<"no_tns">>
    [] f = "spec.c" -> <<"gain", "no_refine">>
    [] OTHER        -> <<>>
CustomPatches(f) ==
  CASE f = "sns.h"  -> <<"coarse">>
    [] f = "sns.c"  -> <<"table", "weights", "helper", "analyze", "synthesize",
                         "nbits", "put", "get">>
    [] f = "lc3.c"  -> <<"custom_bits", "ram">>
    [] f = "spec.c" -> <<"rate_helper", "rate">>
    [] f = "mdct.c" -> <<"fft60", "ram">>
    [] OTHER        -> <<>>

(* What each script does, in its order. *)
Do(op) == [op |-> op, file |-> "none", patches |-> <<>>]
(* Read a file, patch it and write it: upstream's, or the one of the tree. *)
FromSource(f, patches) == [op |-> "source", file |-> f, patches |-> patches]
FromTree(f, patches)   == [op |-> "tree", file |-> f, patches |-> patches]
Lite(f)   == FromSource(f, LitePatches(f))
Custom(f) == FromTree(f, CustomPatches(f))

FetchEtsi == << Do("cache"), Do("check"), Do("extract"),
                FromTree(EtsiHeader, <<"wmops">>) >>
FetchGoogle == << Do("download"), Do("extract") >>
FetchOpus == << Do("cache"), Do("check"), Do("extract") >>
FetchSbc == << Do("cache"), Do("check"), Do("extract") >>
FetchWavPack == << Do("cache"), Do("check"), Do("extract") >>
(* prepare-lc3-lite.py runs first, on what it reads from upstream. *)
PrepareCustom ==
  << Do("copy"), Do("extract"), Lite("lc3.c"), Lite("tns.c"), Lite("spec.c"),
     Custom("sns.h"), Custom("sns.c"), Custom("lc3.c"), Custom("spec.c"),
     Custom("mdct.c") >>

(* These replace their place; the others leave it in the text once. *)
Consuming == {"wmops", "attack", "energy", "gain", "no_refine", "nbits", "custom_bits"}

Program ==
  [etsi |-> FetchEtsi, google |-> FetchGoogle, opus |-> FetchOpus,
   sbc |-> FetchSbc, wavpack |-> FetchWavPack, custom |-> PrepareCustom]
Scripts == DOMAIN Program

VARIABLES
  script,
  status,   \* "idle" (not run, or killed), "running", "failed" by a check,
            \* "offline" (the download raised), "done"
  step,     \* of Program[script]
  place,    \* of the step's patches; 0 before its file is read
  text,     \* the text being patched
  half,     \* what is being written: "none", "archive" or a file
  archive,  \* the archive on the disk: Absent, Partial, Pinned or Other
  payload,  \* the archive in memory, or upstream's files
  left,     \* files of the payload still to write
  tree,     \* each file: Absent, Partial, Other or a text
  drift,    \* the patched place upstream no longer has once, or "none"
  drifts, runs

disk == <<archive, tree>>
memory == <<place, text, payload, left>>
bounds == <<drift, drifts, runs>>
treeVars == <<script, status, step, half, disk, memory, bounds>>

Steps == Program[script]
Now == Steps[step]
Files(s) ==
  IF s = "custom" THEN {"lc3.c", "tns.c", "spec.c", "sns.h", "sns.c", "mdct.c"} ELSE Fetched
(* All patches of a file, in their order. *)
Patches(f) ==
  IF script = "custom" THEN LitePatches(f) \o CustomPatches(f)
  ELSE IF script = "etsi" /\ f = EtsiHeader THEN <<"wmops">> ELSE <<>>
AllPatches == UNION {Range(Patches(f)) : f \in Files(script)}

TreeInit ==
  /\ script \in Scripts /\ status = "idle" /\ step = 1 /\ half = "none"
  /\ archive = Absent /\ tree = [f \in Files(script) |-> Absent]
  /\ place = 0 /\ text = <<>> /\ payload = Absent /\ left = {}
  /\ drift = "none" /\ drifts = 0 /\ runs = 0

Running == status = "running"
At(op) == Running /\ Now.op = op

(* What a step ends with: the next one, or the end of the script. *)
StepDone ==
  IF step = Len(Steps) THEN status' = "done" /\ UNCHANGED step
                       ELSE step' = step + 1 /\ UNCHANGED status

Served == IF script = "google" THEN {Pinned} ELSE {Pinned, Other}

Start ==
  /\ ~Running /\ runs < MaxRuns
  /\ runs' = runs + 1 /\ status' = "running" /\ step' = 1 /\ half' = "none"
  /\ place' = 0 /\ text' = <<>> /\ payload' = Absent /\ left' = {}
  /\ UNCHANGED <<script, disk, drift, drifts>>

(* Upstream of the generator is another revision, or the pinned one again. *)
Drift(p) ==
  /\ script = "custom" /\ ~Running /\ drifts < MaxDrifts /\ p # drift
  /\ drift' = p /\ drifts' = drifts + 1 /\ status' = "idle"
  /\ UNCHANGED <<script, step, half, disk, memory, runs>>

(* The script is killed: what it has in memory is lost. *)
Kill ==
  /\ Running /\ status' = "idle" /\ half' = "none"
  /\ UNCHANGED <<script, step, disk, memory, bounds>>

-----------------------------------------------------------------------------
(* The archive. *)

(* An archive that exists is not downloaded again. *)
CacheHit ==
  /\ At("cache") /\ half = "none" /\ archive # Absent
  /\ StepDone
  /\ UNCHANGED <<script, half, disk, memory, bounds>>

(* write_bytes creates the file and then fills it. *)
BeginCache ==
  /\ At("cache") /\ archive = Absent
  /\ payload' \in Served
  /\ archive' = Partial /\ half' = "archive"
  /\ UNCHANGED <<script, status, step, tree, place, text, left, bounds>>

EndCache ==
  /\ At("cache") /\ half = "archive"
  /\ archive' = payload /\ half' = "none"
  /\ StepDone
  /\ UNCHANGED <<script, tree, memory, bounds>>

(* The comparison commit is held in memory only. *)
Download ==
  /\ At("download")
  /\ payload' \in Served /\ left' = Files(script)
  /\ StepDone
  /\ UNCHANGED <<script, half, disk, place, text, bounds>>

Offline ==
  /\ At("download") \/ (At("cache") /\ archive = Absent)
  /\ status' = "offline"
  /\ UNCHANGED <<script, step, half, disk, memory, bounds>>

\* Mutant: only files that are not there yet are written.
MissingOnlyMutant == {f \in Files(script) : tree[f] = Absent}
ToWrite == Files(script)

HashMatches == archive = Pinned

(* The hash is that of the bytes that are extracted, read once. *)
Check ==
  /\ At("check")
  /\ payload' = archive /\ left' = ToWrite
  /\ IF HashMatches THEN StepDone ELSE status' = "failed" /\ UNCHANGED step
  /\ UNCHANGED <<script, half, disk, place, text, bounds>>

-----------------------------------------------------------------------------
(* The tree. *)

(* The generator copies upstream's files. *)
Copy ==
  /\ At("copy")
  /\ payload' = Pinned /\ left' = ToWrite /\ StepDone
  /\ UNCHANGED <<script, half, disk, place, text, bounds>>

BeginFile(f) ==
  /\ At("extract") /\ half = "none" /\ f \in left
  /\ tree' = [tree EXCEPT ![f] = Partial] /\ half' = f
  /\ UNCHANGED <<script, status, step, archive, memory, bounds>>

EndFile ==
  /\ At("extract") /\ half # "none"
  /\ tree' = [tree EXCEPT ![half] = payload]
  /\ left' = left \ {half} /\ half' = "none"
  /\ UNCHANGED <<script, status, step, archive, place, text, payload, bounds>>

Extracted ==
  /\ At("extract") /\ left = {} /\ StepDone
  /\ UNCHANGED <<script, half, disk, memory, bounds>>

Patching == At("source") \/ At("tree")

ReadText ==
  /\ Patching /\ place = 0
  /\ text' = (IF Now.op = "source" THEN Pinned ELSE tree[Now.file]) /\ place' = 1
  /\ UNCHANGED <<script, status, step, half, disk, payload, left, bounds>>

(* The place of a patch is there as often as it should: not in a text that *)
(* drifted there or lost it to an earlier patch, and that of custom_bits   *)
(* only in what the lite generator makes of it.                            *)
OccursOnce(p, s) ==
  /\ p # drift
  /\ p \in Consuming => p \notin Range(s)
  /\ p = "custom_bits" => "bits" \in Range(s)

\* Mutant: a place that is not there is passed over.
UncheckedMutant(p, s) == TRUE
Checked(p, s) == OccursOnce(p, s)

Replace ==
  /\ Patching /\ place \in DOMAIN Now.patches
  /\ LET p == Now.patches[place] IN
       IF Checked(p, text)
         THEN /\ text' = IF OccursOnce(p, text) THEN Append(text, p) ELSE text
              /\ place' = place + 1 /\ UNCHANGED status
         ELSE status' = "failed" /\ UNCHANGED <<text, place>>
  /\ UNCHANGED <<script, step, half, disk, payload, left, bounds>>

BeginWrite ==
  /\ Patching /\ place > Len(Now.patches) /\ half = "none"
  /\ half' = Now.file /\ tree' = [tree EXCEPT ![Now.file] = Partial]
  /\ UNCHANGED <<script, status, step, archive, memory, bounds>>

EndWrite ==
  /\ Patching /\ half # "none"
  /\ tree' = [tree EXCEPT ![half] = text]
  /\ half' = "none" /\ place' = 0
  /\ StepDone
  /\ UNCHANGED <<script, archive, text, payload, left, bounds>>

TreeNext ==
  \/ Start \/ Kill \/ \E p \in AllPatches \cup {"none"} : Drift(p)
  \/ CacheHit \/ BeginCache \/ EndCache
  \/ Download \/ Offline \/ Check
  \/ Copy \/ EndFile \/ Extracted \/ \E f \in Files(script) : BeginFile(f)
  \/ ReadText \/ Replace \/ BeginWrite \/ EndWrite

TreeSpec == TreeInit /\ [][TreeNext]_treeVars

-----------------------------------------------------------------------------
(* A tree whose script has come to its end is whole: every file is the     *)
(* pinned one with each of its patches once and in order, whatever earlier *)
(* runs left half done, whatever was served for an archive with a hash, and*)
(* where upstream has drifted no patch is missed                           *)
(* (fetch-codecs.py:20,35,39-40, fetch-opus.py:16, fetch-sbc.py:17,        *)
(* fetch-wavpack-stream.py:16, prepare-lc3-custom.py:13-20,                *)
(* prepare-lc3-lite.py:16-17).                                             *)
FinishedTreeIsWhole ==
  status = "done" => \A f \in Files(script) : tree[f] = Patches(f)

(* What interrupted runs left in the tree never keeps a later run from     *)
(* succeeding: a script fails only for a cached archive that is not the    *)
(* pinned one or for a drifted upstream (fetch-codecs.py:17-21,39,         *)
(* prepare-lc3-custom.py:13-19).                                           *)
OnlyInputsFail ==
  status = "failed" =>
    \/ drift # "none"
    \/ archive \in {Partial, Other} /\ script \in {"etsi", "opus", "sbc", "wavpack"}
=============================================================================
