------------------------------ MODULE Evidence ------------------------------
(***************************************************************************)
(* How measurements become evidence: archive-usb-bench.py and              *)
(* archive-lc3-custom.py copy the logs of a bench run with the image, the  *)
(* sources and a manifest of hashes into a folder; validate-usb-bench.py,  *)
(* validate-usb-optimizations.py and summarize-lc3-custom.py check the     *)
(* folders of a root, add what they derive and refresh the manifests;      *)
(* summarize-lc3-lite.py does both in one folder.                          *)
(*                                                                         *)
(* A tool is the sequence of its checks and writes.  Any of them may raise,*)
(* for a reason of its own or of the file system, and leaves what was      *)
(* written before.  Between two tools the operator edits the sources,      *)
(* builds, flashes, and runs the bench.                                    *)
(***************************************************************************)
EXTENDS Integers, Sequences

CONSTANTS
  Roots,     \* the result trees: "optimizations", "usb", "custom", "lite"
  Masks,     \* BENCH_OPTIMIZATIONS a build may have
  MaxTools,  \* bound: tools run
  MaxWork    \* bound: steps of the operator

ASSUME EvidenceAssumption ==
  /\ Roots \subseteq {"optimizations", "usb", "custom", "lite"}
  /\ {MaxTools, MaxWork} \subseteq Nat

Folders(r) == CASE r = "optimizations" -> {"all-profiled", "lean"}
                [] r = "usb"           -> {"final"}
                [] r = "custom"        -> {"final-sweep", "soak"}
                [] r = "lite"          -> {}

VARIABLES
  root,      \* which of Roots
  cache,     \* the build directory: the mask its CMakeCache.txt names
  built,     \* ... and its image: the mask and the sources it was compiled from
  device,    \* the image that is flashed
  source,    \* the revision of the sources
  logs,      \* for each folder the last bench run
  tree,      \* for each folder and file what it holds
  manifest,  \* for each folder its sha256.json
  program,   \* the rest of the tool that runs
  scope,     \* the folders it seals
  passed,    \* the last tool ended without an exception
  tools, work

operator == <<cache, built, device, source, logs>>
evidenceVars == <<root, operator, tree, manifest, program, scope, passed, tools, work>>

All == Folders(root) \cup {"root"}
Absent == [kind |-> "absent"]
(* Of the image that ran a log names the mask alone, in its payload rows.  *)
Log(image, clean, rows) ==
  [kind |-> "log", image |-> image, clean |-> clean, rows |-> rows]
NoManifest == [files |-> <<>>, below |-> <<>>]
Names == {"logs", "hardware", "image", "source", "extra", "summary"}

EvidenceInit ==
  /\ root \in Roots /\ cache \in Masks /\ source = 0
  /\ built = [mask |-> cache, revision |-> source] /\ device = built
  /\ logs = [f \in All |-> Absent]
  /\ tree = [f \in All |-> [n \in Names |-> Absent]]
  /\ manifest = [f \in All |-> NoManifest]
  /\ program = <<>> /\ scope = {} /\ passed = FALSE /\ tools = 0 /\ work = 0

Idle == program = <<>>

-----------------------------------------------------------------------------
(* The operator. *)

Works ==
  /\ Idle /\ work < MaxWork /\ work' = work + 1
  /\ UNCHANGED <<root, tree, manifest, program, scope, passed, tools>>

Edit ==
  /\ Works /\ source' = source + 1 /\ UNCHANGED <<cache, built, device, logs>>

(* Configures, then compiles: if that fails, the image before is left.     *)
Build(mask) ==
  /\ Works /\ cache' = mask
  /\ built' \in {built, [mask |-> mask, revision |-> source]}
  /\ UNCHANGED <<device, source, logs>>

Flash == Works /\ device' = built /\ UNCHANGED <<cache, built, source, logs>>

(* run-usb-optimization.ps1 refuses a folder that exists. *)
Fresh(f) == root = "optimizations" => logs[f] = Absent

(* Only USB images print payload rows, the later ones in every run that     *)
(* ends; validate-usb-optimizations.py finds no log clean without them.    *)
Rows(clean) ==
  CASE root = "optimizations" -> IF clean THEN {TRUE} ELSE BOOLEAN
    [] root = "usb"           -> BOOLEAN
    [] OTHER                  -> {FALSE}

Bench(f, clean) ==
  /\ Works /\ Fresh(f)
  /\ \E rows \in Rows(clean) :
       logs' = [logs EXCEPT ![f] = Log(device, clean, rows)]
  /\ UNCHANGED <<cache, built, device, source>>

-----------------------------------------------------------------------------
(* The tools. *)

Step(op, f, n) == [op |-> op, folder |-> f, file |-> n]

ArchiveUsb(f) ==
  << Step("log", f, "logs"), Step("log", f, "hardware"),
     Step("same-build", f, "hardware"), Step("image", f, "image"),
     Step("source", f, "source"), Step("manifest", f, "sha256") >>

(* Folders without hardware.json are passed over. *)
Experiments == {f \in Folders(root) : tree[f]["hardware"] # Absent}
ValidateFolder(f) ==
  IF f \in Experiments
    THEN << Step("clean", f, "hardware"), Step("has-image", f, "image"),
            Step("manifest", f, "sha256") >>
    ELSE <<>>

\* Mutant: the root is sealed before the results are written.
SealedFirstMutant ==
  << Step("manifest", "root", "sha256"), Step("summary", "root", "summary") >>
RootSteps ==
  << Step("summary", "root", "summary"), Step("manifest", "root", "sha256") >>
(* By name. *)
ValidateOptimizations ==
  ValidateFolder("all-profiled") \o ValidateFolder("lean") \o RootSteps

ValidateUsb ==
  << Step("clean", "final", "hardware"), Step("current", "final", "source"),
     Step("source", "final", "extra"), Step("same-image", "final", "image"),
     Step("log", "root", "logs"), Step("summary", "root", "summary"),
     Step("manifest", "final", "sha256"), Step("manifest", "root", "sha256") >>

(* This one looks at the log before it writes anything. *)
ArchiveCustom(f) ==
  << Step("clean-log", f, "logs"), Step("log", f, "hardware"),
     Step("log", f, "logs"), Step("image", f, "image"),
     Step("source", f, "source"), Step("manifest", f, "sha256") >>

(* The vectors of a stage, decoded: written into a folder already sealed. *)
CheckVectors(f) == << Step("log", f, "extra") >>

SummarizeCustom ==
  << Step("clean", "final-sweep", "hardware"),
     Step("manifest", "final-sweep", "sha256"),
     Step("clean", "soak", "hardware"), Step("manifest", "soak", "sha256"),
     Step("present", "final-sweep", "extra"), Step("present", "soak", "extra"),
     Step("current", "soak", "source"),
     Step("summary", "root", "summary"), Step("manifest", "root", "sha256") >>

SummarizeLite ==
  << Step("clean-log", "root", "logs"), Step("log", "root", "hardware"),
     Step("log", "root", "logs"), Step("image", "root", "image"),
     Step("summary", "root", "summary"), Step("source", "root", "source"),
     Step("manifest", "root", "sha256") >>

Starts(steps, folders) ==
  /\ Idle /\ tools < MaxTools /\ tools' = tools + 1
  /\ program' = steps /\ scope' = folders /\ passed' = FALSE
  /\ UNCHANGED <<root, operator, tree, manifest, work>>

StartUsb(f) ==
  /\ root \in {"optimizations", "usb"} /\ f # "root" /\ logs[f] # Absent
  /\ Starts(ArchiveUsb(f), {f})
StartCustom(f) ==
  /\ root = "custom" /\ f # "root" /\ logs[f] # Absent
  /\ Starts(ArchiveCustom(f), {f}) \/ Starts(CheckVectors(f), {})
Validate ==
  \/ root = "optimizations" /\ Starts(ValidateOptimizations,
       Experiments \cup {"root"})
  \/ root = "usb" /\ Starts(ValidateUsb, All)
  \/ root = "custom" /\ Starts(SummarizeCustom, All)
  \/ root = "lite" /\ logs["root"] # Absent /\ Starts(SummarizeLite, All)

-----------------------------------------------------------------------------
(* A step of the tool. *)

(* manifest(): every file below, the manifests below too but its own. *)
Hashes(f) ==
  IF f # "root" THEN [files |-> tree[f], below |-> <<>>]
  ELSE [files |-> tree, below |-> [g \in Folders(root) |-> manifest[g]]]

(* What the validators derive is a function of what was measured. *)
Results == [kind |-> "summary",
            hardware |-> [f \in All |-> tree[f]["hardware"]]]

(* The images and the CMakeCache.txt beside them count as one file: the     *)
(* validator wants both images, which are copied after the cache.          *)
Written(s) ==
  CASE s.op = "log"     -> logs[s.folder]
    [] s.op = "image"   -> [kind |-> "image", cache |-> cache, of |-> built]
    [] s.op = "source"  -> [kind |-> "source", revision |-> source]
    [] s.op = "summary" -> Results

\* Mutant: the build directory's mask is not compared with the log's.
AnyBuildMutant(content) == TRUE
(* The mask is the cache's: what the image was compiled from is not read.  *)
SameBuild(content) == content.rows => content.image.mask = cache

\* Mutant: whether the image was archived is not looked at.
NoImageMutant(f, content) == TRUE
(* all-profiled keeps its documented mistake. *)
HasImage(f, content) == f = "all-profiled" \/ content # Absent

Satisfied(s) ==
  LET content == tree[s.folder][s.file] IN
    CASE s.op = "present"    -> content # Absent
      [] s.op = "has-image"  -> HasImage(s.folder, content)
      [] s.op = "clean"      -> content # Absent /\ content.clean
      [] s.op = "clean-log"  -> logs[s.folder].clean
      [] s.op = "same-build" -> SameBuild(content)
      [] s.op = "same-image" -> content # Absent /\ content.of = built
      [] s.op = "current"    ->
           content = [kind |-> "source", revision |-> source]

Goes ==
  /\ program' = Tail(program) /\ passed' = (Len(program) = 1)
  /\ UNCHANGED <<root, operator, scope, tools, work>>

Writes ==
  /\ ~Idle /\ Head(program).op \in {"log", "image", "source", "summary"}
  /\ tree' = [tree EXCEPT ![Head(program).folder][Head(program).file]
                = Written(Head(program))]
  /\ Goes /\ UNCHANGED manifest

Seals ==
  /\ ~Idle /\ Head(program).op = "manifest"
  /\ manifest' = [manifest EXCEPT ![Head(program).folder]
                    = Hashes(Head(program).folder)]
  /\ Goes /\ UNCHANGED tree

Checks ==
  /\ ~Idle
  /\ Head(program).op \notin {"log", "image", "source", "summary", "manifest"}
  /\ Satisfied(Head(program)) /\ Goes /\ UNCHANGED <<tree, manifest>>

(* An assertion that fails, or any other exception. *)
Raises ==
  /\ ~Idle /\ program' = <<>>
  /\ UNCHANGED <<root, operator, tree, manifest, scope, passed, tools, work>>

EvidenceNext ==
  \/ Edit \/ Flash \/ \E mask \in Masks : Build(mask)
  \/ \E f \in All : \/ \E clean \in BOOLEAN : Bench(f, clean)
                    \/ StartUsb(f) \/ StartCustom(f)
  \/ Validate \/ Writes \/ Seals \/ Checks \/ Raises

EvidenceSpec == EvidenceInit /\ [][EvidenceNext]_evidenceVars

-----------------------------------------------------------------------------
(* The manifests a tool sealed hold of every file when it is done, the     *)
(* root's of the folders' manifests too, whatever earlier tools left half  *)
(* done: the hashes are what the reports offer as proof of the archive     *)
(* (REPORT.md of the USB optimizations: "SHA256 manifests").               *)
ManifestsHold ==
  passed => \A f \in scope : manifest[f] = Hashes(f)

(* Beside the log of a validated experiment lie images, and the            *)
(* CMakeCache.txt archived with them names the mask the log reports: an    *)
(* archive that was refused, after the next build had replaced the image,  *)
(* is not "promoted into valid executable provenance"                      *)
(* (validate-usb-optimizations.py:58-59).  Which sources the image was     *)
(* compiled from this does not say.                                        *)
ValidatedMaskIsTheLogs ==
  root = "optimizations" /\ passed /\ "root" \in scope =>
    \A f \in scope \ {"root", "all-profiled"} :
      /\ tree[f]["image"] # Absent
      /\ tree[f]["image"].cache = tree[f]["hardware"].image.mask

(* The image archived with a validated experiment is the one that was      *)
(* measured, as REPORT.md:155-157 has it: "[the archives] check the        *)
(* selected sysbuild mask. They contain exact images".  Does not hold.     *)
ValidatedImageMadeTheLog ==
  root = "optimizations" /\ passed /\ "root" \in scope =>
    \A f \in scope \ {"root", "all-profiled"} :
      tree[f]["image"].of = tree[f]["hardware"].image
=============================================================================
