-------------------------- MODULE ListeningSources --------------------------
(***************************************************************************)
(* tools/fetch-listening-sources.py: it downloads the publishers' audio of *)
(* the listening set, one item of its manifest after the other, keeps what *)
(* it downloaded, copies the audio file out of a .zip, and writes hashes of*)
(* both to downloads.json, which tools/make-lc3-listening-set.py checks.   *)
(*                                                                         *)
(* No hash is known of the downloads.  A server may send another body than *)
(* it was, or a page in its stead, and a connection that is cut looks like *)
(* the end of the body.  The script may be killed at any step and in the   *)
(* middle of any file, and run again on whatever the runs before left.     *)
(*                                                                         *)
(* The content of a file is the body that it is of; a hash is the content. *)
(***************************************************************************)
EXTENDS Integers, Sequences, SequencesExt

CONSTANTS
  Items,      \* download_filename of each item of the manifest, in order
  Zips,       \* those that end in .zip; the others are the audio themselves
  MaxFetches  \* bound: times the script is started

ASSUME ItemsAssumption ==
  /\ Items \in Seq(Range(Items)) /\ Len(Items) > 0 /\ IsInjective(Items)
  /\ Zips \subseteq Range(Items) /\ MaxFetches \in Nat

ItemSet == Range(Items)

(* What a server can send: what it was, an archive or a file that was      *)
(* changed, something else, or a beginning of it.                          *)
Bodies == {"whole", "changed", "page", "cut"}
(* zipfile finds the directory at the end, and one audio file in it. *)
Opens(body) == body \in {"whole", "changed"}

VARIABLES
  job,       \* "off" (not run, or killed), "fetch", "get", "hash", "open",
             \* "copy", "note", "write", "tear", "done", "raised", "offline"
  at,        \* index of the item
  cache,     \* the download of each item: "absent" or a body
  copied,    \* the audio file of each .zip: "absent", "torn" or of a body
  noted,     \* the hashes of this run
  downloads, \* downloads.json: hashes, or NoHashes or TornRecord
  ended,     \* history: the last transfer of the item that came to its end
  fetches    \* bound: times it was started

sourceFiles == <<cache, copied, downloads>>
sourcesVars == <<job, at, sourceFiles, noted, ended, fetches>>

Item == Items[at]
AllHashes(body) == [i \in ItemSet |-> [download |-> body, audio |-> body]]
NoHashes == AllHashes("absent")
TornRecord == AllHashes("torn")
(* audio_filename is the download's own, unless that is a .zip. *)
AudioFile(i) == IF i \in Zips THEN copied[i] ELSE cache[i]
Active == job \in {"fetch", "get", "hash", "open", "copy", "note", "write", "tear"}

SourcesInit ==
  /\ job = "off" /\ at = 1
  /\ cache = [i \in ItemSet |-> "absent"] /\ copied = [i \in ItemSet |-> "absent"]
  /\ noted = NoHashes /\ downloads = NoHashes
  /\ ended = [i \in ItemSet |-> "absent"] /\ fetches = 0

(* The manifest is read; the hashes are noted in what was read of it. *)
StartFetching ==
  /\ ~Active /\ fetches < MaxFetches
  /\ job' = "fetch" /\ at' = 1 /\ noted' = NoHashes /\ fetches' = fetches + 1
  /\ UNCHANGED <<sourceFiles, ended>>

(* The script is killed: what it has in memory is lost. *)
KillFetching ==
  /\ Active /\ job' = "off"
  /\ UNCHANGED <<at, sourceFiles, noted, ended, fetches>>

-----------------------------------------------------------------------------
(* fetch *)

\* Mutant: every run downloads again.
AgainMutant(i) == FALSE
Cached(i) == cache[i] # "absent"

FoundInCache ==
  /\ job = "fetch" /\ Cached(Item) /\ job' = "hash"
  /\ UNCHANGED <<at, sourceFiles, noted, ended, fetches>>

\* Mutant: the body grows under the name that the next run finds.
UnderItsNameMutant == [cache EXCEPT ![Item] = "cut"]
(* What is there while the body grows under the name of the .part file. *)
WhileGrowing == cache

BeginBody ==
  /\ job = "fetch" /\ ~Cached(Item)
  /\ job' = "get" /\ cache' = WhileGrowing
  /\ UNCHANGED <<at, copied, downloads, noted, ended, fetches>>

(* copyfileobj reads until nothing comes, and the file gets its name. *)
EndBody ==
  /\ job = "get"
  /\ \E body \in Bodies :
       cache' = [cache EXCEPT ![Item] = body] /\ ended' = [ended EXCEPT ![Item] = body]
  /\ job' = "hash"
  /\ UNCHANGED <<at, copied, downloads, noted, fetches>>

(* No connection, or one that is lost with an error. *)
NoConnection ==
  /\ job = "get" /\ job' = "offline"
  /\ UNCHANGED <<at, sourceFiles, noted, ended, fetches>>

-----------------------------------------------------------------------------
(* main *)

HashDownload ==
  /\ job = "hash"
  /\ noted' = [noted EXCEPT ![Item].download = cache[Item]]
  /\ job' = IF Item \in Zips THEN "open" ELSE "note"
  /\ UNCHANGED <<at, sourceFiles, ended, fetches>>

(* open('wb') empties the audio file before the member is copied. *)
OpenArchive ==
  /\ job = "open"
  /\ IF Opens(cache[Item])
       THEN job' = "copy" /\ copied' = [copied EXCEPT ![Item] = "torn"]
       ELSE job' = "raised" /\ UNCHANGED copied
  /\ UNCHANGED <<at, cache, downloads, noted, ended, fetches>>

CopyAudio ==
  /\ job = "copy" /\ job' = "note"
  /\ copied' = [copied EXCEPT ![Item] = cache[Item]]
  /\ UNCHANGED <<at, cache, downloads, noted, ended, fetches>>

HashAudio ==
  /\ job = "note"
  /\ noted' = [noted EXCEPT ![Item].audio = AudioFile(Item)]
  /\ IF at = Len(Items) THEN job' = "write" /\ UNCHANGED at
                        ELSE job' = "fetch" /\ at' = at + 1
  /\ UNCHANGED <<sourceFiles, ended, fetches>>

(* write_text empties downloads.json and then fills it. *)
BeginRecord ==
  /\ job = "write" /\ job' = "tear" /\ downloads' = TornRecord
  /\ UNCHANGED <<at, cache, copied, noted, ended, fetches>>

EndRecord ==
  /\ job = "tear" /\ job' = "done" /\ downloads' = noted
  /\ UNCHANGED <<at, cache, copied, noted, ended, fetches>>

SourcesNext ==
  \/ StartFetching \/ KillFetching \/ FoundInCache \/ BeginBody \/ EndBody \/ NoConnection
  \/ HashDownload \/ OpenArchive \/ CopyAudio \/ HashAudio \/ BeginRecord \/ EndRecord

SourcesSpec == SourcesInit /\ [][SourcesNext]_sourcesVars

-----------------------------------------------------------------------------
HasRecord == downloads \notin {NoHashes, TornRecord}

(* A downloads.json that is there, of this run or of any before, names the *)
(* bytes that are kept of every item, and of the same body for the download*)
(* and its audio; only an audio file that a later run has torn differs,    *)
(* which make-lc3-listening-set.py:157 refuses.  When the script is done   *)
(* none is torn.  What the property does not say is that the bytes are the *)
(* publisher's: a .flac that was cut is recorded like a whole one          *)
(* (fetch-listening-sources.py:21-28,58-70).                               *)
RecordNamesTheFiles ==
  /\ HasRecord => \A i \in ItemSet :
       /\ downloads[i] = [download |-> cache[i], audio |-> cache[i]]
       /\ AudioFile(i) \in {cache[i], "torn"}
       /\ i \in Zips => Opens(cache[i])
  /\ job = "done" => HasRecord /\ \A i \in ItemSet : AudioFile(i) = cache[i]

(* The script raises at an archive only for the body that was sent: no run *)
(* that was killed leaves something under the archive's name that the next *)
(* one takes for it.  A connection that is cut does                        *)
(* (fetch-listening-sources.py:21-28,61-64).                               *)
OnlyBodiesRaise == job = "raised" => ended[Item] \in Bodies /\ ~Opens(ended[Item])
=============================================================================
