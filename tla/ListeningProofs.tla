--------------------------- MODULE ListeningProofs --------------------------
(***************************************************************************)
(* Theorems of ListeningSet, ListeningStream and ListeningSources, for any *)
(* number of tracks, rates, editions and runs, any frames, delay, excerpt  *)
(* and lengths of packets, and any manifest of sources.                    *)
(***************************************************************************)
EXTENDS ListeningStream, ListeningSet, ListeningSources, SequenceTheorems, TLAPS

Editions == 1 .. MaxEditions
PerFile == [TrackSet -> [RateSet -> Int]]
Places == {"off", "encode", "save", "archive", "record", "finished", "failed", "verified"}
Running == pc \in {"encode", "save", "archive", "record"}

(* Tracks and rates are lists, of one element or more. *)
LEMMA Lists ==
  /\ Tracks \in Seq(TrackSet) /\ Tracks # <<>>
  /\ Rates \in Seq(RateSet) /\ Len(Rates) \in Nat
  /\ \A r \in RateSet : \E i \in 1 .. Len(Rates) : Rates[i] = r
  /\ \A t \in TrackSet : <<t>> \in Seq(TrackSet) /\ <<t>> # <<>>
  /\ MaxEditions \in Nat
<1>1. /\ Tracks \in Seq(TrackSet) /\ Len(Tracks) > 1
      /\ Rates \in Seq(RateSet) /\ MaxEditions \in Nat
  BY SetAssumption DEF TrackSet, RateSet
<1>2. Tracks # <<>> /\ Len(Rates) \in Nat /\ DOMAIN Rates = 1 .. Len(Rates)
  BY <1>1, LenProperties, EmptySeq
<1>3. \A r \in RateSet : \E i \in 1 .. Len(Rates) : Rates[i] = r
  BY <1>2 DEF RateSet, Range
<1> QED
  BY <1>1, <1>2, <1>3

(* A run uses one edition, and has tracks to do until it archives.         *)
SetTypes ==
  /\ sources \in Editions /\ dll \in 0 .. MaxEditions /\ kept \in Int
  /\ kept <= MaxEditions /\ container \in PerFile /\ wav \in PerFile
  /\ pc \in Places /\ rate \in Nat \ {0} /\ ran \subseteq TrackSet
  /\ plan \in Seq(TrackSet) /\ (pc \in {"encode", "save"} => plan # <<>>)
  /\ Running => loaded \in Editions

(* The manifest is of a whole set, and of one build. *)
Recorded(m, e) == m.dll = e /\ m.wav = [t \in TrackSet |-> e]
ManifestInv == manifest = NoManifest \/ \E e \in Editions : Recorded(manifest, e)

(* What the run has written so far is of its edition; the track it is at   *)
(* has its files up to the rate it is at.                                  *)
Made(t, e) == \A r \in RateSet : container[t][r] = e /\ wav[t][r] = e
WrittenInv ==
  Running =>
    /\ \A t \in ran : Made(t, loaded)
    /\ pc = "encode" =>
         \A i \in 1 .. Len(Rates) : i < rate => container[Head(plan)][Rates[i]] = loaded
    /\ pc = "save" =>
         /\ \A r \in RateSet : container[Head(plan)][r] = loaded
         /\ \A i \in 1 .. Len(Rates) : i < rate => wav[Head(plan)][Rates[i]] = loaded
    /\ pc = "record" => kept = loaded

VerdictInv == pc \in {"finished", "verified"} => Passes

SetInv == SetTypes /\ ManifestInv /\ WrittenInv /\ VerdictInv

(* The set is empty, and nothing runs. *)
LEMMA SetInit == Init => SetInv
<1> SUFFICES ASSUME Init PROVE SetInv
  OBVIOUS
<1>1. 1 \in Editions /\ 0 \in 0 .. MaxEditions
  BY SetAssumption DEF Editions
<1>2. container \in PerFile /\ wav \in PerFile
  BY DEF Init, PerFile
<1>3. SetTypes
  BY <1>1, <1>2, SetAssumption DEF Init, SetTypes, Places, Running
<1> QED
  BY <1>3 DEF Init, SetInv, ManifestInv, WrittenInv, VerdictInv, Running

(* One more file of an edition.                                            *)
Written(f, t, r, e) == [f EXCEPT ![t][r] = e]

(* It is the only one that changes. *)
LEMMA FileWritten ==
  ASSUME NEW f \in PerFile, NEW t \in TrackSet, NEW r \in RateSet, NEW e \in Int,
         NEW g, g = Written(f, t, r, e)
  PROVE  /\ g \in PerFile /\ g[t][r] = e
         /\ \A u \in TrackSet : \A s \in RateSet : g[u][s] = f[u][s] \/ g[u][s] = e
<1>1. g = [f EXCEPT ![t] = [f[t] EXCEPT ![r] = e]]
  BY DEF Written
<1>2. [f[t] EXCEPT ![r] = e] \in [RateSet -> Int]
  BY DEF PerFile
<1>3. g \in PerFile /\ g[t] = [f[t] EXCEPT ![r] = e]
  BY <1>1, <1>2 DEF PerFile
<1>4. ASSUME NEW u \in TrackSet, NEW s \in RateSet
      PROVE  g[u][s] = f[u][s] \/ g[u][s] = e
  <2>1. CASE u = t
    BY <1>3, <2>1 DEF PerFile
  <2>2. CASE u # t
    BY <1>1, <2>2 DEF PerFile
  <2> QED
    BY <2>1, <2>2
<1>5. g[t][r] = e
  BY <1>3 DEF PerFile
<1> QED
  BY <1>3, <1>4, <1>5

(* A set the verifier passes is passed until one of its files changes.     *)
LEMMA SamePasses == ASSUME UNCHANGED set PROVE Passes' <=> Passes
<1>1. kept' = kept /\ container' = container /\ wav' = wav /\ manifest' = manifest
  BY DEF set
<1> QED
  BY <1>1 DEF Passes, BinaryIsRecorded, DecodesToWav

(* The sources change or are built: nothing of the set does.               *)
LEMMA SetAround == SetInv /\ (EditSources \/ Build) => SetInv'
<1> SUFFICES ASSUME SetInv, EditSources \/ Build PROVE SetInv'
  OBVIOUS
<1>1. /\ kept' = kept /\ container' = container /\ wav' = wav /\ manifest' = manifest
      /\ pc' = pc /\ loaded' = loaded /\ plan' = plan /\ ran' = ran /\ rate' = rate
  BY DEF EditSources, Build, set
<1>2. sources' \in Editions /\ dll' \in 0 .. MaxEditions
  BY Lists DEF SetInv, SetTypes, EditSources, Build, Editions
<1>3. SetTypes'
  BY <1>1, <1>2 DEF SetInv, SetTypes, Running
<1>4. ManifestInv' /\ WrittenInv' /\ VerdictInv'
  BY <1>1 DEF SetInv, ManifestInv, WrittenInv, VerdictInv, Running, Made, Passes,
              BinaryIsRecorded, DecodesToWav
<1> QED
  BY <1>3, <1>4 DEF SetInv

(* A run starts with an edition that was built, and nothing done.          *)
LEMMA SetStart ==
  ASSUME SetInv, NEW archived \in BOOLEAN,
         NEW tracks \in {Tracks} \cup {<<t>> : t \in TrackSet}, Start(tracks, archived)
  PROVE  SetInv'
<1>1. /\ kept' = kept /\ container' = container /\ wav' = wav /\ manifest' = manifest
      /\ pc' = "encode" /\ plan' = tracks /\ ran' = {} /\ rate' = 1
      /\ sources' = sources /\ dll' = dll
  BY DEF Start, set
<1>2. tracks \in Seq(TrackSet) /\ tracks # <<>>
  BY Lists
<1>3. loaded' \in Editions
  BY Lists DEF SetInv, SetTypes, Start, Editions
<1>4. SetTypes'
  BY <1>1, <1>2, <1>3 DEF SetInv, SetTypes, Places, Running
<1>5. ManifestInv' /\ WrittenInv' /\ VerdictInv'
  BY <1>1, Lists DEF SetInv, ManifestInv, WrittenInv, VerdictInv
<1> QED
  BY <1>4, <1>5 DEF SetInv

(* The track a run is at.                                                  *)
LEMMA AtTrack ==
  ASSUME SetTypes, pc \in {"encode", "save"}
  PROVE  Head(plan) \in TrackSet /\ loaded \in Int
<1>1. plan \in Seq(TrackSet) /\ plan # <<>>
  BY DEF SetTypes
<1> QED
  BY <1>1, HeadTailProperties DEF SetTypes, Running, Editions

(* A packet archive more.                                                  *)
LEMMA SetContainer == SetInv /\ WriteContainer => SetInv'
<1> SUFFICES ASSUME SetInv, WriteContainer PROVE SetInv'
  OBVIOUS
<1> DEFINE t == Head(plan)
           r == Rates[rate]
<1>1. /\ kept' = kept /\ wav' = wav /\ manifest' = manifest /\ sources' = sources
      /\ dll' = dll /\ pc' = pc /\ loaded' = loaded /\ plan' = plan /\ ran' = ran
      /\ rate' = rate + 1 /\ pc = "encode" /\ rate <= Len(Rates)
      /\ container' = [container EXCEPT ![t][r] = loaded]
  BY DEF WriteContainer
<1>2. t \in TrackSet /\ loaded \in Int
  BY <1>1, AtTrack DEF SetInv
<1>3. rate \in Nat \ {0} /\ container \in PerFile
  BY DEF SetInv, SetTypes
<1>4. r \in RateSet
  BY <1>1, <1>3, Lists, ElementOfSeq
<1> HIDE DEF t, r
<1>5. /\ container' \in PerFile /\ container'[t][r] = loaded
      /\ \A u \in TrackSet, s \in RateSet :
           container'[u][s] = container[u][s] \/ container'[u][s] = loaded
  <2> DEFINE g == container'
  <2>1. g = Written(container, t, r, loaded) /\ container \in PerFile
    BY <1>1, <1>3 DEF Written
  <2> HIDE DEF g
  <2>2. /\ g \in PerFile /\ g[t][r] = loaded
        /\ \A u \in TrackSet : \A s \in RateSet : g[u][s] = container[u][s] \/ g[u][s] = loaded
    BY <1>2, <1>4, <2>1, FileWritten
  <2> QED
    BY <2>2 DEF g
<1>6. SetTypes'
  BY <1>1, <1>3, <1>5 DEF SetInv, SetTypes, Running
<1>7. ran \subseteq TrackSet /\ Running
  BY <1>1 DEF SetInv, SetTypes, Running
<1>8. \A u \in ran : Made(u, loaded)'
  BY <1>1, <1>5, <1>7 DEF SetInv, WrittenInv, Made
<1>9. ASSUME NEW i \in 1 .. Len(Rates), i < rate + 1
      PROVE  container'[t][Rates[i]] = loaded
  <2>1. Rates[i] \in RateSet
    BY Lists, ElementOfSeq
  <2>2. CASE i = rate
    BY <1>5, <2>2 DEF r
  <2>3. CASE i # rate
    <3>1. i < rate
      BY <1>3, <1>9, <2>3
    <3>2. container[t][Rates[i]] = loaded
      BY <1>1, <1>7, <3>1 DEF SetInv, WrittenInv, t
    <3> QED
      BY <1>2, <1>5, <2>1, <3>2
  <2> QED
    BY <2>2, <2>3
<1>10. WrittenInv'
  BY <1>1, <1>8, <1>9 DEF WrittenInv, t
<1>11. ManifestInv' /\ VerdictInv'
  BY <1>1 DEF SetInv, ManifestInv, VerdictInv
<1> QED
  BY <1>6, <1>10, <1>11 DEF SetInv

(* The archives of a track are of the edition in use.                      *)
LEMMA SetEncoded == SetInv /\ Encoded => SetInv'
<1> SUFFICES ASSUME SetInv, Encoded PROVE SetInv'
  OBVIOUS
<1>1. /\ kept' = kept /\ container' = container /\ wav' = wav /\ manifest' = manifest
      /\ sources' = sources /\ dll' = dll /\ pc' = "save" /\ loaded' = loaded
      /\ plan' = plan /\ ran' = ran /\ rate' = 1 /\ pc = "encode" /\ rate > Len(Rates)
  BY DEF Encoded, set
<1>2. SetTypes'
  BY <1>1 DEF SetInv, SetTypes, Places, Running
<1>3. \A i \in 1 .. Len(Rates) : container[Head(plan)][Rates[i]] = loaded
  BY <1>1, Lists DEF SetInv, SetTypes, WrittenInv, Running
<1>4. \A r \in RateSet : container[Head(plan)][r] = loaded
  BY <1>3, Lists
<1>5. WrittenInv'
  BY <1>1, <1>4, Lists DEF SetInv, WrittenInv, Running, Made
<1>6. ManifestInv' /\ VerdictInv'
  BY <1>1 DEF SetInv, ManifestInv, VerdictInv
<1> QED
  BY <1>2, <1>5, <1>6 DEF SetInv

(* A WAV more.                                                             *)
LEMMA SetWav == SetInv /\ WriteWav => SetInv'
<1> SUFFICES ASSUME SetInv, WriteWav PROVE SetInv'
  OBVIOUS
<1> DEFINE t == Head(plan)
           r == Rates[rate]
<1>1. /\ kept' = kept /\ container' = container /\ manifest' = manifest
      /\ sources' = sources /\ dll' = dll /\ pc' = pc /\ loaded' = loaded
      /\ plan' = plan /\ ran' = ran /\ rate' = rate + 1 /\ pc = "save"
      /\ rate <= Len(Rates) /\ wav' = [wav EXCEPT ![t][r] = loaded]
  BY DEF WriteWav
<1>2. t \in TrackSet /\ loaded \in Int
  BY <1>1, AtTrack DEF SetInv
<1>3. rate \in Nat \ {0} /\ wav \in PerFile
  BY DEF SetInv, SetTypes
<1>4. r \in RateSet
  BY <1>1, <1>3, Lists, ElementOfSeq
<1> HIDE DEF t, r
<1>5. /\ wav' \in PerFile /\ wav'[t][r] = loaded
      /\ \A u \in TrackSet, s \in RateSet : wav'[u][s] = wav[u][s] \/ wav'[u][s] = loaded
  <2> DEFINE g == wav'
  <2>1. g = Written(wav, t, r, loaded) /\ wav \in PerFile
    BY <1>1, <1>3 DEF Written
  <2> HIDE DEF g
  <2>2. /\ g \in PerFile /\ g[t][r] = loaded
        /\ \A u \in TrackSet : \A s \in RateSet : g[u][s] = wav[u][s] \/ g[u][s] = loaded
    BY <1>2, <1>4, <2>1, FileWritten
  <2> QED
    BY <2>2 DEF g
<1>6. SetTypes'
  BY <1>1, <1>3, <1>5 DEF SetInv, SetTypes, Running
<1>7. ran \subseteq TrackSet /\ Running
  BY <1>1 DEF SetInv, SetTypes, Running
<1>8. \A u \in ran : Made(u, loaded)'
  BY <1>1, <1>5, <1>7 DEF SetInv, WrittenInv, Made
<1>9. ASSUME NEW i \in 1 .. Len(Rates), i < rate + 1
      PROVE  wav'[t][Rates[i]] = loaded
  <2>1. Rates[i] \in RateSet
    BY Lists, ElementOfSeq
  <2>2. CASE i = rate
    BY <1>5, <2>2 DEF r
  <2>3. CASE i # rate
    <3>1. i < rate
      BY <1>3, <1>9, <2>3
    <3>2. wav[t][Rates[i]] = loaded
      BY <1>1, <1>7, <3>1 DEF SetInv, WrittenInv, t
    <3> QED
      BY <1>2, <1>5, <2>1, <3>2
  <2> QED
    BY <2>2, <2>3
<1>10. \A s \in RateSet : container[t][s] = loaded
  BY <1>1, <1>7 DEF SetInv, WrittenInv, t
<1>11. WrittenInv'
  BY <1>1, <1>8, <1>9, <1>10 DEF WrittenInv, t
<1>12. ManifestInv' /\ VerdictInv'
  BY <1>1 DEF SetInv, ManifestInv, VerdictInv
<1> QED
  BY <1>6, <1>11, <1>12 DEF SetInv

(* A track is done: all its files are of the edition in use.               *)
LEMMA SetTrackDone == SetInv /\ TrackDone => SetInv'
<1> SUFFICES ASSUME SetInv, TrackDone PROVE SetInv'
  OBVIOUS
<1>1. /\ kept' = kept /\ container' = container /\ wav' = wav /\ manifest' = manifest
      /\ sources' = sources /\ dll' = dll /\ loaded' = loaded /\ rate' = 1
      /\ ran' = ran \cup {Head(plan)} /\ plan' = Tail(plan)
      /\ pc' = (IF Len(plan) = 1 THEN "archive" ELSE "encode")
      /\ pc = "save" /\ rate > Len(Rates)
  BY DEF TrackDone, set
<1>2. Running /\ plan \in Seq(TrackSet) /\ plan # <<>> /\ Head(plan) \in TrackSet
  BY <1>1, AtTrack DEF SetInv, SetTypes, Running
<1>3. /\ Tail(plan) \in Seq(TrackSet) /\ Len(plan) \in Nat /\ Len(plan) # 0
      /\ Len(Tail(plan)) = Len(plan) - 1
  BY <1>2, HeadTailProperties, LenProperties, EmptySeq
<1>4. pc' = "encode" => Tail(plan) # <<>>
  <2>1. Len(plan) = 1 => pc' = "archive"
    BY <1>1
  <2>2. Len(Tail(plan)) # 0 => Tail(plan) # <<>>
    BY <1>3, EmptySeq
  <2> QED
    BY <1>3, <2>1, <2>2
<1>5. SetTypes'
  BY <1>1, <1>2, <1>3, <1>4 DEF SetInv, SetTypes, Places, Running
<1>6. \A i \in 1 .. Len(Rates) : wav[Head(plan)][Rates[i]] = loaded
  BY <1>1, <1>2, Lists DEF SetInv, SetTypes, WrittenInv
<1>7. Made(Head(plan), loaded)
  BY <1>1, <1>2, <1>6, Lists DEF SetInv, WrittenInv, Made
<1>8. \A t \in ran' : Made(t, loaded)
  BY <1>1, <1>2, <1>7 DEF SetInv, WrittenInv
<1>9. WrittenInv'
  BY <1>1, <1>8, Lists DEF WrittenInv, Made
<1>10. ManifestInv' /\ VerdictInv'
  BY <1>1 DEF SetInv, ManifestInv, VerdictInv
<1> QED
  BY <1>5, <1>9, <1>10 DEF SetInv

(* The binary is archived, or is the archived one.                         *)
LEMMA SetArchive == SetInv /\ Archive => SetInv'
<1> SUFFICES ASSUME SetInv, Archive PROVE SetInv'
  OBVIOUS
<1>1. /\ container' = container /\ wav' = wav /\ manifest' = manifest
      /\ sources' = sources /\ dll' = dll /\ loaded' = loaded /\ rate' = rate
      /\ ran' = ran /\ plan' = plan /\ pc = "archive"
      /\ \/ pc' = "failed" /\ kept' = kept
         \/ pc' = "record" /\ kept' = loaded
  BY DEF Archive, Kept
<1>2. Running /\ loaded \in Editions /\ kept \in Int /\ kept <= MaxEditions
  BY <1>1 DEF SetInv, SetTypes, Running
<1>3. kept' \in Int /\ kept' <= MaxEditions
  BY <1>1, <1>2, Lists DEF Editions
<1>4. SetTypes'
  BY <1>1, <1>2, <1>3 DEF SetInv, SetTypes, Places, Running
<1>5. \A t \in ran : Made(t, loaded)
  BY <1>2 DEF SetInv, WrittenInv
<1>6. WrittenInv'
  BY <1>1, <1>5 DEF WrittenInv, Running, Made
<1>7. ManifestInv' /\ VerdictInv'
  BY <1>1 DEF SetInv, ManifestInv, VerdictInv
<1> QED
  BY <1>4, <1>6, <1>7 DEF SetInv

(* The manifest of a run of all tracks records what the set holds.         *)
LEMMA SetRecord == SetInv /\ Record => SetInv'
<1> SUFFICES ASSUME SetInv, Record PROVE SetInv'
  OBVIOUS
<1>1. /\ container' = container /\ wav' = wav /\ kept' = kept
      /\ sources' = sources /\ dll' = dll /\ loaded' = loaded /\ rate' = rate
      /\ ran' = ran /\ plan' = plan /\ pc = "record"
  BY DEF Record
<1>2. \/ /\ ran = TrackSet /\ pc' = "finished"
         /\ manifest' = [dll |-> loaded, wav |-> [t \in ran |-> loaded]]
      \/ pc' = "off" /\ manifest' = manifest
  BY DEF Record, OfTheSet
<1>3. Running /\ loaded \in Editions /\ kept = loaded
  BY <1>1 DEF SetInv, SetTypes, WrittenInv, Running
<1>4. SetTypes'
  BY <1>1, <1>2 DEF SetInv, SetTypes, Places, Running
<1>5. WrittenInv'
  BY <1>2 DEF WrittenInv, Running
<1>6. CASE pc' = "off" /\ manifest' = manifest
  BY <1>4, <1>5, <1>6 DEF SetInv, ManifestInv, VerdictInv
<1>7. CASE /\ ran = TrackSet /\ pc' = "finished"
           /\ manifest' = [dll |-> loaded, wav |-> [t \in ran |-> loaded]]
  <2>1. manifest'.dll = loaded /\ manifest'.wav = [t \in TrackSet |-> loaded]
    BY <1>7
  <2>2. ManifestInv'
    BY <1>3, <2>1 DEF ManifestInv, Recorded
  <2>3. manifest' # NoManifest
    BY <1>3, <2>1 DEF NoManifest, Editions
  <2>4. \A t \in TrackSet, r \in RateSet :
          container[t][r] = loaded /\ wav[t][r] = loaded
    BY <1>3, <1>7 DEF SetInv, WrittenInv, Made
  <2>5. /\ DOMAIN manifest'.wav = TrackSet
        /\ \A t \in TrackSet : manifest'.wav[t] = loaded
    BY <2>1
  <2>6. Passes'
    BY <1>1, <1>3, <2>1, <2>3, <2>4, <2>5 DEF Passes, BinaryIsRecorded, DecodesToWav
  <2> QED
    BY <1>4, <1>5, <2>2, <2>6 DEF SetInv, VerdictInv
<1> QED
  BY <1>2, <1>6, <1>7

(* A run that is killed leaves a file torn, and promises nothing.          *)
LEMMA SetKill == SetInv /\ Kill => SetInv'
<1> SUFFICES ASSUME SetInv, Kill PROVE SetInv'
  OBVIOUS
<1> DEFINE t == Head(plan)
           r == Rates[rate]
<1>1. /\ sources' = sources /\ dll' = dll /\ loaded' = loaded /\ rate' = rate
      /\ ran' = ran /\ plan' = plan /\ pc' = "off"
  BY DEF Kill
<1>2. kept' \in Int /\ kept' <= MaxEditions
  BY Lists DEF Kill, SetInv, SetTypes, set, Torn
<1>3. manifest' = manifest \/ manifest' = NoManifest
  BY DEF Kill, set
<1>4. rate \in Nat \ {0} /\ container \in PerFile /\ wav \in PerFile
  BY DEF SetInv, SetTypes
<1>5. ASSUME pc \in {"encode", "save"}, rate <= Len(Rates)
      PROVE  t \in TrackSet /\ r \in RateSet
  <2>1. r \in RateSet
    BY <1>4, <1>5, Lists, ElementOfSeq
  <2> QED
    BY <1>5, <2>1, AtTrack DEF SetInv
<1>6. \/ container' = container
      \/ /\ t \in TrackSet /\ r \in RateSet
         /\ container' = Written(container, t, r, Torn)
  BY <1>5 DEF Kill, set, Written
<1>7. \/ wav' = wav
      \/ t \in TrackSet /\ r \in RateSet /\ wav' = Written(wav, t, r, Torn)
  BY <1>5 DEF Kill, set, Written
<1> HIDE DEF t, r
<1>8. Torn \in Int
  BY DEF Torn
<1>9. container' \in PerFile
  BY <1>4, <1>6, <1>8, FileWritten
<1>10. wav' \in PerFile
  BY <1>4, <1>7, <1>8, FileWritten
<1>11. SetTypes'
  BY <1>1, <1>2, <1>9, <1>10 DEF SetInv, SetTypes, Places, Running
<1>12. ManifestInv'
  BY <1>3 DEF SetInv, ManifestInv
<1>13. WrittenInv' /\ VerdictInv'
  BY <1>1 DEF WrittenInv, VerdictInv, Running
<1> QED
  BY <1>11, <1>12, <1>13 DEF SetInv

(* The verifier changes nothing but its verdict.                           *)
LEMMA SetVerify == SetInv /\ Verify => SetInv'
<1> SUFFICES ASSUME SetInv, Verify PROVE SetInv'
  OBVIOUS
<1>1. /\ kept' = kept /\ container' = container /\ wav' = wav /\ manifest' = manifest
      /\ sources' = sources /\ dll' = dll /\ loaded' = loaded /\ plan' = plan
      /\ ran' = ran /\ rate' = rate /\ pc' = (IF Passes THEN "verified" ELSE "off")
  BY DEF Verify, set
<1>2. SetTypes' /\ WrittenInv' /\ ManifestInv'
  BY <1>1 DEF SetInv, SetTypes, WrittenInv, ManifestInv, Places, Running
<1>3. Passes' <=> Passes
  BY <1>1, SamePasses DEF set
<1> QED
  BY <1>1, <1>2, <1>3 DEF SetInv, VerdictInv

(* Every step keeps the invariant of the set. *)
LEMMA SetStep == SetInv /\ [Next]_vars => SetInv'
<1> SUFFICES ASSUME SetInv, [Next]_vars PROVE SetInv'
  OBVIOUS
<1>1. CASE UNCHANGED vars
  <2>1. /\ UNCHANGED set /\ sources' = sources /\ dll' = dll /\ pc' = pc
        /\ loaded' = loaded /\ plan' = plan /\ ran' = ran /\ rate' = rate
    BY <1>1 DEF vars
  <2> QED
    BY <2>1 DEF SetInv, SetTypes, ManifestInv, WrittenInv, VerdictInv, Running, Made,
                Passes, BinaryIsRecorded, DecodesToWav, set
<1>2. CASE EditSources \/ Build
  BY <1>2, SetAround
<1>3. CASE \E archived \in BOOLEAN :
             \E tracks \in {Tracks} \cup {<<t>> : t \in TrackSet} : Start(tracks, archived)
  BY <1>3, SetStart
<1>4. CASE WriteContainer
  BY <1>4, SetContainer
<1>5. CASE Encoded
  BY <1>5, SetEncoded
<1>6. CASE WriteWav
  BY <1>6, SetWav
<1>7. CASE TrackDone
  BY <1>7, SetTrackDone
<1>8. CASE Archive
  BY <1>8, SetArchive
<1>9. CASE Record
  BY <1>9, SetRecord
<1>10. CASE Kill
  BY <1>10, SetKill
<1>11. CASE Verify
  BY <1>11, SetVerify
<1> QED
  BY <1>1, <1>2, <1>3, <1>4, <1>5, <1>6, <1>7, <1>8, <1>9, <1>10, <1>11 DEF Next

(* A verification that passes vouches for one build, whatever the runs     *)
(* before it (verify-lc3-listening-set.py:29-75).                          *)
THEOREM VerifiedIsOneBuild == Spec => []VerifiedSetIsOneBuild
<1>1. SetInv => VerifiedSetIsOneBuild
  <2> SUFFICES ASSUME SetInv, pc = "verified"
               PROVE  \E e \in 1 .. MaxEditions : MadeWith(e)
    BY DEF VerifiedSetIsOneBuild
  <2>1. Passes
    BY DEF SetInv, VerdictInv
  <2>2. PICK e \in Editions : Recorded(manifest, e)
    BY <2>1 DEF SetInv, ManifestInv, Passes
  <2>3. /\ DOMAIN manifest.wav = TrackSet
        /\ \A t \in TrackSet : manifest.wav[t] = e
    BY <2>2 DEF Recorded
  <2>4. MadeWith(e)
    BY <2>1, <2>2, <2>3 DEF MadeWith, Passes, BinaryIsRecorded, DecodesToWav, Recorded
  <2> QED
    BY <2>4 DEF Editions
<1> QED
  BY <1>1, SetInit, SetStep, PTL DEF Spec

(* A run of all tracks that ends leaves a set that verifies                *)
(* (make-lc3-listening-set.py:198-238).                                    *)
THEOREM FinishedVerifies == Spec => []FinishedSetVerifies
<1>1. SetInv => FinishedSetVerifies
  BY DEF SetInv, VerdictInv, FinishedSetVerifies
<1> QED
  BY <1>1, SetInit, SetStep, PTL DEF Spec

-----------------------------------------------------------------------------
(* One excerpt: the arithmetic of its frames.                              *)

(* The quotient by the frame. *)
LEMMA FrameQuotient ==
  ASSUME NEW a \in Int
  PROVE  a \div N \in Int /\ (a \div N) * N <= a /\ a < (a \div N) * N + N
<1>1. N \in Nat \ {0}
  BY StreamAssumption
<1>2. a \div N \in Int /\ a % N \in 0 .. N - 1
  BY <1>1
<1>3. a = N * (a \div N) + (a % N)
  BY <1>1
<1> QED
  BY <1>1, <1>2, <1>3

(* Multiples of the frame are ordered as their factors.                    *)
LEMMA Order ==
  ASSUME NEW a \in Int, NEW b \in Int, a * N < b * N
  PROVE  a < b
<1>1. N \in Nat \ {0}
  BY StreamAssumption
<1>2. CASE a >= b
  <2>1. (a - b) * N >= 0
    BY <1>1, <1>2
  <2>2. (a - b) * N = a * N - b * N
    BY <1>1
  <2> QED
    BY <2>1, <2>2, <1>1
<1> QED
  BY <1>2

-----------------------------------------------------------------------------
(* The excerpt lies in its source, with the music before it; what is       *)
(* encoded reaches beyond it by the delay and two frames.                  *)
LEMMA Geometry ==
  ASSUME track \in Excerpts, Length > Second
  PROVE  /\ Length \in Nat /\ PreRoll \in Nat /\ HistoryStart \in Nat
         /\ HistoryStart + PreRoll = track.start
         /\ PreRoll + Length <= InputEnd - HistoryStart /\ InputEnd \in Int
         /\ PaddedLength \in Int
         /\ PaddedLength >= PreRoll + Length + Delay + 2 * N
<1>1. /\ N \in Nat \ {0} /\ Second \in Nat \ {0} /\ Delay \in Nat
      /\ track.samples \in Nat /\ track.start \in Nat /\ track.duration \in Nat
  BY StreamAssumption
<1>2. /\ HistoryStart \in Nat /\ PreRoll \in Nat
      /\ HistoryStart + PreRoll = track.start
  BY <1>1 DEF HistoryStart, PreRoll
<1> DEFINE d == Least(track.duration, track.samples - track.start)
<1>3. d \in Int /\ d <= track.samples - track.start
  BY <1>1 DEF Least
<1>4. Length = (d \div N) * N
  BY DEF Length
<1> HIDE DEF d
<1>5. Length \in Int /\ Length <= d
  BY <1>1, <1>3, <1>4, FrameQuotient
<1>6. Length \in Nat /\ track.start + Length <= track.samples
  BY <1>1, <1>3, <1>5
<1>7. InputEnd \in Int /\ track.start + Length <= InputEnd
  <2>1. 2 * N \in Nat
    BY <1>1
  <2> DEFINE two == 2 * N
  <2>2. InputEnd = Least(track.samples, track.start + Length + Delay + two)
    BY DEF InputEnd, End
  <2>3. two \in Nat
    BY <2>1
  <2> HIDE DEF two
  <2> QED
    BY <1>1, <1>6, <2>2, <2>3 DEF Least
<1> DEFINE m == PreRoll + Length + Delay + 2 * N
<1>8. m \in Int /\ m + N - 1 \in Int
  BY <1>1, <1>2, <1>6
<1>9. PaddedLength = ((m + N - 1) \div N) * N
  BY DEF PaddedLength, Ceiling
<1> HIDE DEF m
<1>10. PaddedLength \in Int /\ PaddedLength >= m
  <2> DEFINE q == (m + N - 1) \div N
  <2>1. q \in Int /\ m + N - 1 < q * N + N /\ PaddedLength = q * N
    BY <1>8, <1>9, FrameQuotient
  <2>2. q * N \in Int
    BY <1>1, <2>1
  <2> HIDE DEF q
  <2> QED
    BY <1>1, <1>8, <2>1, <2>2
<1> QED
  BY <1>1, <1>2, <1>6, <1>7, <1>10 DEF m

(* Two sequences, one behind the other. *)
LEMMA Joined ==
  ASSUME NEW S, NEW s \in Seq(S), NEW t \in Seq(S)
  PROVE  /\ s \o t \in Seq(S) /\ Len(s \o t) = Len(s) + Len(t)
         /\ \A i \in 1 .. Len(s) : (s \o t)[i] = s[i]
         /\ \A i \in 1 .. Len(t) : (s \o t)[Len(s) + i] = t[i]
<1>1. /\ s \o t \in Seq(S) /\ Len(s \o t) = Len(s) + Len(t)
      /\ \A i \in 1 .. Len(s) + Len(t) :
           (s \o t)[i] = IF i <= Len(s) THEN s[i] ELSE t[i - Len(s)]
  BY ConcatProperties
<1> DEFINE a == Len(s)
           b == Len(t)
<1>2. a \in Nat /\ b \in Nat
  BY LenProperties
<1> HIDE DEF a, b
<1>3. ASSUME NEW i \in 1 .. a PROVE (s \o t)[i] = s[i]
  <2>1. i \in 1 .. a + b /\ i <= a
    BY <1>2
  <2> QED
    BY <1>1, <2>1 DEF a, b
<1>4. ASSUME NEW i \in 1 .. b PROVE (s \o t)[a + i] = t[i]
  <2>1. a + i \in 1 .. a + b /\ ~(a + i <= a) /\ (a + i) - a = i
    BY <1>2
  <2> QED
    BY <1>1, <2>1 DEF a, b
<1> QED
  BY <1>1, <1>3, <1>4 DEF a, b

(* A packet names its frame and channel behind two bytes of its own.       *)
LEMMA PacketFacts ==
  ASSUME size \in Sizes, NEW n \in Nat, NEW ch \in Channels
  PROVE  /\ PacketSize(n, ch) \in 22 .. 102
         /\ Packet(n, ch) \in Seq(Int) /\ Len(Packet(n, ch)) = PacketSize(n, ch)
         /\ Packet(n, ch)[1] = Identifier /\ Packet(n, ch)[2] = PacketSize(n, ch) - 2
         /\ Packet(n, ch)[3] = 1000 + 2 * n + ch
<1>1. size \in Seq(22 .. 102) /\ Len(size) \in Nat \ {0}
  BY StreamAssumption, EmptySeq
<1> DEFINE k == 2 * n + ch
<1>2. k \in Nat
  BY DEF Channels
<1>3. k % Len(size) \in 0 .. Len(size) - 1
  BY <1>1, <1>2
<1>4. PacketSize(n, ch) \in 22 .. 102
  <2>1. (k % Len(size)) + 1 \in 1 .. Len(size)
    BY <1>1, <1>3
  <2> QED
    BY <1>1, <2>1, ElementOfSeq DEF PacketSize
<1> DEFINE p == PacketSize(n, ch)
           head == <<Identifier, p - 2>>
           body == [j \in 1 .. p - 2 |-> 1000 + k]
<1>5. p \in 22 .. 102 /\ 1000 + k \in Int
  BY <1>2, <1>4
<1>6. Packet(n, ch) = head \o body
  <2>1. 1000 + k = 1000 + 2 * n + ch
    BY <1>2 DEF Channels
  <2> HIDE DEF k
  <2> QED
    BY <2>1 DEF Packet
<1> HIDE DEF k, p
<1>7. /\ head \in Seq(Int) /\ Len(head) = 2 /\ head[1] = Identifier
      /\ head[2] = p - 2
  BY <1>5 DEF Identifier
<1>8. body \in Seq(Int) /\ Len(body) = p - 2 /\ body[1] = 1000 + k
  BY <1>5
<1> HIDE DEF head, body
<1>9. 1 \in 1 .. 2 /\ 2 \in 1 .. 2 /\ 1 \in 1 .. p - 2
  BY <1>5
<1>10. /\ head \o body \in Seq(Int) /\ Len(head \o body) = Len(head) + Len(body)
       /\ \A i \in 1 .. Len(head) : (head \o body)[i] = head[i]
       /\ \A i \in 1 .. Len(body) : (head \o body)[Len(head) + i] = body[i]
  <2>1. head \in Seq(Int) /\ body \in Seq(Int)
    BY <1>7, <1>8
  <2> QED
    BY <2>1, Joined
<1>11. /\ (head \o body)[1] = head[1] /\ (head \o body)[2] = head[2]
       /\ (head \o body)[2 + 1] = body[1]
  BY <1>7, <1>8, <1>9, <1>10
<1>12. 2 + (p - 2) = p /\ 2 + 1 = 3
  BY <1>5
<1>13. Len(head \o body) = p
  BY <1>7, <1>8, <1>10, <1>12
<1>14. /\ head \o body \in Seq(Int) /\ (head \o body)[1] = Identifier
       /\ (head \o body)[2] = p - 2 /\ (head \o body)[3] = 1000 + k
  BY <1>7, <1>8, <1>10, <1>11, <1>12
<1>15. 1000 + k = 1000 + 2 * n + ch
  BY DEF k, Channels
<1> HIDE DEF k
<1> QED
  BY <1>5, <1>6, <1>13, <1>14, <1>15 DEF p

(* What was decoded of a channel when n frames were.                       *)
Samples(ch, n) == [k \in 1 .. n * N |-> <<ch, Stream(k - 1 - Delay)>>]
UpTo(n) == [ch \in Channels |-> Samples(ch, n)]
Values(ch) == {<<ch, Stream(k)>> : k \in Int}

(* They are a sequence of n frames.                                        *)
LEMMA SamplesFacts ==
  ASSUME NEW n \in Nat, NEW ch \in Channels
  PROVE  /\ Samples(ch, n) \in Seq(Values(ch)) /\ Len(Samples(ch, n)) = n * N
         /\ \A k \in 1 .. n * N : Samples(ch, n)[k] = <<ch, Stream(k - 1 - Delay)>>
<1> DEFINE l == n * N
<1>1. Delay \in Nat /\ l \in Nat
  BY StreamAssumption
<1>2. Samples(ch, n) = [k \in 1 .. l |-> <<ch, Stream(k - 1 - Delay)>>]
  BY DEF Samples
<1> HIDE DEF l
<1>3. ASSUME NEW k \in 1 .. l PROVE <<ch, Stream(k - 1 - Delay)>> \in Values(ch)
  <2>1. k - 1 - Delay \in Int
    BY <1>1, <1>2
  <2> QED
    BY <2>1 DEF Values
<1>4. /\ Samples(ch, n) \in Seq(Values(ch)) /\ Len(Samples(ch, n)) = l
      /\ \A k \in 1 .. l : Samples(ch, n)[k] = <<ch, Stream(k - 1 - Delay)>>
  <2> DEFINE V == Values(ch)
             W(k) == <<ch, Stream(k - 1 - Delay)>>
             f == Samples(ch, n)
  <2>1. f = [k \in 1 .. l |-> W(k)] /\ \A k \in 1 .. l : W(k) \in V
    BY <1>2, <1>3
  <2> HIDE DEF V, W, f
  <2>2. f \in Seq(V) /\ Len(f) = l /\ \A k \in 1 .. l : f[k] = W(k)
    BY <1>1, <2>1
  <2> QED
    BY <2>2 DEF V, W, f
<1> QED
  BY <1>4 DEF l

(* The decoder gives the next frame of the channel that a packet names.    *)
LEMMA NextFrame ==
  ASSUME NEW n \in Nat, NEW ch \in Channels, NEW p, p[3] = 1000 + 2 * n + ch
  PROVE  Samples(ch, n) \o Decoded(p, ch) = Samples(ch, n + 1)
<1>1. N \in Nat \ {0} /\ Delay \in Nat /\ ch \in 0 .. 1 /\ n + 1 \in Nat
  BY StreamAssumption DEF Channels
<1>2. (p[3] - 1000) \div 2 = n /\ (p[3] - 1000) % 2 = ch
  BY <1>1
<1> DEFINE a == n * N
           old == Samples(ch, n)
           new == Samples(ch, n + 1)
           d == Decoded(p, ch)
<1>3. d = [k \in 1 .. N |-> <<ch, Stream(a + k - 1 - Delay)>>]
  BY <1>2 DEF Decoded
<1>4. a \in Nat /\ (n + 1) * N = a + N
  BY <1>1
<1>5. /\ old \in Seq(Values(ch)) /\ Len(old) = a
      /\ \A k \in 1 .. a : old[k] = <<ch, Stream(k - 1 - Delay)>>
  BY SamplesFacts
<1>6. /\ new \in Seq(Values(ch)) /\ Len(new) = a + N
      /\ \A k \in 1 .. a + N : new[k] = <<ch, Stream(k - 1 - Delay)>>
  <2> DEFINE m == n + 1
  <2>1. m \in Nat /\ m * N = a + N
    BY <1>1, <1>4
  <2>2. new = Samples(ch, m)
    OBVIOUS
  <2> HIDE DEF a, m, new
  <2>3. /\ Samples(ch, m) \in Seq(Values(ch)) /\ Len(Samples(ch, m)) = m * N
        /\ \A k \in 1 .. m * N : Samples(ch, m)[k] = <<ch, Stream(k - 1 - Delay)>>
    <3>1. m \in Nat
      BY <2>1
    <3> QED
      BY <3>1, SamplesFacts, Zenon
  <2> QED
    BY <2>1, <2>2, <2>3
<1> HIDE DEF a, old, new, d
<1>7. ASSUME NEW k \in 1 .. N PROVE <<ch, Stream(a + k - 1 - Delay)>> \in Values(ch)
  <2>1. a + k - 1 - Delay \in Int
    BY <1>1, <1>4
  <2> QED
    BY <2>1 DEF Values
<1>8. /\ d \in Seq(Values(ch)) /\ Len(d) = N
      /\ \A k \in 1 .. N : d[k] = <<ch, Stream(a + k - 1 - Delay)>>
  <2> DEFINE V == Values(ch)
             W(k) == <<ch, Stream(a + k - 1 - Delay)>>
  <2>1. d = [k \in 1 .. N |-> W(k)] /\ \A k \in 1 .. N : W(k) \in V
    BY <1>3, <1>7
  <2> HIDE DEF V, W
  <2>2. d \in Seq(V) /\ Len(d) = N /\ \A k \in 1 .. N : d[k] = W(k)
    BY <1>1, <2>1
  <2> QED
    BY <2>2 DEF V, W
<1>9. /\ old \o d \in Seq(Values(ch)) /\ Len(old \o d) = Len(old) + Len(d)
      /\ \A i \in 1 .. Len(old) : (old \o d)[i] = old[i]
      /\ \A i \in 1 .. Len(d) : (old \o d)[Len(old) + i] = d[i]
  <2>1. old \in Seq(Values(ch)) /\ d \in Seq(Values(ch))
    BY <1>5, <1>8
  <2> QED
    BY <2>1, Joined
<1>10. ASSUME NEW i \in 1 .. a + N PROVE (old \o d)[i] = new[i]
  <2>1. CASE i <= a
    <3>1. i \in 1 .. a
      BY <1>1, <1>4, <2>1
    <3>2. (old \o d)[i] = old[i]
      BY <1>5, <1>9, <3>1
    <3>3. old[i] = <<ch, Stream(i - 1 - Delay)>>
      BY <1>5, <3>1
    <3> QED
      BY <1>6, <3>2, <3>3
  <2>2. CASE ~(i <= a)
    <3>1. i - a \in 1 .. N /\ a + (i - a) = i
      BY <1>1, <1>4, <2>2
    <3>2. (old \o d)[i] = d[i - a]
      <4>1. (old \o d)[Len(old) + (i - a)] = d[i - a]
        BY <1>8, <1>9, <3>1
      <4> QED
        BY <1>5, <3>1, <4>1
    <3>3. d[i - a] = <<ch, Stream(a + (i - a) - 1 - Delay)>>
      BY <1>8, <3>1
    <3>4. a + (i - a) - 1 - Delay = i - 1 - Delay
      BY <1>1, <1>4
    <3> QED
      BY <1>6, <3>2, <3>3, <3>4
  <2> QED
    BY <2>1, <2>2
<1>11. Len(old \o d) = Len(new)
  BY <1>5, <1>6, <1>8, <1>9
<1>12. old \o d = new
  <2>1. \A i \in 1 .. Len(old \o d) : (old \o d)[i] = new[i]
    BY <1>6, <1>10, <1>11
  <2> QED
    BY <1>6, <1>9, <1>11, <2>1, SeqEqual
<1> QED
  BY <1>12 DEF old, d, new

-----------------------------------------------------------------------------
(* The archive: where each record begins, what stands at its places.       *)
PacketAt(P, o, n, ch) ==
  /\ P[o + 1] = Identifier /\ P[o + 2] = PacketSize(n, ch) - 2
  /\ P[o + 3] = 1000 + 2 * n + ch
RecordAt(P, o, n) ==
  /\ P[o + 1] = PacketSize(n, 0) /\ P[o + 2] = PacketSize(n, 1)
  /\ PacketAt(P, o + 2, n, 0) /\ PacketAt(P, o + 2 + PacketSize(n, 0), n, 1)
RecordSize(n) == 2 + PacketSize(n, 0) + PacketSize(n, 1)
Layout(off, P, l) ==
  /\ off \in [0 .. l -> Nat] /\ off[0] = 0 /\ off[l] = Len(P)
  /\ \A n \in 0 .. l - 1 :
       /\ RecordAt(P, off[n], n) /\ off[n + 1] = off[n] + RecordSize(n)
       /\ off[n + 1] <= Len(P)

(* Packets and records have a size. *)
LEMMA SizeFacts ==
  ASSUME size \in Sizes, NEW n \in Nat
  PROVE  /\ PacketSize(n, 0) \in 22 .. 102 /\ PacketSize(n, 1) \in 22 .. 102
         /\ RecordSize(n) \in Nat
         /\ RecordSize(n) = 2 + PacketSize(n, 0) + PacketSize(n, 1)
<1>1. 0 \in Channels /\ 1 \in Channels
  BY DEF Channels
<1>2. \A ch \in Channels : PacketSize(n, ch) \in 22 .. 102
  BY PacketFacts
<1>3. PacketSize(n, 0) \in 22 .. 102 /\ PacketSize(n, 1) \in 22 .. 102
  BY <1>1, <1>2
<1>4. RecordSize(n) = 2 + PacketSize(n, 0) + PacketSize(n, 1)
  BY DEF RecordSize
<1> QED
  BY <1>3, <1>4

(* The places of a record that the verifier looks at. *)
LEMMA Looked ==
  ASSUME NEW a \in 22 .. 102, NEW b \in 22 .. 102, NEW o \in Nat
  PROVE  /\ {1, 2, 3, 4, 5, a + 3, a + 4, a + 5} \subseteq 1 .. 2 + a + b
         /\ o + 2 + 1 = o + 3 /\ o + 2 + 2 = o + 4 /\ o + 2 + 3 = o + 5
         /\ o + 2 + a + 1 = o + (a + 3) /\ o + 2 + a + 2 = o + (a + 4)
         /\ o + 2 + a + 3 = o + (a + 5)
OBVIOUS

(* The same bytes, from another place on, are the same record. *)
LEMMA SameRecord ==
  ASSUME size \in Sizes, NEW n \in Nat, NEW P, NEW R, NEW o \in Nat, NEW e \in Nat,
         RecordAt(P, o, n), \A i \in 1 .. RecordSize(n) : R[e + i] = P[o + i]
  PROVE  RecordAt(R, e, n)
<1> DEFINE a == PacketSize(n, 0)
           b == PacketSize(n, 1)
           At(Q, f) == /\ Q[f + 1] = a /\ Q[f + 2] = b /\ Q[f + 2 + 1] = Identifier
                       /\ Q[f + 2 + 2] = a - 2 /\ Q[f + 2 + 3] = 1000 + 2 * n + 0
                       /\ Q[f + 2 + a + 1] = Identifier /\ Q[f + 2 + a + 2] = b - 2
                       /\ Q[f + 2 + a + 3] = 1000 + 2 * n + 1
<1>1. a \in 22 .. 102 /\ b \in 22 .. 102 /\ RecordSize(n) = 2 + a + b
  BY SizeFacts
<1>2. At(P, o) /\ (At(R, e) => RecordAt(R, e, n))
  BY DEF RecordAt, PacketAt
<1> HIDE DEF a, b
<1>3. \A i \in {1, 2, 3, 4, 5, a + 3, a + 4, a + 5} : R[e + i] = P[o + i]
  BY <1>1, Looked
<1>4. /\ o + 2 + 1 = o + 3 /\ o + 2 + 2 = o + 4 /\ o + 2 + 3 = o + 5
      /\ o + 2 + a + 1 = o + (a + 3) /\ o + 2 + a + 2 = o + (a + 4)
      /\ o + 2 + a + 3 = o + (a + 5)
  BY <1>1, Looked
<1>5. /\ e + 2 + 1 = e + 3 /\ e + 2 + 2 = e + 4 /\ e + 2 + 3 = e + 5
      /\ e + 2 + a + 1 = e + (a + 3) /\ e + 2 + a + 2 = e + (a + 4)
      /\ e + 2 + a + 3 = e + (a + 5)
  BY <1>1, Looked
<1>6. /\ R[e + 1] = P[o + 1] /\ R[e + 2] = P[o + 2] /\ R[e + 3] = P[o + 3]
      /\ R[e + 4] = P[o + 4] /\ R[e + 5] = P[o + 5] /\ R[e + (a + 3)] = P[o + (a + 3)]
      /\ R[e + (a + 4)] = P[o + (a + 4)] /\ R[e + (a + 5)] = P[o + (a + 5)]
  BY <1>3
<1>7. At(R, e)
  BY <1>2, <1>4, <1>5, <1>6
<1> QED
  BY <1>2, <1>7

(* What the maker writes for a frame is a record of it.                    *)
LEMMA FramedFacts ==
  ASSUME size \in Sizes, NEW n \in Nat, NEW F, F = Framed(Packet(n, 0), Packet(n, 1))
  PROVE  F \in Seq(Int) /\ Len(F) = RecordSize(n) /\ RecordAt(F, 0, n)
<1> DEFINE left == Packet(n, 0)
           right == Packet(n, 1)
           a == PacketSize(n, 0)
           b == PacketSize(n, 1)
           two == <<Len(left), Len(right)>>
<1>1. 0 \in Channels /\ 1 \in Channels
  BY DEF Channels
<1>2. /\ a \in 22 .. 102 /\ left \in Seq(Int) /\ Len(left) = a /\ left[1] = Identifier
      /\ left[2] = a - 2 /\ left[3] = 1000 + 2 * n + 0
  BY <1>1, PacketFacts
<1>3. /\ b \in 22 .. 102 /\ right \in Seq(Int) /\ Len(right) = b
      /\ right[1] = Identifier /\ right[2] = b - 2 /\ right[3] = 1000 + 2 * n + 1
  BY <1>1, PacketFacts
<1>4. F = (two \o left) \o right
  BY DEF Framed
<1>5. RecordSize(n) = 2 + a + b
  BY DEF RecordSize
<1>6. RecordAt(F, 0, n) <=>
        /\ F[0 + 1] = a /\ F[0 + 2] = b
        /\ F[0 + 2 + 1] = Identifier /\ F[0 + 2 + 2] = a - 2
        /\ F[0 + 2 + 3] = 1000 + 2 * n + 0
        /\ F[0 + 2 + a + 1] = Identifier /\ F[0 + 2 + a + 2] = b - 2
        /\ F[0 + 2 + a + 3] = 1000 + 2 * n + 1
  BY DEF RecordAt, PacketAt
<1> HIDE DEF left, right, a, b
<1>7. two \in Seq(Int) /\ Len(two) = 2 /\ two[1] = a /\ two[2] = b
  BY <1>2, <1>3
<1> DEFINE front == two \o left
<1> HIDE DEF two
<1>8. /\ front \in Seq(Int) /\ Len(front) = Len(two) + Len(left)
      /\ \A i \in 1 .. Len(two) : front[i] = two[i]
      /\ \A i \in 1 .. Len(left) : front[Len(two) + i] = left[i]
  <2>1. two \in Seq(Int) /\ left \in Seq(Int)
    BY <1>2, <1>7
  <2> QED
    BY <2>1, Joined
<1> HIDE DEF front
<1>9. /\ F \in Seq(Int) /\ Len(F) = Len(front) + Len(right)
      /\ \A i \in 1 .. Len(front) : F[i] = front[i]
      /\ \A i \in 1 .. Len(right) : F[Len(front) + i] = right[i]
  <2>1. front \in Seq(Int) /\ right \in Seq(Int) /\ F = front \o right
    BY <1>3, <1>4, <1>8 DEF front
  <2>2. /\ front \o right \in Seq(Int) /\ Len(front \o right) = Len(front) + Len(right)
        /\ \A i \in 1 .. Len(front) : (front \o right)[i] = front[i]
        /\ \A i \in 1 .. Len(right) : (front \o right)[Len(front) + i] = right[i]
    BY <2>1, Joined
  <2> QED
    BY <2>1, <2>2
<1>10. Len(front) = 2 + a /\ Len(two) = 2 /\ Len(left) = a /\ Len(right) = b
  BY <1>2, <1>3, <1>7, <1>8
<1>11. ASSUME NEW i \in 1 .. 2 PROVE F[i] = two[i]
  <2>1. i \in 1 .. 2 + a
    BY <1>2
  <2> QED
    BY <1>8, <1>9, <1>10, <2>1
<1>12. ASSUME NEW i \in 1 .. a PROVE F[2 + i] = left[i]
  <2>1. 2 + i \in 1 .. 2 + a
    BY <1>2
  <2> QED
    BY <1>8, <1>9, <1>10, <2>1
<1>13. ASSUME NEW i \in 1 .. b PROVE F[2 + a + i] = right[i]
  BY <1>9, <1>10
<1>14. F[1] = a /\ F[2] = b
  <2>1. 1 \in 1 .. 2 /\ 2 \in 1 .. 2
    OBVIOUS
  <2> QED
    BY <1>7, <1>11, <2>1
<1>15. 1 \in 1 .. a /\ 2 \in 1 .. a /\ 3 \in 1 .. a
  BY <1>2
<1>16. 1 \in 1 .. b /\ 2 \in 1 .. b /\ 3 \in 1 .. b
  BY <1>3
<1>17. F[2 + 1] = left[1] /\ F[2 + 2] = left[2] /\ F[2 + 3] = left[3]
  BY <1>12, <1>15
<1>18. F[2 + a + 1] = right[1] /\ F[2 + a + 2] = right[2] /\ F[2 + a + 3] = right[3]
  BY <1>13, <1>16
<1>19. 0 + 1 = 1 /\ 0 + 2 = 2
  OBVIOUS
<1>20. RecordAt(F, 0, n)
  BY <1>2, <1>3, <1>6, <1>14, <1>17, <1>18, <1>19
<1>21. Len(F) = 2 + a + b
  BY <1>9, <1>10
<1> QED
  BY <1>5, <1>9, <1>20, <1>21

(* A record more makes a longer archive.                                   *)
LEMMA ArchiveGrows ==
  ASSUME size \in Sizes, NEW P \in Seq(Int), NEW l \in Nat, NEW off, Layout(off, P, l),
         NEW R, R = P \o Framed(Packet(l, 0), Packet(l, 1))
  PROVE  R \in Seq(Int) /\ \E new : Layout(new, R, l + 1)
<1> DEFINE F == Framed(Packet(l, 0), Packet(l, 1))
           c == Len(P)
           d == RecordSize(l)
<1>1. F \in Seq(Int) /\ Len(F) = d /\ RecordAt(F, 0, l)
  BY FramedFacts
<1>2. c \in Nat
  BY LenProperties
<1>3. \A n \in Nat : RecordSize(n) \in Nat
  BY SizeFacts
<1>4. R = P \o F
  OBVIOUS
<1> HIDE DEF F, d
<1>5. /\ R \in Seq(Int) /\ Len(R) = Len(P) + Len(F)
      /\ \A i \in 1 .. Len(P) : R[i] = P[i]
      /\ \A i \in 1 .. Len(F) : R[Len(P) + i] = F[i]
  <2>1. /\ P \o F \in Seq(Int) /\ Len(P \o F) = Len(P) + Len(F)
        /\ \A i \in 1 .. Len(P) : (P \o F)[i] = P[i]
        /\ \A i \in 1 .. Len(F) : (P \o F)[Len(P) + i] = F[i]
    <3>1. F \in Seq(Int)
      BY <1>1
    <3> QED
      BY <3>1, Joined
  <2> QED
    BY <1>4, <2>1
<1>6. d \in Nat /\ Len(R) = c + d
  BY <1>1, <1>3, <1>5 DEF d
<1> DEFINE new == [n \in 0 .. l + 1 |-> IF n <= l THEN off[n] ELSE c + d]
<1>7. /\ off \in [0 .. l -> Nat] /\ off[0] = 0 /\ off[l] = c
      /\ \A n \in 0 .. l - 1 :
           /\ RecordAt(P, off[n], n) /\ off[n + 1] = off[n] + RecordSize(n)
           /\ off[n + 1] <= c
  BY DEF Layout
<1>8. /\ new \in [0 .. l + 1 -> Nat] /\ new[0] = 0 /\ new[l + 1] = c + d
      /\ \A n \in 0 .. l : new[n] = off[n]
  BY <1>2, <1>6, <1>7
<1> HIDE DEF new
<1>9. ASSUME NEW n \in 0 .. l - 1
      PROVE  RecordAt(R, off[n], n)
  <2> DEFINE o == off[n]
  <2>1. n \in 0 .. l /\ n \in Nat
    BY <1>7
  <2>2. o \in Nat /\ RecordSize(n) \in Nat
    BY <1>3, <1>7, <2>1
  <2>3. off[n + 1] = o + RecordSize(n) /\ off[n + 1] <= c /\ RecordAt(P, o, n)
    BY <1>7
  <2>4. o + RecordSize(n) <= c /\ RecordAt(P, o, n)
    BY <2>3
  <2> HIDE DEF o
  <2>5. ASSUME NEW i \in 1 .. RecordSize(n) PROVE R[o + i] = P[o + i]
    <3>1. o + i \in 1 .. c
      BY <1>2, <2>2, <2>4
    <3> QED
      BY <1>5, <3>1
  <2>6. RecordAt(R, o, n)
    BY <2>1, <2>2, <2>4, <2>5, SameRecord
  <2> QED
    BY <2>6 DEF o
<1>10. RecordAt(R, c, l)
  <2>1. \A i \in 1 .. RecordSize(l) : R[c + i] = F[0 + i]
    <3>1. ASSUME NEW i \in 1 .. d PROVE R[c + i] = F[i] /\ 0 + i = i
      BY <1>1, <1>5, <1>6
    <3> QED
      BY <3>1 DEF d
  <2>2. RecordAt(F, 0, l)
    BY <1>1
  <2> HIDE DEF c
  <2> QED
    BY <1>2, <2>1, <2>2, SameRecord
<1>11. ASSUME NEW n \in 0 .. (l + 1) - 1
       PROVE  /\ RecordAt(R, new[n], n) /\ new[n + 1] = new[n] + RecordSize(n)
              /\ new[n + 1] <= Len(R)
  <2>1. CASE n = l
    <3>1. new[n] = c /\ new[n + 1] = c + d /\ RecordSize(n) = d
      BY <1>7, <1>8, <2>1 DEF d
    <3> QED
      BY <1>2, <1>6, <1>10, <2>1, <3>1
  <2>2. CASE n # l
    <3>1. n \in 0 .. l - 1 /\ n \in 0 .. l /\ n + 1 \in 0 .. l
      BY <2>2
    <3>2. new[n] = off[n] /\ new[n + 1] = off[n + 1]
      BY <1>8, <3>1
    <3>3. off[n + 1] \in Nat /\ off[n + 1] <= c
      BY <1>7, <3>1
    <3> QED
      BY <1>2, <1>6, <1>7, <1>9, <3>1, <3>2, <3>3
  <2> QED
    BY <2>1, <2>2
<1>12. Layout(new, R, l + 1)
  BY <1>6, <1>8, <1>11 DEF Layout
<1> QED
  BY <1>5, <1>12

(* The verifier's slices are what stands there. *)
LEMMA SliceFacts ==
  ASSUME packets \in Seq(Int), NEW from \in Nat, NEW len \in Nat,
         from + len <= Len(packets)
  PROVE  /\ Slice(from, len) \in Seq(Int) /\ Len(Slice(from, len)) = len
         /\ \A i \in 1 .. len : Slice(from, len)[i] = packets[from + i]
<1>1. Len(packets) \in Nat /\ \A i \in 1 .. Len(packets) : packets[i] \in Int
  BY ElementOfSeq, LenProperties
<1> DEFINE m == from + 1
           n == from + len
           s == SubSeq(packets, m, n)
<1>2. Slice(from, len) = s
  BY <1>1 DEF Slice, Least
<1>3. m \in Int /\ n \in Int /\ \A i \in m .. n : packets[i] \in Int
  BY <1>1
<1>4. (m <= n => n - m + 1 = len) /\ (~(m <= n) => len = 0) /\ n - m + 1 = len
  OBVIOUS
<1> HIDE DEF m, n
<1>5. /\ s \in Seq(Int) /\ Len(s) = (IF m <= n THEN n - m + 1 ELSE 0)
      /\ \A i \in 1 .. n - m + 1 : s[i] = packets[m + i - 1]
  BY <1>3, SubSeqProperties
<1> HIDE DEF s
<1>6. Len(s) = len
  BY <1>4, <1>5
<1>7. ASSUME NEW i \in 1 .. len PROVE s[i] = packets[from + i]
  <2>1. s[i] = packets[m + i - 1]
    BY <1>4, <1>5
  <2>2. m + i - 1 = from + i
    BY DEF m
  <2> QED
    BY <2>1, <2>2
<1> QED
  BY <1>2, <1>5, <1>6, <1>7

-----------------------------------------------------------------------------
(* The maker has decoded what it has encoded, and saves when all of it is; *)
(* the verifier has decoded what it has read.                              *)
PhaseInv ==
  /\ phase \in {"cut", "encode", "saved", "parse", "checked", "raised", "refused"}
  /\ phase \notin {"cut", "refused"} => Length > Second
  /\ phase = "raised" => Length < 2 * Second + MaxLag
StreamTypes ==
  /\ track \in Excerpts /\ size \in Sizes /\ seq \in Nat /\ packets \in Seq(Int)
  /\ lengths \in Seq(Int)
EncodedInv ==
  /\ y = UpTo(Len(lengths))
  /\ phase \in {"cut", "encode"} => seq = Len(lengths)
  /\ phase \in {"saved", "parse", "checked", "raised"} => Len(lengths) * N = PaddedLength
DecodedInv ==
  /\ phase \in {"parse", "checked", "raised"} => seq <= Len(lengths) /\ decoded = UpTo(seq)
  /\ phase \notin {"parse", "checked", "raised"} => decoded = UpTo(0)
ArchiveInv ==
  \E off : /\ Layout(off, packets, Len(lengths))
           /\ phase = "parse" => offset = off[seq]

StreamInv == PhaseInv /\ StreamTypes /\ EncodedInv /\ DecodedInv /\ ArchiveInv

(* Nothing is encoded and nothing decoded.                                 *)
LEMMA NothingYet == UpTo(0) = [ch \in Channels |-> <<>>]
<1>1. ASSUME NEW ch \in Channels PROVE Samples(ch, 0) = <<>>
  <2>1. Samples(ch, 0) \in Seq(Values(ch)) /\ Len(Samples(ch, 0)) = 0 * N
    BY SamplesFacts
  <2>2. 0 * N = 0
    BY StreamAssumption
  <2> QED
    BY <2>1, <2>2, EmptySeq
<1> QED
  BY <1>1 DEF UpTo

(* It holds at the start: of nothing there is nothing.                     *)
LEMMA StreamInitial == StreamInit => StreamInv
<1> SUFFICES ASSUME StreamInit PROVE StreamInv
  OBVIOUS
<1>1. /\ phase = "cut" /\ track \in Excerpts /\ size \in Sizes /\ seq = 0
      /\ y = [ch \in Channels |-> <<>>] /\ packets = <<>> /\ lengths = <<>>
      /\ decoded = [ch \in Channels |-> <<>>]
  BY DEF StreamInit
<1>2. Len(lengths) = 0 /\ Len(packets) = 0 /\ lengths \in Seq(Int) /\ packets \in Seq(Int)
  BY <1>1, EmptySeq
<1>3. PhaseInv /\ StreamTypes
  BY <1>1, <1>2 DEF PhaseInv, StreamTypes
<1>4. EncodedInv /\ DecodedInv
  BY <1>1, <1>2, NothingYet DEF EncodedInv, DecodedInv
<1> DEFINE off == [n \in 0 .. 0 |-> 0]
<1>5. off \in [0 .. 0 -> Nat] /\ off[0] = 0
  OBVIOUS
<1>6. 0 .. 0 - 1 = {}
  OBVIOUS
<1> HIDE DEF off
<1>7. Layout(off, packets, Len(lengths))
  BY <1>2, <1>5, <1>6 DEF Layout
<1>8. ArchiveInv
  BY <1>1, <1>7 DEF ArchiveInv
<1> QED
  BY <1>3, <1>4, <1>8 DEF StreamInv

(* What depends on the excerpt and the lengths alone does not change.      *)
LEMMA Fixed ==
  ASSUME track' = track, size' = size
  PROVE  /\ Length' = Length /\ PaddedLength' = PaddedLength
         /\ \A n : UpTo(n)' = UpTo(n)
         /\ \A off, P, l : Layout(off, P, l)' = Layout(off, P, l)
<1>1. Length' = Length /\ PaddedLength' = PaddedLength
  BY DEF Length, PaddedLength, PreRoll, HistoryStart, Ceiling
<1>2. ASSUME NEW n PROVE UpTo(n)' = UpTo(n)
  BY DEF UpTo, Samples, Stream, InputEnd, HistoryStart, End, Length
<1>3. ASSUME NEW off, NEW P, NEW l PROVE Layout(off, P, l)' = Layout(off, P, l)
  BY DEF Layout, RecordAt, PacketAt, RecordSize, PacketSize
<1> QED
  BY <1>1, <1>2, <1>3

(* Only the phase changes. *)
LEMMA PhaseStep ==
  ASSUME StreamInv, UNCHANGED <<track, size, y, packets, lengths, decoded>>,
         UNCHANGED <<seq, offset>>
  PROVE  /\ StreamTypes' /\ y' = UpTo(Len(lengths))'
         /\ UpTo(0)' = UpTo(0) /\ UpTo(seq)' = UpTo(seq)
         /\ Length' = Length /\ PaddedLength' = PaddedLength
         /\ \A off : Layout(off, packets, Len(lengths))' = Layout(off, packets, Len(lengths))
<1>1. /\ track' = track /\ size' = size /\ y' = y /\ packets' = packets
      /\ lengths' = lengths /\ decoded' = decoded /\ seq' = seq
  OBVIOUS
<1>2. /\ UpTo(0)' = UpTo(0) /\ UpTo(seq)' = UpTo(seq)
      /\ UpTo(Len(lengths))' = UpTo(Len(lengths))
  BY <1>1, Fixed
<1>3. \A off : Layout(off, packets, Len(lengths))' = Layout(off, packets, Len(lengths))
  BY <1>1, Fixed
<1>4. StreamTypes' /\ y' = UpTo(Len(lengths))'
  BY <1>1, <1>2 DEF StreamInv, StreamTypes, EncodedInv
<1> QED
  BY <1>1, <1>2, <1>3, <1>4, Fixed

(* An excerpt longer than a second is encoded.                             *)
LEMMA StreamCut == StreamInv /\ Cut => StreamInv'
<1> SUFFICES ASSUME StreamInv, Cut PROVE StreamInv'
  OBVIOUS
<1>1. /\ UNCHANGED <<track, size, y, packets, lengths, decoded>>
      /\ UNCHANGED <<seq, offset>>
      /\ phase = "cut" /\ phase' = (IF Length > Second THEN "encode" ELSE "refused")
  BY DEF Cut
<1>2. /\ StreamTypes' /\ y' = UpTo(Len(lengths))' /\ UpTo(0)' = UpTo(0)
      /\ Length' = Length
      /\ \A off : Layout(off, packets, Len(lengths))' = Layout(off, packets, Len(lengths))
  BY <1>1, PhaseStep
<1>3. PhaseInv'
  BY <1>1, <1>2 DEF PhaseInv
<1>4. EncodedInv' /\ DecodedInv'
  BY <1>1, <1>2 DEF StreamInv, EncodedInv, DecodedInv
<1>5. ArchiveInv'
  BY <1>1, <1>2 DEF StreamInv, ArchiveInv
<1> QED
  BY <1>2, <1>3, <1>4, <1>5 DEF StreamInv

(* All of the padded stream is decoded when it is saved.                   *)
LEMMA StreamSave == StreamInv /\ Save => StreamInv'
<1> SUFFICES ASSUME StreamInv, Save PROVE StreamInv'
  OBVIOUS
<1>1. /\ UNCHANGED <<track, size, y, packets, lengths, decoded>>
      /\ UNCHANGED <<seq, offset>>
      /\ phase = "encode" /\ phase' = "saved" /\ seq * N = PaddedLength
  BY DEF Save
<1>2. /\ StreamTypes' /\ y' = UpTo(Len(lengths))' /\ UpTo(0)' = UpTo(0)
      /\ Length' = Length /\ PaddedLength' = PaddedLength
      /\ \A off : Layout(off, packets, Len(lengths))' = Layout(off, packets, Len(lengths))
  BY <1>1, PhaseStep
<1>3. PhaseInv'
  BY <1>1, <1>2 DEF StreamInv, PhaseInv
<1>4. seq = Len(lengths)
  BY <1>1 DEF StreamInv, EncodedInv
<1>5. Len(lengths') * N = PaddedLength'
  BY <1>1, <1>2, <1>4
<1>6. EncodedInv' /\ DecodedInv'
  BY <1>1, <1>2, <1>5 DEF StreamInv, EncodedInv, DecodedInv
<1>7. ArchiveInv'
  BY <1>1, <1>2 DEF StreamInv, ArchiveInv
<1> QED
  BY <1>2, <1>3, <1>6, <1>7 DEF StreamInv

(* The verifier starts at the first record.                                *)
LEMMA StreamVerify == StreamInv /\ StartVerify => StreamInv'
<1> SUFFICES ASSUME StreamInv, StartVerify PROVE StreamInv'
  OBVIOUS
<1>1. /\ track' = track /\ size' = size /\ y' = y /\ packets' = packets
      /\ lengths' = lengths /\ decoded' = decoded /\ phase = "saved"
      /\ phase' = "parse" /\ seq' = 0 /\ offset' = 0
  BY DEF StartVerify
<1>2. /\ UpTo(0)' = UpTo(0) /\ UpTo(Len(lengths))' = UpTo(Len(lengths))
      /\ Length' = Length /\ PaddedLength' = PaddedLength
      /\ \A off : Layout(off, packets, Len(lengths))' = Layout(off, packets, Len(lengths))
  BY <1>1, Fixed
<1>3. Len(lengths) \in Nat
  BY LenProperties DEF StreamInv, StreamTypes
<1>4. StreamTypes' /\ PhaseInv'
  BY <1>1, <1>2 DEF StreamInv, StreamTypes, PhaseInv
<1>5. EncodedInv' /\ DecodedInv'
  BY <1>1, <1>2, <1>3 DEF StreamInv, EncodedInv, DecodedInv
<1>6. PICK off : Layout(off, packets, Len(lengths))
  BY DEF StreamInv, ArchiveInv
<1>7. off[0] = 0 /\ Layout(off, packets, Len(lengths))'
  BY <1>2, <1>6 DEF Layout
<1>8. ArchiveInv'
  BY <1>1, <1>7 DEF ArchiveInv
<1> QED
  BY <1>4, <1>5, <1>8 DEF StreamInv

(* A frame is encoded, decoded and archived. *)
LEMMA StreamEncode == StreamInv /\ EncodeFrame => StreamInv'
<1> SUFFICES ASSUME StreamInv, EncodeFrame PROVE StreamInv'
  OBVIOUS
<1> DEFINE left == Packet(seq, 0)
           right == Packet(seq, 1)
<1>1. /\ track' = track /\ size' = size /\ decoded' = decoded /\ phase = "encode"
      /\ phase' = phase /\ seq' = seq + 1
      /\ y' = [ch \in Channels |-> y[ch] \o Decoded(IF ch = 0 THEN left ELSE right, ch)]
      /\ lengths' = Append(lengths, Len(left) + Len(right))
      /\ packets' = packets \o Framed(left, right)
  BY DEF EncodeFrame
<1>2. /\ seq \in Nat /\ seq = Len(lengths) /\ lengths \in Seq(Int) /\ size \in Sizes
      /\ packets \in Seq(Int) /\ y = UpTo(seq)
  BY <1>1 DEF StreamInv, StreamTypes, EncodedInv
<1>3. \A ch \in Channels : Packet(seq, ch) \in Seq(Int) /\ Len(Packet(seq, ch)) \in Nat
                           /\ Packet(seq, ch)[3] = 1000 + 2 * seq + ch
  <2>1. \A ch \in Channels : Packet(seq, ch) \in Seq(Int)
                             /\ Packet(seq, ch)[3] = 1000 + 2 * seq + ch
    BY <1>2, PacketFacts
  <2> QED
    BY <2>1, LenProperties
<1>4. \A ch \in Channels : (IF ch = 0 THEN left ELSE right) = Packet(seq, ch)
  BY DEF Channels
<1>5. Len(left) + Len(right) \in Int
  BY <1>3 DEF Channels
<1> HIDE DEF left, right
<1>6. lengths' \in Seq(Int) /\ Len(lengths') = seq + 1
  BY <1>1, <1>2, <1>5, AppendProperties
<1>7. y' = UpTo(seq + 1)
  <2>1. ASSUME NEW ch \in Channels PROVE y'[ch] = Samples(ch, seq + 1)
    <3>1. y'[ch] = Samples(ch, seq) \o Decoded(Packet(seq, ch), ch)
      BY <1>1, <1>2, <1>4 DEF UpTo
    <3> QED
      BY <1>2, <1>3, <3>1, NextFrame
  <2>2. y' = [ch \in Channels |-> y'[ch]]
    BY <1>1
  <2> QED
    BY <2>1, <2>2 DEF UpTo
<1>8. /\ UpTo(0)' = UpTo(0) /\ UpTo(Len(lengths))' = UpTo(seq + 1) /\ Length' = Length
      /\ \A off : Layout(off, packets, Len(lengths))' = Layout(off, packets', seq + 1)
  <2>1. /\ Length' = Length /\ \A n : UpTo(n)' = UpTo(n)
        /\ \A off, P, l : Layout(off, P, l)' = Layout(off, P, l)
    BY <1>1, Fixed
  <2> QED
    BY <1>6, <2>1
<1>9. PICK off : Layout(off, packets, seq)
  BY <1>2 DEF StreamInv, ArchiveInv
<1>10. packets' \in Seq(Int) /\ \E new : Layout(new, packets', seq + 1)
  <2> DEFINE R == packets \o Framed(left, right)
  <2>1. R = packets \o Framed(Packet(seq, 0), Packet(seq, 1))
    BY DEF left, right
  <2> HIDE DEF R
  <2>2. R \in Seq(Int) /\ \E new : Layout(new, R, seq + 1)
    BY <1>2, <1>9, <2>1, ArchiveGrows
  <2>3. packets' = R
    BY <1>1 DEF R
  <2> QED
    BY <2>2, <2>3
<1>11. StreamTypes' /\ PhaseInv'
  BY <1>1, <1>2, <1>6, <1>8, <1>10 DEF StreamInv, StreamTypes, PhaseInv
<1>12. EncodedInv' /\ DecodedInv'
  BY <1>1, <1>6, <1>7, <1>8 DEF StreamInv, EncodedInv, DecodedInv
<1>13. ArchiveInv'
  BY <1>1, <1>8, <1>10 DEF ArchiveInv
<1> QED
  BY <1>11, <1>12, <1>13 DEF StreamInv

(* The verifier's slice of a packet is valid, and names frame and channel. *)
LEMMA PacketRead ==
  ASSUME packets \in Seq(Int), NEW o \in Nat, NEW n, NEW ch, PacketAt(packets, o, n, ch),
         PacketSize(n, ch) \in 22 .. 102, o + PacketSize(n, ch) <= Len(packets),
         NEW p, p = Slice(o, PacketSize(n, ch))
  PROVE  Valid(p, PacketSize(n, ch)) /\ p[3] = 1000 + 2 * n + ch
<1> DEFINE a == PacketSize(n, ch)
<1>1. /\ packets[o + 1] = Identifier /\ packets[o + 2] = a - 2
      /\ packets[o + 3] = 1000 + 2 * n + ch
  BY DEF PacketAt
<1>2. a \in 22 .. 102 /\ o + a <= Len(packets)
  OBVIOUS
<1>3. p = Slice(o, a)
  OBVIOUS
<1> HIDE DEF a
<1>4. a \in Nat
  BY <1>2
<1>5. Len(p) = a /\ \A i \in 1 .. a : p[i] = packets[o + i]
  BY <1>2, <1>3, <1>4, SliceFacts
<1>6. 1 \in 1 .. a /\ 2 \in 1 .. a /\ 3 \in 1 .. a
  BY <1>2
<1>7. p[1] = Identifier /\ p[2] = a - 2 /\ p[3] = 1000 + 2 * n + ch
  BY <1>1, <1>5, <1>6
<1>8. Valid(p, a)
  BY <1>2, <1>5, <1>7 DEF Valid
<1> QED
  BY <1>7, <1>8 DEF a

(* The verifier finds the next record whole, and decodes its frame.        *)
LEMMA StreamParse == StreamInv /\ ParseFrame => StreamInv'
<1> SUFFICES ASSUME StreamInv, ParseFrame PROVE StreamInv'
  OBVIOUS
<1> DEFINE a == PacketSize(seq, 0)
           b == PacketSize(seq, 1)
           two == Slice(offset, 2)
           left == Slice(offset + 2, two[1])
           right == Slice(offset + 2 + two[1], two[2])
<1>1. /\ track' = track /\ size' = size /\ y' = y /\ packets' = packets
      /\ lengths' = lengths /\ phase = "parse" /\ seq < Len(lengths)
  BY DEF ParseFrame
<1>2. /\ seq \in Nat /\ Len(lengths) \in Nat /\ size \in Sizes /\ packets \in Seq(Int)
      /\ decoded = UpTo(seq) /\ Len(packets) \in Nat
  BY <1>1, LenProperties DEF StreamInv, StreamTypes, DecodedInv
<1>3. PICK off : Layout(off, packets, Len(lengths)) /\ offset = off[seq]
  BY <1>1 DEF StreamInv, ArchiveInv
<1>4. /\ offset \in Nat /\ RecordAt(packets, offset, seq)
      /\ off[seq + 1] = offset + RecordSize(seq) /\ off[seq + 1] <= Len(packets)
  <2>1. seq \in 0 .. Len(lengths) - 1 /\ seq \in 0 .. Len(lengths)
    BY <1>1, <1>2
  <2> QED
    BY <1>3, <2>1 DEF Layout
<1>5. a \in 22 .. 102 /\ b \in 22 .. 102 /\ RecordSize(seq) = 2 + a + b
  BY <1>2, SizeFacts
<1>6. /\ packets[offset + 1] = a /\ packets[offset + 2] = b
      /\ PacketAt(packets, offset + 2, seq, 0)
      /\ PacketAt(packets, offset + 2 + a, seq, 1)
  BY <1>4 DEF RecordAt
<1> HIDE DEF a, b
<1>7. offset + (2 + a + b) <= Len(packets)
  BY <1>4, <1>5
<1>8. /\ offset + 2 <= Len(packets) /\ offset + 2 \in Nat /\ offset + 2 + a \in Nat
      /\ (offset + 2) + a <= Len(packets) /\ (offset + 2 + a) + b <= Len(packets)
  BY <1>2, <1>4, <1>5, <1>7
<1>9. Len(two) = 2 /\ two[1] = a /\ two[2] = b
  <2>1. 2 \in Nat /\ 1 \in 1 .. 2 /\ 2 \in 1 .. 2
    OBVIOUS
  <2>2. Len(two) = 2 /\ \A i \in 1 .. 2 : two[i] = packets[offset + i]
    BY <1>2, <1>4, <1>8, <2>1, SliceFacts
  <2> QED
    BY <1>6, <2>1, <2>2
<1>10. left = Slice(offset + 2, a) /\ right = Slice(offset + 2 + a, b)
  BY <1>9
<1>11. /\ two = Slice(offset, 2) /\ decoded' = decoded' /\ offset' = offset'
       /\ (Len(two) = 2 /\ Valid(left, two[1]) /\ Valid(right, two[2])) =>
            /\ decoded' = [ch \in Channels |->
                 decoded[ch] \o Decoded(IF ch = 0 THEN left ELSE right, ch)]
            /\ offset' = offset + 2 + two[1] + two[2]
            /\ seq' = seq + 1 /\ phase' = phase
  BY DEF ParseFrame
<1> HIDE DEF two, left, right
<1>12. Valid(left, a) /\ left[3] = 1000 + 2 * seq + 0
  <2> DEFINE o == offset + 2
  <2>1. o \in Nat /\ packets \in Seq(Int)
    BY <1>2, <1>8
  <2>2. PacketAt(packets, o, seq, 0)
    BY <1>6
  <2>3. a \in 22 .. 102 /\ o + a <= Len(packets)
    BY <1>5, <1>8
  <2>4. left = Slice(o, a)
    BY <1>10
  <2> HIDE DEF o
  <2> QED
    BY <2>1, <2>2, <2>3, <2>4, PacketRead DEF a
<1>13. Valid(right, b) /\ right[3] = 1000 + 2 * seq + 1
  <2> DEFINE o == offset + 2 + a
  <2>1. o \in Nat /\ packets \in Seq(Int)
    BY <1>2, <1>8
  <2>2. PacketAt(packets, o, seq, 1)
    BY <1>6
  <2>3. b \in 22 .. 102 /\ o + b <= Len(packets)
    BY <1>5, <1>8
  <2>4. right = Slice(o, b)
    BY <1>10
  <2> HIDE DEF o
  <2> QED
    BY <2>1, <2>2, <2>3, <2>4, PacketRead DEF b
<1>14. /\ decoded' = [ch \in Channels |->
            decoded[ch] \o Decoded(IF ch = 0 THEN left ELSE right, ch)]
       /\ offset' = offset + 2 + a + b /\ seq' = seq + 1 /\ phase' = phase
  BY <1>9, <1>11, <1>12, <1>13
<1>15. offset' = off[seq + 1]
  BY <1>4, <1>5, <1>14
<1>16. decoded' = UpTo(seq + 1)
  <2>1. ASSUME NEW ch \in Channels PROVE decoded'[ch] = Samples(ch, seq + 1)
    <3> DEFINE p == IF ch = 0 THEN left ELSE right
    <3>1. decoded'[ch] = Samples(ch, seq) \o Decoded(p, ch)
      BY <1>2, <1>14 DEF UpTo
    <3>2. p[3] = 1000 + 2 * seq + ch
      BY <1>12, <1>13 DEF Channels
    <3> HIDE DEF p
    <3> QED
      BY <1>2, <3>1, <3>2, NextFrame
  <2>2. decoded' = [ch \in Channels |-> decoded'[ch]]
    BY <1>14
  <2> QED
    BY <2>1, <2>2 DEF UpTo
<1>17. /\ UpTo(seq)' = UpTo(seq + 1) /\ UpTo(Len(lengths))' = UpTo(Len(lengths))
       /\ Length' = Length /\ PaddedLength' = PaddedLength
       /\ \A f : Layout(f, packets, Len(lengths))' = Layout(f, packets, Len(lengths))
  <2>1. /\ Length' = Length /\ PaddedLength' = PaddedLength
        /\ \A n : UpTo(n)' = UpTo(n)
        /\ \A f, P, l : Layout(f, P, l)' = Layout(f, P, l)
    BY <1>1, Fixed
  <2> QED
    BY <1>1, <1>14, <2>1
<1>18. StreamTypes' /\ PhaseInv'
  BY <1>1, <1>2, <1>14, <1>17 DEF StreamInv, StreamTypes, PhaseInv
<1>19. seq' <= Len(lengths')
  BY <1>1, <1>2, <1>14
<1>20. EncodedInv' /\ DecodedInv'
  BY <1>1, <1>14, <1>16, <1>17, <1>19 DEF StreamInv, EncodedInv, DecodedInv
<1>21. ArchiveInv'
  BY <1>1, <1>3, <1>14, <1>15, <1>17 DEF ArchiveInv
<1> QED
  BY <1>18, <1>20, <1>21 DEF StreamInv

(* What is saved is the excerpt, sample for sample                         *)
(* (make-lc3-listening-set.py:111-112,176-202).                            *)
LEMMA ExcerptOf ==
  ASSUME StreamInv, Saved
  PROVE  \A ch \in Channels :
           /\ Excerpt(y)[ch] = Reference(ch)
           /\ Reference(ch) \in Seq(Values(ch)) /\ Len(Reference(ch)) = Length
<1> DEFINE l == Len(lengths)
           m == PreRoll + Length + Delay + 2 * N
<1>1. /\ l \in Nat /\ track \in Excerpts /\ Length > Second /\ y = UpTo(l)
      /\ l * N = PaddedLength
  BY LenProperties DEF StreamInv, StreamTypes, PhaseInv, EncodedInv, Saved
<1>2. /\ Length \in Nat /\ PreRoll \in Nat /\ HistoryStart \in Nat
      /\ HistoryStart + PreRoll = track.start
      /\ PreRoll + Length <= InputEnd - HistoryStart /\ InputEnd \in Int
      /\ PaddedLength \in Int /\ PaddedLength >= m
  BY <1>1, Geometry
<1>3. Delay \in Nat /\ 2 * N \in Nat
  BY StreamAssumption
<1>4. PaddedLength >= PreRoll + Length + Delay /\ Begin = PreRoll + Delay
  <2> DEFINE two == 2 * N
  <2>1. m = PreRoll + Length + Delay + two /\ two \in Nat
    BY <1>3
  <2> HIDE DEF two, m
  <2> QED
    BY <1>2, <1>3, <2>1 DEF Begin
<1> HIDE DEF l, m
<1> SUFFICES ASSUME NEW ch \in Channels
             PROVE  /\ Excerpt(y)[ch] = Reference(ch)
                    /\ Reference(ch) \in Seq(Values(ch)) /\ Len(Reference(ch)) = Length
  OBVIOUS
<1> DEFINE s == Samples(ch, l)
           u == Begin + 1
           v == Begin + Length
<1>5. y[ch] = s
  BY <1>1 DEF UpTo
<1>6. /\ s \in Seq(Values(ch)) /\ Len(s) = l * N
      /\ \A k \in 1 .. l * N : s[k] = <<ch, Stream(k - 1 - Delay)>>
  BY <1>1, SamplesFacts
<1> HIDE DEF s
<1>7. /\ Len(s) = PaddedLength
      /\ \A k \in 1 .. PaddedLength : s[k] = <<ch, Stream(k - 1 - Delay)>>
  BY <1>1, <1>6
<1>8. u \in Int /\ v \in Int /\ v <= PaddedLength /\ u >= 1 /\ v - u + 1 = Length
  BY <1>2, <1>3, <1>4
<1>9. Excerpt(y)[ch] = SubSeq(s, u, v)
  <2>1. Excerpt(y)[ch] = SubSeq(y[ch], u, Least(v, Len(y[ch])))
    BY DEF Excerpt
  <2>2. Least(v, PaddedLength) = v
    BY <1>2, <1>8 DEF Least
  <2> QED
    BY <1>5, <1>7, <2>1, <2>2
<1> DEFINE e == SubSeq(s, u, v)
<1>10. ASSUME NEW i \in 1 .. Length
       PROVE  /\ Begin + i \in 1 .. PaddedLength
              /\ Stream((Begin + i) - 1 - Delay) = track.start + i - 1
  <2>1. Begin + i \in 1 .. PaddedLength /\ (Begin + i) - 1 - Delay = PreRoll + i - 1
    BY <1>2, <1>3, <1>4
  <2>2. PreRoll + i - 1 \in 0 .. InputEnd - HistoryStart - 1
    BY <1>2
  <2>3. Stream(PreRoll + i - 1) = HistoryStart + (PreRoll + i - 1)
    BY <2>2 DEF Stream
  <2>4. HistoryStart + (PreRoll + i - 1) = track.start + i - 1
    BY <1>2
  <2> QED
    BY <2>1, <2>3, <2>4
<1>11. \A k \in 1 .. PaddedLength : s[k] \in Values(ch)
  BY <1>6, <1>7, ElementOfSeq
<1>12. \A k \in u .. v : s[k] \in Values(ch)
  <2>1. \A k \in u .. v : k \in 1 .. PaddedLength
    BY <1>2, <1>8
  <2> QED
    BY <1>11, <2>1
<1> HIDE DEF u, v
<1>13. /\ e \in Seq(Values(ch)) /\ Len(e) = (IF u <= v THEN v - u + 1 ELSE 0)
       /\ \A i \in 1 .. v - u + 1 : e[i] = s[u + i - 1]
  BY <1>8, <1>12, SubSeqProperties
<1> HIDE DEF e
<1>14. Len(e) = Length
  BY <1>2, <1>8, <1>13
<1>15. ASSUME NEW i \in 1 .. Length PROVE e[i] = <<ch, track.start + i - 1>>
  <2>1. u + i - 1 = Begin + i
    BY <1>2, <1>3, <1>4 DEF u
  <2>2. e[i] = s[Begin + i]
    BY <1>8, <1>13, <2>1
  <2> QED
    BY <1>7, <1>10, <2>2
<1>16. e = [i \in 1 .. Length |-> e[i]]
  <2>1. e \in [1 .. Length -> Values(ch)]
    BY <1>13, <1>14, LenProperties
  <2> QED
    BY <2>1
<1>17. [i \in 1 .. Length |-> e[i]] = [i \in 1 .. Length |-> <<ch, track.start + i - 1>>]
  BY <1>15
<1>18. e = Reference(ch)
  BY <1>16, <1>17 DEF Reference
<1>19. Excerpt(y)[ch] = e
  BY <1>9 DEF e
<1> QED
  BY <1>13, <1>14, <1>18, <1>19

(* A second of a sequence, from a place in it or behind it on.             *)
LEMMA SecondFacts ==
  ASSUME NEW S, NEW s \in Seq(S), NEW from \in Nat
  PROVE  /\ Len(SecondFrom(s, from)) = IF from < Len(s)
                                        THEN Least(from + Second, Len(s)) - from ELSE 0
         /\ from < Len(s) => /\ Len(SecondFrom(s, from)) > 0
                             /\ SecondFrom(s, from)[1] = s[from + 1]
<1> DEFINE m == from + 1
           n == Least(from + Second, Len(s))
           e == SubSeq(s, m, n)
<1>1. Second \in Nat \ {0} /\ Len(s) \in Nat
  BY StreamAssumption, LenProperties
<1>2. /\ m \in Int /\ n \in Int /\ n <= Len(s) /\ 1 <= m
      /\ m <= n <=> from < Len(s)
  BY <1>1 DEF Least
<1>3. \A k \in m .. n : s[k] \in S
  <2>1. \A k \in m .. n : k \in 1 .. Len(s)
    BY <1>1, <1>2
  <2> QED
    BY <2>1, ElementOfSeq
<1>4. n - m + 1 = n - from
  BY <1>1, <1>2
<1> HIDE DEF m, n
<1>5. /\ Len(e) = (IF m <= n THEN n - m + 1 ELSE 0)
      /\ \A i \in 1 .. n - m + 1 : e[i] = s[m + i - 1]
  BY <1>2, <1>3, SubSeqProperties
<1> HIDE DEF e
<1>6. SecondFrom(s, from) = e
  BY DEF SecondFrom, e, m, n
<1>7. ASSUME from < Len(s) PROVE Len(e) > 0 /\ e[1] = s[from + 1]
  <2>1. m <= n
    BY <1>2, <1>7
  <2>2. 1 \in 1 .. n - m + 1 /\ m + 1 - 1 = m
    BY <1>2, <2>1
  <2>3. e[1] = s[m] /\ Len(e) > 0
    BY <1>2, <1>5, <2>1, <2>2
  <2> QED
    BY <2>3 DEF m
<1>8. Len(e) = IF from < Len(s) THEN n - from ELSE 0
  BY <1>2, <1>4, <1>5
<1> QED
  BY <1>6, <1>7, <1>8 DEF n

(* The slices of an excerpt that reaches behind two seconds and the largest*)
(* lag have one length; and where they have, they fit without a lag only.  *)
LEMMA VerdictOf ==
  ASSUME StreamInv, phase = "parse", offset = Len(packets), decoded = y
  PROVE  /\ Verdict \in {"checked", "raised"}
         /\ Verdict = "raised" => Length < 2 * Second + MaxLag
<1>1. Length > Second /\ track \in Excerpts /\ Saved
  BY DEF StreamInv, PhaseInv, StreamTypes, Saved
<1>2. /\ Second \in Nat \ {0} /\ MaxLag \in Nat /\ MaxLag <= Second
      /\ track.start \in Nat /\ Length \in Nat
  <2>1. N \in Nat \ {0} /\ Second \in Nat \ {0} /\ Second % N = 0 /\ MaxLag + 2 <= N
        /\ MaxLag \in Nat /\ track.start \in Nat
    BY <1>1, StreamAssumption
  <2>2. Length \in Nat
    BY <1>1, Geometry
  <2>3. Second >= N
    <3>1. CASE Second < N
      <4>1. Second % N = Second
        BY <2>1, <3>1
      <4> QED
        BY <2>1, <4>1
    <3> QED
      BY <2>1, <3>1
  <2> QED
    BY <2>1, <2>2, <2>3
<1>3. ASSUME NEW ch \in Channels
      PROVE  /\ Beside(ch) = SecondFrom(Reference(ch), Second)
             /\ \A lag \in Lags : Shifted(ch, lag) = SecondFrom(Reference(ch), Second + lag)
             /\ Reference(ch) \in Seq(Values(ch)) /\ Len(Reference(ch)) = Length
  BY <1>1, ExcerptOf DEF Beside, Shifted
<1>4. ASSUME NEW lag \in Lags
      PROVE  lag \in Int /\ lag <= MaxLag /\ Second + lag \in Nat
  BY <1>2 DEF Lags
<1>5. ASSUME ~Comparable PROVE Length < 2 * Second + MaxLag
  <2> SUFFICES ASSUME Length >= 2 * Second + MaxLag PROVE FALSE
    BY <1>2
  <2>1. PICK ch \in Channels, lag \in Lags : Len(Shifted(ch, lag)) # Len(Beside(ch))
    BY <1>5 DEF Comparable
  <2>2. ASSUME NEW from \in Nat, from <= Second + MaxLag
        PROVE  Len(SecondFrom(Reference(ch), from)) = Second
    <3>1. from < Length /\ Least(from + Second, Length) - from = Second
      BY <1>2, <2>2 DEF Least
    <3> QED
      BY <1>3, <3>1, SecondFacts
  <2>3. Second + lag \in Nat /\ Second + lag <= Second + MaxLag /\ Second <= Second + MaxLag
    BY <1>2, <1>4
  <2> QED
    BY <1>2, <1>3, <2>1, <2>2, <2>3
<1>6. ASSUME Comparable PROVE Aligned
  <2> SUFFICES ASSUME NEW ch \in Channels
               PROVE  {lag \in Lags : Shifted(ch, lag) = Beside(ch)} = {0}
    BY DEF Aligned
  <2>1. 0 \in Lags /\ Second + 0 = Second
    BY <1>2 DEF Lags
  <2>2. Shifted(ch, 0) = Beside(ch)
    BY <1>3, <2>1
  <2>3. Len(Beside(ch)) > 0 /\ Beside(ch)[1] = Reference(ch)[Second + 1]
    BY <1>1, <1>2, <1>3, SecondFacts
  <2>4. ASSUME NEW lag \in Lags, Shifted(ch, lag) = Beside(ch) PROVE lag = 0
    <3>1. Second + lag < Length
      <4>1. Len(SecondFrom(Reference(ch), Second + lag)) > 0
        BY <1>3, <2>3, <2>4
      <4> QED
        BY <1>3, <1>4, <4>1, SecondFacts
    <3>2. Shifted(ch, lag)[1] = Reference(ch)[Second + lag + 1]
      BY <1>3, <1>4, <3>1, SecondFacts
    <3>3. Second + lag + 1 \in 1 .. Length /\ Second + 1 \in 1 .. Length
      BY <1>1, <1>2, <1>4, <3>1
    <3>4. /\ Reference(ch)[Second + lag + 1] = <<ch, track.start + (Second + lag + 1) - 1>>
          /\ Reference(ch)[Second + 1] = <<ch, track.start + (Second + 1) - 1>>
      BY <3>3 DEF Reference
    <3>5. track.start + (Second + lag + 1) - 1 = track.start + (Second + 1) - 1
      <4> DEFINE a == track.start + (Second + lag + 1) - 1
                 b == track.start + (Second + 1) - 1
      <4>1. <<ch, a>> = <<ch, b>>
        BY <2>3, <2>4, <3>2, <3>4
      <4> HIDE DEF a, b
      <4>2. a = b
        BY <4>1
      <4> QED
        BY <4>2 DEF a, b
    <3> QED
      BY <1>2, <1>4, <3>5
  <2> QED
    BY <2>1, <2>2, <2>4
<1> QED
  BY <1>5, <1>6 DEF Verdict

(* The archive ends with its last record; the same samples give the same   *)
(* excerpt.                                                                *)
LEMMA StreamCompare == StreamInv /\ Compare => StreamInv'
<1> SUFFICES ASSUME StreamInv, Compare PROVE StreamInv'
  OBVIOUS
<1>1. /\ UNCHANGED <<track, size, y, packets, lengths, decoded>>
      /\ UNCHANGED <<seq, offset>> /\ phase = "parse" /\ seq = Len(lengths)
      /\ phase' = Verdict
  BY DEF Compare
<1>2. /\ StreamTypes' /\ y' = UpTo(Len(lengths))' /\ UpTo(seq)' = UpTo(seq)
      /\ Length' = Length /\ PaddedLength' = PaddedLength
      /\ \A off : Layout(off, packets, Len(lengths))' = Layout(off, packets, Len(lengths))
  BY <1>1, PhaseStep
<1>3. PICK off : Layout(off, packets, Len(lengths)) /\ offset = off[seq]
  BY <1>1 DEF StreamInv, ArchiveInv
<1>4. offset = Len(packets) /\ decoded = y
  BY <1>1, <1>3 DEF Layout, StreamInv, EncodedInv, DecodedInv
<1>5. /\ phase' \in {"checked", "raised"}
      /\ phase' = "raised" => Length < 2 * Second + MaxLag
  BY <1>1, <1>4, VerdictOf
<1>6. PhaseInv'
  BY <1>1, <1>2, <1>5 DEF StreamInv, PhaseInv
<1>7. EncodedInv' /\ DecodedInv'
  BY <1>1, <1>2, <1>5 DEF StreamInv, EncodedInv, DecodedInv
<1>8. ArchiveInv'
  BY <1>1, <1>2, <1>5 DEF StreamInv, ArchiveInv
<1> QED
  BY <1>2, <1>6, <1>7, <1>8 DEF StreamInv

(* Every step keeps the invariant of the stream. *)
LEMMA StreamStep == StreamInv /\ [StreamNext]_streamVars => StreamInv'
<1> SUFFICES ASSUME StreamInv, [StreamNext]_streamVars PROVE StreamInv'
  OBVIOUS
<1>1. CASE UNCHANGED streamVars
  <2>1. /\ UNCHANGED <<track, size, y, packets, lengths, decoded>>
        /\ UNCHANGED <<seq, offset>> /\ phase' = phase
    BY <1>1 DEF streamVars
  <2>2. /\ StreamTypes' /\ y' = UpTo(Len(lengths))'
        /\ UpTo(0)' = UpTo(0) /\ UpTo(seq)' = UpTo(seq)
        /\ Length' = Length /\ PaddedLength' = PaddedLength
        /\ \A off : Layout(off, packets, Len(lengths))' = Layout(off, packets, Len(lengths))
    BY <2>1, PhaseStep
  <2>3. PhaseInv' /\ EncodedInv' /\ DecodedInv'
    BY <2>1, <2>2 DEF StreamInv, PhaseInv, EncodedInv, DecodedInv
  <2>4. ArchiveInv'
    BY <2>1, <2>2 DEF StreamInv, ArchiveInv
  <2> QED
    BY <2>2, <2>3, <2>4 DEF StreamInv
<1> QED
  BY <1>1, StreamCut, StreamEncode, StreamSave, StreamVerify, StreamParse, StreamCompare
  DEF StreamNext

(* The bytes measured are those of the frames that hold the excerpt.       *)
LEMMA MeasuredOf ==
  ASSUME StreamInv, Saved
  PROVE  \A i \in 0 .. Length - 1 :
           \E n \in Measured \cap (0 .. Len(lengths) - 1) : n = (PreRoll + i) \div N
<1> DEFINE l == Len(lengths)
           m == PreRoll + Length + Delay + 2 * N
<1>1. /\ l \in Nat /\ track \in Excerpts /\ Length > Second /\ l * N = PaddedLength
  BY LenProperties DEF StreamInv, StreamTypes, PhaseInv, EncodedInv, Saved
<1>2. /\ Length \in Nat /\ PreRoll \in Nat /\ PaddedLength \in Int
      /\ PaddedLength >= m
  BY <1>1, Geometry
<1>3. Delay \in Nat /\ 2 * N \in Nat /\ N \in Nat \ {0}
  BY StreamAssumption
<1>4. PaddedLength >= PreRoll + Length
  <2> DEFINE two == 2 * N
  <2>1. m = PreRoll + Length + Delay + two /\ two \in Nat
    BY <1>3
  <2> HIDE DEF two, m
  <2> QED
    BY <1>2, <1>3, <2>1
<1> HIDE DEF l, m
<1> SUFFICES ASSUME NEW i \in 0 .. Length - 1
             PROVE  (PreRoll + i) \div N \in Measured \cap (0 .. l - 1)
  BY DEF l
<1> DEFINE n == (PreRoll + i) \div N
           f == PreRoll \div N
           c == (PreRoll + Length + N - 1) \div N
<1>5. n \in Int /\ n * N <= PreRoll + i /\ PreRoll + i < n * N + N
  BY <1>2, FrameQuotient
<1>6. f \in Int /\ f * N <= PreRoll /\ PreRoll < f * N + N
  BY <1>2, FrameQuotient
<1>7. c \in Int /\ PreRoll + Length + N - 1 < c * N + N
  <2>1. PreRoll + Length + N - 1 \in Int
    BY <1>2, <1>3
  <2> QED
    BY <2>1, FrameQuotient
<1>8. Measured = f .. c - 1
  BY DEF Measured
<1> HIDE DEF n, f, c
<1>9. n * N \in Int /\ f * N \in Int /\ c * N \in Int /\ l * N \in Int
  BY <1>1, <1>3, <1>5, <1>6, <1>7
<1>10. (n + 1) * N = n * N + N /\ 0 * N = 0
  BY <1>3, <1>5
<1>11. /\ f * N < (n + 1) * N /\ n * N < c * N /\ n * N < l * N /\ 0 * N < (n + 1) * N
  <2> DEFINE nN == n * N
             fN == f * N
             cN == c * N
             lN == l * N
  <2>1. /\ nN \in Int /\ fN \in Int /\ cN \in Int /\ lN \in Int
        /\ nN <= PreRoll + i /\ PreRoll + i < nN + N
        /\ fN <= PreRoll /\ PreRoll + Length + N - 1 < cN + N /\ lN = PaddedLength
    BY <1>1, <1>5, <1>6, <1>7, <1>9
  <2> HIDE DEF nN, fN, cN, lN
  <2>2. fN < nN + N /\ nN < cN /\ nN < lN /\ 0 < nN + N
    BY <1>2, <1>3, <1>4, <2>1
  <2> QED
    BY <1>10, <2>2 DEF nN, fN, cN, lN
<1>12. f < n + 1 /\ n < c /\ n < l /\ 0 < n + 1
  <2>1. n + 1 \in Int /\ 0 \in Int /\ l \in Int
    BY <1>1, <1>5
  <2> QED
    BY <1>5, <1>6, <1>7, <1>11, <2>1, Order
<1>13. n \in f .. c - 1 /\ n \in 0 .. l - 1
  BY <1>1, <1>5, <1>6, <1>7, <1>12
<1> QED
  BY <1>8, <1>13 DEF n

(* What is saved is the excerpt itself, wherever in its source it lies, and*)
(* the bytes measured are those of its frames                              *)
(* (make-lc3-listening-set.py:111-112,176-202).                            *)
THEOREM ExcerptIsAligned == StreamSpec => []ExcerptAligned
<1>1. StreamInv => ExcerptAligned
  BY ExcerptOf, MeasuredOf DEF ExcerptAligned
<1> QED
  BY <1>1, StreamInitial, StreamStep, PTL DEF StreamSpec

(* No assertion of the verifier fails for an archive that is written, and  *)
(* it raises only for an excerpt of less than two seconds and the largest  *)
(* lag (verify-lc3-listening-set.py:45-83).                                *)
THEOREM EveryArchiveVerifies == StreamSpec => []ArchiveVerifies
<1>1. StreamInv => ArchiveVerifies
  BY DEF StreamInv, PhaseInv, ArchiveVerifies
<1> QED
  BY <1>1, StreamInitial, StreamStep, PTL DEF StreamSpec
-----------------------------------------------------------------------------
(* The sources.  What is kept of a download is the body whose transfer     *)
(* came to its end, and nothing replaces it (cache = ended); the items     *)
(* before the one that the run is at have the hashes of what is kept.      *)

Contents == Bodies \cup {"absent", "torn"}
Jobs == {"off", "fetch", "get", "hash", "open", "copy", "note", "write", "tear", "done",
         "raised", "offline"}
Named(i) == [download |-> cache[i], audio |-> cache[i]]
(* What is kept of an item is all there, and of one body. *)
Whole(i) ==
  /\ cache[i] # "absent"
  /\ AudioFile(i) = cache[i]
  /\ i \in Zips => Opens(cache[i])
HasHashes(i) == noted[i] = Named(i)

FilesInv ==
  /\ job \in Jobs /\ at \in 1 .. Len(Items)
  /\ cache \in [ItemSet -> Bodies \cup {"absent"}] /\ ended = cache
  /\ copied \in [ItemSet -> Contents]
  /\ noted \in [ItemSet -> [download : Contents, audio : Contents]]
  /\ downloads \in [ItemSet -> [download : Contents, audio : Contents]]
JobInv ==
  /\ job = "get" => cache[Item] = "absent"
  /\ job \in {"hash", "open", "copy", "note"} => cache[Item] # "absent"
  /\ job \in {"open", "copy", "note"} => noted[Item].download = cache[Item]
  /\ job \in {"open", "copy"} => Item \in Zips
  /\ job = "copy" => Opens(cache[Item])
  /\ job = "note" => Whole(Item)
  /\ job = "raised" => cache[Item] # "absent" /\ ~Opens(cache[Item])
BeforeInv ==
  /\ Active => \A k \in 1 .. Len(Items) : k < at => HasHashes(Items[k]) /\ Whole(Items[k])
  /\ job \in {"write", "tear", "done"} => \A i \in ItemSet : HasHashes(i) /\ Whole(i)
  /\ job = "done" => downloads = noted
RecordInv ==
  HasRecord => \A i \in ItemSet :
    /\ downloads[i] = Named(i) /\ cache[i] # "absent"
    /\ AudioFile(i) \in {cache[i], "torn"}
    /\ i \in Zips => Opens(cache[i])
SourcesInv == FilesInv /\ JobInv /\ BeforeInv /\ RecordInv

LEMMA ItemFacts ==
  /\ Items \in Seq(ItemSet) /\ Len(Items) \in Nat \ {0}
  /\ \A k \in 1 .. Len(Items) : Items[k] \in ItemSet
  /\ \A i \in ItemSet : \E k \in 1 .. Len(Items) : Items[k] = i
  /\ \A k, n \in 1 .. Len(Items) : Items[k] = Items[n] => k = n
<1>1. Items \in Seq(ItemSet) /\ Len(Items) \in Nat \ {0}
  BY ItemsAssumption DEF ItemSet
<1>2. DOMAIN Items = 1 .. Len(Items)
  BY <1>1
<1> QED
  BY <1>1, <1>2, ItemsAssumption DEF ItemSet, Range, IsInjective

LEMMA SourcesInitially == SourcesInit => SourcesInv
<1> SUFFICES ASSUME SourcesInit PROVE SourcesInv
  OBVIOUS
<1>1. FilesInv
  BY ItemFacts DEF SourcesInit, FilesInv, NoHashes, AllHashes, Contents, Jobs
<1> QED
  BY <1>1 DEF SourcesInit, SourcesInv, JobInv, BeforeInv, RecordInv, HasRecord, Active

(* A step that leaves the files alone. *)
LEMMA SourcesIdle ==
  ASSUME SourcesInv, StartFetching \/ KillFetching \/ NoConnection
  PROVE  SourcesInv'
<1>1. /\ UNCHANGED <<cache, copied, downloads, ended>>
      /\ noted' = noted \/ noted' = NoHashes
      /\ at' = at \/ at' = 1
      /\ job' \in {"off", "fetch", "offline"}
      /\ job' = "fetch" => at' = 1
  BY DEF StartFetching, KillFetching, NoConnection, sourceFiles
<1>2. NoHashes \in [ItemSet -> [download : Contents, audio : Contents]]
  BY DEF NoHashes, AllHashes, Contents
<1>3. FilesInv'
  <2>1. at' \in 1 .. Len(Items) /\ job' \in Jobs
    BY <1>1, ItemFacts DEF SourcesInv, FilesInv, Jobs
  <2>2. noted' \in [ItemSet -> [download : Contents, audio : Contents]]
    BY <1>1, <1>2 DEF SourcesInv, FilesInv
  <2> QED
    BY <1>1, <2>1, <2>2 DEF SourcesInv, FilesInv
<1>4. JobInv' /\ BeforeInv'
  BY <1>1 DEF JobInv, BeforeInv, Active
<1>5. RecordInv'
  BY <1>1 DEF SourcesInv, RecordInv, HasRecord, Named, AudioFile
<1> QED
  BY <1>3, <1>4, <1>5 DEF SourcesInv

LEMMA SourcesFetch ==
  ASSUME SourcesInv, FoundInCache \/ BeginBody
  PROVE  SourcesInv'
<1>1. /\ UNCHANGED <<at, cache, copied, downloads, ended, noted>>
      /\ job = "fetch"
      /\ \/ job' = "hash" /\ cache[Item] # "absent"
         \/ job' = "get" /\ cache[Item] = "absent"
  BY DEF FoundInCache, BeginBody, WhileGrowing, Cached, sourceFiles
<1>2. Item' = Item
  BY <1>1 DEF Item
<1>3. FilesInv'
  BY <1>1 DEF SourcesInv, FilesInv, Jobs
<1>4. JobInv'
  BY <1>1, <1>2 DEF JobInv
<1>5. BeforeInv'
  BY <1>1 DEF SourcesInv, BeforeInv, Active, HasHashes, Whole, Named, AudioFile
<1>6. RecordInv'
  BY <1>1 DEF SourcesInv, RecordInv, HasRecord, Named, AudioFile
<1> QED
  BY <1>3, <1>4, <1>5, <1>6 DEF SourcesInv

(* A step that writes the download, the audio file or the hashes of the    *)
(* item only.                                                              *)
LEMMA OthersKept ==
  ASSUME SourcesInv, UNCHANGED at, job \in {"get", "hash", "open", "copy", "note"},
         \A i \in ItemSet : i # Item =>
           cache'[i] = cache[i] /\ copied'[i] = copied[i] /\ noted'[i] = noted[i],
         job' \in {"hash", "open", "copy", "note", "raised"}
  PROVE  BeforeInv'
<1>1. Active
  BY DEF Active
<1>2. ASSUME NEW k \in 1 .. Len(Items), k < at
      PROVE  HasHashes(Items[k])' /\ Whole(Items[k])'
  <2> DEFINE i == Items[k]
  <2>1. i \in ItemSet /\ i # Item
    BY <1>2, ItemFacts DEF SourcesInv, FilesInv, Item
  <2>2. HasHashes(i) /\ Whole(i)
    BY <1>1, <1>2 DEF SourcesInv, BeforeInv
  <2>3. cache'[i] = cache[i] /\ copied'[i] = copied[i] /\ noted'[i] = noted[i]
    BY <2>1
  <2> QED
    BY <2>2, <2>3 DEF HasHashes, Whole, Named, AudioFile
<1> QED
  BY <1>2 DEF BeforeInv

LEMMA SourcesBody ==
  ASSUME SourcesInv, EndBody
  PROVE  SourcesInv'
<1>1. PICK body \in Bodies : /\ cache' = [cache EXCEPT ![Item] = body]
                             /\ ended' = [ended EXCEPT ![Item] = body]
  BY DEF EndBody
<1>2. /\ UNCHANGED <<at, copied, downloads, noted>> /\ job = "get" /\ job' = "hash"
      /\ Item' = Item /\ Item \in ItemSet
  BY ItemFacts DEF EndBody, Item, SourcesInv, FilesInv
<1>3. /\ body # "absent" /\ cache[Item] = "absent"
      /\ cache \in [ItemSet -> Bodies \cup {"absent"}] /\ ended = cache
  BY <1>2 DEF SourcesInv, FilesInv, JobInv, Bodies
<1>4. /\ cache'[Item] = body /\ \A i \in ItemSet : i # Item => cache'[i] = cache[i]
      /\ cache' \in [ItemSet -> Bodies \cup {"absent"}] /\ ended' = cache'
  BY <1>1, <1>2, <1>3
<1>5. FilesInv'
  BY <1>2, <1>4 DEF SourcesInv, FilesInv, Jobs
<1>6. JobInv'
  BY <1>2, <1>3, <1>4 DEF JobInv
<1>7. BeforeInv'
  BY <1>2, <1>4, OthersKept
<1>8. ~HasRecord
  BY <1>2, <1>3 DEF SourcesInv, RecordInv
<1>9. RecordInv'
  BY <1>2, <1>8 DEF RecordInv, HasRecord
<1> QED
  BY <1>5, <1>6, <1>7, <1>9 DEF SourcesInv

LEMMA SourcesHash ==
  ASSUME SourcesInv, HashDownload
  PROVE  SourcesInv'
<1>1. /\ UNCHANGED <<at, cache, copied, downloads, ended>> /\ job = "hash"
      /\ noted' = [noted EXCEPT ![Item].download = cache[Item]]
      /\ job' = IF Item \in Zips THEN "open" ELSE "note"
      /\ Item' = Item /\ Item \in ItemSet
  BY ItemFacts DEF HashDownload, sourceFiles, Item, SourcesInv, FilesInv
<1>2. /\ noted \in [ItemSet -> [download : Contents, audio : Contents]]
      /\ cache \in [ItemSet -> Bodies \cup {"absent"}] /\ cache[Item] # "absent"
  BY <1>1 DEF SourcesInv, FilesInv, JobInv
<1>3. cache[Item] \in Contents
  BY <1>1, <1>2 DEF Contents
<1>4. /\ noted' \in [ItemSet -> [download : Contents, audio : Contents]]
      /\ noted'[Item].download = cache[Item]
      /\ \A i \in ItemSet : i # Item => noted'[i] = noted[i]
  BY <1>1, <1>2, <1>3
<1>5. FilesInv'
  BY <1>1, <1>4 DEF SourcesInv, FilesInv, Jobs
<1>6. JobInv'
  BY <1>1, <1>2, <1>4 DEF JobInv, Whole, AudioFile
<1>7. BeforeInv'
  BY <1>1, <1>4, OthersKept
<1>8. RecordInv'
  BY <1>1 DEF SourcesInv, RecordInv, HasRecord, Named, AudioFile
<1> QED
  BY <1>5, <1>6, <1>7, <1>8 DEF SourcesInv

LEMMA SourcesOpen ==
  ASSUME SourcesInv, OpenArchive
  PROVE  SourcesInv'
<1>1. /\ UNCHANGED <<at, cache, noted, downloads, ended>> /\ job = "open"
      /\ \/ /\ Opens(cache[Item]) /\ job' = "copy"
            /\ copied' = [copied EXCEPT ![Item] = "torn"]
         \/ ~Opens(cache[Item]) /\ job' = "raised" /\ copied' = copied
      /\ Item' = Item /\ Item \in ItemSet
  BY ItemFacts DEF OpenArchive, Item, SourcesInv, FilesInv
<1>2. /\ copied \in [ItemSet -> Contents] /\ "torn" \in Contents
      /\ Item \in Zips /\ cache[Item] # "absent" /\ noted[Item].download = cache[Item]
  BY <1>1 DEF SourcesInv, FilesInv, JobInv, Contents
<1>3. /\ copied' \in [ItemSet -> Contents]
      /\ \A i \in ItemSet : i # Item => copied'[i] = copied[i]
      /\ copied'[Item] \in {copied[Item], "torn"}
  BY <1>1, <1>2
<1>4. FilesInv'
  BY <1>1, <1>3 DEF SourcesInv, FilesInv, Jobs
<1>5. JobInv'
  BY <1>1, <1>2 DEF JobInv
<1>6. BeforeInv'
  BY <1>1, <1>3, OthersKept
<1>7. RecordInv'
  <2> SUFFICES ASSUME HasRecord', NEW i \in ItemSet
               PROVE  /\ downloads'[i] = Named(i)' /\ cache'[i] # "absent"
                      /\ AudioFile(i)' \in {cache'[i], "torn"}
                      /\ i \in Zips => Opens(cache'[i])
    BY DEF RecordInv
  <2>1. HasRecord
    BY <1>1 DEF HasRecord
  <2>2. copied'[i] = copied[i] \/ copied'[i] = "torn"
    BY <1>3
  <2> QED
    BY <1>1, <2>1, <2>2 DEF SourcesInv, RecordInv, Named, AudioFile
<1> QED
  BY <1>4, <1>5, <1>6, <1>7 DEF SourcesInv

LEMMA SourcesCopy ==
  ASSUME SourcesInv, CopyAudio
  PROVE  SourcesInv'
<1>1. /\ UNCHANGED <<at, cache, noted, downloads, ended>> /\ job = "copy" /\ job' = "note"
      /\ copied' = [copied EXCEPT ![Item] = cache[Item]]
      /\ Item' = Item /\ Item \in ItemSet
  BY ItemFacts DEF CopyAudio, Item, SourcesInv, FilesInv
<1>2. /\ copied \in [ItemSet -> Contents] /\ cache[Item] \in Contents
      /\ Item \in Zips /\ Opens(cache[Item]) /\ cache[Item] # "absent"
      /\ noted[Item].download = cache[Item]
  BY <1>1 DEF SourcesInv, FilesInv, JobInv, Contents
<1>3. /\ copied' \in [ItemSet -> Contents] /\ copied'[Item] = cache[Item]
      /\ \A i \in ItemSet : i # Item => copied'[i] = copied[i]
  BY <1>1, <1>2
<1>4. FilesInv'
  BY <1>1, <1>3 DEF SourcesInv, FilesInv, Jobs
<1>5. JobInv'
  BY <1>1, <1>2, <1>3 DEF JobInv, Whole, AudioFile
<1>6. BeforeInv'
  BY <1>1, <1>3, OthersKept
<1>7. RecordInv'
  <2> SUFFICES ASSUME HasRecord', NEW i \in ItemSet
               PROVE  /\ downloads'[i] = Named(i)' /\ cache'[i] # "absent"
                      /\ AudioFile(i)' \in {cache'[i], "torn"}
                      /\ i \in Zips => Opens(cache'[i])
    BY DEF RecordInv
  <2>1. HasRecord
    BY <1>1 DEF HasRecord
  <2>2. copied'[i] = copied[i] \/ copied'[i] = cache[i]
    BY <1>3
  <2> QED
    BY <1>1, <2>1, <2>2 DEF SourcesInv, RecordInv, Named, AudioFile
<1> QED
  BY <1>4, <1>5, <1>6, <1>7 DEF SourcesInv

LEMMA SourcesNote ==
  ASSUME SourcesInv, HashAudio
  PROVE  SourcesInv'
<1>1. /\ UNCHANGED <<cache, copied, downloads, ended>> /\ job = "note"
      /\ noted' = [noted EXCEPT ![Item].audio = AudioFile(Item)]
      /\ \/ at = Len(Items) /\ job' = "write" /\ at' = at
         \/ at # Len(Items) /\ job' = "fetch" /\ at' = at + 1
      /\ Item \in ItemSet /\ at \in 1 .. Len(Items)
  BY ItemFacts DEF HashAudio, sourceFiles, Item, SourcesInv, FilesInv
<1>2. /\ noted \in [ItemSet -> [download : Contents, audio : Contents]]
      /\ cache[Item] \in Contents /\ Whole(Item) /\ noted[Item].download = cache[Item]
  BY <1>1 DEF SourcesInv, FilesInv, JobInv, Contents
<1>3. AudioFile(Item) = cache[Item]
  BY <1>2 DEF Whole
<1>4. /\ noted' \in [ItemSet -> [download : Contents, audio : Contents]]
      /\ noted'[Item] = [download |-> cache[Item], audio |-> cache[Item]]
      /\ \A i \in ItemSet : i # Item => noted'[i] = noted[i]
  BY <1>1, <1>2, <1>3
<1>5. FilesInv'
  <2>1. at' \in 1 .. Len(Items)
    BY <1>1, ItemFacts
  <2> QED
    BY <1>1, <1>4, <2>1 DEF SourcesInv, FilesInv, Jobs
<1>6. JobInv'
  BY <1>1 DEF JobInv
<1>7. \A k \in 1 .. Len(Items) : k <= at => HasHashes(Items[k])' /\ Whole(Items[k])'
  <2> SUFFICES ASSUME NEW k \in 1 .. Len(Items), k <= at
               PROVE  HasHashes(Items[k])' /\ Whole(Items[k])'
    OBVIOUS
  <2> DEFINE i == Items[k]
  <2>1. i \in ItemSet /\ (k < at => i # Item) /\ (k = at => i = Item)
    BY <1>1, ItemFacts DEF Item
  <2>2. CASE k = at
    BY <1>1, <1>2, <1>4, <2>1, <2>2 DEF HasHashes, Whole, Named, AudioFile
  <2>3. CASE k < at
    <3>1. HasHashes(i) /\ Whole(i)
      BY <1>1, <2>3 DEF SourcesInv, BeforeInv, Active
    <3>2. noted'[i] = noted[i]
      BY <1>4, <2>1, <2>3
    <3> QED
      BY <1>1, <3>1, <3>2 DEF HasHashes, Whole, Named, AudioFile
  <2> QED
    BY <1>1, <2>2, <2>3
<1>8. BeforeInv'
  <2>1. CASE job' = "write" /\ at = Len(Items) /\ at' = at
    <3>1. \A k \in 1 .. Len(Items) : k <= at
      BY <2>1
    <3>2. \A k \in 1 .. Len(Items) : HasHashes(Items[k])' /\ Whole(Items[k])'
      BY <1>7, <3>1
    <3>3. \A i \in ItemSet : HasHashes(i)' /\ Whole(i)'
      BY <3>2, ItemFacts
    <3> QED
      BY <2>1, <3>2, <3>3 DEF BeforeInv
  <2>2. CASE job' = "fetch" /\ at' = at + 1
    <3>1. \A k \in 1 .. Len(Items) : k < at' => k <= at
      BY <1>1, <2>2
    <3> QED
      BY <1>7, <2>2, <3>1 DEF BeforeInv
  <2> QED
    BY <1>1, <2>1, <2>2
<1>9. RecordInv'
  BY <1>1 DEF SourcesInv, RecordInv, HasRecord, Named, AudioFile
<1> QED
  BY <1>5, <1>6, <1>8, <1>9 DEF SourcesInv

LEMMA SourcesRecord ==
  ASSUME SourcesInv, BeginRecord \/ EndRecord
  PROVE  SourcesInv'
<1>1. /\ UNCHANGED <<at, cache, copied, noted, ended>>
      /\ job \in {"write", "tear"} /\ Active
      /\ \/ job' = "tear" /\ downloads' = TornRecord
         \/ job' = "done" /\ downloads' = noted
  BY DEF BeginRecord, EndRecord, Active
<1>2. \A i \in ItemSet : HasHashes(i) /\ Whole(i)
  BY <1>1 DEF SourcesInv, BeforeInv
<1>3. TornRecord \in [ItemSet -> [download : Contents, audio : Contents]]
  BY DEF TornRecord, AllHashes, Contents
<1>4. FilesInv'
  BY <1>1, <1>3 DEF SourcesInv, FilesInv, Jobs
<1>5. JobInv'
  BY <1>1 DEF JobInv
<1>6. BeforeInv'
  BY <1>1, <1>2 DEF SourcesInv, BeforeInv, Active, HasHashes, Whole, Named, AudioFile
<1>7. RecordInv'
  <2>1. CASE downloads' = TornRecord
    BY <2>1 DEF RecordInv, HasRecord
  <2>2. CASE downloads' = noted
    BY <1>1, <1>2, <2>2 DEF RecordInv, HasHashes, Whole, Named, AudioFile
  <2> QED
    BY <1>1, <2>1, <2>2
<1> QED
  BY <1>4, <1>5, <1>6, <1>7 DEF SourcesInv

LEMMA SourcesStep == SourcesInv /\ [SourcesNext]_sourcesVars => SourcesInv'
<1> SUFFICES ASSUME SourcesInv, [SourcesNext]_sourcesVars PROVE SourcesInv'
  OBVIOUS
<1>1. CASE UNCHANGED sourcesVars
  BY <1>1 DEF sourcesVars, sourceFiles, SourcesInv, FilesInv, JobInv, BeforeInv, RecordInv,
       Item, Active, HasHashes, Whole, HasRecord, Named, AudioFile
<1> QED
  BY <1>1, SourcesIdle, SourcesFetch, SourcesBody, SourcesHash, SourcesOpen, SourcesCopy,
     SourcesNote, SourcesRecord DEF SourcesNext

THEOREM SourcesInvariant == SourcesSpec => []SourcesInv
<1> QED
  BY SourcesInitially, SourcesStep, PTL DEF SourcesSpec

(* A downloads.json that is there names what is kept of every item, its    *)
(* audio of the same body as its download, whatever was killed, sent or cut*)
(* before (fetch-listening-sources.py:21-28,58-70).                        *)
THEOREM RecordIsOfTheFiles == SourcesSpec => []RecordNamesTheFiles
<1>1. SourcesInv => RecordNamesTheFiles
  <2> SUFFICES ASSUME SourcesInv PROVE RecordNamesTheFiles
    OBVIOUS
  <2>1. ASSUME job = "done" PROVE HasRecord
    <3>1. PICK i \in ItemSet : TRUE
      BY ItemFacts
    <3>2. /\ downloads[i] = [download |-> cache[i], audio |-> cache[i]]
          /\ cache[i] # "absent"
      BY <2>1 DEF SourcesInv, BeforeInv, HasHashes, Whole, Named
    <3>3. cache[i] \in Bodies \cup {"absent"}
      BY DEF SourcesInv, FilesInv
    <3>4. cache[i] \notin {"absent", "torn"}
      BY <3>2, <3>3 DEF Bodies
    <3>5. downloads[i].download \notin {"absent", "torn"}
      BY <3>2, <3>4
    <3>6. /\ NoHashes[i].download = "absent"
          /\ TornRecord[i].download = "torn"
      BY DEF NoHashes, TornRecord, AllHashes
    <3> QED
      BY <3>5, <3>6 DEF HasRecord
  <2>2. job = "done" => \A i \in ItemSet : AudioFile(i) = cache[i]
    BY DEF SourcesInv, BeforeInv, Whole
  <2> QED
    BY <2>1, <2>2 DEF RecordNamesTheFiles, SourcesInv, RecordInv, Named
<1> QED
  BY <1>1, SourcesInvariant, PTL

(* No run that was killed leaves an archive that makes a later one raise:  *)
(* only a body that was sent so, or cut, does                              *)
(* (fetch-listening-sources.py:21-28,61-64).                               *)
THEOREM OnlySentBodiesRaise == SourcesSpec => []OnlyBodiesRaise
<1>1. SourcesInv => OnlyBodiesRaise
  <2> SUFFICES ASSUME SourcesInv, job = "raised"
               PROVE  ended[Item] \in Bodies /\ ~Opens(ended[Item])
    BY DEF OnlyBodiesRaise
  <2>1. cache[Item] # "absent" /\ ~Opens(cache[Item])
    BY DEF SourcesInv, JobInv
  <2>2. Item \in ItemSet /\ cache \in [ItemSet -> Bodies \cup {"absent"}] /\ ended = cache
    BY ItemFacts DEF SourcesInv, FilesInv, Item
  <2> QED
    BY <2>1, <2>2
<1> QED
  BY <1>1, SourcesInvariant, PTL
=============================================================================
