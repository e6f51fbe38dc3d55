----------------------------- MODULE BenchProofs ----------------------------
(***************************************************************************)
(* Theorems of RttReader and Evidence, the way of a measurement from the   *)
(* target's memory to an archive.                                          *)
(*                                                                         *)
(* For every ring, alphabet and marker the capture is the log, and a       *)
(* session ends with the line that holds its marker.  For any order of     *)
(* tools, builds, edits and measurements the manifests hold, and the image *)
(* beside a validated log is the one it was measured on.                   *)
(***************************************************************************)
EXTENDS RttReader, Evidence, SequenceTheorems, WellFoundedInduction, TLAPS

(***************************************************************************)
(* RttReader                                                               *)
(***************************************************************************)
(* The ring has a size, and the marker a length. *)
LEMMA Sizes ==
  /\ Size \in Nat /\ Size > 1
  /\ Needle \in Seq(Letters) /\ Len(Needle) \in Nat \ {0}
  /\ \A k \in 1 .. Len(Needle) : Needle[k] # NewLine
  /\ NewLine \in Letters /\ 0 \notin Letters
<1>1. Needle \in Seq(Letters \ {NewLine}) /\ Needle # <<>>
  BY ReaderAssumption
<1>2. Len(Needle) \in Nat /\ Len(Needle) # 0
  BY <1>1, LenProperties, EmptySeq
<1>3. \A k \in 1 .. Len(Needle) : Needle[k] \in Letters \ {NewLine}
  BY <1>1, ElementOfSeq
<1>4. Needle \in Seq(Letters)
  BY <1>1
<1> QED
  BY <1>2, <1>3, <1>4, ReaderAssumption

(* The offset behind the last is the first. *)
LEMMA NextOffset ==
  ASSUME NEW i \in Offsets
  PROVE  Next1(i) \in Offsets /\ Next1(i) = IF i = Size - 1 THEN 0 ELSE i + 1
BY Sizes DEF Next1, Offsets

(* A set of naturals that is bounded has a greatest member. *)
LEMMA GreatestMember ==
  ASSUME NEW n \in Nat, NEW S, S \subseteq 0 .. n, S # {}
  PROVE  Max(S) \in S /\ \A x \in S : x <= Max(S)
<1> DEFINE Less == {p \in Nat \X Nat : p[1] < p[2]}
<1> DEFINE T == {x \in Nat : n - x \in S}
<1>1. IsWellFoundedOn(Less, Nat)
  BY NatLessThanWellFounded DEF OpToRel
<1>2. T # {}
  <2>1. PICK x \in S : TRUE
    OBVIOUS
  <2>2. n - x \in Nat /\ n - (n - x) = x
    OBVIOUS
  <2> QED
    BY <2>2
<1>3. PICK y \in T : \A z \in T : ~(<<z, y>> \in Less)
  <2> HIDE DEF Less
  <2> QED
    BY <1>1, <1>2, WFMin
<1>4. ASSUME NEW z \in T PROVE y <= z
  <2>1. ~(z < y)
    BY <1>3
  <2> QED
    BY <2>1
<1>5. ASSUME NEW x \in S PROVE x <= n - y
  <2>1. n - x \in Nat /\ n - (n - x) = x
    OBVIOUS
  <2>2. y <= n - x
    BY <1>4, <2>1
  <2> QED
    BY <2>2
<1>6. n - y \in S
  OBVIOUS
<1> QED
  BY <1>5, <1>6 DEF Max

(* A part of the ring is read into a sequence as long as the part. *)
LEMMA SegmentProperties ==
  ASSUME NEW S, ring \in [Offsets -> S],
         NEW i \in 0 .. Size, NEW j \in 0 .. Size, i <= j
  PROVE  /\ Segment(i, j) \in Seq(S) /\ Len(Segment(i, j)) = j - i
         /\ \A n \in 1 .. j - i : Segment(i, j)[n] = ring[i + n - 1]
<1>1. j - i \in Nat /\ \A n \in 1 .. j - i : i + n - 1 \in Offsets
  BY Sizes DEF Offsets
<1> QED
  BY <1>1 DEF Segment

-----------------------------------------------------------------------------
Numbers == 0 .. Len(letter)
Places == {"off", "top", "read", "wrapped", "append", "consume", "match", "stopped"}

(* The numbers of bytes, 0 for a cell that was never written. *)
DataTypes ==
  /\ letter \in Seq(Letters) /\ ring \in [Offsets -> Numbers]
  /\ wr \in Offsets /\ rd \in Offsets
  /\ gone \subseteq Numbers
  /\ pc \in Places /\ cb \in [wr : Offsets, rd : Offsets]
  /\ data \in Seq(Numbers) /\ tail \in Seq(Numbers) /\ file \in Seq(Numbers)
  /\ opened \in Nat /\ opened <= Len(file)

FlagTypes == stopping \in BOOLEAN /\ torn \in BOOLEAN

(* Up to which offset a poll may read in one piece. *)
CbType ==
  pc \in {"read", "wrapped"} =>
    cb.wr # cb.rd /\ (pc = "wrapped" => cb.wr < cb.rd)

TypeOK == DataTypes /\ FlagTypes /\ CbType

(* Nothing was written, read or captured yet. *)
LEMMA TypeInit == Init => TypeOK
<1> SUFFICES ASSUME Init PROVE TypeOK
  OBVIOUS
<1>1. Len(letter) = 0 /\ letter \in Seq(Letters) /\ file = <<>>
  BY DEF Init
<1>2. 0 \in Offsets
  BY Sizes DEF Offsets
<1> QED
  BY <1>1, <1>2 DEF Init, TypeOK, DataTypes, FlagTypes, CbType, Numbers, Places

(* The flags stay Boolean. *)
LEMMA FlagStep == FlagTypes /\ [Next]_vars => FlagTypes'
<1> SUFFICES ASSUME FlagTypes, [Next]_vars PROVE FlagTypes'
  OBVIOUS
<1> USE DEF FlagTypes
<1>1. CASE \E c \in Letters : TargetWrites(c)
  BY <1>1, Zenon DEF TargetWrites, session
<1>2. CASE TargetResets \/ TargetReady
  BY <1>2, Zenon DEF TargetResets, TargetReady, session, Polling
<1>3. CASE \E needle \in BOOLEAN : Start(needle)
  BY <1>3, Zenon DEF Start
<1>4. CASE Poll \/ Read \/ ReadWrapped \/ AppendData
  BY <1>4, Zenon DEF Poll, Read, ReadWrapped, AppendData, session
<1>5. CASE Consume \/ Match \/ Deadline \/ Abort
  BY <1>5, Zenon DEF Consume, Match, Deadline, Abort, session
<1>6. CASE UNCHANGED vars
  BY <1>6, Zenon DEF vars, session
<1> QED
  BY <1>1, <1>2, <1>3, <1>4, <1>5, <1>6 DEF Next, TargetStep, ReaderStep

(* What the target does leaves the reader alone. *)
LEMMA TargetKeeps ==
  TargetStep => UNCHANGED <<session, pc, cb, data, tail, file>>
BY DEF TargetStep, TargetWrites, TargetResets, TargetReady

(* The target writes numbers into its ring, at its offset. *)
LEMMA TargetTypes ==
  ASSUME DataTypes, TargetStep PROVE DataTypes'
<1>1. CASE \E c \in Letters : TargetWrites(c)
  <2>1. PICK c \in Letters : TargetWrites(c)
    BY <1>1
  <2>2. /\ letter \in Seq(Letters) /\ Len(letter) \in Nat
        /\ letter' = Append(letter, c)
    BY <2>1, LenProperties DEF DataTypes, TargetWrites
  <2>3. letter' \in Seq(Letters) /\ Len(letter') = Len(letter) + 1
    BY <2>2, AppendProperties
  <2>4. Numbers \subseteq Numbers' /\ Len(letter) + 1 \in Numbers'
    BY <2>2, <2>3 DEF Numbers
  <2>5. ring' \in [Offsets -> Numbers'] /\ rd' \in Offsets
    BY <2>1, <2>4 DEF TargetWrites, DataTypes
  <2>6. wr' \in Offsets
    BY <2>1, NextOffset DEF TargetWrites, DataTypes
  <2>7. UNCHANGED <<gone, session, pc, cb, data, tail, file>>
    BY <2>1 DEF TargetWrites
  <2>8. /\ data \in Seq(Numbers') /\ tail \in Seq(Numbers')
        /\ file \in Seq(Numbers')
    BY <2>4, SeqMonotonic DEF DataTypes
  <2> QED
    BY <2>3, <2>4, <2>5, <2>6, <2>7, <2>8 DEF DataTypes, session
<1>2. CASE TargetResets
  <2>1. 0 \in 0 .. Size /\ 0 \in Offsets /\ Size \in 0 .. Size
        /\ Offsets \subseteq 0 .. Size
    BY Sizes DEF Offsets
  <2>2. Unread(rd, wr) \in Seq(Numbers)
    <3>1. rd \in 0 .. Size /\ wr \in 0 .. Size /\ rd <= Size /\ 0 <= wr
      BY <2>1, Sizes DEF DataTypes
    <3>2. CASE wr >= rd
      BY <3>1, <3>2, SegmentProperties DEF Unread, DataTypes
    <3>3. CASE ~(wr >= rd)
      <4>1. Segment(rd, Size) \in Seq(Numbers) /\ Segment(0, wr) \in Seq(Numbers)
        BY <2>1, <3>1, SegmentProperties DEF DataTypes
      <4> QED
        BY <3>3, <4>1, ConcatProperties DEF Unread
    <3> QED
      BY <3>2, <3>3
  <2>3. ToSet(Unread(rd, wr)) \subseteq Numbers
    BY <2>2, ElementOfSeq, LenProperties DEF ToSet
  <2>4. gone' \subseteq Numbers
    BY <1>2, <2>3 DEF TargetResets, DataTypes
  <2> QED
    BY <1>2, <2>1, <2>4 DEF TargetResets, DataTypes, Numbers, session
<1>3. CASE TargetReady
  BY <1>3 DEF TargetReady, DataTypes, Numbers, session
<1> QED
  BY <1>1, <1>2, <1>3 DEF TargetStep

(* The reader leaves the ring alone, but for RdOff. *)
LEMMA ReaderKeeps ==
  ReaderStep => UNCHANGED <<letter, ring, wr, ready, resets, gone>>
BY DEF ReaderStep, Start, Poll, Read, ReadWrapped, AppendData, Consume, Match,
       Deadline, Abort, target

(* The last of the lines that are whole ends within the text. *)
LEMMA LastLineEnds ==
  ASSUME NEW t, NEW n \in Nat, DOMAIN t = 1 .. n
  PROVE  /\ LastNewLine(t) \in 0 .. n
         /\ LastNewLine(t) # 0 => t[LastNewLine(t)] = NewLine
         /\ \A i \in 1 .. n : i > LastNewLine(t) => t[i] # NewLine
<1>1. NewLines(t) \cup {0} \subseteq 0 .. n /\ NewLines(t) \cup {0} # {}
  BY DEF NewLines
<1>2. /\ LastNewLine(t) \in NewLines(t) \cup {0}
      /\ \A i \in NewLines(t) \cup {0} : i <= LastNewLine(t)
  BY <1>1, GreatestMember DEF LastNewLine
<1> QED
  BY <1>1, <1>2 DEF NewLines

(* The reader appends what it read, and remembers what it appended. *)
LEMMA ReaderTypes ==
  ASSUME DataTypes, CbType, ReaderStep PROVE DataTypes' /\ CbType'
<1>1. UNCHANGED <<letter, ring, wr, ready, resets, gone>> /\ Numbers' = Numbers
  BY ReaderKeeps DEF Numbers
<1>2. /\ cb.wr \in Offsets /\ cb.rd \in Offsets
      /\ Len(file) \in Nat /\ Len(data) \in Nat
  BY LenProperties DEF DataTypes
<1>3. 0 \in 0 .. Size /\ Size \in 0 .. Size /\ Offsets \subseteq 0 .. Size
  BY Sizes DEF Offsets
<1> USE DEF Places
<1>4. CASE \E needle \in BOOLEAN : Start(needle)
  <2>1. /\ UNCHANGED <<rd, cb, data, file>> /\ pc' = "top"
        /\ opened' = Len(file) /\ tail' = <<>>
    BY <1>4 DEF Start, target
  <2>2. tail' \in Seq(Numbers)
    BY <2>1
  <2> QED
    BY <1>1, <1>2, <2>1, <2>2 DEF DataTypes, CbType
<1>5. CASE Poll
  <2>1. /\ UNCHANGED <<rd, tail, file, opened>> /\ data' = <<>>
        /\ cb' = [wr |-> wr, rd |-> rd]
        /\ pc' = IF ready /\ cb'.wr # cb'.rd THEN "read" ELSE "top"
    BY <1>5 DEF Poll, WrOffRead, target, session
  <2>2. data' \in Seq(Numbers) /\ cb' \in [wr : Offsets, rd : Offsets]
    BY <2>1 DEF DataTypes
  <2>3. pc' \in {"read", "top"} /\ (pc' = "read" => cb'.wr # cb'.rd)
    BY <2>1
  <2> QED
    BY <1>1, <2>1, <2>2, <2>3 DEF DataTypes, CbType
<1>6. CASE Read
  <2>1. UNCHANGED <<rd, cb, tail, file, opened>> /\ cb.wr # cb.rd
    BY <1>6 DEF Read, CbType, target, session
  <2>2. CASE cb.wr > cb.rd
    <3>1. data' = Segment(cb.rd, cb.wr) /\ pc' = "append"
      BY <1>6, <2>2 DEF Read
    <3>2. data' \in Seq(Numbers)
      <4>1. cb.rd \in 0 .. Size /\ cb.wr \in 0 .. Size /\ cb.rd <= cb.wr
        BY <1>2, <1>3, <2>2, Sizes DEF Offsets
      <4> QED
        BY <3>1, <4>1, SegmentProperties DEF DataTypes
    <3> QED
      BY <1>1, <2>1, <3>1, <3>2 DEF DataTypes, CbType
  <2>3. CASE ~(cb.wr > cb.rd)
    <3>1. data' = Segment(cb.rd, Size) /\ pc' = "wrapped" /\ cb.wr < cb.rd
      BY <1>2, <1>6, <2>1, <2>3, Sizes DEF Read, Offsets
    <3>2. data' \in Seq(Numbers)
      <4>1. cb.rd \in 0 .. Size /\ Size \in 0 .. Size /\ cb.rd <= Size
        BY <1>2, <1>3, Sizes DEF Offsets
      <4> QED
        BY <3>1, <4>1, SegmentProperties DEF DataTypes
    <3> QED
      BY <1>1, <2>1, <3>1, <3>2 DEF DataTypes, CbType
  <2> QED
    BY <2>2, <2>3
<1>7. CASE ReadWrapped
  <2>1. /\ UNCHANGED <<rd, cb, tail, file, opened>> /\ pc' = "append"
        /\ data' = data \o Segment(0, cb.wr)
    BY <1>7 DEF ReadWrapped, target, session
  <2>2. Segment(0, cb.wr) \in Seq(Numbers)
    <3>1. 0 \in 0 .. Size /\ cb.wr \in 0 .. Size /\ 0 <= cb.wr
      BY <1>2, <1>3, Sizes DEF Offsets
    <3> QED
      BY <3>1, SegmentProperties DEF DataTypes
  <2>3. data' \in Seq(Numbers)
    BY <2>1, <2>2, ConcatProperties DEF DataTypes
  <2> QED
    BY <1>1, <2>1, <2>3 DEF DataTypes, CbType
<1>8. CASE AppendData
  <2>1. /\ UNCHANGED <<rd, cb, data, tail, opened>> /\ pc' = "consume"
        /\ file' = file \o data
    BY <1>8 DEF AppendData, target, session
  <2>2. file' \in Seq(Numbers) /\ Len(file') = Len(file) + Len(data)
    BY <2>1, ConcatProperties DEF DataTypes
  <2>3. opened <= Len(file')
    BY <1>2, <2>2 DEF DataTypes
  <2> QED
    BY <1>1, <2>1, <2>2, <2>3 DEF DataTypes, CbType
<1>9. CASE Consume
  <2>1. /\ UNCHANGED <<cb, data, tail, file, opened>> /\ rd' = cb.wr
        /\ pc' \in {"match", "top"}
    BY <1>9 DEF Consume, session
  <2> QED
    BY <1>1, <1>2, <2>1 DEF DataTypes, CbType
<1>10. CASE Match
  <2>1. /\ UNCHANGED <<rd, cb, data, file, opened>> /\ pc' \in {"stopped", "top"}
        /\ tail' = tail \/ tail' = LineBegun(tail \o data)
    BY <1>10 DEF Match, target, session
  <2>2. tail' \in Seq(Numbers)
    <3> DEFINE t == tail \o data
    <3>1. t \in Seq(Numbers) /\ Len(t) \in Nat
      BY ConcatProperties, LenProperties DEF DataTypes
    <3>2. DOMAIN Text(t) = 1 .. Len(t)
      BY <3>1, LenProperties DEF Text
    <3>3. LastNewLine(Text(t)) \in 0 .. Len(t)
      BY <3>1, <3>2, LastLineEnds
    <3>4. \A i \in LastNewLine(Text(t)) + 1 .. Len(t) : t[i] \in Numbers
      BY <3>1, <3>3, ElementOfSeq
    <3> HIDE DEF t
    <3>5. SubSeq(t, LastNewLine(Text(t)) + 1, Len(t)) \in Seq(Numbers)
      BY <3>1, <3>3, <3>4, SubSeqProperties
    <3> QED
      BY <2>1, <3>5 DEF LineBegun, DataTypes, t
  <2> QED
    BY <1>1, <2>1, <2>2 DEF DataTypes, CbType
<1>11. CASE Deadline \/ Abort
  BY <1>1, <1>11 DEF Deadline, Abort, DataTypes, CbType, target, session
<1> QED
  BY <1>4, <1>5, <1>6, <1>7, <1>8, <1>9, <1>10, <1>11 DEF ReaderStep

(* Every step keeps every variable in its type. *)
LEMMA TypeStep == TypeOK /\ [Next]_vars => TypeOK'
<1> SUFFICES ASSUME TypeOK, [Next]_vars PROVE TypeOK'
  OBVIOUS
<1>1. FlagTypes'
  BY FlagStep DEF TypeOK
<1>2. CASE TargetStep
  <2>1. DataTypes'
    BY <1>2, TargetTypes DEF TypeOK
  <2>2. CbType'
    BY <1>2, TargetKeeps DEF TypeOK, CbType
  <2> QED
    BY <1>1, <2>1, <2>2 DEF TypeOK
<1>3. CASE ReaderStep
  BY <1>1, <1>3, ReaderTypes DEF TypeOK
<1>4. CASE UNCHANGED vars
  BY <1>1, <1>4 DEF vars, target, session, TypeOK, DataTypes, CbType, Numbers
<1> QED
  BY <1>2, <1>3, <1>4 DEF Next

-----------------------------------------------------------------------------
(* How far offset j is ahead of i, and the offset k behind i. *)
Dist(i, j) == IF j >= i THEN j - i ELSE j - i + Size
At(i, k) == IF i + k < Size THEN i + k ELSE i + k - Size

(* The last byte that was taken out of the ring, and the bytes of a poll.  *)
Taken == Len(letter) - Dist(rd, wr)
Amount == Dist(cb.rd, cb.wr)

(* The ring holds the bytes behind the last one taken, in order. *)
RingInv ==
  /\ Dist(rd, wr) <= Len(letter)
  /\ \A k \in 0 .. Dist(rd, wr) - 1 : ring[At(rd, k)] = Taken + k + 1

(* What was taken is in the file, or went with a reset. *)
FileInv ==
  /\ \A i \in DOMAIN file : file[i] \in 1 .. Len(letter)
  /\ gone \subseteq 1 .. Len(letter)
  /\ \A b \in 1 .. Taken : b \in gone \/ \E i \in DOMAIN file : file[i] = b

Reading == pc \in {"read", "wrapped", "append", "consume"}

(* A poll reads the first bytes that wait, though more of them come.       *)
PollInv ==
  Reading =>
    /\ cb.rd = rd /\ 1 <= Amount /\ Amount <= Dist(rd, wr)
    /\ pc = "wrapped" => Len(data) = Size - cb.rd
    /\ pc \in {"append", "consume"} => Len(data) = Amount
    /\ pc # "read" => \A i \in 1 .. Len(data) : data[i] = Taken + i
    /\ pc = "consume" =>
         /\ Len(data) <= Len(file)
         /\ \A i \in 1 .. Len(data) : file[Len(file) - Len(data) + i] = data[i]

(* A session appends what it takes, and nothing else. *)
Limit == IF pc = "consume" THEN Taken + Amount ELSE Taken
OrderInv ==
  /\ \A i, j \in opened + 1 .. Len(file) : i < j => file[i] < file[j]
  /\ ~Ended => \A i \in opened + 1 .. Len(file) : file[i] <= Limit

Stream == RingInv /\ FileInv /\ PollInv /\ OrderInv
StreamInv == ~torn => Stream

(* The offsets of a ring, counted from one of them. *)
LEMMA Offset ==
  ASSUME NEW r \in Offsets, NEW w \in Offsets
  PROVE  /\ Dist(r, w) \in 0 .. Size - 1 /\ (Dist(r, w) = 0 <=> r = w)
         /\ At(r, Dist(r, w)) = w
         /\ \A k \in 0 .. Size - 1 : At(r, k) \in Offsets
         /\ \A k, l \in 0 .. Size - 1 : At(r, k) = At(r, l) => k = l
BY Sizes DEF Offsets, Dist, At

(* An offset on the way from one to another. *)
LEMMA OnTheWay ==
  ASSUME NEW r \in Offsets, NEW w \in Offsets, NEW m \in Offsets,
         Dist(r, m) <= Dist(r, w)
  PROVE  /\ Dist(m, w) = Dist(r, w) - Dist(r, m)
         /\ \A k \in 0 .. Dist(m, w) - 1 : At(m, k) = At(r, Dist(r, m) + k)
BY Sizes DEF Offsets, Dist, At

(* One more byte waits. *)
LEMMA OneMore ==
  ASSUME NEW r \in Offsets, NEW w \in Offsets, Next1(w) # r
  PROVE  Dist(r, Next1(w)) = Dist(r, w) + 1
<1>1. r \in 0 .. Size - 1 /\ w \in 0 .. Size - 1 /\ Size \in Nat /\ Size > 1
  BY Sizes DEF Offsets
<1>2. Next1(w) = IF w = Size - 1 THEN 0 ELSE w + 1
  BY NextOffset
<1>3. CASE w = Size - 1
  BY <1>1, <1>2, <1>3 DEF Dist
<1>4. CASE w # Size - 1
  BY <1>1, <1>2, <1>4 DEF Dist
<1> QED
  BY <1>3, <1>4

(* The lengths and places that the steps below count with. *)
LEMMA Counts ==
  ASSUME DataTypes
  PROVE  /\ Len(letter) \in Nat /\ Len(file) \in Nat /\ Len(data) \in Nat
         /\ DOMAIN file = 1 .. Len(file) /\ DOMAIN data = 1 .. Len(data)
         /\ rd \in Offsets /\ wr \in Offsets
         /\ cb.rd \in Offsets /\ cb.wr \in Offsets
         /\ Dist(rd, wr) \in 0 .. Size - 1 /\ Amount \in 0 .. Size - 1
         /\ Taken \in Int /\ opened \in Nat /\ opened <= Len(file)
         /\ \A i \in 1 .. Len(file) : file[i] \in Nat
<1>1. rd \in Offsets /\ wr \in Offsets /\ cb.rd \in Offsets /\ cb.wr \in Offsets
  BY DEF DataTypes
<1>2. Dist(rd, wr) \in 0 .. Size - 1 /\ Amount \in 0 .. Size - 1
  BY <1>1, Offset DEF Amount
<1>3. /\ Len(letter) \in Nat /\ Len(file) \in Nat /\ Len(data) \in Nat
      /\ DOMAIN file = 1 .. Len(file) /\ DOMAIN data = 1 .. Len(data)
      /\ opened \in Nat /\ opened <= Len(file)
  BY LenProperties DEF DataTypes
<1>4. Taken \in Int
  BY <1>2, <1>3, Sizes DEF Taken
<1>5. \A i \in 1 .. Len(file) : file[i] \in Nat
  BY <1>3, ElementOfSeq DEF DataTypes, Numbers
<1> QED
  BY <1>1, <1>2, <1>3, <1>4, <1>5

(* What waits in the ring is what was written last. *)
LEMMA UnreadBytes ==
  ASSUME DataTypes, RingInv
  PROVE  ToSet(Unread(rd, wr)) = Taken + 1 .. Len(letter)
<1> DEFINE n == Dist(rd, wr)
           u == Unread(rd, wr)
<1>1. /\ rd \in 0 .. Size /\ wr \in 0 .. Size /\ rd <= Size /\ 0 <= wr
      /\ rd < Size /\ wr < Size /\ ring \in [Offsets -> Numbers]
      /\ 0 \in 0 .. Size /\ Size \in 0 .. Size
      /\ n \in Nat /\ Len(letter) \in Nat /\ Taken \in Int
      /\ Taken = Len(letter) - n
  BY Counts, Sizes DEF Offsets, Taken, DataTypes
<1>2. u \in Seq(Numbers) /\ Len(u) = n /\ \A i \in 1 .. n : u[i] = ring[At(rd, i - 1)]
  <2>1. CASE wr >= rd
    <3>1. /\ u = Segment(rd, wr) /\ n = wr - rd
          /\ \A i \in 1 .. n : At(rd, i - 1) = rd + i - 1
      BY <1>1, <2>1 DEF Unread, Dist, At
    <3>2. /\ Segment(rd, wr) \in Seq(Numbers) /\ Len(Segment(rd, wr)) = wr - rd
          /\ \A i \in 1 .. wr - rd : Segment(rd, wr)[i] = ring[rd + i - 1]
      <4>1. rd <= wr
        BY <1>1, <2>1
      <4> HIDE DEF n, u
      <4> QED
        BY <1>1, <4>1, SegmentProperties
    <3> HIDE DEF n, u
    <3> QED
      BY <3>1, <3>2
  <2>2. CASE ~(wr >= rd)
    <3>1. u = Segment(rd, Size) \o Segment(0, wr) /\ n = wr - rd + Size
      BY <1>1, <2>2 DEF Unread, Dist
    <3>2. /\ Segment(rd, Size) \in Seq(Numbers) /\ Len(Segment(rd, Size)) = Size - rd
          /\ \A i \in 1 .. Size - rd : Segment(rd, Size)[i] = ring[rd + i - 1]
      <4> HIDE DEF n, u
      <4> QED
        BY <1>1, SegmentProperties
    <3>3. /\ Segment(0, wr) \in Seq(Numbers) /\ Len(Segment(0, wr)) = wr - 0
          /\ \A i \in 1 .. wr - 0 : Segment(0, wr)[i] = ring[0 + i - 1]
      <4> HIDE DEF n, u
      <4> QED
        BY <1>1, SegmentProperties
    <3>4. /\ u \in Seq(Numbers) /\ Len(u) = (Size - rd) + (wr - 0)
          /\ \A i \in 1 .. (Size - rd) + (wr - 0) :
               u[i] = IF i <= Size - rd THEN Segment(rd, Size)[i]
                                        ELSE Segment(0, wr)[i - (Size - rd)]
      BY <3>1, <3>2, <3>3, ConcatProperties
    <3> HIDE DEF n, u
    <3>5. ASSUME NEW i \in 1 .. n PROVE u[i] = ring[At(rd, i - 1)]
      <4>1. CASE i <= Size - rd
        <5>1. i \in 1 .. Size - rd
          BY <1>1, <3>1, <4>1
        <5>2. i \in 1 .. (Size - rd) + (wr - 0)
          BY <1>1, <5>1
        <5>3. u[i] = Segment(rd, Size)[i]
          BY <3>4, <4>1, <5>2
        <5>4. Segment(rd, Size)[i] = ring[rd + i - 1]
          BY <3>2, <5>1
        <5>5. At(rd, i - 1) = rd + i - 1
          BY <1>1, <4>1 DEF At
        <5> QED
          BY <5>3, <5>4, <5>5
      <4>2. CASE ~(i <= Size - rd)
        <5>1. i - (Size - rd) \in 1 .. wr - 0
          BY <1>1, <3>1, <4>2
        <5>2. u[i] = ring[0 + (i - (Size - rd)) - 1]
          <6>1. u[i] = Segment(0, wr)[i - (Size - rd)]
            BY <1>1, <3>1, <3>4, <4>2
          <6>2. Segment(0, wr)[i - (Size - rd)] = ring[0 + (i - (Size - rd)) - 1]
            BY <3>3, <5>1
          <6> QED
            BY <6>1, <6>2
        <5>3. At(rd, i - 1) = 0 + (i - (Size - rd)) - 1
          BY <1>1, <4>2 DEF At
        <5> QED
          BY <5>2, <5>3
      <4> QED
        BY <4>1, <4>2
    <3> QED
      BY <1>1, <3>1, <3>4, <3>5
  <2> QED
    BY <2>1, <2>2
<1> HIDE DEF u
<1>3. DOMAIN u = 1 .. n
  BY <1>2, LenProperties
<1>4. ASSUME NEW i \in 1 .. n PROVE u[i] = Taken + i
  <2>1. i - 1 \in 0 .. n - 1
    BY <1>1
  <2>2. ring[At(rd, i - 1)] = Taken + (i - 1) + 1
    BY <2>1 DEF RingInv
  <2> QED
    BY <1>1, <1>2, <2>2
<1>5. ASSUME NEW b \in Taken + 1 .. Len(letter) PROVE \E i \in 1 .. n : u[i] = b
  <2>1. b - Taken \in 1 .. n /\ Taken + (b - Taken) = b
    BY <1>1
  <2> QED
    BY <1>4, <2>1
<1>6. ASSUME NEW i \in 1 .. n PROVE u[i] \in Taken + 1 .. Len(letter)
  BY <1>1, <1>4
<1> QED
  BY <1>3, <1>5, <1>6 DEF ToSet, u

(* A byte that is written waits behind the others. *)
LEMMA WriteKeepsStream ==
  ASSUME DataTypes, Stream, NEW c \in Letters, TargetWrites(c)
  PROVE  Stream'
<1> DEFINE n == Dist(rd, wr)
<1>1. /\ Next1(wr) # rd /\ wr' = Next1(wr)
      /\ letter' = Append(letter, c)
      /\ ring' = [ring EXCEPT ![wr] = Len(letter) + 1]
      /\ UNCHANGED <<rd, gone, opened, pc, cb, data, file>>
  BY DEF TargetWrites, session
<1>2. Len(letter') = Len(letter) + 1
  BY <1>1, AppendProperties DEF DataTypes
<1>3. Dist(rd', wr') = n + 1
  BY <1>1, OneMore, Counts
<1>4. Taken' = Taken /\ Amount' = Amount
  BY <1>1, <1>2, <1>3, Counts, Sizes DEF Taken, Amount
<1>5. RingInv'
  <2>1. Dist(rd', wr') <= Len(letter')
    BY <1>2, <1>3, Counts, Sizes DEF Stream, RingInv
  <2>2. n + 1 <= Size - 1 /\ n \in Nat
    <3>1. wr' \in Offsets
      BY <1>1, NextOffset, Counts
    <3>2. Dist(rd, wr') \in 0 .. Size - 1
      BY <3>1, Offset, Counts
    <3> QED
      BY <1>1, <1>3, <3>2, Counts, Sizes
  <2>3. ASSUME NEW k \in 0 .. n PROVE ring'[At(rd, k)] = Taken + k + 1
    <3>1. CASE k = n
      <4>1. At(rd, k) = wr
        BY <3>1, Offset, Counts
      <4>2. ring'[wr] = Len(letter) + 1
        BY <1>1, Counts DEF DataTypes
      <4> QED
        BY <3>1, <4>1, <4>2, Counts, Sizes DEF Taken
    <3>2. CASE k # n
      <4>1. k \in 0 .. n - 1 /\ k \in 0 .. Size - 1 /\ n \in 0 .. Size - 1
        BY <2>2, <3>2, Sizes
      <4>2. At(rd, k) # wr /\ At(rd, k) \in Offsets
        BY <3>2, <4>1, Offset, Counts
      <4>3. ring'[At(rd, k)] = ring[At(rd, k)]
        BY <1>1, <4>2 DEF DataTypes
      <4> QED
        BY <4>1, <4>3 DEF Stream, RingInv
    <3> QED
      BY <3>1, <3>2
  <2>4. \A k \in 0 .. Dist(rd', wr') - 1 : k \in 0 .. n
    BY <1>3, <2>2
  <2> HIDE DEF n
  <2>5. \A k \in 0 .. Dist(rd', wr') - 1 : ring'[At(rd', k)] = Taken' + k + 1
    BY <1>1, <1>4, <2>3, <2>4
  <2> QED
    BY <2>1, <2>5 DEF RingInv, At
<1>6. FileInv'
  BY <1>1, <1>2, <1>4, Counts DEF Stream, FileInv
<1>7. PollInv'
  <2>1. Reading' = Reading
    BY <1>1 DEF Reading
  <2>2. Amount <= n => Amount' <= Dist(rd', wr')
    BY <1>3, <1>4, Counts, Sizes
  <2> QED
    BY <1>1, <1>4, <2>1, <2>2 DEF Stream, PollInv
<1>8. OrderInv'
  <2>1. Limit' = Limit /\ Ended' = Ended
    BY <1>1, <1>4 DEF Limit, Ended
  <2> QED
    BY <1>1, <2>1 DEF Stream, OrderInv
<1> QED
  BY <1>5, <1>6, <1>7, <1>8 DEF Stream

(* A reset between two polls takes what waits with it. *)
LEMMA ResetKeepsStream ==
  ASSUME DataTypes, Stream, TargetResets, ~torn' PROVE Stream'
<1>1. /\ wr' = 0 /\ rd' = 0 /\ ~Polling
      /\ gone' = gone \cup (ToSet(Unread(rd, wr)) \ ToSet(file))
      /\ UNCHANGED <<letter, ring, opened, pc, cb, data, file>>
  BY DEF TargetResets, session
<1>2. ~Reading /\ pc # "consume"
  BY <1>1 DEF Reading, Polling, Ended
<1>3. Dist(rd', wr') = 0 /\ Taken' = Len(letter) /\ Taken <= Len(letter)
  BY <1>1, Counts DEF Dist, Taken
<1>4. RingInv'
  BY <1>1, <1>3, Counts DEF RingInv
<1>5. FileInv'
  <2>1. ToSet(Unread(rd, wr)) = Taken + 1 .. Len(letter)
    BY UnreadBytes DEF Stream
  <2>2. Taken \in Nat
    BY Counts DEF Stream, RingInv, Taken
  <2>3. gone' \subseteq 1 .. Len(letter)
    <3>1. Taken + 1 .. Len(letter) \subseteq 1 .. Len(letter)
      BY <2>2, Counts
    <3>2. gone \subseteq 1 .. Len(letter)
      BY DEF Stream, FileInv
    <3> QED
      BY <1>1, <2>1, <3>1, <3>2
  <2>4. ASSUME NEW b \in 1 .. Len(letter)
        PROVE  b \in gone' \/ \E i \in DOMAIN file : file[i] = b
    <3>1. CASE b <= Taken
      BY <1>1, <2>2, <3>1 DEF Stream, FileInv
    <3>2. CASE ~(b <= Taken)
      <4>1. b \in Taken + 1 .. Len(letter)
        BY <2>2, <3>2, Counts
      <4>2. b \in gone' \/ b \in ToSet(file)
        BY <1>1, <2>1, <4>1
      <4> QED
        BY <4>2 DEF ToSet
    <3> QED
      BY <3>1, <3>2
  <2> QED
    BY <1>1, <1>3, <2>3, <2>4 DEF Stream, FileInv
<1>6. PollInv'
  BY <1>1, <1>2 DEF PollInv, Reading
<1>7. OrderInv'
  <2>1. Limit = Taken /\ Limit' = Taken' /\ Ended' = Ended
    BY <1>1, <1>2 DEF Limit, Ended
  <2>2. \A i \in opened + 1 .. Len(file) : i \in 1 .. Len(file) /\ file[i] \in Nat
    BY Counts
  <2>3. ASSUME ~Ended, NEW i \in opened + 1 .. Len(file) PROVE file[i] <= Limit'
    <3>1. file[i] <= Taken
      BY <2>1, <2>3 DEF Stream, OrderInv
    <3> QED
      BY <1>3, <2>1, <2>2, <3>1, Counts
  <2> QED
    BY <1>1, <2>1, <2>3 DEF Stream, OrderInv
<1> QED
  BY <1>4, <1>5, <1>6, <1>7 DEF Stream

(* What a step of the reader leaves as it is, unless it consumes. *)
LEMMA ReaderCounts ==
  ASSUME ReaderStep, UNCHANGED rd
  PROVE  /\ UNCHANGED <<letter, ring, wr, gone>>
         /\ Dist(rd', wr') = Dist(rd, wr) /\ Taken' = Taken
         /\ RingInv' = RingInv
<1>1. UNCHANGED <<letter, ring, wr, gone>>
  BY ReaderKeeps
<1>2. Dist(rd', wr') = Dist(rd, wr) /\ Taken' = Taken
  BY <1>1 DEF Dist, Taken
<1>3. RingInv' = RingInv
  BY <1>1, <1>2 DEF RingInv, At
<1> QED
  BY <1>1, <1>2, <1>3

(* A poll finds what waits, or nothing to do. *)
LEMMA PollKeepsStream ==
  ASSUME DataTypes, Stream, Poll PROVE Stream'
<1>1. /\ UNCHANGED <<letter, rd, wr, gone, file, opened>> /\ pc = "top"
      /\ cb' = [wr |-> wr, rd |-> rd]
      /\ pc' \in {"read", "top"} /\ (pc' = "read" => cb'.wr # cb'.rd)
  BY DEF Poll, WrOffRead, target, session
<1>2. RingInv' /\ Taken' = Taken /\ Dist(rd', wr') = Dist(rd, wr)
  BY <1>1, ReaderCounts DEF Stream, ReaderStep
<1>3. cb'.wr = wr /\ cb'.rd = rd
  BY <1>1
<1>4. Amount' = Dist(rd, wr)
  BY <1>3 DEF Amount, Dist
<1>5. FileInv'
  BY <1>1, <1>2 DEF Stream, FileInv
<1>6. PollInv'
  <2> SUFFICES ASSUME pc' = "read" PROVE PollInv'
    BY <1>1 DEF PollInv, Reading
  <2>1. wr # rd
    BY <1>1, <1>3
  <2>2. 1 <= Dist(rd, wr)
    BY <2>1, Offset, Counts, Sizes
  <2> QED
    BY <1>1, <1>2, <1>3, <1>4, <2>2, Counts, Sizes DEF PollInv
<1>7. OrderInv'
  <2>1. Limit' = Limit /\ ~Ended
    BY <1>1, <1>2 DEF Limit, Ended
  <2> QED
    BY <1>1, <2>1 DEF Stream, OrderInv
<1> QED
  BY <1>2, <1>5, <1>6, <1>7 DEF Stream

(* The first piece, or all of it when the ring did not wrap. *)
LEMMA ReadKeepsStream ==
  ASSUME DataTypes, CbType, Stream, Read PROVE Stream'
<1>1. /\ UNCHANGED <<letter, rd, wr, gone, cb, file, opened>> /\ pc = "read"
      /\ pc' \in {"append", "wrapped"} /\ cb.wr # cb.rd
  BY DEF Read, CbType, target, session
<1>2. RingInv' /\ Taken' = Taken /\ Dist(rd', wr') = Dist(rd, wr)
  BY <1>1, ReaderCounts DEF Stream, ReaderStep
<1>3. /\ Amount' = Amount /\ cb.rd = rd /\ 1 <= Amount /\ Amount <= Dist(rd, wr)
  BY <1>1 DEF Amount, Stream, PollInv, Reading
<1>4. /\ rd \in 0 .. Size /\ cb.wr \in 0 .. Size /\ Size \in 0 .. Size
      /\ rd < Size /\ rd <= Size /\ cb.wr < Size /\ ring \in [Offsets -> Numbers]
  BY <1>3, Counts, Sizes DEF Offsets, DataTypes
<1>5. ASSUME NEW i \in 1 .. Amount, rd + i - 1 < Size
      PROVE  ring[rd + i - 1] = Taken + i
  <2>1. i - 1 \in 0 .. Dist(rd, wr) - 1 /\ At(rd, i - 1) = rd + i - 1
    BY <1>3, <1>4, <1>5, Counts, Sizes DEF At
  <2>2. ring[At(rd, i - 1)] = Taken + (i - 1) + 1
    BY <2>1 DEF Stream, RingInv
  <2> QED
    BY <2>1, <2>2, Counts
<1>6. FileInv' /\ OrderInv'
  <2>1. Limit' = Limit /\ ~Ended
    BY <1>1, <1>2 DEF Limit, Ended
  <2> QED
    BY <1>1, <1>2, <2>1 DEF Stream, FileInv, OrderInv
<1>7. CASE cb.wr > cb.rd
  <2>1. data' = Segment(rd, cb.wr) /\ pc' = "append" /\ rd <= cb.wr
        /\ Amount = cb.wr - rd
    BY <1>1, <1>3, <1>4, <1>7 DEF Read, Amount, Dist
  <2>2. /\ Len(data') = cb.wr - rd
        /\ \A i \in 1 .. cb.wr - rd : data'[i] = ring[rd + i - 1]
    BY <1>4, <2>1, SegmentProperties
  <2>3. \A i \in 1 .. Len(data') : data'[i] = Taken + i
    BY <1>4, <1>5, <2>1, <2>2
  <2>4. PollInv'
    BY <1>1, <1>2, <1>3, <2>1, <2>2, <2>3 DEF PollInv
  <2> QED
    BY <1>2, <1>6, <2>4 DEF Stream
<1>8. CASE ~(cb.wr > cb.rd)
  <2>1. data' = Segment(rd, Size) /\ pc' = "wrapped" /\ cb.wr < rd
        /\ Amount = cb.wr - rd + Size
    BY <1>1, <1>3, <1>4, <1>8 DEF Read, Amount, Dist
  <2>2. /\ Len(data') = Size - rd
        /\ \A i \in 1 .. Size - rd : data'[i] = ring[rd + i - 1]
    BY <1>4, <2>1, SegmentProperties
  <2>3. \A i \in 1 .. Len(data') : data'[i] = Taken + i
    BY <1>4, <1>5, <2>1, <2>2
  <2>4. PollInv'
    BY <1>1, <1>2, <1>3, <2>1, <2>2, <2>3 DEF PollInv
  <2> QED
    BY <1>2, <1>6, <2>4 DEF Stream
<1> QED
  BY <1>7, <1>8

(* The second piece continues the first. *)
LEMMA WrappedKeepsStream ==
  ASSUME DataTypes, CbType, Stream, ReadWrapped PROVE Stream'
<1>1. /\ UNCHANGED <<letter, rd, wr, gone, cb, file, opened>> /\ pc = "wrapped"
      /\ pc' = "append" /\ cb.wr < cb.rd /\ data' = data \o Segment(0, cb.wr)
  BY DEF ReadWrapped, CbType, target, session
<1>2. RingInv' /\ Taken' = Taken /\ Dist(rd', wr') = Dist(rd, wr)
  BY <1>1, ReaderCounts DEF Stream, ReaderStep
<1>3. /\ Amount' = Amount /\ cb.rd = rd /\ 1 <= Amount /\ Amount <= Dist(rd, wr)
      /\ Len(data) = Size - rd /\ \A i \in 1 .. Len(data) : data[i] = Taken + i
  BY <1>1 DEF Amount, Stream, PollInv, Reading
<1>4. /\ rd \in Nat /\ cb.wr \in 0 .. Size /\ 0 \in 0 .. Size /\ 0 <= cb.wr
      /\ rd < Size /\ ring \in [Offsets -> Numbers] /\ Size \in Nat
      /\ Amount = cb.wr - rd + Size
  <2>1. /\ rd \in Nat /\ cb.wr \in 0 .. Size /\ 0 \in 0 .. Size /\ 0 <= cb.wr
        /\ rd < Size /\ Size \in Nat
    BY Counts, Sizes DEF Offsets
  <2>2. ring \in [Offsets -> Numbers]
    BY DEF DataTypes
  <2>3. Amount = cb.wr - rd + Size
    BY <1>1, <1>3, <2>1 DEF Amount, Dist
  <2> QED
    BY <2>1, <2>2, <2>3
<1>5. /\ Segment(0, cb.wr) \in Seq(Numbers) /\ Len(Segment(0, cb.wr)) = cb.wr - 0
      /\ \A i \in 1 .. cb.wr - 0 : Segment(0, cb.wr)[i] = ring[0 + i - 1]
  BY <1>4, SegmentProperties
<1>6. /\ Len(data') = Len(data) + (cb.wr - 0)
      /\ \A i \in 1 .. Len(data) + (cb.wr - 0) :
           data'[i] = IF i <= Len(data) THEN data[i]
                                        ELSE Segment(0, cb.wr)[i - Len(data)]
  BY <1>1, <1>5, ConcatProperties DEF DataTypes
<1>7. Len(data') = Amount
  BY <1>3, <1>4, <1>6
<1>8. ASSUME NEW i \in 1 .. Amount PROVE data'[i] = Taken + i
  <2>1. CASE i <= Len(data)
    BY <1>3, <1>4, <1>6, <2>1
  <2>2. CASE ~(i <= Len(data))
    <3>1. i - Len(data) \in 1 .. cb.wr - 0
      BY <1>3, <1>4, <2>2
    <3>2. data'[i] = ring[0 + (i - Len(data)) - 1]
      <4>1. data'[i] = Segment(0, cb.wr)[i - Len(data)]
        BY <1>3, <1>4, <1>6, <2>2
      <4> QED
        BY <1>5, <3>1, <4>1
    <3>3. /\ i - 1 \in 0 .. Dist(rd, wr) - 1
          /\ At(rd, i - 1) = 0 + (i - Len(data)) - 1
      BY <1>3, <1>4, <2>2, Counts, Sizes DEF At
    <3>4. ring[At(rd, i - 1)] = Taken + (i - 1) + 1
      BY <3>3 DEF Stream, RingInv
    <3> QED
      BY <3>2, <3>3, <3>4, Counts
  <2> QED
    BY <2>1, <2>2
<1>9. FileInv' /\ OrderInv'
  <2>1. Limit' = Limit /\ ~Ended
    BY <1>1, <1>2 DEF Limit, Ended
  <2> QED
    BY <1>1, <1>2, <2>1 DEF Stream, FileInv, OrderInv
<1>10. PollInv'
  BY <1>1, <1>2, <1>3, <1>7, <1>8 DEF PollInv
<1> QED
  BY <1>2, <1>9, <1>10 DEF Stream

(* The bytes of a poll follow those the session appended before. *)
LEMMA AppendKeepsStream ==
  ASSUME DataTypes, Stream, AppendData PROVE Stream'
<1>1. /\ UNCHANGED <<letter, rd, wr, gone, cb, data, opened>> /\ pc = "append"
      /\ pc' = "consume" /\ file' = file \o data
  BY DEF AppendData, target, session
<1>2. RingInv' /\ Taken' = Taken /\ Dist(rd', wr') = Dist(rd, wr)
  BY <1>1, ReaderCounts DEF Stream, ReaderStep
<1>3. /\ Amount' = Amount /\ cb.rd = rd /\ 1 <= Amount /\ Amount <= Dist(rd, wr)
      /\ Len(data) = Amount /\ \A i \in 1 .. Len(data) : data[i] = Taken + i
  BY <1>1 DEF Amount, Stream, PollInv, Reading
<1>4. /\ Len(file') = Len(file) + Len(data)
      /\ \A i \in 1 .. Len(file) + Len(data) :
           file'[i] = IF i <= Len(file) THEN file[i] ELSE data[i - Len(file)]
      /\ DOMAIN file' = 1 .. Len(file')
  BY <1>1, ConcatProperties, LenProperties DEF DataTypes
<1>5. Taken \in Nat /\ Taken + Amount <= Len(letter)
  BY <1>3, Counts, Sizes DEF Taken, Stream, RingInv
<1>6. \A i \in 1 .. Len(file) : file'[i] = file[i]
  BY <1>4, Counts
<1>7. ASSUME NEW i \in Len(file) + 1 .. Len(file')
      PROVE  file'[i] = Taken + (i - Len(file)) /\ i - Len(file) \in 1 .. Amount
  <2>1. i - Len(file) \in 1 .. Len(data) /\ ~(i <= Len(file))
        /\ i \in 1 .. Len(file) + Len(data)
    BY <1>4, Counts
  <2>2. file'[i] = data[i - Len(file)]
    BY <1>4, <2>1
  <2> QED
    BY <1>3, <2>1, <2>2
<1>8. FileInv'
  <2>1. ASSUME NEW i \in 1 .. Len(file') PROVE file'[i] \in 1 .. Len(letter)
    <3>1. CASE i <= Len(file)
      BY <1>6, <3>1, Counts DEF Stream, FileInv
    <3>2. CASE ~(i <= Len(file))
      <4>1. i \in Len(file) + 1 .. Len(file')
        BY <1>4, <3>2, Counts
      <4> QED
        BY <1>5, <1>7, <4>1, Counts
    <3> QED
      BY <3>1, <3>2
  <2>2. ASSUME NEW b \in 1 .. Taken
        PROVE  b \in gone \/ \E i \in 1 .. Len(file') : file'[i] = b
    <3>1. 1 .. Len(file) \subseteq 1 .. Len(file')
      BY <1>4, Counts
    <3>2. b \in gone \/ \E i \in 1 .. Len(file) : file[i] = b
      BY Counts DEF Stream, FileInv
    <3> QED
      BY <1>6, <3>1, <3>2
  <2> QED
    BY <1>1, <1>2, <1>4, <2>1, <2>2 DEF Stream, FileInv
<1>9. PollInv'
  <2>1. /\ Len(data) <= Len(file') /\ Len(file') - Len(data) = Len(file)
        /\ \A i \in 1 .. Len(data) :
             Len(file) + i \in Len(file) + 1 .. Len(file') /\ Len(file) + i - Len(file) = i
    BY <1>4, Counts
  <2>2. \A i \in 1 .. Len(data) : file'[Len(file') - Len(data) + i] = data[i]
    <3> TAKE i \in 1 .. Len(data)
    <3>1. file'[Len(file) + i] = Taken + (Len(file) + i - Len(file))
      BY <1>7, <2>1
    <3> QED
      BY <1>3, <2>1, <3>1
  <2> QED
    BY <1>1, <1>2, <1>3, <2>1, <2>2 DEF PollInv
<1>10. OrderInv'
  <2>1. Limit' = Taken + Amount /\ Limit = Taken /\ ~Ended
    BY <1>1, <1>2, <1>3 DEF Limit, Ended
  <2>2. \A i \in opened + 1 .. Len(file) : file[i] <= Taken /\ i \in 1 .. Len(file)
    BY <2>1, Counts DEF Stream, OrderInv
  <2>3. ASSUME NEW i \in opened + 1 .. Len(file') PROVE file'[i] <= Taken + Amount
    <3>1. CASE i <= Len(file)
      <4>1. i \in opened + 1 .. Len(file) /\ i \in 1 .. Len(file)
        BY <3>1, Counts
      <4> QED
        BY <1>3, <1>6, <2>2, <4>1, Counts
    <3>2. CASE ~(i <= Len(file))
      <4>1. i \in Len(file) + 1 .. Len(file')
        BY <1>4, <3>2, Counts
      <4> QED
        BY <1>5, <1>7, <4>1, Counts
    <3> QED
      BY <3>1, <3>2
  <2>4. ASSUME NEW i \in opened + 1 .. Len(file'),
               NEW j \in opened + 1 .. Len(file'), i < j
        PROVE  file'[i] < file'[j]
    <3>1. CASE j <= Len(file)
      <4>1. /\ i \in opened + 1 .. Len(file) /\ j \in opened + 1 .. Len(file)
            /\ i \in 1 .. Len(file) /\ j \in 1 .. Len(file)
        BY <2>4, <3>1, Counts
      <4> QED
        BY <1>6, <2>4, <4>1 DEF Stream, OrderInv
    <3>2. CASE i <= Len(file) /\ ~(j <= Len(file))
      <4>1. /\ i \in opened + 1 .. Len(file) /\ i \in 1 .. Len(file)
            /\ j \in Len(file) + 1 .. Len(file')
        BY <1>4, <3>2, Counts
      <4>2. file'[i] <= Taken /\ file'[i] \in Nat
        BY <1>6, <2>2, <4>1, Counts
      <4>3. file'[j] > Taken
        BY <1>5, <1>7, <4>1, Counts
      <4> QED
        BY <1>5, <1>7, <4>1, <4>2, <4>3
    <3>3. CASE ~(i <= Len(file)) /\ ~(j <= Len(file))
      <4>1. i \in Len(file) + 1 .. Len(file') /\ j \in Len(file) + 1 .. Len(file')
        BY <1>4, <3>3, Counts
      <4> QED
        BY <1>5, <1>7, <2>4, <4>1, Counts
    <3> QED
      BY <2>4, <3>1, <3>2, <3>3, Counts
  <2> QED
    BY <1>1, <2>1, <2>3, <2>4 DEF OrderInv
<1> QED
  BY <1>2, <1>8, <1>9, <1>10 DEF Stream

(* What was appended is taken out of the ring. *)
LEMMA ConsumeKeepsStream ==
  ASSUME DataTypes, Stream, Consume PROVE Stream'
<1>1. /\ UNCHANGED <<letter, ring, wr, gone, cb, data, file, opened>>
      /\ pc = "consume" /\ rd' = cb.wr /\ pc' \in {"match", "top"}
  BY DEF Consume, session
<1>2. /\ cb.rd = rd /\ 1 <= Amount /\ Amount <= Dist(rd, wr)
      /\ Len(data) = Amount /\ \A i \in 1 .. Len(data) : data[i] = Taken + i
      /\ Len(data) <= Len(file)
      /\ \A i \in 1 .. Len(data) : file[Len(file) - Len(data) + i] = data[i]
  BY <1>1 DEF Stream, PollInv, Reading
<1>3. /\ Dist(rd', wr') = Dist(rd, wr) - Amount
      /\ \A k \in 0 .. Dist(rd', wr') - 1 : At(rd', k) = At(rd, Amount + k)
  BY <1>1, <1>2, OnTheWay, Counts DEF Amount
<1>4. Taken' = Taken + Amount
  BY <1>1, <1>3, Counts, Sizes DEF Taken
<1>5. RingInv'
  <2>1. Dist(rd', wr') <= Len(letter)
    BY <1>2, <1>3, Counts, Sizes DEF Stream, RingInv
  <2>2. ASSUME NEW k \in 0 .. Dist(rd', wr') - 1
        PROVE  ring[At(rd', k)] = Taken' + k + 1
    <3>1. Amount + k \in 0 .. Dist(rd, wr) - 1
      BY <1>2, <1>3, Counts, Sizes
    <3>2. ring[At(rd, Amount + k)] = Taken + (Amount + k) + 1
      BY <3>1 DEF Stream, RingInv
    <3> QED
      BY <1>3, <1>4, <3>2, Counts, Sizes
  <2> QED
    BY <1>1, <2>1, <2>2 DEF RingInv, At
<1>6. FileInv'
  <2>1. ASSUME NEW b \in 1 .. Taken'
        PROVE  b \in gone \/ \E i \in DOMAIN file : file[i] = b
    <3>1. CASE b <= Taken
      BY <3>1, Counts DEF Stream, FileInv
    <3>2. CASE ~(b <= Taken)
      <4>1. b - Taken \in 1 .. Len(data) /\ Taken + (b - Taken) = b
        BY <1>2, <1>4, <3>2, Counts
      <4>2. Len(file) - Len(data) + (b - Taken) \in DOMAIN file
        BY <1>2, <4>1, Counts
      <4>3. file[Len(file) - Len(data) + (b - Taken)] = b
        BY <1>2, <4>1
      <4> QED
        BY <4>2, <4>3
    <3> QED
      BY <3>1, <3>2
  <2> QED
    BY <1>1, <2>1 DEF Stream, FileInv
<1>7. PollInv'
  BY <1>1 DEF PollInv, Reading
<1>8. OrderInv'
  <2>1. Limit = Taken + Amount /\ Limit' = Taken + Amount /\ ~Ended
    BY <1>1, <1>4 DEF Limit, Ended
  <2> QED
    BY <1>1, <2>1 DEF Stream, OrderInv
<1> QED
  BY <1>5, <1>6, <1>7, <1>8 DEF Stream

(* A session begins with nothing appended, and ends anywhere. *)
LEMMA SessionKeepsStream ==
  ASSUME DataTypes, Stream,
         (\E needle \in BOOLEAN : Start(needle)) \/ Match \/ Deadline \/ Abort
  PROVE  Stream'
<1>1. UNCHANGED <<letter, ring, wr, rd, gone, cb, data, file>> /\ Taken' = Taken
  BY DEF Start, Match, Deadline, Abort, target, session, Taken, Dist
<1>2. RingInv' /\ FileInv'
  BY <1>1 DEF Stream, RingInv, FileInv, At
<1>3. pc' \in {"top", "off", "stopped"}
  BY DEF Start, Match, Deadline, Abort
<1>4. PollInv'
  BY <1>3 DEF PollInv, Reading
<1>5. CASE \E needle \in BOOLEAN : Start(needle)
  <2>1. opened' = Len(file')
    BY <1>1, <1>5 DEF Start
  <2>2. opened' + 1 .. Len(file') = {}
    BY <1>1, <2>1, Counts
  <2>3. OrderInv'
    BY <2>2 DEF OrderInv
  <2> QED
    BY <1>2, <1>4, <2>3 DEF Stream
<1>6. CASE Match
  <2>1. opened' = opened /\ pc = "match"
    BY <1>6 DEF Match, session
  <2>2. Limit = Taken /\ Limit' = Taken /\ ~Ended
    BY <1>1, <1>3, <2>1 DEF Limit, Ended
  <2>3. OrderInv'
    BY <1>1, <2>1, <2>2 DEF Stream, OrderInv
  <2> QED
    BY <1>2, <1>4, <2>3 DEF Stream
<1>7. CASE Deadline \/ Abort
  <2>1. opened' = opened /\ Ended'
    BY <1>7 DEF Deadline, Abort, session, Ended
  <2>2. OrderInv'
    BY <1>1, <2>1 DEF Stream, OrderInv
  <2> QED
    BY <1>2, <1>4, <2>2 DEF Stream
<1> QED
  BY <1>5, <1>6, <1>7

(* Nothing happens to ring and capture. *)
LEMMA StreamStays ==
  ASSUME Stream,
         UNCHANGED <<letter, ring, wr, rd, gone, pc, cb, data, file, opened>>
  PROVE  Stream'
<1>1. Taken' = Taken /\ Amount' = Amount
  BY DEF Taken, Amount, Dist
<1>2. RingInv' /\ FileInv'
  BY <1>1 DEF Stream, RingInv, FileInv, At
<1>3. PollInv' /\ OrderInv'
  BY <1>1 DEF Stream, PollInv, OrderInv, Limit, Ended, Reading, Dist
<1> QED
  BY <1>2, <1>3 DEF Stream

(* Target and reader keep the capture and the ring together. *)
LEMMA StreamStep == TypeOK /\ StreamInv /\ [Next]_vars => StreamInv'
<1> SUFFICES ASSUME TypeOK, StreamInv, [Next]_vars, ~torn' PROVE Stream'
  BY DEF StreamInv
<1>1. CASE UNCHANGED vars
  <2>1. UNCHANGED <<letter, ring, wr, rd, gone, pc, cb, data, file, opened, torn>>
    BY <1>1 DEF vars, target, session
  <2>2. Stream
    BY <2>1 DEF StreamInv
  <2> QED
    BY <2>1, <2>2, StreamStays
<1>2. CASE TargetReady
  <2>1. UNCHANGED <<letter, ring, wr, rd, gone, pc, cb, data, file, opened, torn>>
    BY <1>2 DEF TargetReady, session
  <2>2. Stream
    BY <2>1 DEF StreamInv
  <2> QED
    BY <2>1, <2>2, StreamStays
<1>3. CASE \E c \in Letters : TargetWrites(c)
  <2>1. Stream
    BY <1>3 DEF TargetWrites, StreamInv
  <2> QED
    BY <1>3, <2>1, WriteKeepsStream DEF TypeOK
<1>4. CASE TargetResets
  <2>1. Stream
    BY <1>4 DEF TargetResets, StreamInv
  <2> QED
    BY <1>4, <2>1, ResetKeepsStream DEF TypeOK
<1>5. CASE ReaderStep
  <2>1. torn' = torn
    BY <1>5 DEF ReaderStep, Start, Poll, Read, ReadWrapped, AppendData, Consume,
                Match, Deadline, Abort
  <2>2. Stream
    BY <2>1 DEF StreamInv
  <2> QED
    BY <1>5, <2>2, SessionKeepsStream, PollKeepsStream, ReadKeepsStream,
       WrappedKeepsStream, AppendKeepsStream, ConsumeKeepsStream
       DEF TypeOK, ReaderStep
<1> QED
  BY <1>1, <1>2, <1>3, <1>4, <1>5 DEF Next, TargetStep

-----------------------------------------------------------------------------
(* What was written in a byte, and the marker and a newline behind it among*)
(* the bytes a + 1 .. b of a file, for any letters and any file.           *)
LetterAt(l, byte) == IF byte = 0 THEN 0 ELSE l[byte]
NeedleAt(l, f, i) == \A k \in 1 .. Len(Needle) : LetterAt(l, f[i + k - 1]) = Needle[k]
Marked(l, f, a, b) ==
  \E i, j \in a + 1 .. b :
     i + Len(Needle) <= j /\ LetterAt(l, f[j]) = NewLine /\ NeedleAt(l, f, i)

(* Bytes appended that the search has not seen yet, and where they begin.  *)
Searching == pc \in {"consume", "match"}
Searched == Len(file) - (IF Searching THEN Len(data) ELSE 0)

(* The capture of a session is whole lines, in which there is no marker,   *)
(* the line begun, which tail holds, and the bytes of this poll.           *)
LineInv ==
  stopping /\ ~Ended =>
    LET m == Searched - Len(tail)
    IN  /\ opened <= m
        /\ opened = m \/ LetterAt(letter, file[m]) = NewLine
        /\ \A i \in 1 .. Len(tail) :
             file[m + i] = tail[i] /\ LetterAt(letter, tail[i]) # NewLine
        /\ Searching => \A i \in 1 .. Len(data) : file[Searched + i] = data[i]
        /\ ~Marked(letter, file, opened, m)

StoppedInv == pc = "stopped" => Marked(letter, file, opened, Len(file))

MarkInv == LineInv /\ StoppedInv

(* What was written stays. *)
LEMMA LetterStays ==
  ASSUME DataTypes, TargetStep, NEW byte \in Numbers
  PROVE  LetterAt(letter', byte) = LetterAt(letter, byte)
<1>1. CASE \E c \in Letters : TargetWrites(c)
  <2>1. PICK c \in Letters : letter' = Append(letter, c)
    BY <1>1 DEF TargetWrites
  <2>2. byte # 0 => byte \in 1 .. Len(letter)
    BY DEF Numbers
  <2>3. byte # 0 => letter'[byte] = letter[byte]
    BY <2>1, <2>2, AppendProperties DEF DataTypes
  <2> QED
    BY <2>3 DEF LetterAt
<1>2. CASE TargetResets \/ TargetReady
  BY <1>2 DEF TargetResets, TargetReady, LetterAt
<1> QED
  BY <1>1, <1>2 DEF TargetStep

(* A marker stays where it is when bytes are added behind it. *)
LEMMA MarkStays ==
  ASSUME NEW l, NEW h, NEW f, NEW g, NEW a \in Nat, NEW b \in Nat,
         \A i \in 1 .. b : LetterAt(h, g[i]) = LetterAt(l, f[i])
  PROVE  Marked(h, g, a, b) <=> Marked(l, f, a, b)
<1>1. ASSUME NEW i \in a + 1 .. b, NEW j \in a + 1 .. b, i + Len(Needle) <= j
      PROVE  /\ LetterAt(h, g[j]) = LetterAt(l, f[j])
             /\ NeedleAt(h, g, i) <=> NeedleAt(l, f, i)
  <2>1. \A k \in 1 .. Len(Needle) : i + k - 1 \in 1 .. b
    BY <1>1, Sizes
  <2>2. \A k \in 1 .. Len(Needle) :
          LetterAt(h, g[i + k - 1]) = LetterAt(l, f[i + k - 1])
    BY <2>1
  <2>3. j \in 1 .. b
    OBVIOUS
  <2> QED
    BY <2>2, <2>3 DEF NeedleAt
<1> QED
  BY <1>1 DEF Marked

(* The search: the capture has a marked line exactly when the lines which  *)
(* the new bytes completed have the marker, since no marker reaches over   *)
(* the newline before them or contains the one that ends them.             *)
LEMMA SearchFindsMark ==
  ASSUME NEW l, NEW f, NEW a \in Nat, NEW m \in Nat, NEW n \in Nat, NEW last \in Nat,
         a <= m, m + last <= n, ~Marked(l, f, a, m),
         a = m \/ LetterAt(l, f[m]) = NewLine,
         last # 0 => LetterAt(l, f[m + last]) = NewLine,
         \A i \in m + last + 1 .. n : LetterAt(l, f[i]) # NewLine
  PROVE  Marked(l, f, a, n)
           <=> \E i \in 0 .. last - Len(Needle) : NeedleAt(l, f, m + i + 1)
<1>1. ASSUME NEW i \in a + 1 .. n, NEW j \in a + 1 .. n,
             i + Len(Needle) <= j, LetterAt(l, f[j]) = NewLine, NeedleAt(l, f, i)
      PROVE  \E k \in 0 .. last - Len(Needle) : NeedleAt(l, f, m + k + 1)
  <2>1. j <= m + last
    BY <1>1
  <2>2. i > m
    <3> SUFFICES ASSUME i <= m PROVE FALSE
      OBVIOUS
    <3>1. LetterAt(l, f[m]) = NewLine /\ m \in a + 1 .. m /\ i \in a + 1 .. m
      OBVIOUS
    <3>2. CASE i + Len(Needle) <= m
      BY <1>1, <3>1, <3>2 DEF Marked
    <3>3. CASE ~(i + Len(Needle) <= m)
      <4>1. m - i + 1 \in 1 .. Len(Needle) /\ i + (m - i + 1) - 1 = m
        BY <3>3, Sizes
      <4>2. LetterAt(l, f[m]) = Needle[m - i + 1]
        BY <1>1, <4>1 DEF NeedleAt
      <4> QED
        BY <3>1, <4>1, <4>2, Sizes
    <3> QED
      BY <3>2, <3>3
  <2>3. i - m - 1 \in 0 .. last - Len(Needle) /\ m + (i - m - 1) + 1 = i
    BY <1>1, <2>1, <2>2, Sizes
  <2> QED
    BY <1>1, <2>3
<1>2. ASSUME NEW k \in 0 .. last - Len(Needle), NeedleAt(l, f, m + k + 1)
      PROVE  Marked(l, f, a, n)
  <2> DEFINE i == m + k + 1
             j == m + last
  <2>1. i \in a + 1 .. n /\ j \in a + 1 .. n /\ i + Len(Needle) - 1 <= j /\ last # 0
    BY <1>2, Sizes
  <2>2. LetterAt(l, f[j]) = NewLine
    BY <2>1
  <2>3. i + Len(Needle) - 1 # j
    <3>1. Len(Needle) \in 1 .. Len(Needle)
      BY Sizes
    <3>2. LetterAt(l, f[i + Len(Needle) - 1]) = Needle[Len(Needle)]
      BY <1>2, <3>1 DEF NeedleAt
    <3> QED
      BY <2>2, <3>1, <3>2, Sizes
  <2>4. i + Len(Needle) <= j
    BY <2>1, <2>3, Sizes
  <2> HIDE DEF i, j
  <2>5. NeedleAt(l, f, i)
    BY <1>2 DEF i
  <2> QED
    BY <2>1, <2>2, <2>4, <2>5 DEF Marked
<1> QED
  BY <1>1, <1>2 DEF Marked

Cells == Letters \cup {0}

(* The text of bytes. *)
LEMMA TextOfBytes ==
  ASSUME DataTypes, NEW s \in Seq(Numbers)
  PROVE  /\ Text(s) \in Seq(Cells) /\ Len(Text(s)) = Len(s)
         /\ DOMAIN Text(s) = 1 .. Len(s)
         /\ \A i \in 1 .. Len(s) : Text(s)[i] = LetterAt(letter, s[i])
<1>1. Len(s) \in Nat /\ DOMAIN s = 1 .. Len(s)
  BY LenProperties
<1>2. ASSUME NEW i \in 1 .. Len(s)
      PROVE  (IF s[i] = 0 THEN 0 ELSE letter[s[i]]) \in Cells
  <2>1. s[i] \in Numbers
    BY <1>2, ElementOfSeq
  <2>2. s[i] # 0 => letter[s[i]] \in Letters
    BY <2>1, ElementOfSeq DEF DataTypes, Numbers
  <2> QED
    BY <2>2 DEF Cells
<1>3. Text(s) = [i \in 1 .. Len(s) |-> IF s[i] = 0 THEN 0 ELSE letter[s[i]]]
  BY <1>1 DEF Text
<1>4. Text(s) \in [1 .. Len(s) -> Cells]
  BY <1>2, <1>3
<1>5. Text(s) \in Seq(Cells) /\ Len(Text(s)) = Len(s)
  BY <1>1, <1>4
<1> QED
  BY <1>1, <1>3, <1>5 DEF LetterAt

(* The marker in a text, letter by letter. *)
LEMMA NeedleInText ==
  ASSUME NEW t \in Seq(Cells), NEW i \in Nat \ {0}, i + Len(Needle) - 1 <= Len(t)
  PROVE  SubSeq(t, i, i + Len(Needle) - 1) = Needle
           <=> \A k \in 1 .. Len(Needle) : t[i + k - 1] = Needle[k]
<1> DEFINE n == i + Len(Needle) - 1
           s == SubSeq(t, i, n)
<1>1. n \in Int /\ i \in Int /\ i <= n /\ n - i + 1 = Len(Needle)
  BY Sizes
<1>2. \A k \in i .. n : t[k] \in Cells
  <2>1. \A k \in i .. n : k \in 1 .. Len(t)
    BY <1>1, LenProperties
  <2> QED
    BY <2>1, ElementOfSeq
<1> HIDE DEF n
<1>3. /\ s \in Seq(Cells) /\ Len(s) = Len(Needle)
      /\ \A k \in 1 .. Len(Needle) : s[k] = t[i + k - 1]
  BY <1>1, <1>2, SubSeqProperties
<1>4. Needle \in Seq(Cells)
  BY Sizes, SeqMonotonic DEF Cells
<1> HIDE DEF s
<1>5. s = Needle <=> \A k \in 1 .. Len(Needle) : s[k] = Needle[k]
  BY <1>3, <1>4, SeqEqual
<1> QED
  BY <1>3, <1>5 DEF s, n

(* The target's steps change no letter that the capture has. *)
LEMMA TargetKeepsMark ==
  ASSUME DataTypes, MarkInv, TargetStep PROVE MarkInv'
<1>1. UNCHANGED <<stopping, opened, pc, data, tail, file>>
  BY TargetKeeps DEF session
<1>2. /\ \A i \in 1 .. Len(file) : LetterAt(letter', file[i]) = LetterAt(letter, file[i])
      /\ \A i \in 1 .. Len(tail) : LetterAt(letter', tail[i]) = LetterAt(letter, tail[i])
  <2>1. \A i \in 1 .. Len(file) : file[i] \in Numbers
    BY ElementOfSeq DEF DataTypes
  <2>2. \A i \in 1 .. Len(tail) : tail[i] \in Numbers
    BY ElementOfSeq DEF DataTypes
  <2> QED
    BY <2>1, <2>2, LetterStays
<1>3. ASSUME NEW b \in Nat, b <= Len(file)
      PROVE  Marked(letter', file, opened, b) <=> Marked(letter, file, opened, b)
  <2>1. \A i \in 1 .. b : LetterAt(letter', file[i]) = LetterAt(letter, file[i])
    BY <1>2, <1>3, Counts
  <2> QED
    BY <2>1, MarkStays, Counts
<1>4. LineInv'
  <2> DEFINE m == Searched - Len(tail)
  <2> SUFFICES ASSUME stopping, ~Ended
               PROVE  /\ opened <= m
                      /\ opened = m \/ LetterAt(letter', file[m]) = NewLine
                      /\ \A i \in 1 .. Len(tail) :
                            /\ file[m + i] = tail[i]
                            /\ LetterAt(letter', tail[i]) # NewLine
                      /\ Searching =>
                           \A i \in 1 .. Len(data) : file[Searched + i] = data[i]
                      /\ ~Marked(letter', file, opened, m)
    BY <1>1 DEF LineInv, Ended, Searched, Searching
  <2>1. /\ opened <= m
        /\ opened = m \/ LetterAt(letter, file[m]) = NewLine
        /\ \A i \in 1 .. Len(tail) :
             file[m + i] = tail[i] /\ LetterAt(letter, tail[i]) # NewLine
        /\ Searching => \A i \in 1 .. Len(data) : file[Searched + i] = data[i]
        /\ ~Marked(letter, file, opened, m)
    BY DEF MarkInv, LineInv
  <2>2. m \in Nat /\ m <= Len(file) /\ opened \in Nat
    <3>1. Len(tail) \in Nat /\ Searched \in Int /\ Searched <= Len(file)
      BY Counts, LenProperties DEF DataTypes, Searched
    <3> QED
      BY <2>1, <3>1, Counts
  <2> HIDE DEF m
  <2>3. opened = m \/ LetterAt(letter', file[m]) = NewLine
    BY <1>2, <2>1, <2>2
  <2>4. ~Marked(letter', file, opened, m)
    BY <1>3, <2>1, <2>2
  <2> QED
    BY <1>2, <2>1, <2>3, <2>4
<1>5. StoppedInv'
  BY <1>1, <1>3, Counts DEF MarkInv, StoppedInv
<1> QED
  BY <1>4, <1>5 DEF MarkInv

(* A session begins with a capture of its own that is empty. *)
LEMMA StartKeepsMark ==
  ASSUME DataTypes, \E needle \in BOOLEAN : Start(needle) PROVE MarkInv'
<1>1. /\ UNCHANGED <<letter, file>> /\ opened' = Len(file) /\ tail' = <<>>
      /\ pc' = "top"
  BY DEF Start, target
<1>2. Searched' = Len(file) /\ Len(tail') = 0 /\ ~Searching'
  BY <1>1 DEF Searched, Searching
<1>3. ~Marked(letter', file', opened', Len(file))
  BY <1>1, Counts DEF Marked
<1>4. LineInv'
  BY <1>1, <1>2, <1>3, Counts DEF LineInv
<1> QED
  BY <1>1, <1>4 DEF MarkInv, StoppedInv

(* Reading goes on without touching the capture; a session that is aborted *)
(* owes no marker.                                                         *)
LEMMA ReadingKeepsMark ==
  ASSUME DataTypes, MarkInv, Poll \/ Read \/ ReadWrapped \/ Consume \/ Deadline \/ Abort
  PROVE  MarkInv'
<1>1. UNCHANGED <<letter, file, opened, tail, stopping>>
  BY DEF Poll, Read, ReadWrapped, Consume, Deadline, Abort, target, session
<1>2. pc' # "stopped"
  BY DEF Poll, Read, ReadWrapped, Consume, Deadline, Abort
<1>3. CASE Poll \/ Read \/ ReadWrapped
  <2>1. ~Searching /\ ~Searching' /\ ~Ended
    BY <1>3 DEF Poll, Read, ReadWrapped, Searching, Ended
  <2>2. Searched' = Searched
    BY <1>1, <2>1 DEF Searched
  <2> QED
    BY <1>1, <1>2, <2>1, <2>2 DEF MarkInv, LineInv, StoppedInv
<1>4. CASE Consume
  <2>1. /\ data' = data /\ Searching /\ ~Ended
        /\ stopping => Searching'
    BY <1>4 DEF Consume, Searching, Ended
  <2>2. stopping => Searched' = Searched
    BY <1>1, <2>1 DEF Searched
  <2> QED
    BY <1>1, <1>2, <2>1, <2>2 DEF MarkInv, LineInv, StoppedInv
<1>5. CASE Deadline \/ Abort
  <2>1. Ended'
    BY <1>5 DEF Deadline, Abort, Ended
  <2> QED
    BY <1>2, <2>1 DEF MarkInv, LineInv, StoppedInv
<1> QED
  BY <1>3, <1>4, <1>5

(* What is appended follows the line begun. *)
LEMMA AppendKeepsMark ==
  ASSUME DataTypes, MarkInv, AppendData PROVE MarkInv'
<1>1. /\ UNCHANGED <<letter, opened, tail, data, stopping>> /\ pc = "append"
      /\ pc' = "consume" /\ file' = file \o data
  BY DEF AppendData, target, session
<1>2. /\ Len(file') = Len(file) + Len(data)
      /\ \A i \in 1 .. Len(file) + Len(data) :
           file'[i] = IF i <= Len(file) THEN file[i] ELSE data[i - Len(file)]
  BY <1>1, ConcatProperties DEF DataTypes
<1>3. /\ Searched = Len(file) /\ Searched' = Len(file) /\ ~Ended /\ ~Ended'
      /\ Searching'
  BY <1>1, <1>2, Counts DEF Searched, Searching, Ended
<1>4. \A i \in 1 .. Len(file) : file'[i] = file[i]
  BY <1>2, Counts
<1>5. \A i \in 1 .. Len(data) : file'[Len(file) + i] = data[i]
  <2> TAKE i \in 1 .. Len(data)
  <2>1. /\ Len(file) + i \in 1 .. Len(file) + Len(data)
        /\ ~(Len(file) + i <= Len(file)) /\ Len(file) + i - Len(file) = i
    BY Counts
  <2> QED
    BY <1>2, <2>1
<1> DEFINE m == Len(file) - Len(tail)
<1>6. LineInv'
  <2> SUFFICES ASSUME stopping
               PROVE  /\ opened <= m
                      /\ opened = m \/ LetterAt(letter, file'[m]) = NewLine
                      /\ \A i \in 1 .. Len(tail) :
                            /\ file'[m + i] = tail[i]
                            /\ LetterAt(letter, tail[i]) # NewLine
                      /\ ~Marked(letter, file', opened, m)
    BY <1>1, <1>3, <1>5 DEF LineInv
  <2>1. /\ opened <= m
        /\ opened = m \/ LetterAt(letter, file[m]) = NewLine
        /\ \A i \in 1 .. Len(tail) :
             file[m + i] = tail[i] /\ LetterAt(letter, tail[i]) # NewLine
        /\ ~Marked(letter, file, opened, m)
    BY <1>3 DEF MarkInv, LineInv
  <2>2. /\ m \in Nat /\ m <= Len(file) /\ opened \in Nat
        /\ \A i \in 1 .. Len(tail) : m + i \in 1 .. Len(file)
        /\ opened # m => m \in 1 .. Len(file)
    BY <2>1, Counts, LenProperties DEF DataTypes
  <2> HIDE DEF m
  <2>3. ~Marked(letter, file', opened, m)
    <3>1. \A i \in 1 .. m : LetterAt(letter, file'[i]) = LetterAt(letter, file[i])
      BY <1>4, <2>2, Counts
    <3> QED
      BY <2>1, <2>2, <3>1, MarkStays
  <2> QED
    BY <1>4, <2>1, <2>2, <2>3
<1> QED
  BY <1>1, <1>6 DEF MarkInv, StoppedInv

(* The search of a poll, in terms of the capture. *)
LEMMA MatchFindsMark ==
  ASSUME DataTypes, LineInv, Match, stopping,
         NEW t, t = tail \o data, NEW last, last = LastNewLine(Text(t)),
         NEW m, m = Searched - Len(tail)
  PROVE  /\ t \in Seq(Numbers) /\ m \in Nat /\ last \in 0 .. Len(t)
         /\ m + Len(t) = Len(file) /\ opened <= m
         /\ opened = m \/ LetterAt(letter, file[m]) = NewLine
         /\ \A i \in 1 .. Len(t) : file[m + i] = t[i]
         /\ last # 0 => LetterAt(letter, file[m + last]) = NewLine
         /\ \A i \in last + 1 .. Len(t) : LetterAt(letter, t[i]) # NewLine
         /\ Holds(WholeLines(Text(t))) <=> Marked(letter, file, opened, Len(file))
<1>1. /\ ~Ended /\ Searching /\ Searched = Len(file) - Len(data)
      /\ Len(tail) \in Nat /\ Len(data) \in Nat /\ Len(file) \in Nat
      /\ opened \in Nat
  BY Counts, LenProperties DEF Match, Ended, Searching, Searched, DataTypes
<1>2. /\ opened <= m
      /\ opened = m \/ LetterAt(letter, file[m]) = NewLine
      /\ \A i \in 1 .. Len(tail) : file[m + i] = tail[i]
      /\ \A i \in 1 .. Len(data) : file[Searched + i] = data[i]
      /\ ~Marked(letter, file, opened, m)
  BY <1>1 DEF LineInv
<1>3. /\ t \in Seq(Numbers) /\ Len(t) = Len(tail) + Len(data) /\ Len(t) \in Nat
      /\ \A i \in 1 .. Len(tail) + Len(data) :
           t[i] = IF i <= Len(tail) THEN tail[i] ELSE data[i - Len(tail)]
  BY ConcatProperties, LenProperties DEF DataTypes
<1>4. m \in Nat /\ m + Len(t) = Len(file) /\ Searched = m + Len(tail)
  BY <1>1, <1>2, <1>3
<1>5. ASSUME NEW i \in 1 .. Len(t) PROVE file[m + i] = t[i]
  <2>1. CASE i <= Len(tail)
    BY <1>1, <1>2, <1>3, <2>1
  <2>2. CASE ~(i <= Len(tail))
    <3>1. i - Len(tail) \in 1 .. Len(data) /\ Searched + (i - Len(tail)) = m + i
      BY <1>1, <1>3, <1>4, <2>2
    <3>2. t[i] = data[i - Len(tail)]
      BY <1>1, <1>3, <2>2
    <3> QED
      BY <1>2, <3>1, <3>2
  <2> QED
    BY <2>1, <2>2
<1>6. /\ Text(t) \in Seq(Cells) /\ Len(Text(t)) = Len(t)
      /\ DOMAIN Text(t) = 1 .. Len(t)
      /\ \A i \in 1 .. Len(t) : Text(t)[i] = LetterAt(letter, file[m + i])
  BY <1>3, <1>5, TextOfBytes
<1>7. /\ last \in 0 .. Len(t)
      /\ last # 0 => LetterAt(letter, file[m + last]) = NewLine
      /\ \A i \in last + 1 .. Len(t) : LetterAt(letter, file[m + i]) # NewLine
  <2>1. /\ last \in 0 .. Len(t) /\ (last # 0 => Text(t)[last] = NewLine)
        /\ \A i \in 1 .. Len(t) : i > last => Text(t)[i] # NewLine
    BY <1>3, <1>6, LastLineEnds
  <2>2. \A i \in last + 1 .. Len(t) : i \in 1 .. Len(t) /\ i > last
    BY <1>3, <2>1
  <2> QED
    BY <1>3, <1>6, <2>1, <2>2
<1>8. \A i \in m + last + 1 .. Len(file) : LetterAt(letter, file[i]) # NewLine
  <2> TAKE i \in m + last + 1 .. Len(file)
  <2>1. i - m \in last + 1 .. Len(t) /\ m + (i - m) = i
    BY <1>3, <1>4, <1>7
  <2> QED
    BY <1>7, <2>1
<1>9. Marked(letter, file, opened, Len(file))
        <=> \E i \in 0 .. last - Len(Needle) : NeedleAt(letter, file, m + i + 1)
  <2>1. last \in Nat /\ m + last <= Len(file)
    BY <1>3, <1>4, <1>7
  <2> QED
    BY <1>1, <1>2, <1>4, <1>7, <1>8, <2>1, SearchFindsMark
<1> DEFINE w == WholeLines(Text(t))
<1>10. /\ w \in Seq(Cells) /\ Len(w) = last
       /\ \A i \in 1 .. last : w[i] = LetterAt(letter, file[m + i])
  <2>1. \A i \in 1 .. last : i \in 1 .. Len(t) /\ Text(t)[i] \in Cells
    BY <1>3, <1>6, <1>7, ElementOfSeq
  <2>2. w = SubSeq(Text(t), 1, last)
    BY DEF WholeLines
  <2> HIDE DEF w
  <2>3. /\ w \in Seq(Cells) /\ Len(w) = IF 1 <= last THEN last - 1 + 1 ELSE 0
        /\ \A i \in 1 .. last - 1 + 1 : w[i] = Text(t)[1 + i - 1]
    BY <1>7, <2>1, <2>2, SubSeqProperties
  <2> QED
    BY <1>3, <1>6, <1>7, <2>1, <2>3
<1> HIDE DEF w
<1>11. ASSUME NEW i \in 0 .. last - Len(Needle)
       PROVE  SubSeq(w, i + 1, i + Len(Needle)) = Needle
                <=> NeedleAt(letter, file, m + i + 1)
  <2>1. /\ i + 1 \in Nat \ {0} /\ (i + 1) + Len(Needle) - 1 <= Len(w)
        /\ (i + 1) + Len(Needle) - 1 = i + Len(Needle)
    BY <1>7, <1>10, Sizes
  <2>2. SubSeq(w, i + 1, (i + 1) + Len(Needle) - 1) = Needle
          <=> \A k \in 1 .. Len(Needle) : w[(i + 1) + k - 1] = Needle[k]
    BY <1>10, <2>1, NeedleInText
  <2>3. ASSUME NEW k \in 1 .. Len(Needle)
        PROVE  w[(i + 1) + k - 1] = LetterAt(letter, file[(m + i + 1) + k - 1])
    <3>1. i + k \in 1 .. last /\ (i + 1) + k - 1 = i + k
          /\ (m + i + 1) + k - 1 = m + (i + k)
      BY <1>4, <1>7, Sizes
    <3> QED
      BY <1>10, <3>1
  <2> QED
    BY <2>1, <2>2, <2>3 DEF NeedleAt
<1>12. Holds(w) <=> \E i \in 0 .. last - Len(Needle) : NeedleAt(letter, file, m + i + 1)
  BY <1>10, <1>11 DEF Holds
<1>13. \A i \in last + 1 .. Len(t) : LetterAt(letter, t[i]) # NewLine
  <2>1. \A i \in last + 1 .. Len(t) : i \in 1 .. Len(t)
    BY <1>3, <1>7
  <2> QED
    BY <1>5, <1>7, <2>1
<1> QED
  BY <1>2, <1>3, <1>4, <1>5, <1>7, <1>9, <1>12, <1>13 DEF w

(* The session stops at its marker, or goes on with the line begun. *)
LEMMA MatchKeepsMark ==
  ASSUME DataTypes, MarkInv, Match, stopping PROVE MarkInv'
<1> DEFINE t == tail \o data
           last == LastNewLine(Text(t))
           m == Searched - Len(tail)
<1>1. UNCHANGED <<letter, file, opened, stopping, data>> /\ pc = "match"
  BY DEF Match, target, session
<1>2. /\ t \in Seq(Numbers) /\ m \in Nat /\ last \in 0 .. Len(t)
      /\ m + Len(t) = Len(file) /\ opened <= m
      /\ opened = m \/ LetterAt(letter, file[m]) = NewLine
      /\ \A i \in 1 .. Len(t) : file[m + i] = t[i]
      /\ last # 0 => LetterAt(letter, file[m + last]) = NewLine
      /\ \A i \in last + 1 .. Len(t) : LetterAt(letter, t[i]) # NewLine
      /\ Holds(WholeLines(Text(t))) <=> Marked(letter, file, opened, Len(file))
  BY MatchFindsMark DEF MarkInv
<1>3. CASE Holds(WholeLines(Text(t)))
  <2>1. pc' = "stopped"
    BY <1>3 DEF Match
  <2> QED
    BY <1>1, <1>2, <1>3, <2>1 DEF MarkInv, LineInv, StoppedInv, Ended
<1>4. CASE ~Holds(WholeLines(Text(t)))
  <2>1. pc' = "top" /\ tail' = SubSeq(t, last + 1, Len(t))
    BY <1>4 DEF Match, LineBegun
  <2>2. Len(t) \in Nat /\ \A i \in last + 1 .. Len(t) : t[i] \in Numbers
    BY <1>2, LenProperties, ElementOfSeq
  <2> HIDE DEF t, last, m
  <2>3. /\ Len(tail') = Len(t) - last
        /\ \A i \in 1 .. Len(t) - last : tail'[i] = t[last + i]
    <3>1. /\ Len(tail') = IF last + 1 <= Len(t) THEN Len(t) - (last + 1) + 1 ELSE 0
          /\ \A i \in 1 .. Len(t) - (last + 1) + 1 : tail'[i] = t[last + 1 + i - 1]
      BY <1>2, <2>1, <2>2, SubSeqProperties
    <3> QED
      BY <1>2, <2>2, <3>1
  <2>4. Searched' - Len(tail') = m + last
    <3>1. Searched' = Len(file)
      BY <1>1, <2>1, Counts DEF Searched, Searching
    <3>2. m \in Nat /\ last \in Nat /\ m + Len(t) = Len(file)
      BY <1>2, <2>2
    <3>3. Len(t) \in Nat /\ Len(tail') = Len(t) - last
      BY <2>2, <2>3
    <3> QED
      BY <3>1, <3>2, <3>3
  <2>5. \A i \in 1 .. Len(tail') :
          file[(m + last) + i] = tail'[i] /\ LetterAt(letter, tail'[i]) # NewLine
    <3> TAKE i \in 1 .. Len(tail')
    <3>1. last + i \in last + 1 .. Len(t) /\ last + i \in 1 .. Len(t)
          /\ (m + last) + i = m + (last + i)
      BY <1>2, <2>2, <2>3
    <3> QED
      BY <1>2, <2>3, <3>1
  <2>6. ~Marked(letter, file, opened, m + last)
    <3>1. ~Marked(letter, file, opened, Len(file))
      BY <1>2, <1>4 DEF t
    <3>2. opened + 1 .. m + last \subseteq opened + 1 .. Len(file)
      BY <1>2, <2>2, Counts
    <3> QED
      BY <3>1, <3>2 DEF Marked
  <2>7. opened <= m + last /\ (opened = m + last \/ LetterAt(letter, file[m + last]) = NewLine)
    BY <1>2, <2>2, Counts
  <2>8. ~Searching'
    BY <2>1 DEF Searching
  <2> QED
    BY <1>1, <2>1, <2>4, <2>5, <2>6, <2>7, <2>8 DEF MarkInv, LineInv, StoppedInv
<1> QED
  BY <1>3, <1>4

(* The session without a marker never comes to the search. *)
MatchOnly == pc = "match" => stopping

(* Target and reader keep the capture and what is left to search together. *)
LEMMA MarkStep ==
  TypeOK /\ MatchOnly /\ MarkInv /\ [Next]_vars => MarkInv' /\ MatchOnly'
<1> SUFFICES ASSUME TypeOK, MatchOnly, MarkInv, [Next]_vars
             PROVE  MarkInv' /\ MatchOnly'
  OBVIOUS
<1>1. MatchOnly'
  <2>1. CASE TargetStep \/ UNCHANGED vars
    <3>1. UNCHANGED <<pc, stopping>>
      BY <2>1, TargetKeeps DEF vars, session
    <3> QED
      BY <3>1 DEF MatchOnly
  <2>2. CASE ReaderStep
    <3>1. pc' = "match" => Consume
      BY <2>2 DEF ReaderStep, Start, Poll, Read, ReadWrapped, AppendData, Match,
                  Deadline, Abort
    <3> QED
      BY <3>1 DEF Consume, session, MatchOnly
  <2> QED
    BY <2>1, <2>2 DEF Next
<1>2. CASE TargetStep
  BY <1>1, <1>2, TargetKeepsMark DEF TypeOK
<1>3. CASE ReaderStep
  <2>1. CASE Match
    <3>1. stopping
      BY <2>1 DEF Match, MatchOnly
    <3> QED
      BY <1>1, <2>1, <3>1, MatchKeepsMark DEF TypeOK
  <2>2. CASE ~Match
    BY <1>1, <1>3, <2>2, StartKeepsMark, ReadingKeepsMark, AppendKeepsMark
       DEF TypeOK, ReaderStep
  <2> QED
    BY <2>1, <2>2
<1>4. CASE UNCHANGED vars
  BY <1>1, <1>4 DEF vars, target, session, MarkInv, LineInv, StoppedInv, Ended,
                    Searched, Searching
<1> QED
  BY <1>2, <1>3, <1>4 DEF Next

-----------------------------------------------------------------------------
(* What the theorems below rest on. *)
ReaderInv == TypeOK /\ StreamInv /\ MatchOnly /\ MarkInv

(* The ring and the capture are empty, and no session has begun. *)
LEMMA ReaderInit == Init => ReaderInv
<1> SUFFICES ASSUME Init PROVE ReaderInv
  OBVIOUS
<1>1. /\ Len(letter) = 0 /\ DOMAIN file = {} /\ Len(file) = 0 /\ opened = 0
      /\ wr = 0 /\ rd = 0 /\ gone = {} /\ pc = "off"
  BY DEF Init
<1>2. Dist(rd, wr) = 0 /\ Taken = 0
  BY <1>1 DEF Dist, Taken
<1>3. RingInv /\ FileInv
  BY <1>1, <1>2 DEF RingInv, FileInv
<1>4. PollInv /\ OrderInv
  BY <1>1 DEF PollInv, OrderInv, Reading, Ended
<1>5. MarkInv /\ MatchOnly
  BY <1>1 DEF MarkInv, LineInv, StoppedInv, Ended, MatchOnly
<1> QED
  BY <1>3, <1>4, <1>5, TypeInit DEF ReaderInv, StreamInv, Stream

(* It holds throughout, wherever target and sessions interleave. *)
LEMMA ReaderInvariant == Spec => []ReaderInv
<1>1. ReaderInv /\ [Next]_vars => ReaderInv'
  BY TypeStep, StreamStep, MarkStep DEF ReaderInv
<1> QED
  BY <1>1, ReaderInit, PTL DEF Spec

(* The capture of a session, byte by byte. *)
LEMMA CapturedBytes ==
  ASSUME DataTypes
  PROVE  /\ Captured \in Seq(Numbers) /\ Len(Captured) = Len(file) - opened
         /\ \A i \in 1 .. Len(file) - opened : Captured[i] = file[opened + i]
<1>1. Len(file) \in Nat /\ opened \in Nat /\ opened <= Len(file)
  BY Counts
<1>2. \A i \in opened + 1 .. Len(file) : file[i] \in Numbers
  BY <1>1, ElementOfSeq DEF DataTypes
<1>3. /\ Captured \in Seq(Numbers)
      /\ Len(Captured)
           = IF opened + 1 <= Len(file) THEN Len(file) - (opened + 1) + 1 ELSE 0
      /\ \A i \in 1 .. Len(file) - (opened + 1) + 1 :
           Captured[i] = file[opened + 1 + i - 1]
  <2> DEFINE a == opened + 1
             b == Len(file)
  <2>1. a \in Int /\ b \in Int /\ \A i \in a .. b : file[i] \in Numbers
    BY <1>1, <1>2
  <2> HIDE DEF a, b
  <2>2. /\ SubSeq(file, a, b) \in Seq(Numbers)
        /\ Len(SubSeq(file, a, b)) = IF a <= b THEN b - a + 1 ELSE 0
        /\ \A i \in 1 .. b - a + 1 : SubSeq(file, a, b)[i] = file[a + i - 1]
    BY <2>1, SubSeqProperties
  <2> QED
    BY <2>2 DEF Captured, a, b
<1>4. Len(Captured) = Len(file) - opened
  <2>1. CASE opened + 1 <= Len(file)
    <3>1. Len(Captured) = Len(file) - (opened + 1) + 1
      BY <1>3, <2>1
    <3> QED
      BY <1>1, <3>1
  <2>2. CASE ~(opened + 1 <= Len(file))
    <3>1. Len(Captured) = 0
      BY <1>3, <2>2
    <3> QED
      BY <1>1, <2>2, <3>1
  <2> QED
    BY <2>1, <2>2
<1>5. ASSUME NEW i \in 1 .. Len(file) - opened PROVE Captured[i] = file[opened + i]
  <2>1. i \in 1 .. Len(file) - (opened + 1) + 1 /\ opened + 1 + i - 1 = opened + i
    BY <1>1
  <2> QED
    BY <1>3, <2>1
<1> QED
  BY <1>3, <1>4, <1>5

(* Every byte of the log is in the capture, waits in the ring, or went with*)
(* a reset of the target, and a session has the bytes in the order of      *)
(* writing and once, for any ring, any stream and any interruption.        *)
THEOREM ReaderCaptureIsStream == Spec => []CaptureIsStream
<1>1. ReaderInv => CaptureIsStream
  <2> SUFFICES ASSUME ReaderInv, ~torn PROVE CaptureIsStream
    BY DEF CaptureIsStream
  <2>1. DataTypes /\ RingInv /\ FileInv /\ OrderInv
    BY DEF ReaderInv, TypeOK, StreamInv, Stream
  <2>2. Taken \in Nat /\ Taken <= Len(letter) /\ Len(letter) \in Nat
    BY <2>1, Counts, Sizes DEF RingInv, Taken
  <2>3. DOMAIN letter = 1 .. Len(letter)
    BY <2>1, LenProperties DEF DataTypes
  <2>4. ToSet(Unread(rd, wr)) = Taken + 1 .. Len(letter)
    BY <2>1, UnreadBytes
  <2>5. DOMAIN letter = ToSet(file) \cup ToSet(Unread(rd, wr)) \cup gone
    <3>1. ASSUME NEW b \in 1 .. Len(letter)
          PROVE  b \in ToSet(file) \cup ToSet(Unread(rd, wr)) \cup gone
      <4>1. CASE b <= Taken
        BY <2>1, <2>2, <4>1 DEF FileInv, ToSet
      <4>2. CASE ~(b <= Taken)
        BY <2>2, <2>4, <4>2
      <4> QED
        BY <4>1, <4>2
    <3>2. ToSet(file) \subseteq 1 .. Len(letter) /\ gone \subseteq 1 .. Len(letter)
      BY <2>1 DEF FileInv, ToSet
    <3>3. ToSet(Unread(rd, wr)) \subseteq 1 .. Len(letter)
      BY <2>2, <2>4
    <3> QED
      BY <2>3, <3>1, <3>2, <3>3
  <2>6. ASSUME NEW i \in DOMAIN Captured, NEW j \in DOMAIN Captured, i < j
        PROVE  Captured[i] < Captured[j]
    <3>1. i \in 1 .. Len(file) - opened /\ j \in 1 .. Len(file) - opened
      BY <2>1, CapturedBytes, LenProperties
    <3>2. /\ opened + i \in opened + 1 .. Len(file)
          /\ opened + j \in opened + 1 .. Len(file) /\ opened + i < opened + j
      BY <2>1, <2>6, <3>1, Counts
    <3>3. file[opened + i] < file[opened + j]
      BY <2>1, <3>2 DEF OrderInv
    <3> QED
      BY <2>1, <3>1, <3>3, CapturedBytes
  <2> QED
    BY <2>5, <2>6 DEF CaptureIsStream
<1> QED
  BY <1>1, ReaderInvariant, PTL

(* A line with the marker in a capture is one in the bytes of the file. *)
LEMMA MarkedCapture ==
  ASSUME DataTypes
  PROVE  HasMarkedLine(Text(Captured)) <=> Marked(letter, file, opened, Len(file))
<1> DEFINE t == Text(Captured)
           n == Len(file) - opened
<1>1. n \in Nat /\ opened \in Nat /\ Len(file) = opened + n
  BY Counts
<1>2. /\ t \in Seq(Cells) /\ Len(t) = n /\ DOMAIN t = 1 .. n
      /\ \A i \in 1 .. n : t[i] = LetterAt(letter, file[opened + i])
  BY CapturedBytes, TextOfBytes
<1> HIDE DEF t, n
<1>3. ASSUME NEW i \in 1 .. n, NEW j \in 1 .. n, i + Len(Needle) <= j
      PROVE  SubSeq(t, i, i + Len(Needle) - 1) = Needle
               <=> NeedleAt(letter, file, opened + i)
  <2>1. i \in Nat \ {0} /\ i + Len(Needle) - 1 <= Len(t)
    BY <1>1, <1>2, <1>3, Sizes
  <2>2. ASSUME NEW k \in 1 .. Len(Needle)
        PROVE  t[i + k - 1] = LetterAt(letter, file[(opened + i) + k - 1])
    <3>1. i + k - 1 \in 1 .. n /\ (opened + i) + k - 1 = opened + (i + k - 1)
      BY <1>1, <1>3, Sizes
    <3> QED
      BY <1>2, <3>1
  <2> QED
    BY <1>2, <2>1, <2>2, NeedleInText DEF NeedleAt
<1>4. ASSUME HasMarkedLine(t) PROVE Marked(letter, file, opened, Len(file))
  <2>1. PICK i \in 1 .. n, j \in 1 .. n :
          /\ i + Len(Needle) <= j /\ t[j] = NewLine
          /\ SubSeq(t, i, i + Len(Needle) - 1) = Needle
    BY <1>2, <1>4 DEF HasMarkedLine
  <2>2. /\ opened + i \in opened + 1 .. Len(file)
        /\ opened + j \in opened + 1 .. Len(file)
        /\ (opened + i) + Len(Needle) <= opened + j
    BY <1>1, <2>1, Sizes
  <2>3. NeedleAt(letter, file, opened + i) /\ LetterAt(letter, file[opened + j]) = NewLine
    BY <1>2, <1>3, <2>1
  <2> QED
    BY <2>2, <2>3 DEF Marked
<1>5. ASSUME Marked(letter, file, opened, Len(file)) PROVE HasMarkedLine(t)
  <2>1. PICK a \in opened + 1 .. Len(file), b \in opened + 1 .. Len(file) :
          /\ a + Len(Needle) <= b /\ LetterAt(letter, file[b]) = NewLine
          /\ NeedleAt(letter, file, a)
    BY <1>5 DEF Marked
  <2> DEFINE i == a - opened
             j == b - opened
  <2>2. /\ i \in 1 .. n /\ j \in 1 .. n /\ i + Len(Needle) <= j
        /\ opened + i = a /\ opened + j = b
    BY <1>1, <2>1, Sizes
  <2> HIDE DEF i, j
  <2>3. t[j] = NewLine /\ SubSeq(t, i, i + Len(Needle) - 1) = Needle
    BY <1>2, <1>3, <2>1, <2>2
  <2> QED
    BY <1>2, <2>2, <2>3 DEF HasMarkedLine
<1> QED
  BY <1>4, <1>5 DEF t

(* A session with a marker polls again only while its capture has no line  *)
(* with the marker, in however many pieces the line came, and one that the *)
(* marker ended has that line to its end; resets of the target included.   *)
THEOREM ReaderStopsAtMarker == Spec => []StopsAtMarker
<1>1. ReaderInv => StopsAtMarker
  <2> SUFFICES ASSUME ReaderInv PROVE StopsAtMarker
    OBVIOUS
  <2>1. DataTypes /\ LineInv /\ StoppedInv
    BY DEF ReaderInv, TypeOK, MarkInv
  <2>2. ASSUME pc = "top", stopping PROVE ~Marked(letter, file, opened, Len(file))
    <3>1. ~Ended /\ Searched = Len(file)
      BY <2>1, <2>2, Counts DEF Ended, Searched, Searching
    <3> DEFINE m == Len(file) - Len(tail)
    <3>2. /\ opened <= m /\ ~Marked(letter, file, opened, m)
          /\ \A i \in 1 .. Len(tail) :
               file[m + i] = tail[i] /\ LetterAt(letter, tail[i]) # NewLine
      BY <2>1, <2>2, <3>1 DEF LineInv
    <3>3. Len(tail) \in Nat /\ Len(file) \in Nat /\ opened \in Nat
      BY <2>1, Counts, LenProperties DEF DataTypes
    <3>4. ASSUME NEW i \in opened + 1 .. Len(file), NEW j \in opened + 1 .. Len(file),
                 i + Len(Needle) <= j, LetterAt(letter, file[j]) = NewLine,
                 NeedleAt(letter, file, i)
          PROVE  FALSE
      <4>1. CASE j <= m
        <5>1. i \in opened + 1 .. m /\ j \in opened + 1 .. m
          BY <3>3, <3>4, <4>1, Sizes
        <5> QED
          BY <3>2, <3>4, <5>1 DEF Marked
      <4>2. CASE ~(j <= m)
        <5>1. j - m \in 1 .. Len(tail) /\ m + (j - m) = j
          BY <3>3, <4>2
        <5> QED
          BY <3>2, <3>4, <5>1
      <4> QED
        BY <4>1, <4>2
    <3> QED
      BY <3>4 DEF Marked
  <2> QED
    BY <2>1, <2>2, MarkedCapture DEF StopsAtMarker, StoppedInv
<1> QED
  BY <1>1, ReaderInvariant, PTL

-----------------------------------------------------------------------------
(***************************************************************************)
(* Evidence.  The rest of a tool is followed step by step: a folder of its *)
(* scope is sealed already and nothing left touches it, or a seal is still *)
(* to come that nothing after it touches.                                  *)
(***************************************************************************)

Ops == {"log", "image", "source", "summary", "manifest", "present", "clean",
        "clean-log", "same-build", "same-image", "current", "has-image"}
Writing == {"log", "image", "source", "summary"}
Steps == {s \in [op : Ops, folder : All, file : Names \cup {"sha256"}] :
            s.op \in Writing => s.file \in Names}

EvidenceTypes ==
  /\ root \in Roots /\ program \in Seq(Steps) /\ scope \subseteq All
  /\ tree = [f \in All |-> [n \in Names |-> tree[f][n]]]
  /\ manifest = [f \in All |-> manifest[f]]
  /\ logs = [f \in All |-> logs[f]]

(* The steps that change what the manifest of a folder is made of. *)
Touches(s, f) ==
  \/ s.op \in Writing /\ f \in {s.folder, "root"}
  \/ s.op = "manifest" /\ f = "root" /\ s.folder # "root"
Quiet(steps, f) == \A j \in 1 .. Len(steps) : ~Touches(steps[j], f)
Sealed(steps, f) ==
  \E i \in 1 .. Len(steps) :
    /\ steps[i].op = "manifest" /\ steps[i].folder = f
    /\ \A j \in i + 1 .. Len(steps) : ~Touches(steps[j], f)

Counted == passed \/ ~Idle
SealInv ==
  /\ passed => Idle
  /\ Counted => \A f \in scope :
       \/ Sealed(program, f)
       \/ manifest[f] = Hashes(f) /\ Quiet(program, f)

(* What an archive of the USB optimizations may still write. *)
Image(mask, image) == [kind |-> "image", cache |-> mask, of |-> image]
FilesInv ==
  \A i \in 1 .. Len(program) :
    LET s == program[i] IN
      s.op \in Writing =>
        /\ s.op = "log" => logs[s.folder] # Absent
        /\ s.file = "hardware" => s.op = "log"
        /\ (s.file = "image") = (s.op = "image")
LogInv ==
  \A f \in All :
    /\ tree[f]["hardware"] \in {Absent, logs[f]}
    /\ logs[f] # Absent /\ logs[f].clean => logs[f].rows
    /\ tree[f]["image"] # Absent =>
         /\ logs[f] # Absent
         /\ logs[f].rows => logs[f].image.mask = tree[f]["image"].cache
Prepared(steps, f, n) ==
  \/ logs[f].rows => logs[f].image.mask = cache
  \/ \E j \in 1 .. n - 1 :
       /\ steps[j] = Step("same-build", f, "hardware")
       /\ \/ tree[f]["hardware"] = logs[f]
          \/ \E k \in 1 .. j - 1 : steps[k] = Step("log", f, "hardware")
BuildInv ==
  \A i \in 1 .. Len(program) :
    program[i].op = "image" =>
      /\ logs[program[i].folder] # Absent
      /\ Prepared(program, program[i].folder, i)
PresentInv ==
  Counted /\ "root" \in scope =>
    \A f \in scope \ {"root", "all-profiled"} :
      /\ tree[f]["hardware"] # Absent
      /\ \/ tree[f]["image"] # Absent
         \/ \E i \in 1 .. Len(program) : program[i] = Step("has-image", f, "image")
      /\ \/ tree[f]["hardware"].clean
         \/ \E i \in 1 .. Len(program) : program[i] = Step("clean", f, "hardware")

OriginInv ==
  root = "optimizations" => FilesInv /\ LogInv /\ BuildInv /\ PresentInv

-----------------------------------------------------------------------------
LEMMA FolderNames ==
  ASSUME root \in Roots
  PROVE  /\ Folders(root) \subseteq {"all-profiled", "lean", "final", "final-sweep", "soak"}
         /\ "root" \in All /\ "root" \notin Folders(root)
         /\ root = "optimizations" => Folders(root) = {"all-profiled", "lean"}
         /\ root = "usb" => Folders(root) = {"final"}
         /\ root = "custom" => Folders(root) = {"final-sweep", "soak"}
         /\ root = "lite" => Folders(root) = {}
BY EvidenceAssumption DEF Folders, All

LEMMA Rest ==
  ASSUME EvidenceTypes, ~Idle
  PROVE  /\ Len(program) \in Nat \ {0} /\ Head(program) \in Steps
         /\ Head(program) = program[1] /\ Tail(program) \in Seq(Steps)
         /\ Len(Tail(program)) = Len(program) - 1
         /\ \A j \in 1 .. Len(program) - 1 : Tail(program)[j] = program[j + 1]
<1>1. program \in Seq(Steps) /\ program # <<>>
  BY DEF EvidenceTypes, Idle
<1>2. /\ Head(program) \in Steps /\ Tail(program) \in Seq(Steps)
      /\ Len(Tail(program)) = Len(program) - 1
      /\ \A i \in 1 .. Len(Tail(program)) : Tail(program)[i] = program[i + 1]
  BY <1>1, HeadTailProperties
<1>3. Len(program) \in Nat /\ Len(program) # 0 /\ Head(program) = program[1]
  BY <1>1, LenProperties, EmptySeq
<1> QED
  BY <1>2, <1>3

LEMMA LastStep ==
  ASSUME EvidenceTypes, ~Idle, Len(program) = 1
  PROVE  Tail(program) = <<>>
<1>1. Tail(program) \in Seq(Steps) /\ Len(Tail(program)) = 0
  BY Rest
<1> QED
  BY <1>1, EmptySeq

LEMMA WriteTree ==
  ASSUME EvidenceTypes, Writes
  PROVE  /\ tree' = [f \in All |-> [n \in Names |-> tree'[f][n]]]
         /\ \A f \in All : \A n \in Names :
              tree'[f][n] = IF f = Head(program).folder /\ n = Head(program).file
                              THEN Written(Head(program)) ELSE tree[f][n]
         /\ \A f \in All \ {Head(program).folder} : tree'[f] = tree[f]
<1> DEFINE s == Head(program)
<1> DEFINE w == Written(s)
<1>1. s \in Steps /\ s.op \in Writing
  BY Rest DEF Writes, Writing
<1>2. s.folder \in All /\ s.file \in Names
  BY <1>1 DEF Steps
<1>3. tree' = [tree EXCEPT ![s.folder][s.file] = w]
  BY DEF Writes
<1>4. tree = [f \in All |-> [n \in Names |-> tree[f][n]]]
  BY DEF EvidenceTypes
<1> HIDE DEF s, w
<1>5. \A f \in All : tree'[f] = IF f = s.folder THEN [tree[f] EXCEPT ![s.file] = w] ELSE tree[f]
  BY <1>2, <1>3, <1>4
<1>6. \A f \in All : tree[f] = [n \in Names |-> tree[f][n]]
  BY <1>4
<1>7. \A f \in All : tree'[f] = [n \in Names |-> tree'[f][n]]
  BY <1>2, <1>5, <1>6
<1>8. tree' = [f \in All |-> tree'[f]]
  BY <1>2, <1>3, <1>4
<1>9. tree' = [f \in All |-> [n \in Names |-> tree'[f][n]]]
  BY <1>7, <1>8
<1>10. \A f \in All : \A n \in Names :
         tree'[f][n] = IF f = s.folder /\ n = s.file THEN w ELSE tree[f][n]
  BY <1>2, <1>5, <1>6
<1> QED
  BY <1>5, <1>9, <1>10 DEF s, w

LEMMA ToolKeepsTypes ==
  ASSUME EvidenceTypes, Writes \/ Seals \/ Checks
  PROVE  EvidenceTypes' /\ UNCHANGED <<root, logs, cache, All, scope>>
<1>1. Goes /\ ~Idle
  BY DEF Writes, Seals, Checks
<1>2. UNCHANGED <<root, logs, cache, scope>> /\ program' = Tail(program)
  BY <1>1 DEF Goes, operator
<1>3. UNCHANGED All
  BY <1>2 DEF All
<1>4. UNCHANGED Steps
  BY <1>3 DEF Steps, Ops, Names, Writing
<1>5. program' \in Seq(Steps)
  BY <1>1, <1>2, Rest
<1>6. tree' = [f \in All |-> [n \in Names |-> tree'[f][n]]]
  <2>1. CASE Writes
    BY <2>1, WriteTree
  <2>2. CASE Seals \/ Checks
    BY <2>2 DEF EvidenceTypes, Seals, Checks
  <2> QED
    BY <2>1, <2>2
<1>7. manifest' = [f \in All |-> manifest'[f]]
  <2>1. manifest = [f \in All |-> manifest[f]]
    BY DEF EvidenceTypes
  <2>2. CASE Seals
    BY <2>1, <2>2 DEF Seals
  <2>3. CASE Writes \/ Checks
    BY <2>1, <2>3 DEF Writes, Checks
  <2> QED
    BY <2>2, <2>3
<1> QED
  BY <1>2, <1>3, <1>4, <1>5, <1>6, <1>7 DEF EvidenceTypes

-----------------------------------------------------------------------------
(* Each tool seals every folder of its scope last. *)

LEMMA Joined ==
  ASSUME NEW s \in Seq(Steps), NEW t \in Seq(Steps), NEW f
  PROVE  /\ s \o t \in Seq(Steps) /\ Len(s \o t) = Len(s) + Len(t)
         /\ \A i \in 1 .. Len(s) : (s \o t)[i] = s[i]
         /\ \A i \in 1 .. Len(t) : (s \o t)[Len(s) + i] = t[i]
         /\ Quiet(s, f) /\ Quiet(t, f) => Quiet(s \o t, f)
         /\ Sealed(s, f) /\ Quiet(t, f) => Sealed(s \o t, f)
         /\ Sealed(t, f) => Sealed(s \o t, f)
<1> DEFINE u == s \o t
<1>1. /\ u \in Seq(Steps) /\ Len(u) = Len(s) + Len(t)
      /\ \A i \in 1 .. Len(s) + Len(t) :
           u[i] = IF i <= Len(s) THEN s[i] ELSE t[i - Len(s)]
  BY ConcatProperties
<1>2. Len(s) \in Nat /\ Len(t) \in Nat
  BY LenProperties
<1> HIDE DEF u
<1>3. \A i \in 1 .. Len(s) : u[i] = s[i]
  BY <1>1, <1>2
<1>4. ASSUME NEW i \in 1 .. Len(t)
      PROVE  u[Len(s) + i] = t[i]
  <2>1. Len(s) + i \in 1 .. Len(s) + Len(t) /\ ~(Len(s) + i <= Len(s))
    BY <1>2
  <2>2. (Len(s) + i) - Len(s) = i
    BY <1>2
  <2> QED
    BY <1>1, <2>1, <2>2
<1>5. ASSUME NEW j \in 1 .. Len(u), ~(j <= Len(s))
      PROVE  j - Len(s) \in 1 .. Len(t) /\ u[j] = t[j - Len(s)]
  BY <1>1, <1>2, <1>5
<1>6. Quiet(s, f) /\ Quiet(t, f) => Quiet(u, f)
  BY <1>1, <1>2, <1>3, <1>5 DEF Quiet
<1>7. ASSUME Sealed(s, f), Quiet(t, f)
      PROVE  Sealed(u, f)
  <2>1. PICK i \in 1 .. Len(s) :
          /\ s[i].op = "manifest" /\ s[i].folder = f
          /\ \A j \in i + 1 .. Len(s) : ~Touches(s[j], f)
    BY <1>7 DEF Sealed
  <2>2. i \in 1 .. Len(u) /\ u[i] = s[i]
    BY <1>1, <1>2, <1>3
  <2>3. ASSUME NEW j \in i + 1 .. Len(u) PROVE ~Touches(u[j], f)
    <3>1. j \in 1 .. Len(u)
      BY <1>1, <1>2
    <3>2. CASE j <= Len(s)
      <4>1. j \in i + 1 .. Len(s) /\ j \in 1 .. Len(s)
        BY <1>1, <1>2, <3>2
      <4> QED
        BY <1>3, <2>1, <4>1
    <3>3. CASE ~(j <= Len(s))
      BY <1>5, <1>7, <3>1, <3>3 DEF Quiet
    <3> QED
      BY <3>2, <3>3
  <2> QED
    BY <2>1, <2>2, <2>3 DEF Sealed
<1>8. ASSUME Sealed(t, f)
      PROVE  Sealed(u, f)
  <2>1. PICK i \in 1 .. Len(t) :
          /\ t[i].op = "manifest" /\ t[i].folder = f
          /\ \A j \in i + 1 .. Len(t) : ~Touches(t[j], f)
    BY <1>8 DEF Sealed
  <2>2. Len(s) + i \in 1 .. Len(u) /\ u[Len(s) + i] = t[i]
    BY <1>1, <1>2, <1>4
  <2>3. ASSUME NEW j \in (Len(s) + i) + 1 .. Len(u) PROVE ~Touches(u[j], f)
    <3>1. j \in 1 .. Len(u) /\ ~(j <= Len(s)) /\ j - Len(s) \in i + 1 .. Len(t)
      BY <1>1, <1>2
    <3> QED
      BY <1>5, <2>1, <3>1
  <2> QED
    BY <2>1, <2>2, <2>3 DEF Sealed
<1> QED
  BY <1>1, <1>3, <1>4, <1>6, <1>7, <1>8 DEF u

LEMMA StepIn ==
  ASSUME NEW op \in Ops, NEW f \in All, NEW n \in Names \cup {"sha256"},
         op \in Writing => n \in Names
  PROVE  Step(op, f, n) \in Steps
BY DEF Steps, Step

LEMMA ArchiveUsbSteps ==
  ASSUME NEW f \in All
  PROVE  ArchiveUsb(f) \in Seq(Steps) /\ Sealed(ArchiveUsb(f), f)
<1>1. /\ Step("log", f, "logs") \in Steps /\ Step("log", f, "hardware") \in Steps
      /\ Step("same-build", f, "hardware") \in Steps /\ Step("image", f, "image") \in Steps
      /\ Step("source", f, "source") \in Steps /\ Step("manifest", f, "sha256") \in Steps
  BY StepIn DEF Ops, Names, Writing
<1> DEFINE a == ArchiveUsb(f)
<1>2. /\ a \in Seq(Steps) /\ Len(a) = 6
      /\ a[6] = Step("manifest", f, "sha256")
  BY <1>1 DEF ArchiveUsb
<1> HIDE DEF a
<1>3. Sealed(a, f)
  <2>1. 6 \in 1 .. Len(a) /\ a[6].op = "manifest" /\ a[6].folder = f
    BY <1>2 DEF Step
  <2>2. \A j \in 6 + 1 .. Len(a) : ~Touches(a[j], f)
    BY <1>2
  <2> QED
    BY <2>1, <2>2 DEF Sealed
<1> QED
  BY <1>2, <1>3 DEF a

LEMMA ArchiveCustomSteps ==
  ASSUME NEW f \in All
  PROVE  ArchiveCustom(f) \in Seq(Steps) /\ Sealed(ArchiveCustom(f), f)
<1>1. /\ Step("clean-log", f, "logs") \in Steps /\ Step("log", f, "hardware") \in Steps
      /\ Step("log", f, "logs") \in Steps /\ Step("image", f, "image") \in Steps
      /\ Step("source", f, "source") \in Steps /\ Step("manifest", f, "sha256") \in Steps
  BY StepIn DEF Ops, Names, Writing
<1> DEFINE a == ArchiveCustom(f)
<1>2. /\ a \in Seq(Steps) /\ Len(a) = 6
      /\ a[6] = Step("manifest", f, "sha256")
  BY <1>1 DEF ArchiveCustom
<1> HIDE DEF a
<1>3. Sealed(a, f)
  <2>1. 6 \in 1 .. Len(a) /\ a[6].op = "manifest" /\ a[6].folder = f
    BY <1>2 DEF Step
  <2>2. \A j \in 6 + 1 .. Len(a) : ~Touches(a[j], f)
    BY <1>2
  <2> QED
    BY <2>1, <2>2 DEF Sealed
<1> QED
  BY <1>2, <1>3 DEF a

LEMMA ValidateFolderSteps ==
  ASSUME NEW f \in All
  PROVE  /\ f \in Experiments =>
              /\ Len(ValidateFolder(f)) = 3
              /\ ValidateFolder(f)[1] = Step("clean", f, "hardware")
              /\ ValidateFolder(f)[2] = Step("has-image", f, "image")
              /\ Sealed(ValidateFolder(f), f)
         /\ ValidateFolder(f) \in Seq(Steps)
         /\ \A i \in 1 .. Len(ValidateFolder(f)) :
              ValidateFolder(f)[i].op \notin Writing
         /\ \A g : g # "root" => Quiet(ValidateFolder(f), g)
<1> DEFINE v == ValidateFolder(f)
<1>1. CASE f \notin Experiments
  <2>1. v = <<>>
    BY <1>1 DEF ValidateFolder
  <2>2. v \in Seq(Steps) /\ Len(v) = 0
    BY <2>1
  <2> HIDE DEF v
  <2>3. \A g : Quiet(v, g)
    BY <2>2 DEF Quiet
  <2> QED
    BY <1>1, <2>2, <2>3 DEF v
<1>2. CASE f \in Experiments
  <2>1. v = <<Step("clean", f, "hardware"), Step("has-image", f, "image"),
              Step("manifest", f, "sha256")>>
    BY <1>2 DEF ValidateFolder
  <2>2. /\ Step("clean", f, "hardware") \in Steps
        /\ Step("has-image", f, "image") \in Steps
        /\ Step("manifest", f, "sha256") \in Steps
    BY StepIn DEF Ops, Names, Writing
  <2> HIDE DEF v
  <2>3. /\ v \in Seq(Steps) /\ Len(v) = 3
        /\ v[1] = Step("clean", f, "hardware") /\ v[2] = Step("has-image", f, "image")
        /\ v[3] = Step("manifest", f, "sha256")
    BY <2>1, <2>2
  <2>4. /\ v[3].op = "manifest" /\ v[3].folder = f
        /\ v[1].op = "clean" /\ v[2].op = "has-image"
    BY <2>3 DEF Step
  <2>5. Sealed(v, f)
    <3>1. \A j \in 3 + 1 .. Len(v) : ~Touches(v[j], f)
      BY <2>3
    <3>2. 3 \in 1 .. Len(v)
      BY <2>3
    <3> QED
      BY <2>4, <3>1, <3>2 DEF Sealed
  <2>6. \A i \in 1 .. Len(v) : i = 1 \/ i = 2 \/ i = 3
    BY <2>3
  <2>7. \A i \in 1 .. Len(v) : v[i].op \notin Writing
    BY <2>4, <2>6 DEF Writing
  <2>8. \A g : g # "root" => Quiet(v, g)
    BY <2>4, <2>6, <2>7 DEF Quiet, Touches
  <2> QED
    BY <1>2, <2>3, <2>5, <2>7, <2>8 DEF v
<1> QED
  BY <1>1, <1>2

LEMMA RootStepsSeal ==
  ASSUME EvidenceTypes
  PROVE  /\ RootSteps \in Seq(Steps) /\ Len(RootSteps) = 2
         /\ RootSteps[1] = Step("summary", "root", "summary")
         /\ RootSteps[2] = Step("manifest", "root", "sha256")
         /\ Sealed(RootSteps, "root")
         /\ \A g : g # "root" => Quiet(RootSteps, g)
<1>1. "root" \in All
  BY FolderNames DEF EvidenceTypes
<1>2. /\ Step("summary", "root", "summary") \in Steps
      /\ Step("manifest", "root", "sha256") \in Steps
  BY <1>1, StepIn DEF Ops, Names, Writing
<1> DEFINE r == RootSteps
<1>3. /\ r \in Seq(Steps) /\ Len(r) = 2 /\ r[1] = Step("summary", "root", "summary")
      /\ r[2] = Step("manifest", "root", "sha256")
  BY <1>2 DEF RootSteps
<1> HIDE DEF r
<1>4. /\ r[2].op = "manifest" /\ r[2].folder = "root"
      /\ r[1].op = "summary" /\ r[1].folder = "root"
  BY <1>3 DEF Step
<1>5. Sealed(r, "root")
  <2>1. 2 \in 1 .. Len(r) /\ \A j \in 2 + 1 .. Len(r) : ~Touches(r[j], "root")
    BY <1>3
  <2> QED
    BY <1>4, <2>1 DEF Sealed
<1>6. ASSUME NEW g, g # "root" PROVE Quiet(r, g)
  <2>1. \A i \in 1 .. Len(r) : i = 1 \/ i = 2
    BY <1>3
  <2>2. ~Touches(r[1], g) /\ ~Touches(r[2], g)
    BY <1>4, <1>6 DEF Touches
  <2> QED
    BY <2>1, <2>2 DEF Quiet
<1> QED
  BY <1>3, <1>5, <1>6 DEF r

LEMMA ValidateOptimizationsSteps ==
  ASSUME EvidenceTypes, root = "optimizations"
  PROVE  /\ ValidateOptimizations \in Seq(Steps)
         /\ \A f \in Experiments \cup {"root"} : Sealed(ValidateOptimizations, f)
<1>1. {"all-profiled", "lean", "root"} = All /\ Experiments \subseteq {"all-profiled", "lean"}
  BY FolderNames DEF EvidenceTypes, All, Experiments
<1> DEFINE a == ValidateFolder("all-profiled")
<1> DEFINE b == ValidateFolder("lean")
<1> DEFINE r == RootSteps
<1>2. /\ a \in Seq(Steps) /\ b \in Seq(Steps) /\ r \in Seq(Steps)
      /\ "all-profiled" \in Experiments => Sealed(a, "all-profiled")
      /\ "lean" \in Experiments => Sealed(b, "lean")
      /\ \A g : g # "root" => Quiet(b, g) /\ Quiet(r, g)
      /\ Sealed(r, "root")
  BY <1>1, ValidateFolderSteps, RootStepsSeal
<1>3. ValidateOptimizations = (a \o b) \o r
  BY DEF ValidateOptimizations
<1> HIDE DEF a, b, r
<1>4. a \o b \in Seq(Steps)
  BY <1>2, Joined
<1>5. (a \o b) \o r \in Seq(Steps)
  BY <1>2, <1>4, Joined
<1>6. "all-profiled" \in Experiments => Sealed(a \o b, "all-profiled")
  BY <1>2, Joined
<1>7. "lean" \in Experiments => Sealed(a \o b, "lean")
  BY <1>2, Joined
<1>8. "all-profiled" \in Experiments => Sealed((a \o b) \o r, "all-profiled")
  BY <1>2, <1>4, <1>6, Joined
<1>9. "lean" \in Experiments => Sealed((a \o b) \o r, "lean")
  BY <1>2, <1>4, <1>7, Joined
<1>10. Sealed((a \o b) \o r, "root")
  BY <1>2, <1>4, Joined
<1> QED
  BY <1>1, <1>3, <1>5, <1>8, <1>9, <1>10

LEMMA ValidateUsbSteps ==
  ASSUME EvidenceTypes, root = "usb"
  PROVE  /\ ValidateUsb \in Seq(Steps)
         /\ \A f \in All : Sealed(ValidateUsb, f)
<1>1. All = {"final", "root"}
  BY FolderNames DEF EvidenceTypes, All
<1>2. /\ Step("clean", "final", "hardware") \in Steps
      /\ Step("current", "final", "source") \in Steps
      /\ Step("source", "final", "extra") \in Steps
      /\ Step("same-image", "final", "image") \in Steps
      /\ Step("log", "root", "logs") \in Steps
      /\ Step("summary", "root", "summary") \in Steps
      /\ Step("manifest", "final", "sha256") \in Steps
      /\ Step("manifest", "root", "sha256") \in Steps
  BY <1>1, StepIn DEF Ops, Names, Writing
<1> DEFINE v == ValidateUsb
<1>3. /\ v \in Seq(Steps) /\ Len(v) = 8
      /\ v[7] = Step("manifest", "final", "sha256")
      /\ v[8] = Step("manifest", "root", "sha256")
  BY <1>2 DEF ValidateUsb
<1> HIDE DEF v
<1>4. /\ v[7].op = "manifest" /\ v[7].folder = "final"
      /\ v[8].op = "manifest" /\ v[8].folder = "root"
  BY <1>3 DEF Step
<1>5. 7 \in 1 .. Len(v) /\ 8 \in 1 .. Len(v)
  BY <1>3
<1>6. \A j \in 8 + 1 .. Len(v) : ~Touches(v[j], "root")
  BY <1>3
<1>7. \A j \in 7 + 1 .. Len(v) : j = 8
  BY <1>3
<1>8. ~Touches(v[8], "final")
  BY <1>4 DEF Touches, Writing
<1>9. Sealed(v, "root")
  BY <1>4, <1>5, <1>6 DEF Sealed
<1>10. Sealed(v, "final")
  BY <1>4, <1>5, <1>7, <1>8 DEF Sealed
<1> QED
  BY <1>1, <1>3, <1>9, <1>10 DEF v

LEMMA SummarizeCustomSteps ==
  ASSUME EvidenceTypes, root = "custom"
  PROVE  /\ SummarizeCustom \in Seq(Steps)
         /\ \A f \in All : Sealed(SummarizeCustom, f)
<1>1. All = {"final-sweep", "soak", "root"}
  BY FolderNames DEF EvidenceTypes, All
<1>2. /\ Step("clean", "final-sweep", "hardware") \in Steps
      /\ Step("manifest", "final-sweep", "sha256") \in Steps
      /\ Step("clean", "soak", "hardware") \in Steps
      /\ Step("manifest", "soak", "sha256") \in Steps
      /\ Step("present", "final-sweep", "extra") \in Steps
      /\ Step("present", "soak", "extra") \in Steps
      /\ Step("current", "soak", "source") \in Steps
      /\ Step("summary", "root", "summary") \in Steps
      /\ Step("manifest", "root", "sha256") \in Steps
  BY <1>1, StepIn DEF Ops, Names, Writing
<1> DEFINE v == SummarizeCustom
<1>3. /\ v \in Seq(Steps) /\ Len(v) = 9
      /\ v[2] = Step("manifest", "final-sweep", "sha256")
      /\ v[3] = Step("clean", "soak", "hardware")
      /\ v[4] = Step("manifest", "soak", "sha256")
      /\ v[5] = Step("present", "final-sweep", "extra")
      /\ v[6] = Step("present", "soak", "extra")
      /\ v[7] = Step("current", "soak", "source")
      /\ v[8] = Step("summary", "root", "summary")
      /\ v[9] = Step("manifest", "root", "sha256")
  BY <1>2 DEF SummarizeCustom
<1> HIDE DEF v
<1>4. /\ v[2].op = "manifest" /\ v[2].folder = "final-sweep" /\ v[3].op = "clean"
      /\ v[4].op = "manifest" /\ v[4].folder = "soak" /\ v[5].op = "present"
      /\ v[6].op = "present" /\ v[7].op = "current"
      /\ v[8].op = "summary" /\ v[8].folder = "root"
      /\ v[9].op = "manifest" /\ v[9].folder = "root"
  BY <1>3 DEF Step
<1>5. 2 \in 1 .. Len(v) /\ 4 \in 1 .. Len(v) /\ 9 \in 1 .. Len(v)
  BY <1>3
<1>6. ASSUME NEW j \in 2 + 1 .. Len(v)
      PROVE  j = 3 \/ j = 4 \/ j = 5 \/ j = 6 \/ j = 7 \/ j = 8 \/ j = 9
  BY <1>3
<1>7. ASSUME NEW g, g # "root", NEW j \in 2 + 1 .. Len(v)
      PROVE  ~Touches(v[j], g)
  <2>1. /\ ~Touches(v[3], g) /\ ~Touches(v[4], g) /\ ~Touches(v[5], g)
        /\ ~Touches(v[6], g) /\ ~Touches(v[7], g)
    BY <1>4, <1>7 DEF Touches, Writing
  <2>2. ~Touches(v[8], g) /\ ~Touches(v[9], g)
    BY <1>4, <1>7 DEF Touches, Writing
  <2> QED
    BY <1>6, <2>1, <2>2
<1>8. Sealed(v, "final-sweep")
  BY <1>4, <1>5, <1>7 DEF Sealed
<1>9. Sealed(v, "soak")
  <2>1. \A j \in 4 + 1 .. Len(v) : j \in 2 + 1 .. Len(v)
    BY <1>3
  <2> QED
    BY <1>4, <1>5, <1>7, <2>1 DEF Sealed
<1>10. Sealed(v, "root")
  <2>1. \A j \in 9 + 1 .. Len(v) : ~Touches(v[j], "root")
    BY <1>3
  <2> QED
    BY <1>4, <1>5, <2>1 DEF Sealed
<1> QED
  BY <1>1, <1>3, <1>8, <1>9, <1>10 DEF v

LEMMA SummarizeLiteSteps ==
  ASSUME EvidenceTypes, root = "lite"
  PROVE  /\ SummarizeLite \in Seq(Steps)
         /\ \A f \in All : Sealed(SummarizeLite, f)
<1>1. All = {"root"}
  BY FolderNames DEF EvidenceTypes, All
<1>2. /\ Step("clean-log", "root", "logs") \in Steps
      /\ Step("log", "root", "hardware") \in Steps
      /\ Step("log", "root", "logs") \in Steps
      /\ Step("image", "root", "image") \in Steps
      /\ Step("summary", "root", "summary") \in Steps
      /\ Step("source", "root", "source") \in Steps
      /\ Step("manifest", "root", "sha256") \in Steps
  BY <1>1, StepIn DEF Ops, Names, Writing
<1> DEFINE v == SummarizeLite
<1>3. v \in Seq(Steps) /\ Len(v) = 7 /\ v[7] = Step("manifest", "root", "sha256")
  BY <1>2 DEF SummarizeLite
<1> HIDE DEF v
<1>4. /\ 7 \in 1 .. Len(v) /\ v[7].op = "manifest" /\ v[7].folder = "root"
      /\ \A j \in 7 + 1 .. Len(v) : ~Touches(v[j], "root")
  BY <1>3 DEF Step
<1>5. Sealed(v, "root")
  BY <1>4 DEF Sealed
<1> QED
  BY <1>1, <1>3, <1>5 DEF v

(* What a tool that begins is given. *)
Tool(steps, folders) ==
  /\ steps \in Seq(Steps) /\ steps # <<>> /\ folders \subseteq All
  /\ \A f \in folders : Sealed(steps, f)
Begins(steps, folders) ==
  /\ program' = steps /\ scope' = folders /\ passed' = FALSE
  /\ UNCHANGED <<root, operator, tree, manifest, work>>

LEMMA SealedIsLong ==
  ASSUME NEW steps \in Seq(Steps), NEW f, Sealed(steps, f)
  PROVE  steps # <<>>
BY DEF Sealed

LEMMA ToolBegins ==
  ASSUME EvidenceTypes, Validate \/ \E f \in All : StartUsb(f) \/ StartCustom(f)
  PROVE  \E steps, folders : Idle /\ Tool(steps, folders) /\ Begins(steps, folders)
<1>1. ASSUME NEW f \in All, StartUsb(f)
      PROVE  Tool(ArchiveUsb(f), {f}) /\ Begins(ArchiveUsb(f), {f}) /\ Idle
  BY <1>1, ArchiveUsbSteps, SealedIsLong DEF StartUsb, Starts, Tool, Begins
<1>2. ASSUME NEW f \in All, StartCustom(f), Starts(ArchiveCustom(f), {f})
      PROVE  Tool(ArchiveCustom(f), {f}) /\ Begins(ArchiveCustom(f), {f}) /\ Idle
  BY <1>2, ArchiveCustomSteps, SealedIsLong DEF Starts, Tool, Begins
<1>3. ASSUME NEW f \in All, StartCustom(f), Starts(CheckVectors(f), {})
      PROVE  Tool(CheckVectors(f), {}) /\ Begins(CheckVectors(f), {}) /\ Idle
  <2>1. Step("log", f, "extra") \in Steps
    BY StepIn DEF Ops, Names, Writing
  <2>2. CheckVectors(f) \in Seq(Steps) /\ CheckVectors(f) # <<>>
    BY <2>1 DEF CheckVectors
  <2> QED
    BY <1>3, <2>2 DEF Starts, Tool, Begins
<1>4. CASE root = "optimizations" /\ Starts(ValidateOptimizations, Experiments \cup {"root"})
  <2>1. Experiments \cup {"root"} \subseteq All
    BY DEF Experiments, All
  <2>2. Tool(ValidateOptimizations, Experiments \cup {"root"})
    BY <1>4, <2>1, ValidateOptimizationsSteps, SealedIsLong DEF Tool
  <2> QED
    BY <1>4, <2>2 DEF Starts, Begins
<1>5. CASE root = "usb" /\ Starts(ValidateUsb, All)
  <2>1. Tool(ValidateUsb, All)
    BY <1>5, ValidateUsbSteps, SealedIsLong, FolderNames DEF Tool, EvidenceTypes
  <2> QED
    BY <1>5, <2>1 DEF Starts, Begins
<1>6. CASE root = "custom" /\ Starts(SummarizeCustom, All)
  <2>1. Tool(SummarizeCustom, All)
    BY <1>6, SummarizeCustomSteps, SealedIsLong, FolderNames DEF Tool, EvidenceTypes
  <2> QED
    BY <1>6, <2>1 DEF Starts, Begins
<1>7. CASE root = "lite" /\ Starts(SummarizeLite, All)
  <2>1. Tool(SummarizeLite, All)
    BY <1>7, SummarizeLiteSteps, SealedIsLong, FolderNames DEF Tool, EvidenceTypes
  <2> QED
    BY <1>7, <2>1 DEF Starts, Begins
<1> QED
  BY <1>1, <1>2, <1>3, <1>4, <1>5, <1>6, <1>7 DEF Validate, StartCustom

-----------------------------------------------------------------------------
(* Types and seals are kept. *)

OperatorStep ==
  \/ Edit \/ Flash
  \/ \E mask \in Masks : Build(mask)
  \/ \E f \in All : \E clean \in BOOLEAN : Bench(f, clean)

LEMMA CleanHasRows ==
  ASSUME NEW clean \in BOOLEAN, NEW rows \in Rows(clean), root = "optimizations"
  PROVE  clean => rows
<1>1. Rows(clean) = IF clean THEN {TRUE} ELSE BOOLEAN
  BY Zenon DEF Rows
<1>2. clean => rows \in {TRUE}
  BY <1>1
<1> QED
  BY <1>2

LEMMA OperatorKeeps ==
  ASSUME EvidenceTypes, OperatorStep
  PROVE  /\ EvidenceTypes' /\ Idle
         /\ UNCHANGED <<root, tree, manifest, program, scope, passed, All>>
         /\ \A f \in All : root = "optimizations" /\ logs[f] # Absent =>
              logs'[f] = logs[f]
         /\ \A f \in All : root = "optimizations" /\ logs'[f] # logs[f] =>
              (logs'[f].clean => logs'[f].rows)
<1>1. Idle /\ UNCHANGED <<root, tree, manifest, program, scope, passed>>
  BY DEF OperatorStep, Edit, Flash, Build, Bench, Works
<1>2. UNCHANGED All
  BY <1>1 DEF All
<1>3. UNCHANGED Steps
  BY <1>2 DEF Steps, Ops, Names, Writing
<1>4. logs = [f \in All |-> logs[f]]
  BY DEF EvidenceTypes
<1>5. /\ logs' = [f \in All |-> logs'[f]]
      /\ \A f \in All : root = "optimizations" /\ logs[f] # Absent =>
           logs'[f] = logs[f]
      /\ \A f \in All : root = "optimizations" /\ logs'[f] # logs[f] =>
           (logs'[f].clean => logs'[f].rows)
  <2>1. CASE Edit \/ Flash \/ \E mask \in Masks : Build(mask)
    <3>1. logs' = logs
      BY <2>1 DEF Edit, Flash, Build
    <3> QED
      BY <1>4, <3>1
  <2>2. ASSUME NEW g \in All, NEW clean \in BOOLEAN, Bench(g, clean)
        PROVE  /\ logs' = [f \in All |-> logs'[f]]
               /\ \A f \in All : root = "optimizations" /\ logs[f] # Absent =>
                    logs'[f] = logs[f]
               /\ \A f \in All : root = "optimizations" /\ logs'[f] # logs[f] =>
                    (logs'[f].clean => logs'[f].rows)
    <3>0. PICK rows \in Rows(clean) :
            logs' = [logs EXCEPT ![g] = Log(device, clean, rows)]
      BY <2>2 DEF Bench
    <3> DEFINE l == Log(device, clean, rows)
    <3>1. logs' = [logs EXCEPT ![g] = l]
      BY <3>0
    <3>3. root = "optimizations" => (l.clean => l.rows)
      <4>1. root = "optimizations" => (clean => rows)
        BY CleanHasRows
      <4>2. l.clean = clean /\ l.rows = rows
        BY DEF Log
      <4> QED
        BY <4>1, <4>2
    <3>2. root = "optimizations" => logs[g] = Absent
      BY <2>2 DEF Bench, Fresh
    <3> HIDE DEF l
    <3> QED
      BY <1>4, <3>1, <3>2, <3>3
  <2> QED
    BY <2>1, <2>2 DEF OperatorStep
<1> QED
  BY <1>1, <1>2, <1>3, <1>5 DEF EvidenceTypes

LEMMA EvidenceTypesInit == EvidenceInit => EvidenceTypes /\ SealInv
<1> SUFFICES ASSUME EvidenceInit PROVE EvidenceTypes /\ SealInv
  OBVIOUS
<1>1. program \in Seq(Steps) /\ scope \subseteq All /\ root \in Roots
  BY DEF EvidenceInit
<1>2. tree = [f \in All |-> [n \in Names |-> tree[f][n]]]
  BY DEF EvidenceInit
<1>3. manifest = [f \in All |-> manifest[f]] /\ logs = [f \in All |-> logs[f]]
  BY DEF EvidenceInit
<1>4. SealInv
  BY DEF EvidenceInit, SealInv, Counted, Idle
<1> QED
  BY <1>1, <1>2, <1>3, <1>4 DEF EvidenceTypes

LEMMA EvidenceTypesStep == EvidenceTypes /\ [EvidenceNext]_evidenceVars => EvidenceTypes'
<1> SUFFICES ASSUME EvidenceTypes, [EvidenceNext]_evidenceVars PROVE EvidenceTypes'
  OBVIOUS
<1>1. CASE OperatorStep
  BY <1>1, OperatorKeeps
<1>2. CASE Validate \/ \E f \in All : StartUsb(f) \/ StartCustom(f)
  <2>1. PICK steps, folders : Idle /\ Tool(steps, folders) /\ Begins(steps, folders)
    BY <1>2, ToolBegins
  <2>2. UNCHANGED <<root, tree, manifest, logs>> /\ program' = steps /\ scope' = folders
    BY <2>1 DEF Begins, operator
  <2>3. UNCHANGED All
    BY <2>2 DEF All
  <2>4. UNCHANGED Steps
    BY <2>3 DEF Steps, Ops, Names, Writing
  <2> QED
    BY <2>1, <2>2, <2>3, <2>4 DEF Tool, EvidenceTypes
<1>3. CASE Writes \/ Seals \/ Checks
  BY <1>3, ToolKeepsTypes
<1>4. CASE Raises
  <2>1. UNCHANGED <<root, tree, manifest, logs, scope>> /\ program' = <<>>
    BY <1>4 DEF Raises, operator
  <2>2. UNCHANGED All
    BY <2>1 DEF All
  <2>3. UNCHANGED Steps
    BY <2>2 DEF Steps, Ops, Names, Writing
  <2> QED
    BY <2>1, <2>2, <2>3 DEF EvidenceTypes
<1>5. CASE UNCHANGED evidenceVars
  <2>1. UNCHANGED <<root, tree, manifest, logs, scope, program>>
    BY <1>5 DEF evidenceVars, operator
  <2>2. UNCHANGED All
    BY <2>1 DEF All
  <2>3. UNCHANGED Steps
    BY <2>2 DEF Steps, Ops, Names, Writing
  <2> QED
    BY <2>1, <2>2, <2>3 DEF EvidenceTypes
<1> QED
  BY <1>1, <1>2, <1>3, <1>4, <1>5 DEF EvidenceNext, OperatorStep

(* A step that does not touch a folder leaves its hashes as they are. *)
LEMMA HashesKept ==
  ASSUME EvidenceTypes, Writes \/ Seals \/ Checks, NEW f \in All,
         ~Touches(Head(program), f)
  PROVE  Hashes(f)' = Hashes(f)
<1>0. root' = root /\ Folders(root') = Folders(root)
  BY ToolKeepsTypes
<1>1. CASE Writes
  <2>1. Head(program).op \in Writing
    BY <1>1 DEF Writes, Writing
  <2>2. f # "root" /\ f # Head(program).folder
    BY <2>1 DEF Touches
  <2>3. tree'[f] = tree[f]
    BY <1>1, <2>2, WriteTree
  <2> QED
    BY <2>2, <2>3 DEF Hashes
<1>2. CASE Seals
  <2>1. tree' = tree
    BY <1>2 DEF Seals
  <2>2. CASE f # "root"
    BY <2>1, <2>2 DEF Hashes
  <2>3. CASE f = "root"
    <3>1. Head(program).op = "manifest" /\ Head(program).folder = "root"
      BY <1>2, <2>3 DEF Seals, Touches
    <3>2. \A g \in Folders(root) : manifest'[g] = manifest[g]
      <4>1. manifest = [g \in All |-> manifest[g]]
        BY DEF EvidenceTypes
      <4>2. \A g \in Folders(root) : g # "root" /\ g \in All
        BY FolderNames DEF EvidenceTypes, All
      <4>3. manifest' = [manifest EXCEPT !["root"] = Hashes("root")]
        BY <1>2, <3>1 DEF Seals
      <4> QED
        BY <4>1, <4>2, <4>3
    <3>3. [g \in Folders(root') |-> manifest'[g]] = [g \in Folders(root) |-> manifest[g]]
      BY <1>0, <3>2
    <3> QED
      BY <2>1, <2>3, <3>3 DEF Hashes
  <2> QED
    BY <2>2, <2>3
<1>3. CASE Checks
  BY <1>0, <1>3 DEF Checks, Hashes
<1> QED
  BY <1>1, <1>2, <1>3

LEMMA SealTaken ==
  ASSUME EvidenceTypes, Seals
  PROVE  /\ Head(program).folder \in All
         /\ manifest'[Head(program).folder] = Hashes(Head(program).folder)
         /\ \A f \in All \ {Head(program).folder} : manifest'[f] = manifest[f]
<1>1. Head(program).folder \in All
  BY Rest DEF Seals, Steps
<1>2. manifest = [g \in All |-> manifest[g]]
  BY DEF EvidenceTypes
<1> DEFINE s == Head(program).folder
<1> DEFINE h == Hashes(s)
<1>3. manifest' = [manifest EXCEPT ![s] = h]
  BY DEF Seals
<1> HIDE DEF s, h
<1>4. s \in All => /\ manifest'[s] = h
                   /\ \A f \in All \ {s} : manifest'[f] = manifest[f]
  BY <1>2, <1>3
<1> QED
  BY <1>1, <1>4 DEF s, h

LEMMA QuietRest ==
  ASSUME EvidenceTypes, ~Idle, NEW f, Quiet(program, f)
  PROVE  ~Touches(Head(program), f) /\ Quiet(Tail(program), f)
<1>1. 1 \in 1 .. Len(program) /\ \A j \in 1 .. Len(program) - 1 : j + 1 \in 1 .. Len(program)
  BY Rest
<1> QED
  BY <1>1, Rest DEF Quiet

LEMMA SealedRest ==
  ASSUME EvidenceTypes, ~Idle, NEW f, Sealed(program, f)
  PROVE  \/ Sealed(Tail(program), f)
         \/ /\ Head(program).op = "manifest" /\ Head(program).folder = f
            /\ Quiet(Tail(program), f)
<1> DEFINE n == Len(program)
<1> DEFINE r == Tail(program)
<1>1. /\ n \in Nat \ {0} /\ Len(r) = n - 1 /\ Head(program) = program[1]
      /\ \A j \in 1 .. n - 1 : r[j] = program[j + 1]
  BY Rest
<1>2. PICK i \in 1 .. n :
        /\ program[i].op = "manifest" /\ program[i].folder = f
        /\ \A j \in i + 1 .. n : ~Touches(program[j], f)
  BY DEF Sealed
<1> HIDE DEF n, r
<1>3. CASE i = 1
  <2>1. \A j \in 1 .. Len(r) : j + 1 \in i + 1 .. n
    BY <1>1, <1>3
  <2>2. Quiet(r, f)
    BY <1>1, <1>2, <2>1 DEF Quiet
  <2> QED
    BY <1>1, <1>2, <1>3, <2>2 DEF r
<1>4. CASE i # 1
  <2>1. i - 1 \in 1 .. Len(r) /\ (i - 1) + 1 = i
    BY <1>1, <1>4
  <2>2. r[i - 1] = program[i]
    BY <1>1, <2>1
  <2>3. ASSUME NEW j \in (i - 1) + 1 .. Len(r) PROVE ~Touches(r[j], f)
    <3>1. j + 1 \in i + 1 .. n /\ j \in 1 .. n - 1
      BY <1>1, <1>4
    <3> QED
      BY <1>1, <1>2, <3>1
  <2>4. Sealed(r, f)
    BY <1>2, <2>1, <2>2, <2>3 DEF Sealed
  <2> QED
    BY <2>4 DEF r
<1> QED
  BY <1>3, <1>4

LEMMA SealStep ==
  EvidenceTypes /\ SealInv /\ [EvidenceNext]_evidenceVars => SealInv'
<1> SUFFICES ASSUME EvidenceTypes, SealInv, [EvidenceNext]_evidenceVars PROVE SealInv'
  OBVIOUS
<1>1. CASE OperatorStep \/ UNCHANGED evidenceVars
  <2>1. UNCHANGED <<root, tree, manifest, program, scope, passed>>
    BY <1>1, OperatorKeeps DEF evidenceVars
  <2>2. Idle' = Idle /\ Counted' = Counted
    BY <2>1 DEF Idle, Counted
  <2>3. \A f : Hashes(f)' = Hashes(f)
    BY <2>1 DEF Hashes
  <2> QED
    BY <2>1, <2>2, <2>3 DEF SealInv
<1>2. CASE Validate \/ \E f \in All : StartUsb(f) \/ StartCustom(f)
  <2>1. PICK steps, folders : Idle /\ Tool(steps, folders) /\ Begins(steps, folders)
    BY <1>2, ToolBegins
  <2>2. program' = steps /\ scope' = folders /\ passed' = FALSE
    BY <2>1 DEF Begins
  <2> QED
    BY <2>1, <2>2 DEF Tool, SealInv
<1>3. CASE Writes \/ Seals \/ Checks
  <2>1. /\ Goes /\ ~Idle /\ scope' = scope /\ All' = All
        /\ program' = Tail(program) /\ passed' = (Len(program) = 1)
    BY <1>3, ToolKeepsTypes DEF Writes, Seals, Checks, Goes
  <2>2. passed' => Idle'
    BY <2>1, LastStep DEF Idle
  <2>3. ASSUME NEW f \in scope
        PROVE  \/ Sealed(Tail(program), f)
               \/ manifest'[f] = Hashes(f)' /\ Quiet(Tail(program), f)
    <3>1. f \in All
      BY DEF EvidenceTypes
    <3>2. CASE manifest[f] = Hashes(f) /\ Quiet(program, f)
      <4>1. ~Touches(Head(program), f) /\ Quiet(Tail(program), f)
        BY <2>1, <3>2, QuietRest
      <4>2. Hashes(f)' = Hashes(f)
        BY <1>3, <3>1, <4>1, HashesKept
      <4>3. manifest'[f] = Hashes(f)
        <5>1. CASE Seals
          BY <3>1, <3>2, <5>1, SealTaken
        <5>2. CASE Writes \/ Checks
          BY <3>2, <5>2 DEF Writes, Checks
        <5> QED
          BY <1>3, <5>1, <5>2
      <4> QED
        BY <4>1, <4>2, <4>3
    <3>3. CASE /\ Head(program).op = "manifest" /\ Head(program).folder = f
               /\ Quiet(Tail(program), f)
      <4>1. Seals
        BY <1>3, <3>3 DEF Writes, Checks
      <4>2. manifest'[f] = Hashes(f)
        BY <3>3, <4>1, SealTaken
      <4>3. ~Touches(Head(program), f)
        BY <3>3 DEF Touches, Writing
      <4>4. Hashes(f)' = Hashes(f)
        BY <1>3, <3>1, <4>3, HashesKept
      <4> QED
        BY <3>3, <4>2, <4>4
    <3> QED
      BY <2>1, <3>2, <3>3, SealedRest DEF SealInv, Counted
  <2> QED
    BY <2>1, <2>2, <2>3 DEF SealInv
<1>4. CASE Raises
  <2>1. program' = <<>> /\ passed' = passed /\ ~Idle
    BY <1>4 DEF Raises
  <2>2. ~passed
    BY <2>1 DEF SealInv
  <2> QED
    BY <2>1, <2>2 DEF SealInv, Counted, Idle
<1> QED
  BY <1>1, <1>2, <1>3, <1>4 DEF EvidenceNext, OperatorStep

EvidenceInv == EvidenceTypes /\ SealInv

LEMMA EvidenceSealed == EvidenceSpec => []EvidenceInv
<1>1. EvidenceInit => EvidenceInv
  BY EvidenceTypesInit DEF EvidenceInv
<1>2. EvidenceInv /\ [EvidenceNext]_evidenceVars => EvidenceInv'
  BY EvidenceTypesStep, SealStep DEF EvidenceInv
<1> QED
  BY <1>1, <1>2, PTL DEF EvidenceSpec

(* The manifests a tool sealed hold of every file when it is done.         *)
THEOREM EvidenceManifestsHold == EvidenceSpec => []ManifestsHold
<1>1. EvidenceInv => ManifestsHold
  <2> SUFFICES ASSUME EvidenceInv, passed, NEW f \in scope
               PROVE  manifest[f] = Hashes(f)
    BY DEF ManifestsHold
  <2>1. Len(program) = 0
    BY DEF EvidenceInv, SealInv, Idle
  <2>2. ~Sealed(program, f)
    BY <2>1 DEF Sealed
  <2> QED
    BY <2>2 DEF EvidenceInv, SealInv, Counted
<1> QED
  BY <1>1, EvidenceSealed, PTL

-----------------------------------------------------------------------------
(* The image beside a log of the USB optimizations. *)

LEMMA WrittenContents ==
  ASSUME NEW s
  PROVE  /\ s.op = "log" => Written(s) = logs[s.folder]
         /\ s.op = "image" => Written(s) = Image(cache, built)
BY DEF Written, Image

LEMMA WhatChecks ==
  ASSUME NEW s, Satisfied(s)
  PROVE  /\ s.op = "same-build" => SameBuild(tree[s.folder][s.file])
         /\ s.op = "has-image" => HasImage(s.folder, tree[s.folder][s.file])
         /\ s.op = "clean" => tree[s.folder][s.file].clean
<1>1. s.op = "same-build" => SameBuild(tree[s.folder][s.file])
  BY DEF Satisfied
<1>2. s.op = "has-image" => HasImage(s.folder, tree[s.folder][s.file])
  BY DEF Satisfied
<1>3. s.op = "clean" => tree[s.folder][s.file].clean
  BY DEF Satisfied
<1> QED
  BY <1>1, <1>2, <1>3

LEMMA ImagePresent == \A mask, image : Image(mask, image) # Absent
<1> SUFFICES ASSUME NEW mask, NEW image, Image(mask, image) = Absent PROVE FALSE
  OBVIOUS
<1>1. Image(mask, image).kind = "image" /\ Absent.kind = "absent"
  BY DEF Image, Absent
<1> QED
  BY <1>1

ToolStep == Writes \/ Seals \/ Checks

LEMMA ToolGoes ==
  ASSUME EvidenceTypes, ToolStep
  PROVE  /\ ~Idle /\ program' = Tail(program) /\ passed' = (Len(program) = 1)
         /\ UNCHANGED <<root, logs, cache, All, scope>>
         /\ Writes <=> Head(program).op \in Writing
<1>1. ~Idle /\ Goes
  BY DEF ToolStep, Writes, Seals, Checks
<1> QED
  BY <1>1, ToolKeepsTypes DEF ToolStep, Goes, Writes, Seals, Checks, Writing

LEMMA FilesRest ==
  ASSUME EvidenceTypes, ToolStep, FilesInv
  PROVE  FilesInv'
<1> SUFFICES ASSUME NEW i \in 1 .. Len(program'), program'[i].op \in Writing
             PROVE  /\ program'[i].op = "log" => logs'[program'[i].folder] # Absent
                    /\ program'[i].file = "hardware" => program'[i].op = "log"
                    /\ (program'[i].file = "image") = (program'[i].op = "image")
  BY DEF FilesInv, Writing, Absent
<1>1. ~Idle /\ program' = Tail(program) /\ logs' = logs
  BY ToolGoes
<1>2. i + 1 \in 1 .. Len(program) /\ program'[i] = program[i + 1]
  BY <1>1, Rest
<1> QED
  BY <1>1, <1>2 DEF FilesInv

LEMMA FirstFile ==
  ASSUME EvidenceTypes, FilesInv, Writes
  PROVE  /\ Head(program).op = "log" => logs[Head(program).folder] # Absent
         /\ Head(program).file = "hardware" => Head(program).op = "log"
         /\ (Head(program).file = "image") = (Head(program).op = "image")
<1>1. ~Idle /\ Head(program).op \in Writing
  BY DEF Writes, Writing
<1>2. 1 \in 1 .. Len(program) /\ Head(program) = program[1]
  BY <1>1, Rest
<1> QED
  BY <1>1, <1>2 DEF FilesInv

LEMMA HardwareKept ==
  ASSUME EvidenceTypes, FilesInv, ToolStep, NEW f \in All
  PROVE  /\ tree'[f]["hardware"] \in {tree[f]["hardware"], logs[f]}
         /\ tree'[f]["hardware"] # tree[f]["hardware"] => logs[f] # Absent
         /\ Head(program) = Step("log", f, "hardware") =>
              tree'[f]["hardware"] = logs[f]
<1>1. CASE Writes
  <2> DEFINE s == Head(program)
  <2>1. "hardware" \in Names
    BY DEF Names
  <2>2. tree'[f]["hardware"] = IF f = s.folder /\ "hardware" = s.file
                                 THEN Written(s) ELSE tree[f]["hardware"]
    BY <1>1, <2>1, WriteTree
  <2>3. s.file = "hardware" => Written(s) = logs[s.folder] /\ logs[s.folder] # Absent
    BY <1>1, FirstFile, WrittenContents
  <2>4. s = Step("log", f, "hardware") => s.folder = f /\ s.file = "hardware"
    BY DEF Step
  <2> QED
    BY <2>2, <2>3, <2>4
<1>2. CASE ~Writes
  <2>1. tree' = tree
    BY <1>2 DEF ToolStep, Seals, Checks
  <2>2. Head(program) # Step("log", f, "hardware")
    BY <1>2, ToolGoes DEF Step, Writing
  <2> QED
    BY <2>1, <2>2
<1> QED
  BY <1>1, <1>2

LEMMA LogRest ==
  ASSUME EvidenceTypes, FilesInv, BuildInv, LogInv, ToolStep
  PROVE  LogInv'
<1>1. UNCHANGED <<All, logs, cache>>
  BY ToolGoes
<1> SUFFICES ASSUME NEW f \in All
             PROVE  /\ tree'[f]["hardware"] \in {Absent, logs[f]}
                    /\ logs[f] # Absent /\ logs[f].clean => logs[f].rows
                    /\ tree'[f]["image"] # Absent =>
                         /\ logs[f] # Absent
                         /\ logs[f].rows => logs[f].image.mask = tree'[f]["image"].cache
  BY <1>1 DEF LogInv, Absent
<1>0. logs[f] # Absent /\ logs[f].clean => logs[f].rows
  BY DEF LogInv
<1>2. tree'[f]["hardware"] \in {Absent, logs[f]}
  BY HardwareKept DEF LogInv
<1>3. tree[f]["image"] # Absent =>
        /\ logs[f] # Absent
        /\ logs[f].rows => logs[f].image.mask = tree[f]["image"].cache
  BY DEF LogInv
<1>4. CASE Writes
  <2> DEFINE s == Head(program)
  <2>1. "image" \in Names
    BY DEF Names
  <2>2. tree'[f]["image"] = IF f = s.folder /\ "image" = s.file
                              THEN Written(s) ELSE tree[f]["image"]
    BY <1>4, <2>1, WriteTree
  <2>3. ASSUME s.file = "image", f = s.folder
        PROVE  logs[f] # Absent /\ (logs[f].rows => logs[f].image.mask = Written(s).cache)
    <3>1. s.op = "image"
      BY <1>4, <2>3, FirstFile
    <3>2. 1 \in 1 .. Len(program) /\ s = program[1]
      BY Rest, ToolGoes
    <3>3. logs[f] # Absent /\ Prepared(program, f, 1)
      BY <2>3, <3>1, <3>2 DEF BuildInv
    <3>4. logs[f].rows => logs[f].image.mask = cache
      BY <3>3 DEF Prepared
    <3>5. Written(s).cache = cache
      BY <3>1, WrittenContents DEF Image
    <3> QED
      BY <3>3, <3>4, <3>5
  <2> QED
    BY <1>0, <1>2, <1>3, <2>2, <2>3
<1>5. CASE ~Writes
  <2>1. tree' = tree
    BY <1>5 DEF ToolStep, Seals, Checks
  <2> QED
    BY <1>0, <1>2, <1>3, <2>1
<1> QED
  BY <1>4, <1>5

LEMMA BuildRest ==
  ASSUME EvidenceTypes, FilesInv, BuildInv, ToolStep
  PROVE  BuildInv'
<1>1. ~Idle /\ program' = Tail(program) /\ UNCHANGED <<All, logs, cache>>
  BY ToolGoes
<1> DEFINE n == Len(program)
<1> DEFINE r == Tail(program)
<1>2. /\ n \in Nat \ {0} /\ Len(r) = n - 1 /\ Head(program) = program[1]
      /\ \A j \in 1 .. n - 1 : r[j] = program[j + 1] /\ r[j] \in Steps
  <2>1. r \in Seq(Steps) /\ Len(r) = n - 1 /\ \A j \in 1 .. n - 1 : r[j] = program[j + 1]
    BY <1>1, Rest
  <2>2. \A j \in 1 .. n - 1 : r[j] \in Steps
    BY <2>1, ElementOfSeq
  <2> QED
    BY <1>1, <2>1, <2>2, Rest
<1> HIDE DEF n, r
<1> DEFINE Ready(f, i) ==
      \/ logs[f].rows => logs[f].image.mask = cache
      \/ \E j \in 1 .. i - 1 :
           /\ r[j] = Step("same-build", f, "hardware")
           /\ \/ tree'[f]["hardware"] = logs[f]
              \/ \E k \in 1 .. j - 1 : r[k] = Step("log", f, "hardware")
<1> SUFFICES ASSUME NEW i \in 1 .. Len(r), r[i].op = "image"
             PROVE  logs[r[i].folder] # Absent /\ Ready(r[i].folder, i)
  BY <1>1 DEF BuildInv, r, Prepared, Absent, Step
<1> DEFINE f == r[i].folder
<1>3. f \in All
  BY <1>2 DEF Steps
<1>4. i + 1 \in 1 .. n /\ r[i] = program[i + 1]
  BY <1>2
<1>5. logs[f] # Absent /\ Prepared(program, f, i + 1)
  BY <1>4 DEF BuildInv, n
<1> HIDE DEF f
<1>6. CASE logs[f].rows => logs[f].image.mask = cache
  BY <1>5, <1>6 DEF f
<1>7. CASE ~(logs[f].rows => logs[f].image.mask = cache)
  <2>1. PICK j \in 1 .. i :
          /\ program[j] = Step("same-build", f, "hardware")
          /\ \/ tree[f]["hardware"] = logs[f]
             \/ \E k \in 1 .. j - 1 : program[k] = Step("log", f, "hardware")
    BY <1>5, <1>7 DEF Prepared
  <2>2. CASE j = 1
    <3>1. tree[f]["hardware"] = logs[f]
      BY <2>1, <2>2
    <3>2. Head(program).op = "same-build" /\ Head(program).folder = f
          /\ Head(program).file = "hardware"
      BY <1>2, <2>1, <2>2 DEF Step
    <3>3. Satisfied(Head(program))
      BY <3>2 DEF ToolStep, Writes, Seals, Checks
    <3>4. logs[f].rows => logs[f].image.mask = cache
      BY <3>1, <3>2, <3>3, WhatChecks DEF SameBuild
    <3> QED
      BY <1>7, <3>4
  <2>3. CASE j # 1
    <3>1. j - 1 \in 1 .. i - 1 /\ j - 1 \in 1 .. n - 1 /\ (j - 1) + 1 = j
      BY <1>2, <1>4, <2>3
    <3>2. r[j - 1] = Step("same-build", f, "hardware")
      BY <1>2, <2>1, <3>1
    <3>3. CASE tree[f]["hardware"] = logs[f]
      <4>1. tree'[f]["hardware"] = logs[f]
        BY <1>1, <1>3, <3>3, HardwareKept
      <4> QED
        BY <1>5, <3>1, <3>2, <4>1 DEF f
    <3>4. CASE \E k \in 1 .. j - 1 : program[k] = Step("log", f, "hardware")
      <4>1. PICK k \in 1 .. j - 1 : program[k] = Step("log", f, "hardware")
        BY <3>4
      <4>2. CASE k = 1
        <5>1. tree'[f]["hardware"] = logs[f]
          BY <1>1, <1>2, <1>3, <4>1, <4>2, HardwareKept
        <5> QED
          BY <1>5, <3>1, <3>2, <5>1 DEF f
      <4>3. CASE k # 1
        <5>1. k - 1 \in 1 .. (j - 1) - 1 /\ k - 1 \in 1 .. n - 1 /\ (k - 1) + 1 = k
          BY <1>2, <1>4, <3>1, <4>3
        <5>2. r[k - 1] = Step("log", f, "hardware")
          BY <1>2, <4>1, <5>1
        <5> QED
          BY <1>5, <3>1, <3>2, <5>1, <5>2 DEF f
      <4> QED
        BY <4>2, <4>3
    <3> QED
      BY <2>1, <3>3, <3>4
  <2> QED
    BY <2>2, <2>3
<1> QED
  BY <1>6, <1>7

LEMMA PresentRest ==
  ASSUME EvidenceTypes, FilesInv, LogInv, PresentInv, ToolStep
  PROVE  PresentInv'
<1>1. /\ ~Idle /\ program' = Tail(program)
      /\ UNCHANGED <<root, All, logs, cache, scope>>
  BY ToolGoes
<1> SUFFICES ASSUME "root" \in scope, NEW f \in scope \ {"root", "all-profiled"}
             PROVE  /\ tree'[f]["hardware"] # Absent
                    /\ \/ tree'[f]["image"] # Absent
                       \/ \E i \in 1 .. Len(Tail(program)) :
                            Tail(program)[i] = Step("has-image", f, "image")
                    /\ \/ tree'[f]["hardware"].clean
                       \/ \E i \in 1 .. Len(Tail(program)) :
                            Tail(program)[i] = Step("clean", f, "hardware")
  BY <1>1 DEF PresentInv, Step, Absent
<1>2. f \in All
  BY DEF EvidenceTypes
<1>3. /\ tree[f]["hardware"] # Absent
      /\ \/ tree[f]["image"] # Absent
         \/ \E i \in 1 .. Len(program) : program[i] = Step("has-image", f, "image")
      /\ \/ tree[f]["hardware"].clean
         \/ \E i \in 1 .. Len(program) : program[i] = Step("clean", f, "hardware")
  BY <1>1 DEF PresentInv, Counted
<1>4. tree'[f]["hardware"] = tree[f]["hardware"]
  BY <1>2, <1>3, HardwareKept DEF LogInv
<1>5. ASSUME tree[f]["image"] # Absent
      PROVE  tree'[f]["image"] # Absent
  <2>1. CASE Writes
    <3> DEFINE s == Head(program)
    <3>1. "image" \in Names
      BY DEF Names
    <3>2. tree'[f]["image"] = IF f = s.folder /\ "image" = s.file
                                THEN Written(s) ELSE tree[f]["image"]
      BY <1>2, <2>1, <3>1, WriteTree
    <3>3. s.file = "image" => Written(s) # Absent
      BY <2>1, FirstFile, WrittenContents, ImagePresent
    <3> QED
      BY <1>5, <3>2, <3>3
  <2>2. CASE ~Writes
    <3>1. tree' = tree
      BY <2>2 DEF ToolStep, Seals, Checks
    <3> QED
      BY <1>5, <3>1
  <2> QED
    BY <2>1, <2>2
<1>6. ASSUME NEW i \in 1 .. Len(program), program[i] = Step("has-image", f, "image")
      PROVE  \/ tree'[f]["image"] # Absent
             \/ \E k \in 1 .. Len(Tail(program)) :
                  Tail(program)[k] = Step("has-image", f, "image")
  <2>1. CASE i = 1
    <3>1. Head(program).op = "has-image" /\ Head(program).folder = f
          /\ Head(program).file = "image"
      BY <1>1, <1>6, <2>1, Rest DEF Step
    <3>2. Checks
      BY <3>1 DEF ToolStep, Writes, Seals
    <3>3. HasImage(f, tree[f]["image"])
      BY <3>1, <3>2, WhatChecks DEF Checks
    <3>4. tree'[f]["image"] # Absent
      BY <3>2, <3>3 DEF HasImage, Checks
    <3> QED
      BY <3>4
  <2>2. CASE i # 1
    <3>1. i - 1 \in 1 .. Len(Tail(program)) /\ (i - 1) + 1 = i
      BY <1>1, <2>2, Rest
    <3>2. Tail(program)[i - 1] = program[i]
      BY <1>1, <3>1, Rest
    <3> QED
      BY <1>6, <3>1, <3>2
  <2> QED
    BY <2>1, <2>2
<1>7. ASSUME NEW i \in 1 .. Len(program), program[i] = Step("clean", f, "hardware")
      PROVE  \/ tree'[f]["hardware"].clean
             \/ \E k \in 1 .. Len(Tail(program)) :
                  Tail(program)[k] = Step("clean", f, "hardware")
  <2>1. CASE i = 1
    <3>1. Head(program).op = "clean" /\ Head(program).folder = f
          /\ Head(program).file = "hardware"
      BY <1>1, <1>7, <2>1, Rest DEF Step
    <3>2. Checks
      BY <3>1 DEF ToolStep, Writes, Seals
    <3>3. tree[f]["hardware"].clean
      BY <3>1, <3>2, WhatChecks DEF Checks
    <3> QED
      BY <1>4, <3>3
  <2>2. CASE i # 1
    <3>1. i - 1 \in 1 .. Len(Tail(program)) /\ (i - 1) + 1 = i
      BY <1>1, <2>2, Rest
    <3>2. Tail(program)[i - 1] = program[i]
      BY <1>1, <3>1, Rest
    <3> QED
      BY <1>7, <3>1, <3>2
  <2> QED
    BY <2>1, <2>2
<1> QED
  BY <1>3, <1>4, <1>5, <1>6, <1>7

LEMMA ArchiveBegins ==
  ASSUME EvidenceTypes, NEW f \in All, StartUsb(f)
  PROVE  FilesInv' /\ BuildInv' /\ PresentInv'
<1>1. /\ program' = ArchiveUsb(f) /\ scope' = {f} /\ UNCHANGED <<root, logs, tree>>
      /\ logs[f] # Absent
  BY DEF StartUsb, Starts, operator
<1> DEFINE a == ArchiveUsb(f)
<1>2. /\ Len(a) = 6 /\ a[1] = Step("log", f, "logs") /\ a[2] = Step("log", f, "hardware")
      /\ a[3] = Step("same-build", f, "hardware") /\ a[4] = Step("image", f, "image")
      /\ a[5] = Step("source", f, "source") /\ a[6] = Step("manifest", f, "sha256")
  BY DEF ArchiveUsb
<1> HIDE DEF a
<1>3. /\ a[1].op = "log" /\ a[1].folder = f /\ a[1].file = "logs"
      /\ a[2].op = "log" /\ a[2].folder = f /\ a[2].file = "hardware"
      /\ a[3].op = "same-build" /\ a[4].op = "image" /\ a[4].folder = f
      /\ a[4].file = "image" /\ a[5].op = "source" /\ a[5].file = "source"
      /\ a[6].op = "manifest"
  BY <1>2 DEF Step
<1>4. \A i \in 1 .. Len(a) : i = 1 \/ i = 2 \/ i = 3 \/ i = 4 \/ i = 5 \/ i = 6
  BY <1>2
<1>5. \A i \in 1 .. Len(a) :
        a[i].op \in Writing =>
          /\ a[i].op = "log" => logs[a[i].folder] # Absent
          /\ a[i].file = "hardware" => a[i].op = "log"
          /\ (a[i].file = "image") = (a[i].op = "image")
  <2>1. \A i \in 1 .. Len(a) : a[i].op \in Writing => i = 1 \/ i = 2 \/ i = 4 \/ i = 5
    BY <1>3, <1>4 DEF Writing
  <2> QED
    BY <1>1, <1>3, <2>1
<1>6. FilesInv'
  BY <1>1, <1>5 DEF FilesInv, a, Writing, Absent
<1>7. ASSUME NEW i \in 1 .. Len(a), a[i].op = "image"
      PROVE  /\ logs[a[i].folder] # Absent
             /\ \E j \in 1 .. i - 1 :
                  /\ a[j] = Step("same-build", a[i].folder, "hardware")
                  /\ \E k \in 1 .. j - 1 : a[k] = Step("log", a[i].folder, "hardware")
  <2>1. i = 4
    BY <1>3, <1>4, <1>7
  <2>2. 3 \in 1 .. i - 1 /\ 2 \in 1 .. 3 - 1
    BY <2>1
  <2> QED
    BY <1>1, <1>2, <1>3, <2>1, <2>2
<1>8. BuildInv'
  BY <1>1, <1>7 DEF BuildInv, Prepared, a, Absent, Step
<1>9. PresentInv'
  BY <1>1 DEF PresentInv
<1> QED
  BY <1>6, <1>8, <1>9

LEMMA ValidateBegins ==
  ASSUME EvidenceTypes, root = "optimizations", Validate
  PROVE  FilesInv' /\ BuildInv' /\ PresentInv'
<1>1. /\ program' = ValidateOptimizations /\ scope' = Experiments \cup {"root"}
      /\ UNCHANGED <<root, logs, tree>>
  BY DEF Validate, Starts, operator
<1> DEFINE a == ValidateFolder("all-profiled")
<1> DEFINE b == ValidateFolder("lean")
<1> DEFINE r == RootSteps
<1> DEFINE v == ValidateOptimizations
<1>2. "all-profiled" \in All /\ "lean" \in All /\ Experiments \subseteq {"all-profiled", "lean"}
  BY FolderNames DEF EvidenceTypes, All, Experiments
<1>3. /\ a \in Seq(Steps) /\ b \in Seq(Steps) /\ r \in Seq(Steps)
      /\ \A i \in 1 .. Len(a) : a[i].op \notin Writing
      /\ \A i \in 1 .. Len(b) : b[i].op \notin Writing
      /\ "lean" \in Experiments =>
           /\ Len(b) = 3 /\ b[1] = Step("clean", "lean", "hardware")
           /\ b[2] = Step("has-image", "lean", "image")
      /\ Len(r) = 2 /\ r[1] = Step("summary", "root", "summary")
      /\ r[2] = Step("manifest", "root", "sha256")
  BY <1>2, ValidateFolderSteps, RootStepsSeal
<1>4. v = (a \o b) \o r
  BY DEF ValidateOptimizations
<1> HIDE DEF a, b, r, v
<1> DEFINE c == a \o b
<1>5. /\ c \in Seq(Steps) /\ Len(c) = Len(a) + Len(b) /\ Len(a) \in Nat /\ Len(b) \in Nat
      /\ \A i \in 1 .. Len(a) : c[i] = a[i]
      /\ \A i \in 1 .. Len(b) : c[Len(a) + i] = b[i]
  BY <1>3, Joined, LenProperties
<1> HIDE DEF c
<1>6. v = c \o r
  BY <1>4 DEF c
<1>7. /\ Len(c) \in Nat /\ Len(v) = Len(c) + Len(r)
      /\ \A i \in 1 .. Len(c) : v[i] = c[i]
      /\ \A i \in 1 .. Len(r) : v[Len(c) + i] = r[i]
  <2>1. c \in Seq(Steps) /\ r \in Seq(Steps)
    BY <1>3, <1>5
  <2>2. /\ Len(c \o r) = Len(c) + Len(r)
        /\ \A i \in 1 .. Len(c) : (c \o r)[i] = c[i]
        /\ \A i \in 1 .. Len(r) : (c \o r)[Len(c) + i] = r[i]
    BY <2>1, Joined
  <2>3. Len(c) \in Nat
    BY <2>1, LenProperties
  <2> QED
    BY <1>6, <2>2, <2>3
<1>8. \A i \in 1 .. Len(c) : c[i].op \notin Writing
  <2>1. ASSUME NEW i \in 1 .. Len(c), ~(i <= Len(a))
        PROVE  c[i].op \notin Writing
    <3>1. i - Len(a) \in 1 .. Len(b) /\ Len(a) + (i - Len(a)) = i
      BY <1>5, <2>1
    <3> QED
      BY <1>3, <1>5, <3>1
  <2>2. ASSUME NEW i \in 1 .. Len(c), i <= Len(a)
        PROVE  c[i].op \notin Writing
    <3>1. i \in 1 .. Len(a)
      BY <1>5, <2>2
    <3> QED
      BY <1>3, <1>5, <3>1
  <2> QED
    BY <2>1, <2>2
<1>9. ASSUME NEW i \in 1 .. Len(v), v[i].op \in Writing
      PROVE  v[i].op = "summary" /\ v[i].file = "summary"
  <2>1. ~(i <= Len(c))
    BY <1>7, <1>8, <1>9
  <2>2. i - Len(c) \in {1, 2} /\ Len(c) + (i - Len(c)) = i /\ i - Len(c) \in 1 .. Len(r)
    BY <1>3, <1>7, <2>1
  <2>3. v[i] = r[1] \/ v[i] = r[2]
    BY <1>7, <2>2
  <2> QED
    BY <1>3, <1>9, <2>3 DEF Step, Writing
<1>10. FilesInv'
  <2>1. \A i \in 1 .. Len(v) : v[i].op \in Writing =>
          /\ v[i].op # "log" /\ v[i].file # "hardware"
          /\ v[i].file # "image" /\ v[i].op # "image"
    BY <1>9
  <2> QED
    BY <1>1, <2>1 DEF FilesInv, v, Writing
<1>11. BuildInv'
  <2>1. \A i \in 1 .. Len(v) : v[i].op # "image"
    BY <1>9 DEF Writing
  <2> QED
    BY <1>1, <2>1 DEF BuildInv, v
<1>12. PresentInv'
  <2> SUFFICES ASSUME NEW f \in (Experiments \cup {"root"}) \ {"root", "all-profiled"}
               PROVE  /\ tree[f]["hardware"] # Absent
                      /\ \E i \in 1 .. Len(v) : v[i] = Step("has-image", f, "image")
                      /\ \E i \in 1 .. Len(v) : v[i] = Step("clean", f, "hardware")
    BY <1>1 DEF PresentInv, v, Absent, Step
  <2>1. f = "lean" /\ f \in Experiments
    BY <1>2
  <2>2. tree[f]["hardware"] # Absent
    BY <2>1 DEF Experiments
  <2>3. /\ Len(b) = 3 /\ 1 \in 1 .. Len(b) /\ 2 \in 1 .. Len(b)
        /\ b[1] = Step("clean", f, "hardware")
        /\ b[2] = Step("has-image", f, "image")
    BY <1>3, <2>1
  <2>4. Len(a) + 2 \in 1 .. Len(c) /\ c[Len(a) + 2] = b[2]
    BY <1>5, <2>3
  <2>5. Len(a) + 2 \in 1 .. Len(v) /\ v[Len(a) + 2] = c[Len(a) + 2]
    BY <1>3, <1>7, <2>4
  <2>6. Len(a) + 1 \in 1 .. Len(c) /\ c[Len(a) + 1] = b[1]
    BY <1>5, <2>3
  <2>7. Len(a) + 1 \in 1 .. Len(v) /\ v[Len(a) + 1] = c[Len(a) + 1]
    BY <1>3, <1>7, <2>6
  <2> QED
    BY <2>2, <2>3, <2>4, <2>5, <2>6, <2>7
<1> QED
  BY <1>10, <1>11, <1>12

LEMMA OriginInit == EvidenceInit => OriginInv
<1> SUFFICES ASSUME EvidenceInit PROVE FilesInv /\ BuildInv /\ LogInv /\ PresentInv
  BY DEF OriginInv
<1>1. Len(program) = 0 /\ ~Counted
  BY DEF EvidenceInit, Counted, Idle
<1>2. "hardware" \in Names /\ "image" \in Names
  BY DEF Names
<1>3. \A f \in All : /\ tree[f]["hardware"] = Absent /\ tree[f]["image"] = Absent
                   /\ logs[f] = Absent
  BY <1>2 DEF EvidenceInit
<1> QED
  BY <1>1, <1>3 DEF FilesInv, BuildInv, LogInv, PresentInv

LEMMA OriginStep ==
  EvidenceInv /\ OriginInv /\ [EvidenceNext]_evidenceVars => OriginInv'
<1> SUFFICES ASSUME EvidenceInv, OriginInv, [EvidenceNext]_evidenceVars,
                    root' = "optimizations"
             PROVE  FilesInv' /\ LogInv' /\ BuildInv' /\ PresentInv'
  BY DEF OriginInv
<1> USE DEF EvidenceInv
<1>1. CASE OperatorStep
  <2>1. /\ UNCHANGED <<root, tree, program, scope, passed, All>> /\ Idle
        /\ \A f \in All : root = "optimizations" /\ logs[f] # Absent => logs'[f] = logs[f]
        /\ \A f \in All : root = "optimizations" /\ logs'[f] # logs[f] =>
             (logs'[f].clean => logs'[f].rows)
    BY <1>1, OperatorKeeps
  <2>2. root = "optimizations" /\ LogInv /\ PresentInv
    BY <2>1 DEF OriginInv
  <2>3. Len(program') = 0
    BY <2>1 DEF Idle
  <2>4. FilesInv' /\ BuildInv'
    BY <2>3 DEF FilesInv, BuildInv
  <2>5. LogInv'
    <3> SUFFICES ASSUME NEW f \in All
                 PROVE  /\ tree[f]["hardware"] \in {Absent, logs'[f]}
                        /\ logs'[f] # Absent /\ logs'[f].clean => logs'[f].rows
                        /\ tree[f]["image"] # Absent =>
                             /\ logs'[f] # Absent
                             /\ logs'[f].rows =>
                                  logs'[f].image.mask = tree[f]["image"].cache
      BY <2>1 DEF LogInv, Absent
    <3>1. CASE logs[f] = Absent
      BY <2>1, <2>2, <3>1 DEF LogInv
    <3>2. CASE logs[f] # Absent
      BY <2>1, <2>2, <3>2 DEF LogInv
    <3> QED
      BY <3>1, <3>2
  <2>6. PresentInv'
    <3>1. Counted' = Counted
      BY <2>1 DEF Counted, Idle
    <3> QED
      BY <2>1, <2>2, <3>1 DEF PresentInv, Absent, Step
  <2> QED
    BY <2>4, <2>5, <2>6
<1>2. CASE Validate \/ \E f \in All : StartUsb(f) \/ StartCustom(f)
  <2>1. UNCHANGED <<root, tree, logs>>
    BY <1>2, ToolBegins DEF Begins, operator
  <2>2. UNCHANGED All
    BY <2>1 DEF All
  <2>3. LogInv'
    BY <2>1, <2>2 DEF OriginInv, LogInv, Absent
  <2>4. FilesInv' /\ BuildInv' /\ PresentInv'
    BY <1>2, <2>1, ArchiveBegins, ValidateBegins DEF StartCustom
  <2> QED
    BY <2>3, <2>4
<1>3. CASE ToolStep
  <2>1. root = "optimizations"
    BY <1>3, ToolGoes
  <2> QED
    BY <1>3, <2>1, FilesRest, LogRest, BuildRest, PresentRest DEF OriginInv
<1>4. CASE Raises
  <2>1. UNCHANGED <<root, tree, logs, passed>> /\ program' = <<>> /\ ~Idle
    BY <1>4 DEF Raises, operator
  <2>2. ~passed /\ Len(program') = 0
    BY <2>1 DEF SealInv
  <2>3. UNCHANGED All
    BY <2>1 DEF All
  <2>4. LogInv'
    BY <2>1, <2>3 DEF OriginInv, LogInv, Absent
  <2>5. ~Counted'
    BY <2>1, <2>2 DEF Counted, Idle
  <2> QED
    BY <2>2, <2>4, <2>5 DEF FilesInv, BuildInv, PresentInv
<1>5. CASE UNCHANGED evidenceVars
  <2>1. UNCHANGED <<root, cache, tree, logs, passed, scope, program>>
    BY <1>5 DEF evidenceVars, operator
  <2>2. UNCHANGED All /\ UNCHANGED Counted
    BY <2>1 DEF All, Counted, Idle
  <2>3. root = "optimizations" /\ FilesInv /\ LogInv /\ BuildInv /\ PresentInv
    BY <2>1 DEF OriginInv
  <2>4. FilesInv' /\ LogInv'
    BY <2>1, <2>2, <2>3 DEF FilesInv, LogInv, Absent, Writing
  <2>5. BuildInv' /\ PresentInv'
    BY <2>1, <2>2, <2>3 DEF BuildInv, Prepared, PresentInv, Absent, Step
  <2> QED
    BY <2>4, <2>5
<1> QED
  BY <1>1, <1>2, <1>3, <1>4, <1>5 DEF EvidenceNext, OperatorStep, ToolStep

(* The CMake cache archived with a validated experiment names the mask its *)
(* log reports, and there are images beside it: whatever was archived,     *)
(* refused or interrupted before, and whatever was built meanwhile.        *)
THEOREM EvidenceMaskIsTheLogs == EvidenceSpec => []ValidatedMaskIsTheLogs
<1>1. EvidenceInit => OriginInv
  BY OriginInit
<1>2. EvidenceInv /\ OriginInv /\ [EvidenceNext]_evidenceVars => OriginInv'
  BY OriginStep
<1>3. EvidenceInv /\ OriginInv => ValidatedMaskIsTheLogs
  <2> SUFFICES ASSUME EvidenceInv, OriginInv, root = "optimizations", passed,
                      "root" \in scope, NEW f \in scope \ {"root", "all-profiled"}
               PROVE  /\ tree[f]["image"] # Absent
                      /\ tree[f]["image"].cache = tree[f]["hardware"].image.mask
    BY DEF ValidatedMaskIsTheLogs, Absent
  <2>1. Len(program) = 0
    BY DEF EvidenceInv, SealInv, Idle
  <2>2. f \in All
    BY DEF EvidenceInv, EvidenceTypes
  <2>3. /\ tree[f]["hardware"] # Absent /\ tree[f]["image"] # Absent
        /\ tree[f]["hardware"].clean
    BY <2>1 DEF OriginInv, PresentInv, Counted
  <2>4. tree[f]["hardware"] = logs[f]
    BY <2>2, <2>3 DEF OriginInv, LogInv
  <2>5. logs[f].rows /\ (logs[f].rows => logs[f].image.mask = tree[f]["image"].cache)
    BY <2>2, <2>3, <2>4 DEF OriginInv, LogInv
  <2> QED
    BY <2>3, <2>4, <2>5
<1> QED
  BY <1>1, <1>2, <1>3, EvidenceSealed, PTL DEF EvidenceSpec
=============================================================================
