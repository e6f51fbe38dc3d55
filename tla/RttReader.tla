------------------------------ MODULE RttReader -----------------------------
(***************************************************************************)
(* The log reader of the bench (tools/rtt-memory.py): it polls the RTT ring*)
(* of a target that keeps running, appends what it finds to a capture file,*)
(* tells the target what it consumed, and stops after a whole line that    *)
(* holds a marker, or at its deadline.                                     *)
(*                                                                         *)
(* Each access through the J-Link is one step: the target writes between   *)
(* any two of them.  The reader may be stopped between any two of its steps*)
(* (a failed access raises, the operator interrupts it, run-usb-           *)
(* optimization.ps1 kills it) and be started again on the same capture,    *)
(* which it opens for appending.                                           *)
(*                                                                         *)
(* A byte is the number of its write; letter tells what was written there. *)
(* Lines are shorter than the 65536 bytes of them the reader remembers.    *)
(***************************************************************************)
EXTENDS Integers, Sequences, SequencesExt

CONSTANTS
  Size,         \* bytes of the up-buffer
  Letters,      \* what a byte may be, with NewLine among them
  NewLine,
  Needle,       \* the text of --stop-on
  MaxBytes,     \* bound: bytes the target writes
  MaxSessions,  \* bound: times the reader is started
  MaxResets     \* bound: times the target is reset

ASSUME ReaderAssumption ==
  /\ Size \in Nat /\ Size > 1
  /\ NewLine \in Letters /\ 0 \notin Letters
  /\ Needle \in Seq(Letters \ {NewLine}) /\ Needle # <<>>
  /\ {MaxBytes, MaxSessions, MaxResets} \subseteq Nat

VARIABLES
  letter,      \* history: every byte the target put into the ring
  ring, wr, rd, \* the up-buffer, WrOff and RdOff
  ready,       \* the control block holds its identifier
  resets,
  pc,          \* where the reader is; "off" when it does not run, "stopped"
               \* when the marker ended it
  stopping,    \* --stop-on was given
  cb,          \* the control block as read
  data,        \* the bytes read with it
  tail,        \* the line begun
  file,        \* the capture
  opened,      \* history: its length when this session began
  sessions,
  gone,        \* history: bytes a reset of the target took out of the ring
  torn         \* history: a reset fell between two accesses of one poll

target == <<letter, ring, wr, rd, ready, resets, gone>>
session == <<stopping, opened, sessions>>
vars == <<target, session, pc, cb, data, tail, file, torn>>

Offsets == 0 .. Size - 1
Next1(i) == (i + 1) % Size

Init ==
  /\ letter = <<>> /\ ring = [i \in Offsets |-> 0] /\ wr = 0 /\ rd = 0
  /\ ready = FALSE /\ resets = 0 /\ gone = {}
  /\ pc = "off" /\ stopping = FALSE /\ cb = [wr |-> 0, rd |-> 0]
  /\ data = <<>> /\ tail = <<>> /\ file = <<>> /\ opened = 0 /\ sessions = 0
  /\ torn = FALSE

-----------------------------------------------------------------------------
(* The target (SEGGER's RTT in the firmware). *)

(* The bytes from offset i on to before offset j. *)
Segment(i, j) == [n \in 1 .. j - i |-> ring[i + n - 1]]
Unread(r, w) ==
  IF w >= r THEN Segment(r, w) ELSE Segment(r, Size) \o Segment(0, w)

(* A byte for which there is no room is not written. *)
TargetWrites(c) ==
  /\ ready /\ Next1(wr) # rd /\ Len(letter) < MaxBytes
  /\ letter' = Append(letter, c)
  /\ ring' = [ring EXCEPT ![wr] = Len(letter) + 1]
  /\ wr' = Next1(wr)
  /\ UNCHANGED <<rd, ready, resets, gone, session, pc, cb, data, tail, file, torn>>

Ended == pc \in {"off", "stopped"}
Polling == ~Ended /\ pc # "top"

(* A reset empties the ring; the identifier is back once RTT is set up. *)
TargetResets ==
  /\ ready /\ resets < MaxResets
  /\ resets' = resets + 1 /\ ready' = FALSE /\ wr' = 0 /\ rd' = 0
  /\ gone' = gone \cup (ToSet(Unread(rd, wr)) \ ToSet(file))
  /\ torn' = (torn \/ Polling)
  /\ UNCHANGED <<letter, ring, session, pc, cb, data, tail, file>>

TargetReady ==
  /\ ~ready /\ ready' = TRUE
  /\ UNCHANGED <<letter, ring, wr, rd, resets, gone, session, pc, cb, data, tail,
                 file, torn>>

-----------------------------------------------------------------------------
(* The reader. *)

(* The capture is opened for appending, unbuffered. *)
Start(needle) ==
  /\ Ended /\ sessions < MaxSessions
  /\ sessions' = sessions + 1 /\ stopping' = needle
  /\ opened' = Len(file) /\ tail' = <<>> /\ pc' = "top"
  /\ UNCHANGED <<target, cb, data, file, torn>>

\* Mutant: WrOff is read byte by byte, and torn when a carry is written.
TornReadMutant ==
  {wr, 2 * (((wr + Size - 1) % Size) \div 2) + (wr % 2)}
(* What read_control_block may find in WrOff: one word, read at once. *)
WrOffRead == {wr}

(* Nothing to read before the identifier is there, or when WrOff is RdOff. *)
Poll ==
  /\ pc = "top"
  /\ \E w \in WrOffRead : cb' = [wr |-> w, rd |-> rd]
  /\ pc' = IF ready /\ cb'.wr # cb'.rd THEN "read" ELSE "top"
  /\ data' = <<>>
  /\ UNCHANGED <<target, session, tail, file, torn>>

(* Up to WrOff, or first up to the end of the ring when WrOff wrapped. *)
Read ==
  /\ pc = "read"
  /\ IF cb.wr > cb.rd
       THEN data' = Segment(cb.rd, cb.wr) /\ pc' = "append"
       ELSE data' = Segment(cb.rd, Size) /\ pc' = "wrapped"
  /\ UNCHANGED <<target, session, cb, tail, file, torn>>

ReadWrapped ==
  /\ pc = "wrapped"
  /\ data' = data \o Segment(0, cb.wr) /\ pc' = "append"
  /\ UNCHANGED <<target, session, cb, tail, file, torn>>

AppendData ==
  /\ pc = "append"
  /\ file' = file \o data /\ pc' = "consume"
  /\ UNCHANGED <<target, session, cb, data, tail, torn>>

Consume ==
  /\ pc = "consume"
  /\ rd' = cb.wr
  /\ pc' = IF stopping THEN "match" ELSE "top"
  /\ UNCHANGED <<letter, ring, wr, ready, resets, gone, session, cb, data, tail,
                 file, torn>>

(* A cell nobody wrote reads as 0. *)
Text(bytes) == [i \in DOMAIN bytes |-> IF bytes[i] = 0 THEN 0 ELSE letter[bytes[i]]]
NewLines(text) == {i \in DOMAIN text : text[i] = NewLine}
LastNewLine(text) == Max(NewLines(text) \cup {0})
Holds(text) ==
  \E i \in 0 .. Len(text) - Len(Needle) :
     SubSeq(text, i + 1, i + Len(Needle)) = Needle

\* Mutant: the line begun is forgotten between polls.
ForgetLineMutant(bytes) == <<>>
WholeLines(text) == SubSeq(text, 1, LastNewLine(text))
LineBegun(bytes) == SubSeq(bytes, LastNewLine(Text(bytes)) + 1, Len(bytes))

(* Stop when a whole line holds the needle, else remember the line begun. *)
Match ==
  /\ pc = "match"
  /\ IF Holds(WholeLines(Text(tail \o data)))
       THEN pc' = "stopped" /\ UNCHANGED tail
       ELSE pc' = "top" /\ tail' = LineBegun(tail \o data)
  /\ UNCHANGED <<target, session, cb, data, file, torn>>

(* The deadline is looked at between polls; an access that fails, or an    *)
(* interruption, ends the session anywhere.                                *)
Deadline ==
  /\ pc = "top" /\ pc' = "off"
  /\ UNCHANGED <<target, session, cb, data, tail, file, torn>>

Abort ==
  /\ Polling /\ pc' = "off"
  /\ UNCHANGED <<target, session, cb, data, tail, file, torn>>

-----------------------------------------------------------------------------
TargetStep ==
  (\E c \in Letters : TargetWrites(c)) \/ TargetResets \/ TargetReady

ReaderStep ==
  \/ \E needle \in BOOLEAN : Start(needle)
  \/ Poll \/ Read \/ ReadWrapped \/ AppendData \/ Consume \/ Match
  \/ Deadline \/ Abort

Next == TargetStep \/ ReaderStep

Spec == Init /\ [][Next]_vars

-----------------------------------------------------------------------------
Captured == SubSeq(file, opened + 1, Len(file))

(* A capture has every byte of the log: what is neither waiting in the ring*)
(* nor lost with a reset of the target is in the file, and one session has *)
(* it in the order of writing and once.  A byte may come again only in a   *)
(* later session, after one that ended between the append and the write of *)
(* RdOff.  (A reset in the middle of a poll invalidates the poll.)         *)
CaptureIsStream ==
  ~torn =>
     /\ DOMAIN letter
          = ToSet(file) \cup ToSet(Unread(rd, wr)) \cup gone
     /\ \A i, j \in DOMAIN Captured : i < j => Captured[i] < Captured[j]

(* A newline somewhere behind the marker ends the line that holds it. *)
HasMarkedLine(text) ==
  \E i, j \in DOMAIN text :
     /\ i + Len(Needle) <= j /\ text[j] = NewLine
     /\ SubSeq(text, i, i + Len(Needle) - 1) = Needle

(* A session with a marker ends with the line that holds it: it never polls*)
(* again once its capture has such a line, in however many pieces it came, *)
(* and one ended by the marker has that line to its end.                   *)
StopsAtMarker ==
  /\ pc = "stopped" => HasMarkedLine(Text(Captured))
  /\ pc = "top" /\ stopping => ~HasMarkedLine(Text(Captured))
=============================================================================
