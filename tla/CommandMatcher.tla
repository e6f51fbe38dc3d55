--------------------------- MODULE CommandMatcher ---------------------------
(***************************************************************************)
(* How usb_pcm.c finds a command in the bytes of the audio endpoint:       *)
(* inspect_byte looks for a marker, one byte at a time and with no memory  *)
(* but how much of it has matched, and takes the bytes behind it for the   *)
(* header of a run.  Packets end anywhere, and so does what the host sent  *)
(* before; after the last frame of a run the endpoint looks for the next   *)
(* marker while main is still busy with the run.                           *)
(*                                                                         *)
(* UsbPcm takes a command as one step; this is that step from the inside.  *)
(***************************************************************************)
EXTENDS Integers, Sequences

CONSTANTS
  Marker,      \* the bytes of marker
  Bytes,       \* what the endpoint may receive
  HeaderSize,  \* sizeof(command)
  Headers,     \* the headers that are valid
  MaxHeard     \* bound: bytes between a marker and what came before

Size == Len(Marker)

(* What the matcher relies on: wherever the marker's first byte occurs in  *)
(* it again, the marker goes on from there as from its beginning.          *)
Recurs(s) ==
  \A d \in 1 .. Len(s) - 1 :
     s[1 + d] = s[1] => \A i \in 1 .. Len(s) - d : s[i + d] = s[i]

ASSUME MarkerAssumption == Marker \in Seq(Bytes) /\ Size > 1 /\ Recurs(Marker)
ASSUME HeaderAssumption ==
  HeaderSize \in Nat \ {0} /\ Headers \subseteq Seq(Bytes) /\ MaxHeard \in Nat

VARIABLES
  marker_match,    \* bytes of the marker that have matched
  reading_header,
  command,         \* the header's bytes so far: header_have is their number
  streaming,       \* usb_pcm.c's active: bytes are PCM
  owned,           \* usb_pcm.c's run_owned: main has not finished the run
  heard            \* history: the bytes inspected since the last header,
                   \* marker or disconnect

matcherVars == <<marker_match, reading_header, command, streaming, owned, heard>>

MatcherInit ==
  /\ marker_match = 0 /\ reading_header = FALSE /\ command = <<>>
  /\ streaming = FALSE /\ owned = FALSE /\ heard = <<>>

\* Mutant: the byte that does not continue a match is not looked at again.
ForgetMutant(b) == 0
(* A byte that does not continue the match may begin another.              *)
Restart(b) == IF b = Marker[1] THEN 1 ELSE 0

Extended(b) == IF b = Marker[marker_match + 1] THEN marker_match + 1 ELSE Restart(b)

(* A byte of what may be a marker. *)
Scan(b) ==
  /\ ~streaming /\ ~reading_header /\ Len(heard) < MaxHeard
  /\ IF Extended(b) = Size
       THEN marker_match' = 0 /\ reading_header' = TRUE /\ heard' = <<>>
       ELSE /\ marker_match' = Extended(b) /\ heard' = Append(heard, b)
            /\ UNCHANGED reading_header
  /\ UNCHANGED <<command, streaming, owned>>

(* A byte of a header.  A complete one starts a run when it is valid and   *)
(* main has finished the run before; the marker is looked for otherwise.   *)
ReadHeader(b) ==
  /\ ~streaming /\ reading_header
  /\ LET whole == Append(command, b)
         taken == whole \in Headers /\ ~owned
     IN  IF Len(whole) < HeaderSize
           THEN command' = whole /\ UNCHANGED <<reading_header, streaming, owned>>
           ELSE /\ command' = <<>> /\ reading_header' = FALSE
                /\ streaming' = taken /\ owned' = (owned \/ taken)
  /\ UNCHANGED <<marker_match, heard>>

(* The last frame of the run is complete. *)
StreamEnds ==
  /\ streaming /\ streaming' = FALSE
  /\ UNCHANGED <<marker_match, reading_header, command, owned, heard>>

(* The host stops streaming. *)
Disable ==
  /\ marker_match' = 0 /\ reading_header' = FALSE /\ command' = <<>>
  /\ streaming' = FALSE /\ heard' = <<>>
  /\ UNCHANGED owned

(* usb_pcm_finish *)
FinishRun ==
  /\ owned /\ owned' = FALSE /\ streaming' = FALSE
  /\ UNCHANGED <<marker_match, reading_header, command, heard>>

MatcherNext ==
  \/ \E b \in Bytes : Scan(b) \/ ReadHeader(b)
  \/ StreamEnds \/ Disable \/ FinishRun

MatcherSpec == MatcherInit /\ [][MatcherNext]_matcherVars

-----------------------------------------------------------------------------
(* s ends with the first k bytes of the marker. *)
EndsWith(s, k) == \A i \in 1 .. k : s[Len(s) - k + i] = Marker[i]

(* The matcher always knows the longest beginning of a marker that the     *)
(* bytes before end with, and so misses no marker, whatever scraps of      *)
(* markers, headers or PCM come before it and wherever packets end: one    *)
(* look at the byte that breaks a match is enough for this marker          *)
(* (usb_pcm.c:54).                                                         *)
MatchIsLongest ==
  /\ marker_match \in 0 .. Size - 1 /\ marker_match <= Len(heard)
  /\ EndsWith(heard, marker_match)
  /\ \A k \in 0 .. Size :
        k > marker_match /\ k <= Len(heard) => ~EndsWith(heard, k)
=============================================================================
