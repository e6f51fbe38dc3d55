------------------------------- MODULE PcmFeed ------------------------------
(***************************************************************************)
(* What the USB input promises the frame loop, without blocks, packets or  *)
(* semaphores: between opening and closing a run, the frames 0, 1, 2, ...  *)
(* come in order and each is either delivered once or lost, and none is    *)
(* lost while fewer than Depth of them wait.                               *)
(***************************************************************************)
EXTENDS Integers, Sequences

CONSTANTS
  Depth,     \* frames that may wait before one can be lost
  Targets    \* lengths a run may have, warm-up included

VARIABLES
  open,      \* a run is under way
  target,    \* its length
  made,      \* frames completed
  lost,      \* of these, the lost ones
  stream     \* frames to be delivered, oldest first

feedVars == <<open, target, made, lost, stream>>

FeedInit ==
  open = FALSE /\ target = 0 /\ made = 0 /\ lost = 0 /\ stream = <<>>

Open ==
  /\ ~open /\ open' = TRUE
  /\ target' \in Targets
  /\ made' = 0 /\ lost' = 0 /\ stream' = <<>>

Deliverable ==
  /\ open /\ made < target /\ Len(stream) <= Depth
  /\ stream' = Append(stream, made) /\ made' = made + 1
  /\ UNCHANGED <<open, target, lost>>

Lose ==
  /\ open /\ made < target /\ Len(stream) >= Depth
  /\ made' = made + 1 /\ lost' = lost + 1
  /\ UNCHANGED <<open, target, stream>>

Take ==
  /\ open /\ stream # <<>>
  /\ stream' = Tail(stream)
  /\ UNCHANGED <<open, target, made, lost>>

Close ==
  /\ open /\ open' = FALSE /\ stream' = <<>>
  /\ UNCHANGED <<target, made, lost>>

FeedNext == Open \/ Deliverable \/ Lose \/ Take \/ Close

FeedSpec == FeedInit /\ [][FeedNext]_feedVars
=============================================================================
