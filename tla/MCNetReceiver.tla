--------------------------- MODULE MCNetReceiver ---------------------------
(* The network core of the receiver with two runs of two frames.           *)
EXTENDS NetReceiver

MCQueueSize == 2    \* 32 in radio.c; the loop is behind as soon as it waits
MCMailboxSize == 2  \* 12 in the application core, shared with the frames
MCFragments == 2    \* 2 to 6 packets of CHUNK bytes
MCFrames == 2       \* enough for a frame after a lost one
MCMaxTries == 2     \* 3 in control
MCMaxRuns == 2      \* a run and the late status of the one before
=============================================================================
