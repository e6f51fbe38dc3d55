---------------------------- MODULE MCAppPlayback ---------------------------
(***************************************************************************)
(* AppPlayback for TLC: a mailbox of two messages and a slab of three      *)
(* blocks, so that both overflow, a prefill of two and runs just as long as*)
(* it and longer.                                                          *)
(***************************************************************************)
EXTENDS AppPlayback

MCFrameTotals == {2, 3}
=============================================================================
