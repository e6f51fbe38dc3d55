---------------------------- MODULE MCSourceTrees ---------------------------
(***************************************************************************)
(* SourceTrees for TLC: archives of the patched header and two other files,*)
(* all files the generator patches, and three runs: one that leaves        *)
(* something behind, one that is killed on top of it, and one that must    *)
(* cope with both; upstream drifts at any place and comes back.            *)
(***************************************************************************)
EXTENDS SourceTrees

MCFetched == {"basop_util.h", "a.c", "b.c"}
=============================================================================
