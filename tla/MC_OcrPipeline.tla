--------------------------- MODULE MC_OcrPipeline ---------------------------
(***************************************************************************)
(* Instances of OcrPipeline for TLC: one worker goroutine, as the process  *)
(* starts one, one detector beside the reconciler, and one or two notes.   *)
(* The walk of a scan takes paths in any order, so two paths stand for     *)
(* every pair of notes in the tree.                                        *)
(***************************************************************************)
EXTENDS OcrPipeline

MCWorkers   == {"run"}
MCDetectors == {"timer"}
OnePath  == {"a.note"}
TwoPaths == {"a.note", "b.note"}
=============================================================================
