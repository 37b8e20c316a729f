----------------------------- MODULE PipelineMC -----------------------------
(***************************************************************************)
(* Pipeline for TLC: symmetry of messages and of the consumers of a queue. *)
(***************************************************************************)
EXTENDS Pipeline, TLC

Interchangeable == Permutations(Msg) \cup Permutations(Slot)
=============================================================================
