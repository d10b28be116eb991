-------------------------- MODULE MCEmbeddingJobs --------------------------
(***************************************************************************)
(* Two models, one of them the default, and at most two workers; models    *)
(* and workers are strings in the configurations.                          *)
(***************************************************************************)
EXTENDS EmbeddingJobs, TLC

MCWorkerSymmetry == Permutations(Workers)
=============================================================================
