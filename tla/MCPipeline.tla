----------------------------- MODULE MCPipeline -----------------------------
(* Small instances of Pipeline for TLC: two or three stages, of which 2 is     *)
(* local (OCR where the cfg says so) and 3 calls a model.                      *)
EXTENDS Pipeline, TLC
CONSTANTS w1, w2, c1, c2, deepseek
Calls == (3 :> deepseek)
AnyWorker == Permutations(Workers)
=============================================================================
