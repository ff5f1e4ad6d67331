------------------------- MODULE MCProviderBoundary -------------------------
(* Small instances of ProviderBoundary for TLC. *)
EXTENDS ProviderBoundary
CONSTANTS worker, request, deepseek, kimi
=============================================================================
