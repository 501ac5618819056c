---------------------------- MODULE MCLLMClient ----------------------------
(* Two calls: tolerances below zero, zero, and long enough for five probes. *)
EXTENDS LLMClient

MCTolerances == {-1, 0, 9}
=============================================================================
