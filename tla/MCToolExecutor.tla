--------------------------- MODULE MCToolExecutor ---------------------------
(* Every message of up to three calls of any kind, and of four calls of    *)
(* the kinds that overlap, reduced or not, and the ones that must not.     *)
EXTENDS ToolExecutor, SequencesExt

MCMessages == SeqOf(Kinds, 3) \cup [1 .. 4 -> {"scan", "fetch", "build", "write"}]
=============================================================================
