-------------------------- MODULE MCArtifactStore --------------------------
(* Streams of up to three symbols, one within another but for its line     *)
(* end, two the same but for the line end; a budget of one symbol, so that *)
(* all but the empty stream are stored, and at most two chunks.            *)
EXTENDS ArtifactStore, TLC

CONSTANTS i1, i2

MCIds == {i1, i2}
MCTexts == {<<>>, <<"a", "b", CRLF>>, <<"b", CRLF>>, <<"b", Newline>>}

(* Calls differ only by their ids. *)
IdSymmetry == Permutations(MCIds)
=============================================================================
