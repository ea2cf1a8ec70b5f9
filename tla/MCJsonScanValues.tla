--------------------------- MODULE MCJsonScanValues ---------------------------
(* JsonScanValues over buffers made of at most MaxLex lexemes; the      *)
(* inductive invariant UInv of the UTF-8 counter proof is checked here too. *)
EXTENDS JsonScanValues, JsonScanUtf8Proofs, SequencesExt

CONSTANTS MaxLex

(* "true", ",", brackets of both kinds, a plain string, a string with an *)
(* escaped n, one with an escaped quote, one with a 3-byte UTF-8          *)
(* character, and a lone quote and a cut-short UTF-8 sequence to build    *)
(* broken strings from.                                                   *)
Lexemes == {TRUE_, <<44>>, <<91>>, <<93>>, <<123>>, <<125>>, <<34, 97, 34>>,
            <<34, 92, 110, 34>>, <<34, 92, 34, 34>>,
            <<34, 226, 128, 128, 34>>, <<34>>, <<226, 128>>}

LexInputs == {FlattenSeq(s) : s \in BoundedSeq(Lexemes, MaxLex)}

=============================================================================
