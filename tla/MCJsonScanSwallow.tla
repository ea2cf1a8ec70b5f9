-------------------------- MODULE MCJsonScanSwallow --------------------------
(* JsonScanSwallow over every buffer of at most MaxLen bytes of Alphabet. *)
EXTENDS JsonScanSwallow

CONSTANTS Alphabet, MaxLen

MCInputs == UNION {[1..n -> Alphabet] : n \in 0..MaxLen}

(* Structure: brackets of both kinds, a bare digit, a blank and a quote. *)
StructAlphabet == {91, 93, 123, 125, 49, 32, 34}

=============================================================================
