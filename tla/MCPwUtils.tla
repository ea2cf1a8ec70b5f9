------------------------------ MODULE MCPwUtils ------------------------------
(* Every string of length up to MaxLen over a letter, a space and a comma; *)
(* the invariants the proofs of UtilsProofs rest on are checked too.       *)
EXTENDS UtilsProofs

CONSTANTS Alphabet, MaxLen

MCStrings == UNION {[1..k -> Alphabet] : k \in 0..MaxLen}

MCAlphabet == {97, 32, 44}   \* a, space, comma

MCDelims == {32, 44}

=============================================================================
