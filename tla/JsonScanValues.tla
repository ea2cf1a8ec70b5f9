--------------------------- MODULE JsonScanValues ---------------------------
(***************************************************************************)
(* The tokens spa_json_next hands out, passed to the classification and  *)
(* conversion helpers the way spa_json_get_bool and spa_json_get_string  *)
(* pass them (json.h:270-286).                                            *)
(***************************************************************************)
EXTENDS JsonScan, JsonValue

(* The bytes of the span the last call returned. *)
Token == SubSeq(buf, last.value, last.value + last.ret - 1)

(* A call just returned a token span (not a container, end or error). *)
TokenReturned ==
  /\ pc = "idle"
  /\ last.id # 0
  /\ last.ret > 0
  /\ last.value # 0
  /\ buf[last.value] \notin Opens

(* spec.md 8: a bare token "true", "false" or "null" that spa_json_next   *)
(* returns is classified as that literal by spa_json_is_true, _is_false   *)
(* and _is_null, wherever it sits in the buffer.                          *)
TokenLiteralsClassified ==
  (TokenReturned /\ Token \in {TRUE_, FALSE_, NULL_}) =>
    \/ IsTrue(buf, last.value, last.ret)
    \/ IsFalse(buf, last.value, last.ret)
    \/ IsNull(buf, last.value, last.ret)

(* spec.md 4.4: spa_json_get_string, which accepts a result buffer of    *)
(* maxlen >= len bytes, needs only len - 1 of them: spa_json_parse_string *)
(* of a string token never writes more, the terminating NUL included,    *)
(* however the token's escapes fall.                                     *)
StringFitsCapacity ==
  (TokenReturned /\ IsString(buf, last.value, last.ret)) =>
    Len(ParseString(buf, last.value, last.ret).out) <= last.ret - 1

=============================================================================
