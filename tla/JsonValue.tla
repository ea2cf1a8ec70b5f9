------------------------------ MODULE JsonValue ------------------------------
(***************************************************************************)
(* The classification and conversion helpers of json.h (179-286) over a  *)
(* span (v, len) of a buffer b, positions counted from 1.  The buffer is *)
(* the C string the caller scans: strcmp and the decoding loop read it,  *)
(* and past its last byte lies the terminating NUL.                       *)
(***************************************************************************)
EXTENDS Integers, Sequences

(* The byte at position i of the C string b. *)
ByteAt(b, i) == IF i \in 1..Len(b) THEN b[i] ELSE 0

(* strcmp(b + v - 1, lit) == 0: the bytes from v on are lit, then NUL. *)
StrEq(b, v, lit) ==
  /\ \A k \in 1..Len(lit) : ByteAt(b, v + k - 1) = lit[k]
  /\ ByteAt(b, v + Len(lit)) = 0

TRUE_ == <<116, 114, 117, 101>>        \* "true"
FALSE_ == <<102, 97, 108, 115, 101>>   \* "false"
NULL_ == <<110, 117, 108, 108>>        \* "null"

IsObject(b, v, len) == len > 0 /\ ByteAt(b, v) = 123
IsArray(b, v, len) == len > 0 /\ ByteAt(b, v) = 91
IsString(b, v, len) == len > 1 /\ ByteAt(b, v) = 34
IsNull(b, v, len) == len = 4 /\ StrEq(b, v, NULL_)
IsTrue(b, v, len) == len = 4 /\ StrEq(b, v, TRUE_)
IsFalse(b, v, len) == len = 5 /\ StrEq(b, v, FALSE_)
IsBool(b, v, len) == IsTrue(b, v, len) \/ IsFalse(b, v, len)

(* spa_json_parse_bool: the return value and what it leaves in *result. *)
ParseBool(b, v, len) ==
  IF IsTrue(b, v, len) THEN [ret |-> 1, result |-> TRUE]
  ELSE IF IsFalse(b, v, len) THEN [ret |-> 1, result |-> FALSE]
  ELSE [ret |-> -1, result |-> TRUE]

(* The escapes spa_json_parse_string turns into control characters; any  *)
(* other escaped byte is copied as it is.                                 *)
Unescape(c) ==
  CASE c = 110 -> 10   \* \n
    [] c = 114 -> 13   \* \r
    [] c = 98  -> 8    \* \b
    [] c = 116 -> 9    \* \t
    [] OTHER   -> c

(* The bytes the loop of spa_json_parse_string writes for positions p up *)
(* to (excluding) e: an escape consumes the byte after the backslash.     *)
RECURSIVE Decode(_, _, _)
Decode(b, p, e) ==
  IF p >= e THEN <<>>
  ELSE IF ByteAt(b, p) = 92
    THEN <<Unescape(ByteAt(b, p + 1))>> \o Decode(b, p + 2, e)
    ELSE <<ByteAt(b, p)>> \o Decode(b, p + 1, e)

(* Mutant of ParseString: the loop runs up to the closing quote included. *)
ParseStringPastQuote(b, v, len) ==
  IF ~IsString(b, v, len) THEN [ret |-> -1, out |-> <<>>]
  ELSE [ret |-> 1, out |-> Decode(b, v + 1, v + len) \o <<0>>]

(* spa_json_parse_string: -1, or 1 and the bytes written to result,      *)
(* the terminating NUL included.                                         *)
ParseString(b, v, len) ==
  IF ~IsString(b, v, len) THEN [ret |-> -1, out |-> <<>>]
  ELSE [ret |-> 1, out |-> Decode(b, v + 1, v + len - 1) \o <<0>>]

=============================================================================
