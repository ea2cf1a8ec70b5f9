------------------------------ MODULE JsonScan ------------------------------
(***************************************************************************)
(* The streaming JSON tokenizer of src/examples/media-session/json.h.     *)
(*                                                                         *)
(* A caller holds a stack of cursors (struct spa_json) over one buffer:    *)
(* the root made by spa_json_init and a child per entered container,      *)
(* each child's parent being the cursor below it, as in the it[0], it[1], *)
(* ... arrays the callers of this header use.  The caller calls            *)
(* spa_json_next (directly or through spa_json_enter_container) on the     *)
(* innermost cursor, enters a container it was just handed, or drops the  *)
(* innermost cursor.  One call of spa_json_next is modelled one iteration *)
(* of its byte loop at a time: a step examines the byte at cur under the  *)
(* cursor's scan state and continues (cur++), re-dispatches the same byte *)
(* (goto again) or returns.  Bytes are their numeric values.              *)
(***************************************************************************)
EXTENDS Integers, Sequences

CONSTANTS
  Inputs,      \* the buffers a caller may hand to spa_json_init
  MaxCursors   \* how many cursors the caller's array holds (root included)

(* The values of a byte (unsigned char cur, json.h:65). *)
Bytes == 0..255

ASSUME InputsAssumption == Inputs \subseteq Seq(Bytes) /\ Inputs # {}
ASSUME MaxCursorsAssumption == MaxCursors \in Nat \ {0}

Ids == 1..MaxCursors

(* The scan states of spa_json_next, the anonymous enum of json.h:62      *)
(* (__STRING is STR here: STRING is a TLA+ keyword). *)
NONE == 0
STRUCT == 1
BARE == 2
STR == 3
UTF8 == 4
ESC == 5
States == {NONE, STRUCT, BARE, STR, UTF8, ESC}

(* Byte classes named after the case labels of the switch statements. *)
QUOTE == 34
BACKSLASH == 92
Opens == {91, 123}                       \* '[' '{'
Closes == {93, 125}                      \* ']' '}'
Separators == {9, 32, 13, 10, 58, 44}    \* '\t' ' ' '\r' '\n' ':' ','
BareStart == {45} \cup 97..122 \cup 65..90 \cup 48..57
BareEnd == Separators \cup Closes
Printable == 32..126
EscChars == {34, 92, 47, 98, 102, 110, 114, 116, 117}  \* " \ / b f n r t u

VARIABLES
  buf,    \* the buffer; its end pointer is position Len(buf) + 1
  cur,    \* cur[i]: the position cursor i examines next
  st,     \* st[i]: the scan state of cursor i
  depth,  \* depth[i]: the nesting counter of cursor i
  top,    \* cursors 1..top are held by the caller; top is the innermost
  pc,     \* "idle", or the call in progress on cursor top:
          \* "next" (spa_json_next), "obj" / "arr" (spa_json_enter_object/array)
  utf8,   \* the local utf8_remain of the call in progress
  value,  \* the out parameter *value of the call (0: not written yet)
  last    \* the outcome of the last call: cursor, return value, *value and,
          \* for spa_json_enter_container, whether a child was entered

vars == <<buf, cur, st, depth, top, pc, utf8, value, last>>

End == Len(buf) + 1
EnterType == IF pc = "obj" THEN 123 ELSE 91

(***************************************************************************)
(* One dispatch of the switch in spa_json_next: the state, depth, utf8    *)
(* counter and *value after it, and whether the loop continues (cur++),   *)
(* re-dispatches the same byte (goto again) or returns ret after moving   *)
(* cur by adv, writing cur back into the parent when wb.                  *)
(***************************************************************************)
Out(s, d, u, v, move, r, adv, wb) ==
  [st |-> s, depth |-> d, utf8 |-> u, value |-> v,
   move |-> move, ret |-> r, adv |-> adv, wb |-> wb]
Cont(s, d, u, v) == Out(s, d, u, v, "cont", 0, 0, FALSE)
Again(s, d, u, v) == Out(s, d, u, v, "again", 0, 0, FALSE)
Ret(s, d, u, v, r, adv, wb) == Out(s, d, u, v, "ret", r, adv, wb)

DNone(d, u, v) == Again(STRUCT, 0, u, v)

DStruct(d, u, v, p, b) ==
  CASE b \in Separators -> Cont(STRUCT, d, u, v)
    [] b = QUOTE        -> Cont(STR, d, u, p)
    [] b \in Opens      -> IF d + 1 > 1 THEN Cont(STRUCT, d + 1, u, p)
                                        ELSE Ret(STRUCT, d + 1, u, p, 1, 1, FALSE)
    [] b \in Closes     -> IF d = 0 THEN Ret(STRUCT, d, u, v, 0, 0, TRUE)
                                    ELSE Cont(STRUCT, d - 1, u, v)
    [] b \in BareStart  -> Cont(BARE, d, u, p)
    [] OTHER            -> Ret(STRUCT, d, u, v, -1, 0, FALSE)

(* Mutant of DBare: the goto again keeps the state BARE. *)
DBareKeepState(d, u, v, p, b) ==
  CASE b \in BareEnd               -> IF d > 0 THEN Again(BARE, d, u, v)
                                               ELSE Ret(STRUCT, d, u, v, p - v, 0, FALSE)
    [] b \in Printable \ BareEnd   -> Cont(BARE, d, u, v)
    [] OTHER                       -> Ret(BARE, d, u, v, -1, 0, FALSE)

DBare(d, u, v, p, b) ==
  CASE b \in BareEnd               -> IF d > 0 THEN Again(STRUCT, d, u, v)
                                               ELSE Ret(STRUCT, d, u, v, p - v, 0, FALSE)
    [] b \in Printable \ BareEnd   -> Cont(BARE, d, u, v)
    [] OTHER                       -> Ret(BARE, d, u, v, -1, 0, FALSE)

DString(d, u, v, p, b) ==
  CASE b = BACKSLASH -> Cont(ESC, d, u, v)
    [] b = QUOTE     -> IF d > 0 THEN Cont(STRUCT, d, u, v)
                                 ELSE Ret(STRUCT, d, u, v, (p + 1) - v, 1, FALSE)
    [] b \in 240..247 -> Cont(UTF8, d, u + 3, v)
    [] b \in 224..239 -> Cont(UTF8, d, u + 2, v)
    [] b \in 192..223 -> Cont(UTF8, d, u + 1, v)
    [] b \in Printable \ {QUOTE, BACKSLASH} -> Cont(STR, d, u, v)
    [] OTHER          -> Ret(STR, d, u, v, -1, 0, FALSE)

(* Mutant of DUtf8: a bad byte is skipped (cur++) before failing. *)
DUtf8SkipBad(d, u, v, b) ==
  IF b \in 128..191 THEN Cont(IF u - 1 = 0 THEN STR ELSE UTF8, d, u - 1, v)
                    ELSE Ret(UTF8, d, u, v, -1, 1, FALSE)

DUtf8(d, u, v, b) ==
  IF b \in 128..191 THEN Cont(IF u - 1 = 0 THEN STR ELSE UTF8, d, u - 1, v)
                    ELSE Ret(UTF8, d, u, v, -1, 0, FALSE)

DEsc(d, u, v, b) ==
  IF b \in EscChars THEN Cont(STR, d, u, v)
                    ELSE Ret(ESC, d, u, v, -1, 0, FALSE)

Dispatch(s, d, u, v, p, b) ==
  CASE s = NONE   -> DNone(d, u, v)
    [] s = STRUCT -> DStruct(d, u, v, p, b)
    [] s = BARE   -> DBare(d, u, v, p, b)
    [] s = STR -> DString(d, u, v, p, b)
    [] s = UTF8   -> DUtf8(d, u, v, b)
    [] s = ESC    -> DEsc(d, u, v, b)

(* The dispatch of the byte under the innermost cursor. *)
Here == Dispatch(st[top], depth[top], utf8, value, cur[top], buf[cur[top]])

(***************************************************************************)
(* The outcomes of spa_json_enter_container after its spa_json_next       *)
(* returned r with *value = v (json.h:163): FALSE fails, TRUE enters.     *)
(* When the call never wrote *value the test reads an uninitialised       *)
(* pointer: either outcome.                                               *)
(***************************************************************************)
EnterOutcomes(r, v) ==
  IF pc = "next" \/ r < 0 THEN {FALSE}
  ELSE IF v = 0 THEN BOOLEAN
  ELSE {buf[v] = EnterType}

(***************************************************************************)
(* The call on cursor top returns r with *value = v, leaving the cursors' *)
(* positions at nc and cursor top in state s with depth d; for            *)
(* spa_json_enter_container a successful test runs spa_json_enter, which  *)
(* sets up cursor top + 1 at the same position, scan state NONE, depth 0. *)
(***************************************************************************)
(* Mutant of Finish: the child starts at the opening delimiter, at *value. *)
FinishAtValue(r, v, nc, s, d) ==
  \E ok \in EnterOutcomes(r, v) :
    /\ top' = IF ok THEN top + 1 ELSE top
    /\ cur' = IF ok THEN [nc EXCEPT ![top + 1] = IF v = 0 THEN nc[top] ELSE v] ELSE nc
    /\ st' = IF ok THEN [st EXCEPT ![top] = s, ![top + 1] = NONE]
                   ELSE [st EXCEPT ![top] = s]
    /\ depth' = IF ok THEN [depth EXCEPT ![top] = d, ![top + 1] = 0]
                      ELSE [depth EXCEPT ![top] = d]
    /\ pc' = "idle"
    /\ value' = v
    /\ last' = [id |-> top, ret |-> r, value |-> v,
                enter |-> IF pc = "next" THEN "none"
                          ELSE IF ok THEN "ok" ELSE "fail"]

Finish(r, v, nc, s, d) ==
  \E ok \in EnterOutcomes(r, v) :
    /\ top' = IF ok THEN top + 1 ELSE top
    /\ cur' = IF ok THEN [nc EXCEPT ![top + 1] = nc[top]] ELSE nc
    /\ st' = IF ok THEN [st EXCEPT ![top] = s, ![top + 1] = NONE]
                   ELSE [st EXCEPT ![top] = s]
    /\ depth' = IF ok THEN [depth EXCEPT ![top] = d, ![top + 1] = 0]
                      ELSE [depth EXCEPT ![top] = d]
    /\ pc' = "idle"
    /\ value' = v
    /\ last' = [id |-> top, ret |-> r, value |-> v,
                enter |-> IF pc = "next" THEN "none"
                          ELSE IF ok THEN "ok" ELSE "fail"]

Init ==
  /\ buf \in Inputs
  /\ cur = [i \in Ids |-> 1]
  /\ st = [i \in Ids |-> NONE]
  /\ depth = [i \in Ids |-> 0]
  /\ top = 1
  /\ pc = "idle"
  /\ utf8 = 0
  /\ value = 0
  /\ last = [id |-> 0, ret |-> 0, value |-> 0, enter |-> "none"]

(* Mutant of CallNext: utf8_remain outlives the call, as a static would. *)
CallNextKeepCount ==
  /\ pc = "idle"
  /\ pc' = "next"
  /\ value' = 0
  /\ UNCHANGED <<buf, cur, st, depth, top, last, utf8>>

(* The caller calls spa_json_next on its innermost cursor. *)
CallNext ==
  /\ pc = "idle"
  /\ pc' = "next"
  /\ utf8' = 0
  /\ value' = 0
  /\ UNCHANGED <<buf, cur, st, depth, top, last>>

(* The caller calls spa_json_enter_object or spa_json_enter_array on its  *)
(* innermost cursor, with a free slot for the child.                      *)
CallEnter(kind) ==
  /\ pc = "idle"
  /\ top < MaxCursors
  /\ pc' = kind
  /\ utf8' = 0
  /\ value' = 0
  /\ UNCHANGED <<buf, cur, st, depth, top, last>>

(* One loop iteration that ends in continue: cur++. *)
ScanContinue ==
  /\ pc # "idle"
  /\ cur[top] < End
  /\ Here.move = "cont"
  /\ cur' = [cur EXCEPT ![top] = @ + 1]
  /\ st' = [st EXCEPT ![top] = Here.st]
  /\ depth' = [depth EXCEPT ![top] = Here.depth]
  /\ utf8' = Here.utf8
  /\ value' = Here.value
  /\ UNCHANGED <<buf, top, pc, last>>

(* A dispatch that ends in goto again: the same byte, in the new state. *)
ScanAgain ==
  /\ pc # "idle"
  /\ cur[top] < End
  /\ Here.move = "again"
  /\ st' = [st EXCEPT ![top] = Here.st]
  /\ depth' = [depth EXCEPT ![top] = Here.depth]
  /\ utf8' = Here.utf8
  /\ value' = Here.value
  /\ UNCHANGED <<buf, cur, top, pc, last>>

(* A dispatch that returns; at a closing delimiter at depth 0 the cursor's *)
(* position is written into its parent's (json.h:88-89).                   *)
(* Mutant of ScanReturn: the parent is set past the closing delimiter. *)
ScanReturnPastDelimiter ==
  /\ pc # "idle"
  /\ cur[top] < End
  /\ Here.move = "ret"
  /\ LET p == cur[top] + Here.adv
         nc == IF Here.wb /\ top > 1
                 THEN [cur EXCEPT ![top] = p, ![top - 1] = p + 1]
                 ELSE [cur EXCEPT ![top] = p]
     IN Finish(Here.ret, Here.value, nc, Here.st, Here.depth)
  /\ UNCHANGED <<buf, utf8>>

ScanReturn ==
  /\ pc # "idle"
  /\ cur[top] < End
  /\ Here.move = "ret"
  /\ LET p == cur[top] + Here.adv
         nc == IF Here.wb /\ top > 1
                 THEN [cur EXCEPT ![top] = p, ![top - 1] = p]
                 ELSE [cur EXCEPT ![top] = p]
     IN Finish(Here.ret, Here.value, nc, Here.st, Here.depth)
  /\ UNCHANGED <<buf, utf8>>

(* The loop runs out of bytes (json.h:157). *)
EndOfInput ==
  /\ pc # "idle"
  /\ cur[top] = End
  /\ Finish(IF depth[top] = 0 THEN 0 ELSE -1, value, cur, st[top], depth[top])
  /\ UNCHANGED <<buf, utf8>>

(* The caller calls spa_json_enter on the container its innermost cursor *)
(* just returned.                                                         *)
(* Mutant of Enter: the child starts one byte past the parent. *)
EnterPastDelimiter ==
  /\ pc = "idle"
  /\ top < MaxCursors
  /\ last.id = top
  /\ last.ret > 0
  /\ buf[last.value] \in Opens
  /\ top' = top + 1
  /\ cur' = [cur EXCEPT ![top + 1] = cur[top] + 1]
  /\ st' = [st EXCEPT ![top + 1] = NONE]
  /\ depth' = [depth EXCEPT ![top + 1] = 0]
  /\ UNCHANGED <<buf, pc, utf8, value, last>>

Enter ==
  /\ pc = "idle"
  /\ top < MaxCursors
  /\ last.id = top
  /\ last.ret > 0
  /\ buf[last.value] \in Opens
  /\ top' = top + 1
  /\ cur' = [cur EXCEPT ![top + 1] = cur[top]]
  /\ st' = [st EXCEPT ![top + 1] = NONE]
  /\ depth' = [depth EXCEPT ![top + 1] = 0]
  /\ UNCHANGED <<buf, pc, utf8, value, last>>

(* The caller stops using its innermost child cursor. *)
Drop ==
  /\ pc = "idle"
  /\ top > 1
  /\ top' = top - 1
  /\ UNCHANGED <<buf, cur, st, depth, pc, utf8, value, last>>

Next ==
  \/ CallNext
  \/ CallEnter("obj")
  \/ CallEnter("arr")
  \/ ScanContinue
  \/ ScanAgain
  \/ ScanReturn
  \/ EndOfInput
  \/ Enter
  \/ Drop

Spec == Init /\ [][Next]_vars

(* Every call of spa_json_next returns: its loop cannot spin.  Weak       *)
(* fairness on the loop's steps, a call being a plain synchronous loop.   *)
FairSpec == Spec /\ WF_vars(ScanContinue \/ ScanAgain \/ ScanReturn \/ EndOfInput)

-----------------------------------------------------------------------------
(* Every variable has the type the C declarations give it. *)
TypeOK ==
  /\ buf \in Seq(Bytes)
  /\ cur \in [Ids -> 1..End]
  /\ st \in [Ids -> States]
  /\ depth \in [Ids -> Nat]
  /\ top \in Ids
  /\ pc \in {"idle", "next", "obj", "arr"}
  /\ utf8 \in Int
  /\ value \in 0..Len(buf)
  /\ last \in [id : 0..MaxCursors, ret : Int, value : 0..Len(buf),
               enter : {"none", "ok", "fail"}]

(* A child cursor is never behind its parent: it starts at the parent's   *)
(* position (spa_json_enter) and the only write into the parent's cur is  *)
(* the child's own position (json.h:88-89), so the parent, when resumed,  *)
(* never rescans bytes its child already consumed.                        *)
NestedCursorsOrdered == \A i \in 2..top : cur[i - 1] <= cur[i]

(* No step moves a held cursor backwards: neither the loop of             *)
(* spa_json_next nor the write-back of a child into its parent ever       *)
(* rewinds a cursor the caller still holds.                               *)
NoRewind == [][\A i \in 1..top : i <= top' => cur'[i] >= cur[i]]_vars

(* utf8_remain is a local of spa_json_next, reset to 0 by every call, but *)
(* the UTF8 scan state lives in the cursor across calls.  Whenever a call *)
(* is about to accept a continuation byte in state UTF8 the count is one  *)
(* the same call set from a lead byte (1..3), never a reset 0 that would  *)
(* go negative and swallow continuation bytes forever.                    *)
Utf8CountFresh ==
  (pc # "idle" /\ st[top] = UTF8 /\ cur[top] < End /\ buf[cur[top]] \in 128..191)
    => utf8 \in 1..3

(* Every call of spa_json_next (and of spa_json_enter_container) returns. *)
CallsReturn == pc # "idle" ~> pc = "idle"

(* spec.md 4.2: spa_json_enter_container fails unless its spa_json_next    *)
(* returned a container: it never enters after a call that wrote *value   *)
(* and returned end of scope.                                             *)
EnterOnlyOnContainer ==
  (last.enter = "ok" /\ last.value # 0) => last.ret > 0

(* spec.md 4.1 and 8: the end of the buffer ends only what is complete.  *)
(* An unterminated string ('"abc') is malformed input, and a bare token   *)
(* running to the end ("true false") is still returned: spa_json_next     *)
(* never reports end of scope from inside a string or a bare token.       *)
NothingOpenAtEndOfScope ==
  \A i \in Ids : (last.id = i /\ last.ret = 0) => st[i] \in {NONE, STRUCT}

-----------------------------------------------------------------------------
(* The cursors the caller holds, as the abstract stack of JsonCursors. *)
CursorStack == [i \in 1..top |-> cur[i]]

Cursors == INSTANCE JsonCursors WITH size <- Len(buf), pos <- CursorStack

(* The cursors of json.h keep the promises of JsonCursors: spa_json_next  *)
(* only moves the innermost cursor forward, writes back into the parent   *)
(* only the child's own position (json.h:88-89), and spa_json_enter       *)
(* starts a child at the position of the cursor that returned the         *)
(* container (json.h:51-54, 163-164).                                     *)
CursorsRefined == Cursors!Spec

=============================================================================
