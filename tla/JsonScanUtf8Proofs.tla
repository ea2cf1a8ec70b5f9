------------------------- MODULE JsonScanUtf8Proofs -------------------------
(***************************************************************************)
(* Proof that spa_json_next never reads the utf8_remain of an earlier     *)
(* call: a continuation byte is accepted in the __UTF8 state only while   *)
(* the current call itself has counted the lead byte (json.h:128-135).    *)
(***************************************************************************)
EXTENDS JsonScanProofs

(* The continuation bytes 10xxxxxx of a UTF-8 sequence (json.h:131). *)
Continuation == 128..191

(* Cursor i is at the end of the buffer or on a byte that is not a      *)
(* continuation byte: a dispatch in __UTF8 there returns -1.            *)
NotContinuation(i) == cur[i] = End \/ buf[cur[i]] \notin Continuation

(***************************************************************************)
(* Utf8CountFresh is not inductive: a call begins with utf8_remain = 0 in *)
(* whatever scan state the cursor kept, __UTF8 included (a sequence cut   *)
(* by a bad byte or by the end of the buffer).  UInv says where a cursor  *)
(* can be left in __UTF8 and what the counter is while a call runs:       *)
(*  - a parent cursor is in __UTF8 only at the end of the buffer, where    *)
(*    the end-of-input return of its child's spa_json_enter_container     *)
(*    left it;                                                            *)
(*  - an idle innermost cursor in __UTF8 sits where no continuation byte  *)
(*    follows, as the -1 return of json.h:135 leaves it;                  *)
(*  - during a call the counter is 0 outside __UTF8 and 1..3 inside it,   *)
(*    except on the first byte of a call resumed in __UTF8;               *)
(*  - a container handed out by the last call was returned in __STRUCT.  *)
(***************************************************************************)
UInv ==
  /\ \A i \in 1..top - 1 : st[i] = UTF8 => cur[i] = End
  /\ pc = "idle" /\ st[top] = UTF8 => NotContinuation(top)
  /\ pc # "idle" /\ st[top] # UTF8 => utf8 = 0
  /\ pc # "idle" /\ st[top] = UTF8 =>
       utf8 \in 1..3 \/ (utf8 = 0 /\ NotContinuation(top))
  /\ pc = "idle" /\ last.ret > 0 /\ last.id \in 1..top => st[last.id] = STRUCT

(* What a dispatch o of byte b does with the utf8 counter. *)
Utf8Out(o, b) ==
  /\ o.move \in {"cont", "again"} /\ o.st = UTF8 => o.utf8 \in 1..3
  /\ o.move \in {"cont", "again"} /\ o.st # UTF8 => o.utf8 = 0
  /\ o.move = "ret" /\ o.st = UTF8 => o.adv = 0 /\ b \notin Continuation
  /\ o.move = "ret" /\ o.st # STRUCT => o.ret < 0

(* A dispatch started with a counter that is 0 outside __UTF8, and 1..3  *)
(* inside it unless the byte is no continuation byte, counts a lead byte *)
(* of a sequence of n bytes as n - 1, counts a continuation byte down,   *)
(* leaves __UTF8 when the count reaches 0 and returns -1 from any state  *)
(* but __STRUCT.                                                          *)
LEMMA DispatchUtf8 ==
  ASSUME NEW s \in States, NEW d \in Nat, NEW u \in Int, NEW v \in Int,
         NEW p \in Int, NEW b \in Bytes,
         s # UTF8 => u = 0,
         s = UTF8 => u \in 1..3 \/ (u = 0 /\ b \notin Continuation)
  PROVE  Utf8Out(Dispatch(s, d, u, v, p, b), b)
<1> USE DEF Utf8Out, Out, Cont, Again, Ret, States,
            NONE, STRUCT, BARE, STR, UTF8, ESC
<1>1. CASE s = NONE
  BY <1>1 DEF Dispatch, DNone
<1>2. CASE s = STRUCT
  BY <1>2 DEF Dispatch, DStruct
<1>3. CASE s = BARE
  BY <1>3 DEF Dispatch, DBare
<1>4. CASE s = STR
  BY <1>4 DEF Dispatch, DString
<1>5. CASE s = UTF8
  BY <1>5 DEF Dispatch, DUtf8, Continuation
<1>6. CASE s = ESC
  BY <1>6 DEF Dispatch, DEsc
<1>7. QED
  BY <1>1, <1>2, <1>3, <1>4, <1>5, <1>6

(* A returning call keeps UInv when it leaves every parent in __UTF8 at  *)
(* the end of the buffer, leaves cursor top in __UTF8 only where no      *)
(* continuation byte follows and, if it returns r >= 0 in __UTF8, at   *)
(* the end of the buffer, and returns r > 0 only from __STRUCT.         *)
LEMMA FinishUInv ==
  ASSUME IInv, pc # "idle",
         NEW r \in Int, NEW v \in 0..Len(buf),
         NEW nc \in [Ids -> 1..End], NEW s \in States, NEW d \in Nat,
         \A i \in 1..top - 1 : st[i] = UTF8 => nc[i] = End,
         s = UTF8 => nc[top] = End \/ buf[nc[top]] \notin Continuation,
         r >= 0 /\ s = UTF8 => nc[top] = End,
         r > 0 => s = STRUCT,
         Finish(r, v, nc, s, d), buf' = buf
  PROVE  UInv'
<1>1. PICK ok \in EnterOutcomes(r, v) :
        /\ top' = IF ok THEN top + 1 ELSE top
        /\ cur' = IF ok THEN [nc EXCEPT ![top + 1] = nc[top]] ELSE nc
        /\ st' = IF ok THEN [st EXCEPT ![top] = s, ![top + 1] = NONE]
                       ELSE [st EXCEPT ![top] = s]
        /\ pc' = "idle"
        /\ last' = [id |-> top, ret |-> r, value |-> v,
                    enter |-> IF pc = "next" THEN "none"
                              ELSE IF ok THEN "ok" ELSE "fail"]
  BY DEF Finish
<1>2. top \in Ids /\ st \in [Ids -> States]
  BY DEF IInv, TypeOK
<1>3. ok => top + 1 \in Ids /\ r >= 0
  <2>1. ok => ~(pc = "next" \/ r < 0)
    BY Zenon DEF EnterOutcomes
  <2>2. ok => pc \in {"obj", "arr"}
    BY <2>1 DEF IInv, TypeOK
  <2>3. QED
    BY <2>1, <2>2, MaxCursorsAssumption DEF IInv, TypeOK, Ids
<1>4. CASE ok
  <2>1. s = UTF8 => nc[top] = End
    BY <1>3, <1>4
  <2>2. top' = top + 1 /\ st'[top + 1] = NONE /\ st'[top] = s
        /\ cur'[top] = nc[top] /\ End' = End
        /\ \A i \in 1..top - 1 : st'[i] = st[i] /\ cur'[i] = nc[i]
    BY <1>1, <1>2, <1>3, <1>4, <2>1, MaxCursorsAssumption DEF Ids, End
  <2>3. \A i \in 1..top' - 1 : st'[i] = UTF8 => cur'[i] = End'
    <3> SUFFICES ASSUME NEW i \in 1..top, st'[i] = UTF8 PROVE cur'[i] = End'
      BY <1>2, <2>2 DEF Ids
    <3>1. CASE i = top
      BY <2>1, <2>2, <3>1
    <3>2. CASE i # top
      <4>1. i \in 1..top - 1
        BY <1>2, <3>2 DEF Ids
      <4>2. st[i] = UTF8 /\ cur'[i] = nc[i]
        BY <2>2, <4>1
      <4>3. QED
        BY <2>2, <4>1, <4>2
    <3>3. QED
      BY <3>1, <3>2
  <2>4. st'[top'] # UTF8
    BY <2>2 DEF NONE, UTF8
  <2>5. last'.ret > 0 /\ last'.id \in 1..top' => st'[last'.id] = STRUCT
    BY <1>1, <2>2 DEF STRUCT
  <2>6. QED
    BY <1>1, <2>3, <2>4, <2>5 DEF UInv
<1>5. CASE ~ok
  <2>1. top' = top /\ st'[top] = s /\ cur' = nc /\ End' = End
        /\ \A i \in 1..top - 1 : st'[i] = st[i]
    BY <1>1, <1>2, <1>5, MaxCursorsAssumption DEF Ids, End
  <2>2. r > 0 => st'[top] = STRUCT
    BY <2>1 DEF STRUCT
  <2>3. QED
    BY <1>1, <2>1, <2>2 DEF UInv, NotContinuation
<1>6. QED
  BY <1>4, <1>5

(* The dispatch of the byte under the innermost cursor during a call      *)
(* starts from a counter UInv allows, so Utf8Out holds of it.             *)
LEMMA HereUtf8 ==
  ASSUME IInv, UInv, pc # "idle", cur[top] < End
  PROVE  Utf8Out(Here, buf[cur[top]])
<1>1. top \in Ids /\ st[top] \in States /\ depth[top] \in Nat /\ utf8 \in Int
      /\ value \in Int /\ cur[top] \in 1..Len(buf)
  BY DEF IInv, TypeOK, End
<1>2. buf[cur[top]] \in Bytes
  BY <1>1 DEF IInv, TypeOK
<1>3. st[top] = UTF8 => utf8 \in 1..3 \/ (utf8 = 0 /\ buf[cur[top]] \notin Continuation)
  BY <1>1 DEF UInv, NotContinuation, End
<1>4. QED
  BY <1>1, <1>2, <1>3, DispatchUtf8 DEF UInv, Here

LEMMA NextUInv ==
  IInv /\ NestedCursorsOrdered /\ UInv /\ [Next]_vars => UInv'
<1> SUFFICES ASSUME IInv, NestedCursorsOrdered, UInv, [Next]_vars
             PROVE  UInv'
  OBVIOUS
<1>0. top \in Ids /\ cur \in [Ids -> 1..End] /\ st \in [Ids -> States]
      /\ Len(buf) \in Nat
  BY DEF IInv, TypeOK
<1>1. CASE CallNext
  BY <1>1 DEF CallNext, UInv, NotContinuation, End
<1>2. ASSUME NEW kind \in {"obj", "arr"}, CallEnter(kind)
      PROVE  UInv'
  BY <1>2 DEF CallEnter, UInv, NotContinuation, End
<1>3. CASE ScanContinue
  <2>1. Utf8Out(Here, buf[cur[top]])
    BY <1>3, HereUtf8 DEF ScanContinue
  <2>2. top' = top /\ pc' = pc /\ pc # "idle" /\ st'[top] = Here.st /\ utf8' = Here.utf8
        /\ Here.move = "cont"
        /\ (\A i \in 1..top - 1 : st'[i] = st[i] /\ cur'[i] = cur[i]) /\ End' = End
    BY <1>0, <1>3 DEF ScanContinue, Ids, End
  <2>3. QED
    BY <2>1, <2>2 DEF Utf8Out, UInv
<1>4. CASE ScanAgain
  <2>1. Utf8Out(Here, buf[cur[top]])
    BY <1>4, HereUtf8 DEF ScanAgain
  <2>2. top' = top /\ pc' = pc /\ pc # "idle" /\ st'[top] = Here.st /\ utf8' = Here.utf8
        /\ Here.move = "again"
        /\ (\A i \in 1..top - 1 : st'[i] = st[i] /\ cur'[i] = cur[i]) /\ End' = End
    BY <1>0, <1>4 DEF ScanAgain, Ids, End
  <2>3. QED
    BY <2>1, <2>2 DEF Utf8Out, UInv
<1>5. CASE ScanReturn
  <2>1. Here \in OutType(Len(buf)) /\ Utf8Out(Here, buf[cur[top]])
    BY <1>5, HereType, HereUtf8 DEF ScanReturn, IInv
  <2> DEFINE p == cur[top] + Here.adv
             nc == IF Here.wb /\ top > 1
                     THEN [cur EXCEPT ![top] = p, ![top - 1] = p]
                     ELSE [cur EXCEPT ![top] = p]
  <2>2. p \in 1..End /\ cur[top] < End
    BY <1>0, <1>5, <2>1 DEF ScanReturn, OutType, End
  <2>3. nc \in [Ids -> 1..End]
    BY <1>0, <2>2 DEF Ids
  <2>4. \A i \in 1..top - 1 : st[i] = UTF8 => nc[i] = End
    (* a parent in __UTF8 is at the end, so its child, not behind it, is *)
    (* too, and the write-back of json.h:88-89 cannot have happened      *)
    <3> SUFFICES ASSUME NEW i \in 1..top - 1, st[i] = UTF8 PROVE nc[i] = End
      OBVIOUS
    <3>1. cur[i] = End
      BY DEF UInv
    <3>2. i # top - 1 \/ ~(Here.wb /\ top > 1)
      BY <1>0, <2>2, <3>1 DEF NestedCursorsOrdered, Ids, End
    <3>3. CASE Here.wb /\ top > 1
      <4>1. nc = [cur EXCEPT ![top] = p, ![top - 1] = p]
        BY <3>3
      <4>2. i # top - 1
        BY Zenon, <3>2, <3>3
      <4>3. i \in Ids /\ i # top
        BY <1>0, MaxCursorsAssumption DEF Ids
      <4>4. QED
        BY <1>0, <3>1, <4>1, <4>2, <4>3
    <3>4. CASE ~(Here.wb /\ top > 1)
      BY <1>0, <3>1, <3>4 DEF Ids
    <3>5. QED
      BY <3>3, <3>4
  <2>5. Here.st = UTF8 => nc[top] = End \/ buf[nc[top]] \notin Continuation
    BY <1>0, <1>5, <2>1 DEF ScanReturn, Utf8Out, Ids
  <2>6. Here.ret >= 0 /\ Here.st = UTF8 => nc[top] = End
    BY <1>5, <2>1 DEF ScanReturn, Utf8Out, OutType, STRUCT, UTF8
  <2>9. Here.ret > 0 => Here.st = STRUCT
    BY <1>5, <2>1 DEF ScanReturn, Utf8Out, OutType
  <2>7. Finish(Here.ret, Here.value, nc, Here.st, Here.depth) /\ buf' = buf
        /\ Here.move = "ret" /\ pc # "idle"
    BY <1>5 DEF ScanReturn
  <2>10. Here.ret \in Int /\ Here.value \in 0..Len(buf) /\ Here.st \in States
         /\ Here.depth \in Nat
    BY <2>1 DEF OutType
  <2>8. QED
    BY <2>3, <2>4, <2>5, <2>6, <2>7, <2>9, <2>10, FinishUInv
<1>6. CASE EndOfInput
  <2>1. (IF depth[top] = 0 THEN 0 ELSE -1) \in Int /\ st[top] \in States
        /\ depth[top] \in Nat /\ value \in 0..Len(buf)
    BY DEF IInv, TypeOK, Ids
  <2>2. \A i \in 1..top - 1 : st[i] = UTF8 => cur[i] = End
    BY DEF UInv
  <2>3. cur[top] = End /\ buf' = buf /\ pc # "idle"
    BY <1>6 DEF EndOfInput
  <2>4. ~((IF depth[top] = 0 THEN 0 ELSE -1) > 0)
    OBVIOUS
  <2>5. QED
    BY <1>0, <1>6, <2>1, <2>2, <2>3, <2>4, FinishUInv DEF EndOfInput
<1>7. CASE Enter
  (* the parent was handed a container by its last call, so it is in    *)
  (* __STRUCT; the child starts in NONE *)
  <2>1. st[top] = STRUCT
    BY <1>0, <1>7 DEF Enter, UInv, Ids
  <2>2. top' = top + 1 /\ top + 1 \in Ids /\ st'[top + 1] = NONE /\ st'[top] = STRUCT
        /\ (\A i \in 1..top - 1 : st'[i] = st[i] /\ cur'[i] = cur[i])
        /\ End' = End /\ pc' = "idle" /\ last' = last
    BY <1>0, <1>7, <2>1, MaxCursorsAssumption DEF Enter, Ids, End
  <2>3. \A i \in 1..top' - 1 : st'[i] = UTF8 => cur'[i] = End'
    <3> SUFFICES ASSUME NEW i \in 1..top, st'[i] = UTF8 PROVE cur'[i] = End'
      BY <1>0, <2>2 DEF Ids
    <3>1. i # top
      BY <2>2 DEF STRUCT, UTF8
    <3>2. QED
      BY <1>0, <2>2, <3>1 DEF UInv, Ids
  <2>4. last'.ret > 0 /\ last'.id \in 1..top' => st'[last'.id] = STRUCT
    <3>1. last.id = top
      BY <1>7 DEF Enter
    <3>2. QED
      BY Zenon, <2>2, <3>1
  <2>5. pc' = "idle" /\ st'[top'] = NONE
    BY Zenon, <2>2
  <2>7. pc' = "idle" /\ st'[top'] # UTF8
    BY <2>5 DEF NONE, UTF8
  <2>6. QED
    BY <2>3, <2>4, <2>7 DEF UInv
<1>8. CASE Drop
  <2>1. top' = top - 1 /\ top - 1 \in Ids /\ UNCHANGED <<buf, cur, st, pc, utf8, last>>
    BY <1>0, <1>8, MaxCursorsAssumption DEF Drop, Ids
  <2>2. st[top - 1] = UTF8 => cur[top - 1] = End
    BY <1>0, <2>1 DEF UInv, Ids
  <2>3. QED
    BY <1>0, <1>8, <2>1, <2>2 DEF Drop, UInv, NotContinuation, End, Ids
<1>9. CASE UNCHANGED vars
  BY <1>9 DEF vars, UInv, NotContinuation, End
<1>10. QED
  BY <1>1, <1>2, <1>3, <1>4, <1>5, <1>6, <1>7, <1>8, <1>9 DEF Next

LEMMA InitUInv == Init => UInv
BY MaxCursorsAssumption DEF Init, UInv, Ids, NONE, UTF8

(* A continuation byte is only ever accepted in the __UTF8 state against *)
(* a utf8_remain of 1..3 that the running call of spa_json_next set from *)
(* a lead byte itself (json.h:128-135), for every buffer and every depth *)
(* of the caller's cursor stack: a cursor left in __UTF8 by an earlier   *)
(* call, whose count the new call does not have, always fails its next  *)
(* call on a continuation byte instead.                                 *)
THEOREM Utf8Fresh == Spec => []Utf8CountFresh
<1>1. Init => IInv /\ NestedCursorsOrdered /\ UInv
  BY InitIInv, InitUInv DEF Init, NestedCursorsOrdered
<1>2. IInv /\ NestedCursorsOrdered /\ UInv /\ [Next]_vars
        => IInv' /\ NestedCursorsOrdered' /\ UInv'
  BY NextIInv, NextOrdered, NextUInv
<1>3. IInv /\ UInv => Utf8CountFresh
  <2> SUFFICES ASSUME IInv, UInv, pc # "idle", st[top] = UTF8, cur[top] < End,
                      buf[cur[top]] \in 128..191
               PROVE  utf8 \in 1..3
    BY DEF Utf8CountFresh
  <2>1. cur[top] \in Int /\ End \in Int
    BY DEF IInv, TypeOK, Ids, End
  <2>2. ~NotContinuation(top)
    BY <2>1 DEF NotContinuation, Continuation
  <2>3. QED
    BY <2>2 DEF UInv
<1>4. QED
  BY <1>1, <1>2, <1>3, PTL DEF Spec

(* Where the scan state of json.h can leave a cursor in __UTF8 between   *)
(* calls of spa_json_next, and what utf8_remain holds during a call     *)
(* (json.h:111-135): UInv holds in every reachable state, for every     *)
(* buffer and every depth of the cursor stack.                          *)
THEOREM Utf8StateInvariant == Spec => []UInv
<1>1. Init => IInv /\ NestedCursorsOrdered /\ UInv
  BY InitIInv, InitUInv DEF Init, NestedCursorsOrdered
<1>2. IInv /\ NestedCursorsOrdered /\ UInv /\ [Next]_vars
        => IInv' /\ NestedCursorsOrdered' /\ UInv'
  BY NextIInv, NextOrdered, NextUInv
<1>3. QED
  BY <1>1, <1>2, PTL DEF Spec
=============================================================================
