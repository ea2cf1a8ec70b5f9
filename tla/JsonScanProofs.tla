---------------------------- MODULE JsonScanProofs ----------------------------
(***************************************************************************)
(* Proofs about JsonScan for every buffer and every number of cursors.    *)
(***************************************************************************)
EXTENDS JsonScan, TLAPS

(* The records one dispatch of the switch of spa_json_next yields over a *)
(* buffer of L bytes.                                                    *)
OutType(L) ==
  [st : States, depth : Nat, utf8 : Int, value : 0..L,
   move : {"cont", "again", "ret"}, ret : Int, adv : {0, 1}, wb : BOOLEAN]

(* Whatever state the cursor is in and whatever byte it examines, a       *)
(* dispatch keeps the depth a natural number (a closing delimiter only    *)
(* decrements a positive depth), points *value inside the buffer and      *)
(* moves cur by at most one byte on return.                               *)
LEMMA DispatchType ==
  ASSUME NEW L \in Nat, NEW s \in States, NEW d \in Nat, NEW u \in Int,
         NEW v \in 0..L, NEW p \in 1..L, NEW b \in Bytes
  PROVE  Dispatch(s, d, u, v, p, b) \in OutType(L)
<1> USE DEF OutType, Out, Cont, Again, Ret, States,
            NONE, STRUCT, BARE, STR, UTF8, ESC
<1>1. DNone(d, u, v) \in OutType(L)
  BY DEF DNone
<1>2. DStruct(d, u, v, p, b) \in OutType(L)
  BY DEF DStruct
<1>3. DBare(d, u, v, p, b) \in OutType(L)
  BY DEF DBare
<1>4. DString(d, u, v, p, b) \in OutType(L)
  BY DEF DString
<1>5. DUtf8(d, u, v, b) \in OutType(L)
  BY DEF DUtf8
<1>6. DEsc(d, u, v, b) \in OutType(L)
  BY DEF DEsc
<1>7. QED
  BY <1>1, <1>2, <1>3, <1>4, <1>5, <1>6 DEF Dispatch

(* TypeOK is not inductive alone: a spa_json_enter_container call in      *)
(* progress must have the free slot its CallEnter checked, or the child   *)
(* it may create would lie outside the caller's array.                    *)
IInv ==
  /\ TypeOK
  /\ pc \in {"obj", "arr"} => top < MaxCursors

LEMMA InitIInv == Init => IInv
<1> SUFFICES ASSUME Init PROVE IInv
  OBVIOUS
<1>1. buf \in Seq(Bytes)
  BY InputsAssumption DEF Init
<1>2. Len(buf) \in Nat
  BY <1>1
<1>3. cur \in [Ids -> 1..End]
  BY <1>2 DEF Init, End
<1>4. st \in [Ids -> States] /\ depth \in [Ids -> Nat]
  BY DEF Init, States, NONE
<1>5. top \in Ids
  BY MaxCursorsAssumption DEF Init, Ids
<1>6. last \in [id : 0..MaxCursors, ret : Int, value : 0..Len(buf),
                enter : {"none", "ok", "fail"}]
  BY <1>2, MaxCursorsAssumption DEF Init
<1>7. QED
  BY <1>1, <1>2, <1>3, <1>4, <1>5, <1>6 DEF Init, IInv, TypeOK

(* The dispatch of the byte under the innermost cursor, while a call is  *)
(* in progress there and bytes remain, is well typed.                    *)
LEMMA HereType ==
  ASSUME TypeOK, pc # "idle", cur[top] < End
  PROVE  Here \in OutType(Len(buf))
<1>1. Len(buf) \in Nat
  BY DEF TypeOK
<1>2. cur[top] \in 1..Len(buf) /\ buf[cur[top]] \in Bytes
  <2>1. cur[top] \in 1..End
    BY DEF TypeOK, Ids
  <2>2. cur[top] \in 1..Len(buf)
    BY <1>1, <2>1 DEF End
  <2>3. buf \in Seq(Bytes)
    BY DEF TypeOK
  <2>4. QED
    BY <2>2, <2>3
<1>3. st[top] \in States /\ depth[top] \in Nat
  BY DEF TypeOK, Ids
<1>4. utf8 \in Int /\ value \in 0..Len(buf)
  BY DEF TypeOK
<1>5. QED
  BY <1>1, <1>2, <1>3, <1>4, DispatchType DEF Here

(* A returning call keeps the invariant, whatever spa_json_enter_container *)
(* decides, provided the cursors' new positions and cursor top's new      *)
(* state are well typed.                                                  *)
LEMMA FinishIInv ==
  ASSUME IInv, pc # "idle", buf' = buf, utf8' = utf8,
         NEW r \in Int, NEW v \in 0..Len(buf),
         NEW nc \in [Ids -> 1..End], NEW s \in States, NEW d \in Nat,
         Finish(r, v, nc, s, d)
  PROVE  IInv'
<1>1. PICK ok \in EnterOutcomes(r, v) :
        /\ top' = IF ok THEN top + 1 ELSE top
        /\ cur' = IF ok THEN [nc EXCEPT ![top + 1] = nc[top]] ELSE nc
        /\ st' = IF ok THEN [st EXCEPT ![top] = s, ![top + 1] = NONE]
                       ELSE [st EXCEPT ![top] = s]
        /\ depth' = IF ok THEN [depth EXCEPT ![top] = d, ![top + 1] = 0]
                          ELSE [depth EXCEPT ![top] = d]
        /\ pc' = "idle"
        /\ value' = v
        /\ last' = [id |-> top, ret |-> r, value |-> v,
                    enter |-> IF pc = "next" THEN "none"
                              ELSE IF ok THEN "ok" ELSE "fail"]
  BY DEF Finish
<1>2. ok => pc \in {"obj", "arr"}
  BY DEF EnterOutcomes, IInv, TypeOK
<1>3. ok \in BOOLEAN
  BY DEF EnterOutcomes
<1>4. Len(buf') = Len(buf) /\ End' = End /\ Len(buf) \in Nat
  BY DEF End, IInv, TypeOK
<1>5. top \in Ids /\ st \in [Ids -> States] /\ depth \in [Ids -> Nat]
  BY DEF IInv, TypeOK
<1>6. ok => top + 1 \in Ids
  BY <1>2, MaxCursorsAssumption DEF IInv, TypeOK, Ids
<1>7. top' \in Ids
  BY <1>1, <1>5, <1>6
<1>8. cur' \in [Ids -> 1..End']
  BY <1>1, <1>4, <1>5, <1>6
<1>9. st' \in [Ids -> States] /\ depth' \in [Ids -> Nat]
  BY <1>1, <1>5, <1>6 DEF States, NONE
<1>10. last' \in [id : 0..MaxCursors, ret : Int, value : 0..Len(buf'),
                  enter : {"none", "ok", "fail"}]
  BY <1>1, <1>4, <1>5 DEF Ids
<1>11. buf' \in Seq(Bytes) /\ utf8' \in Int /\ value' \in 0..Len(buf')
  BY <1>1, <1>4 DEF IInv, TypeOK
<1>12. QED
  BY <1>1, <1>7, <1>8, <1>9, <1>10, <1>11 DEF IInv, TypeOK

LEMMA NextIInv == IInv /\ [Next]_vars => IInv'
<1> SUFFICES ASSUME IInv, [Next]_vars PROVE IInv'
  OBVIOUS
<1> USE DEF IInv, TypeOK
<1>1. CASE CallNext
  BY <1>1 DEF CallNext, End
<1>2. ASSUME NEW kind \in {"obj", "arr"}, CallEnter(kind) PROVE IInv'
  BY <1>2 DEF CallEnter, End
<1>3. CASE ScanContinue
  <2>1. Here \in OutType(Len(buf))
    BY <1>3, HereType DEF ScanContinue
  <2>2. cur' \in [Ids -> 1..End']
    BY <1>3 DEF ScanContinue, End
  <2>3. QED
    BY <1>3, <2>1, <2>2 DEF ScanContinue, OutType, End
<1>4. CASE ScanAgain
  <2>1. Here \in OutType(Len(buf))
    BY <1>4, HereType DEF ScanAgain
  <2>2. QED
    BY <1>4, <2>1 DEF ScanAgain, OutType, End
<1>5. CASE ScanReturn
  <2>1. Here \in OutType(Len(buf))
    BY <1>5, HereType DEF ScanReturn
  <2> DEFINE p == cur[top] + Here.adv
             nc == IF Here.wb /\ top > 1
                     THEN [cur EXCEPT ![top] = p, ![top - 1] = p]
                     ELSE [cur EXCEPT ![top] = p]
  <2>2. p \in 1..End
    BY <1>5, <2>1 DEF ScanReturn, OutType, End
  <2>3. nc \in [Ids -> 1..End]
    BY <2>2 DEF Ids
  <2>4. Finish(Here.ret, Here.value, nc, Here.st, Here.depth) /\ buf' = buf /\ utf8' = utf8
    BY <1>5 DEF ScanReturn
  <2>5. QED
    BY <1>5, <2>1, <2>3, <2>4, FinishIInv DEF ScanReturn, OutType
<1>6. CASE EndOfInput
  <2>1. (IF depth[top] = 0 THEN 0 ELSE -1) \in Int /\ st[top] \in States /\ depth[top] \in Nat
    BY DEF Ids
  <2>2. QED
    BY <1>6, <2>1, FinishIInv DEF EndOfInput
<1>7. CASE Enter
  BY <1>7, MaxCursorsAssumption DEF Enter, Ids, End, States, NONE
<1>8. CASE Drop
  <2>1. top' \in Ids
    BY <1>8, MaxCursorsAssumption DEF Drop, Ids
  <2>2. End' = End
    BY <1>8 DEF Drop, End
  <2>3. QED
    BY <1>8, <2>1, <2>2 DEF Drop
<1>9. CASE UNCHANGED vars
  BY <1>9 DEF vars, End
<1>10. QED
  BY <1>1, <1>2, <1>3, <1>4, <1>5, <1>6, <1>7, <1>8, <1>9 DEF Next

(* Every reachable state is well typed: cursors stay inside the buffer   *)
(* (cur never passes the end pointer), depths stay natural numbers, and  *)
(* *value always points into the buffer.                                 *)
THEOREM TypeCorrect == Spec => []TypeOK
<1>1. Init => IInv
  BY InitIInv
<1>2. IInv /\ [Next]_vars => IInv'
  BY NextIInv
<1>3. IInv => TypeOK
  BY DEF IInv
<1>4. QED
  BY <1>1, <1>2, <1>3, PTL DEF Spec

-----------------------------------------------------------------------------
(* Cursors held by the caller are ordered along the stack at positions nc. *)
OrderedAt(nc) == \A i \in 2..top : nc[i - 1] <= nc[i]

(* A returning call keeps the cursors ordered when the positions it      *)
(* leaves them at are: a child spa_json_enter_container creates starts   *)
(* where its parent is.                                                  *)
LEMMA FinishOrdered ==
  ASSUME IInv, pc # "idle",
         NEW r \in Int, NEW v \in 0..Len(buf),
         NEW nc \in [Ids -> 1..End], NEW s \in States, NEW d \in Nat,
         OrderedAt(nc),
         Finish(r, v, nc, s, d)
  PROVE  NestedCursorsOrdered'
<1>1. PICK ok \in EnterOutcomes(r, v) :
        /\ top' = IF ok THEN top + 1 ELSE top
        /\ cur' = IF ok THEN [nc EXCEPT ![top + 1] = nc[top]] ELSE nc
  BY DEF Finish
<1>2. ok => top + 1 \in Ids
  <2>1. ok => pc \in {"obj", "arr"}
    BY DEF EnterOutcomes, IInv, TypeOK
  <2>2. QED
    BY <2>1, MaxCursorsAssumption DEF IInv, TypeOK, Ids
<1>3. top \in Ids
  BY DEF IInv, TypeOK
<1>4. CASE ok
  BY <1>1, <1>2, <1>3, <1>4, MaxCursorsAssumption DEF OrderedAt, NestedCursorsOrdered, Ids
<1>5. CASE ~ok
  BY <1>1, <1>5 DEF OrderedAt, NestedCursorsOrdered
<1>6. QED
  BY <1>4, <1>5

LEMMA NextOrdered ==
  IInv /\ NestedCursorsOrdered /\ [Next]_vars => NestedCursorsOrdered'
<1> SUFFICES ASSUME IInv, NestedCursorsOrdered, [Next]_vars
             PROVE  NestedCursorsOrdered'
  OBVIOUS
<1>0. top \in Ids /\ cur \in [Ids -> 1..End] /\ Len(buf) \in Nat
  BY DEF IInv, TypeOK
<1>1. CASE CallNext
  BY <1>1 DEF CallNext, NestedCursorsOrdered
<1>2. ASSUME NEW kind \in {"obj", "arr"}, CallEnter(kind)
      PROVE  NestedCursorsOrdered'
  BY <1>2 DEF CallEnter, NestedCursorsOrdered
<1>3. CASE ScanContinue
  BY <1>0, <1>3, MaxCursorsAssumption DEF ScanContinue, NestedCursorsOrdered, Ids, End
<1>4. CASE ScanAgain
  BY <1>4 DEF ScanAgain, NestedCursorsOrdered
<1>5. CASE ScanReturn
  <2>1. Here \in OutType(Len(buf))
    BY <1>5, HereType DEF ScanReturn, IInv
  <2> DEFINE p == cur[top] + Here.adv
             nc == IF Here.wb /\ top > 1
                     THEN [cur EXCEPT ![top] = p, ![top - 1] = p]
                     ELSE [cur EXCEPT ![top] = p]
  <2>2. p \in 1..End /\ cur[top] <= p
    BY <1>0, <1>5, <2>1 DEF ScanReturn, OutType, End, Ids
  <2>3. nc \in [Ids -> 1..End]
    BY <1>0, <2>2 DEF Ids
  <2>4. OrderedAt(nc)
    BY <1>0, <2>2, MaxCursorsAssumption DEF OrderedAt, NestedCursorsOrdered, Ids, End
  <2>5. Finish(Here.ret, Here.value, nc, Here.st, Here.depth)
    BY <1>5 DEF ScanReturn
  <2>6. QED
    BY <1>5, <2>1, <2>3, <2>4, <2>5, FinishOrdered DEF ScanReturn, OutType
<1>6. CASE EndOfInput
  <2>1. (IF depth[top] = 0 THEN 0 ELSE -1) \in Int /\ st[top] \in States
        /\ depth[top] \in Nat /\ value \in 0..Len(buf) /\ OrderedAt(cur)
    BY DEF IInv, TypeOK, Ids, OrderedAt, NestedCursorsOrdered
  <2>2. QED
    BY <1>0, <1>6, <2>1, FinishOrdered DEF EndOfInput
<1>7. CASE Enter
  BY <1>0, <1>7, MaxCursorsAssumption DEF Enter, NestedCursorsOrdered, Ids
<1>8. CASE Drop
  BY <1>0, <1>8 DEF Drop, NestedCursorsOrdered, Ids
<1>9. CASE UNCHANGED vars
  BY <1>9 DEF vars, NestedCursorsOrdered
<1>10. QED
  BY <1>1, <1>2, <1>3, <1>4, <1>5, <1>6, <1>7, <1>8, <1>9 DEF Next

(* A child cursor is never behind its parent, for every buffer and every *)
(* depth of the caller's cursor stack: spa_json_enter starts the child at *)
(* the parent's position and the write-back of json.h:88-89 only moves   *)
(* the parent forward onto its child's position.                         *)
THEOREM CursorsOrdered == Spec => []NestedCursorsOrdered
<1>1. Init => IInv /\ NestedCursorsOrdered
  BY InitIInv DEF Init, NestedCursorsOrdered
<1>2. IInv /\ NestedCursorsOrdered /\ [Next]_vars => IInv' /\ NestedCursorsOrdered'
  BY NextIInv, NextOrdered
<1>3. QED
  BY <1>1, <1>2, PTL DEF Spec

-----------------------------------------------------------------------------
(* A step of NoRewind: no held cursor moves backwards. *)
NoRewindStep == \A i \in 1..top : i <= top' => cur'[i] >= cur[i]

(* Finish moves no held cursor backwards when nc does not. *)
LEMMA FinishNoRewind ==
  ASSUME IInv, pc # "idle",
         NEW r \in Int, NEW v \in 0..Len(buf),
         NEW nc \in [Ids -> 1..End], NEW s \in States, NEW d \in Nat,
         \A i \in 1..top : nc[i] >= cur[i],
         Finish(r, v, nc, s, d)
  PROVE  NoRewindStep
<1>1. PICK ok \in EnterOutcomes(r, v) :
        /\ top' = IF ok THEN top + 1 ELSE top
        /\ cur' = IF ok THEN [nc EXCEPT ![top + 1] = nc[top]] ELSE nc
  BY DEF Finish
<1>2. top \in Ids /\ cur \in [Ids -> 1..End]
  BY DEF IInv, TypeOK
<1>3. QED
  BY <1>1, <1>2, MaxCursorsAssumption DEF NoRewindStep, Ids

LEMMA NextNoRewind ==
  IInv /\ NestedCursorsOrdered /\ [Next]_vars => [NoRewindStep]_vars
<1> SUFFICES ASSUME IInv, NestedCursorsOrdered, Next
             PROVE  NoRewindStep
  BY DEF vars
<1>0. top \in Ids /\ cur \in [Ids -> 1..End] /\ Len(buf) \in Nat
  BY DEF IInv, TypeOK
<1>1. CASE CallNext
  BY <1>0, <1>1, MaxCursorsAssumption DEF CallNext, NoRewindStep, Ids, End
<1>2. ASSUME NEW kind \in {"obj", "arr"}, CallEnter(kind) PROVE NoRewindStep
  BY <1>0, <1>2, MaxCursorsAssumption DEF CallEnter, NoRewindStep, Ids, End
<1>3. CASE ScanContinue
  BY <1>0, <1>3, MaxCursorsAssumption DEF ScanContinue, NoRewindStep, Ids, End
<1>4. CASE ScanAgain
  BY <1>0, <1>4, MaxCursorsAssumption DEF ScanAgain, NoRewindStep, Ids, End
<1>5. CASE ScanReturn
  <2>1. Here \in OutType(Len(buf))
    BY <1>5, HereType DEF ScanReturn, IInv
  <2> DEFINE p == cur[top] + Here.adv
             nc == IF Here.wb /\ top > 1
                     THEN [cur EXCEPT ![top] = p, ![top - 1] = p]
                     ELSE [cur EXCEPT ![top] = p]
  <2>2. p \in 1..End /\ cur[top] <= p
    BY <1>0, <1>5, <2>1 DEF ScanReturn, OutType, End, Ids
  <2>3. nc \in [Ids -> 1..End]
    BY <1>0, <2>2 DEF Ids
  <2>4. \A i \in 1..top : nc[i] >= cur[i]
    (* the parent's new position is its child's, which is not behind it *)
    BY <1>0, <2>2, MaxCursorsAssumption DEF NestedCursorsOrdered, Ids, End
  <2>5. Finish(Here.ret, Here.value, nc, Here.st, Here.depth)
    BY <1>5 DEF ScanReturn
  <2>6. QED
    BY <1>5, <2>1, <2>3, <2>4, <2>5, FinishNoRewind DEF ScanReturn, OutType
<1>6. CASE EndOfInput
  <2>1. (IF depth[top] = 0 THEN 0 ELSE -1) \in Int /\ st[top] \in States
        /\ depth[top] \in Nat /\ value \in 0..Len(buf)
    BY DEF IInv, TypeOK, Ids
  <2>2. \A i \in 1..top : cur[i] >= cur[i]
    BY <1>0, MaxCursorsAssumption DEF Ids, End
  <2>3. QED
    BY <1>0, <1>6, <2>1, <2>2, FinishNoRewind DEF EndOfInput
<1>7. CASE Enter
  BY <1>0, <1>7, MaxCursorsAssumption DEF Enter, NoRewindStep, Ids
<1>8. CASE Drop
  BY <1>0, <1>8, MaxCursorsAssumption DEF Drop, NoRewindStep, Ids, End
<1>9. QED
  BY <1>1, <1>2, <1>3, <1>4, <1>5, <1>6, <1>7, <1>8 DEF Next

(* No step of spa_json_next, of spa_json_enter or of the write-back of a *)
(* finished child into its parent (json.h:88-89) moves a cursor the      *)
(* caller still holds backwards.                                         *)
THEOREM NeverRewinds == Spec => NoRewind
<1>1. Init => IInv /\ NestedCursorsOrdered
  BY InitIInv DEF Init, NestedCursorsOrdered
<1>2. IInv /\ NestedCursorsOrdered /\ [Next]_vars => IInv' /\ NestedCursorsOrdered'
  BY NextIInv, NextOrdered
<1>3. IInv /\ NestedCursorsOrdered /\ [Next]_vars => [NoRewindStep]_vars
  BY NextNoRewind
<1>4. QED
  BY <1>1, <1>2, <1>3, PTL DEF Spec, NoRewind, NoRewindStep

=============================================================================
