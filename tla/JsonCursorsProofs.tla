--------------------------- MODULE JsonCursorsProofs ---------------------------
(***************************************************************************)
(* The cursors of json.h implement the abstract cursor stack JsonCursors, *)
(* for every buffer and every size of the caller's cursor array: under    *)
(* the mapping Cursors (size is Len(buf), the stack is the positions of   *)
(* the held cursors 1..top), every step of JsonScan is a Scan, a          *)
(* ScanEnter or a Drop of the abstract stack, or leaves it as it was.     *)
(***************************************************************************)
EXTENDS JsonScanProofs, SequenceTheorems

(* A function on 1..t is a sequence of length t. *)
LEMMA FunIsSeq ==
  ASSUME NEW t \in Nat, NEW S, NEW f \in [1..t -> S]
  PROVE  f \in Seq(S) /\ Len(f) = t
<1>1. f \in Seq(S)
  BY SeqDef
<1>2. DOMAIN f = 1..Len(f) /\ Len(f) \in Nat
  BY <1>1, LenProperties
<1>3. QED
  BY <1>1, <1>2

(* In a well-typed state the abstract stack is a sequence of top          *)
(* positions, cursor i at position cur[i].                               *)
LEMMA StackType ==
  ASSUME TypeOK
  PROVE  /\ CursorStack \in Seq(1..End)
         /\ Len(CursorStack) = top
         /\ DOMAIN CursorStack = 1..top
         /\ \A i \in 1..top : CursorStack[i] = cur[i]
<1>1. top \in Nat /\ 1..top \subseteq Ids
  BY MaxCursorsAssumption DEF TypeOK, Ids
<1>2. [i \in 1..top |-> cur[i]] \in [1..top -> 1..End]
  BY <1>1 DEF TypeOK
<1>3. QED
  BY <1>1, <1>2, FunIsSeq DEF CursorStack

(* The stack the abstract Scan moves to, Moved(q, back), is a sequence of *)
(* top positions.                                                          *)
LEMMA MovedType ==
  ASSUME TypeOK, NEW q \in 1..End, NEW back \in BOOLEAN
  PROVE  Cursors!Moved(q, back) \in Seq(1..End) /\ Len(Cursors!Moved(q, back)) = top
<1>1. top \in Nat /\ DOMAIN CursorStack = 1..top /\ CursorStack \in Seq(1..End)
      /\ Len(CursorStack) = top
  BY StackType, MaxCursorsAssumption DEF TypeOK, Ids
<1>2. \A i \in 1..top : CursorStack[i] \in 1..End
  <2>1. \A i \in 1..top : CursorStack[i] = cur[i]
    BY StackType
  <2>2. QED
    BY <2>1, MaxCursorsAssumption DEF TypeOK, Ids
<1>3. Cursors!Moved(q, back) \in [1..top -> 1..End]
  BY <1>1, <1>2 DEF Cursors!Moved
<1>4. QED
  BY <1>1, <1>3, FunIsSeq

-----------------------------------------------------------------------------
(* A step that keeps the buffer and the held cursors, and moves the       *)
(* innermost one forward to q (and its parent there too when back), is    *)
(* the abstract Scan.                                                      *)
LEMMA ScanStep ==
  ASSUME TypeOK, buf' = buf, top' = top,
         NEW q \in cur[top]..End, NEW back \in BOOLEAN, back => top > 1,
         \A i \in 1..top : cur'[i] = IF i = top \/ (back /\ i = top - 1)
                                     THEN q ELSE cur[i]
  PROVE  Cursors!Scan
<1>1. top \in Ids /\ cur[top] \in 1..End /\ Len(buf) \in Nat
  BY DEF TypeOK, Ids
<1>2. q \in 1..Len(buf) + 1
  BY <1>1 DEF End
<1>3. Len(CursorStack) = top /\ DOMAIN CursorStack = 1..top
      /\ \A i \in 1..top : CursorStack[i] = cur[i]
  BY StackType
<1>4. CursorStack' = [i \in 1..top |-> cur'[i]]
  BY DEF CursorStack
<1>5. Cursors!CanMove(q, back)
  BY <1>1, <1>3, MaxCursorsAssumption DEF Cursors!CanMove, End, Ids
<1>6. CursorStack' = Cursors!Moved(q, back)
  <2>1. Cursors!Moved(q, back)
          = [i \in 1..top |-> IF i = top \/ (back /\ i = top - 1) THEN q ELSE cur[i]]
    BY <1>3 DEF Cursors!Moved
  <2>2. QED
    BY <1>4, <2>1
<1>7. Len(buf') = Len(buf)
  OBVIOUS
<1>8. QED
  BY <1>2, <1>5, <1>6, <1>7 DEF Cursors!Scan

(* A step that also holds one more cursor, at the innermost one's new     *)
(* position, is the abstract ScanEnter.                                    *)
LEMMA EnterStep ==
  ASSUME TypeOK, buf' = buf, top < MaxCursors, top' = top + 1,
         NEW q \in cur[top]..End, NEW back \in BOOLEAN, back => top > 1,
         \A i \in 1..top : cur'[i] = IF i = top \/ (back /\ i = top - 1)
                                     THEN q ELSE cur[i],
         cur'[top + 1] = q
  PROVE  Cursors!ScanEnter
<1>1. top \in Ids /\ cur[top] \in 1..End /\ Len(buf) \in Nat
  BY DEF TypeOK, Ids
<1>2. q \in 1..Len(buf) + 1 /\ q \in 1..End
  BY <1>1 DEF End
<1>3. Len(CursorStack) = top /\ DOMAIN CursorStack = 1..top
      /\ \A i \in 1..top : CursorStack[i] = cur[i]
  BY StackType
<1>4. CursorStack' = [i \in 1..top + 1 |-> cur'[i]]
  BY DEF CursorStack
<1>5. Cursors!CanMove(q, back)
  BY <1>1, <1>3, MaxCursorsAssumption DEF Cursors!CanMove, End, Ids
<1>6. Cursors!Moved(q, back) \in Seq(1..End) /\ Len(Cursors!Moved(q, back)) = top
  BY <1>2, MovedType
<1>7. \A i \in 1..top : Cursors!Moved(q, back)[i] = cur'[i]
  BY <1>3 DEF Cursors!Moved
<1>8. CursorStack' = Append(Cursors!Moved(q, back), q)
  <2> DEFINE M == Cursors!Moved(q, back)
  <2>1. /\ Append(M, q) \in Seq(1..End)
        /\ Len(Append(M, q)) = top + 1
        /\ \A i \in 1..top : Append(M, q)[i] = M[i]
        /\ Append(M, q)[top + 1] = q
    BY <1>2, <1>6, AppendProperties
  <2>2. Append(M, q) \in [1..top + 1 -> 1..End]
    BY <2>1, LenProperties
  <2>3. \A i \in 1..top + 1 : Append(M, q)[i] = cur'[i]
    BY <1>1, <1>7, <2>1 DEF Ids
  <2>4. QED
    BY <1>4, <2>1, <2>2, <2>3
<1>9. Len(CursorStack) < MaxCursors /\ Len(buf') = Len(buf)
  BY <1>3
<1>10. QED
  BY <1>2, <1>5, <1>8, <1>9 DEF Cursors!ScanEnter

(* A returning call whose cursor positions nc move the innermost cursor  *)
(* forward to q (and its parent there when back) is an abstract Scan, or *)
(* a ScanEnter when spa_json_enter_container enters the container.       *)
LEMMA FinishRefines ==
  ASSUME IInv, pc # "idle", buf' = buf,
         NEW r \in Int, NEW v \in 0..Len(buf),
         NEW nc \in [Ids -> 1..End], NEW s \in States, NEW d \in Nat,
         NEW q \in cur[top]..End, NEW back \in BOOLEAN, back => top > 1,
         \A i \in 1..top : nc[i] = IF i = top \/ (back /\ i = top - 1)
                                   THEN q ELSE cur[i],
         Finish(r, v, nc, s, d)
  PROVE  Cursors!Scan \/ Cursors!ScanEnter
<1>1. PICK ok \in EnterOutcomes(r, v) :
        /\ top' = IF ok THEN top + 1 ELSE top
        /\ cur' = IF ok THEN [nc EXCEPT ![top + 1] = nc[top]] ELSE nc
  BY DEF Finish
<1>2. top \in Ids /\ TypeOK
  BY DEF IInv, TypeOK
<1>3. CASE ok
  <2>1. pc \in {"obj", "arr"}
    BY <1>3 DEF EnterOutcomes, IInv, TypeOK
  <2>2. top < MaxCursors /\ top + 1 \in Ids
    BY <1>2, <2>1, MaxCursorsAssumption DEF IInv, Ids
  <2>3. \A i \in 1..top : cur'[i] = nc[i]
    BY <1>1, <1>2, <1>3, <2>2 DEF Ids
  <2>4. cur'[top + 1] = q
    BY <1>1, <1>3, <1>2, <2>2 DEF Ids
  <2>5. QED
    BY <1>1, <1>2, <1>3, <2>2, <2>3, <2>4, EnterStep
<1>4. CASE ~ok
  BY <1>1, <1>2, <1>4, ScanStep
<1>5. QED
  BY <1>3, <1>4

(* The steps that leave the buffer, top and the held positions alone are *)
(* stutters of the abstract stack.                                       *)
LEMMA StackStutter ==
  ASSUME UNCHANGED <<buf, cur, top>>
  PROVE  UNCHANGED Cursors!cvars
BY DEF Cursors!cvars, CursorStack

-----------------------------------------------------------------------------
(* The cursors of json.h keep the promises of JsonCursors for every      *)
(* buffer and every size of the caller's cursor array: spa_json_next      *)
(* only moves the innermost cursor forward, and at the end of a container *)
(* writes into the parent exactly the child's position (json.h:88-89);    *)
(* spa_json_enter and spa_json_enter_container start the child at the     *)
(* position of the cursor that returned the container (json.h:51-54,      *)
(* 163-164); dropping a child leaves the others where they are.           *)
THEOREM ImplementsCursors == Spec => CursorsRefined
<1>1. Init => Cursors!Init
  <2> SUFFICES ASSUME Init PROVE Cursors!Init
    OBVIOUS
  <2>1. Len(buf) \in Nat
    BY InputsAssumption DEF Init
  <2>2. CursorStack = <<1>>
    BY MaxCursorsAssumption DEF Init, CursorStack, Ids
  <2>3. QED
    BY <2>1, <2>2 DEF Cursors!Init
<1>2. IInv /\ NestedCursorsOrdered /\ [Next]_vars => [Cursors!Next]_Cursors!cvars
  <2> SUFFICES ASSUME IInv, NestedCursorsOrdered, [Next]_vars
               PROVE  [Cursors!Next]_Cursors!cvars
    OBVIOUS
  <2>0. TypeOK /\ top \in Ids /\ cur \in [Ids -> 1..End] /\ Len(buf) \in Nat
    BY DEF IInv, TypeOK
  <2>1. CASE CallNext \/ ScanAgain \/ UNCHANGED vars
    BY <2>1, StackStutter DEF CallNext, ScanAgain, vars
  <2>2. ASSUME NEW kind \in {"obj", "arr"}, CallEnter(kind)
        PROVE  [Cursors!Next]_Cursors!cvars
    BY <2>2, StackStutter DEF CallEnter
  <2>3. CASE ScanContinue
    <3>1. cur[top] + 1 \in cur[top]..End
      BY <2>0, <2>3 DEF ScanContinue, Ids, End
    <3>2. \A i \in 1..top : cur'[i] = IF i = top \/ (FALSE /\ i = top - 1)
                                      THEN cur[top] + 1 ELSE cur[i]
      BY <2>0, <2>3, MaxCursorsAssumption DEF ScanContinue, Ids
    <3>3. Cursors!Scan
      BY <2>0, <2>3, <3>1, <3>2, ScanStep DEF ScanContinue
    <3>4. QED
      BY <3>3 DEF Cursors!Next
  <2>4. CASE ScanReturn
    <3>1. Here \in OutType(Len(buf))
      BY <2>3, <2>4, HereType DEF ScanReturn, IInv
    <3> DEFINE p == cur[top] + Here.adv
               back == Here.wb /\ top > 1
               nc == IF Here.wb /\ top > 1
                       THEN [cur EXCEPT ![top] = p, ![top - 1] = p]
                       ELSE [cur EXCEPT ![top] = p]
    <3>2. p \in cur[top]..End
      BY <2>0, <2>4, <3>1 DEF ScanReturn, OutType, End, Ids
    <3>3. nc \in [Ids -> 1..End]
      <4>1. p \in 1..End
        BY <2>0, <3>2 DEF Ids, End
      <4>2. QED
        BY <2>0, <4>1 DEF Ids
    <3>4. back \in BOOLEAN /\ (back => top > 1)
      BY <3>1 DEF OutType
    <3>5. \A i \in 1..top : nc[i] = IF i = top \/ (back /\ i = top - 1)
                                    THEN p ELSE cur[i]
      BY <2>0, MaxCursorsAssumption DEF Ids
    <3>6. Finish(Here.ret, Here.value, nc, Here.st, Here.depth) /\ buf' = buf
      BY <2>4 DEF ScanReturn
    <3>7. /\ Here.ret \in Int /\ Here.value \in 0..Len(buf)
          /\ Here.st \in States /\ Here.depth \in Nat
      BY <3>1 DEF OutType
    <3>8. pc # "idle"
      BY <2>4 DEF ScanReturn
    <3> HIDE DEF p, back, nc
    <3>9. Cursors!Scan \/ Cursors!ScanEnter
      BY <3>2, <3>3, <3>4, <3>5, <3>6, <3>7, <3>8, FinishRefines
    <3>10. QED
      BY <3>9 DEF Cursors!Next
  <2>5. CASE EndOfInput
    <3>1. (IF depth[top] = 0 THEN 0 ELSE -1) \in Int /\ st[top] \in States
          /\ depth[top] \in Nat /\ value \in 0..Len(buf)
      BY DEF IInv, TypeOK, Ids
    <3>2. cur[top] \in cur[top]..End
      BY <2>0 DEF Ids
    <3>3. \A i \in 1..top : cur[i] = IF i = top \/ (FALSE /\ i = top - 1)
                                     THEN cur[top] ELSE cur[i]
      OBVIOUS
    <3>4. Cursors!Scan \/ Cursors!ScanEnter
      BY <2>0, <2>5, <3>1, <3>2, <3>3, FinishRefines DEF EndOfInput
    <3>5. QED
      BY <3>4 DEF Cursors!Next
  <2>6. CASE Enter
    <3>1. cur[top] \in cur[top]..End
      BY <2>0 DEF Ids
    <3>2. /\ \A i \in 1..top : cur'[i] = IF i = top \/ (FALSE /\ i = top - 1)
                                        THEN cur[top] ELSE cur[i]
          /\ cur'[top + 1] = cur[top]
      BY <2>0, <2>6, MaxCursorsAssumption DEF Enter, Ids
    <3>3. Cursors!ScanEnter
      BY <2>0, <2>6, <3>1, <3>2, EnterStep DEF Enter
    <3>4. QED
      BY <3>3 DEF Cursors!Next
  <2>7. CASE Drop
    <3>1. Len(CursorStack) = top /\ DOMAIN CursorStack = 1..top
          /\ \A i \in 1..top : CursorStack[i] = cur[i]
      BY <2>0, StackType
    <3>2. CursorStack' = [i \in 1..top - 1 |-> cur[i]]
      BY <2>7 DEF Drop, CursorStack
    <3>3. SubSeq(CursorStack, 1, top - 1) = [i \in 1..top - 1 |-> cur[i]]
      BY <2>0, <3>1, MaxCursorsAssumption DEF Ids
    <3>4. Cursors!Drop
      BY <2>7, <3>1, <3>2, <3>3 DEF Drop, Cursors!Drop
    <3>5. QED
      BY <3>4 DEF Cursors!Next
  <2>8. QED
    BY <2>1, <2>2, <2>3, <2>4, <2>5, <2>6, <2>7 DEF Next
<1>3. IInv /\ NestedCursorsOrdered /\ [Next]_vars => IInv' /\ NestedCursorsOrdered'
  BY NextIInv, NextOrdered
<1>4. Init => IInv /\ NestedCursorsOrdered
  BY InitIInv DEF Init, NestedCursorsOrdered
<1>5. QED
  BY <1>1, <1>2, <1>3, <1>4, PTL DEF Spec, CursorsRefined, Cursors!Spec

=============================================================================
