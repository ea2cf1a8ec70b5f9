----------------------------- MODULE JsonCursors -----------------------------
(***************************************************************************)
(* What the cursors of json.h promise a caller, with the bytes and the    *)
(* tokens left out.  A caller holds a stack of cursors over one buffer of *)
(* size bytes, the root at the bottom; a cursor is a position in          *)
(* 1..size + 1, size + 1 being the end of the buffer.  Only the innermost *)
(* cursor scans, and only forward.  When it finishes its container it     *)
(* hands its position to its parent, which resumes right there.  A child  *)
(* is entered at the position of the cursor that returned the container,  *)
(* and the innermost child can be dropped, never the root.                *)
(***************************************************************************)
EXTENDS Integers, Sequences

CONSTANT MaxCursors   \* how many cursors the caller's array holds

VARIABLES
  size,  \* the length of the buffer
  pos    \* pos[i]: the position of the i-th cursor, the root first

cvars == <<size, pos>>

Init == size \in Nat /\ pos = <<1>>

(* The stack after the innermost cursor scanned forward to q and, when   *)
(* back, ended its container there and handed q to its parent, which     *)
(* resumes at q.                                                          *)
Moved(q, back) ==
  [i \in DOMAIN pos |->
     IF i = Len(pos) \/ (back /\ i = Len(pos) - 1) THEN q ELSE pos[i]]

(* Only forward, within the buffer or to its end, and only a child hands *)
(* its position back.                                                     *)
CanMove(q, back) == q \in pos[Len(pos)]..size + 1 /\ (back => Len(pos) > 1)

(* The innermost cursor scans forward. *)
Scan ==
  /\ \E q \in 1..size + 1, back \in BOOLEAN :
       CanMove(q, back) /\ pos' = Moved(q, back)
  /\ UNCHANGED size

(* The innermost cursor scans forward, and a child is entered where it  *)
(* stopped.                                                              *)
ScanEnter ==
  /\ Len(pos) < MaxCursors
  /\ \E q \in 1..size + 1, back \in BOOLEAN :
       CanMove(q, back) /\ pos' = Append(Moved(q, back), q)
  /\ UNCHANGED size

(* The caller drops its innermost child cursor. *)
Drop ==
  /\ Len(pos) > 1
  /\ pos' = SubSeq(pos, 1, Len(pos) - 1)
  /\ UNCHANGED size

Next == Scan \/ ScanEnter \/ Drop

Spec == Init /\ [][Next]_cvars

=============================================================================
