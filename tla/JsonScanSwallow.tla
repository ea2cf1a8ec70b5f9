--------------------------- MODULE JsonScanSwallow ---------------------------
(***************************************************************************)
(* Entering a container and draining (or dropping) the child leaves the   *)
(* parent's token stream as it would be had the parent swallowed the      *)
(* container itself.  Each held cursor gets a shadow: a cursor over the   *)
(* same buffer, started where the cursor was, on which the caller never   *)
(* enters anything.  Each call on a cursor is matched by one whole call   *)
(* of spa_json_next on its shadow, computed by SwallowCall, and the two   *)
(* must return the same value and, for a token, the same span start.      *)
(***************************************************************************)
EXTENDS JsonScan

VARIABLES
  sh,     \* sh[i]: the shadow of cursor i, a record [cur, st, depth]
  shout   \* the shadow's outcome of the last call: [ret, value]

svars == <<vars, sh, shout>>

Fresh(p) == [cur |-> p, st |-> NONE, depth |-> 0]

(* Iterations of the byte loop that bound a whole call: each byte is     *)
(* dispatched at most twice (goto again from NONE or BARE) and once more. *)
Fuel == 3 * End

(* One iteration of the byte loop of json.h:64-157 on a cursor x with no *)
(* parent and no child, x also carrying the call's locals.              *)
LoopStep(x) ==
  IF x.cur = End
    THEN [x EXCEPT !.done = TRUE, !.ret = IF x.depth = 0 THEN 0 ELSE -1]
    ELSE LET o == Dispatch(x.st, x.depth, x.utf8, x.value, x.cur, buf[x.cur])
         IN [cur |-> x.cur + (CASE o.move = "cont" -> 1
                                [] o.move = "again" -> 0
                                [] o.move = "ret" -> o.adv),
             st |-> o.st, depth |-> o.depth, utf8 |-> o.utf8,
             value |-> o.value, done |-> o.move = "ret", ret |-> o.ret]

RECURSIVE Loop(_, _)
Loop(x, k) == IF x.done \/ k = 0 THEN x ELSE Loop(LoopStep(x), k - 1)

(* A whole call of spa_json_next on such a cursor c. *)
SwallowCall(c) ==
  Loop([cur |-> c.cur, st |-> c.st, depth |-> c.depth, utf8 |-> 0,
        value |-> 0, done |-> FALSE, ret |-> 0], Fuel)

ShInit ==
  /\ sh = [i \in Ids |-> Fresh(1)]
  /\ shout = [ret |-> 0, value |-> 0]

(* The shadows follow the caller: a returning call on cursor top runs one *)
(* whole call on its shadow; a new child gets a fresh shadow.             *)
ShNext ==
  LET r == SwallowCall(sh[top])
      returns == pc # "idle" /\ pc' = "idle"
      moved == IF returns
                 THEN [sh EXCEPT ![top] = [cur |-> r.cur, st |-> r.st, depth |-> r.depth]]
                 ELSE sh
  IN /\ sh' = IF top' = top + 1 THEN [moved EXCEPT ![top + 1] = Fresh(cur'[top + 1])]
                                ELSE moved
     /\ shout' = IF returns THEN [ret |-> r.ret, value |-> r.value] ELSE shout

SwallowSpec == Init /\ ShInit /\ [][Next /\ ShNext]_svars

(* spec.md 8: entering a container and draining the child, then resuming  *)
(* the parent, yields the same tokens as letting the parent swallow it:   *)
(* every call returns what the never-entering shadow returns, at the same *)
(* span start when it returns a token.                                    *)
EnterMatchesSwallow ==
  (pc = "idle" /\ last.id # 0) =>
    /\ last.ret = shout.ret
    /\ last.ret > 0 => last.value = shout.value

=============================================================================
