---------------------------- MODULE EndpointProofs ----------------------------
(***************************************************************************)
(* Proofs about the destroy chain of endpoint.c, for every value of the   *)
(* constants: each object is destroyed once and impl freed once (the      *)
(* invariant DestroyedOnce), and the model implements the abstract        *)
(* lifecycle EndpointLifecycle under the mapping Life (the safety part of *)
(* LifecycleRefined; its fairness part stays with TLC).                   *)
(***************************************************************************)
EXTENDS Endpoint, TLAPS

(* The states the destroy chain can be in.  Before it: both objects, no    *)
(* frame.  Started by the resource: impl_resource_destroy ran its body;   *)
(* it destroys the global, whose callback frees impl, and returns.        *)
(* Started by the global: global_destroy ran its body; it destroys the    *)
(* resource, whose callback returns, and frees impl.  After it: nothing.  *)
ChainState ==
  \/ calls = <<>> /\ global /\ resource
     /\ gdestroyed = 0 /\ rdestroyed = 0 /\ freed = 0
  \/ calls = <<"res">> /\ global /\ ~resource
     /\ gdestroyed = 0 /\ rdestroyed = 1 /\ freed = 0
  \/ calls = <<"glob", "resRet">> /\ ~global /\ ~resource
     /\ gdestroyed = 1 /\ rdestroyed = 1 /\ freed = 0
  \/ calls = <<"resRet">> /\ ~global /\ ~resource
     /\ gdestroyed = 1 /\ rdestroyed = 1 /\ freed = 1
  \/ calls = <<"glob">> /\ ~global /\ resource
     /\ gdestroyed = 1 /\ rdestroyed = 0 /\ freed = 0
  \/ calls = <<"res", "globRet">> /\ ~global /\ ~resource
     /\ gdestroyed = 1 /\ rdestroyed = 1 /\ freed = 0
  \/ calls = <<"globRet">> /\ ~global /\ ~resource
     /\ gdestroyed = 1 /\ rdestroyed = 1 /\ freed = 0
  \/ calls = <<>> /\ ~global /\ ~resource
     /\ gdestroyed = 1 /\ rdestroyed = 1 /\ freed = 1

(* The inductive invariant: the chain's state, and a Boolean registered. *)
LifeInv == ChainState /\ registered \in BOOLEAN

-----------------------------------------------------------------------------
(* The handlers of the client's events run only before the chain starts. *)
LEMMA ListeningBeforeChain ==
  ASSUME ChainState, Listening
  PROVE  calls = <<>> /\ global /\ resource /\ freed = 0
BY DEF ChainState, Listening

(* The steps that leave the chain and registered alone keep LifeInv. *)
LEMMA QuietStep ==
  ASSUME LifeInv, UNCHANGED <<lifeVars, registered>>
  PROVE  LifeInv'
BY DEF LifeInv, ChainState, lifeVars

THEOREM LifeInvariant == Spec => []LifeInv
<1>1. Init => LifeInv
  BY DEF Init, LifeInv, ChainState
<1>2. LifeInv /\ [Next]_vars => LifeInv'
  <2> SUFFICES ASSUME LifeInv, [Next]_vars PROVE LifeInv'
    OBVIOUS
  <2>1. CASE ClientInfo
    BY <2>1, QuietStep DEF ClientInfo, implVars
  <2>2. CASE ClientChange
    BY <2>2, QuietStep DEF ClientChange, implVars
  <2>3. CASE ClientServe
    BY <2>3, QuietStep DEF ClientServe, implVars
  <2>4. CASE EventInfo
    <3>1. UNCHANGED lifeVars /\ registered' \in BOOLEAN
      BY <2>4, LifeInv DEF EventInfo, LifeInv
    <3>2. QED
      BY <3>1 DEF LifeInv, ChainState, lifeVars
  <2>5. CASE EventParam
    BY <2>5, QuietStep DEF EventParam, lifeVars
  <2>6. CASE ResourcePong
    <3>1. UNCHANGED lifeVars /\ registered' \in BOOLEAN
      BY <2>6 DEF ResourcePong, LifeInv
    <3>2. QED
      BY <3>1 DEF LifeInv, ChainState, lifeVars
  <2>7. CASE DestroyResource
    BY <2>7, ListeningBeforeChain DEF DestroyResource, EnterResourceDestroy, LifeInv, ChainState
  <2>8. CASE DestroyGlobal
    BY <2>8 DEF DestroyGlobal, EnterGlobalDestroy, LifeInv, ChainState, implVars
  <2>9. CASE ResourceDestroyTail
    <3>1. \/ calls = <<"res">> /\ global /\ ~resource
             /\ gdestroyed = 0 /\ rdestroyed = 1 /\ freed = 0
          \/ calls = <<"res", "globRet">> /\ ~global /\ ~resource
             /\ gdestroyed = 1 /\ rdestroyed = 1 /\ freed = 0
      BY <2>9 DEF ResourceDestroyTail, LifeInv, ChainState
    <3>2. CASE calls = <<"res">> /\ global
      <4>1. calls' = <<"glob", "resRet">> /\ ~global' /\ gdestroyed' = gdestroyed + 1
            /\ UNCHANGED <<registered, resource, rdestroyed, freed>>
        BY <2>9, <3>2 DEF ResourceDestroyTail, EnterGlobalDestroy, implVars
      <4>2. QED
        BY <3>1, <3>2, <4>1 DEF LifeInv, ChainState
    <3>3. CASE calls = <<"res", "globRet">> /\ ~global
      <4>1. calls' = <<"globRet">>
            /\ UNCHANGED <<registered, global, resource, gdestroyed, rdestroyed, freed>>
        BY <2>9, <3>3 DEF ResourceDestroyTail, implVars
      <4>2. QED
        BY <3>1, <3>3, <4>1 DEF LifeInv, ChainState
    <3>4. QED
      BY <3>1, <3>2, <3>3
  <2>10. CASE GlobalDestroyTail
    <3>1. \/ calls = <<"glob">> /\ ~global /\ resource
             /\ gdestroyed = 1 /\ rdestroyed = 0 /\ freed = 0
          \/ calls = <<"glob", "resRet">> /\ ~global /\ ~resource
             /\ gdestroyed = 1 /\ rdestroyed = 1 /\ freed = 0
      BY <2>10 DEF GlobalDestroyTail, LifeInv, ChainState
    <3>2. CASE calls = <<"glob">> /\ resource
      <4>1. calls' = <<"res", "globRet">> /\ ~resource' /\ rdestroyed' = rdestroyed + 1
            /\ UNCHANGED <<registered, global, gdestroyed, freed>>
        BY <2>10, <3>2 DEF GlobalDestroyTail, EnterResourceDestroy
      <4>2. QED
        BY <3>1, <3>2, <4>1 DEF LifeInv, ChainState
    <3>3. CASE calls = <<"glob", "resRet">> /\ ~resource
      <4>1. calls' = <<"resRet">> /\ freed' = freed + 1
            /\ UNCHANGED <<registered, global, resource, gdestroyed, rdestroyed>>
        BY <2>10, <3>3 DEF GlobalDestroyTail, implVars
      <4>2. QED
        BY <3>1, <3>3, <4>1 DEF LifeInv, ChainState
    <3>4. QED
      BY <3>1, <3>2, <3>3
  <2>11. CASE DestroyReturn
    BY <2>11 DEF DestroyReturn, LifeInv, ChainState, implVars
  <2>12. CASE UNCHANGED vars
    BY <2>12, QuietStep DEF vars, lifeVars
  <2>13. CASE EventInfoCrash
    BY <2>13, QuietStep DEF EventInfoCrash
  <2>14. QED
    BY <2>1, <2>2, <2>3, <2>4, <2>5, <2>6, <2>7, <2>8, <2>9, <2>10,
       <2>11, <2>12, <2>13 DEF Next
<1>3. QED
  BY <1>1, <1>2, PTL DEF Spec

(* Whichever object goes first, the destroy callbacks of endpoint.c       *)
(* destroy each object once and free impl once, with nothing but a        *)
(* returning impl_resource_destroy left on the stack, and a finished      *)
(* chain leaves both objects gone and impl freed.                         *)
THEOREM DestroyedOnceHolds == Spec => []DestroyedOnce
<1>1. LifeInv => DestroyedOnce
  BY DEF LifeInv, ChainState, DestroyedOnce
<1>2. QED
  BY <1>1, LifeInvariant, PTL

-----------------------------------------------------------------------------
(* A step that leaves the objects, freed and registered alone is a        *)
(* stutter of the lifecycle.                                              *)
LEMMA LifeStutter ==
  ASSUME UNCHANGED <<global, resource, freed, registered>>
  PROVE  UNCHANGED Life!lvars
BY DEF Life!lvars, LifeObjects, LifePhase

(* A step that takes object o away and leaves freed and registered alone, *)
(* impl not yet freed, is the lifecycle's Destroy(o).                     *)
LEMMA LifeDestroy ==
  ASSUME NEW o \in {"global", "resource"}, freed = 0,
         o = "global" => global /\ ~global' /\ resource' = resource,
         o = "resource" => resource /\ ~resource' /\ global' = global,
         UNCHANGED <<freed, registered>>
  PROVE  Life!Destroy(o)
BY DEF Life!Destroy, LifeObjects, LifePhase

(* The step that frees impl with both objects gone is the lifecycle's     *)
(* Free.                                                                  *)
LEMMA LifeFree ==
  ASSUME freed = 0, freed' = 1, ~global, ~resource,
         UNCHANGED <<global, resource, registered>>
  PROVE  Life!Free
BY DEF Life!Free, LifeObjects, LifePhase

(* The step that registers the global, both objects there and impl not   *)
(* freed, is the lifecycle's Register.                                    *)
LEMMA LifeRegister ==
  ASSUME freed = 0, global, resource, registered = FALSE, registered' = TRUE,
         UNCHANGED <<global, resource, freed>>
  PROVE  Life!Register
BY DEF Life!Register, Life!Objects, LifeObjects, LifePhase

(* endpoint.c implements the safety part of the lifecycle: its initial    *)
(* state is the lifecycle's, and each of its steps registers the global   *)
(* while both objects exist, takes one object away, frees impl after both *)
(* are gone, or leaves all of that as it was.                             *)
THEOREM ImplementsLifecycle == Spec => Life!Spec
<1>1. Init => Life!Init
  BY DEF Init, Life!Init, Life!Objects, LifeObjects, LifePhase
<1>2. LifeInv /\ [Next]_vars => [Life!Next]_Life!lvars
  <2> SUFFICES ASSUME LifeInv, [Next]_vars PROVE [Life!Next]_Life!lvars
    OBVIOUS
  <2>1. CASE ClientInfo \/ ClientChange \/ ClientServe \/ EventParam
             \/ EventInfoCrash \/ UNCHANGED vars
    <3>1. UNCHANGED <<global, resource, freed, registered>>
      BY <2>1 DEF ClientInfo, ClientChange, ClientServe, EventParam,
                  EventInfoCrash, vars, implVars, lifeVars
    <3>2. QED
      BY <3>1, LifeStutter
  <2>2. CASE EventInfo \/ ResourcePong
    <3>1. calls = <<>> /\ global /\ resource /\ freed = 0
      BY <2>2, ListeningBeforeChain DEF EventInfo, ResourcePong, LifeInv
    <3>2. UNCHANGED <<global, resource, freed>> /\ registered' \in {registered, TRUE}
      <4>1. CASE EventInfo
        BY <4>1 DEF EventInfo, lifeVars
      <4>2. CASE ResourcePong
        <5>1. UNCHANGED <<global, resource, freed>>
          BY <4>2 DEF ResourcePong, lifeVars
        <5>2. registered' \in {registered, TRUE}
          BY <4>2 DEF ResourcePong, LifeInv
        <5>3. QED
          BY <5>1, <5>2
      <4>3. QED
        BY <2>2, <4>1, <4>2
    <3>3. CASE registered' = registered
      BY <3>2, <3>3, LifeStutter
    <3>4. CASE registered' # registered
      <4>1. registered = FALSE /\ registered' = TRUE
        BY <3>2, <3>4 DEF LifeInv
      <4>2. QED
        BY <3>1, <3>2, <4>1, LifeRegister DEF Life!Next
    <3>5. QED
      BY <3>3, <3>4
  <2>3. CASE DestroyResource
    <3>1. freed = 0 /\ resource /\ ~resource' /\ global' = global
          /\ UNCHANGED <<freed, registered>>
      BY <2>3, ListeningBeforeChain DEF DestroyResource, EnterResourceDestroy, LifeInv
    <3>2. Life!Destroy("resource")
      BY <3>1, LifeDestroy
    <3>3. QED
      BY <3>2 DEF Life!Next, Life!Objects
  <2>4. CASE DestroyGlobal
    <3>1. freed = 0 /\ global /\ ~global' /\ resource' = resource
          /\ UNCHANGED <<freed, registered>>
      BY <2>4 DEF DestroyGlobal, EnterGlobalDestroy, LifeInv, ChainState, implVars
    <3>2. Life!Destroy("global")
      BY <3>1, LifeDestroy
    <3>3. QED
      BY <3>2 DEF Life!Next, Life!Objects
  <2>5. CASE ResourceDestroyTail
    <3>1. CASE global
      <4>1. freed = 0 /\ global /\ ~global' /\ resource' = resource
            /\ UNCHANGED <<freed, registered>>
        BY <2>5, <3>1 DEF ResourceDestroyTail, EnterGlobalDestroy, LifeInv, ChainState, implVars
      <4>2. Life!Destroy("global")
        BY <4>1, LifeDestroy
      <4>3. QED
        BY <4>2 DEF Life!Next, Life!Objects
    <3>2. CASE ~global
      <4>1. UNCHANGED <<global, resource, freed, registered>>
        BY <2>5, <3>2 DEF ResourceDestroyTail, implVars
      <4>2. QED
        BY <4>1, LifeStutter
    <3>3. QED
      BY <3>1, <3>2
  <2>6. CASE GlobalDestroyTail
    <3>1. CASE resource
      <4>1. freed = 0 /\ resource /\ ~resource' /\ global' = global
            /\ UNCHANGED <<freed, registered>>
        BY <2>6, <3>1 DEF GlobalDestroyTail, EnterResourceDestroy, LifeInv, ChainState
      <4>2. Life!Destroy("resource")
        BY <4>1, LifeDestroy
      <4>3. QED
        BY <4>2 DEF Life!Next, Life!Objects
    <3>2. CASE ~resource
      <4>1. freed = 0 /\ freed' = 1 /\ ~global /\ ~resource
            /\ UNCHANGED <<global, resource, registered>>
        BY <2>6, <3>2 DEF GlobalDestroyTail, LifeInv, ChainState, implVars
      <4>2. QED
        BY <4>1, LifeFree DEF Life!Next
    <3>3. QED
      BY <3>1, <3>2
  <2>7. CASE DestroyReturn
    <3>1. CASE Head(calls) = "globRet"
      <4>1. freed = 0 /\ freed' = 1 /\ ~global /\ ~resource
            /\ UNCHANGED <<global, resource, registered>>
        BY <2>7, <3>1 DEF DestroyReturn, LifeInv, ChainState, implVars
      <4>2. QED
        BY <4>1, LifeFree DEF Life!Next
    <3>2. CASE Head(calls) # "globRet"
      <4>1. UNCHANGED <<global, resource, freed, registered>>
        BY <2>7, <3>2 DEF DestroyReturn, implVars
      <4>2. QED
        BY <4>1, LifeStutter
    <3>3. QED
      BY <3>1, <3>2
  <2>8. QED
    BY <2>1, <2>2, <2>3, <2>4, <2>5, <2>6, <2>7 DEF Next
<1>3. QED
  BY <1>1, <1>2, LifeInvariant, PTL DEF Spec, Life!Spec

=============================================================================
