------------------------------ MODULE Endpoint ------------------------------
(***************************************************************************)
(* The server side of an exported session-manager endpoint                *)
(* (module-session-manager/endpoint.c).  A client exports an endpoint     *)
(* implementation; the server holds it as impl->resource, keeps a cache  *)
(* of its info (cached_info) and of its params (cached_params), and      *)
(* exposes it as a global, registered only once the cache is filled.     *)
(*                                                                        *)
(* The implementation lives in the exporting client.  It is modelled as  *)
(* the environment: it sends info and param events and answers requests, *)
(* one connection in each direction, each delivered in order (evq: events *)
(* to the server, rq: requests to the client).  It answers a subscription *)
(* as this file's own method_subscribe_params does (122-138): the new ids *)
(* replace the old, and the params of each id are sent, index by index.  *)
(*                                                                        *)
(* The destroy callbacks call one another synchronously; the frames of    *)
(* that chain are the stack calls, and nothing else runs while it is not  *)
(* empty.  Info and param payloads other than ids, flags and param values *)
(* (names, props, streams) are left out, as is the fan-out to bound       *)
(* clients (emit_info, emit_param, global_bind's info).                   *)
(***************************************************************************)
EXTENDS Integers, Sequences, SequencesExt

CONSTANTS
  ParamIds,       \* the param ids (SPA_PARAM_*) an endpoint advertises
  Pods,           \* the param values
  MaxInfoParams,  \* bound on info->n_params
  MaxInfos,       \* bound on the info events the implementation sends
  MaxChanges,     \* bound on the param value changes it makes
  MaxPodsPerId,   \* bound on the params of one id
  MaxParams       \* MAX_PARAMS (endpoint.c:14), the size of changed_ids

ASSUME ConstantsAssumption ==
  /\ MaxInfoParams \in Nat /\ MaxInfos \in Nat
  /\ MaxChanges \in Nat /\ MaxPodsPerId \in Nat
  /\ MaxParams \in Nat \ {0}

(* spa_param_info.flags: SPA_PARAM_INFO_READ is bit 0, WRITE bit 1. *)
Flags == {0, 1, 2, 3}
Readable(f) == f % 2 = 1

NoPod == "NULL"    \* the NULL pointers event_param pads the array with

(* The param lists of an info: distinct ids, each with its flags. *)
InfoParams ==
  {p \in BoundedSeq([id : ParamIds, flags : Flags], MaxInfoParams) :
     \A i, j \in 1..Len(p) : i # j => p[i].id # p[j].id}

PodLists == BoundedSeq(Pods, MaxPodsPerId)

VARIABLES
  \* the struct impl of endpoint.c
  hasInfo,     \* cached_info != NULL
  hasParams,   \* cached_info->params != NULL
  cinfo,       \* cached_info->params
  cparams,     \* cached_params: a list of [id, pods]
  pingSeq,     \* ping_seq
  registered,  \* registered
  crashed,     \* the server died in event_info's read of cached_info->params
  global,      \* impl->global != NULL
  resource,    \* impl->resource != NULL
  \* the destroy chain, and how often each object was destroyed or freed
  calls, gdestroyed, rdestroyed, freed,
  \* the exporting client: its params, its subscription, the connection
  evals, esub, evq, rq, nextSeq, ninfo, nchange

vars == <<hasInfo, hasParams, cinfo, cparams, pingSeq, registered, crashed,
          global, resource,
          calls, gdestroyed, rdestroyed, freed,
          evals, esub, evq, rq, nextSeq, ninfo, nchange>>

implVars == <<hasInfo, hasParams, cinfo, cparams, pingSeq, registered, crashed>>
lifeVars == <<global, resource, calls, gdestroyed, rdestroyed, freed>>
envVars == <<evals, esub, evq, rq, nextSeq, ninfo, nchange>>

(* The param events announcing the pods of id, index by index. *)
ParamBatch(id, pods, sub) ==
  [k \in 1..Len(pods) |-> [kind |-> "param", id |-> id, index |-> k - 1,
                           pod |-> pods[k], sub |-> sub]]

Init ==
  /\ hasInfo = FALSE /\ hasParams = FALSE /\ cinfo = <<>> /\ cparams = <<>>
  /\ pingSeq = 0 /\ registered = FALSE /\ crashed = FALSE
  /\ global = TRUE /\ resource = TRUE
  /\ calls = <<>> /\ gdestroyed = 0 /\ rdestroyed = 0 /\ freed = 0
  /\ evals \in [ParamIds -> PodLists]
  /\ esub = {} /\ evq = <<>> /\ rq = <<>>
  /\ nextSeq = 1 /\ ninfo = 0 /\ nchange = 0

(* Mutant of Listening: events are still dispatched while a destroy      *)
(* callback runs.                                                         *)
ListeningDuringDestroy ==
  resource /\ ~crashed

(* The server dispatches events of impl->resource only while it has its  *)
(* listeners: until the destroy chain removes them, and while it runs.    *)
Listening ==
  resource /\ calls = <<>> /\ ~crashed

-----------------------------------------------------------------------------
(* The exporting client. *)

(* It sends an info, with or without PW_ENDPOINT_CHANGE_MASK_PARAMS. *)
ClientInfo ==
  /\ Listening /\ ninfo < MaxInfos
  /\ \E mask \in BOOLEAN, ps \in InfoParams :
       evq' = Append(evq, [kind |-> "info", mask |-> mask, params |-> ps])
  /\ ninfo' = ninfo + 1
  /\ UNCHANGED <<implVars, lifeVars, evals, esub, rq, nextSeq, nchange>>

(* The params of one id change; a subscribed id is announced again. *)
ClientChange ==
  /\ Listening /\ nchange < MaxChanges
  /\ \E id \in ParamIds, pods \in PodLists :
       /\ evals' = [evals EXCEPT ![id] = pods]
       /\ evq' = IF id \in esub THEN evq \o ParamBatch(id, pods, FALSE) ELSE evq
  /\ nchange' = nchange + 1
  /\ UNCHANGED <<implVars, lifeVars, esub, rq, nextSeq, ninfo>>

(* It handles the next request: a subscription or a ping. *)
ClientServe ==
  /\ Listening /\ rq # <<>>
  /\ LET r == Head(rq) IN
       IF r.kind = "sub"
         THEN /\ esub' = Range(r.ids)
              /\ evq' = evq \o FlattenSeq([k \in 1..Len(r.ids) |->
                                   ParamBatch(r.ids[k], evals[r.ids[k]], TRUE)])
         ELSE /\ evq' = Append(evq, [kind |-> "pong", seq |-> r.seq])
              /\ UNCHANGED esub
  /\ rq' = Tail(rq)
  /\ UNCHANGED <<implVars, lifeVars, evals, nextSeq, ninfo, nchange>>

-----------------------------------------------------------------------------
(* The server's handlers of the implementation's events. *)

(* The ids event_info (275-283) finds changed in info i, the cached     *)
(* flags being old; past the end of a cached array that is shorter (a    *)
(* PARAMS info with fewer params) the read is out of bounds, and garbage *)
(* gives the flags it reads there.  More than                             *)
(* MaxParams ids overflow changed_ids; the model lets the writes land,    *)
(* one of the outcomes of that overflow, and ChangedIdsFit flags it.      *)
ChangedIds(i, old, garbage) ==
  LET OldFlags(k) == IF k <= Len(old) THEN old[k].flags ELSE garbage[k]
      changed(k) == /\ ~hasInfo \/ i.params[k].flags # OldFlags(k)
                    /\ Readable(i.params[k].flags)
      idx == SelectSeq([k \in 1..Len(i.params) |-> k], changed)
  IN IF i.mask THEN [k \in 1..Len(idx) |-> i.params[idx[k]].id] ELSE <<>>

(* Mutant of InfoUpdate: the new params are appended to the cached ones. *)
InfoUpdateAppend(i) ==
  IF i.mask THEN cinfo \o i.params ELSE IF hasInfo THEN cinfo ELSE <<>>

(* pw_endpoint_info_update: the params are replaced when the mask says so. *)
InfoUpdate(i) ==
  IF i.mask THEN i.params ELSE IF hasInfo THEN cinfo ELSE <<>>

(* pw_endpoint_info_update: a new info is calloc'ed, params NULL; under  *)
(* the PARAMS mask params is a malloc of n_params entries, and malloc(0) *)
(* may give NULL (nullZero) or not.                                       *)
ParamsUpdate(i, nullZero) ==
  IF i.mask THEN i.params # <<>> \/ ~nullZero ELSE hasInfo /\ hasParams

(* event_info 277-279 with cached_info non-NULL but its params NULL (no   *)
(* PARAMS info cached yet): the first compared flags dereference NULL.    *)
NullParamsRead(i) == i.mask /\ hasInfo /\ ~hasParams /\ i.params # <<>>

(* event_info (269-310): cache the info; for changed ids, add empty       *)
(* param stores, subscribe to them and ping, registering on the pong;     *)
(* with no changes, register at once if not yet registered.               *)
EventInfo ==
  /\ Listening /\ evq # <<>> /\ Head(evq).kind = "info"
  /\ ~NullParamsRead(Head(evq))
  /\ LET i == Head(evq) IN
     \E garbage \in [1..MaxInfoParams -> Flags], nullZero \in BOOLEAN :
       LET ch == ChangedIds(i, cinfo, garbage) IN
       /\ hasInfo' = TRUE
       /\ hasParams' = ParamsUpdate(i, nullZero)
       /\ cinfo' = InfoUpdate(i)
       /\ IF ch # <<>>
            THEN /\ cparams' = cparams \o [k \in 1..Len(ch) |-> [id |-> ch[k], pods |-> <<>>]]
                 /\ rq' = rq \o <<[kind |-> "sub", ids |-> ch], [kind |-> "ping", seq |-> nextSeq]>>
                 /\ pingSeq' = nextSeq
                 /\ nextSeq' = nextSeq + 1
                 /\ UNCHANGED registered
            ELSE /\ registered' = TRUE
                 /\ UNCHANGED <<cparams, rq, pingSeq, nextSeq>>
  /\ evq' = Tail(evq)
  /\ UNCHANGED <<crashed, lifeVars, evals, esub, ninfo, nchange>>

(* event_info 277-279 on a NULL cached_info->params: the server crashes;  *)
(* nothing of it runs any more.                                           *)
EventInfoCrash ==
  /\ Listening /\ evq # <<>> /\ Head(evq).kind = "info"
  /\ NullParamsRead(Head(evq))
  /\ crashed' = TRUE
  /\ UNCHANGED <<hasInfo, hasParams, cinfo, cparams, pingSeq, registered,
                 lifeVars, envVars>>

(* The store of a param_data after event_param (344-356) put p at index. *)
StorePod(pods, index, p) ==
  LET padded == IF index < Len(pods) THEN pods
                ELSE pods \o [k \in 1..index + 1 - Len(pods) |-> NoPod]
  IN [padded EXCEPT ![index + 1] = p]

(* event_param (334-360): every param_data of the id stores the param. *)
EventParam ==
  /\ Listening /\ evq # <<>> /\ Head(evq).kind = "param"
  /\ LET e == Head(evq) IN
       cparams' = [k \in 1..Len(cparams) |->
                     IF cparams[k].id = e.id
                       THEN [cparams[k] EXCEPT !.pods = StorePod(@, e.index, e.pod)]
                       ELSE cparams[k]]
  /\ evq' = Tail(evq)
  /\ UNCHANGED <<hasInfo, hasParams, cinfo, pingSeq, registered, crashed, lifeVars,
                 evals, esub, rq, nextSeq, ninfo, nchange>>


(* Mutant of ResourcePong: the seq is compared with the one of the ping  *)
(* before.                                                               *)
ResourcePongStaleSeq ==
  /\ Listening /\ evq # <<>> /\ Head(evq).kind = "pong"
  /\ registered' = (registered \/ Head(evq).seq = pingSeq - 1)
  /\ evq' = Tail(evq)
  /\ UNCHANGED <<hasInfo, hasParams, cinfo, cparams, pingSeq, crashed, lifeVars,
                 evals, esub, rq, nextSeq, ninfo, nchange>>

(* impl_resource_pong (246-254): the pong of the last ping registers the *)
(* global (register_global, 238-244) if it is not registered yet.        *)
ResourcePong ==
  /\ Listening /\ evq # <<>> /\ Head(evq).kind = "pong"
  /\ registered' = (registered \/ Head(evq).seq = pingSeq)
  /\ evq' = Tail(evq)
  /\ UNCHANGED <<hasInfo, hasParams, cinfo, cparams, pingSeq, crashed, lifeVars,
                 evals, esub, rq, nextSeq, ninfo, nchange>>

-----------------------------------------------------------------------------
(* The destroy chain.  A frame is the callback running and where it is:  *)
(* "res" is impl_resource_destroy past its body, about to test           *)
(* impl->global; "glob" is global_destroy past its body, about to test   *)
(* impl->resource; "globRet" is global_destroy back from destroying the  *)
(* resource; "resRet" is impl_resource_destroy back from destroying the  *)
(* global.  Entering a callback runs its body at once.                    *)

(* The body of impl_resource_destroy (218-232): listeners removed,        *)
(* impl->resource = NULL, the cache freed.                               *)
EnterResourceDestroy(rest) ==
  /\ calls' = <<"res">> \o rest
  /\ resource' = FALSE
  /\ rdestroyed' = rdestroyed + 1
  /\ hasInfo' = FALSE /\ hasParams' = FALSE /\ cinfo' = <<>> /\ cparams' = <<>>

(* The body of global_destroy (200-202): impl->global = NULL. *)
EnterGlobalDestroy(rest) ==
  /\ calls' = <<"glob">> \o rest
  /\ global' = FALSE
  /\ gdestroyed' = gdestroyed + 1

(* The client destroys its proxy, or disconnects: pw_resource_destroy of *)
(* impl->resource.                                                       *)
DestroyResource ==
  /\ Listening
  /\ EnterResourceDestroy(<<>>)
  /\ UNCHANGED <<pingSeq, registered, crashed, global, gdestroyed, freed, envVars>>

(* The global is destroyed from outside: pw_global_destroy. *)
DestroyGlobal ==
  /\ global /\ calls = <<>> /\ ~crashed
  /\ EnterGlobalDestroy(<<>>)
  /\ UNCHANGED <<implVars, resource, rdestroyed, freed, envVars>>

(* impl_resource_destroy 234-235: destroy the global if there is one. *)
ResourceDestroyTail ==
  /\ calls # <<>> /\ Head(calls) = "res"
  /\ IF global
       THEN /\ EnterGlobalDestroy(<<"resRet">> \o Tail(calls))
            /\ UNCHANGED <<implVars, resource, rdestroyed, freed>>
       ELSE /\ calls' = Tail(calls)
            /\ UNCHANGED <<implVars, global, resource, gdestroyed, rdestroyed, freed>>
  /\ UNCHANGED envVars

(* Mutant of GlobalDestroyTail: impl is freed before the resource is     *)
(* destroyed.                                                            *)
GlobalDestroyFreeFirst ==
  /\ calls # <<>> /\ Head(calls) = "glob"
  /\ freed' = freed + 1
  /\ IF resource
       THEN /\ EnterResourceDestroy(<<"globRet">> \o Tail(calls))
            /\ UNCHANGED <<pingSeq, registered, crashed, global, gdestroyed>>
       ELSE /\ calls' = Tail(calls)
            /\ UNCHANGED <<implVars, global, resource, gdestroyed, rdestroyed>>
  /\ UNCHANGED envVars

(* global_destroy 203-205: destroy the resource if there is one, then    *)
(* free impl.                                                            *)
GlobalDestroyTail ==
  /\ calls # <<>> /\ Head(calls) = "glob"
  /\ IF resource
       THEN /\ EnterResourceDestroy(<<"globRet">> \o Tail(calls))
            /\ UNCHANGED <<pingSeq, registered, crashed, global, gdestroyed, freed>>
       ELSE /\ calls' = Tail(calls)
            /\ freed' = freed + 1
            /\ UNCHANGED <<implVars, global, resource, gdestroyed, rdestroyed>>
  /\ UNCHANGED envVars

(* A callback returns from the destroy it called: global_destroy frees   *)
(* impl (205), impl_resource_destroy returns (236).                       *)
DestroyReturn ==
  /\ calls # <<>> /\ Head(calls) \in {"globRet", "resRet"}
  /\ calls' = Tail(calls)
  /\ freed' = IF Head(calls) = "globRet" THEN freed + 1 ELSE freed
  /\ UNCHANGED <<implVars, global, resource, gdestroyed, rdestroyed, envVars>>

Next ==
  \/ ClientInfo \/ ClientChange \/ ClientServe
  \/ EventInfo \/ EventInfoCrash \/ EventParam \/ ResourcePong
  \/ DestroyResource \/ DestroyGlobal
  \/ ResourceDestroyTail \/ GlobalDestroyTail \/ DestroyReturn

Spec == Init /\ [][Next]_vars

(* The server's main loop dispatches every message the client sent and  *)
(* runs every callback to its end; the client answers every request.      *)
FairSpec ==
  /\ Spec
  /\ WF_vars(ClientServe)
  /\ WF_vars(EventInfo \/ EventInfoCrash \/ EventParam \/ ResourcePong)
  /\ WF_vars(ResourceDestroyTail \/ GlobalDestroyTail \/ DestroyReturn)

-----------------------------------------------------------------------------
(* What method_enum_params (78-120) returns for id from index 0 with no  *)
(* filter and no count: the params of the first param_data of the id,    *)
(* skipping the NULL holes, which spa_pod_filter refuses.                 *)
Served(id) ==
  LET ks == {k \in 1..Len(cparams) : cparams[k].id = id}
  IN IF ks = {} THEN <<>>
     ELSE SelectSeq(cparams[Min(ks)].pods, LAMBDA p : p # NoPod)

Cached(id) == \E k \in 1..Len(cparams) : cparams[k].id = id

TypeOK ==
  /\ hasInfo \in BOOLEAN /\ hasParams \in BOOLEAN /\ crashed \in BOOLEAN
  /\ cinfo \in InfoParams
  /\ cparams \in Seq([id : ParamIds, pods : Seq(Pods \cup {NoPod})])
  /\ pingSeq \in 0..nextSeq - 1 /\ registered \in BOOLEAN
  /\ global \in BOOLEAN /\ resource \in BOOLEAN
  /\ calls \in Seq({"res", "glob", "resRet", "globRet"})
  /\ {gdestroyed, rdestroyed, freed} \subseteq Nat
  /\ evals \in [ParamIds -> PodLists] /\ esub \subseteq ParamIds
  /\ nextSeq \in Nat \ {0}

(* Whichever of impl->resource and the global goes first, the destroy    *)
(* callbacks of endpoint.c (global_destroy, impl_resource_destroy)       *)
(* destroy each of them once, free impl once, and only when no callback  *)
(* but a returning impl_resource_destroy is still on the stack; once the *)
(* chain is over, both are gone and impl is freed.                        *)
DestroyedOnce ==
  /\ rdestroyed <= 1 /\ gdestroyed <= 1 /\ freed <= 1
  /\ freed = 1 => \A k \in 1..Len(calls) : calls[k] = "resRet"
  /\ (calls = <<>> /\ ~(global /\ resource)) =>
        ~global /\ ~resource /\ freed = 1

(* Every endpoint whose info has arrived is eventually registered by     *)
(* event_info or by the pong of its last ping (impl_resource_pong),      *)
(* unless it is destroyed first or the server dies in event_info.        *)
EventuallyRegistered == hasInfo ~> (registered \/ ~resource \/ crashed)

(* endpoint.c:419-420, "we first cache info + params and then expose the *)
(* global": the step that registers the global leaves no subscription    *)
(* unanswered and no param it returned uncached.                          *)
RegistersAfterParamsCached ==
  [][(~registered /\ registered') =>
       /\ \A k \in 1..Len(rq') : rq'[k].kind # "sub"
       /\ \A k \in 1..Len(evq') : ~(evq'[k].kind = "param" /\ evq'[k].sub)]_vars

(* endpoint.c:145-146, "our cache will be updated by the param event,    *)
(* since we are subscribed": once the connection is quiet, enum_params   *)
(* serves for every cached id the params the implementation has.          *)
EnumServesLatest ==
  (Listening /\ registered /\ evq = <<>> /\ rq = <<>>) =>
    \A id \in ParamIds : Cached(id) => Served(id) = evals[id]

(* event_info caches the params of every readable id of the info it      *)
(* caches (275-299), so that enum_params can serve them.                  *)
CacheCoversReadable ==
  (Listening /\ hasInfo) =>
    \A k \in 1..Len(cinfo) : Readable(cinfo[k].flags) => Cached(cinfo[k].id)

(* event_info collects the changed ids in changed_ids[MAX_PARAMS]        *)
(* (endpoint.c:271, 281), on the stack: the ids it subscribes to never    *)
(* number more than MAX_PARAMS, whatever info the client sends.           *)
ChangedIdsFit ==
  \A k \in 1..Len(rq) : rq[k].kind = "sub" => Len(rq[k].ids) <= MaxParams

-----------------------------------------------------------------------------
(* The refinement mapping to EndpointLifecycle: an object exists while    *)
(* impl points to it, impl is freed once free(impl) has run, and the      *)
(* endpoint is registered once register_global has.                       *)
LifeObjects ==
  (IF global THEN {"global"} ELSE {}) \cup (IF resource THEN {"resource"} ELSE {})

LifePhase ==
  IF freed > 0 THEN "freed" ELSE IF registered THEN "registered" ELSE "unregistered"

Life == INSTANCE EndpointLifecycle WITH objects <- LifeObjects, phase <- LifePhase

(* endpoint.c implements the lifecycle: register_global runs only while  *)
(* impl->resource and impl->global both exist and at most once; each of  *)
(* global_destroy and impl_resource_destroy takes its object away in     *)
(* a step of its own; free(impl) in global_destroy runs only once both   *)
(* are gone and nothing runs after it; and a destroy of either object    *)
(* carries the chain through to free(impl).                               *)
LifecycleRefined == Life!FairSpec

=============================================================================
