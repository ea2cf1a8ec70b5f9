# TLA+ models of the spa JSON tokenizer, the pipewire string helpers and the session-manager endpoint

This directory holds TLA+ models of the three source files of the repository, the TLC
configurations that check them, and TLAPS proofs about the tokenizer, the string and random
helpers and the endpoint's destroy chain:

| source | what it is | modules |
|---|---|---|
| `src/examples/media-session/json.h` | `spa_json`: a streaming, zero-copy, non-recursive JSON tokenizer with nested sub-cursors, plus classification and conversion helpers | `JsonScan`, `JsonCursors`, `JsonScanSwallow`, `JsonValue`, `JsonScanValues`, `JsonScanProofs`, `JsonScanUtf8Proofs`, `JsonCursorsProofs` |
| `src/pipewire/utils.c` | `pw_split_walk`/`pw_split_strv`/`pw_split_ip`, `pw_strip`, random-byte helpers | `PwUtils`, `UtilsProofs` |
| `src/modules/module-session-manager/endpoint.c` | the server side of an exported endpoint: the info/param cache, the registration handshake and the destroy chain | `Endpoint`, `EndpointLifecycle`, `EndpointProofs` |

`MC*.tla` modules instantiate each model for TLC. `PROJECT.json` lists the components, the
runs, the mutants, the map from each definition to source lines, the findings and the
hazards.

## 1. Inventory

### The tokenizer (json.h)

- **State.** A cursor (`struct spa_json`, 38-44) holds `cur`, `end`, `parent`, a scan `state` and a `depth`.
  - A call of `spa_json_next` also has a local `utf8_remain` and the out parameter `*value`.
  - Callers keep an array of cursors `it[0..n]`. `it[i+1]` is made by `spa_json_enter` on `it[i]` and has `it[i]` as its parent.
  - The only mutation across cursors is the write-back `parent->cur = iter->cur` (89). A child does it when it meets the closing delimiter of its own scope.
- **Operations.**
  - `spa_json_init` (48).
  - `spa_json_next` (59-158): a byte loop over six scan states. `goto again` re-dispatches the same byte, and the loop can `continue` or return a span, 0 (end of scope) or -1.
  - `spa_json_enter` (54).
  - `spa_json_enter_container`/`_object`/`_array` (160-177).
  - The pure helpers `is_*`, `parse_*` and `get_*` (179-286).
- **Hard behaviours.**
  - Swallowing: a container the caller does not enter is skipped by the depth counter, including strings and bare tokens nested in it.
  - A state that persists across calls next to a counter that does not (`utf8_remain`).
  - The write-back position, and calls made on a child after it is exhausted.
  - What happens at the end of the buffer in every scan state.
  - The read of `*value` after a call that never wrote it.
  - `strcmp` on spans that are not NUL-terminated.
  - The decoded string's size against the caller's buffer.

### String helpers (utils.c)

- `pw_split_walk` (32-44) is a re-entrant tokenizer with the state kept in a caller pointer.
- `pw_split_strv` (55-79) and `pw_split_ip` (92-111) loop over it with a `max_tokens` bound. `pw_split_ip` writes NULs into the caller's string while it is still walking it.
- `pw_strip` (136-152) skips leading whitespace and writes a NUL after the last byte kept.
- `make_random` (157-176) tries `getrandom` and, when it is not built or fails with ENOSYS, reads `/dev/urandom`.
- `pw_getrandom` (187-198) retries `make_random` while it fails with EINTR. It turns a failure into `-errno` and a short read into `-ENODATA`.
- `pw_random_init` (230-243) seeds the libc PRNG with a seed from `pw_getrandom`, or from the clock when that fails. `pw_random` (214-228) falls back to that PRNG when `pw_getrandom` fails.
- `pw_free_strv` and `pw_reallocarray` are one-line wrappers.

### The endpoint (endpoint.c)

A client exports an endpoint implementation. `create_object`/`endpoint_new` (368-479) make:
- `impl->resource`, the client's object;
- a global, which on purpose is not registered yet.

The module then works as a cache between the implementation and other clients:
- **`event_info`** (269-310) caches the info. For each readable param whose flags changed, it adds an empty param store, subscribes to those ids at the implementation, and sends a ping. If nothing changed, it registers at once.
- **`event_param`** (334-360) stores each param in every store of its id.
- **`impl_resource_pong`** (246-254) registers the global when the pong of the last ping arrives.
- **`method_enum_params`** (78-120) serves bound clients from the cache.
- **The destroy chain.** `global_destroy` (198-206) and `impl_resource_destroy` (213-236) call each other synchronously.

Events from the implementation arrive in order on one connection. Requests (subscribe, ping) go back in order on the same connection.

## 2. What is modelled, and how

### `JsonScan`: the cursor stack and the byte loop

- **Variables.**
  - `buf` holds byte values; the end pointer is position `Len(buf)+1`.
  - `cur`, `st` and `depth` are functions over cursor slots `1..MaxCursors`.
  - `top` is the innermost cursor the caller holds. The parent of slot `i` is slot `i-1`, as in the callers' `it[]` arrays.
  - `pc` is the call in progress: `"next"`, `"obj"`, `"arr"` or `"idle"`.
  - `utf8` and `value` are the call's locals.
  - `last` is the outcome of the last call.
- **Steps.**
  - One step is one iteration of the byte loop:
    - `ScanContinue` is `continue`, i.e. `cur++`;
    - `ScanAgain` is `goto again`;
    - `ScanReturn` is a return, with the write-back at 88-89;
    - `EndOfInput` is line 157.
  - `Dispatch` and `DNone` … `DEsc` translate the switch case by case. Each returns the new state, depth, counter, `*value` and the kind of exit.
  - The caller's steps:
    - `CallNext` calls `spa_json_next`;
    - `CallEnter(kind)` calls `spa_json_enter_object`/`_array`;
    - `Enter` is `spa_json_enter` on a container the last call returned;
    - `Drop` abandons the innermost cursor, which spec section 5 allows.
  - `Finish` ends a call. For `spa_json_enter_container` it evaluates the test at 163 (`EnterOutcomes`). If the call never wrote `*value`, that test reads an uninitialised pointer, so both outcomes are allowed.
- **`JsonCursors`** is the abstract specification of what the cursors promise a caller, with bytes and tokens left out.
  - State: `size`, the buffer's length, and `pos`, the stack of cursor positions, root first.
  - `Scan`: the innermost cursor moves forward within `1..size+1`; with `back`, it ends its container and its parent takes exactly its position.
  - `ScanEnter`: the same, and a child is pushed at the new position. A return of `spa_json_enter_container` that enters is one such step; a caller's `spa_json_enter` is one whose scan moves nothing.
  - `Drop`: the innermost child is popped, never the root.
  - `JsonScan` instantiates it as `Cursors`, mapping `size` to `Len(buf)` and `pos` to `CursorStack`, the positions of slots `1..top`. The property `CursorsRefined` is `Cursors!Spec`.
  - `Moved` is written as a function constructor, not as `EXCEPT` on `pos`. With `EXCEPT` applied to the substituted stack, TLC 2.19 reused a stale result across disjuncts of `Next` and reported a step that is a legal `ScanEnter` as a violation.
- **`JsonScanSwallow`** gives each held cursor a *shadow*: a cursor over the same buffer, started at the same place, on which nothing is ever entered.
  - Every call that returns on a cursor is matched by one whole call of `spa_json_next` on its shadow. `SwallowCall` computes that call by iterating `LoopStep`, the same `Dispatch`, with a recursive operator.
  - This checks spec section 8's swallow equivalence.
- **`JsonValue`** holds the pure helpers:
  - `StrEq` is `strcmp` against the C string: it reads past the span up to the NUL.
  - `ParseBool` keeps the quirk that a failure leaves `*result = true`.
  - `ParseString` decodes escapes with the recursive `Decode`.
- **`JsonScanValues`** relates them to the tokens `JsonScan` returns.
- **Not modelled:** `is_float`, `parse_float` and `get_float` call `strtof`. Libc float parsing is left out.

### `PwUtils`: one call of a string helper, or the random helpers

- **Variables.**
  - A call starts in `Init`: the function (`fn`), the string and `max_tokens` are chosen from small sets.
  - A string is its bytes, with a NUL past the end. Pointers are positions, and NULL is 0.
- **Operators.**
  - `SkipDelims` is `strspn` and `SpanEnd` is `strcspn`.
  - `Walk` is `pw_split_walk`. `TakeWalk` assigns its out parameters, which stay unchanged when the walk returns NULL.
- **Steps.**
  - `SplitBegin` is the first walk.
  - `StrvStep` and `IpStep` are one iteration of each loop. `IpStep` walks first and writes the NUL afterwards, in the code's order.
  - `SplitEnd` is the trailing `if (s)`.
  - `Strip` is all of `pw_strip`.
- **Reference.** The result is compared with `Expected`, a reference written without the walk. It uses the words of the string (maximal runs of non-delimiters). When there are at least `max_tokens` words, the last token is the whole rest of the string from the `max_tokens`-th word on, trailing delimiters included. This is what both splitters do.
- **The random helpers.** With `fn = "random"` a behaviour is `pw_random_init` followed by `pw_random`, the order `pw_init` uses.
  - A byte is abstracted to where it came from: `"old"` (what the caller's memory held), `"kernel"`, `"prng"` or `"clock"`. `area` holds the bytes of `buf` (`BufLen` of them) and of the 4-byte seed.
  - `GetrandomStep` is one iteration of the do-while of `pw_getrandom`. `make_random`'s outcome is chosen from `MakeRandomOutcomes`:
    - getrandom fills 0..buflen bytes, or fails with EINTR;
    - `/dev/urandom` (when getrandom is not built or fails with ENOSYS) reads 0..buflen bytes, or fails with ENOENT (open), EINTR or EIO.
  - An EINTR failure goes round the loop again; `MaxEintr` bounds how many come in a row. Any other outcome gives `gret = GetrandomResult(...)`, the `-errno`/`-ENODATA`/`buflen` of lines 193-197.
  - `RandomInitSeed` replaces the whole seed by the clock when `gret < 0`, then `initstate_r` seeds the PRNG (`seeded`). `RandomFill` fills all of `buf` from the PRNG when `gret < 0`.

### `Endpoint`: the cache, the handshake and the destroy chain

- **Variables.**
  - `hasInfo`, `hasParams`, `cinfo` (the cached param infos), `cparams` (the `param_data` list), `pingSeq` and `registered` are the fields of `struct impl`.
  - `crashed` says the server process died in `event_info`.
  - `global` and `resource` say whether `impl->global` and `impl->resource` are non-NULL.
- **The environment.** The implementation lives in the exporting client, outside this repository, and is modelled as the environment:
  - `ClientInfo` sends an info, with or without the PARAMS change mask.
  - `ClientChange` changes one id's params. For a subscribed id it sends the new list as param events.
  - `ClientServe` answers the next request. A subscription *replaces* the subscribed ids and sends the params of each, index by index, as this file's own `method_subscribe_params` does. A ping is answered with a pong of the same seq.
  - `evq` and `rq` are the two directions of the connection, both FIFO.
- **Server handlers.**
  - `EventInfo`, `EventParam` and `ResourcePong` are the three handlers.
  - `ChangedIds` is the loop at 276-283.
  - `InfoUpdate` is what `pw_endpoint_info_update` does to the params: it replaces them when the mask says so.
  - `hasParams` is `cached_info->params != NULL`. A new info is calloc'ed, so its params are NULL until an info with the PARAMS mask comes. Under the mask they are a `malloc` of `n_params` entries, and `malloc(0)` may return NULL or not (`ParamsUpdate`).
  - `EventInfoCrash` is the case where the cached info exists but its params are NULL, and an info with the mask and at least one param arrives. The flags test at 279 then dereferences NULL and the server dies. `crashed` records this; no handler, client step or destroy runs after it.
  - Past a cached array that is non-NULL but shorter, `garbage` remains the model of the out-of-bounds read.
- **The destroy chain** is a stack `calls` of callback frames:
  - `DestroyResource` and `DestroyGlobal` start it;
  - `ResourceDestroyTail`, `GlobalDestroyTail` and `DestroyReturn` continue it;
  - nothing else runs while it is non-empty, because the callbacks are synchronous;
  - `rdestroyed`, `gdestroyed` and `freed` count destructions and frees.
- **`EndpointLifecycle`** is the abstract specification of what the file promises about an endpoint's life:
  - two objects, the global and the resource;
  - `Register` only while both exist and nothing is freed;
  - `Destroy(o)` takes the objects away one at a time, in either order;
  - `Free` runs once both are gone, and nothing happens after it;
  - weak fairness of `Teardown`: a teardown once started is finished.

  `Endpoint` maps onto it with `LifeObjects` (the non-NULL pointers) and `LifePhase` (freed, registered or neither). `LifecycleRefined == Life!FairSpec` is checked as a property.
- **`ChangedIds` and `MaxParams`.** `MaxParams` is `MAX_PARAMS`, the size of `changed_ids[]`. `ChangedIdsFit` says no subscription carries more ids than it.
- **Abstracted.** Info and param payloads other than ids, the READ/WRITE flags and param identities are left out, as are the fan-out to bound clients and `global_bind`.

## 3. Runs, and what they show

| run | cfg | checks | result |
|---|---|---|---|
| scan_swallow | `MCJsonScanSwallow.cfg` | `EnterMatchesSwallow` | pass, 5.7M states |
| scan_values | `MCJsonScanValues.cfg` | `TypeOK`, `NestedCursorsOrdered`, `StringFitsCapacity`, `Utf8CountFresh`, `UInv`, `CallsReturn`, `CursorsRefined` | pass, 335,525 states |
| utils_calls | `MCPwUtils.cfg` | `TypeOK`, `SplitCorrect`, `StripCorrect`, `GetrandomContract`, `RandomFills`, `NulOnlyOverDelims`, `WInv` | pass, 10,175 states |
| endpoint_lifecycle | `MCEndpoint.cfg` | `TypeOK`, `DestroyedOnce`, `EventuallyRegistered`, `LifecycleRefined` | pass, 260,920 states |
| enter_only_on_container | `MCJsonScan_EnterOnlyOnContainer.cfg` | `EnterOnlyOnContainer` | violation |
| open_token_at_end | `MCJsonScan_NothingOpenAtEndOfScope.cfg` | `NothingOpenAtEndOfScope` | violation |
| literal_classification | `MCJsonScanValues_TokenLiteralsClassified.cfg` | `TokenLiteralsClassified` | violation |
| split_max_tokens | `MCPwUtils_SplitWithinMax.cfg` | `SplitWithinMax` | violation |
| endpoint_early_register | `MCEndpoint_RegistersAfterParamsCached.cfg` | `RegistersAfterParamsCached` | violation |
| endpoint_stale_params | `MCEndpoint_EnumServesLatest.cfg` | `EnumServesLatest` | violation |
| endpoint_uncached_param | `MCEndpoint_CacheCoversReadable.cfg` | `CacheCoversReadable` | violation |
| endpoint_changed_ids_overflow | `MCEndpoint_ChangedIdsFit.cfg` | `ChangedIdsFit` | violation |

The cursor-structure properties (`NestedCursorsOrdered`, `CallsReturn`) are checked in the scan_values run, on buffers of lexemes entered by up to 3 nested cursors.

`UInv` and `WInv` are the inductive invariants of the proofs of section 6. The runs check them, so TLC confirms on the small instance what the proofs rest on. `MCJsonScanValues` and `MCPwUtils` extend the proof modules that define them.

### What the passing runs show

- **`NestedCursorsOrdered`.** A parent is never ahead of its child. This is needed for the write-back to move the parent forward.
- **`CursorsRefined`.** The cursors implement `JsonCursors`: every step of the byte loop, every return with its write-back, every entry and every drop is a step of the abstract stack or leaves it unchanged. The write-back mutant, which sets the parent one past the child, breaks it at the first closing delimiter of an entered container.
- **`CallsReturn`.** Every call of `spa_json_next` returns, so no `goto again` cycle spins.
- **`Utf8CountFresh`.** Whenever a continuation byte is examined in the UTF8 state, the call-local counter is 1..3, even though the state outlives the call.
- **`EnterMatchesSwallow`.** Entering any container and draining or dropping the child returns the same values and span starts as a cursor that never enters (spec section 8).
  - The mutant that writes the parent back *past* the closing delimiter, as spec sections 4.1 and 5 word it, breaks this. The parent's depth is still 1 at the write-back, so the code's position *at* the delimiter is the one that works. The spec's wording is inexact here; the code is right.
- **`StringFitsCapacity`.** `spa_json_parse_string` never writes more than `len - 1` bytes, the NUL included, for any token `spa_json_next` returns. The `maxlen < len` check of `spa_json_get_string` is therefore enough.
- **`SplitCorrect` and `StripCorrect`.** Both splitters and `pw_strip` return the reference result on every input of the bounds. For `pw_split_ip` this includes the NULs it writes as it walks.
- **`NulOnlyOverDelims`.** This is an action property. Every step of `pw_split_ip` or `pw_strip` that changes the string turns a delimiter or whitespace byte into a NUL and touches no other byte. The mutant that writes `pw_strip`'s NUL over the last byte kept breaks it.
- **`DestroyedOnce`.** Whichever object goes first, the chain destroys each object once, frees `impl` once and last, and leaves nothing half destroyed.
- **`EventuallyRegistered`.** Under fairness, an endpoint whose info arrived is eventually registered unless it is destroyed or the server crashed in `event_info`. Stale pongs are ignored, and the newest ping's pong still comes.
- **`LifecycleRefined`.** The endpoint implements `EndpointLifecycle`, its fairness included. A mutant whose handlers keep listening while the destroy chain runs is caught. An info handled inside `global_destroy`, after the global is gone, registers it, which the abstract spec forbids.
- **`GetrandomContract`.** Whatever getrandom, open and read give, `pw_getrandom` returns the full length with every byte from the kernel, or a negative errno that is not `-EINTR`. Dropping the short-read check (195-196) breaks it.
- **`RandomFills`.** `pw_random` leaves no byte of `buf` as it was. PRNG bytes come only after `initstate_r`, from a seed that came whole from the kernel or whole from the clock. A seed read that fails or is short (233) must therefore lead to the clock.

### What the violations show

These are the findings in `PROJECT.json`:

1. **Open token at the end of the buffer** (json.h:157; spec sections 4.1 and 8). The end of the buffer is judged by depth alone:
   - `'"abc'` gives end of scope (0), not malformed input;
   - `"true false"` gives one token, then end of scope, because a bare token at the end of the buffer is dropped.
2. **Stale `*value` in `spa_json_enter_container`.** It tests `*value` after `spa_json_next` returned 0 (163; spec section 4.2). On `[[]]`:
   - the root's `next()` returns the outer `[`;
   - the root's `enter_array` then calls `spa_json_next`, which swallows that container and returns 0 at the end of the buffer;
   - the swallow left `*value` on the inner `[` it passed, so the test at 163 sees a `[`, and a child is entered at the end of the buffer.
3. **`strcmp` past the span.** `is_true`/`is_false`/`is_null` compare with `strcmp`, so `true` followed by `,` is not `true` (208).
4. **Token past the array.** `pw_split_ip` with `max_tokens = 0` stores one token, one past what its doc comment says `tokens[]` holds (utils.c:107).
5. **Early registration.** An info without param changes, arriving before the pong, registers the endpoint while its params are still in flight (endpoint.c:307). This is against the comment at 419-420.
6. **Stale params.** The cache never truncates, and re-subscribing with only the changed ids drops the other ids' updates, so `enum_params` serves stale params (348, 302). This is against the comment at 145-146.
7. **Uncached param.** `event_info` compares the flags of `info->params[i]` with `cached_info->params[i]` by position, not by id (279). It reads past the cached array when the new info has more params. In the trace:
   - the first info carries the PARAMS mask and no params, so `malloc(0)` leaves a non-NULL, empty array;
   - the second info has one readable param, and the flags read past the empty array equal its own;
   - that param is never subscribed or cached.

   With empty arrays excluded, the bounds also reach the deterministic form: a readable id replaces a different id that had equal flags.
8. **`changed_ids` overflow.** `event_info` stores one id in the stack array `changed_ids[MAX_PARAMS]` for every readable param whose flags changed, with no bound (281). `info->n_params` is chosen by the remote client, so an info with more than 32 such params writes past the array.
   - The run scales `MAX_PARAMS` down to 1 (`MaxParams`) and lets an info carry 2 params. One info with 2 readable params then gives a subscription of 2 ids.
   - The logic is the same at 32 and 33; only the numbers are scaled down.

### Mutants

- Every property of a passing run has a mutant in `PROJECT.json`: an operator defined just before the definition it replaces, modelling a plausible slip in that code.
- Each mutant makes TLC report the property violated under the run's own cfg. Examples:
  - the write-back one past the delimiter;
  - the `goto again` of BARE keeping the state;
  - the NUL written before the walk;
  - `impl` freed before the resource is destroyed;
  - a pong compared with the previous seq;
  - a short read returned as a success;
  - a failed seed read not replaced by the clock;
  - the handlers left listening during the destroy chain.

## 4. Bounds, and why they are enough

- **`MCJsonScan`** (the two json.h violation runs). Every buffer of up to 4 bytes over `[ ] { } 1 space "` with 3 cursor slots. This reaches the following:
  - nested containers entered two deep;
  - containers swallowed inside containers;
  - bare tokens and strings at depth 0 and inside swallowed containers;
  - every end-of-buffer state;
  - a child exhausted and called again.
- **`MCJsonScanSwallow`.** Length 5 over the structural alphabet. This nests a token inside two containers.
- **`MCJsonScanValues`.** Every concatenation of up to 3 lexemes, with 3 cursor slots: `true`, `,`, `[`, `]`, `"a"`, `"\n"`, `"\""`, a string holding a 3-byte UTF-8 character, a lone quote, and a cut-short UTF-8 sequence. This reaches:
  - strings whose decoded length differs from their raw length;
  - literals followed by more text;
  - UTF-8 sequences complete, cut short by a quote, and met again by the next call after an error;
  - containers entered two deep (`[[`), swallowed, and exhausted children called again.
- **`MCPwUtils`.** Every string of up to 5 bytes over a letter, space and comma, with `max_tokens` 1..3. This covers fewer, exactly as many, and more words than `max_tokens`, leading and trailing and repeated delimiters, and the empty string. The violation run uses `max_tokens` 0..2.
  - The random helpers run with `BufLen = 2`, `MaxEintr = 1` and getrandom built. A buffer of 2 bytes has a short read (1 byte) and an empty one (0). One EINTR in a row exercises the retry and the reset of the count. The seed has its real 4 bytes. `UtilsProofs` covers every `BufLen`, every `MaxEintr` and both builds.
- **`MCEndpoint`.**
  - 2 param ids, 2 param values, at most 1 param per info and 1 param per id;
  - 2 info events and 1 param change by the client;
  - either destroy at any point.

  This reaches a second info before and after the pong, a changed and an unchanged info, a shrinking param list, an id dropped from the subscription, and both destroy orders. Two infos are also enough for the crash: the first without the PARAMS mask, the second with it and one param.

  A run with 2 params per info did not finish within 30 minutes. The violation runs find their traces within these bounds. `MCEndpoint_ChangedIdsFit.cfg` uses 2 params per info and 1 info, which is enough for the overflow.

## 5. Fairness

- **`JsonScan!FairSpec`** assumes weak fairness of the loop steps (continue, again, return, end of input), not of the caller. A call is a plain synchronous loop, so once it has started it runs on. `CallsReturn` is checked under this assumption.
- **`Endpoint!FairSpec`** assumes weak fairness of:
  - the client answering requests (`ClientServe`);
  - the server dispatching the next event (`EventInfo` or `EventInfoCrash`, `EventParam`, `ResourcePong`);
  - the destroy chain's frames.

  The main loop dispatches every message received, and a callback runs to its end. A client that never answers a ping would leave the endpoint unregistered forever, as the code would too. No fairness is assumed for the client sending infos or changes, nor for destruction.
- **`EndpointLifecycle!FairSpec`** assumes weak fairness only of `Teardown`. Once one object is gone, the other goes and `impl` is freed. In the code this is a chain of synchronous callbacks, which the fairness of the chain's frames in `Endpoint!FairSpec` covers.

## 6. What is proved (TLAPS)

### `JsonScanProofs`

For all values of the constants, under `InputsAssumption` (the inputs are byte sequences) and `MaxCursorsAssumption` (at least one cursor slot):

- **`TypeCorrect`: `Spec => []TypeOK`.**
  - `TypeOK` alone is not inductive. A call of `spa_json_enter_container` may end by creating a child in slot `top + 1`, so that slot must exist whenever such a call is in progress.
  - The inductive invariant is therefore `IInv == TypeOK /\ (pc \in {"obj","arr"} => top < MaxCursors)`. The guard of `CallEnter` establishes the second conjunct, and nothing changes `top` during a call.
  - `DispatchType` shows that every case of the switch yields a well-typed outcome that moves `cur` within `1..End`. `FinishIInv` handles the end of a call, and `NextIInv` goes action by action.
- **`CursorsOrdered`: `Spec => []NestedCursorsOrdered`.** This is proved with `IInv`. The step lemma `NextOrdered` shows:
  - an advance of the innermost cursor keeps the order;
  - the write-back sets the parent to the child's own position, so the order holds;
  - a new child starts at its parent's position.
- **`NeverRewinds`: `Spec => NoRewind`.** No step moves back a cursor the caller still holds. This is the action property behind the write-back's correctness, and it is proved from `IInv` and `NestedCursorsOrdered` with `PTL`.

### `JsonScanUtf8Proofs`

Under the same assumptions, this module extends `JsonScanProofs` and reuses `IInv`:

- **`Utf8Fresh`: `Spec => []Utf8CountFresh`.** `utf8_remain` is a local of `spa_json_next`, but the `__UTF8` state lives in the cursor, so a call can begin in `__UTF8` with the counter at 0.
  - `Utf8CountFresh` is not inductive: it says nothing of where a cursor may be left in `__UTF8` between calls.
  - The inductive invariant `UInv` says:
    - a parent cursor is in `__UTF8` only at the end of the buffer;
    - an idle innermost cursor in `__UTF8` sits where no continuation byte follows, as the `-1` return of json.h:135 leaves it;
    - during a call, the counter is 0 outside `__UTF8` and 1..3 inside it, except on the first byte of a call resumed in `__UTF8`;
    - a container handed out by the last call was returned in `__STRUCT`.
  - `DispatchUtf8` goes through the switch one state at a time. `FinishUInv` covers the end of a call, the write-back and the end-of-input return included. `NextUInv` goes action by action.

- **`Utf8StateInvariant`: `Spec => []UInv`.** The inductive invariant itself, stated as a theorem: the same three steps as `Utf8Fresh` (`InitUInv`, `NextIInv`/`NextOrdered`/`NextUInv`) combined with `PTL`. The run scan_values checks `UInv` on the small instance.

### `JsonCursorsProofs`

Under the same assumptions, this module extends `JsonScanProofs`:

- **`ImplementsCursors`: `Spec => CursorsRefined`.** The refinement of `JsonCursors`, step by step.
  - The initial state maps to `Cursors!Init`: `CursorStack` is `<<1>>`.
  - Under `IInv /\ NestedCursorsOrdered`, each action maps as follows:
    - `CallNext`, `CallEnter` and `ScanAgain` leave `buf`, `cur` and `top` alone: a stutter (`StackStutter`);
    - `ScanContinue` is a `Scan` to `cur[top] + 1` (`ScanStep`);
    - `ScanReturn` and `EndOfInput` end a call in `Finish`. Without a child this is a `Scan`, the write-back being `back`; when `spa_json_enter_container` enters, it is a `ScanEnter` (`FinishRefines`);
    - `Enter` is a `ScanEnter` that moves nothing (`EnterStep`);
    - `Drop` is the abstract `Drop`, as `SubSeq`.
  - `IInv` is needed for the free slot: a child made by `Finish` needs `top < MaxCursors`, which only the invariant gives during a call.
  - `StackType`, `MovedType` and `FunIsSeq` show that the stacks are sequences of the right length, so that `Append` and `SubSeq` apply (`AppendProperties` and `LenProperties` of `SequenceTheorems`).

### `UtilsProofs`

For every set of strings (`StringsAssumption`: byte strings without NUL), every nonempty set of delimiters (`DelimsAssumption`), every `max_tokens`, every `BufLen`, every `MaxEintr` and either build (`RandomAssumption`):

- **`UtilsTypeCorrect`: `Spec => []TypeOK`.**
  - The inductive invariant `SInv` adds what the typing needs: the caller's string holds no NUL, and a token pointer a splitter holds lies inside the string proper, because `pw_split_walk` only returns a token whose first byte is not NUL.
  - The lemmas state what the walk computes:
    - `SkipDelimsIn`/`SpanEndIn`: `strspn` and `strcspn` stop inside `p..Len + 1`;
    - `WalkShape`: the bounds of what `pw_split_walk` returns;
    - `PutNulType` and `PutNulByte`: what a NUL write changes.
  - The first stop of a scan exists because less-than is well founded on `Nat` (`NatLeast`, from `WellFoundedInduction`'s `WFMin`). No induction operator is instantiated.
- **`NulOnlyOverDelimsHolds`: `Spec => NulOnlyOverDelims`.** This is the action property.
  - The inductive invariant `WInv` says:
    - `pw_strip` runs on the caller's string;
    - only the splitters loop;
    - in the loop of `pw_split_ip`, the byte that ends the token held (`s[len]`, utils.c:103) is a delimiter, a NUL or the terminator.
  - The last point holds for two reasons. The walk that found the token stopped there (`WalkEnd`). The NUL written since, at the end of the previous token, can only have made that byte NUL.
  - `NextStepNul` turns `WInv` into the step property, using `PutNulOverDelim` and, for `pw_strip`, `LastKeptEnds`: the byte after the last one kept is whitespace or the terminator.
- **`StripCorrectHolds`: `Spec => []StripCorrect`.**
  - `StripResult` shows that `pw_strip`'s pointer and NUL delimit exactly `Trimmed(orig)`:
    - the first byte kept is the first non-whitespace byte (`SkipDelimsStops`);
    - the last byte kept is the greatest one (`NatGreatest`);
    - `CStringEnds` places the end of the C string at the NUL written.
  - The invariant is `SInv /\ WInv /\ StripCorrect`. `WInv` says that `SplitEnd` never ends a `pw_strip` call.
- **`NulPlacesInvariant`: `Spec => []WInv`.** The inductive invariant behind the two previous results, stated as a theorem (`InitWInv`, `NextWInv`, with `SInv`). The run utils_calls checks `WInv`.

- **`GetrandomContractHolds`: `Spec => []GetrandomContract`** and **`RandomFillsHolds`: `Spec => []RandomFills`.**
  - Neither property is inductive. When `pw_random` returns, its fill depends on the earlier `pw_getrandom` and on the seed, which the properties do not mention.
  - The inductive invariant `RInv` therefore says:
    - each `pc` belongs to its function, so the split actions never touch a random call;
    - from `rand_get` on, the PRNG is seeded and the seed is all kernel or all clock;
    - at each return of `pw_getrandom`, its contract (`Delivered`) holds of the buffer it filled.
  - `OutcomeShape` and `ResultContract` state what `make_random` can give and what `GetrandomResult` makes of it. `FunIsSeq` gives the lengths of the buffers.

### `EndpointProofs`

For all values of the constants; the argument uses no assumption about them:

- **`DestroyedOnceHolds`: `Spec => []DestroyedOnce`.**
  - The chain's state is not determined by `DestroyedOnce`: it says nothing about which frames are on the stack.
  - The inductive invariant `LifeInv` lists the eight states the chain can be in: before it, the six intermediate states of the two orders, and after it. Each state fixes `calls`, both pointers and the three counters.
  - Every action moves from one listed state to the next or leaves the chain alone (`QuietStep`). The handlers run only before the chain starts (`ListeningBeforeChain`).
- **`ImplementsLifecycle`: `Spec => Life!Spec`.** The safety part of `LifecycleRefined`.
  - Initial states map to the abstract initial state.
  - Under `LifeInv`, every step maps to one of:
    - a `Register` (the step of `event_info` or `impl_resource_pong` that sets `registered`);
    - a `Destroy` (each body of a destroy callback);
    - a `Free` (the frame of `global_destroy` that frees `impl`);
    - a stutter, which includes the crash in `event_info` (`EventInfoCrash`), since it leaves both objects and `registered` as they were.

### What stays with TLC

- **Liveness** (`CallsReturn`, `EventuallyRegistered`, the fairness part of `LifecycleRefined`): TLAPS does not handle `ENABLED` and fairness here.
- **Properties of the recursive definitions** (`JsonScanSwallow`'s `Loop`, `JsonValue`'s `Decode`): the provers cannot instantiate induction over them, and a module that declares a RECURSIVE operator cannot be given to the SMT backend. These modules are kept apart from `JsonScan`, which the proofs use.
- **`JsonScanSwallow`'s `EnterMatchesSwallow` and `JsonScanValues`'s `StringFitsCapacity`** are stated over those recursive definitions.
- **`SplitCorrect`** compares with a reference whose word starts come from `SetToSortSeq`, and the loop builds its result one `Append` at a time. Relating the two for every input needs induction over the data, so it stays with TLC. The walk's bounds and its NUL writes are proved (above).
- **`Endpoint`'s `TypeOK`** cannot be proved either. The types of `cparams`, `evq` and `rq` are those of sequences built by `SelectSeq` (`ChangedIds`) and `FlattenSeq` (`ClientServe`), and what those return for every input needs the same induction.

## 7. Not modelled

- **`is_float`, `parse_float`, `get_float`:** libc `strtof`.
- **`pw_random` called before `pw_random_init`:** the model runs them in `pw_init`'s order. Other orders depend on the library's users, which are outside this repository.
- **`pw_free_strv`, `pw_reallocarray`:** one-line wrappers.
- **Endpoint client fan-out:** per-client resources, their 32-id subscription arrays, `emit_info`/`emit_param`/`global_bind`.
- **Endpoint factory and module glue:** `create_object`, `endpoint_factory_init`, `factory_destroy`, `module_destroy`, `module_registered`.

## 8. Plan

1. Done:
   - `JsonScan` with its runs and proofs, `JsonScanSwallow`, and `JsonValue`/`JsonScanValues`.
   - `PwUtils`, with the random helpers and their proofs, and proofs of `pw_split_walk`'s bounds, of where the NULs land and of `pw_strip`'s result.
   - `Endpoint`, with the `EndpointLifecycle` refinement and the destroy-chain proofs.
   - `JsonCursors`, the abstract cursor stack, with `JsonScan`'s refinement checked (`CursorsRefined`) and proved (`ImplementsCursors`).
2. Next:
   - A token-level abstract specification, the tokens a cursor returns, refined by `JsonScan` through `JsonScanSwallow`'s shadow; its proof needs induction over the loop and would stay with TLC.
   - Bound clients in `Endpoint` (`method_subscribe_params` with its 32-id clamp at 128, `emit_param`).
3. Later:
   - An `Endpoint` run with larger info lists, under symmetry of the param ids.
   - An inductive argument for `SplitCorrect`, should the provers gain induction over sequences.
