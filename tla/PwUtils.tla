------------------------------- MODULE PwUtils -------------------------------
(***************************************************************************)
(* The helpers of pipewire/utils.c: pw_split_walk (32-44), the splitters *)
(* built on it, pw_split_strv (55-79) and pw_split_ip (92-111), pw_strip  *)
(* (136-152), and the random-byte helpers make_random, pw_getrandom,      *)
(* pw_random and pw_random_init (157-243).  A string is the byte sequence *)
(* of a C string; past its last byte lies the terminating NUL, and        *)
(* pw_split_ip and pw_strip write NULs into it.  Pointers into the string *)
(* are positions counted from 1, and 0 is NULL.  One call runs from Init  *)
(* to pc "done"; each iteration of a loop is one step.  For the random    *)
(* helpers a behaviour is pw_random_init followed by pw_random, the order *)
(* in which a process uses them (pw_init seeds first).                    *)
(***************************************************************************)
EXTENDS Integers, Sequences, SequencesExt

CONSTANTS
  Strings,     \* the strings a call is given
  Delims,      \* the delimiter (pw_split_*) or whitespace (pw_strip) bytes
  MaxTokens,   \* the values of max_tokens a caller passes
  BufLen,      \* buflen of the pw_random call
  MaxEintr,    \* bound on the EINTR failures in a row the kernel gives
  HaveGetrandom  \* the build's HAVE_GETRANDOM

ASSUME DelimsAssumption == Delims \subseteq 1..255 /\ Delims # {}
ASSUME StringsAssumption == Strings \subseteq Seq(1..255)
ASSUME MaxTokensAssumption == MaxTokens \subseteq Int
ASSUME RandomAssumption ==
  BufLen \in Nat /\ MaxEintr \in Nat /\ HaveGetrandom \in BOOLEAN

VARIABLES
  fn,       \* the function called: "strv", "ip", "strip" or "random"
  orig,     \* the string as the caller passed it
  str,      \* the string, with the NULs pw_split_ip and pw_strip wrote
  maxt,     \* max_tokens
  s,        \* the local s: the token found last (0 when NULL)
  len,      \* the local len: its length
  state,    \* the walk state (0 when NULL)
  n,        \* the token count
  tokens,   \* pw_split_ip: the pointers stored in tokens[]
  arr,      \* pw_split_strv: the strings added to arr
  area,     \* where each byte of buf and of the seed came from
  gret,     \* res in pw_getrandom, then its return value
  tries,    \* the EINTR failures of the current pw_getrandom in a row
  seeded,   \* random_state initialised by initstate_r
  pc

splitVars == <<orig, str, maxt, s, len, state, n, tokens, arr>>
rndVars == <<area, gret, tries, seeded>>
vars == <<fn, splitVars, rndVars, pc>>

(* sizeof(seed) in pw_random_init, and the Linux errno values the random *)
(* helpers meet.                                                         *)
SeedLen == 4
ENOENT == 2
EINTR == 4
EIO == 5
ENOSYS == 38
ENODATA == 61

(* The byte at position i: the NUL terminator past the end. *)
ByteAt(b, i) == IF i \in 1..Len(b) THEN b[i] ELSE 0

(* p + strspn(p, Delims): the first position from p not a delimiter. *)
SkipDelims(b, p) ==
  CHOOSE q \in p..Len(b) + 1 :
    ByteAt(b, q) \notin Delims /\ \A k \in p..q - 1 : ByteAt(b, k) \in Delims

(* p + strcspn(p, Delims): the first delimiter or NUL from p. *)
SpanEnd(b, p) ==
  CHOOSE q \in p..Len(b) + 1 :
    ByteAt(b, q) \in Delims \cup {0} /\ \A k \in p..q - 1 : ByteAt(b, k) \notin Delims \cup {0}

(* The C string at position p: the bytes up to the first NUL. *)
CString(b, p) ==
  LET e == CHOOSE q \in p..Len(b) + 1 : ByteAt(b, q) = 0 /\ \A k \in p..q - 1 : ByteAt(b, k) # 0
  IN SubSeq(b, p, e - 1)

(* *(p - 1) = '\0' for a position within the string; the terminator is   *)
(* already NUL.                                                           *)
PutNul(b, p) == IF p \in 1..Len(b) THEN [b EXCEPT ![p] = 0] ELSE b

(* Mutant of Walk: *len also counts the delimiter that ends the token. *)
WalkLenPlusOne(b, st) ==
  LET p == SkipDelims(b, IF st = 0 THEN 1 ELSE st)
  IN IF ByteAt(b, p) = 0 THEN [s |-> 0]
     ELSE [s |-> p, len |-> SpanEnd(b, p) - p + 1, state |-> SpanEnd(b, p) + 1]

(* pw_split_walk: NULL, leaving *len and *state alone, or the next token *)
(* and its length, *state set past it.                                  *)
Walk(b, st) ==
  LET p == SkipDelims(b, IF st = 0 THEN 1 ELSE st)
  IN IF ByteAt(b, p) = 0 THEN [s |-> 0]
     ELSE [s |-> p, len |-> SpanEnd(b, p) - p, state |-> SpanEnd(b, p)]

(* Takes the outcome w of a walk into s, len and state. *)
TakeWalk(w) ==
  /\ s' = w.s
  /\ len' = IF w.s = 0 THEN len ELSE w.len
  /\ state' = IF w.s = 0 THEN state ELSE w.state

Init ==
  /\ fn \in {"strv", "ip", "strip", "random"}
  /\ orig \in IF fn = "random" THEN {<<>>} ELSE Strings
  /\ str = orig
  /\ maxt \in IF fn = "random" THEN {0} ELSE MaxTokens
  /\ s = 0 /\ len = 0 /\ state = 0 /\ n = 0
  /\ tokens = <<>> /\ arr = <<>>
  /\ area = [buf |-> [i \in 1..BufLen |-> "old"], seed |-> [i \in 1..SeedLen |-> "old"]]
  /\ gret = 0 /\ tries = 0 /\ seeded = FALSE
  /\ pc = IF fn = "random" THEN "init_get" ELSE "start"

(* The first walk of both splitters (utils.c:64 and 99). *)
SplitBegin ==
  /\ pc = "start" /\ fn \in {"strv", "ip"}
  /\ TakeWalk(Walk(str, state))
  /\ pc' = "loop"
  /\ UNCHANGED <<rndVars, fn, orig, str, maxt, n, tokens, arr>>

(* An iteration of the loop of pw_split_strv (65-69): a copy of the       *)
(* token is added, then the next one is walked to.                        *)
StrvStep ==
  /\ pc = "loop" /\ fn = "strv"
  /\ s # 0 /\ n + 1 < maxt
  /\ arr' = Append(arr, SubSeq(str, s, s + len - 1))
  /\ TakeWalk(Walk(str, state))
  /\ n' = n + 1
  /\ UNCHANGED <<rndVars, fn, orig, str, maxt, tokens, pc>>

(* Mutant of IpStep: the token is terminated before the next walk. *)
IpTerminateFirst ==
  /\ pc = "loop" /\ fn = "ip"
  /\ s # 0 /\ n + 1 < maxt
  /\ str' = PutNul(str, s + len)
  /\ TakeWalk(Walk(str', state))
  /\ tokens' = Append(tokens, s)
  /\ n' = n + 1
  /\ UNCHANGED <<rndVars, fn, orig, maxt, arr, pc>>

(* An iteration of the loop of pw_split_ip (100-106): the next token is   *)
(* walked to, then the current one is terminated in place and stored.     *)
IpStep ==
  /\ pc = "loop" /\ fn = "ip"
  /\ s # 0 /\ n + 1 < maxt
  /\ TakeWalk(Walk(str, state))
  /\ str' = PutNul(str, s + len)
  /\ tokens' = Append(tokens, s)
  /\ n' = n + 1
  /\ UNCHANGED <<rndVars, fn, orig, maxt, arr, pc>>

(* The loop ends; a token left over is stored whole, the rest of the      *)
(* string with it (strv 70-73, ip 107-109).                               *)
SplitEnd ==
  /\ pc = "loop"
  /\ ~(s # 0 /\ n + 1 < maxt)
  /\ arr' = IF s # 0 /\ fn = "strv" THEN Append(arr, CString(str, s)) ELSE arr
  /\ tokens' = IF s # 0 /\ fn = "ip" THEN Append(tokens, s) ELSE tokens
  /\ n' = IF s # 0 THEN n + 1 ELSE n
  /\ pc' = "done"
  /\ UNCHANGED <<rndVars, fn, orig, str, maxt, s, len, state>>

(* The last byte from p on, before the NUL, that is not whitespace (0 if none). *)
LastKept(b, p) ==
  LET kept == {q \in p..Len(b) : ByteAt(b, q) \notin Delims
                                 /\ \A k \in p..q : ByteAt(b, k) # 0}
  IN IF kept = {} THEN 0 ELSE CHOOSE q \in kept : \A r \in kept : r <= q

(* Mutant of Strip: the NUL is written over the last byte kept. *)
StripCutsLast ==
  /\ pc = "start" /\ fn = "strip"
  /\ LET p == SkipDelims(str, 1)
         l == LastKept(str, p)
     IN /\ s' = p
        /\ str' = IF l # 0 THEN PutNul(str, l) ELSE PutNul(str, p)
  /\ pc' = "done"
  /\ UNCHANGED <<rndVars, fn, orig, maxt, len, state, n, tokens, arr>>

(* pw_strip (138-151): skip the leading whitespace, find the last byte    *)
(* that is not whitespace and end the string after it.                    *)
Strip ==
  /\ pc = "start" /\ fn = "strip"
  /\ LET p == SkipDelims(str, 1)
         l == LastKept(str, p)
     IN /\ s' = p
        /\ str' = IF l # 0 THEN PutNul(str, l + 1) ELSE PutNul(str, p)
  /\ pc' = "done"
  /\ UNCHANGED <<rndVars, fn, orig, maxt, len, state, n, tokens, arr>>

-----------------------------------------------------------------------------
(* The random helpers.  A byte is abstracted to where it came from:       *)
(* "old" (what the caller's memory held), "kernel", "prng" or "clock".    *)

(* What one make_random (157-176) can return on buflen bytes, with errno and *)
(* the number of bytes it wrote: getrandom's answer, or, when getrandom   *)
(* fails with ENOSYS or is not built, the outcome of open and read of     *)
(* /dev/urandom; read's errno survives the close (172-174).               *)
MakeRandomOutcomes(buflen) ==
  LET filled == {[res |-> k, errno |-> 0, n |-> k] : k \in 0..buflen}
      urandom == filled \cup {[res |-> -1, errno |-> e, n |-> 0] : e \in {ENOENT, EINTR, EIO}}
  IN IF HaveGetrandom THEN filled \cup {[res |-> -1, errno |-> EINTR, n |-> 0]} \cup urandom
                      ELSE urandom

(* Mutant of GetrandomResult: a short read is returned as it is. *)
GetrandomNoShortCheck(res, e, buflen) ==
  IF res = -1 THEN -e ELSE res

(* pw_getrandom's return (193-197) once make_random gave res, errno e. *)
GetrandomResult(res, e, buflen) ==
  IF res = -1 THEN -e ELSE IF res # buflen THEN -ENODATA ELSE res

(* The buffer of the pw_getrandom call running: the seed in               *)
(* pw_random_init, buf in pw_random.                                      *)
Target == IF pc = "init_get" THEN "seed" ELSE "buf"

(* One iteration of the do-while of pw_getrandom (190-192): make_random   *)
(* writes its bytes; on EINTR the loop goes round again, otherwise the    *)
(* call returns to pw_random_init (233) or pw_random (216).               *)
GetrandomStep ==
  /\ fn = "random" /\ pc \in {"init_get", "rand_get"}
  /\ LET buflen == Len(area[Target]) IN
     \E o \in MakeRandomOutcomes(buflen) :
       /\ o.errno = EINTR => tries < MaxEintr
       /\ area' = [area EXCEPT ![Target] = [i \in 1..buflen |-> IF i <= o.n THEN "kernel" ELSE @[i]]]
       /\ IF o.res = -1 /\ o.errno = EINTR
            THEN /\ tries' = tries + 1
                 /\ UNCHANGED <<gret, pc>>
            ELSE /\ gret' = GetrandomResult(o.res, o.errno, buflen)
                 /\ tries' = 0
                 /\ pc' = IF pc = "init_get" THEN "init_seed" ELSE "rand_fill"
  /\ UNCHANGED <<fn, splitVars, seeded>>

(* Mutant of RandomInitSeed: the clock fallback is not taken. *)
RandomInitNoClock ==
  /\ fn = "random" /\ pc = "init_seed"
  /\ seeded' = TRUE
  /\ pc' = "rand_get"
  /\ UNCHANGED <<fn, splitVars, area, gret, tries>>

(* The rest of pw_random_init (233-242): when pw_getrandom failed, the   *)
(* seed is the clock; initstate_r seeds random_state with it.  pw_random *)
(* is called next.                                                        *)
RandomInitSeed ==
  /\ fn = "random" /\ pc = "init_seed"
  /\ area' = IF gret < 0 THEN [area EXCEPT !.seed = [i \in 1..SeedLen |-> "clock"]] ELSE area
  /\ seeded' = TRUE
  /\ pc' = "rand_get"
  /\ UNCHANGED <<fn, splitVars, gret, tries>>

(* The rest of pw_random (216-227): when pw_getrandom failed, every byte  *)
(* of buf is drawn from random_r on random_state.                         *)
RandomFill ==
  /\ fn = "random" /\ pc = "rand_fill"
  /\ area' = IF gret < 0 THEN [area EXCEPT !.buf = [i \in 1..BufLen |-> "prng"]] ELSE area
  /\ pc' = "done"
  /\ UNCHANGED <<fn, splitVars, gret, tries, seeded>>

Next ==
  \/ SplitBegin \/ StrvStep \/ IpStep \/ SplitEnd \/ Strip
  \/ GetrandomStep \/ RandomInitSeed \/ RandomFill

Spec == Init /\ [][Next]_vars

-----------------------------------------------------------------------------
(* What the splitters should return, stated without the walk: the words   *)
(* of b, the maximal runs of non-delimiters, all of them when there are   *)
(* fewer than m, otherwise the first m - 1 and then the rest of b from    *)
(* the m-th word on, trailing delimiters included.                        *)
WordStarts(b) ==
  SetToSortSeq({p \in 1..Len(b) : b[p] \notin Delims /\ (p = 1 \/ b[p - 1] \in Delims)}, <)

Word(b, p) == SubSeq(b, p, SpanEnd(b, p) - 1)

Expected(b, m) ==
  LET w == WordStarts(b)
  IN IF Len(w) < m THEN [i \in 1..Len(w) |-> Word(b, w[i])]
     ELSE [i \in 1..m |-> IF i < m THEN Word(b, w[i]) ELSE SubSeq(b, w[m], Len(b))]

(* What the call returned: strv's array, or the C strings ip's pointers   *)
(* denote in the string as it left it.                                    *)
Result == IF fn = "strv" THEN arr ELSE [i \in 1..Len(tokens) |-> CString(str, tokens[i])]

(* b without its leading and trailing whitespace. *)
Trimmed(b) ==
  LET kept == {q \in 1..Len(b) : b[q] \notin Delims}
  IN IF kept = {} THEN <<>>
     ELSE SubSeq(b, CHOOSE q \in kept : \A r \in kept : q <= r,
                    CHOOSE q \in kept : \A r \in kept : r <= q)

Provenance == {"old", "kernel", "prng", "clock"}

TypeOK ==
  /\ fn \in {"strv", "ip", "strip", "random"}
  /\ str \in Seq(0..255) /\ Len(str) = Len(orig)
  /\ s \in 0..Len(orig) + 1
  /\ state \in 0..Len(orig) + 1
  /\ n \in Nat
  /\ tokens \in Seq(1..Len(orig))
  /\ area \in [buf : Seq(Provenance), seed : Seq(Provenance)]
  /\ Len(area.buf) = BufLen /\ Len(area.seed) = SeedLen
  /\ gret \in Int /\ tries \in 0..MaxEintr /\ seeded \in BOOLEAN
  /\ pc \in {"start", "loop", "init_get", "init_seed", "rand_get", "rand_fill", "done"}

(* pw_split_strv and pw_split_ip, for max_tokens >= 1, return the words   *)
(* of the string, the last token holding the rest when there are at least *)
(* max_tokens, and report their number in n; for ip the NULs it      *)
(* writes while walking on must not cut a token it has yet to find.       *)
SplitCorrect ==
  (pc = "done" /\ fn \in {"strv", "ip"} /\ maxt >= 1) =>
    /\ Result = Expected(orig, maxt)
    /\ n = Len(Result)

(* The doc comment of pw_split_ip (utils.c:84-85): tokens is "an array to *)
(* hold up to max_tokens of strings", so pw_split_ip never stores more    *)
(* than max_tokens tokens into the caller's array.                        *)
SplitWithinMax == (pc = "done" /\ fn = "ip") => n <= maxt

(* The doc comments of pw_split_ip and pw_strip (utils.c:86-87, 133-134): *)
(* the string is modified in place, split "at delimiter characters" and   *)
(* stripped of whitespace, so a NUL they write lands only on a delimiter  *)
(* or whitespace byte, never on a byte of a token or of the kept text.    *)
NulOnlyOverDelims ==
  [][\A i \in 1..Len(str) : str'[i] # str[i] => str[i] \in Delims /\ str'[i] = 0]_str

(* pw_strip returns the string without its leading and trailing          *)
(* whitespace, the NUL it writes ending it right after the last byte kept. *)
StripCorrect == (pc = "done" /\ fn = "strip") => CString(str, s) = Trimmed(orig)

(* pw_getrandom (utils.c:186-199) returns buflen only when make_random    *)
(* filled the whole buffer, whatever mix of EINTR retries and short reads *)
(* the kernel gives; otherwise a negative errno, never -EINTR, which the  *)
(* loop retries.                                                          *)
GetrandomContract ==
  (fn = "random" /\ pc \in {"init_seed", "rand_fill"}) =>
    LET b == area[IF pc = "init_seed" THEN "seed" ELSE "buf"] IN
    /\ gret >= 0 => gret = Len(b) /\ \A i \in 1..Len(b) : b[i] = "kernel"
    /\ gret < 0 => gret # -EINTR

(* pw_random (utils.c:214-232) leaves no byte of buf as it was: each one  *)
(* comes from the kernel or from the PRNG, and a PRNG fallback draws from *)
(* random_state seeded by pw_random_init with a seed the kernel or the    *)
(* clock wrote whole, whether the seed's own pw_getrandom failed outright *)
(* or after a short read.                                                 *)
RandomFills ==
  (fn = "random" /\ pc = "done") =>
    /\ \A i \in 1..BufLen : area.buf[i] \in {"kernel", "prng"}
    /\ (\E i \in 1..BufLen : area.buf[i] = "prng") =>
         seeded /\ \A j \in 1..SeedLen : area.seed[j] \in {"kernel", "clock"}

=============================================================================
