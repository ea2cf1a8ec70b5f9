----------------------------- MODULE UtilsProofs -----------------------------
(***************************************************************************)
(* Proofs about the helpers of utils.c, for every buffer length, every   *)
(* bound on EINTR failures and either build (HAVE_GETRANDOM or not):      *)
(* pw_getrandom's contract (GetrandomContract), the fill of pw_random     *)
(* (RandomFills) and, for every set of strings and delimiters, TypeOK    *)
(* and that the NULs pw_split_ip and pw_strip write land only on         *)
(* delimiters (NulOnlyOverDelims).  The splitters' results compare with  *)
(* SetToSortSeq and stay with TLC.                                       *)
(***************************************************************************)
EXTENDS PwUtils, SequenceTheorems, WellFoundedInduction, TLAPS

RandomPcs == {"init_get", "init_seed", "rand_get", "rand_fill", "done"}

(* What pw_getrandom promises at its return into a buffer b of m bytes:  *)
(* all m bytes from the kernel, or an error that is not EINTR.           *)
Delivered(b, m) ==
  /\ gret >= 0 => gret = m /\ \A i \in 1..m : b[i] = "kernel"
  /\ gret < 0 => gret # -EINTR

(* The inductive invariant.  The pc of a call belongs to its function,   *)
(* so the split actions never touch a random call; from rand_get on the  *)
(* PRNG is seeded from the kernel or the clock; at each return of        *)
(* pw_getrandom its contract holds of the buffer it filled.              *)
RInv ==
  /\ area \in [buf : [1..BufLen -> Provenance], seed : [1..SeedLen -> Provenance]]
  /\ gret \in Int /\ seeded \in BOOLEAN
  /\ fn = "random" => pc \in RandomPcs
  /\ fn # "random" => pc \in {"start", "loop", "done"}
  /\ fn = "random" /\ pc \in {"rand_get", "rand_fill", "done"} =>
       seeded /\ \A j \in 1..SeedLen : area.seed[j] \in {"kernel", "clock"}
  /\ fn = "random" /\ pc = "init_seed" => Delivered(area.seed, SeedLen)
  /\ fn = "random" /\ pc = "rand_fill" => Delivered(area.buf, BufLen)
  /\ fn = "random" /\ pc = "done" =>
       \A i \in 1..BufLen : area.buf[i] \in {"kernel", "prng"}

(* The splitters' half of TypeOK, with what keeps it inductive: a token  *)
(* pointer a splitter holds is never the terminator's position, since     *)
(* pw_split_walk only returns a token that starts with a byte that is not *)
(* NUL, so tokens[] only ever receives positions inside the string.       *)
SInv ==
  /\ fn \in {"strv", "ip", "strip", "random"}
  /\ orig \in Seq(1..255)
  /\ str \in Seq(0..255) /\ Len(str) = Len(orig)
  /\ s \in 0..Len(orig) + 1
  /\ state \in 0..Len(orig) + 1
  /\ fn \in {"strv", "ip"} /\ s # 0 => s \in 1..Len(orig)
  /\ n \in Nat
  /\ tokens \in Seq(1..Len(orig))
  /\ tries \in 0..MaxEintr

(* Where the NULs of pw_split_ip and pw_strip land.  pw_strip runs on the *)
(* string as the caller passed it; in the loop of pw_split_ip, the byte   *)
(* that ends the token held (s[len], utils.c:103) is a delimiter or NUL    *)
(* inside the string or its terminator: the walk that found the token     *)
(* stopped there, and the NUL written since, at the end of the token      *)
(* before, can only have made it NUL.  Only the splitters loop, so       *)
(* SplitEnd never ends a pw_strip call.                                   *)
WInv ==
  /\ pc = "start" => str = orig
  /\ pc = "loop" => fn \in {"strv", "ip"}
  /\ fn = "ip" /\ pc = "loop" /\ s # 0 =>
       /\ s + len \in 1..Len(str) + 1
       /\ ByteAt(str, s + len) \in Delims \cup {0}

(* One step of NulOnlyOverDelims. *)
StepNul == \A i \in 1..Len(str) : str'[i] # str[i] => str[i] \in Delims /\ str'[i] = 0

-----------------------------------------------------------------------------
(* A function on 1..m is a sequence of length m. *)
LEMMA FunIsSeq ==
  ASSUME NEW S, NEW m \in Nat, NEW f \in [1..m -> S]
  PROVE  f \in Seq(S) /\ Len(f) = m
<1>1. f \in Seq(S)
  BY SeqDef
<1>2. DOMAIN f = 1..Len(f) /\ Len(f) \in Nat
  BY <1>1, LenProperties
<1>3. QED
  BY <1>1, <1>2

(* A nonempty set of naturals has a least element: less-than is well    *)
(* founded on Nat.                                                        *)
LEMMA NatLeast ==
  ASSUME NEW T \in SUBSET Nat, T # {}
  PROVE  \E m \in T : \A q \in T : m <= q
<1>1. PICK m \in T : \A q \in T : ~(<<q, m>> \in OpToRel(<, Nat))
  BY WFMin, NatLessThanWellFounded
<1>2. \A q \in T : ~(q < m)
  BY <1>1 DEF OpToRel
<1>3. QED
  BY <1>2

(* The first position from p on whose byte satisfies Stop exists within *)
(* the string or at its terminator when the terminator does: the scans   *)
(* of strspn and strcspn stop inside p..Len(b) + 1.                       *)
LEMMA FirstStop ==
  ASSUME NEW b \in Seq(0..255), NEW p \in 1..Len(b) + 1, NEW Stop,
         ByteAt(b, Len(b) + 1) \in Stop
  PROVE  \E q \in p..Len(b) + 1 :
           ByteAt(b, q) \in Stop /\ \A k \in p..q - 1 : ByteAt(b, k) \notin Stop
<1> DEFINE T == {q \in p..Len(b) + 1 : ByteAt(b, q) \in Stop}
<1>1. T \in SUBSET Nat /\ T # {}
  BY DEF ByteAt
<1>2. PICK m \in T : \A q \in T : m <= q
  BY <1>1, NatLeast
<1>3. \A k \in p..m - 1 : ByteAt(b, k) \notin Stop
  BY <1>2
<1>4. QED
  BY <1>2, <1>3

(* strspn from a position inside the string or at its terminator stops  *)
(* there or later, at the terminator at the latest.                      *)
LEMMA SkipDelimsIn ==
  ASSUME NEW b \in Seq(0..255), NEW p \in 1..Len(b) + 1
  PROVE  SkipDelims(b, p) \in p..Len(b) + 1
<1>1. ByteAt(b, Len(b) + 1) \in (0..255) \ Delims
  BY DelimsAssumption DEF ByteAt
<1>2. \E q \in p..Len(b) + 1 :
        ByteAt(b, q) \in (0..255) \ Delims /\ \A k \in p..q - 1 : ByteAt(b, k) \notin (0..255) \ Delims
  BY <1>1, FirstStop
<1>3. \A q \in p..Len(b) + 1 : ByteAt(b, q) \in 0..255
  BY ElementOfSeq DEF ByteAt
<1>4. \E q \in p..Len(b) + 1 :
        ByteAt(b, q) \notin Delims /\ \A k \in p..q - 1 : ByteAt(b, k) \in Delims
  BY <1>2, <1>3
<1>5. QED
  BY <1>4 DEF SkipDelims

(* strcspn likewise stops at a delimiter or at the terminator. *)
LEMMA SpanEndIn ==
  ASSUME NEW b \in Seq(0..255), NEW p \in 1..Len(b) + 1
  PROVE  SpanEnd(b, p) \in p..Len(b) + 1
<1>1. ByteAt(b, Len(b) + 1) \in Delims \cup {0}
  BY DEF ByteAt
<1>2. QED
  BY <1>1, FirstStop DEF SpanEnd

(* pw_split_walk from a state inside the string or at its terminator     *)
(* returns NULL or a token that starts inside the string, its state left  *)
(* inside the string or at its terminator.                               *)
LEMMA WalkShape ==
  ASSUME NEW b \in Seq(0..255), NEW st \in 0..Len(b) + 1
  PROVE  \/ Walk(b, st).s = 0
         \/ /\ Walk(b, st).s \in 1..Len(b)
            /\ Walk(b, st).state \in 1..Len(b) + 1
<1> DEFINE p == SkipDelims(b, IF st = 0 THEN 1 ELSE st)
<1>1. p \in 1..Len(b) + 1
  BY SkipDelimsIn
<1>2. CASE ByteAt(b, p) = 0
  BY <1>2 DEF Walk
<1>3. CASE ByteAt(b, p) # 0
  <2>1. p \in 1..Len(b)
    BY <1>1, <1>3 DEF ByteAt
  <2>2. SpanEnd(b, p) \in p..Len(b) + 1
    BY <2>1, SpanEndIn
  <2>3. QED
    BY <1>3, <2>1, <2>2 DEF Walk
<1>4. QED
  BY <1>2, <1>3

(* Writing a NUL keeps a string a byte string of the same length. *)
LEMMA PutNulType ==
  ASSUME NEW b \in Seq(0..255), NEW p
  PROVE  PutNul(b, p) \in Seq(0..255) /\ Len(PutNul(b, p)) = Len(b)
<1>1. CASE p \in 1..Len(b)
  BY <1>1, ExceptSeq DEF PutNul
<1>2. CASE p \notin 1..Len(b)
  BY <1>2 DEF PutNul
<1>3. QED
  BY <1>1, <1>2

(* Writing a NUL at p changes the byte at p, if p is inside the string, *)
(* and no other.                                                         *)
LEMMA PutNulByte ==
  ASSUME NEW b \in Seq(0..255), NEW p, NEW q
  PROVE  ByteAt(PutNul(b, p), q) = IF q = p /\ q \in 1..Len(b) THEN 0 ELSE ByteAt(b, q)
<1>1. CASE p \in 1..Len(b)
  BY <1>1, ExceptSeq DEF PutNul, ByteAt
<1>2. CASE p \notin 1..Len(b)
  BY <1>2 DEF PutNul, ByteAt
<1>3. QED
  BY <1>1, <1>2

(* strspn stops on a byte that is no delimiter, having passed only       *)
(* delimiters; strcspn stops on a delimiter or the NUL.                  *)
LEMMA SkipDelimsStops ==
  ASSUME NEW b \in Seq(0..255), NEW p \in 1..Len(b) + 1
  PROVE  /\ ByteAt(b, SkipDelims(b, p)) \notin Delims
         /\ \A k \in p..SkipDelims(b, p) - 1 : ByteAt(b, k) \in Delims
<1>1. ByteAt(b, Len(b) + 1) \in (0..255) \ Delims
  BY DelimsAssumption DEF ByteAt
<1>2. \E q \in p..Len(b) + 1 :
        ByteAt(b, q) \in (0..255) \ Delims /\ \A k \in p..q - 1 : ByteAt(b, k) \notin (0..255) \ Delims
  BY <1>1, FirstStop
<1>3. \A q \in p..Len(b) + 1 : ByteAt(b, q) \in 0..255
  BY ElementOfSeq DEF ByteAt
<1>4. \E q \in p..Len(b) + 1 :
        ByteAt(b, q) \notin Delims /\ \A k \in p..q - 1 : ByteAt(b, k) \in Delims
  BY <1>2, <1>3
<1>5. QED
  BY <1>4 DEF SkipDelims

LEMMA SpanEndStops ==
  ASSUME NEW b \in Seq(0..255), NEW p \in 1..Len(b) + 1
  PROVE  ByteAt(b, SpanEnd(b, p)) \in Delims \cup {0}
<1>1. ByteAt(b, Len(b) + 1) \in Delims \cup {0}
  BY DEF ByteAt
<1>2. QED
  BY <1>1, FirstStop DEF SpanEnd

(* A token pw_split_walk returns ends (s + len) on a delimiter or on the *)
(* NUL, inside the string or at its terminator.                         *)
LEMMA WalkEnd ==
  ASSUME NEW b \in Seq(0..255), NEW st \in 0..Len(b) + 1, Walk(b, st).s # 0
  PROVE  /\ Walk(b, st).s + Walk(b, st).len \in 1..Len(b) + 1
         /\ ByteAt(b, Walk(b, st).s + Walk(b, st).len) \in Delims \cup {0}
<1> DEFINE p == SkipDelims(b, IF st = 0 THEN 1 ELSE st)
<1>1. p \in 1..Len(b) + 1
  BY SkipDelimsIn
<1>2. ByteAt(b, p) # 0
  BY DEF Walk
<1>3. p \in 1..Len(b)
  BY <1>1, <1>2 DEF ByteAt
<1>4. SpanEnd(b, p) \in p..Len(b) + 1 /\ ByteAt(b, SpanEnd(b, p)) \in Delims \cup {0}
  BY <1>3, SpanEndIn, SpanEndStops
<1>5. Walk(b, st).s + Walk(b, st).len = SpanEnd(b, p)
  BY <1>2, <1>3, <1>4 DEF Walk
<1>6. QED
  BY <1>3, <1>4, <1>5

(* A nonempty set of naturals bounded by N has a greatest element. *)
LEMMA NatGreatest ==
  ASSUME NEW N \in Nat, NEW T \in SUBSET (0..N), T # {}
  PROVE  \E m \in T : \A q \in T : q <= m
<1> DEFINE U == {N - q : q \in T}
<1>1. U \in SUBSET Nat /\ U # {}
  <2>1. \A q \in T : N - q \in Nat
    OBVIOUS
  <2>2. QED
    BY <2>1
<1>2. PICK u \in U : \A v \in U : u <= v
  BY <1>1, NatLeast
<1>3. PICK m \in T : u = N - m
  OBVIOUS
<1>4. \A q \in T : N - m <= N - q
  BY <1>2, <1>3
<1>5. QED
  BY <1>4

(* The caller's string holds no NUL before its terminator. *)
LEMMA NoNulBytes ==
  ASSUME NEW b \in Seq(1..255)
  PROVE  /\ b \in Seq(0..255)
         /\ \A k \in 1..Len(b) : ByteAt(b, k) = b[k] /\ b[k] # 0
<1>1. Seq(1..255) \subseteq Seq(0..255)
  OBVIOUS
<1>2. SUFFICES ASSUME NEW k \in 1..Len(b) PROVE ByteAt(b, k) = b[k] /\ b[k] # 0
  BY <1>1
<1>3. b[k] \in 1..255
  BY ElementOfSeq
<1>4. ByteAt(b, k) = b[k]
  BY Zenon DEF ByteAt
<1>5. b[k] # 0
  <2>1. 0 \notin 1..255
    OBVIOUS
  <2>2. QED
    BY Zenon, <1>3, <2>1
<1>6. QED
  BY Zenon, <1>4, <1>5

(* On the caller's string, which holds no NUL, the last byte pw_strip    *)
(* keeps from p on is followed by whitespace or by the terminator, and    *)
(* when it keeps none, p, a byte that is not whitespace, is the          *)
(* terminator.                                                            *)
LEMMA LastKeptEnds ==
  ASSUME NEW b \in Seq(1..255), NEW p \in 1..Len(b) + 1, ByteAt(b, p) \notin Delims
  PROVE  /\ LastKept(b, p) = 0 => p = Len(b) + 1
         /\ LastKept(b, p) # 0 =>
              LastKept(b, p) \in 1..Len(b) /\ (LastKept(b, p) + 1 <= Len(b) => b[LastKept(b, p) + 1] \in Delims)
<1> DEFINE kept == {q \in p..Len(b) : ByteAt(b, q) \notin Delims
                                      /\ \A k \in p..q : ByteAt(b, k) # 0}
<1>0. \A k \in 1..Len(b) : ByteAt(b, k) = b[k] /\ b[k] # 0
  BY NoNulBytes
<1>1. \A q \in p..Len(b) : q \in kept <=> b[q] \notin Delims
  BY <1>0
<1>2. CASE kept = {}
  <2>1. LastKept(b, p) = 0
    BY <1>2 DEF LastKept
  <2>2. p = Len(b) + 1
    BY <1>1, <1>2 DEF ByteAt
  <2>3. QED
    BY <2>1, <2>2
<1>3. CASE kept # {}
  <2>0. Len(b) \in Nat /\ kept \in SUBSET (0..Len(b))
    OBVIOUS
  <2>1. \E m \in kept : \A q \in kept : q <= m
    BY <1>3, <2>0, NatGreatest
  <2>2. LastKept(b, p) \in kept /\ \A q \in kept : q <= LastKept(b, p)
    BY <1>3, <2>1 DEF LastKept
  <2>3. LastKept(b, p) + 1 <= Len(b) => b[LastKept(b, p) + 1] \in Delims
    BY <1>1, <2>2
  <2>4. QED
    BY <2>2, <2>3
<1>4. QED
  BY <1>2, <1>3

(* The C string at p runs up to the first NUL from p on. *)
LEMMA CStringEnds ==
  ASSUME NEW b \in Seq(0..255), NEW p \in Int, NEW e \in p..Len(b) + 1,
         ByteAt(b, e) = 0, \A k \in p..e - 1 : ByteAt(b, k) # 0
  PROVE  CString(b, p) = SubSeq(b, p, e - 1)
<1>1. \A q \in p..Len(b) + 1 :
        (ByteAt(b, q) = 0 /\ \A k \in p..q - 1 : ByteAt(b, k) # 0) <=> q = e
  OBVIOUS
<1>2. (CHOOSE q \in p..Len(b) + 1 : ByteAt(b, q) = 0 /\ \A k \in p..q - 1 : ByteAt(b, k) # 0) = e
  BY <1>1
<1>3. QED
  BY <1>2 DEF CString

(* pw_strip on the caller's string: the C string from the first byte     *)
(* that is not whitespace, after the NUL written past the last one, is   *)
(* the string without its leading and trailing whitespace.               *)
LEMMA StripResult ==
  ASSUME NEW b \in Seq(1..255)
  PROVE  LET p == SkipDelims(b, 1)
             l == LastKept(b, p)
         IN  CString(IF l # 0 THEN PutNul(b, l + 1) ELSE PutNul(b, p), p) = Trimmed(b)
<1> DEFINE p == SkipDelims(b, 1)
           l == LastKept(b, p)
           T == {q \in 1..Len(b) : b[q] \notin Delims}
           K == {q \in p..Len(b) : ByteAt(b, q) \notin Delims /\ \A k \in p..q : ByteAt(b, k) # 0}
<1> SUFFICES CString(IF l # 0 THEN PutNul(b, l + 1) ELSE PutNul(b, p), p) = Trimmed(b)
  OBVIOUS
<1>1. b \in Seq(0..255) /\ \A k \in 1..Len(b) : ByteAt(b, k) = b[k] /\ b[k] # 0
  BY NoNulBytes
<1>2. p \in 1..Len(b) + 1 /\ ByteAt(b, p) \notin Delims /\ \A k \in 1..p - 1 : ByteAt(b, k) \in Delims
  BY <1>1, SkipDelimsIn, SkipDelimsStops
<1>3. T = K
  BY <1>1, <1>2
<1>4. /\ l = 0 => p = Len(b) + 1
      /\ l # 0 => l \in 1..Len(b)
  BY <1>1, <1>2, LastKeptEnds
<1>5. CASE T = {}
  <2>1. l = 0
    BY <1>3, <1>5 DEF LastKept
  <2>2. p = Len(b) + 1
    BY <2>1, <1>4
  <2>3. PutNul(b, p) = b
    BY <2>2 DEF PutNul
  <2>4. ByteAt(b, Len(b) + 1) = 0
    BY DEF ByteAt
  <2>5. CString(b, p) = << >>
    <3>1. CString(b, p) = SubSeq(b, Len(b) + 1, Len(b))
      BY <1>1, <2>2, <2>4, CStringEnds
    <3>2. SubSeq(b, Len(b) + 1, Len(b)) = << >>
      BY SubSeqEmpty
    <3>3. QED
      BY <3>1, <3>2
  <2>6. Trimmed(b) = << >>
    BY <1>5 DEF Trimmed
  <2>7. QED
    BY <2>1, <2>3, <2>5, <2>6
<1>6. CASE T # {}
  <2>1. l \in K /\ \A q \in K : q <= l
    <3>0. Len(b) \in Nat /\ K \in SUBSET (0..Len(b)) /\ K # {}
      BY <1>2, <1>3, <1>6
    <3>1. \E m \in K : \A q \in K : q <= m
      BY <3>0, NatGreatest
    <3>2. QED
      BY <3>1, <1>3, <1>6 DEF LastKept
  <2>2. l \in 1..Len(b) /\ p <= l /\ p \in T /\ \A q \in T : p <= q
    BY <1>1, <1>2, <1>3, <2>1
  <2>3. Trimmed(b) = SubSeq(b, p, l)
    <3>1. (CHOOSE q \in T : \A r \in T : q <= r) = p
      BY <2>2
    <3>2. (CHOOSE q \in T : \A r \in T : r <= q) = l
      BY <1>3, <2>1
    <3>3. QED
      BY <1>6, <3>1, <3>2 DEF Trimmed
  <2> DEFINE c == PutNul(b, l + 1)
  <2>4. Len(c) = Len(b)
    BY <1>1, PutNulType
  <2>5. \A q : ByteAt(c, q) = IF q = l + 1 /\ q \in 1..Len(b) THEN 0 ELSE ByteAt(b, q)
    BY <1>1, PutNulByte
  <2>6. CString(c, p) = SubSeq(c, p, l)
    <3>1. ByteAt(c, l + 1) = 0
      BY <2>2, <2>5 DEF ByteAt
    <3>2. \A k \in p..l : ByteAt(c, k) # 0
      BY <1>1, <2>2, <2>5
    <3>3. c \in Seq(0..255)
      BY <1>1, PutNulType
    <3>4. p \in Int /\ l + 1 \in p..Len(c) + 1 /\ \A k \in p..(l + 1) - 1 : ByteAt(c, k) # 0
      BY <1>2, <2>2, <2>4, <3>2
    <3>5. CString(c, p) = SubSeq(c, p, (l + 1) - 1)
      BY <3>1, <3>3, <3>4, CStringEnds
    <3>6. (l + 1) - 1 = l
      BY <2>2
    <3>7. QED
      BY Zenon, <3>5, <3>6
  <2>7. SubSeq(c, p, l) = SubSeq(b, p, l)
    BY <2>2 DEF PutNul
  <2>9. l # 0
    BY <2>2
  <2>10. QED
    BY Zenon, <2>3, <2>6, <2>7, <2>9
<1>7. QED
  BY <1>5, <1>6

(* A walk taken into s, len and state keeps the splitter's pointers    *)
(* inside the string, and a token it holds inside the string proper.   *)
LEMMA TakeWalkSInv ==
  ASSUME SInv, TakeWalk(Walk(str, state))
  PROVE  /\ s' \in 0..Len(orig) + 1 /\ state' \in 0..Len(orig) + 1
         /\ s' # 0 => s' \in 1..Len(orig)
<1>1. \/ Walk(str, state).s = 0
      \/ /\ Walk(str, state).s \in 1..Len(str)
         /\ Walk(str, state).state \in 1..Len(str) + 1
  BY WalkShape DEF SInv
<1>2. QED
  BY <1>1 DEF SInv, TakeWalk

LEMMA InitSInv == Init => SInv
<1> SUFFICES ASSUME Init PROVE SInv
  OBVIOUS
<1>1. orig \in Seq(1..255)
  BY StringsAssumption, EmptySeq DEF Init
<1>2. str \in Seq(0..255)
  <2>1. Seq(1..255) \subseteq Seq(0..255)
    OBVIOUS
  <2>2. QED
    BY <1>1, <2>1 DEF Init
<1>3. QED
  BY <1>1, <1>2, RandomAssumption DEF Init, SInv

LEMMA NextSInv == SInv /\ [Next]_vars => SInv'
<1> SUFFICES ASSUME SInv, [Next]_vars PROVE SInv'
  OBVIOUS
<1>1. CASE SplitBegin
  BY <1>1, TakeWalkSInv DEF SplitBegin, SInv, rndVars
<1>2. CASE StrvStep
  BY <1>2, TakeWalkSInv DEF StrvStep, SInv, rndVars
<1>3. CASE IpStep
  <2>1. s \in 1..Len(orig)
    BY <1>3 DEF IpStep, SInv
  <2>2. tokens' \in Seq(1..Len(orig))
    BY <1>3, <2>1, AppendProperties DEF IpStep, SInv
  <2>3. str' \in Seq(0..255) /\ Len(str') = Len(str)
    BY <1>3, PutNulType DEF IpStep, SInv
  <2>4. QED
    BY <1>3, <2>2, <2>3, TakeWalkSInv DEF IpStep, SInv, rndVars
<1>4. CASE SplitEnd
  <2>1. tokens' \in Seq(1..Len(orig))
    <3>1. CASE s # 0 /\ fn = "ip"
      BY <1>4, <3>1, AppendProperties DEF SplitEnd, SInv
    <3>2. CASE ~(s # 0 /\ fn = "ip")
      BY <1>4, <3>2 DEF SplitEnd, SInv
    <3>3. QED
      BY <3>1, <3>2
  <2>2. QED
    BY <1>4, <2>1 DEF SplitEnd, SInv, rndVars
<1>5. CASE Strip
  <2>1. SkipDelims(str, 1) \in 1..Len(str) + 1
    BY SkipDelimsIn DEF SInv
  <2>2. \A q : PutNul(str, q) \in Seq(0..255) /\ Len(PutNul(str, q)) = Len(str)
    BY PutNulType DEF SInv
  <2>3. QED
    BY <1>5, <2>1, <2>2 DEF Strip, SInv, rndVars
<1>6. CASE GetrandomStep
  BY <1>6, RandomAssumption DEF GetrandomStep, SInv, splitVars
<1>7. CASE RandomInitSeed
  BY <1>7 DEF RandomInitSeed, SInv, splitVars
<1>8. CASE RandomFill
  BY <1>8 DEF RandomFill, SInv, splitVars
<1>9. CASE UNCHANGED vars
  BY <1>9 DEF vars, splitVars, rndVars, SInv
<1>10. QED
  BY <1>1, <1>2, <1>3, <1>4, <1>5, <1>6, <1>7, <1>8, <1>9 DEF Next

(* A NUL written at q over a delimiter, a NUL or the terminator changes  *)
(* no other byte, and only a delimiter into a NUL.                      *)
LEMMA PutNulOverDelim ==
  ASSUME NEW b \in Seq(0..255), NEW q,
         q \in 1..Len(b) => b[q] \in Delims \cup {0}
  PROVE  \A i \in 1..Len(b) : PutNul(b, q)[i] # b[i] => b[i] \in Delims /\ PutNul(b, q)[i] = 0
<1>1. CASE q \in 1..Len(b)
  BY <1>1 DEF PutNul
<1>2. CASE q \notin 1..Len(b)
  BY <1>2 DEF PutNul
<1>3. QED
  BY <1>1, <1>2

LEMMA InitWInv == Init => WInv
BY DEF Init, WInv

LEMMA NextWInv == SInv /\ WInv /\ [Next]_vars => WInv'
<1> SUFFICES ASSUME SInv, WInv, [Next]_vars PROVE WInv'
  OBVIOUS
<1>1. CASE SplitBegin
  <2>1. str' = orig' /\ state \in 0..Len(str) + 1 /\ str \in Seq(0..255)
    BY <1>1, Zenon DEF SplitBegin, WInv, SInv
  <2>2. Walk(str, state).s # 0 =>
          /\ Walk(str, state).s + Walk(str, state).len \in 1..Len(str) + 1
          /\ ByteAt(str, Walk(str, state).s + Walk(str, state).len) \in Delims \cup {0}
    BY <2>1, WalkEnd
  <2>3. QED
    BY <1>1, <2>1, <2>2 DEF SplitBegin, TakeWalk, WInv
<1>2. CASE IpStep
  <2> DEFINE w == Walk(str, state)
  <2>1. state \in 0..Len(str) + 1 /\ str \in Seq(0..255)
    BY DEF SInv
  <2>2. w.s # 0 =>
          /\ w.s + w.len \in 1..Len(str) + 1
          /\ ByteAt(str, w.s + w.len) \in Delims \cup {0}
    BY <2>1, WalkEnd
  <2>3. \A q : ByteAt(str', q) = IF q = s + len /\ q \in 1..Len(str) THEN 0 ELSE ByteAt(str, q)
    BY <1>2, <2>1, PutNulByte DEF IpStep
  <2>4. Len(str') = Len(str)
    BY <1>2, <2>1, PutNulType DEF IpStep
  <2>5. s' = w.s /\ (w.s # 0 => len' = w.len) /\ pc' = "loop" /\ fn' = fn /\ fn = "ip"
    BY <1>2, Zenon DEF IpStep, TakeWalk
  <2>6. pc' # "start"
    BY <2>5
  <2>7. QED
    BY <2>2, <2>3, <2>4, <2>5, <2>6 DEF WInv
<1>3. CASE StrvStep
  BY <1>3 DEF StrvStep, WInv
<1>4. CASE SplitEnd
  BY <1>4 DEF SplitEnd, WInv
<1>5. CASE Strip
  BY <1>5 DEF Strip, WInv
<1>6. CASE GetrandomStep
  BY <1>6 DEF GetrandomStep, WInv
<1>7. CASE RandomInitSeed
  BY <1>7 DEF RandomInitSeed, WInv
<1>8. CASE RandomFill
  BY <1>8 DEF RandomFill, WInv
<1>9. CASE UNCHANGED vars
  BY <1>9 DEF vars, splitVars, rndVars, WInv
<1>10. QED
  BY <1>1, <1>2, <1>3, <1>4, <1>5, <1>6, <1>7, <1>8, <1>9 DEF Next

(* Each step writes its NUL over a delimiter or leaves the string alone. *)
LEMMA NextStepNul == SInv /\ WInv /\ [Next]_vars => [StepNul]_str
<1> SUFFICES ASSUME SInv, WInv, [Next]_vars PROVE [StepNul]_str
  OBVIOUS
<1>1. CASE IpStep
  <2>1. str \in Seq(0..255) /\ s + len \in 1..Len(str) + 1 /\ ByteAt(str, s + len) \in Delims \cup {0}
    BY <1>1 DEF IpStep, SInv, WInv
  <2>2. s + len \in 1..Len(str) => str[s + len] \in Delims \cup {0}
    BY <2>1 DEF ByteAt
  <2>3. str' = PutNul(str, s + len)
    BY <1>1 DEF IpStep
  <2>4. QED
    BY <2>1, <2>2, <2>3, PutNulOverDelim DEF StepNul
<1>2. CASE Strip
  <2> DEFINE p == SkipDelims(str, 1)
             l == LastKept(str, p)
  <2>1. str = orig /\ str \in Seq(1..255)
    BY <1>2 DEF Strip, WInv, SInv
  <2>2. p \in 1..Len(str) + 1 /\ ByteAt(str, p) \notin Delims
    BY <2>1, SkipDelimsIn, SkipDelimsStops
  <2>3. /\ l = 0 => p = Len(str) + 1
        /\ l # 0 => l \in 1..Len(str) /\ (l + 1 <= Len(str) => str[l + 1] \in Delims)
    BY <2>1, <2>2, LastKeptEnds
  <2>4. str' = IF l # 0 THEN PutNul(str, l + 1) ELSE PutNul(str, p)
    BY <1>2 DEF Strip
  <2>5. CASE l # 0
    <3>1. l + 1 \in 1..Len(str) => str[l + 1] \in Delims \cup {0}
      BY <2>3, <2>5
    <3>2. QED
      BY <2>1, <2>4, <2>5, <3>1, PutNulOverDelim DEF StepNul
  <2>6. CASE l = 0
    BY <2>3, <2>4, <2>6 DEF PutNul
  <2>7. QED
    BY <2>5, <2>6
<1>3. CASE SplitBegin \/ StrvStep \/ SplitEnd \/ UNCHANGED vars
  BY <1>3 DEF SplitBegin, StrvStep, SplitEnd, vars, splitVars
<1>4. CASE GetrandomStep \/ RandomInitSeed \/ RandomFill
  BY <1>4 DEF GetrandomStep, RandomInitSeed, RandomFill, splitVars
<1>5. QED
  BY <1>1, <1>2, <1>3, <1>4 DEF Next

(* pw_split_ip and pw_strip write their NULs only over delimiter or      *)
(* whitespace bytes (utils.c:103 and 147-150): every step of a call that *)
(* changes the string turns a delimiter into a NUL and nothing else,     *)
(* whatever the strings, delimiters and max_tokens.                       *)
THEOREM NulOnlyOverDelimsHolds == Spec => NulOnlyOverDelims
<1>1. Init => SInv /\ WInv
  BY InitSInv, InitWInv
<1>2. SInv /\ WInv /\ [Next]_vars => SInv' /\ WInv'
  BY NextSInv, NextWInv
<1>3. SInv /\ WInv /\ [Next]_vars => [StepNul]_str
  BY NextStepNul
<1>4. QED
  BY <1>1, <1>2, <1>3, PTL DEF Spec, NulOnlyOverDelims, StepNul

(* A pw_strip call that has returned left the stripped string behind. *)
LEMMA NextStripCorrect == SInv /\ WInv /\ StripCorrect /\ [Next]_vars => StripCorrect'
<1> SUFFICES ASSUME SInv, WInv, StripCorrect, [Next]_vars PROVE StripCorrect'
  OBVIOUS
<1>1. CASE Strip
  <2>1. str = orig /\ orig \in Seq(1..255)
    BY <1>1 DEF Strip, WInv, SInv
  <2>2. CString(str', s') = Trimmed(orig')
    BY <1>1, <2>1, StripResult DEF Strip
  <2>3. QED
    BY <2>2 DEF StripCorrect
<1>2. CASE SplitEnd
  BY <1>2 DEF SplitEnd, WInv, StripCorrect
<1>3. CASE RandomFill
  BY <1>3 DEF RandomFill, StripCorrect
<1>4. CASE SplitBegin \/ StrvStep \/ IpStep \/ GetrandomStep \/ RandomInitSeed
  BY <1>4 DEF SplitBegin, StrvStep, IpStep, GetrandomStep, RandomInitSeed, StripCorrect
<1>5. CASE UNCHANGED vars
  BY <1>5 DEF vars, splitVars, StripCorrect
<1>6. QED
  BY <1>1, <1>2, <1>3, <1>4, <1>5 DEF Next

(* pw_strip (utils.c:136-152) returns its string without the leading and *)
(* trailing whitespace, for every set of strings and whitespace bytes:   *)
(* the pointer past the leading run and the NUL after the last byte kept *)
(* delimit exactly the trimmed string, and an all-whitespace string      *)
(* comes back empty.                                                     *)
THEOREM StripCorrectHolds == Spec => []StripCorrect
<1>1. Init => SInv /\ WInv /\ StripCorrect
  BY InitSInv, InitWInv DEF Init, StripCorrect
<1>2. SInv /\ WInv /\ StripCorrect /\ [Next]_vars => SInv' /\ WInv' /\ StripCorrect'
  BY NextSInv, NextWInv, NextStripCorrect
<1>3. QED
  BY <1>1, <1>2, PTL DEF Spec

(* What make_random can give: -1 with an errno that is not ENOSYS (the   *)
(* getrandom ENOSYS case falls through to /dev/urandom), or a count of   *)
(* at most buflen bytes, all written.                                     *)
LEMMA OutcomeShape ==
  ASSUME NEW m \in Nat, NEW o \in MakeRandomOutcomes(m)
  PROVE  \/ o.res = -1 /\ o.errno \in {ENOENT, EINTR, EIO} /\ o.n = 0
         \/ o.res \in 0..m /\ o.n = o.res
BY DEF MakeRandomOutcomes

(* pw_getrandom's return on an outcome that ends the loop keeps its      *)
(* contract: -errno for a failure that is not EINTR, -ENODATA for a      *)
(* short read, buflen when all bytes came.                                *)
LEMMA ResultContract ==
  ASSUME NEW m \in Nat, NEW o \in MakeRandomOutcomes(m),
         ~(o.res = -1 /\ o.errno = EINTR)
  PROVE  LET r == GetrandomResult(o.res, o.errno, m) IN
         /\ r \in Int
         /\ r >= 0 => r = m /\ o.n = m
         /\ r < 0 => r # -EINTR
<1>1. \/ o.res = -1 /\ o.errno \in {ENOENT, EIO}
      \/ o.res \in 0..m /\ o.n = o.res
  BY OutcomeShape
<1>2. QED
  BY <1>1 DEF GetrandomResult, ENOENT, EINTR, EIO, ENODATA

-----------------------------------------------------------------------------
(* Every reachable state satisfies RInv. *)
THEOREM RandomInvariant == Spec => []RInv
<1>1. Init => RInv
  <2> SUFFICES ASSUME Init PROVE RInv
    OBVIOUS
  <2>1. area \in [buf : [1..BufLen -> Provenance], seed : [1..SeedLen -> Provenance]]
    BY DEF Init, Provenance
  <2>2. /\ fn \in {"strv", "ip", "strip", "random"}
        /\ pc = (IF fn = "random" THEN "init_get" ELSE "start")
        /\ gret = 0 /\ seeded = FALSE
    BY DEF Init
  <2>3. gret \in Int
    BY <2>2, SMT
  <2>4. seeded \in BOOLEAN
    BY <2>2, Zenon
  <2>5. fn = "random" => pc \in RandomPcs
    BY <2>2 DEF RandomPcs
  <2>6. fn # "random" => pc \in {"start", "loop", "done"}
    BY <2>2
  <2>7. pc \notin {"init_seed", "rand_get", "rand_fill", "done"}
    BY <2>2
  <2>8. QED
    BY <2>1, <2>3, <2>4, <2>5, <2>6, <2>7 DEF RInv
<1>2. RInv /\ [Next]_vars => RInv'
  <2> SUFFICES ASSUME RInv, [Next]_vars PROVE RInv'
    OBVIOUS
  <2> USE RandomAssumption
  <2>1. CASE SplitBegin \/ StrvStep \/ IpStep \/ SplitEnd \/ Strip
    <3>1. fn # "random" /\ UNCHANGED <<fn, rndVars>> /\ pc' \in {"start", "loop", "done"}
      BY <2>1 DEF SplitBegin, StrvStep, IpStep, SplitEnd, Strip, RInv, RandomPcs, rndVars
    <3>2. QED
      BY <3>1 DEF RInv, rndVars
  <2>2. CASE GetrandomStep
    <3> DEFINE t == Target
               m == Len(area[t])
    <3>1. fn = "random" /\ pc \in {"init_get", "rand_get"} /\ UNCHANGED <<fn, seeded>>
      BY <2>2 DEF GetrandomStep
    <3>2. /\ t = "seed" => m = SeedLen
          /\ t = "buf" => m = BufLen
          /\ t \in {"seed", "buf"}
      BY FunIsSeq DEF RInv, Target, SeedLen
    <3>3. m \in Nat
      BY <3>2 DEF SeedLen
    <3>4. PICK o \in MakeRandomOutcomes(m) :
            /\ o.errno = EINTR => tries < MaxEintr
            /\ area' = [area EXCEPT ![t] = [i \in 1..m |-> IF i <= o.n THEN "kernel" ELSE @[i]]]
            /\ IF o.res = -1 /\ o.errno = EINTR
                 THEN /\ tries' = tries + 1
                      /\ UNCHANGED <<gret, pc>>
                 ELSE /\ gret' = GetrandomResult(o.res, o.errno, m)
                      /\ tries' = 0
                      /\ pc' = IF pc = "init_get" THEN "init_seed" ELSE "rand_fill"
      BY <2>2 DEF GetrandomStep
    <3>5. o.n \in 0..m
      BY <3>3, OutcomeShape
    <3>6. area' \in [buf : [1..BufLen -> Provenance], seed : [1..SeedLen -> Provenance]]
      BY <3>2, <3>4, <3>5 DEF RInv, Provenance
    <3>7. t = "buf" => area'.seed = area.seed
      BY <3>4 DEF RInv
    <3>8. \A i \in 1..m : i <= o.n => area'[t][i] = "kernel"
      BY <3>2, <3>4 DEF RInv
    <3>9. CASE o.res = -1 /\ o.errno = EINTR
      <4>1. UNCHANGED <<gret, pc>>
        BY <3>4, <3>9
      <4>2. QED
        BY <3>1, <3>6, <3>7, <4>1 DEF RInv, Target
    <3>10. CASE ~(o.res = -1 /\ o.errno = EINTR)
      <4>1. gret' = GetrandomResult(o.res, o.errno, m)
            /\ pc' = IF pc = "init_get" THEN "init_seed" ELSE "rand_fill"
        BY <3>4, <3>10
      <4>2. /\ gret' \in Int
            /\ gret' >= 0 => gret' = m /\ o.n = m
            /\ gret' < 0 => gret' # -EINTR
        BY <3>3, <3>10, <4>1, ResultContract
      <4>3. /\ gret' >= 0 => gret' = m /\ \A i \in 1..m : area'[t][i] = "kernel"
            /\ gret' < 0 => gret' # -EINTR
        BY <3>5, <3>8, <4>2
      <4>4. CASE pc = "init_get"
        BY <3>1, <3>2, <3>6, <4>1, <4>2, <4>3, <4>4 DEF RInv, Target, RandomPcs, Delivered
      <4>5. CASE pc = "rand_get"
        BY <3>1, <3>2, <3>6, <3>7, <4>1, <4>2, <4>3, <4>5 DEF RInv, Target, RandomPcs, Delivered
      <4>6. QED
        BY <3>1, <4>4, <4>5
    <3>11. QED
      BY <3>9, <3>10
  <2>3. CASE RandomInitSeed
    <3>1. fn = "random" /\ pc = "init_seed" /\ pc' = "rand_get" /\ seeded'
          /\ UNCHANGED <<fn, gret>>
      BY <2>3 DEF RandomInitSeed
    <3>2. CASE gret < 0
      <4>1. area' = [area EXCEPT !.seed = [i \in 1..SeedLen |-> "clock"]]
        BY <2>3, <3>2 DEF RandomInitSeed
      <4>2. QED
        BY <3>1, <4>1 DEF RInv, RandomPcs, Provenance
    <3>3. CASE gret >= 0
      <4>1. area' = area
        BY <2>3, <3>3 DEF RandomInitSeed, RInv
      <4>2. \A j \in 1..SeedLen : area.seed[j] = "kernel"
        BY <3>1, <3>3 DEF RInv, Delivered
      <4>3. QED
        BY <3>1, <4>1, <4>2 DEF RInv, RandomPcs
    <3>4. QED
      BY <3>2, <3>3 DEF RInv
  <2>4. CASE RandomFill
    <3>1. fn = "random" /\ pc = "rand_fill" /\ pc' = "done"
          /\ UNCHANGED <<fn, gret, seeded>>
      BY <2>4 DEF RandomFill
    <3>2. CASE gret < 0
      <4>1. area' = [area EXCEPT !.buf = [i \in 1..BufLen |-> "prng"]]
        BY <2>4, <3>2 DEF RandomFill
      <4>2. QED
        BY <3>1, <4>1 DEF RInv, RandomPcs, Provenance
    <3>3. CASE gret >= 0
      <4>1. area' = area
        BY <2>4, <3>3 DEF RandomFill, RInv
      <4>2. \A i \in 1..BufLen : area.buf[i] = "kernel"
        BY <3>1, <3>3 DEF RInv, Delivered
      <4>3. QED
        BY <3>1, <4>1, <4>2 DEF RInv, RandomPcs
    <3>4. QED
      BY <3>2, <3>3 DEF RInv
  <2>5. CASE UNCHANGED vars
    BY <2>5 DEF vars, rndVars, RInv, Delivered
  <2>6. QED
    BY <2>1, <2>2, <2>3, <2>4, <2>5 DEF Next
<1>3. QED
  BY <1>1, <1>2, PTL DEF Spec

(* The buffers have the lengths the code gives them. *)
LEMMA AreaLengths ==
  ASSUME RInv
  PROVE  Len(area.seed) = SeedLen /\ Len(area.buf) = BufLen
BY FunIsSeq, RandomAssumption DEF RInv, SeedLen

(* For every buffer length and every number of EINTR failures in a row,   *)
(* pw_getrandom (utils.c:190-197) returns, into pw_random_init's seed and *)
(* into pw_random's buf, either the full length with every byte written   *)
(* by the kernel, or a negative errno other than -EINTR.                   *)
THEOREM GetrandomContractHolds == Spec => []GetrandomContract
<1>1. RInv => GetrandomContract
  <2> SUFFICES ASSUME RInv PROVE GetrandomContract
    OBVIOUS
  <2>1. Len(area.seed) = SeedLen /\ Len(area.buf) = BufLen
    BY AreaLengths
  <2>2. QED
    BY <2>1 DEF RInv, GetrandomContract, Delivered
<1>2. QED
  BY <1>1, RandomInvariant, PTL

(* For every buffer length, pw_random (utils.c:214-227) after             *)
(* pw_random_init leaves every byte of buf written, by the kernel or by   *)
(* random_r, and random_r only runs on a state initstate_r seeded with a  *)
(* seed that came whole from the kernel or from the clock.                *)
THEOREM RandomFillsHolds == Spec => []RandomFills
<1>1. RInv => RandomFills
  BY DEF RInv, RandomFills
<1>2. QED
  BY <1>1, RandomInvariant, PTL

(* For every set of strings and delimiters, every max_tokens, buffer     *)
(* length and EINTR bound and either build, every state of a call is      *)
(* well typed: the NULs pw_split_ip and pw_strip write keep the string's  *)
(* length, the pointers the walk of pw_split_walk hands out stay inside   *)
(* the string or at its terminator, every token pointer pw_split_ip       *)
(* stores is inside the string, and the EINTR retries of pw_getrandom     *)
(* stay within the kernel's bound.                                        *)
THEOREM UtilsTypeCorrect == Spec => []TypeOK
<1>1. Init => SInv
  BY InitSInv
<1>2. SInv /\ [Next]_vars => SInv'
  BY NextSInv
<1>3. SInv /\ RInv => TypeOK
  <2> SUFFICES ASSUME SInv, RInv PROVE TypeOK
    OBVIOUS
  <2>1. area \in [buf : Seq(Provenance), seed : Seq(Provenance)]
    BY FunIsSeq, RandomAssumption DEF RInv, SeedLen
  <2>2. Len(area.buf) = BufLen /\ Len(area.seed) = SeedLen
    BY AreaLengths
  <2>3. pc \in {"start", "loop", "init_get", "init_seed", "rand_get", "rand_fill", "done"}
    BY DEF RInv, RandomPcs, SInv
  <2>4. QED
    BY <2>1, <2>2, <2>3 DEF SInv, RInv, TypeOK
<1>4. QED
  BY <1>1, <1>2, <1>3, RandomInvariant, PTL DEF Spec


(* Where the NULs of pw_split_ip and pw_strip can land (utils.c:103,     *)
(* 147-150): WInv holds in every reachable state, for every set of        *)
(* strings and delimiters and every max_tokens.                           *)
THEOREM NulPlacesInvariant == Spec => []WInv
<1>1. Init => SInv /\ WInv
  BY InitSInv, InitWInv
<1>2. SInv /\ WInv /\ [Next]_vars => SInv' /\ WInv'
  BY NextSInv, NextWInv
<1>3. QED
  BY <1>1, <1>2, PTL DEF Spec
=============================================================================
