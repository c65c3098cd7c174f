------------------------- MODULE IsoTpReceiverProofs -------------------------
(***************************************************************************)
(* Proofs about IsoTpReceiver for every set of frames, every capacity and  *)
(* every number of receptions.  As in IsoTpSenderProofs, the completion of *)
(* a flow control frame is matched to its reception by a token of          *)
(* TokenModulus values, and no such frame may stay with the transport      *)
(* until the token comes round: QueuedBriefly.                             *)
(***************************************************************************)
EXTENDS IsoTpReceiver, SequenceTheorems, FiniteSetTheorems, WellFoundedInduction, TLAPS

\* No flow control frame waits for its completion while more than `window'
\* receptions follow.
QueuedBriefly(window) == \A i \in DOMAIN owed : started - owed[i].no <= window

\* The window is small enough that a token does not come round in it.
Bounded(window) == window \in Nat /\ 2 * window + MaxResets + 4 < TokenModulus

-----------------------------------------------------------------------------
(* The invariant *)

Tokens == 0 .. TokenModulus - 1

OwedFrames == [bytes : Seq(Byte), status : {"continueToSend", "overflow"}, token : Tokens,
               no : Nat, sent : BOOLEAN]

\* How often the token was advanced since it was `from', modulo TokenModulus.
Distance(from, to) == IF from <= to THEN to - from ELSE to - from + TokenModulus

ReceiverTypes ==
  /\ state \in {"idle", "receivingCf"}
  /\ reception \in Tokens
  /\ nCrTimer \in BOOLEAN
  /\ started \in Nat /\ ended \in Nat /\ resets \in 0 .. MaxResets

AssemblyTypes ==
  /\ assemblyBuffer \in Seq(Byte)
  /\ expectedTotalLength \in Nat
  /\ framesInBlock \in Nat

\* For frames s, a token, a number of receptions and of releases, and whether
\* the receiver is idle: since a frame was handed down the token has advanced
\* at most twice for every reception that followed, once for the end of its own
\* and once for every release of the idle channel.
AgesIn(s, token, number, idle, releases) ==
  \A i \in 1 .. Len(s) :
    /\ s[i].no \in 1 .. number
    /\ Distance(s[i].token, token) <= 2 * (number - s[i].no) + idle + releases

\* The frames with the token of a reception are that reception's.
CurrentIn(s, token, number) == \A i \in 1 .. Len(s) : s[i].token = token => s[i].no = number

IdleCount == IF state = "idle" THEN 1 ELSE 0

FrameTypes == owed \in Seq(OwedFrames)
FrameAges == AgesIn(owed, reception, started, IdleCount, resets)
CurrentFrames == Receiving => CurrentIn(owed, reception, started)

IInv ==
  /\ ReceiverTypes
  /\ AssemblyTypes
  /\ FrameTypes
  /\ ReceptionIsTimed
  /\ EndsOnce
  /\ FrameAges
  /\ CurrentFrames

-----------------------------------------------------------------------------
(* Sequences with an element less *)

\* What RemoveAt leaves, and where it was.
LEMMA RemoveAtProperties ==
  ASSUME NEW S, NEW s \in Seq(S), NEW i \in 1 .. Len(s)
  PROVE  /\ RemoveAt(s, i) \in Seq(S)
         /\ Len(RemoveAt(s, i)) = Len(s) - 1
         /\ \A k \in 1 .. Len(s) - 1 :
              RemoveAt(s, i)[k] = IF k < i THEN s[k] ELSE s[k + 1]
<1> DEFINE before == SubSeq(s, 1, i - 1)
           after == SubSeq(s, i + 1, Len(s))
<1>1. Len(s) \in Nat /\ i \in Int /\ 1 <= i /\ i <= Len(s)
  BY LenProperties
<1>2. /\ before \in Seq(S)
      /\ Len(before) = i - 1
      /\ \A k \in 1 .. i - 1 : before[k] = s[k]
  <2>1. \A k \in 1 .. i - 1 : s[k] \in S
    BY <1>1, ElementOfSeq
  <2>2. 1 \in Int /\ i - 1 \in Int
    BY <1>1
  <2>3. /\ before \in Seq(S)
        /\ Len(before) = IF 1 <= i - 1 THEN (i - 1) - 1 + 1 ELSE 0
        /\ \A k \in 1 .. (i - 1) - 1 + 1 : before[k] = s[1 + k - 1]
    BY <2>1, <2>2, SubSeqProperties
  <2>4. QED
    BY <1>1, <2>3
<1>3. /\ after \in Seq(S)
      /\ Len(after) = Len(s) - i
      /\ \A k \in 1 .. Len(s) - i : after[k] = s[k + i]
  <2>1. \A k \in i + 1 .. Len(s) : s[k] \in S
    BY <1>1, ElementOfSeq
  <2>2. i + 1 \in Int /\ Len(s) \in Int
    BY <1>1
  <2>3. /\ after \in Seq(S)
        /\ Len(after) = IF i + 1 <= Len(s) THEN Len(s) - (i + 1) + 1 ELSE 0
        /\ \A k \in 1 .. Len(s) - (i + 1) + 1 : after[k] = s[(i + 1) + k - 1]
    BY <2>1, <2>2, SubSeqProperties
  <2>4. \A k \in 1 .. Len(s) - i :
          k \in 1 .. Len(s) - (i + 1) + 1 /\ (i + 1) + k - 1 = k + i
    BY <1>1
  <2>5. QED
    BY <1>1, <2>3, <2>4
<1>4. RemoveAt(s, i) = before \o after
  BY DEF RemoveAt
<1> HIDE DEF before, after
<1>5. /\ before \o after \in Seq(S)
      /\ Len(before \o after) = (i - 1) + (Len(s) - i)
      /\ \A k \in 1 .. (i - 1) + (Len(s) - i) :
           (before \o after)[k] = IF k <= i - 1 THEN before[k] ELSE after[k - (i - 1)]
  <2>1. /\ before \o after \in Seq(S)
        /\ Len(before \o after) = Len(before) + Len(after)
        /\ \A k \in 1 .. Len(before) + Len(after) :
             (before \o after)[k] =
               IF k <= Len(before) THEN before[k] ELSE after[k - Len(before)]
    BY <1>2, <1>3, ConcatProperties
  <2>2. Len(before) = i - 1 /\ Len(after) = Len(s) - i
    BY <1>2, <1>3
  <2>3. QED
    BY <2>1, <2>2
<1>6. ASSUME NEW k \in 1 .. Len(s) - 1
      PROVE  (before \o after)[k] = IF k < i THEN s[k] ELSE s[k + 1]
  <2>1. CASE k < i
    <3>1. k \in 1 .. (i - 1) + (Len(s) - i) /\ k <= i - 1 /\ k \in 1 .. i - 1
      BY <1>1, <2>1
    <3>2. QED
      BY <1>2, <1>5, <2>1, <3>1
  <2>2. CASE ~(k < i)
    <3>1. /\ k \in 1 .. (i - 1) + (Len(s) - i) /\ ~(k <= i - 1)
          /\ k - (i - 1) \in 1 .. Len(s) - i /\ (k - (i - 1)) + i = k + 1
      BY <1>1, <2>2
    <3>2. QED
      BY <1>3, <1>5, <2>2, <3>1
  <2>3. QED
    BY <2>1, <2>2
<1>7. QED
  BY <1>1, <1>4, <1>5, <1>6

\* If all neighbours between two positions are the same, so are the two: the
\* sets 1 .. k of the positions k that differ have a least one.
LEMMA SameNeighbours ==
  ASSUME NEW s, NEW n \in Nat, NEW i \in 1 .. n, NEW j \in i .. n,
         \A k \in i .. j - 1 : s[k + 1] = s[k]
  PROVE  s[j] = s[i]
<1> DEFINE T == {k \in i .. j : s[k] # s[i]}
           Below == {1 .. k : k \in T}
<1> SUFFICES ASSUME T # {} PROVE FALSE
  OBVIOUS
<1>1. \A k \in T : k \in 1 .. n /\ k \in Nat /\ 1 .. k \in SUBSET (1 .. n)
  OBVIOUS
<1>2. IsFiniteSet(1 .. n)
  BY FS_Interval
<1>3. FiniteSubsetsOf(1 .. n) = SUBSET (1 .. n)
  BY <1>2, FS_FiniteSubsetsOfFinite
<1>4. IsWellFoundedOn(StrictSubsetOrdering(1 .. n), SUBSET (1 .. n))
  BY <1>3, FS_StrictSubsetOrderingWellFounded
<1>5. Below \subseteq SUBSET (1 .. n) /\ Below # {}
  BY <1>1
<1>6. PICK least \in Below :
        \A other \in Below : <<other, least>> \notin StrictSubsetOrdering(1 .. n)
  BY <1>4, <1>5, WFMin
<1>7. PICK x \in T : least = 1 .. x
  OBVIOUS
<1>8. x # i /\ x - 1 \in i .. j - 1 /\ s[x] = s[x - 1]
  BY <1>1
<1>9. x - 1 \in T
  BY <1>8
<1>10. 1 .. x - 1 \in Below /\ 1 .. x - 1 \subseteq 1 .. x /\ x \in 1 .. x
       /\ x \notin 1 .. x - 1
  BY <1>1, <1>9
<1>11. <<1 .. x - 1, 1 .. x>> \in StrictSubsetOrdering(1 .. n)
  BY <1>1, <1>9, <1>10 DEF StrictSubsetOrdering
<1>12. QED
  BY <1>6, <1>7, <1>10, <1>11

\* A sequence from which an element was taken tells which one, up to equals.
LEMMA RemovedElement ==
  ASSUME NEW S, NEW s \in Seq(S), NEW i \in 1 .. Len(s), NEW j \in 1 .. Len(s),
         RemoveAt(s, i) = RemoveAt(s, j)
  PROVE  s[i] = s[j]
<1>1. ASSUME NEW a \in 1 .. Len(s), NEW b \in a .. Len(s), RemoveAt(s, a) = RemoveAt(s, b)
      PROVE  s[a] = s[b]
  <2>1. Len(s) \in Nat /\ b \in 1 .. Len(s)
    BY LenProperties
  <2>2. ASSUME NEW k \in a .. b - 1
        PROVE  s[k + 1] = s[k]
    <3>1. k \in 1 .. Len(s) - 1 /\ ~(k < a) /\ k < b
      BY <2>1
    <3>2. RemoveAt(s, a)[k] = s[k + 1]
      BY <3>1, RemoveAtProperties
    <3>3. RemoveAt(s, b)[k] = s[k]
      BY <2>1, <3>1, RemoveAtProperties
    <3>4. QED
      BY <1>1, <3>2, <3>3
  <2>3. s[b] = s[a]
    BY <2>1, <2>2, SameNeighbours
  <2>4. QED
    BY <2>3
<1>2. Len(s) \in Nat /\ (j \in i .. Len(s) \/ i \in j .. Len(s))
  BY LenProperties
<1>3. CASE j \in i .. Len(s)
  BY <1>1, <1>3
<1>4. CASE i \in j .. Len(s)
  <2>1. s[j] = s[i]
    BY <1>1, <1>4
  <2>2. QED
    BY <2>1
<1>5. QED
  BY <1>2, <1>3, <1>4

\* A sequence with an element replaced.
LEMMA ReplacedElement ==
  ASSUME NEW S, NEW s \in Seq(S), NEW i \in 1 .. Len(s), NEW f \in S,
         NEW t, t = [s EXCEPT ![i] = f]
  PROVE  /\ t \in Seq(S)
         /\ Len(t) = Len(s)
         /\ \A k \in 1 .. Len(s) : t[k] = IF k = i THEN f ELSE s[k]
BY ExceptSeq

-----------------------------------------------------------------------------
(* Tokens *)

\* The token after n steps, fewer than there are tokens.
Step(t, n) == IF t + n < TokenModulus THEN t + n ELSE t + n - TokenModulus

LEMMA TokenNumbers ==
  ASSUME ReceiverAssumption, NEW w, Bounded(w)
  PROVE  /\ TokenModulus \in Nat /\ TokenModulus > 4
         /\ w \in Nat /\ MaxResets \in Nat
         /\ 2 * w + MaxResets + 4 < TokenModulus
BY DEF ReceiverAssumption, Bounded

LEMMA Steps ==
  ASSUME ReceiverAssumption, NEW w, Bounded(w), NEW t \in Tokens
  PROVE  /\ \A n \in 0 .. 3 : Step(t, n) \in Tokens
         /\ Step(t, 0) = t
         /\ \A n \in 0 .. 2 : Next1(Step(t, n)) = Step(t, n + 1)
         /\ Next1(t) = Step(t, 1)
<1>1. TokenModulus \in Nat /\ TokenModulus > 4 /\ t \in 0 .. TokenModulus - 1
  BY TokenNumbers DEF Tokens
<1>2. ASSUME NEW x \in Tokens
      PROVE  Next1(x) = IF x + 1 = TokenModulus THEN 0 ELSE x + 1
  <2>1. x \in 0 .. TokenModulus - 1
    BY DEF Tokens
  <2>2. x + 1 < TokenModulus => (x + 1) % TokenModulus = x + 1
    BY <1>1, <2>1
  <2>3. TokenModulus % TokenModulus = 0
    BY <1>1
  <2>4. QED
    BY <1>1, <2>1, <2>2, <2>3 DEF Next1
<1>3. \A n \in 0 .. 3 : Step(t, n) \in Tokens
  BY <1>1 DEF Step, Tokens
<1>4. Step(t, 0) = t
  BY <1>1 DEF Step
<1>5. ASSUME NEW n \in 0 .. 2
      PROVE  Next1(Step(t, n)) = Step(t, n + 1)
  <2>1. Step(t, n) \in Tokens
    BY <1>3
  <2>2. Next1(Step(t, n)) = IF Step(t, n) + 1 = TokenModulus THEN 0 ELSE Step(t, n) + 1
    BY <1>2, <2>1
  <2>3. QED
    BY <1>1, <2>2 DEF Step
<1>6. Next1(t) = Step(t, 1)
  BY <1>4, <1>5
<1>7. QED
  BY <1>3, <1>4, <1>5, <1>6

LEMMA DistanceGrows ==
  ASSUME ReceiverAssumption, NEW from \in Tokens, NEW to \in Tokens
  PROVE  /\ Distance(from, to) \in Nat
         /\ (Distance(from, to) = 0) <=> (from = to)
         /\ \A n \in 0 .. 3 :
              Distance(from, to) + n < TokenModulus
                => Distance(from, Step(to, n)) = Distance(from, to) + n
<1>1. TokenModulus \in Nat \ {0} /\ from \in 0 .. TokenModulus - 1 /\ to \in 0 .. TokenModulus - 1
  BY DEF ReceiverAssumption, Tokens
<1>2. QED
  BY <1>1 DEF Distance, Step

-----------------------------------------------------------------------------
(* The ages of some frames *)

LEMMA AgeBounds ==
  ASSUME NEW d \in Nat, NEW a \in Nat, NEW b \in {a, a + 1}, NEW k \in 1 .. a,
         NEW c \in 0 .. 1, NEW c2 \in 0 .. 1, NEW r \in Nat, NEW r2 \in Nat, NEW n \in 0 .. 3,
         d <= 2 * (a - k) + c + r,
         n + c + r <= 2 * (b - a) + c2 + r2
  PROVE  k \in 1 .. b /\ d + n <= 2 * (b - k) + c2 + r2
OBVIOUS

LEMMA StepBounds ==
  ASSUME NEW m \in Nat, NEW w \in Nat, NEW q \in Nat, 2 * w + q + 4 < m,
         NEW d \in Nat, NEW a \in Nat, NEW k \in 1 .. a, a - k <= w,
         NEW c \in 0 .. 1, NEW r \in 0 .. q, NEW n \in 0 .. 3,
         d <= 2 * (a - k) + c + r
  PROVE  d + n < m
OBVIOUS

\* The token advances by n steps, for a reception more or for none, and the
\* frames grow no older than they may.
LEMMA AgesAdvance ==
  ASSUME ReceiverAssumption, NEW w, Bounded(w),
         NEW s \in Seq(OwedFrames), NEW t \in Tokens, NEW a \in Nat, NEW b \in {a, a + 1},
         NEW c \in 0 .. 1, NEW c2 \in 0 .. 1, NEW r \in 0 .. MaxResets, NEW r2 \in Nat,
         NEW n \in 0 .. 3,
         AgesIn(s, t, a, c, r), \A i \in 1 .. Len(s) : a - s[i].no <= w,
         n + c + r <= 2 * (b - a) + c2 + r2
  PROVE  /\ AgesIn(s, Step(t, n), b, c2, r2)
         /\ n # 0 => \A i \in 1 .. Len(s) : s[i].token # Step(t, n)
<1> SUFFICES ASSUME NEW i \in 1 .. Len(s)
             PROVE  /\ s[i].no \in 1 .. b
                    /\ Distance(s[i].token, Step(t, n)) <= 2 * (b - s[i].no) + c2 + r2
                    /\ n # 0 => s[i].token # Step(t, n)
  BY DEF AgesIn
<1> DEFINE d == Distance(s[i].token, t)
           k == s[i].no
<1>1. s[i] \in OwedFrames
  BY ElementOfSeq
<1>2. s[i].token \in Tokens
  BY <1>1 DEF OwedFrames
<1>3. d \in Nat /\ k \in 1 .. a /\ d <= 2 * (a - k) + c + r /\ a - k <= w
  BY <1>2, DistanceGrows DEF AgesIn
<1>4. /\ d + n < TokenModulus => Distance(s[i].token, Step(t, n)) = d + n
      /\ Step(t, n) \in Tokens
  BY <1>2, DistanceGrows, Steps
<1>5. Distance(s[i].token, Step(t, n)) # 0 => s[i].token # Step(t, n)
  BY <1>2, <1>4, DistanceGrows
<1> HIDE DEF d, k
<1>6. TokenModulus \in Nat /\ w \in Nat /\ MaxResets \in Nat
  BY TokenNumbers
<1>7. d + n < TokenModulus
  <2>1. 2 * w + MaxResets + 4 < TokenModulus
    BY TokenNumbers
  <2>2. QED
    BY <1>3, <1>6, <2>1, StepBounds, SMTT(30)
<1>8. k \in 1 .. b /\ d + n <= 2 * (b - k) + c2 + r2
  <2>1. r \in Nat /\ n + c + r <= 2 * (b - a) + c2 + r2
    BY <1>6
  <2>2. QED
    BY <1>3, <2>1, AgeBounds, SMTT(30)
<1>9. n # 0 => s[i].token # Step(t, n)
  BY <1>3, <1>4, <1>5, <1>7
<1>10. QED
  BY <1>4, <1>7, <1>8, <1>9 DEF d, k

\* A frame handed down now.
LEMMA AgesAppend ==
  ASSUME NEW s \in Seq(OwedFrames), NEW f \in OwedFrames, NEW t, NEW a \in Nat \ {0},
         NEW c \in Nat, NEW r \in Nat,
         AgesIn(s, t, a, c, r), f.no = a, Distance(f.token, t) <= c + r
  PROVE  /\ Append(s, f) \in Seq(OwedFrames)
         /\ AgesIn(Append(s, f), t, a, c, r)
         /\ CurrentIn(s, t, a) => CurrentIn(Append(s, f), t, a)
<1>1. /\ Append(s, f) \in Seq(OwedFrames) /\ Len(s) \in Nat
      /\ Len(Append(s, f)) = Len(s) + 1
      /\ Append(s, f)[Len(s) + 1] = f
      /\ \A i \in 1 .. Len(s) : Append(s, f)[i] = s[i]
  BY AppendProperties, LenProperties
<1>2. \A i \in 1 .. Len(s) + 1 : i \in 1 .. Len(s) \/ i = Len(s) + 1
  BY <1>1
<1>3. AgesIn(Append(s, f), t, a, c, r)
  <2>1. ASSUME NEW i \in 1 .. Len(Append(s, f))
        PROVE  /\ Append(s, f)[i].no \in 1 .. a
               /\ Distance(Append(s, f)[i].token, t) <= 2 * (a - Append(s, f)[i].no) + c + r
    <3>1. CASE i \in 1 .. Len(s)
      BY <1>1, <3>1 DEF AgesIn
    <3>2. CASE i = Len(s) + 1
      <4>1. a \in 1 .. a /\ 2 * (a - a) + c + r = c + r
        OBVIOUS
      <4>2. QED
        BY <1>1, <3>2, <4>1
    <3>3. QED
      BY <1>1, <1>2, <3>1, <3>2
  <2>2. QED
    BY <2>1 DEF AgesIn
<1>4. CurrentIn(s, t, a) => CurrentIn(Append(s, f), t, a)
  BY <1>1, <1>2 DEF CurrentIn
<1>5. QED
  BY <1>1, <1>3, <1>4

\* A frame is taken away, or any frames keep their tokens and numbers.
LEMMA AgesRemoved ==
  ASSUME NEW s \in Seq(OwedFrames), NEW j \in 1 .. Len(s), NEW t, NEW a, NEW c, NEW r,
         AgesIn(s, t, a, c, r)
  PROVE  /\ RemoveAt(s, j) \in Seq(OwedFrames)
         /\ AgesIn(RemoveAt(s, j), t, a, c, r)
         /\ CurrentIn(s, t, a) => CurrentIn(RemoveAt(s, j), t, a)
         /\ \A i \in 1 .. Len(RemoveAt(s, j)) : \E k \in 1 .. Len(s) : RemoveAt(s, j)[i] = s[k]
<1>1. /\ Len(s) \in Nat
      /\ RemoveAt(s, j) \in Seq(OwedFrames)
      /\ Len(RemoveAt(s, j)) = Len(s) - 1
      /\ \A k \in 1 .. Len(s) - 1 : RemoveAt(s, j)[k] = IF k < j THEN s[k] ELSE s[k + 1]
  BY LenProperties, RemoveAtProperties
<1>2. ASSUME NEW i \in 1 .. Len(RemoveAt(s, j))
      PROVE  \E k \in 1 .. Len(s) : RemoveAt(s, j)[i] = s[k]
  <2>1. i \in 1 .. Len(s) /\ i + 1 \in 1 .. Len(s) /\ i \in 1 .. Len(s) - 1
    BY <1>1
  <2>2. QED
    BY <1>1, <2>1
<1>3. AgesIn(RemoveAt(s, j), t, a, c, r)
  BY <1>2 DEF AgesIn
<1>4. CurrentIn(s, t, a) => CurrentIn(RemoveAt(s, j), t, a)
  BY <1>2 DEF CurrentIn
<1>5. QED
  BY <1>1, <1>2, <1>3, <1>4

-----------------------------------------------------------------------------
(* How a step may leave the receiver *)

\* The ages of the frames that are owed, after n steps of the token.
LEMMA OwedAdvance ==
  ASSUME ReceiverAssumption, NEW w, Bounded(w), IInv, QueuedBriefly(w),
         NEW b \in {started, started + 1}, NEW c2 \in 0 .. 1, NEW r2 \in Nat, NEW n \in 0 .. 3,
         n + IdleCount + resets <= 2 * (b - started) + c2 + r2
  PROVE  /\ AgesIn(owed, Step(reception, n), b, c2, r2)
         /\ n # 0 => \A i \in 1 .. Len(owed) : owed[i].token # Step(reception, n)
         /\ Step(reception, n) \in Tokens
<1>1. /\ owed \in Seq(OwedFrames) /\ reception \in Tokens /\ started \in Nat
      /\ resets \in 0 .. MaxResets
      /\ AgesIn(owed, reception, started, IdleCount, resets)
  BY DEF IInv, ReceiverTypes, FrameTypes, FrameAges
<1>2. IdleCount \in 0 .. 1
  BY DEF IdleCount
<1>3. \A i \in 1 .. Len(owed) : started - owed[i].no <= w
  BY <1>1, LenProperties DEF QueuedBriefly
<1>4. Step(reception, n) \in Tokens
  BY <1>1, Steps
<1> HIDE DEF IInv
<1>5. QED
  BY <1>1, <1>2, <1>3, <1>4, AgesAdvance

\* No reception is left.
LEMMA IdleHolds ==
  ASSUME state' = "idle", nCrTimer' = FALSE, assemblyBuffer' = <<>>,
         expectedTotalLength' \in Nat, framesInBlock' \in Nat,
         reception' \in Tokens, started' \in Nat, ended' \in Nat, started' = ended' + 0,
         resets' \in 0 .. MaxResets,
         owed' \in Seq(OwedFrames), AgesIn(owed', reception', started', 1, resets')
  PROVE  IInv'
<1>1. ReceiverTypes'
  BY DEF ReceiverTypes
<1>2. AssemblyTypes'
  BY EmptySeq DEF AssemblyTypes
<1>3. ReceptionIsTimed'
  BY DEF ReceptionIsTimed, Receiving
<1>4. EndsOnce'
  BY Zenon DEF EndsOnce, Receiving
<1>5. FrameTypes' /\ FrameAges' /\ CurrentFrames'
  BY DEF FrameTypes, FrameAges, IdleCount, CurrentFrames, Receiving
<1>6. QED
  BY <1>1, <1>2, <1>3, <1>4, <1>5 DEF IInv

\* A reception goes on.
LEMMA ReceivingHolds ==
  ASSUME state' = "receivingCf", nCrTimer' = TRUE, assemblyBuffer' \in Seq(Byte),
         expectedTotalLength' \in Nat, framesInBlock' \in Nat,
         Len(assemblyBuffer') < expectedTotalLength', expectedTotalLength' <= MaxPduSize,
         BlockSize # 0 => framesInBlock' < BlockSize,
         reception' \in Tokens, started' \in Nat, ended' \in Nat, started' = ended' + 1,
         resets' \in 0 .. MaxResets,
         owed' \in Seq(OwedFrames), AgesIn(owed', reception', started', 0, resets'),
         CurrentIn(owed', reception', started')
  PROVE  IInv'
<1>1. ReceiverTypes'
  BY Zenon DEF ReceiverTypes
<1>2. AssemblyTypes'
  BY DEF AssemblyTypes
<1>3. ReceptionIsTimed'
  BY DEF ReceptionIsTimed, Receiving
<1>4. EndsOnce'
  BY DEF EndsOnce, Receiving
<1>5. FrameTypes' /\ FrameAges' /\ CurrentFrames'
  BY DEF FrameTypes, FrameAges, IdleCount, CurrentFrames, Receiving
<1>6. QED
  BY <1>1, <1>2, <1>3, <1>4, <1>5 DEF IInv

\* What the handlers know of a receiver that satisfies the invariant.
LEMMA Facts ==
  ASSUME ReceiverAssumption, IInv
  PROVE  /\ reception \in Tokens /\ started \in Nat /\ ended \in Nat
         /\ resets \in 0 .. MaxResets /\ MaxResets \in Nat
         /\ assemblyBuffer \in Seq(Byte) /\ expectedTotalLength \in Nat /\ framesInBlock \in Nat
         /\ owed \in Seq(OwedFrames)
         /\ state \in {"idle", "receivingCf"}
         /\ nCrTimer \in BOOLEAN /\ nCrTimer = Receiving
         /\ Receiving => /\ IdleCount = 0 /\ started = ended + 1
                         /\ TokenAfterSuperseded = Next1(reception)
                         /\ EndedAfterSuperseded = ended + 1
         /\ ~Receiving => /\ IdleCount = 1 /\ started = ended
                          /\ TokenAfterSuperseded = reception
                          /\ EndedAfterSuperseded = ended
BY DEF ReceiverAssumption, IInv, ReceiverTypes, AssemblyTypes, FrameTypes, ReceptionIsTimed,
       EndsOnce, Receiving, IdleCount, TokenAfterSuperseded, EndedAfterSuperseded

\* The tokens that EndSupersededReception and Clear make, and the ended
\* receptions after the former.
LEMMA Superseded ==
  ASSUME ReceiverAssumption, NEW w, Bounded(w), IInv
  PROVE  \E n \in 0 .. 1 :
           /\ n + IdleCount = 1
           /\ TokenAfterSuperseded = Step(reception, n)
           /\ Next1(TokenAfterSuperseded) = Step(reception, n + 1)
           /\ Next1(Step(reception, n + 1)) = Step(reception, n + 2)
           /\ EndedAfterSuperseded = started
<1>1. /\ Step(reception, 0) = reception
      /\ \A n \in 0 .. 2 : Next1(Step(reception, n)) = Step(reception, n + 1)
  BY Facts, Steps
<1>2. CASE Receiving
  <2>1. /\ 1 + IdleCount = 1
        /\ TokenAfterSuperseded = Step(reception, 1)
        /\ EndedAfterSuperseded = started
    BY <1>1, <1>2, Facts
  <2>2. /\ Next1(Step(reception, 1)) = Step(reception, 1 + 1)
        /\ Next1(Step(reception, 1 + 1)) = Step(reception, 1 + 2)
    BY <1>1
  <2>3. QED
    BY <2>1, <2>2
<1>3. CASE ~Receiving
  <2>1. /\ 0 + IdleCount = 1
        /\ TokenAfterSuperseded = Step(reception, 0)
        /\ EndedAfterSuperseded = started
    BY <1>1, <1>3, Facts
  <2>2. /\ Next1(Step(reception, 0)) = Step(reception, 0 + 1)
        /\ Next1(Step(reception, 0 + 1)) = Step(reception, 0 + 2)
    BY <1>1
  <2>3. QED
    BY <2>1, <2>2
<1>4. QED
  BY <1>2, <1>3

-----------------------------------------------------------------------------
(* Frames *)

LEMMA BytesAreNumbers == Byte \subseteq Int
BY DEF Byte

\* What the decoders return of a frame that the peer may send.
LEMMA FrameProperties ==
  ASSUME ReceiverAssumption, NEW frame \in Frames
  PROVE  /\ frame \in Seq(Byte) /\ Len(frame) \in 0 .. 8
         /\ TakesFirstFrame(frame) =>
              /\ Len(frame) = 8
              /\ DecodeFirstFrameTotalLength(frame) \in Nat
              /\ DecodeFirstFrameTotalLength(frame) > 7
<1>1. frame \in Seq(Byte) /\ Len(frame) \in Nat /\ Len(frame) <= 8
  BY LenProperties DEF ReceiverAssumption
<1>2. ASSUME Len(frame) = 8
      PROVE  DecodeFirstFrameTotalLength(frame) \in Nat
  <2>1. 1 \in 1 .. Len(frame) /\ 2 \in 1 .. Len(frame)
    BY <1>2
  <2>2. frame[1] \in Byte /\ frame[2] \in Byte
    BY <1>1, <2>1, ElementOfSeq
  <2>3. \A a, b \in Byte : (a % 16) * 256 + b \in Nat
    BY DEF Byte
  <2>4. (frame[1] % 16) * 256 + frame[2] \in Nat
    BY <2>2, <2>3
  <2>5. QED
    BY <1>2, <2>4 DEF DecodeFirstFrameTotalLength
<1>3. Len(frame) \in 0 .. 8
  <2>1. \A n \in Nat : n <= 8 => n \in 0 .. 8
    OBVIOUS
  <2>2. QED
    BY <1>1, <2>1, Zenon
<1>4. ASSUME TakesFirstFrame(frame)
      PROVE  Len(frame) = 8 /\ DecodeFirstFrameTotalLength(frame) > 7
  <2>1. \A n \in Nat : n <= 8 /\ n >= 8 => n = 8
    OBVIOUS
  <2>2. Len(frame) >= 8 /\ DecodeFirstFrameTotalLength(frame) > 7
    BY <1>4, Zenon DEF TakesFirstFrame, sfMaxPayloadBytes
  <2>3. QED
    BY <1>1, <2>1, <2>2, Zenon
<1>5. QED
  BY <1>1, <1>2, <1>3, <1>4

LEMMA FlowControlFrame ==
  ASSUME ReceiverAssumption, NEW status \in {"continueToSend", "overflow"},
         NEW token \in Tokens, NEW no \in Nat
  PROVE  /\ FlowControlOwed(status, token, no) \in OwedFrames
         /\ FlowControlOwed(status, token, no).token = token
         /\ FlowControlOwed(status, token, no).no = no
<1>1. EncodeFlowControl(status, BlockSize, SeparationTime) \in Seq(Byte)
  <2>1. BlockSize \in Byte /\ SeparationTime \in Byte
    BY DEF ReceiverAssumption
  <2>2. ASSUME NEW a \in Byte, NEW b \in Byte, NEW c \in Byte
        PROVE  <<a, b, c>> \in Seq(Byte)
    OBVIOUS
  <2>3. 48 + (CASE status = "continueToSend" -> 0 [] status = "wait" -> 1 [] OTHER -> 2) \in Byte
    BY DEF Byte
  <2>4. QED
    BY <2>1, <2>2, <2>3 DEF EncodeFlowControl
<1>2. QED
  BY <1>1 DEF FlowControlOwed, OwedFrames

-----------------------------------------------------------------------------
(* The handlers preserve the invariant *)

LEMMA SingleFramePreserves ==
  ASSUME ReceiverAssumption, NEW w, Bounded(w), IInv, QueuedBriefly(w),
         NEW frame \in Frames, HandleSingleFrame(frame)
  PROVE  IInv'
<1>1. PICK n \in 0 .. 1 :
        /\ n + IdleCount = 1
        /\ TokenAfterSuperseded = Step(reception, n)
        /\ Next1(TokenAfterSuperseded) = Step(reception, n + 1)
        /\ EndedAfterSuperseded = started
  BY Superseded
<1>2. /\ started' = started + 1 /\ state' = "idle" /\ assemblyBuffer' = <<>>
      /\ expectedTotalLength' = expectedTotalLength /\ framesInBlock' = framesInBlock
      /\ owed' = owed /\ resets' = resets
  BY DEF HandleSingleFrame
<1>3. nCrTimer' = FALSE
  BY Zenon DEF HandleSingleFrame
<1>4. /\ reception' \in {Step(reception, n + 1), Step(reception, n)}
      /\ ended' = started + 1
  BY <1>1 DEF HandleSingleFrame, Ends
<1>5. PICK k \in {n, n + 1} : reception' = Step(reception, k)
  BY <1>4
<1>6. /\ started \in Nat /\ resets \in 0 .. MaxResets /\ MaxResets \in Nat
      /\ owed \in Seq(OwedFrames)
      /\ expectedTotalLength \in Nat /\ framesInBlock \in Nat
  BY Facts
<1>7. k \in 0 .. 3 /\ k + IdleCount + resets <= 2 * ((started + 1) - started) + 1 + resets
  <2>1. IdleCount \in 0 .. 1
    BY DEF IdleCount
  <2>2. QED
    BY <1>1, <1>5, <1>6, <2>1
<1>8. AgesIn(owed, Step(reception, k), started + 1, 1, resets) /\ Step(reception, k) \in Tokens
  <2>1. started + 1 \in {started, started + 1} /\ 1 \in 0 .. 1 /\ resets \in Nat
    BY <1>6
  <2>2. QED
    BY <1>7, <2>1, OwedAdvance, Zenon
<1>9. /\ started' \in Nat /\ ended' \in Nat /\ started' = ended' + 0
  BY <1>2, <1>4, <1>6
<1>10. /\ expectedTotalLength' \in Nat /\ framesInBlock' \in Nat /\ resets' \in 0 .. MaxResets
       /\ owed' \in Seq(OwedFrames) /\ reception' \in Tokens
       /\ AgesIn(owed', reception', started', 1, resets')
  BY <1>2, <1>5, <1>6, <1>8
<1>11. QED
  BY <1>2, <1>3, <1>9, <1>10, IdleHolds, Zenon

\* A flow control frame is handed down for the reception that goes on, or is
\* refused and ends it.
LEMMA SendContinuePreserves ==
  ASSUME ReceiverAssumption, NEW w, Bounded(w), IInv, QueuedBriefly(w),
         NEW n \in 0 .. 2, NEW no \in {started, started + 1}, NEW before, NEW buffer,
         no # 0,
         n + IdleCount <= 2 * (no - started),
         CurrentIn(owed, Step(reception, n), no),
         no = before + 1, before \in Nat,
         SendContinue(Step(reception, n), no, before), BufferIs(buffer),
         buffer \in Seq(Byte), Len(buffer) < expectedTotalLength',
         expectedTotalLength' \in Nat, expectedTotalLength' <= MaxPduSize,
         framesInBlock' = 0, started' = no, resets' = resets
  PROVE  IInv'
<1> DEFINE token == Step(reception, n)
           f == FlowControlOwed("continueToSend", token, no)
<1>1. /\ started \in Nat /\ resets \in 0 .. MaxResets /\ MaxResets \in Nat
      /\ owed \in Seq(OwedFrames) /\ no \in Nat /\ reception \in Tokens
      /\ IdleCount \in 0 .. 1
  <2>1. started \in Nat
    BY Facts
  <2>2. QED
    BY <2>1, Facts DEF IdleCount
<1>2. BlockSize \in Nat
  <2>1. BlockSize \in Byte
    BY Zenon DEF ReceiverAssumption
  <2>2. QED
    BY <2>1 DEF Byte
<1>3. framesInBlock' \in Nat /\ (BlockSize # 0 => framesInBlock' < BlockSize)
  BY <1>2
<1>4. started' \in Nat /\ resets' \in 0 .. MaxResets
  BY <1>1
<1>5. ASSUME owed' = Append(owed, f), state' = "receivingCf", nCrTimer' = TRUE,
             reception' = token, ended' = before
      PROVE  IInv'
  <2>1. n \in 0 .. 3 /\ n + IdleCount + resets <= 2 * (no - started) + 0 + resets
    BY <1>1
  <2>2. AgesIn(owed, token, no, 0, resets) /\ token \in Tokens
    BY <1>1, <2>1, OwedAdvance, SMTT(30)
  <2> HIDE DEF token
  <2>3. f \in OwedFrames /\ f.token = token /\ f.no = no
    BY <1>1, <2>2, FlowControlFrame
  <2> HIDE DEF f
  <2>4. Distance(f.token, token) <= 0 + resets
    <3>1. Distance(f.token, token) = 0
      BY <2>2, <2>3, DistanceGrows
    <3>2. QED
      BY <1>1, <3>1
  <2>5. CurrentIn(owed, token, no)
    BY DEF token
  <2>6. /\ Append(owed, f) \in Seq(OwedFrames)
        /\ AgesIn(Append(owed, f), token, no, 0, resets)
        /\ CurrentIn(Append(owed, f), token, no)
    <3>1. no \in Nat \ {0} /\ 0 \in Nat /\ resets \in Nat
      BY <1>1
    <3>2. QED
      BY <1>1, <2>2, <2>3, <2>4, <2>5, <3>1, AgesAppend
  <2>7. /\ owed' \in Seq(OwedFrames) /\ reception' \in Tokens
        /\ AgesIn(owed', reception', started', 0, resets')
        /\ CurrentIn(owed', reception', started')
    BY <1>5, <2>2, <2>6, Zenon
  <2>8. assemblyBuffer' = buffer
    BY <1>5 DEF BufferIs
  <2>9. ended' \in Nat /\ started' = ended' + 1
    BY <1>5, Zenon
  <2>10. assemblyBuffer' \in Seq(Byte) /\ Len(assemblyBuffer') < expectedTotalLength'
    BY <2>8, Zenon
  <2>11. QED
    BY <1>3, <1>4, <1>5, <2>7, <2>9, <2>10, ReceivingHolds, Zenon
<1>6. ASSUME state' = "idle", nCrTimer' = FALSE, reception' = Next1(token),
             ended' = before + 1, owed' = owed
      PROVE  IInv'
  <2>1. Next1(token) = Step(reception, n + 1) /\ n + 1 \in 0 .. 3
    BY <1>1, Steps
  <2>2. (n + 1) + IdleCount + resets <= 2 * (no - started) + 1 + resets
    BY <1>1
  <2>3. AgesIn(owed, Step(reception, n + 1), no, 1, resets) /\ Step(reception, n + 1) \in Tokens
    BY <1>1, <2>1, <2>2, OwedAdvance
  <2>4. /\ owed' \in Seq(OwedFrames) /\ reception' \in Tokens
        /\ AgesIn(owed', reception', started', 1, resets')
    BY <1>1, <1>6, <2>1, <2>3, Zenon
  <2>5. assemblyBuffer' = <<>>
    BY <1>6 DEF BufferIs
  <2>6. ended' \in Nat /\ started' = ended' + 0
    <3>1. ended' = no /\ started' = no /\ no \in Nat
      BY <1>1, <1>6, Zenon
    <3>2. \A x \in Nat : x = x + 0
      OBVIOUS
    <3>3. QED
      BY <3>1, <3>2, Zenon
  <2>7. QED
    BY <1>3, <1>4, <1>6, <2>4, <2>5, <2>6, IdleHolds, Zenon
<1>7. QED
  BY <1>5, <1>6, Zenon DEF SendContinue, Ends

\* A first frame whose PDU does not fit.
LEMMA OverflowPreserves ==
  ASSUME ReceiverAssumption, NEW w, Bounded(w), IInv, QueuedBriefly(w),
         started' = started + 1, resets' = resets,
         \/ owed' = Append(owed, FlowControlOwed("overflow", TokenAfterSuperseded, started + 1))
         \/ owed' = owed,
         Clear(TokenAfterSuperseded), Ends(EndedAfterSuperseded + 1, "overflow")
  PROVE  IInv'
<1> DEFINE token == TokenAfterSuperseded
           f == FlowControlOwed("overflow", token, started + 1)
<1>1. PICK n \in 0 .. 1 :
        /\ n + IdleCount = 1
        /\ token = Step(reception, n)
        /\ Next1(token) = Step(reception, n + 1)
        /\ EndedAfterSuperseded = started
  BY Superseded
<1>2. /\ started \in Nat /\ resets \in 0 .. MaxResets /\ MaxResets \in Nat
      /\ owed \in Seq(OwedFrames) /\ reception \in Tokens
      /\ expectedTotalLength \in Nat /\ framesInBlock \in Nat
  BY Facts
<1>3. IdleCount \in 0 .. 1
  BY DEF IdleCount
<1>4. /\ state' = "idle" /\ nCrTimer' = FALSE /\ assemblyBuffer' = <<>>
      /\ reception' = Next1(token)
      /\ expectedTotalLength' = expectedTotalLength /\ framesInBlock' = framesInBlock
      /\ ended' = EndedAfterSuperseded + 1
  BY Zenon DEF Clear, Ends
<1>5. token \in Tokens /\ Next1(token) = Step(token, 1)
  BY <1>1, <1>2, Steps
<1>6. /\ started' \in Nat /\ ended' \in Nat /\ started' = ended' + 0
      /\ resets' \in 0 .. MaxResets /\ started + 1 \in Nat \ {0}
  <2>1. ended' = started + 1
    BY <1>1, <1>4, Zenon
  <2>2. \A x \in Nat : x + 1 \in Nat \ {0} /\ x + 1 = (x + 1) + 0
    OBVIOUS
  <2>3. QED
    BY <1>2, <2>1, <2>2
<1> HIDE DEF token
<1>7. AgesIn(owed, Step(reception, n + 1), started + 1, 1, resets) /\ Step(reception, n + 1) \in Tokens
  <2>1. /\ n + 1 \in 0 .. 3
        /\ (n + 1) + IdleCount + resets <= 2 * ((started + 1) - started) + 1 + resets
    BY <1>1, <1>2, <1>3
  <2>2. started + 1 \in {started, started + 1} /\ 1 \in 0 .. 1 /\ resets \in Nat
    BY <1>2
  <2>3. QED
    BY <2>1, <2>2, OwedAdvance, Zenon
<1>8. AgesIn(owed, Next1(token), started + 1, 1, resets) /\ Next1(token) \in Tokens
  BY <1>1, <1>7, Zenon
<1>9. f \in OwedFrames /\ f.token = token /\ f.no = started + 1
  BY <1>5, <1>6, FlowControlFrame
<1>10. Distance(f.token, Next1(token)) <= 1 + resets
  <2>1. Distance(token, token) = 0
    BY <1>5, DistanceGrows
  <2>2. TokenModulus \in Nat /\ TokenModulus > 4
    BY TokenNumbers
  <2>3. 1 \in 0 .. 3 /\ Distance(token, token) + 1 < TokenModulus
    BY <2>1, <2>2
  <2>4. Distance(token, Step(token, 1)) = Distance(token, token) + 1
    BY <1>5, <2>3, DistanceGrows
  <2>5. Distance(token, Next1(token)) = 1
    BY <1>5, <2>1, <2>4
  <2>6. QED
    BY <1>2, <1>9, <2>5
<1>11. Append(owed, f) \in Seq(OwedFrames) /\ AgesIn(Append(owed, f), Next1(token), started + 1, 1, resets)
  <2>1. 1 \in Nat /\ resets \in Nat
    BY <1>2
  <2> HIDE DEF f
  <2>2. QED
    BY <1>2, <1>6, <1>8, <1>9, <1>10, <2>1, AgesAppend
<1>12. owed' = Append(owed, f) \/ owed' = owed
  BY Zenon DEF token
<1>13. /\ owed' \in Seq(OwedFrames) /\ reception' \in Tokens
       /\ AgesIn(owed', reception', started', 1, resets')
  BY <1>2, <1>4, <1>8, <1>11, <1>12, Zenon
<1>14. expectedTotalLength' \in Nat /\ framesInBlock' \in Nat
  BY <1>2, <1>4, Zenon
<1>15. QED
  BY <1>4, <1>6, <1>13, <1>14, IdleHolds, Zenon

LEMMA FirstFramePreserves ==
  ASSUME ReceiverAssumption, NEW w, Bounded(w), IInv, QueuedBriefly(w),
         NEW frame \in Frames, HandleFirstFrame(frame)
  PROVE  IInv'
<1> DEFINE len == DecodeFirstFrameTotalLength(frame)
           buffer == SubSeq(frame, 3, Len(frame))
<1>1. /\ TakesFirstFrame(frame) /\ started' = started + 1 /\ resets' = resets
  BY DEF HandleFirstFrame
<1>2. /\ frame \in Seq(Byte) /\ Len(frame) = 8
      /\ len \in Nat /\ len > 7
  BY <1>1, FrameProperties
<1>3. started \in Nat /\ owed \in Seq(OwedFrames) /\ reception \in Tokens /\ resets \in 0 .. MaxResets
      /\ MaxResets \in Nat
  BY Facts
<1>4. CASE Fits(len) /\ expectedTotalLength' = len /\ framesInBlock' = 0
           /\ SendContinue(Next1(TokenAfterSuperseded), started + 1, EndedAfterSuperseded)
           /\ BufferIs(buffer)
  <2>1. PICK n \in 0 .. 1 :
          /\ n + IdleCount = 1
          /\ Next1(TokenAfterSuperseded) = Step(reception, n + 1)
          /\ EndedAfterSuperseded = started
    BY Superseded
  <2>2. buffer \in Seq(Byte) /\ Len(buffer) = 6
    <3>1. ASSUME NEW k \in 3 .. Len(frame)
          PROVE  frame[k] \in Byte
      <4>1. k \in 1 .. Len(frame)
        BY <1>2
      <4>2. QED
        BY <1>2, <4>1, ElementOfSeq
    <3>2. 3 \in Int /\ Len(frame) \in Int
      BY <1>2
    <3>3. buffer \in Seq(Byte) /\ Len(buffer) = IF 3 <= Len(frame) THEN Len(frame) - 3 + 1 ELSE 0
      BY <3>1, <3>2, SubSeqProperties
    <3>4. QED
      BY <1>2, <3>3
  <2>3. CurrentIn(owed, Step(reception, n + 1), started + 1)
    <3>1. IdleCount \in 0 .. 1
      BY DEF IdleCount
    <3>2. /\ n + 1 \in 0 .. 3 /\ n + 1 # 0
          /\ (n + 1) + IdleCount + resets <= 2 * ((started + 1) - started) + 0 + resets
      BY <1>3, <2>1, <3>1
    <3>3. started + 1 \in {started, started + 1} /\ 0 \in 0 .. 1 /\ resets \in Nat
      BY <1>3
    <3>4. \A i \in 1 .. Len(owed) : owed[i].token # Step(reception, n + 1)
      BY <3>2, <3>3, OwedAdvance, Zenon
    <3>5. QED
      BY <3>4, Zenon DEF CurrentIn
  <2> HIDE DEF buffer, len
  <2>4. Len(buffer) < expectedTotalLength' /\ expectedTotalLength' \in Nat
        /\ expectedTotalLength' <= MaxPduSize
    BY <1>2, <1>4, <2>2 DEF Fits
  <2>5. /\ n + 1 \in 0 .. 2 /\ started + 1 \in {started, started + 1} /\ started + 1 # 0
        /\ (n + 1) + IdleCount <= 2 * ((started + 1) - started)
    BY <1>3, <2>1 DEF IdleCount
  <2>6. SendContinue(Step(reception, n + 1), started + 1, started)
    BY <1>4, <2>1, Zenon
  <2>7. QED
    BY <1>1, <1>3, <1>4, <2>2, <2>3, <2>4, <2>5, <2>6, SendContinuePreserves, Zenon
<1>5. CASE /\ \/ owed' = Append(owed, FlowControlOwed("overflow", TokenAfterSuperseded, started + 1))
              \/ owed' = owed
           /\ Clear(TokenAfterSuperseded) /\ Ends(EndedAfterSuperseded + 1, "overflow")
  BY <1>1, <1>5, OverflowPreserves, Zenon
<1>6. QED
  BY <1>4, <1>5, Zenon DEF HandleFirstFrame

\* The data of a consecutive frame, up to the length of the PDU.
LEMMA ConsecutiveBuffer ==
  ASSUME ReceiverAssumption, IInv, NEW frame \in Frames, TakesConsecutiveFrame(frame),
         NEW missing, missing = expectedTotalLength - Len(assemblyBuffer)
  PROVE  assemblyBuffer \o SubSeq(frame, 2, IF Len(frame) <= missing THEN Len(frame) ELSE missing + 1)
           \in Seq(Byte)
<1> DEFINE last == IF Len(frame) <= missing THEN Len(frame) ELSE missing + 1
<1>1. /\ frame \in Seq(Byte) /\ Len(frame) \in Nat
      /\ assemblyBuffer \in Seq(Byte) /\ expectedTotalLength \in Nat /\ Len(assemblyBuffer) \in Nat
  BY FrameProperties, Facts, LenProperties
<1>2. missing \in Int
  <2>1. \A x, y \in Nat : x - y \in Int
    OBVIOUS
  <2>2. QED
    BY <1>1, <2>1
<1>3. last \in Int /\ last <= Len(frame)
  <2>1. \A x \in Nat, y \in Int :
          LET z == IF x <= y THEN x ELSE y + 1 IN z \in Int /\ z <= x
    OBVIOUS
  <2>2. QED
    BY <1>1, <1>2, <2>1, Zenon
<1> HIDE DEF last
<1>4. ASSUME NEW k \in 2 .. last
      PROVE  frame[k] \in Byte
  <2>1. \A x \in Nat, y, z \in Int : z \in 2 .. y /\ y <= x => z \in 1 .. x
    OBVIOUS
  <2>2. k \in 1 .. Len(frame)
    BY <1>1, <1>3, <2>1
  <2>3. QED
    BY <1>1, <2>2, ElementOfSeq
<1>5. SubSeq(frame, 2, last) \in Seq(Byte)
  <2>1. 2 \in Int
    OBVIOUS
  <2>2. QED
    BY <1>3, <1>4, <2>1, SubSeqProperties
<1>6. assemblyBuffer \o SubSeq(frame, 2, last) \in Seq(Byte)
  BY <1>1, <1>5, ConcatProperties
<1>7. QED
  BY <1>6 DEF last

\* A reception ends without a flow control frame.
LEMMA ClearPreserves ==
  ASSUME ReceiverAssumption, NEW w, Bounded(w), IInv, QueuedBriefly(w), Receiving,
         Clear(reception), ended' = ended + 1,
         started' = started, resets' = resets,
         \/ owed' = owed
         \/ \E i \in 1 .. Len(owed) : owed' = RemoveAt(owed, i)
  PROVE  IInv'
<1>1. /\ started \in Nat /\ ended \in Nat /\ started = ended + 1 /\ IdleCount = 0
      /\ resets \in 0 .. MaxResets /\ MaxResets \in Nat
      /\ owed \in Seq(OwedFrames) /\ reception \in Tokens
      /\ expectedTotalLength \in Nat /\ framesInBlock \in Nat
  BY Facts, Zenon
<1>2. /\ state' = "idle" /\ nCrTimer' = FALSE /\ assemblyBuffer' = <<>>
      /\ reception' = Next1(reception)
      /\ expectedTotalLength' = expectedTotalLength /\ framesInBlock' = framesInBlock
  BY Zenon DEF Clear
<1>3. Next1(reception) = Step(reception, 1)
  BY <1>1, Steps
<1>4. AgesIn(owed, Step(reception, 1), started, 1, resets) /\ Step(reception, 1) \in Tokens
  <2>1. /\ 1 \in 0 .. 3 /\ 1 \in 0 .. 1 /\ resets \in Nat
        /\ 1 + IdleCount + resets <= 2 * (started - started) + 1 + resets
        /\ started \in {started, started + 1}
    BY <1>1
  <2>2. QED
    BY <2>1, OwedAdvance, Zenon
<1>5. owed' \in Seq(OwedFrames) /\ AgesIn(owed', Step(reception, 1), started, 1, resets)
  <2>1. CASE owed' = owed
    BY <1>1, <1>4, <2>1, Zenon
  <2>2. ASSUME NEW i \in 1 .. Len(owed), owed' = RemoveAt(owed, i)
        PROVE  owed' \in Seq(OwedFrames) /\ AgesIn(owed', Step(reception, 1), started, 1, resets)
    <3>1. RemoveAt(owed, i) \in Seq(OwedFrames)
          /\ AgesIn(RemoveAt(owed, i), Step(reception, 1), started, 1, resets)
      BY <1>1, <1>4, AgesRemoved
    <3>2. QED
      BY <2>2, <3>1, Zenon
  <2>3. QED
    BY <2>1, <2>2
<1>6. /\ reception' \in Tokens /\ AgesIn(owed', reception', started', 1, resets')
      /\ expectedTotalLength' \in Nat /\ framesInBlock' \in Nat /\ resets' \in 0 .. MaxResets
  BY <1>1, <1>2, <1>3, <1>4, <1>5, Zenon
<1>7. started' \in Nat /\ ended' \in Nat /\ started' = ended' + 0
  <2>1. ended' = started /\ started' = started
    BY <1>1, Zenon
  <2>2. \A x \in Nat : x = x + 0
    OBVIOUS
  <2>3. QED
    BY <1>1, <2>1, <2>2, Zenon
<1>8. QED
  BY <1>2, <1>5, <1>6, <1>7, IdleHolds, Zenon

\* The last frame of a PDU.
LEMMA WholePreserves ==
  ASSUME ReceiverAssumption, NEW w, Bounded(w), IInv, QueuedBriefly(w), Receiving,
         state' = "idle", nCrTimer' = FALSE, assemblyBuffer' = <<>>, ended' = ended + 1,
         started' = started, resets' = resets, owed' = owed, reception' = reception,
         expectedTotalLength' = expectedTotalLength, framesInBlock' = framesInBlock
  PROVE  IInv'
<1>1. /\ started \in Nat /\ ended \in Nat /\ started = ended + 1 /\ IdleCount = 0
      /\ resets \in 0 .. MaxResets /\ MaxResets \in Nat
      /\ owed \in Seq(OwedFrames) /\ reception \in Tokens
      /\ expectedTotalLength \in Nat /\ framesInBlock \in Nat
  BY Facts, Zenon
<1>2. Step(reception, 0) = reception
  BY <1>1, Steps
<1>3. AgesIn(owed, Step(reception, 0), started, 1, resets)
  <2>1. /\ 0 \in 0 .. 3 /\ 1 \in 0 .. 1 /\ resets \in Nat
        /\ 0 + IdleCount + resets <= 2 * (started - started) + 1 + resets
        /\ started \in {started, started + 1}
    BY <1>1
  <2>2. QED
    BY <2>1, OwedAdvance, Zenon
<1>4. /\ reception' \in Tokens /\ AgesIn(owed', reception', started', 1, resets')
      /\ expectedTotalLength' \in Nat /\ framesInBlock' \in Nat /\ resets' \in 0 .. MaxResets
      /\ owed' \in Seq(OwedFrames)
  BY <1>1, <1>2, <1>3, Zenon
<1>5. started' \in Nat /\ ended' \in Nat /\ started' = ended' + 0
  <2>1. ended' = started /\ started' = started
    BY <1>1, Zenon
  <2>2. \A x \in Nat : x = x + 0
    OBVIOUS
  <2>3. QED
    BY <1>1, <2>1, <2>2, Zenon
<1>6. QED
  BY <1>4, <1>5, IdleHolds, Zenon

\* The block goes on without a flow control frame.
LEMMA BlockGoesOnPreserves ==
  ASSUME ReceiverAssumption, IInv, Receiving,
         BlockSize = 0 \/ framesInBlock + 1 # BlockSize,
         framesInBlock' = IF BlockSize = 0 THEN framesInBlock ELSE framesInBlock + 1,
         nCrTimer' = TRUE, state' = state, reception' = reception, owed' = owed,
         ended' = ended, started' = started, resets' = resets,
         expectedTotalLength' = expectedTotalLength,
         assemblyBuffer' \in Seq(Byte), Len(assemblyBuffer') < expectedTotalLength
  PROVE  IInv'
<1>1. /\ started \in Nat /\ ended \in Nat /\ started = ended + 1 /\ IdleCount = 0
      /\ resets \in 0 .. MaxResets /\ state \in {"idle", "receivingCf"}
      /\ owed \in Seq(OwedFrames) /\ reception \in Tokens
      /\ expectedTotalLength \in Nat /\ framesInBlock \in Nat
  BY Facts, Zenon
<1>2. state = "receivingCf"
  BY <1>1 DEF Receiving
<1>3. BlockSize \in Nat
  <2>1. BlockSize \in Byte
    BY Zenon DEF ReceiverAssumption
  <2>2. QED
    BY <2>1 DEF Byte
<1>4. /\ expectedTotalLength <= MaxPduSize
      /\ BlockSize # 0 => framesInBlock < BlockSize
  BY Zenon DEF IInv, ReceptionIsTimed
<1>5. framesInBlock' \in Nat /\ (BlockSize # 0 => framesInBlock' < BlockSize)
  <2>1. \A x, y \in Nat : x + 1 \in Nat /\ (x < y /\ x + 1 # y => x + 1 < y)
    OBVIOUS
  <2>2. CASE BlockSize = 0
    BY <1>1, <2>2, Zenon
  <2>3. CASE BlockSize # 0
    BY <1>1, <1>3, <1>4, <2>1, <2>3, Zenon
  <2>4. QED
    BY <2>2, <2>3, Zenon
<1>6. AgesIn(owed, reception, started, 0, resets) /\ CurrentIn(owed, reception, started)
  BY <1>1, Zenon DEF IInv, FrameAges, CurrentFrames
<1>7. QED
  BY <1>1, <1>2, <1>4, <1>5, <1>6, ReceivingHolds, Zenon

LEMMA ConsecutiveFramePreserves ==
  ASSUME ReceiverAssumption, NEW w, Bounded(w), IInv, QueuedBriefly(w),
         NEW frame \in Frames, HandleConsecutiveFrame(frame)
  PROVE  IInv'
<1> DEFINE missing == expectedTotalLength - Len(assemblyBuffer)
           buffer == assemblyBuffer \o
                       SubSeq(frame, 2, IF Len(frame) <= missing THEN Len(frame) ELSE missing + 1)
<1>1. TakesConsecutiveFrame(frame) /\ Receiving /\ started' = started /\ resets' = resets
  BY Zenon DEF HandleConsecutiveFrame, TakesConsecutiveFrame
<1>2. buffer \in Seq(Byte)
  BY <1>1, ConsecutiveBuffer
<1>3. /\ started \in Nat /\ ended \in Nat /\ started = ended + 1 /\ IdleCount = 0
      /\ expectedTotalLength \in Nat /\ reception \in Tokens
  BY <1>1, Facts, Zenon
<1> HIDE DEF buffer
<1>4. CASE Clear(reception) /\ Ends(ended + 1, "unexpectedFrame") /\ owed' = owed
  BY <1>1, <1>4, ClearPreserves, Zenon DEF Ends
<1>5. CASE /\ expectedTotalLength' = expectedTotalLength
           /\ IF IsWhole(buffer)
              THEN /\ state' = "idle" /\ nCrTimer' = FALSE
                   /\ delivered' = Append(delivered, buffer)
                   /\ assemblyBuffer' = <<>>
                   /\ Ends(ended + 1, "delivered")
                   /\ UNCHANGED <<framesInBlock, reception, owed>>
              ELSE /\ ContinueBlock
                   /\ BufferIs(buffer)
                   /\ UNCHANGED delivered
  <2>1. CASE IsWhole(buffer)
    <3>1. /\ state' = "idle" /\ nCrTimer' = FALSE /\ assemblyBuffer' = <<>> /\ ended' = ended + 1
          /\ framesInBlock' = framesInBlock /\ reception' = reception /\ owed' = owed
      BY <1>5, <2>1, Zenon DEF Ends
    <3>2. QED
      BY <1>1, <1>5, <3>1, WholePreserves, Zenon
  <2>2. CASE ~IsWhole(buffer)
    <3>1. ContinueBlock /\ BufferIs(buffer)
      BY <1>5, <2>2, Zenon
    <3>2. Len(buffer) < expectedTotalLength
      <4>1. Len(buffer) \in Nat
        BY <1>2, LenProperties
      <4>2. \A x, y \in Nat : ~(x >= y) => x < y
        OBVIOUS
      <4>3. QED
        BY <1>3, <2>2, <4>1, <4>2, Zenon DEF IsWhole
    <3>3. CASE BlockSize = 0 \/ framesInBlock + 1 # BlockSize
      <4>1. /\ framesInBlock' = IF BlockSize = 0 THEN framesInBlock ELSE framesInBlock + 1
            /\ nCrTimer' = TRUE /\ state' = state /\ reception' = reception /\ owed' = owed
            /\ ended' = ended
        BY <3>1, <3>3, Zenon DEF ContinueBlock
      <4>2. assemblyBuffer' = buffer
        BY <1>1, <3>1, <4>1, Zenon DEF BufferIs, Receiving
      <4>3. QED
        BY <1>1, <1>2, <1>5, <3>2, <3>3, <4>1, <4>2, BlockGoesOnPreserves, Zenon
    <3>4. CASE ~(BlockSize = 0 \/ framesInBlock + 1 # BlockSize)
      <4>1. framesInBlock' = 0 /\ SendContinue(reception, started, ended)
        BY <3>1, <3>4, Zenon DEF ContinueBlock
      <4>2. Step(reception, 0) = reception
        BY <1>3, Steps
      <4>3. /\ 0 \in 0 .. 2 /\ started \in {started, started + 1} /\ started # 0
            /\ 0 + IdleCount <= 2 * (started - started)
        BY <1>3
      <4>4. CurrentIn(owed, Step(reception, 0), started)
        BY <1>1, <4>2, Zenon DEF IInv, CurrentFrames
      <4>5. SendContinue(Step(reception, 0), started, ended)
        BY <4>1, <4>2, Zenon
      <4>6. /\ Len(buffer) < expectedTotalLength' /\ expectedTotalLength' \in Nat
            /\ expectedTotalLength' <= MaxPduSize
        BY <1>1, <1>3, <1>5, <3>2, Zenon DEF IInv, ReceptionIsTimed
      <4>7. QED
        BY <1>1, <1>2, <1>3, <3>1, <4>1, <4>3, <4>4, <4>5, <4>6, SendContinuePreserves, Zenon
    <3>5. QED
      BY <3>3, <3>4, Zenon
  <2>3. QED
    BY <2>1, <2>2, Zenon
<1>6. QED
  BY <1>4, <1>5, Zenon DEF HandleConsecutiveFrame, buffer

LEMMA TimeoutPreserves ==
  ASSUME ReceiverAssumption, NEW w, Bounded(w), IInv, QueuedBriefly(w), NCrTimeout
  PROVE  IInv'
<1>1. Receiving
  BY Facts, Zenon DEF NCrTimeout
<1>2. /\ Clear(reception) /\ ended' = ended + 1 /\ owed' = owed /\ started' = started
      /\ resets' = resets
  BY Zenon DEF NCrTimeout, Ends
<1>3. QED
  BY <1>1, <1>2, ClearPreserves, Zenon

LEMMA ResetPreserves ==
  ASSUME ReceiverAssumption, NEW w, Bounded(w), IInv, QueuedBriefly(w), Reset
  PROVE  IInv'
<1>1. /\ started \in Nat /\ ended \in Nat /\ resets \in 0 .. MaxResets /\ MaxResets \in Nat
      /\ owed \in Seq(OwedFrames) /\ reception \in Tokens
      /\ expectedTotalLength \in Nat /\ framesInBlock \in Nat
  BY Facts, Zenon
<1>2. /\ state' = "idle" /\ nCrTimer' = FALSE /\ assemblyBuffer' = <<>>
      /\ reception' = Next1(reception)
      /\ expectedTotalLength' = expectedTotalLength /\ framesInBlock' = framesInBlock
      /\ owed' = owed /\ started' = started
  BY Zenon DEF Reset, Clear
<1>3. resets' = resets + 1 /\ resets < MaxResets
  BY Zenon DEF Reset
<1>4. ended' = started
  <2>1. CASE Receiving
    <3>1. ended' = ended + 1 /\ started = ended + 1
      BY <2>1, Facts, Zenon DEF Reset, Ends
    <3>2. QED
      BY <3>1, Zenon
  <2>2. CASE ~Receiving
    <3>1. ended' = ended /\ started = ended
      BY <2>2, Facts, Zenon DEF Reset
    <3>2. QED
      BY <3>1, Zenon
  <2>3. QED
    BY <2>1, <2>2, Zenon
<1>5. resets + 1 \in 0 .. MaxResets
  BY <1>1, <1>3
<1>6. Next1(reception) = Step(reception, 1)
  BY <1>1, Steps
<1>7. AgesIn(owed, Step(reception, 1), started, 1, resets + 1) /\ Step(reception, 1) \in Tokens
  <2>1. IdleCount \in 0 .. 1
    BY DEF IdleCount
  <2>2. /\ 1 \in 0 .. 3 /\ 1 \in 0 .. 1 /\ resets + 1 \in Nat
        /\ 1 + IdleCount + resets <= 2 * (started - started) + 1 + (resets + 1)
        /\ started \in {started, started + 1}
    BY <1>1, <2>1
  <2>3. QED
    BY <2>2, OwedAdvance, Zenon
<1>8. /\ reception' \in Tokens /\ AgesIn(owed', reception', started', 1, resets')
      /\ expectedTotalLength' \in Nat /\ framesInBlock' \in Nat /\ resets' \in 0 .. MaxResets
      /\ owed' \in Seq(OwedFrames)
  BY <1>1, <1>2, <1>3, <1>5, <1>6, <1>7, Zenon
<1>9. started' \in Nat /\ ended' \in Nat /\ started' = ended' + 0
  <2>1. \A x \in Nat : x = x + 0
    OBVIOUS
  <2>2. QED
    BY <1>1, <1>2, <1>4, <2>1, Zenon
<1>10. QED
  BY <1>2, <1>8, <1>9, IdleHolds, Zenon

\* Only the frames that are owed change.
LEMMA OwedChanges ==
  ASSUME IInv, UNCHANGED <<receiverVars, started, ended, resets>>,
         owed' \in Seq(OwedFrames), AgesIn(owed', reception, started, IdleCount, resets),
         Receiving => CurrentIn(owed', reception, started)
  PROVE  IInv'
<1>1. /\ state' = state /\ reception' = reception /\ nCrTimer' = nCrTimer
      /\ assemblyBuffer' = assemblyBuffer /\ expectedTotalLength' = expectedTotalLength
      /\ framesInBlock' = framesInBlock
      /\ started' = started /\ ended' = ended /\ resets' = resets
  BY DEF receiverVars, assemblyVars
<1>2. ReceiverTypes' /\ AssemblyTypes' /\ ReceptionIsTimed' /\ EndsOnce'
  BY <1>1, Zenon DEF IInv, ReceiverTypes, AssemblyTypes, ReceptionIsTimed, EndsOnce, Receiving
<1>3. IdleCount' = IdleCount /\ (Receiving' <=> Receiving)
  BY <1>1, Zenon DEF IdleCount, Receiving
<1>4. FrameTypes' /\ FrameAges' /\ CurrentFrames'
  BY <1>1, <1>3, Zenon DEF FrameTypes, FrameAges, CurrentFrames
<1>5. QED
  BY <1>2, <1>4, Zenon DEF IInv

LEMMA TransmittedPreserves ==
  ASSUME ReceiverAssumption, IInv, Transmitted
  PROVE  IInv'
<1>1. owed \in Seq(OwedFrames) /\ AgesIn(owed, reception, started, IdleCount, resets)
      /\ (Receiving => CurrentIn(owed, reception, started))
  BY Zenon DEF IInv, FrameTypes, FrameAges, CurrentFrames
<1>2. owed # <<>> /\ owed' = [owed EXCEPT ![1] = [owed[1] EXCEPT !.sent = TRUE]]
  BY Zenon DEF Transmitted
<1>3. UNCHANGED <<receiverVars, started, ended, resets>>
  BY Zenon DEF Transmitted, historyVars
<1>4. 1 \in 1 .. Len(owed)
  BY <1>1, <1>2, LenProperties, EmptySeq
<1> DEFINE f == [owed[1] EXCEPT !.sent = TRUE]
<1>5. f \in OwedFrames /\ f.no = owed[1].no /\ f.token = owed[1].token
  <2>1. owed[1] \in OwedFrames
    BY <1>1, <1>4, ElementOfSeq
  <2>2. QED
    BY <2>1 DEF OwedFrames
<1> HIDE DEF f
<1>6. owed' = [owed EXCEPT ![1] = f]
  BY <1>2, Zenon DEF f
<1>7. /\ owed' \in Seq(OwedFrames)
      /\ Len(owed') = Len(owed)
      /\ \A k \in 1 .. Len(owed) : owed'[k] = IF k = 1 THEN f ELSE owed[k]
  <2>1. ASSUME NEW t, t = [owed EXCEPT ![1] = f]
        PROVE  /\ t \in Seq(OwedFrames)
               /\ Len(t) = Len(owed)
               /\ \A k \in 1 .. Len(owed) : t[k] = IF k = 1 THEN f ELSE owed[k]
    BY <1>1, <1>4, <1>5, <2>1, ReplacedElement
  <2>2. QED
    BY <1>6, <2>1, Zenon
<1>8. \A k \in 1 .. Len(owed) : owed'[k].no = owed[k].no /\ owed'[k].token = owed[k].token
  BY <1>5, <1>7, Zenon
<1>9. AgesIn(owed', reception, started, IdleCount, resets)
  BY <1>1, <1>7, <1>8, Zenon DEF AgesIn
<1>10. Receiving => CurrentIn(owed', reception, started)
  BY <1>1, <1>7, <1>8, Zenon DEF CurrentIn
<1>11. QED
  BY <1>3, <1>7, <1>9, <1>10, OwedChanges, Zenon

LEMMA CompletionPreserves ==
  ASSUME ReceiverAssumption, NEW w, Bounded(w), IInv, QueuedBriefly(w),
         NEW i \in DOMAIN owed, NEW success \in BOOLEAN, Completion(i, success)
  PROVE  IInv'
<1>1. owed \in Seq(OwedFrames) /\ AgesIn(owed, reception, started, IdleCount, resets)
      /\ (Receiving => CurrentIn(owed, reception, started))
  BY Zenon DEF IInv, FrameTypes, FrameAges, CurrentFrames
<1>2. i \in 1 .. Len(owed) /\ owed' = RemoveAt(owed, i) /\ started' = started /\ resets' = resets
  <2>1. i \in 1 .. Len(owed)
    BY <1>1, LenProperties
  <2>2. QED
    BY <2>1, Zenon DEF Completion
<1>3. CASE Clear(reception) /\ Ends(ended + 1, "sendFailed") /\ IsCurrent(owed[i])
  <2>1. Receiving
    BY <1>3, Zenon DEF IsCurrent, Receiving
  <2>2. ended' = ended + 1
    BY <1>3, Zenon DEF Ends
  <2>3. QED
    BY <1>2, <1>3, <2>1, <2>2, ClearPreserves, Zenon
<1>4. CASE UNCHANGED <<receiverVars, ended, reports>>
  <2>1. /\ RemoveAt(owed, i) \in Seq(OwedFrames)
        /\ AgesIn(RemoveAt(owed, i), reception, started, IdleCount, resets)
        /\ CurrentIn(owed, reception, started) => CurrentIn(RemoveAt(owed, i), reception, started)
    BY <1>1, <1>2, AgesRemoved
  <2>2. UNCHANGED <<receiverVars, started, ended, resets>>
    BY <1>2, <1>4
  <2>3. QED
    BY <1>1, <1>2, <2>1, <2>2, OwedChanges, Zenon
<1>5. QED
  BY <1>3, <1>4, Zenon DEF Completion

LEMMA UnchangedPreserves ==
  ASSUME IInv, UNCHANGED vars
  PROVE  IInv'
<1>1. UNCHANGED <<receiverVars, started, ended, resets>> /\ owed' = owed
  BY DEF vars, historyVars
<1>2. QED
  BY <1>1, OwedChanges, Zenon DEF IInv, FrameTypes, FrameAges, CurrentFrames

LEMMA InitEstablishes ==
  ASSUME ReceiverAssumption, NEW w, Bounded(w), Init
  PROVE  IInv
<1>1. /\ state = "idle" /\ assemblyBuffer = <<>> /\ expectedTotalLength = 0 /\ framesInBlock = 0
      /\ reception = 0 /\ nCrTimer = FALSE /\ owed = <<>> /\ started = 0 /\ ended = 0 /\ resets = 0
  BY DEF Init
<1>2. 0 \in Tokens /\ 0 \in 0 .. MaxResets
  BY TokenNumbers DEF Tokens
<1>3. ReceiverTypes /\ AssemblyTypes
  BY <1>1, <1>2, EmptySeq, Zenon DEF ReceiverTypes, AssemblyTypes
<1>4. ReceptionIsTimed /\ CurrentFrames
  BY <1>1 DEF ReceptionIsTimed, CurrentFrames, Receiving
<1>5. EndsOnce
  BY <1>1 DEF EndsOnce, Receiving
<1>6. FrameTypes
  BY <1>1, EmptySeq DEF FrameTypes
<1>7. FrameAges
  BY <1>1, EmptySeq DEF FrameAges, AgesIn
<1>8. QED
  BY <1>3, <1>4, <1>5, <1>6, <1>7 DEF IInv

LEMMA StepPreserves ==
  ASSUME ReceiverAssumption, NEW w, Bounded(w), IInv, QueuedBriefly(w), [Next]_vars
  PROVE  IInv'
<1>1. ASSUME NEW frame \in Frames, ProcessFrame(frame)
      PROVE  IInv'
  BY <1>1, SingleFramePreserves, FirstFramePreserves, ConsecutiveFramePreserves, Zenon
     DEF ProcessFrame
<1>2. CASE NCrTimeout
  BY <1>2, TimeoutPreserves, Zenon
<1>3. CASE Transmitted
  BY <1>3, TransmittedPreserves, Zenon
<1>4. ASSUME NEW i \in DOMAIN owed, NEW success \in BOOLEAN, Completion(i, success)
      PROVE  IInv'
  BY <1>4, CompletionPreserves, Zenon
<1>5. CASE Reset
  BY <1>5, ResetPreserves, Zenon
<1>6. CASE UNCHANGED vars
  BY <1>6, UnchangedPreserves, Zenon
<1>7. QED
  BY <1>1, <1>2, <1>3, <1>4, <1>5, <1>6, Zenon DEF Next

-----------------------------------------------------------------------------
(* Late completions *)

\* Every other step keeps the frames that are owed, or adds one.
LEMMA OtherSteps ==
  ASSUME IInv, Next, ~(\E i \in DOMAIN owed, success \in BOOLEAN : Completion(i, success))
  PROVE  Len(owed') >= Len(owed)
<1>1. owed \in Seq(OwedFrames) /\ Len(owed) \in Nat
  BY LenProperties DEF IInv, FrameTypes
<1>2. ASSUME owed' = owed
      PROVE  Len(owed') >= Len(owed)
  BY <1>1, <1>2
<1>3. ASSUME NEW status, NEW token, NEW no, owed' = Append(owed, FlowControlOwed(status, token, no))
      PROVE  Len(owed') >= Len(owed)
  <2> DEFINE f == FlowControlOwed(status, token, no)
  <2>1. owed \in Seq(OwedFrames \cup {f})
    BY <1>1, SeqMonotonic
  <2> HIDE DEF f
  <2>2. Len(Append(owed, f)) = Len(owed) + 1
    BY <2>1, AppendProperties
  <2>3. Len(owed') = Len(owed) + 1
    BY <1>3, <2>2, Zenon DEF f
  <2>4. QED
    BY <1>1, <2>3
<1>4. ASSUME NEW token, NEW no, NEW before, SendContinue(token, no, before)
      PROVE  Len(owed') >= Len(owed)
  BY <1>2, <1>3, <1>4, Zenon DEF SendContinue
<1>5. ASSUME NEW frame \in Frames, HandleSingleFrame(frame)
      PROVE  Len(owed') >= Len(owed)
  BY <1>2, <1>5, Zenon DEF HandleSingleFrame
<1>6. ASSUME NEW frame \in Frames, HandleFirstFrame(frame)
      PROVE  Len(owed') >= Len(owed)
  BY <1>2, <1>3, <1>4, <1>6, Zenon DEF HandleFirstFrame
<1>7. ASSUME NEW frame \in Frames, HandleConsecutiveFrame(frame)
      PROVE  Len(owed') >= Len(owed)
  BY <1>2, <1>4, <1>7, Zenon DEF HandleConsecutiveFrame, ContinueBlock
<1>8. CASE NCrTimeout \/ Reset
  BY <1>2, <1>8, Zenon DEF NCrTimeout, Reset
<1>9. CASE Transmitted
  <2>1. ASSUME NEW t, t = [owed EXCEPT ![1] = [owed[1] EXCEPT !.sent = TRUE]]
        PROVE  Len(t) = Len(owed)
    BY <1>1, <2>1
  <2>2. Len(owed') = Len(owed)
    BY <1>9, <2>1, Zenon DEF Transmitted
  <2>3. QED
    BY <1>1, <2>2
<1>10. QED
  BY <1>5, <1>6, <1>7, <1>8, <1>9, Zenon DEF Next, ProcessFrame

LEMMA StaleFailure ==
  ASSUME ReceiverAssumption, IInv, [Next]_vars, NEW i \in DOMAIN owed,
         owed' = RemoveAt(owed, i), owed[i].no < started \/ started = ended
  PROVE  UNCHANGED <<receiverVars, ended>>
<1>1. owed \in Seq(OwedFrames) /\ Len(owed) \in Nat /\ i \in 1 .. Len(owed)
  BY LenProperties DEF IInv, FrameTypes
<1>2. Len(owed') = Len(owed) - 1
  BY <1>1, RemoveAtProperties
<1>3. CASE UNCHANGED vars
  BY <1>3 DEF vars, historyVars
<1>4. ASSUME NEW j \in DOMAIN owed, NEW success \in BOOLEAN, Completion(j, success)
      PROVE  UNCHANGED <<receiverVars, ended>>
  <2>1. j \in 1 .. Len(owed) /\ owed' = RemoveAt(owed, j)
    <3>1. j \in 1 .. Len(owed)
      BY <1>1, LenProperties
    <3>2. QED
      BY <1>4, <3>1, Zenon DEF Completion
  <2>2. CASE IsCurrent(owed[j])
    <3>1. Receiving /\ owed[j].token = reception
      BY <2>2, Zenon DEF IsCurrent, Receiving
    <3>2. started = ended + 1 /\ started \in Nat /\ ended \in Nat
      BY <3>1, Facts, Zenon
    <3>3. owed[j].no = started
      BY <2>1, <3>1, Zenon DEF IInv, CurrentFrames, CurrentIn
    <3>4. owed[i] = owed[j]
      BY <1>1, <2>1, RemovedElement
    <3>5. \A x, y \in Nat : x = y + 1 => ~(x < x) /\ x # y
      OBVIOUS
    <3>6. QED
      BY <3>2, <3>3, <3>4, <3>5, Zenon
  <2>3. CASE UNCHANGED <<receiverVars, ended, reports>>
    BY <2>3
  <2>4. QED
    BY <1>4, <2>2, <2>3, Zenon DEF Completion
<1>5. CASE Next /\ ~(\E j \in DOMAIN owed, success \in BOOLEAN : Completion(j, success))
  <2>1. Len(owed') >= Len(owed)
    BY <1>5, OtherSteps
  <2>2. QED
    BY <1>1, <1>2, <2>1
<1>6. QED
  BY <1>3, <1>4, <1>5, Zenon

-----------------------------------------------------------------------------
(* Short lives *)

\* The number of receptions bounds how many follow a frame.
LEMMA ShortIsBrief ==
  ASSUME ReceiverAssumption, IInv, started <= MaxReceptions
  PROVE  QueuedBriefly(MaxReceptions)
<1>1. started \in Nat /\ MaxReceptions \in Nat
  BY DEF IInv, ReceiverTypes, ReceiverAssumption
<1>2. DOMAIN owed = 1 .. Len(owed)
  BY LenProperties DEF IInv, FrameTypes
<1>3. ASSUME NEW i \in 1 .. Len(owed)
      PROVE  started - owed[i].no <= MaxReceptions
  <2>1. owed[i].no \in 1 .. started
    BY DEF IInv, FrameAges, AgesIn
  <2>2. QED
    BY <1>1, <2>1
<1>4. QED
  BY <1>2, <1>3 DEF QueuedBriefly

LEMMA ShortStaysShort ==
  ASSUME ReceiverAssumption, IInv, started <= MaxReceptions, [Next]_vars
  PROVE  started' <= MaxReceptions
<1>1. started \in Nat /\ MaxReceptions \in Nat
  BY DEF IInv, ReceiverTypes, ReceiverAssumption
<1>2. CASE started' = started
  BY <1>2
<1>3. CASE started < MaxReceptions /\ started' = started + 1
  BY <1>1, <1>3
<1>4. QED
  BY <1>2, <1>3, Zenon
     DEF Next, ProcessFrame, HandleSingleFrame, HandleFirstFrame, HandleConsecutiveFrame,
         NCrTimeout, Transmitted, Completion, Reset, vars, historyVars

-----------------------------------------------------------------------------
(* What the frames of a PDU do *)

\* A frame of a header and data.
LEMMA HeaderThenData ==
  ASSUME NEW header \in Seq(Byte), NEW data \in Seq(Byte)
  PROVE  /\ header \o data \in Seq(Byte)
         /\ Len(header) \in Nat /\ Len(data) \in Nat
         /\ Len(header \o data) = Len(header) + Len(data)
         /\ \A i \in 1 .. Len(header) : (header \o data)[i] = header[i]
         /\ \A i \in 1 .. Len(data) : (header \o data)[Len(header) + i] = data[i]
<1>1. /\ header \o data \in Seq(Byte)
      /\ Len(header \o data) = Len(header) + Len(data)
      /\ \A k \in 1 .. Len(header) + Len(data) :
           (header \o data)[k] = IF k <= Len(header) THEN header[k] ELSE data[k - Len(header)]
  BY ConcatProperties
<1>2. Len(header) \in Nat /\ Len(data) \in Nat
  BY LenProperties
<1>3. \A i \in 1 .. Len(header) : i \in 1 .. Len(header) + Len(data) /\ i <= Len(header)
  BY <1>2
<1>4. \A i \in 1 .. Len(data) : /\ Len(header) + i \in 1 .. Len(header) + Len(data)
                                /\ ~(Len(header) + i <= Len(header))
                                /\ (Len(header) + i) - Len(header) = i
  BY <1>2
<1>5. QED
  BY <1>1, <1>2, <1>3, <1>4

\* A part of a sequence.
LEMMA PartOf ==
  ASSUME NEW s \in Seq(Byte), NEW a \in Nat \ {0}, NEW b \in Nat, b <= Len(s), a <= b + 1
  PROVE  /\ SubSeq(s, a, b) \in Seq(Byte)
         /\ Len(SubSeq(s, a, b)) = b - a + 1
         /\ \A i \in 1 .. b - a + 1 : SubSeq(s, a, b)[i] = s[a + i - 1]
<1>1. Len(s) \in Nat /\ a \in Int /\ b \in Int
  BY LenProperties
<1>2. ASSUME NEW k \in a .. b PROVE s[k] \in Byte
  <2>1. k \in 1 .. Len(s)
    BY <1>1
  <2>2. QED
    BY <2>1, ElementOfSeq
<1>3. /\ SubSeq(s, a, b) \in Seq(Byte)
      /\ Len(SubSeq(s, a, b)) = IF a <= b THEN b - a + 1 ELSE 0
      /\ \A i \in 1 .. b - a + 1 : SubSeq(s, a, b)[i] = s[a + i - 1]
  BY <1>1, <1>2, SubSeqProperties
<1>4. QED
  BY <1>1, <1>3

LEMMA SameSequence ==
  ASSUME NEW s \in Seq(Byte), NEW t \in Seq(Byte), Len(s) = Len(t),
         \A i \in 1 .. Len(s) : s[i] = t[i]
  PROVE  s = t
BY SeqEqual

\* A half of a byte, what two bytes of which four bits are known say, and the
\* lengths that need a first frame.
HalfByte == 0 .. 15
InTwoBytes(high, low) == (high * 256) + low
LongLengths == 8 .. 4095

\* What the first byte says.
LEMMA TypeOfFirstByte ==
  ASSUME NEW frame, frame # <<>>, NEW low \in HalfByte
  PROVE  /\ frame[1] = low => DecodeFrameType(frame) = "singleFrame" /\ frame[1] % 16 = low
         /\ frame[1] = 16 + low => DecodeFrameType(frame) = "firstFrame" /\ frame[1] % 16 = low
         /\ frame[1] = 32 + low => DecodeFrameType(frame) = "consecutiveFrame"
<1>1. /\ low \div 16 = 0 /\ low % 16 = low
      /\ (16 + low) \div 16 = 1 /\ (16 + low) % 16 = low
      /\ (32 + low) \div 16 = 2
  BY DEF HalfByte
<1>2. ASSUME frame[1] = low
      PROVE  DecodeFrameType(frame) = "singleFrame" /\ frame[1] % 16 = low
  BY <1>1, <1>2 DEF DecodeFrameType
<1>3. ASSUME frame[1] = 16 + low
      PROVE  DecodeFrameType(frame) = "firstFrame" /\ frame[1] % 16 = low
  BY <1>1, <1>3 DEF DecodeFrameType
<1>4. ASSUME frame[1] = 32 + low
      PROVE  DecodeFrameType(frame) = "consecutiveFrame"
  BY <1>1, <1>4 DEF DecodeFrameType
<1>5. QED
  BY <1>2, <1>3, <1>4

\* A frame with a header of one byte, and of two.
LEMMA HeaderOfOne ==
  ASSUME NEW header \in Seq(Byte), Len(header) = 1, NEW data \in Seq(Byte)
  PROVE  /\ header \o data \in Seq(Byte) /\ Len(data) \in Nat
         /\ Len(header \o data) = 1 + Len(data)
         /\ (header \o data)[1] = header[1]
         /\ \A i \in 1 .. Len(data) : (header \o data)[1 + i] = data[i]
<1>1. /\ header \o data \in Seq(Byte)
      /\ Len(data) \in Nat
      /\ Len(header \o data) = Len(header) + Len(data)
      /\ \A i \in 1 .. Len(header) : (header \o data)[i] = header[i]
      /\ \A i \in 1 .. Len(data) : (header \o data)[Len(header) + i] = data[i]
  BY HeaderThenData
<1>2. Len(header \o data) = 1 + Len(data)
  BY <1>1
<1>3. (header \o data)[1] = header[1]
  BY <1>1
<1>4. \A i \in 1 .. Len(data) : (header \o data)[1 + i] = data[i]
  BY <1>1
<1>5. QED
  BY <1>1, <1>2, <1>3, <1>4

LEMMA HeaderOfTwo ==
  ASSUME NEW header \in Seq(Byte), Len(header) = 2, NEW data \in Seq(Byte)
  PROVE  /\ header \o data \in Seq(Byte) /\ Len(data) \in Nat
         /\ Len(header \o data) = 2 + Len(data)
         /\ (header \o data)[1] = header[1] /\ (header \o data)[2] = header[2]
         /\ \A i \in 1 .. Len(data) : (header \o data)[2 + i] = data[i]
<1>1. /\ header \o data \in Seq(Byte)
      /\ Len(data) \in Nat
      /\ Len(header \o data) = Len(header) + Len(data)
      /\ \A i \in 1 .. Len(header) : (header \o data)[i] = header[i]
      /\ \A i \in 1 .. Len(data) : (header \o data)[Len(header) + i] = data[i]
  BY HeaderThenData
<1>2. Len(header \o data) = 2 + Len(data)
  BY <1>1
<1>3. (header \o data)[1] = header[1] /\ (header \o data)[2] = header[2]
  BY <1>1
<1>4. \A i \in 1 .. Len(data) : (header \o data)[2 + i] = data[i]
  BY <1>1
<1>5. QED
  BY <1>1, <1>2, <1>3, <1>4

LEMMA SingleFrameRead ==
  ASSUME NEW pdu \in Seq(Byte), NEW n \in 1 .. 7
  PROVE  Len(pdu) = n =>
           LET frame == EncodeSingleFrame(pdu)
           IN /\ DecodeFrameType(frame) = "singleFrame"
              /\ TakesSingleFrame(frame)
              /\ DecodeSingleFrameLength(frame) = n
              /\ SubSeq(frame, 2, n + 1) = pdu
<1> DEFINE header == <<n>>
           frame == header \o pdu
<1>1. n \in Byte /\ n \in HalfByte
  BY DEF Byte, HalfByte
<1>2. header \in Seq(Byte) /\ Len(header) = 1 /\ header[1] = n /\ 1 \in 1 .. Len(header)
  BY <1>1
<1>3. Len(pdu) = n => frame = EncodeSingleFrame(pdu)
  BY DEF EncodeSingleFrame
<1> HIDE DEF header
<1>4. /\ frame \in Seq(Byte) /\ Len(frame) = 1 + Len(pdu) /\ frame[1] = n
      /\ \A i \in 1 .. Len(pdu) : frame[1 + i] = pdu[i]
  BY <1>2, HeaderOfOne
<1> HIDE DEF frame
<1>5. frame # <<>>
  <2>1. Len(pdu) \in Nat /\ \A k \in Nat : 1 + k # 0
    BY LenProperties
  <2>2. QED
    BY <1>4, <2>1, EmptySeq
<1>6. DecodeFrameType(frame) = "singleFrame" /\ frame[1] % 16 = n
  BY <1>1, <1>4, <1>5, TypeOfFirstByte
<1>7. DecodeSingleFrameLength(frame) = n
  BY <1>5, <1>6 DEF DecodeSingleFrameLength
<1>8. ASSUME Len(pdu) = n
      PROVE  TakesSingleFrame(frame)
  <2>1. n # 0 /\ n <= 7 /\ n <= (1 + n) - 1
    OBVIOUS
  <2>2. Len(frame) = 1 + n
    BY <1>4, <1>8
  <2>3. QED
    BY <1>6, <1>7, <2>1, <2>2 DEF TakesSingleFrame, sfMaxPayloadBytes
<1>9. ASSUME Len(pdu) = n
      PROVE  SubSeq(frame, 2, n + 1) = pdu
  <2> DEFINE data == SubSeq(frame, 2, n + 1)
  <2>1. 2 \in Nat \ {0} /\ n + 1 \in Nat /\ n + 1 <= 1 + n /\ 2 <= (n + 1) + 1 /\ (n + 1) - 2 + 1 = n
    OBVIOUS
  <2>2. Len(frame) = 1 + n /\ \A i \in 1 .. n : frame[1 + i] = pdu[i]
    BY <1>4, <1>9
  <2>3. /\ data \in Seq(Byte) /\ Len(data) = n
        /\ \A i \in 1 .. n : data[i] = frame[2 + i - 1]
    BY <1>4, <2>1, <2>2, PartOf
  <2>4. \A i \in 1 .. n : 2 + i - 1 = 1 + i
    OBVIOUS
  <2> HIDE DEF data
  <2>5. \A i \in 1 .. n : data[i] = pdu[i]
    BY <2>2, <2>3, <2>4
  <2>6. data = pdu
    BY <1>9, <2>3, <2>5, SameSequence
  <2>7. QED
    BY <2>6 DEF data
<1>10. QED
  BY <1>3, <1>6, <1>7, <1>8, <1>9

LEMMA LengthInTwoBytes ==
  ASSUME NEW n \in LongLengths
  PROVE  /\ n \div 256 \in HalfByte /\ n % 256 \in Byte
         /\ 16 + ((n \div 256) % 16) = 16 + (n \div 256)
         /\ n = InTwoBytes(n \div 256, n % 256)
         /\ n > 7 /\ 6 <= n
BY DEF LongLengths, HalfByte, Byte, InTwoBytes

\* The frame of a first frame, from the bytes of its header and its data.
LEMMA FirstFrameBytesRead ==
  ASSUME NEW frame \in Seq(Byte), NEW high \in HalfByte, NEW low \in Byte,
         Len(frame) = 8, frame[1] = 16 + high, frame[2] = low, InTwoBytes(high, low) > 7
  PROVE  /\ DecodeFrameType(frame) = "firstFrame"
         /\ TakesFirstFrame(frame)
         /\ DecodeFirstFrameTotalLength(frame) = InTwoBytes(high, low)
         /\ SubSeq(frame, 3, Len(frame)) \in Seq(Byte)
         /\ Len(SubSeq(frame, 3, Len(frame))) = 6
         /\ \A i \in 1 .. 6 : SubSeq(frame, 3, Len(frame))[i] = frame[2 + i]
<1>1. frame # <<>>
  BY EmptySeq
<1>2. DecodeFrameType(frame) = "firstFrame" /\ frame[1] % 16 = high
  BY <1>1, TypeOfFirstByte
<1>3. DecodeFirstFrameTotalLength(frame) = InTwoBytes(high, low)
  BY <1>2 DEF DecodeFirstFrameTotalLength, InTwoBytes
<1>4. TakesFirstFrame(frame)
  BY <1>2, <1>3 DEF TakesFirstFrame, sfMaxPayloadBytes
<1>5. 3 \in Nat \ {0} /\ 8 \in Nat /\ 8 <= Len(frame) /\ 3 <= 8 + 1
  OBVIOUS
<1>6. /\ SubSeq(frame, 3, 8) \in Seq(Byte)
      /\ Len(SubSeq(frame, 3, 8)) = 8 - 3 + 1
      /\ \A i \in 1 .. 8 - 3 + 1 : SubSeq(frame, 3, 8)[i] = frame[3 + i - 1]
  BY <1>5, PartOf
<1>7. Len(SubSeq(frame, 3, 8)) = 6
  BY <1>6
<1>8. \A i \in 1 .. 6 : SubSeq(frame, 3, 8)[i] = frame[2 + i]
  BY <1>6
<1>9. QED
  BY <1>2, <1>3, <1>4, <1>6, <1>7, <1>8

LEMMA FirstFrameRead ==
  ASSUME NEW pdu \in Seq(Byte), NEW n \in LongLengths
  PROVE  Len(pdu) = n =>
           LET frame == EncodeFirstFrame(pdu)
           IN /\ DecodeFrameType(frame) = "firstFrame"
              /\ TakesFirstFrame(frame)
              /\ DecodeFirstFrameTotalLength(frame) = n
              /\ SubSeq(frame, 3, Len(frame)) \in Seq(Byte)
              /\ Len(SubSeq(frame, 3, Len(frame))) = 6
              /\ \A i \in 1 .. 6 : SubSeq(frame, 3, Len(frame))[i] = pdu[i]
<1>1. PICK high \in HalfByte : high = n \div 256
  BY LengthInTwoBytes
<1>2. PICK low \in Byte : low = n % 256
  BY LengthInTwoBytes
<1>3. n = InTwoBytes(high, low) /\ InTwoBytes(high, low) > 7 /\ 6 <= n
  BY <1>1, <1>2, LengthInTwoBytes
<1> DEFINE header == <<16 + high, low>>
           data == SubSeq(pdu, 1, 6)
           frame == header \o data
<1>4. Len(pdu) = n => frame = EncodeFirstFrame(pdu)
  <2>1. 16 + ((n \div 256) % 16) = 16 + high
    BY <1>1, LengthInTwoBytes
  <2>2. QED
    BY <1>2, <2>1 DEF EncodeFirstFrame, ffFirstDataBytes
<1>5. ASSUME Len(pdu) = n
      PROVE  /\ data \in Seq(Byte) /\ Len(data) = 6
             /\ \A i \in 1 .. 6 : data[i] = pdu[i]
  <2>1. 1 \in Nat \ {0} /\ 6 \in Nat /\ 6 <= Len(pdu) /\ 1 <= 6 + 1
    BY <1>3, <1>5
  <2>2. /\ data \in Seq(Byte) /\ Len(data) = 6 - 1 + 1
        /\ \A i \in 1 .. 6 - 1 + 1 : data[i] = pdu[1 + i - 1]
    BY <2>1, PartOf
  <2> HIDE DEF data
  <2>3. Len(data) = 6
    BY <2>2
  <2>4. \A i \in 1 .. 6 : data[i] = pdu[i]
    BY <2>2
  <2>5. QED
    BY <2>2, <2>3, <2>4
<1>6. header \in Seq(Byte) /\ Len(header) = 2 /\ header[1] = 16 + high /\ header[2] = low
  <2>1. 16 + high \in Byte
    BY DEF Byte, HalfByte
  <2>2. QED
    BY <2>1
<1> HIDE DEF header, data
<1>7. ASSUME Len(pdu) = n
      PROVE  /\ frame \in Seq(Byte) /\ Len(frame) = 8
             /\ frame[1] = 16 + high /\ frame[2] = low
             /\ \A i \in 1 .. 6 : frame[2 + i] = pdu[i]
  <2>1. data \in Seq(Byte) /\ Len(data) = 6 /\ \A i \in 1 .. 6 : data[i] = pdu[i]
    BY <1>5, <1>7
  <2>2. /\ header \o data \in Seq(Byte)
        /\ Len(header \o data) = 2 + Len(data)
        /\ (header \o data)[1] = header[1] /\ (header \o data)[2] = header[2]
        /\ \A i \in 1 .. Len(data) : (header \o data)[2 + i] = data[i]
    BY <1>6, <2>1, HeaderOfTwo
  <2>3. 2 + 6 = 8
    OBVIOUS
  <2>4. QED
    BY <1>6, <2>1, <2>2, <2>3, Zenon
<1> HIDE DEF frame
<1>8. ASSUME Len(pdu) = n
      PROVE  /\ DecodeFrameType(frame) = "firstFrame"
             /\ TakesFirstFrame(frame)
             /\ DecodeFirstFrameTotalLength(frame) = InTwoBytes(high, low)
             /\ SubSeq(frame, 3, Len(frame)) \in Seq(Byte)
             /\ Len(SubSeq(frame, 3, Len(frame))) = 6
             /\ \A i \in 1 .. 6 : SubSeq(frame, 3, Len(frame))[i] = frame[2 + i]
  <2>1. frame \in Seq(Byte) /\ Len(frame) = 8 /\ frame[1] = 16 + high /\ frame[2] = low
    BY <1>7, <1>8
  <2>2. QED
    BY <1>3, <2>1, FirstFrameBytesRead, Zenon
<1>9. ASSUME Len(pdu) = n
      PROVE  /\ DecodeFrameType(frame) = "firstFrame"
             /\ TakesFirstFrame(frame)
             /\ DecodeFirstFrameTotalLength(frame) = n
             /\ SubSeq(frame, 3, Len(frame)) \in Seq(Byte)
             /\ Len(SubSeq(frame, 3, Len(frame))) = 6
             /\ \A i \in 1 .. 6 : SubSeq(frame, 3, Len(frame))[i] = pdu[i]
  BY <1>3, <1>7, <1>8, <1>9, Zenon
<1>10. QED
  BY <1>4, <1>9, Zenon

LEMMA ConsecutiveFrameRead ==
  ASSUME NEW sn \in Nat, NEW data \in Seq(Byte)
  PROVE  LET frame == <<32 + (sn % 16)>> \o data
         IN /\ DecodeFrameType(frame) = "consecutiveFrame"
            /\ frame \in Seq(Byte) /\ Len(frame) = 1 + Len(data)
            /\ \A i \in 1 .. Len(data) : frame[1 + i] = data[i]
<1>1. PICK low \in HalfByte : low = sn % 16
  BY DEF HalfByte
<1> DEFINE header == <<32 + low>>
           frame == header \o data
<1>2. header \in Seq(Byte) /\ Len(header) = 1 /\ header[1] = 32 + low /\ 1 \in 1 .. Len(header)
  <2>1. 32 + low \in Byte
    BY DEF Byte, HalfByte
  <2>2. QED
    BY <2>1
<1> HIDE DEF header
<1>3. /\ frame \in Seq(Byte) /\ Len(frame) = 1 + Len(data) /\ Len(data) \in Nat
      /\ frame[1] = 32 + low
      /\ \A i \in 1 .. Len(data) : frame[1 + i] = data[i]
  BY <1>2, HeaderThenData
<1> HIDE DEF frame
<1>4. frame # <<>>
  <2>1. \A k \in Nat : 1 + k # 0
    OBVIOUS
  <2>2. QED
    BY <1>3, <2>1, EmptySeq
<1>5. DecodeFrameType(frame) = "consecutiveFrame"
  BY <1>3, <1>4, TypeOfFirstByte
<1>6. QED
  BY <1>1, <1>3, <1>5 DEF frame, header

\* The frame e asks the sender to go on.
AsksToGoOn(e) ==
  /\ ~e.sent
  /\ e.bytes = EncodeFlowControl("continueToSend", BlockSize, SeparationTime)

\* A new flow control frame that does.
AsksForMore == \E e \in OwedFrames : owed' = Append(owed, e) /\ AsksToGoOn(e)

\* The reception keeps what it has, or has ended before it was whole.
KeepsAll == UNCHANGED <<state, assemblyBuffer, expectedTotalLength, framesInBlock, delivered, owed>>
EndsShort == state' = "idle" /\ UNCHANGED <<delivered, owed>>

\* The PDU is complete with the bytes `rest' of it.
CompletesWith(rest) ==
  /\ Receiving
  /\ expectedTotalLength - Len(assemblyBuffer) <= 7
  /\ expectedTotalLength - Len(assemblyBuffer) <= Len(rest)
  /\ state' = "idle" /\ UNCHANGED owed
  /\ \E buffer \in Seq(Byte) :
       /\ delivered' = Append(delivered, buffer)
       /\ Len(buffer) = expectedTotalLength
       /\ \A i \in 1 .. Len(assemblyBuffer) : buffer[i] = assemblyBuffer[i]
       /\ \A i \in 1 .. expectedTotalLength - Len(assemblyBuffer) :
            buffer[Len(assemblyBuffer) + i] = rest[i]

\* Seven more of its bytes are there, and at the end of a block more are asked for.
GoesOnWith(rest) ==
  /\ Receiving
  /\ expectedTotalLength - Len(assemblyBuffer) > 7 /\ Len(rest) >= 7
  /\ state' = "receivingCf" /\ UNCHANGED <<delivered, expectedTotalLength>>
  /\ assemblyBuffer' \in Seq(Byte) /\ Len(assemblyBuffer') = Len(assemblyBuffer) + 7
  /\ \A i \in 1 .. Len(assemblyBuffer) : assemblyBuffer'[i] = assemblyBuffer[i]
  /\ \A i \in 1 .. 7 : assemblyBuffer'[Len(assemblyBuffer) + i] = rest[i]
  /\ \/ /\ BlockSize = 0 \/ framesInBlock + 1 # BlockSize
        /\ BlockSize # 0 => framesInBlock' = framesInBlock + 1
        /\ UNCHANGED owed
     \/ /\ BlockSize # 0 /\ framesInBlock + 1 = BlockSize /\ framesInBlock' = 0
        /\ AsksForMore

\* The first bytes of a PDU are there, and more are asked for.
Begins(pdu) ==
  /\ state' = "receivingCf" /\ UNCHANGED delivered
  /\ expectedTotalLength' = Len(pdu) /\ framesInBlock' = 0
  /\ assemblyBuffer' \in Seq(Byte) /\ Len(assemblyBuffer') = 6
  /\ \A i \in 1 .. 6 : assemblyBuffer'[i] = pdu[i]
  /\ AsksForMore

LEMMA SingleFrameArrives ==
  ASSUME NEW pdu \in Seq(Byte), NEW n \in 1 .. 7, Len(pdu) = n
  PROVE  /\ ~Ignores(EncodeSingleFrame(pdu))
         /\ ProcessFrame(EncodeSingleFrame(pdu)) =>
              /\ state' = "idle" /\ UNCHANGED owed
              /\ UNCHANGED delivered \/ delivered' = Append(delivered, pdu)
<1>1. PICK frame : frame = EncodeSingleFrame(pdu)
  OBVIOUS
<1>2. /\ DecodeFrameType(frame) = "singleFrame"
      /\ TakesSingleFrame(frame)
      /\ DecodeSingleFrameLength(frame) = n
      /\ SubSeq(frame, 2, n + 1) = pdu
  BY <1>1, SingleFrameRead, Zenon
<1>3. ~Ignores(frame)
  BY <1>2, Zenon DEF Ignores
<1>4. ASSUME ProcessFrame(frame)
      PROVE  HandleSingleFrame(frame)
  BY <1>2, <1>4 DEF ProcessFrame, HandleFirstFrame, TakesFirstFrame,
                    HandleConsecutiveFrame, TakesConsecutiveFrame
<1>5. ASSUME HandleSingleFrame(frame)
      PROVE  /\ state' = "idle" /\ UNCHANGED owed
             /\ UNCHANGED delivered \/ delivered' = Append(delivered, pdu)
  BY <1>2, <1>5, Zenon DEF HandleSingleFrame
<1>6. QED
  BY <1>1, <1>3, <1>4, <1>5, Zenon

LEMMA FirstFrameArrives ==
  ASSUME ReceiverAssumption, IInv,
         NEW pdu \in Seq(Byte), NEW n \in LongLengths, Len(pdu) = n, n <= MaxPduSize
  PROVE  /\ ~Ignores(EncodeFirstFrame(pdu))
         /\ ProcessFrame(EncodeFirstFrame(pdu)) => EndsShort \/ Begins(pdu)
<1>1. PICK frame : frame = EncodeFirstFrame(pdu)
  OBVIOUS
<1>2. /\ DecodeFrameType(frame) = "firstFrame"
      /\ TakesFirstFrame(frame)
      /\ DecodeFirstFrameTotalLength(frame) = n
  BY <1>1, FirstFrameRead, Zenon
<1>3. PICK data : data = SubSeq(frame, 3, Len(frame))
  OBVIOUS
<1>4. data \in Seq(Byte) /\ Len(data) = 6 /\ \A i \in 1 .. 6 : data[i] = pdu[i]
  BY <1>1, <1>3, FirstFrameRead, Zenon
<1>5. ~Ignores(frame)
  BY <1>2, Zenon DEF Ignores
<1>6. ASSUME ProcessFrame(frame)
      PROVE  EndsShort \/ Begins(pdu)
  <2>1. HandleFirstFrame(frame)
    BY <1>2, <1>6 DEF ProcessFrame, HandleSingleFrame, TakesSingleFrame,
                      HandleConsecutiveFrame, TakesConsecutiveFrame
  <2>2. Fits(n)
    BY DEF Fits
  <2>4. /\ expectedTotalLength' = n /\ framesInBlock' = 0
        /\ SendContinue(Next1(TokenAfterSuperseded), started + 1, EndedAfterSuperseded)
        /\ BufferIs(data) /\ UNCHANGED delivered
    BY <1>2, <1>3, <2>1, <2>2, Zenon DEF HandleFirstFrame
  <2>5. Next1(TokenAfterSuperseded) \in Tokens /\ started + 1 \in Nat
    <3>1. started \in Nat
      BY DEF IInv, ReceiverTypes
    <3>2. TokenModulus \in Nat \ {0} /\ TokenAfterSuperseded \in Int
      BY DEF ReceiverAssumption, Tokens, TokenAfterSuperseded, Next1, IInv, ReceiverTypes
    <3>3. QED
      BY <3>1, <3>2 DEF Next1, Tokens
  <2>6. CASE state' = "idle"
    <3>1. UNCHANGED owed
      BY <2>4, <2>6 DEF SendContinue
    <3>2. QED
      BY <2>4, <2>6, <3>1 DEF EndsShort
  <2>7. CASE state' # "idle"
    <3>1. /\ state' = "receivingCf"
          /\ owed' = Append(owed, FlowControlOwed("continueToSend", Next1(TokenAfterSuperseded), started + 1))
      BY <2>4, <2>7 DEF SendContinue
    <3>2. assemblyBuffer' = data
      BY <2>4, <2>7 DEF BufferIs
    <3>3. AsksForMore
      <4>1. FlowControlOwed("continueToSend", Next1(TokenAfterSuperseded), started + 1) \in OwedFrames
        BY <2>5, FlowControlFrame
      <4>2. AsksToGoOn(FlowControlOwed("continueToSend", Next1(TokenAfterSuperseded), started + 1))
        BY DEF AsksToGoOn, FlowControlOwed
      <4>3. QED
        BY <3>1, <4>1, <4>2 DEF AsksForMore
    <3>4. QED
      BY <1>4, <2>4, <3>1, <3>2, <3>3, Zenon DEF Begins
  <2>8. QED
    BY <2>6, <2>7
<1>7. QED
  BY <1>1, <1>5, <1>6, Zenon

\* How much of a consecutive frame is taken.
LEMMA ShareOfFrame ==
  ASSUME NEW missing \in Nat, NEW r \in Nat, NEW length \in Nat,
         length = 1 + (IF r < 7 THEN r ELSE 7),
         length >= 1 + (IF missing < 7 THEN missing ELSE 7)
  PROVE  LET cut == IF length <= missing THEN length ELSE missing + 1
         IN /\ cut \in Nat /\ cut <= length /\ 2 <= cut + 1
            /\ missing <= 7 => cut - 2 + 1 = missing /\ missing <= r /\ (IF r < 7 THEN r ELSE 7) >= missing
            /\ missing > 7 => cut - 2 + 1 = 7 /\ 7 <= r
OBVIOUS

\* What a consecutive frame adds to the buffer.
LEMMA FrameAdds ==
  ASSUME NEW buffer \in Seq(Byte), NEW frame \in Seq(Byte), NEW rest \in Seq(Byte),
         NEW cut \in Nat, NEW n \in Nat, cut <= Len(frame), 2 <= cut + 1, n = cut - 2 + 1,
         \A i \in 1 .. n : frame[1 + i] = rest[i]
  PROVE  /\ buffer \o SubSeq(frame, 2, cut) \in Seq(Byte)
         /\ Len(buffer \o SubSeq(frame, 2, cut)) = Len(buffer) + n
         /\ \A i \in 1 .. Len(buffer) : (buffer \o SubSeq(frame, 2, cut))[i] = buffer[i]
         /\ \A i \in 1 .. n : (buffer \o SubSeq(frame, 2, cut))[Len(buffer) + i] = rest[i]
<1>1. 2 \in Nat \ {0}
  OBVIOUS
<1>2. PICK data : data = SubSeq(frame, 2, cut)
  OBVIOUS
<1>3. /\ data \in Seq(Byte) /\ Len(data) = n
      /\ \A i \in 1 .. n : data[i] = frame[2 + i - 1]
  BY <1>1, <1>2, PartOf
<1>4. \A i \in 1 .. n : data[i] = rest[i]
  <2>1. \A i \in 1 .. n : 2 + i - 1 = 1 + i
    OBVIOUS
  <2>2. QED
    BY <1>3, <2>1, Zenon
<1>5. /\ buffer \o data \in Seq(Byte)
      /\ Len(buffer \o data) = Len(buffer) + Len(data)
      /\ \A i \in 1 .. Len(buffer) : (buffer \o data)[i] = buffer[i]
      /\ \A i \in 1 .. Len(data) : (buffer \o data)[Len(buffer) + i] = data[i]
  BY <1>3, HeaderThenData
<1>6. QED
  BY <1>2, <1>3, <1>4, <1>5, Zenon

\* The frame that carries the first bytes of rest.
LEMMA ConsecutiveFrameCarries ==
  ASSUME NEW sn \in Nat, NEW rest \in Seq(Byte)
  PROVE  LET frame == EncodeConsecutiveFrame(sn, rest)
             n == IF Len(rest) < 7 THEN Len(rest) ELSE 7
         IN /\ DecodeFrameType(frame) = "consecutiveFrame"
            /\ frame \in Seq(Byte) /\ Len(frame) = 1 + n /\ n \in Nat
            /\ \A i \in 1 .. n : frame[1 + i] = rest[i]
<1> DEFINE n == IF Len(rest) < 7 THEN Len(rest) ELSE 7
           data == SubSeq(rest, 1, n)
           frame == <<32 + (sn % 16)>> \o data
<1>1. n \in Nat /\ n <= Len(rest) /\ 1 <= n + 1 /\ 1 \in Nat \ {0} /\ n - 1 + 1 = n
  BY LenProperties
<1>2. frame = EncodeConsecutiveFrame(sn, rest)
  BY DEF EncodeConsecutiveFrame, snModulus, cfMaxDataBytes
<1> HIDE DEF n
<1>3. /\ data \in Seq(Byte) /\ Len(data) = n
      /\ \A i \in 1 .. n : data[i] = rest[1 + i - 1]
  BY <1>1, PartOf
<1>4. \A i \in 1 .. n : data[i] = rest[i]
  <2>1. \A i \in 1 .. n : 1 + i - 1 = i
    BY <1>1
  <2>2. QED
    BY <1>3, <2>1, Zenon
<1> HIDE DEF data
<1>5. /\ DecodeFrameType(frame) = "consecutiveFrame"
      /\ frame \in Seq(Byte) /\ Len(frame) = 1 + Len(data)
      /\ \A i \in 1 .. Len(data) : frame[1 + i] = data[i]
  BY <1>3, ConsecutiveFrameRead, Zenon
<1> HIDE DEF frame
<1>6. /\ DecodeFrameType(frame) = "consecutiveFrame"
      /\ frame \in Seq(Byte) /\ Len(frame) = 1 + n /\ n \in Nat
      /\ \A i \in 1 .. n : frame[1 + i] = rest[i]
  BY <1>1, <1>3, <1>4, <1>5, Zenon
<1>7. QED
  BY <1>2, <1>6, Zenon DEF n

LEMMA ConsecutiveFrameArrives ==
  ASSUME ReceiverAssumption, IInv, NEW sn \in Nat, NEW rest \in Seq(Byte),
         LET frame == EncodeConsecutiveFrame(sn, rest)
         IN ProcessFrame(frame) \/ (Ignores(frame) /\ UNCHANGED vars)
  PROVE  KeepsAll \/ EndsShort \/ CompletesWith(rest) \/ GoesOnWith(rest)
<1>1. PICK frame, n :
        /\ frame = EncodeConsecutiveFrame(sn, rest)
        /\ n = IF Len(rest) < 7 THEN Len(rest) ELSE 7
  OBVIOUS
<1>2. /\ DecodeFrameType(frame) = "consecutiveFrame"
      /\ frame \in Seq(Byte) /\ Len(frame) = 1 + n /\ n \in Nat
      /\ \A i \in 1 .. n : frame[1 + i] = rest[i]
  BY <1>1, ConsecutiveFrameCarries, Zenon
<1>3. CASE UNCHANGED vars
  BY <1>3 DEF KeepsAll, vars, receiverVars, assemblyVars, historyVars
<1>4. ASSUME ProcessFrame(frame)
      PROVE  HandleConsecutiveFrame(frame)
  BY <1>2, <1>4 DEF ProcessFrame, HandleSingleFrame, TakesSingleFrame,
                    HandleFirstFrame, TakesFirstFrame
<1>5. CASE HandleConsecutiveFrame(frame) /\ ~InSequence(frame)
  BY <1>5 DEF HandleConsecutiveFrame, Clear, EndsShort
<1>6. ASSUME HandleConsecutiveFrame(frame), InSequence(frame)
      PROVE  EndsShort \/ CompletesWith(rest) \/ GoesOnWith(rest)
  <2>1. PICK missing : missing = expectedTotalLength - Len(assemblyBuffer)
    OBVIOUS
  <2>2. PICK cut : cut = IF Len(frame) <= missing THEN Len(frame) ELSE missing + 1
    OBVIOUS
  <2>3. PICK buffer : buffer = assemblyBuffer \o SubSeq(frame, 2, cut)
    OBVIOUS
  <2>4. /\ Receiving /\ HasConsecutiveFrameLength(frame)
        /\ assemblyBuffer \in Seq(Byte) /\ Len(assemblyBuffer) \in Nat
        /\ expectedTotalLength \in Nat /\ Len(assemblyBuffer) < expectedTotalLength
        /\ missing \in Nat /\ missing > 0
    <3>1. Receiving /\ HasConsecutiveFrameLength(frame)
      BY <1>6 DEF HandleConsecutiveFrame, TakesConsecutiveFrame
    <3>2. /\ assemblyBuffer \in Seq(Byte) /\ Len(assemblyBuffer) \in Nat
          /\ expectedTotalLength \in Nat /\ Len(assemblyBuffer) < expectedTotalLength
      BY <3>1, LenProperties DEF IInv, AssemblyTypes, ReceptionIsTimed
    <3>3. QED
      BY <2>1, <3>1, <3>2
  <2>5. PICK r : r = Len(rest)
    OBVIOUS
  <2>6. r \in Nat
    BY <2>5, LenProperties
  <2>7. PICK length : length = Len(frame)
    OBVIOUS
  <2>8. /\ length \in Nat /\ length = 1 + n /\ n = (IF r < 7 THEN r ELSE 7)
        /\ length >= 1 + (IF missing < 7 THEN missing ELSE 7)
    BY <1>1, <1>2, <2>1, <2>4, <2>5, <2>6, <2>7 DEF HasConsecutiveFrameLength, cfMaxDataBytes
  <2>9. /\ cut \in Nat /\ cut <= length /\ 2 <= cut + 1
        /\ missing <= 7 => cut - 2 + 1 = missing /\ missing <= r /\ n >= missing
        /\ missing > 7 => cut - 2 + 1 = 7 /\ 7 <= r
    BY <2>2, <2>4, <2>6, <2>7, <2>8, ShareOfFrame
  <2>10. PICK share : share = cut - 2 + 1
    OBVIOUS
  <2>11. /\ share \in Nat /\ share <= n
         /\ missing <= 7 => share = missing
         /\ missing > 7 => share = 7
    BY <2>4, <2>6, <2>8, <2>9, <2>10
  <2>12. \A i \in 1 .. share : frame[1 + i] = rest[i]
    BY <1>2, <2>11
  <2>13. /\ buffer \in Seq(Byte)
         /\ Len(buffer) = Len(assemblyBuffer) + share
         /\ \A i \in 1 .. Len(assemblyBuffer) : buffer[i] = assemblyBuffer[i]
         /\ \A i \in 1 .. share : buffer[Len(assemblyBuffer) + i] = rest[i]
    <3>1. PICK before : before = assemblyBuffer
      OBVIOUS
    <3>2. /\ before \in Seq(Byte) /\ frame \in Seq(Byte)
          /\ cut \in Nat /\ share \in Nat /\ cut <= Len(frame) /\ 2 <= cut + 1
          /\ share = cut - 2 + 1
          /\ \A i \in 1 .. share : frame[1 + i] = rest[i]
      BY <1>2, <2>4, <2>7, <2>9, <2>10, <2>11, <2>12, <3>1
    <3>3. /\ before \o SubSeq(frame, 2, cut) \in Seq(Byte)
          /\ Len(before \o SubSeq(frame, 2, cut)) = Len(before) + share
          /\ \A i \in 1 .. Len(before) : (before \o SubSeq(frame, 2, cut))[i] = before[i]
          /\ \A i \in 1 .. share : (before \o SubSeq(frame, 2, cut))[Len(before) + i] = rest[i]
      BY <3>2, FrameAdds
    <3>4. QED
      BY <2>3, <3>1, <3>3, Zenon
  <2>14. IsWhole(buffer) <=> missing <= 7
    BY <2>1, <2>4, <2>11, <2>13 DEF IsWhole
  <2>15. /\ IF IsWhole(buffer)
            THEN /\ state' = "idle" /\ delivered' = Append(delivered, buffer) /\ UNCHANGED owed
            ELSE ContinueBlock /\ BufferIs(buffer) /\ UNCHANGED delivered
         /\ UNCHANGED expectedTotalLength
    BY <1>6, <2>1, <2>2, <2>3, Zenon DEF HandleConsecutiveFrame
  <2>16. CASE missing <= 7
    <3>1. Len(buffer) = expectedTotalLength
      BY <2>1, <2>4, <2>11, <2>13, <2>16
    <3>2. /\ \A i \in 1 .. missing : buffer[Len(assemblyBuffer) + i] = rest[i]
          /\ missing <= Len(rest)
      BY <2>5, <2>9, <2>11, <2>13, <2>16
    <3>3. state' = "idle" /\ UNCHANGED owed /\ delivered' = Append(delivered, buffer)
      BY <2>14, <2>15, <2>16, Zenon
    <3>4. CompletesWith(rest)
      BY <2>1, <2>4, <2>13, <2>16, <3>1, <3>2, <3>3, Zenon DEF CompletesWith
    <3>5. QED
      BY <3>4
  <2>17. CASE missing > 7
    <3>1. ~IsWhole(buffer)
      BY <2>4, <2>14, <2>17
    <3>2. ContinueBlock /\ BufferIs(buffer) /\ UNCHANGED <<delivered, expectedTotalLength>>
      BY <2>15, <3>1, Zenon
    <3>3. share = 7 /\ 7 <= Len(rest)
      BY <2>5, <2>9, <2>11, <2>17
    <3>4. CASE state' = "idle"
      <4>1. UNCHANGED owed
        BY <2>4, <3>2, <3>4 DEF ContinueBlock, SendContinue, Receiving
      <4>2. QED
        BY <3>2, <3>4, <4>1 DEF EndsShort
    <3>5. CASE state' # "idle"
      <4>1. assemblyBuffer' = buffer
        BY <3>2, <3>5 DEF BufferIs
      <4>2. state = "receivingCf"
        BY <2>4 DEF Receiving, IInv, ReceiverTypes
      <4>3. /\ state' = "receivingCf"
            /\ \/ /\ BlockSize = 0 \/ framesInBlock + 1 # BlockSize
                  /\ BlockSize # 0 => framesInBlock' = framesInBlock + 1
                  /\ UNCHANGED owed
               \/ /\ BlockSize # 0 /\ framesInBlock + 1 = BlockSize /\ framesInBlock' = 0
                  /\ AsksForMore
        <5>1. CASE BlockSize = 0 \/ framesInBlock + 1 # BlockSize
          BY <3>2, <4>2, <5>1 DEF ContinueBlock
        <5>2. CASE ~(BlockSize = 0 \/ framesInBlock + 1 # BlockSize)
          <6>1. framesInBlock' = 0 /\ SendContinue(reception, started, ended)
            BY <3>2, <5>2 DEF ContinueBlock
          <6>2. /\ state' = "receivingCf"
                /\ owed' = Append(owed, FlowControlOwed("continueToSend", reception, started))
            BY <3>5, <6>1 DEF SendContinue
          <6>3. FlowControlOwed("continueToSend", reception, started) \in OwedFrames
            BY FlowControlFrame DEF IInv, ReceiverTypes
          <6>4. AsksToGoOn(FlowControlOwed("continueToSend", reception, started))
            BY DEF AsksToGoOn, FlowControlOwed
          <6>5. AsksForMore
            BY <6>2, <6>3, <6>4 DEF AsksForMore
          <6>6. QED
            BY <5>2, <6>1, <6>2, <6>5
        <5>3. QED
          BY <5>1, <5>2
      <4>4. /\ assemblyBuffer' \in Seq(Byte) /\ Len(assemblyBuffer') = Len(assemblyBuffer) + 7
            /\ \A i \in 1 .. Len(assemblyBuffer) : assemblyBuffer'[i] = assemblyBuffer[i]
            /\ \A i \in 1 .. 7 : assemblyBuffer'[Len(assemblyBuffer) + i] = rest[i]
        BY <2>13, <3>3, <4>1
      <4>5. missing > 7 /\ Len(rest) >= 7
        BY <2>6, <2>5, <2>17, <3>3
      <4>6. GoesOnWith(rest)
        BY <2>1, <2>4, <3>2, <4>3, <4>4, <4>5, Zenon DEF GoesOnWith
      <4>7. QED
        BY <4>6
    <3>6. QED
      BY <3>4, <3>5
  <2>18. QED
    BY <2>4, <2>16, <2>17
<1>7. QED
  BY <1>1, <1>3, <1>4, <1>5, <1>6, Zenon

\* The timer and the completions of flow control frames.
LEMMA ReceiverWaits ==
  ASSUME ReceiverAssumption, IInv
  PROVE  /\ NCrTimeout => EndsShort
         /\ \A i \in 1 .. Len(owed), success \in BOOLEAN :
              Completion(i, success) =>
                /\ success => i = 1 /\ owed[i].sent
                /\ ~success => ~owed[i].sent
                /\ owed' = RemoveAt(owed, i) /\ UNCHANGED delivered
                /\ \/ state' = "idle" /\ ~success
                   \/ UNCHANGED <<state, assemblyBuffer, expectedTotalLength, framesInBlock>>
<1>1. NCrTimeout => EndsShort
  BY DEF NCrTimeout, Clear, EndsShort
<1>2. ASSUME NEW i \in 1 .. Len(owed), NEW success \in BOOLEAN, Completion(i, success)
      PROVE  /\ success => i = 1 /\ owed[i].sent
             /\ ~success => ~owed[i].sent
             /\ owed' = RemoveAt(owed, i) /\ UNCHANGED delivered
             /\ \/ state' = "idle" /\ ~success
                \/ UNCHANGED <<state, assemblyBuffer, expectedTotalLength, framesInBlock>>
  BY <1>2 DEF Completion, Clear, receiverVars, assemblyVars
<1>3. QED
  BY <1>1, <1>2

-----------------------------------------------------------------------------
(* The theorems *)

\* The invariant holds as long as no flow control frame stays with the transport
\* for more receptions than the eight bits of the token tell apart.
THEOREM Invariance ==
  ASSUME ReceiverAssumption, NEW w, Bounded(w)
  PROVE  Spec /\ []QueuedBriefly(w) => []IInv
<1>1. Init => IInv
  BY InitEstablishes
<1>2. IInv /\ QueuedBriefly(w) /\ [Next]_vars => IInv'
  BY StepPreserves
<1>3. QED
  BY <1>1, <1>2, PTL DEF Spec

\* A reception is timed as long as it lasts, and every reception taken ends once,
\* delivered, reported or released.
THEOREM ReceptionsEndOnce ==
  ASSUME ReceiverAssumption, NEW w, Bounded(w)
  PROVE  Spec /\ []QueuedBriefly(w) => [](ReceptionIsTimed /\ EndsOnce)
<1>1. IInv => ReceptionIsTimed /\ EndsOnce
  BY DEF IInv
<1>2. QED
  BY <1>1, Invariance, PTL

\* A flow control frame that fails after its reception has ended, however late,
\* does not end the reception that followed.
THEOREM LateFailuresChangeNothing ==
  ASSUME ReceiverAssumption, NEW w, Bounded(w)
  PROVE  Spec /\ []QueuedBriefly(w) => StaleFailuresIgnored
<1>1. IInv /\ [Next]_vars =>
        [\A i \in DOMAIN owed :
           /\ owed' = RemoveAt(owed, i)
           /\ owed[i].no < started \/ started = ended
           => UNCHANGED <<receiverVars, ended>>]_<<receiverVars, owed, ended>>
  BY StaleFailure
<1>2. QED
  BY <1>1, Invariance, PTL DEF Spec, StaleFailuresIgnored

\* A channel whose life is no longer than the tokens tell apart needs no more: the
\* transport may keep its frames for as long as it likes.
THEOREM ShortLivesAreSound ==
  ASSUME ReceiverAssumption, Bounded(MaxReceptions)
  PROVE  Spec => [](ReceptionIsTimed /\ EndsOnce)
<1> DEFINE Short == IInv /\ started <= MaxReceptions
<1>1. Init => Short
  <2>1. MaxReceptions \in Nat
    BY DEF Bounded
  <2>2. Init => started <= MaxReceptions
    BY <2>1 DEF Init
  <2>3. Init => IInv
    BY InitEstablishes
  <2>4. QED
    BY <2>2, <2>3, Zenon
<1>2. Short /\ [Next]_vars => Short'
  <2> SUFFICES ASSUME IInv, started <= MaxReceptions, [Next]_vars
               PROVE  IInv' /\ started' <= MaxReceptions
    OBVIOUS
  <2>1. QueuedBriefly(MaxReceptions) /\ started' <= MaxReceptions
    BY ShortIsBrief, ShortStaysShort
  <2>2. IInv'
    BY <2>1, StepPreserves
  <2>3. QED
    BY <2>1, <2>2
<1>3. Short => ReceptionIsTimed /\ EndsOnce
  BY DEF IInv
<1>4. QED
  BY <1>1, <1>2, <1>3, PTL DEF Spec

=============================================================================
