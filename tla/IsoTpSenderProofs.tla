-------------------------- MODULE IsoTpSenderProofs --------------------------
(***************************************************************************)
(* Proofs about IsoTpSender for every set of PDUs and flow control frames, *)
(* every capacity and every number of transfers.  A completion is matched  *)
(* to its transfer by a token of TokenModulus values, so what is proved    *)
(* needs that no frame stays with the transport while so many transfers    *)
(* follow that the token comes round: QueuedBriefly.                       *)
(***************************************************************************)
EXTENDS IsoTpSender, SequenceTheorems, FiniteSetTheorems, WellFoundedInduction, TLAPS

\* No frame waits for its completion while more than `window' transfers follow.
QueuedBriefly(window) == \A i \in DOMAIN owed : accepted - owed[i].no <= window

\* The window is small enough that a token does not come round in it.
Bounded(window) == window \in Nat /\ 2 * window + MaxResets + 3 < TokenModulus

-----------------------------------------------------------------------------
(* The invariant *)

Tokens == 0 .. TokenModulus - 1

States == {"idle", "sendingSf", "waitingForFc", "sendingCf"}

\* The frames whose completion N_As watches, and the others.
Watched == {"single", "next", "last"}
Unwatched == {"first", "blockEnd"}

\* What a CAN frame can carry.
CanFrames == {bytes \in Seq(Byte) : Len(bytes) <= 8}

OwedFrames == [bytes : CanFrames, token : Tokens, role : Watched \cup Unwatched,
               no : Nat, sent : BOOLEAN]

\* How often the token was advanced since it was `from', modulo TokenModulus.
Distance(from, to) == IF from <= to THEN to - from ELSE to - from + TokenModulus

IdleCount == IF state = "idle" THEN 1 ELSE 0

SenderTypes ==
  /\ state \in States
  /\ transfer \in Tokens
  /\ timers \subseteq {"nAs", "nBs", "stMin"}
  /\ accepted \in Nat /\ ended \in Nat /\ resets \in 0 .. MaxResets

PduTypes ==
  /\ pduBuffer \in Seq(Byte)
  /\ bytesSent \in 0 .. Len(pduBuffer)
  /\ sequenceNumber \in Nat

FrameTypes == owed \in Seq(OwedFrames)

\* Since a frame was handed down the token has advanced at most twice for every
\* transfer that followed, once for the end of its own and once for every
\* release of the idle channel.
FrameAges ==
  \A i \in 1 .. Len(owed) :
    /\ owed[i].no \in 1 .. accepted
    /\ Distance(owed[i].token, transfer) <= 2 * (accepted - owed[i].no) + IdleCount + resets

\* What is true of a frame with the token of the current transfer.
CurrentFrame(i) ==
  /\ state # "idle"
  /\ owed[i].no = accepted
  /\ owed[i].role \in Watched => i = Len(owed) /\ "nAs" \in timers
  /\ owed[i].role = "single" => state = "sendingSf"
  /\ owed[i].role \in {"next", "last"} => state = "sendingCf"
  /\ owed[i].role = "last" => bytesSent = Len(pduBuffer)

CurrentFrames == \A i \in 1 .. Len(owed) : owed[i].token = transfer => CurrentFrame(i)

IInv ==
  /\ SenderTypes
  /\ PduTypes
  /\ FrameTypes
  /\ WaitIsTimed
  /\ EndsOnce
  /\ FrameAges
  /\ CurrentFrames
  /\ WatchedFrameIsOwed

-----------------------------------------------------------------------------
(* Tokens *)

LEMMA NextToken ==
  ASSUME SenderAssumption, NEW t \in Tokens
  PROVE  /\ Next1(t) \in Tokens
         /\ Next1(t) = IF t + 1 = TokenModulus THEN 0 ELSE t + 1
<1>1. TokenModulus \in Nat \ {0} /\ t \in 0 .. TokenModulus - 1
  BY DEF SenderAssumption, Tokens
<1>2. t + 1 < TokenModulus => (t + 1) % TokenModulus = t + 1
  BY <1>1
<1>3. TokenModulus % TokenModulus = 0
  BY <1>1
<1>4. QED
  BY <1>1, <1>2, <1>3 DEF Next1, Tokens

\* A token is as far as the number of steps to it, until they come round.
LEMMA DistanceGrows ==
  ASSUME SenderAssumption, NEW from \in Tokens, NEW to \in Tokens
  PROVE  /\ Distance(from, to) \in Nat
         /\ (Distance(from, to) = 0) <=> (from = to)
         /\ Distance(from, to) + 1 < TokenModulus
              => Distance(from, Next1(to)) = Distance(from, to) + 1
<1>1. TokenModulus \in Nat \ {0} /\ from \in 0 .. TokenModulus - 1 /\ to \in 0 .. TokenModulus - 1
  BY DEF SenderAssumption, Tokens
<1>2. Next1(to) = IF to + 1 = TokenModulus THEN 0 ELSE to + 1
  BY NextToken
<1>3. QED
  BY <1>1, <1>2 DEF Distance

-----------------------------------------------------------------------------
(* Sequences with an element less *)

\* What RemoveAt leaves, and where it was.
LEMMA RemoveAtProperties ==
  ASSUME NEW S, NEW s \in Seq(S), NEW i \in 1 .. Len(s)
  PROVE  /\ RemoveAt(s, i) \in Seq(S)
         /\ Len(RemoveAt(s, i)) = Len(s) - 1
         /\ \A k \in 1 .. Len(s) - 1 :
              RemoveAt(s, i)[k] = IF k < i THEN s[k] ELSE s[k + 1]
<1> DEFINE before == SubSeq(s, 1, i - 1)
           after == SubSeq(s, i + 1, Len(s))
<1>1. Len(s) \in Nat /\ i \in Int /\ 1 <= i /\ i <= Len(s)
  BY LenProperties
<1>2. /\ before \in Seq(S)
      /\ Len(before) = i - 1
      /\ \A k \in 1 .. i - 1 : before[k] = s[k]
  <2>1. \A k \in 1 .. i - 1 : s[k] \in S
    BY <1>1, ElementOfSeq
  <2>2. 1 \in Int /\ i - 1 \in Int
    BY <1>1
  <2>3. /\ before \in Seq(S)
        /\ Len(before) = IF 1 <= i - 1 THEN (i - 1) - 1 + 1 ELSE 0
        /\ \A k \in 1 .. (i - 1) - 1 + 1 : before[k] = s[1 + k - 1]
    BY <2>1, <2>2, SubSeqProperties
  <2>4. QED
    BY <1>1, <2>3
<1>3. /\ after \in Seq(S)
      /\ Len(after) = Len(s) - i
      /\ \A k \in 1 .. Len(s) - i : after[k] = s[k + i]
  <2>1. \A k \in i + 1 .. Len(s) : s[k] \in S
    BY <1>1, ElementOfSeq
  <2>2. i + 1 \in Int /\ Len(s) \in Int
    BY <1>1
  <2>3. /\ after \in Seq(S)
        /\ Len(after) = IF i + 1 <= Len(s) THEN Len(s) - (i + 1) + 1 ELSE 0
        /\ \A k \in 1 .. Len(s) - (i + 1) + 1 : after[k] = s[(i + 1) + k - 1]
    BY <2>1, <2>2, SubSeqProperties
  <2>4. \A k \in 1 .. Len(s) - i :
          k \in 1 .. Len(s) - (i + 1) + 1 /\ (i + 1) + k - 1 = k + i
    BY <1>1
  <2>5. QED
    BY <1>1, <2>3, <2>4
<1>4. RemoveAt(s, i) = before \o after
  BY DEF RemoveAt
<1> HIDE DEF before, after
<1>5. /\ before \o after \in Seq(S)
      /\ Len(before \o after) = (i - 1) + (Len(s) - i)
      /\ \A k \in 1 .. (i - 1) + (Len(s) - i) :
           (before \o after)[k] = IF k <= i - 1 THEN before[k] ELSE after[k - (i - 1)]
  <2>1. /\ before \o after \in Seq(S)
        /\ Len(before \o after) = Len(before) + Len(after)
        /\ \A k \in 1 .. Len(before) + Len(after) :
             (before \o after)[k] =
               IF k <= Len(before) THEN before[k] ELSE after[k - Len(before)]
    BY <1>2, <1>3, ConcatProperties
  <2>2. Len(before) = i - 1 /\ Len(after) = Len(s) - i
    BY <1>2, <1>3
  <2>3. QED
    BY <2>1, <2>2
<1>6. ASSUME NEW k \in 1 .. Len(s) - 1
      PROVE  (before \o after)[k] = IF k < i THEN s[k] ELSE s[k + 1]
  <2>1. CASE k < i
    <3>1. k \in 1 .. (i - 1) + (Len(s) - i) /\ k <= i - 1 /\ k \in 1 .. i - 1
      BY <1>1, <2>1
    <3>2. QED
      BY <1>2, <1>5, <2>1, <3>1
  <2>2. CASE ~(k < i)
    <3>1. /\ k \in 1 .. (i - 1) + (Len(s) - i) /\ ~(k <= i - 1)
          /\ k - (i - 1) \in 1 .. Len(s) - i /\ (k - (i - 1)) + i = k + 1
      BY <1>1, <2>2
    <3>2. QED
      BY <1>3, <1>5, <2>2, <3>1
  <2>3. QED
    BY <2>1, <2>2
<1>7. QED
  BY <1>1, <1>4, <1>5, <1>6

\* If all neighbours between two positions are the same, so are the two: the
\* sets 1 .. k of the positions k that differ have a least one.
LEMMA SameNeighbours ==
  ASSUME NEW s, NEW n \in Nat, NEW i \in 1 .. n, NEW j \in i .. n,
         \A k \in i .. j - 1 : s[k + 1] = s[k]
  PROVE  s[j] = s[i]
<1> DEFINE T == {k \in i .. j : s[k] # s[i]}
           Below == {1 .. k : k \in T}
<1> SUFFICES ASSUME T # {} PROVE FALSE
  OBVIOUS
<1>1. \A k \in T : k \in 1 .. n /\ k \in Nat /\ 1 .. k \in SUBSET (1 .. n)
  OBVIOUS
<1>2. IsFiniteSet(1 .. n)
  BY FS_Interval
<1>3. FiniteSubsetsOf(1 .. n) = SUBSET (1 .. n)
  BY <1>2, FS_FiniteSubsetsOfFinite
<1>4. IsWellFoundedOn(StrictSubsetOrdering(1 .. n), SUBSET (1 .. n))
  BY <1>3, FS_StrictSubsetOrderingWellFounded
<1>5. Below \subseteq SUBSET (1 .. n) /\ Below # {}
  BY <1>1
<1>6. PICK least \in Below :
        \A other \in Below : <<other, least>> \notin StrictSubsetOrdering(1 .. n)
  BY <1>4, <1>5, WFMin
<1>7. PICK x \in T : least = 1 .. x
  OBVIOUS
<1>8. x # i /\ x - 1 \in i .. j - 1 /\ s[x] = s[x - 1]
  BY <1>1
<1>9. x - 1 \in T
  BY <1>8
<1>10. 1 .. x - 1 \in Below /\ 1 .. x - 1 \subseteq 1 .. x /\ x \in 1 .. x
       /\ x \notin 1 .. x - 1
  BY <1>1, <1>9
<1>11. <<1 .. x - 1, 1 .. x>> \in StrictSubsetOrdering(1 .. n)
  BY <1>1, <1>9, <1>10 DEF StrictSubsetOrdering
<1>12. QED
  BY <1>6, <1>7, <1>10, <1>11

\* A sequence from which an element was taken tells which one, up to equals.
LEMMA RemovedElement ==
  ASSUME NEW S, NEW s \in Seq(S), NEW i \in 1 .. Len(s), NEW j \in 1 .. Len(s),
         RemoveAt(s, i) = RemoveAt(s, j)
  PROVE  s[i] = s[j]
<1>1. ASSUME NEW a \in 1 .. Len(s), NEW b \in a .. Len(s), RemoveAt(s, a) = RemoveAt(s, b)
      PROVE  s[a] = s[b]
  <2>1. Len(s) \in Nat /\ b \in 1 .. Len(s)
    BY LenProperties
  <2>2. ASSUME NEW k \in a .. b - 1
        PROVE  s[k + 1] = s[k]
    <3>1. k \in 1 .. Len(s) - 1 /\ ~(k < a) /\ k < b
      BY <2>1
    <3>2. RemoveAt(s, a)[k] = s[k + 1]
      BY <3>1, RemoveAtProperties
    <3>3. RemoveAt(s, b)[k] = s[k]
      BY <2>1, <3>1, RemoveAtProperties
    <3>4. QED
      BY <1>1, <3>2, <3>3
  <2>3. s[b] = s[a]
    BY <2>1, <2>2, SameNeighbours
  <2>4. QED
    BY <2>3
<1>2. Len(s) \in Nat /\ (j \in i .. Len(s) \/ i \in j .. Len(s))
  BY LenProperties
<1>3. CASE j \in i .. Len(s)
  BY <1>1, <1>3
<1>4. CASE i \in j .. Len(s)
  <2>1. s[j] = s[i]
    BY <1>1, <1>4
  <2>2. QED
    BY <2>1
<1>5. QED
  BY <1>2, <1>3, <1>4

-----------------------------------------------------------------------------
(* What a step may do to the frames *)

\* The frames of s are among those owed.
KeptFrom(s) ==
  /\ s \in Seq(OwedFrames)
  /\ \A k \in 1 .. Len(s) : \E i \in 1 .. Len(owed) : s[k] = owed[i]

\* No frame of s is watched for the current transfer.
NoneWatched(s) == \A k \in 1 .. Len(s) : s[k].token = transfer => s[k].role \in Unwatched

\* What a frame, the state it is handed down in and the timer have to do with
\* each other.
HandedDown(role, newState, timer) ==
  \/ role = "single" /\ newState = "sendingSf" /\ timer = "nAs"
  \/ role \in Unwatched /\ newState = "waitingForFc" /\ timer = "nBs"
  \/ role \in {"next", "last"} /\ newState = "sendingCf" /\ timer = "nAs"

\* The token moves away from the frames that are owed.
LEMMA TokenAdvances ==
  ASSUME SenderAssumption, IInv, NEW w, Bounded(w), QueuedBriefly(w),
         NEW i \in 1 .. Len(owed)
  PROVE  /\ owed[i] \in OwedFrames
         /\ owed[i].no \in 1 .. accepted
         /\ Distance(owed[i].token, transfer) \in Nat
         /\ Distance(owed[i].token, transfer)
              <= 2 * (accepted - owed[i].no) + IdleCount + resets
         /\ Distance(owed[i].token, Next1(transfer)) = Distance(owed[i].token, transfer) + 1
         /\ Distance(owed[i].token, Next1(Next1(transfer)))
              = Distance(owed[i].token, transfer) + 2
         /\ owed[i].token # Next1(transfer)
         /\ owed[i].token # Next1(Next1(transfer))
<1>1. owed[i] \in OwedFrames
  BY ElementOfSeq DEF IInv, FrameTypes
<1>2. owed[i].token \in Tokens
  BY <1>1 DEF OwedFrames
<1>3. transfer \in Tokens /\ accepted \in Nat /\ resets \in Nat /\ resets <= MaxResets
      /\ MaxResets \in Nat
  BY DEF IInv, SenderTypes, SenderAssumption
<1>4. /\ owed[i].no \in 1 .. accepted
      /\ Distance(owed[i].token, transfer) <= 2 * (accepted - owed[i].no) + IdleCount + resets
  BY DEF IInv, FrameAges
<1>5. IdleCount \in 0 .. 1
  BY DEF IdleCount
<1>6. w \in Nat /\ accepted - owed[i].no <= w /\ 2 * w + MaxResets + 3 < TokenModulus
      /\ TokenModulus \in Nat
  <2>1. i \in DOMAIN owed
    BY LenProperties DEF IInv, FrameTypes
  <2>2. QED
    BY <2>1 DEF Bounded, QueuedBriefly, SenderAssumption
<1>7. Distance(owed[i].token, transfer) \in Nat
  BY <1>2, <1>3, DistanceGrows
<1>8. Distance(owed[i].token, transfer) + 2 < TokenModulus
  <2> DEFINE d == Distance(owed[i].token, transfer)
             n == owed[i].no
  <2>1. d \in Nat /\ n \in 1 .. accepted /\ d <= 2 * (accepted - n) + IdleCount + resets
        /\ accepted - n <= w
    BY <1>4, <1>6, <1>7
  <2> HIDE DEF d, n
  <2>2. n \in Nat /\ d <= 2 * w + 1 + MaxResets
    BY <1>3, <1>5, <1>6, <2>1
  <2>3. d + 2 < TokenModulus
    BY <1>3, <1>6, <2>1, <2>2
  <2>4. QED
    BY <2>3 DEF d
<1>9. Next1(transfer) \in Tokens /\ Next1(Next1(transfer)) \in Tokens
  BY <1>3, NextToken
<1>10. Distance(owed[i].token, Next1(transfer)) = Distance(owed[i].token, transfer) + 1
  <2>1. Distance(owed[i].token, transfer) + 1 < TokenModulus
    BY <1>6, <1>7, <1>8
  <2>2. QED
    BY <1>2, <1>3, <2>1, DistanceGrows
<1>11. Distance(owed[i].token, Next1(Next1(transfer))) = Distance(owed[i].token, transfer) + 2
  <2>1. Distance(owed[i].token, Next1(transfer)) + 1 < TokenModulus
    BY <1>6, <1>7, <1>8, <1>10
  <2>2. Distance(owed[i].token, Next1(Next1(transfer)))
          = Distance(owed[i].token, Next1(transfer)) + 1
    BY <1>2, <1>9, <2>1, DistanceGrows
  <2>3. QED
    BY <1>7, <1>10, <2>2
<1>12. owed[i].token # Next1(transfer) /\ owed[i].token # Next1(Next1(transfer))
  <2>1. Distance(owed[i].token, Next1(transfer)) # 0
        /\ Distance(owed[i].token, Next1(Next1(transfer))) # 0
    BY <1>7, <1>10, <1>11
  <2>2. QED
    BY <1>2, <1>9, <2>1, DistanceGrows
<1>13. QED
  BY <1>1, <1>4, <1>7, <1>10, <1>11, <1>12

LEMMA RemovedIsKept ==
  ASSUME IInv, NEW i \in 1 .. Len(owed)
  PROVE  KeptFrom(RemoveAt(owed, i))
<1>1. owed \in Seq(OwedFrames) /\ Len(owed) \in Nat
  BY LenProperties DEF IInv, FrameTypes
<1>2. /\ RemoveAt(owed, i) \in Seq(OwedFrames)
      /\ Len(RemoveAt(owed, i)) = Len(owed) - 1
      /\ \A k \in 1 .. Len(owed) - 1 :
           RemoveAt(owed, i)[k] = IF k < i THEN owed[k] ELSE owed[k + 1]
  BY <1>1, RemoveAtProperties
<1>3. ASSUME NEW k \in 1 .. Len(owed) - 1
      PROVE  \E j \in 1 .. Len(owed) : RemoveAt(owed, i)[k] = owed[j]
  <2>1. k \in 1 .. Len(owed) /\ k + 1 \in 1 .. Len(owed)
    BY <1>1
  <2>2. QED
    BY <1>2, <2>1
<1>4. QED
  BY <1>2, <1>3 DEF KeptFrom

LEMMA AgeBounds ==
  ASSUME NEW d \in Nat, NEW a \in Nat, NEW n \in 1 .. a, NEW c \in 0 .. 1, NEW r \in Nat,
         d <= 2 * (a - n) + c + r
  PROVE  /\ n \in 1 .. a + 1
         /\ c = 0 => d + 1 <= 2 * (a - n) + 1 + r
         /\ d + 1 <= 2 * (a - n) + 1 + (r + 1)
         /\ d + 1 <= 2 * (a + 1 - n) + 0 + r
         /\ d + 2 <= 2 * (a + 1 - n) + 1 + r
OBVIOUS

\* A transfer that ends leaves no frame with a current token.
LEMMA EndPreserves ==
  ASSUME SenderAssumption, IInv, NEW w, Bounded(w), QueuedBriefly(w),
         KeptFrom(owed'), PduTypes',
         state' = "idle", timers' = {}, ended' = accepted', resets' \in 0 .. MaxResets,
         \/ /\ transfer' = Next1(transfer) /\ accepted' = accepted
            /\ (state # "idle" /\ resets' = resets) \/ resets' = resets + 1
         \/ /\ transfer' = Next1(Next1(transfer)) /\ accepted' = accepted + 1
            /\ resets' = resets
  PROVE  IInv'
<1>1. transfer \in Tokens /\ accepted \in Nat /\ resets \in Nat
  BY DEF IInv, SenderTypes
<1>2. transfer' \in Tokens
  BY <1>1, NextToken
<1>3. SenderTypes'
  BY <1>1, <1>2 DEF SenderTypes, States, Tokens
<1>4. FrameTypes' /\ EndsOnce' /\ WaitIsTimed' /\ WatchedFrameIsOwed'
  BY <1>1 DEF KeptFrom, FrameTypes, OwedFrames, Tokens, EndsOnce, WaitIsTimed,
              WatchedFrameIsOwed
<1>5. ASSUME NEW k \in 1 .. Len(owed')
      PROVE  /\ owed'[k].no \in 1 .. accepted'
             /\ Distance(owed'[k].token, transfer')
                  <= 2 * (accepted' - owed'[k].no) + 1 + resets'
             /\ owed'[k].token # transfer'
  <2>1. PICK i \in 1 .. Len(owed) : owed'[k] = owed[i]
    BY DEF KeptFrom
  <2>2. /\ owed[i].no \in 1 .. accepted
        /\ Distance(owed[i].token, transfer) \in Nat
        /\ Distance(owed[i].token, transfer)
             <= 2 * (accepted - owed[i].no) + IdleCount + resets
        /\ Distance(owed[i].token, Next1(transfer)) = Distance(owed[i].token, transfer) + 1
        /\ Distance(owed[i].token, Next1(Next1(transfer)))
             = Distance(owed[i].token, transfer) + 2
        /\ owed[i].token # Next1(transfer)
        /\ owed[i].token # Next1(Next1(transfer))
    BY TokenAdvances
  <2>3. IdleCount \in 0 .. 1 /\ (state # "idle" => IdleCount = 0)
    BY DEF IdleCount
  <2> DEFINE d == Distance(owed[i].token, transfer)
             n == owed[i].no
             c == IdleCount
  <2>4. CASE /\ transfer' = Next1(transfer) /\ accepted' = accepted
             /\ (state # "idle" /\ resets' = resets) \/ resets' = resets + 1
    <3>1. /\ owed'[k].no = n /\ n \in 1 .. accepted
          /\ Distance(owed'[k].token, transfer') = d + 1
          /\ owed'[k].token # transfer'
          /\ d \in Nat /\ d <= 2 * (accepted - n) + c + resets
          /\ c \in 0 .. 1 /\ (c = 0 \/ resets' = resets + 1)
          /\ accepted' = accepted /\ (resets' = resets \/ resets' = resets + 1)
      BY <2>1, <2>2, <2>3, <2>4
    <3> HIDE DEF d, n, c
    <3>2. d + 1 <= 2 * (accepted - n) + 1 + resets'
      <4>1. /\ c = 0 => d + 1 <= 2 * (accepted - n) + 1 + resets
            /\ d + 1 <= 2 * (accepted - n) + 1 + (resets + 1)
        BY <1>1, <3>1, AgeBounds, SMTT(30)
      <4>2. QED
        BY <3>1, <4>1
    <3>3. QED
      BY <3>1, <3>2
  <2>5. CASE /\ transfer' = Next1(Next1(transfer)) /\ accepted' = accepted + 1
             /\ resets' = resets
    <3>1. /\ owed'[k].no = n /\ n \in 1 .. accepted
          /\ Distance(owed'[k].token, transfer') = d + 2
          /\ owed'[k].token # transfer'
          /\ d \in Nat /\ d <= 2 * (accepted - n) + c + resets
          /\ c \in 0 .. 1
          /\ accepted' = accepted + 1 /\ resets' = resets
      BY <2>1, <2>2, <2>3, <2>5
    <3> HIDE DEF d, n, c
    <3>2. d + 2 <= 2 * (accepted + 1 - n) + 1 + resets /\ n \in 1 .. accepted + 1
      BY <1>1, <3>1, AgeBounds, SMTT(30)
    <3>3. owed'[k].no \in 1 .. accepted' /\ accepted' - owed'[k].no = accepted + 1 - n
      BY <1>1, <3>1, <3>2
    <3>4. QED
      BY <1>1, <3>1, <3>2, <3>3
  <2>6. QED
    BY <2>4, <2>5
<1>6. FrameAges'
  BY <1>5 DEF FrameAges, IdleCount, Distance
<1>7. CurrentFrames'
  BY <1>5 DEF CurrentFrames
<1>8. QED
  BY <1>3, <1>4, <1>6, <1>7 DEF IInv

\* A step that ends nothing, begins nothing and hands nothing down.
LEMMA GoingOnPreserves ==
  ASSUME SenderAssumption, IInv, KeptFrom(owed'), PduTypes',
         state # "idle", state' \in States \ {"idle"}, transfer' = transfer,
         timers' \subseteq {"nBs", "stMin"}, WaitIsTimed',
         NoneWatched(owed'), UNCHANGED <<accepted, ended, resets>>
  PROVE  IInv'
<1>1. SenderTypes'
  BY DEF IInv, SenderTypes, States, Tokens
<1>2. FrameTypes' /\ EndsOnce' /\ WatchedFrameIsOwed'
  BY DEF KeptFrom, FrameTypes, OwedFrames, Tokens, EndsOnce, IInv, WatchedFrameIsOwed, States
<1>3. ASSUME NEW k \in 1 .. Len(owed')
      PROVE  /\ owed'[k].no \in 1 .. accepted'
             /\ Distance(owed'[k].token, transfer')
                  <= 2 * (accepted' - owed'[k].no) + IdleCount' + resets'
             /\ owed'[k].token = transfer' =>
                  owed'[k].no = accepted' /\ owed'[k].role \in Unwatched
  <2>1. PICK i \in 1 .. Len(owed) : owed'[k] = owed[i]
    BY DEF KeptFrom
  <2>2. /\ owed[i].no \in 1 .. accepted
        /\ Distance(owed[i].token, transfer)
             <= 2 * (accepted - owed[i].no) + IdleCount + resets
        /\ owed[i].token = transfer => owed[i].no = accepted
    BY DEF IInv, FrameAges, CurrentFrames, CurrentFrame
  <2>3. IdleCount' = IdleCount
    BY DEF IdleCount
  <2>4. owed'[k].token = transfer' => owed'[k].role \in Unwatched
    BY DEF NoneWatched
  <2>5. accepted' = accepted /\ resets' = resets
    OBVIOUS
  <2>6. QED
    BY <2>1, <2>2, <2>3, <2>4, <2>5, Zenon
<1>4. FrameAges'
  BY <1>3 DEF FrameAges
<1>5. CurrentFrames'
  BY <1>3 DEF CurrentFrames, CurrentFrame, Watched, Unwatched
<1>6. QED
  BY <1>1, <1>2, <1>4, <1>5 DEF IInv

\* A frame is accepted by the transport, for a transfer that is under way or
\* begins with it, or refused, which ends the transfer.
LEMMA HandDownPreserves ==
  ASSUME SenderAssumption, IInv, NEW w, Bounded(w), QueuedBriefly(w),
         NEW r, KeptFrom(r), NoneWatched(r),
         NEW bytes \in CanFrames, NEW token, NEW no,
         NEW role, NEW newState, NEW timer, HandedDown(role, newState, timer),
         \/ token = Next1(transfer) /\ no = accepted + 1 /\ state = "idle"
         \/ token = transfer /\ no = accepted /\ state # "idle",
         accepted' = no, UNCHANGED resets, PduTypes',
         role = "last" => bytesSent' = Len(pduBuffer'),
         HandDown(r, {}, bytes, token, no, role, newState, timer)
  PROVE  IInv'
<1>1. transfer \in Tokens /\ accepted \in Nat /\ ended \in Nat /\ resets \in 0 .. MaxResets
  BY DEF IInv, SenderTypes
<1>2. token \in Tokens /\ no \in Nat /\ accepted' \in Nat
  BY <1>1, NextToken
<1>3. state = "idle" => accepted = ended
  BY <1>1 DEF IInv, EndsOnce
<1>4. state # "idle" => accepted = ended + 1
  BY <1>1 DEF IInv, EndsOnce
<1>5. CASE owed' = r /\ Abort(token, "sendFailed")
  <2>1. /\ state' = "idle" /\ timers' = {} /\ transfer' = Next1(token)
        /\ ended' = ended + 1
    BY <1>5 DEF Abort, Clear, Ends
  <2>2. ended' = accepted'
    BY <1>1, <1>3, <1>4, <2>1
  <2>3. KeptFrom(owed')
    BY <1>5
  <2>4. \/ /\ transfer' = Next1(transfer) /\ accepted' = accepted
           /\ (state # "idle" /\ resets' = resets) \/ resets' = resets + 1
        \/ /\ transfer' = Next1(Next1(transfer)) /\ accepted' = accepted + 1
           /\ resets' = resets
    BY <2>1
  <2>5. resets' \in 0 .. MaxResets
    BY <1>1
  <2>6. QED
    BY <2>1, <2>2, <2>3, <2>4, <2>5, EndPreserves
<1>6. CASE /\ owed' = Append(r, Frame(bytes, token, role, no))
           /\ state' = newState /\ transfer' = token
           /\ timers' = Started({}, timer)
           /\ UNCHANGED <<ended, outcome>>
  <2> DEFINE f == Frame(bytes, token, role, no)
  <2>1. /\ f \in OwedFrames
        /\ f.token = token /\ f.role = role /\ f.no = no
    BY <1>2 DEF Frame, OwedFrames, HandedDown, Watched, Unwatched
  <2> HIDE DEF f
  <2>2. r \in Seq(OwedFrames) /\ Len(r) \in Nat
    BY LenProperties DEF KeptFrom
  <2>3. /\ owed' \in Seq(OwedFrames)
        /\ Len(owed') = Len(r) + 1
        /\ owed'[Len(r) + 1] = f
        /\ \A k \in 1 .. Len(r) : owed'[k] = r[k]
    BY <1>6, <2>1, <2>2, AppendProperties DEF f
  <2>4. timers' = {timer}
    BY <1>6 DEF Started
  <2>5. /\ state' \in States \ {"idle"}
        /\ timers' \subseteq {"nAs", "nBs", "stMin"}
        /\ WaitIsTimed'
    BY <1>6, <2>4 DEF HandedDown, States, WaitIsTimed
  <2>6. SenderTypes' /\ FrameTypes'
    BY <1>1, <1>2, <1>6, <2>3, <2>5
       DEF SenderTypes, FrameTypes, States, Tokens, OwedFrames
  <2>7. EndsOnce'
    <3>1. accepted' = ended + 1 /\ ended' = ended
      BY <1>1, <1>3, <1>4, <1>6
    <3>2. QED
      BY <2>5, <3>1 DEF EndsOnce
  <2>8. WatchedFrameIsOwed'
    <3>1. "nAs" \in timers' => role \in {"single", "next", "last"}
      BY <2>4 DEF HandedDown
    <3>2. owed' # <<>> /\ owed'[Len(owed')] = f
      BY <2>2, <2>3
    <3>3. f.token = transfer' /\ f.no = accepted' /\ f.role = role
      BY <1>6, <2>1
    <3>4. QED
      BY <3>1, <3>2, <3>3 DEF WatchedFrameIsOwed, IsCurrent
  <2>9. IdleCount' = 0
    BY <2>5 DEF IdleCount
  <2>10. ASSUME NEW k \in 1 .. Len(r)
         PROVE  /\ owed'[k].no \in 1 .. accepted'
                /\ Distance(owed'[k].token, transfer')
                     <= 2 * (accepted' - owed'[k].no) + 0 + resets'
                /\ owed'[k].token = transfer' =>
                     owed'[k].no = accepted' /\ owed'[k].role \in Unwatched
    <3>1. PICK i \in 1 .. Len(owed) : r[k] = owed[i]
      BY DEF KeptFrom
    <3>2. /\ owed[i].no \in 1 .. accepted
          /\ Distance(owed[i].token, transfer) \in Nat
          /\ Distance(owed[i].token, transfer)
               <= 2 * (accepted - owed[i].no) + IdleCount + resets
          /\ Distance(owed[i].token, Next1(transfer))
               = Distance(owed[i].token, transfer) + 1
          /\ owed[i].token # Next1(transfer)
      BY TokenAdvances
    <3>3. owed'[k] = owed[i] /\ resets' = resets
      BY <2>3, <3>1
    <3>4. CASE token = transfer /\ no = accepted /\ state # "idle"
      <4>1. IdleCount = 0
        BY <3>4 DEF IdleCount
      <4>2. owed[i].token = transfer =>
              owed[i].no = accepted /\ owed[i].role \in Unwatched
        <5>1. owed[i].token = transfer => owed[i].no = accepted
          BY DEF IInv, CurrentFrames, CurrentFrame
        <5>2. owed[i].token = transfer => owed[i].role \in Unwatched
          BY <3>1 DEF NoneWatched
        <5>3. QED
          BY <5>1, <5>2
      <4>3. transfer' = transfer /\ accepted' = accepted
        BY <1>6, <3>4
      <4>4. QED
        BY <3>2, <3>3, <4>1, <4>2, <4>3, Zenon
    <3>5. CASE token = Next1(transfer) /\ no = accepted + 1 /\ state = "idle"
      <4> DEFINE d == Distance(owed[i].token, transfer)
                 n == owed[i].no
                 c == IdleCount
      <4>1. /\ owed'[k].no = n /\ n \in 1 .. accepted
            /\ Distance(owed'[k].token, transfer') = d + 1
            /\ owed'[k].token # transfer'
            /\ d \in Nat /\ d <= 2 * (accepted - n) + c + resets
            /\ accepted' = accepted + 1
        BY <1>6, <3>2, <3>3, <3>5
      <4>2. c \in 0 .. 1
        BY DEF IdleCount
      <4> HIDE DEF d, n, c
      <4>3. d + 1 <= 2 * (accepted + 1 - n) + 0 + resets /\ n \in 1 .. accepted + 1
        BY <1>1, <4>1, <4>2, AgeBounds, SMTT(30)
      <4>4. owed'[k].no \in 1 .. accepted' /\ accepted' - owed'[k].no = accepted + 1 - n
        BY <1>1, <4>1, <4>3
      <4>5. QED
        BY <1>1, <3>3, <4>1, <4>3, <4>4
    <3>6. QED
      BY <3>4, <3>5
  <2>11. /\ owed'[Len(r) + 1].no = accepted'
         /\ owed'[Len(r) + 1].token = transfer'
         /\ owed'[Len(r) + 1].role = role
    BY <1>6, <2>1, <2>3
  <2>12. accepted' \in Nat \ {0}
    <3>1. accepted' = ended + 1
      BY <1>1, <1>3, <1>4
    <3>2. QED
      BY <1>1, <3>1
  <2>13. \A k \in 1 .. Len(owed') : k \in 1 .. Len(r) \/ k = Len(r) + 1
    BY <2>2, <2>3
  <2>14. FrameAges'
    <3>1. ASSUME NEW k \in 1 .. Len(owed')
          PROVE  /\ owed'[k].no \in 1 .. accepted'
                 /\ Distance(owed'[k].token, transfer')
                      <= 2 * (accepted' - owed'[k].no) + IdleCount' + resets'
      <4>1. CASE k \in 1 .. Len(r)
        BY <2>9, <2>10, <4>1, Zenon
      <4>2. CASE k = Len(r) + 1
        <5>1. owed'[k].no = accepted' /\ owed'[k].token = transfer'
          BY <2>11, <4>2
        <5>2. Distance(transfer', transfer') = 0
          BY <1>2, <1>6, DistanceGrows
        <5>3. resets' \in Nat
          BY <1>1
        <5>4. accepted' \in 1 .. accepted' /\ 0 <= 2 * (accepted' - accepted') + 0 + resets'
          BY <2>12, <5>3
        <5>5. QED
          BY <2>9, <5>1, <5>2, <5>4, Zenon
      <4>3. QED
        BY <2>13, <4>1, <4>2
    <3>2. QED
      BY <3>1 DEF FrameAges
  <2>15. CurrentFrames'
    <3>1. ASSUME NEW k \in 1 .. Len(owed'), owed'[k].token = transfer'
          PROVE  CurrentFrame(k)'
      <4>1. CASE k \in 1 .. Len(r)
        BY <2>5, <2>10, <3>1, <4>1 DEF CurrentFrame, Watched, Unwatched
      <4>2. CASE k = Len(r) + 1
        <5>1. role \in Watched => "nAs" \in timers'
          BY <2>4 DEF HandedDown, Watched, Unwatched
        <5>2. /\ role = "single" => state' = "sendingSf"
              /\ role \in {"next", "last"} => state' = "sendingCf"
          BY <1>6 DEF HandedDown, Unwatched
        <5>3. k = Len(owed') /\ owed'[k].role = role /\ owed'[k].no = accepted'
          BY <2>3, <2>11, <4>2
        <5>4. QED
          BY <2>5, <5>1, <5>2, <5>3 DEF CurrentFrame, States
      <4>3. QED
        BY <2>13, <4>1, <4>2
    <3>2. QED
      BY <3>1 DEF CurrentFrames
  <2>16. QED
    BY <2>5, <2>6, <2>7, <2>8, <2>14, <2>15 DEF IInv
<1>7. QED
  BY <1>5, <1>6 DEF HandDown

-----------------------------------------------------------------------------
(* Frames *)

\* An encoder's result is a CAN frame; a consecutive frame takes no more data
\* than is left.
LEMMA HeaderAndData ==
  ASSUME NEW header \in Seq(Byte), NEW data \in Seq(Byte), Len(header) + Len(data) <= 8
  PROVE  /\ header \o data \in CanFrames
         /\ Len(header \o data) = Len(header) + Len(data)
<1>1. /\ header \o data \in Seq(Byte)
      /\ Len(header \o data) = Len(header) + Len(data)
  BY ConcatProperties
<1>2. QED
  BY <1>1 DEF CanFrames

LEMMA FrontOfPdu ==
  ASSUME NEW pdu \in Seq(Byte), NEW n \in 0 .. Len(pdu)
  PROVE  /\ SubSeq(pdu, 1, n) \in Seq(Byte)
         /\ Len(SubSeq(pdu, 1, n)) = n
<1>1. Len(pdu) \in Nat /\ 1 \in Int /\ n \in Int
  BY LenProperties
<1>2. \A k \in 1 .. n : pdu[k] \in Byte
  <2> SUFFICES ASSUME NEW k \in 1 .. n PROVE pdu[k] \in Byte
    OBVIOUS
  <2>1. k \in 1 .. Len(pdu)
    BY <1>1
  <2>2. QED
    BY <2>1, ElementOfSeq
<1>3. /\ SubSeq(pdu, 1, n) \in Seq(Byte)
      /\ Len(SubSeq(pdu, 1, n)) = IF 1 <= n THEN n - 1 + 1 ELSE 0
  BY <1>1, <1>2, SubSeqProperties
<1>4. QED
  BY <1>1, <1>3

LEMMA BytesOfNumbers ==
  \A n \in Nat : /\ n <= 7 => n \in Byte
                 /\ 16 + (n % 16) \in Byte
                 /\ 32 + (n % 16) \in Byte
                 /\ n % 256 \in Byte
BY DEF Byte

LEMMA SingleFrameBytes ==
  ASSUME NEW pdu \in Seq(Byte), Len(pdu) <= sfMaxPayloadBytes
  PROVE  EncodeSingleFrame(pdu) \in CanFrames
<1>1. Len(pdu) \in Nat /\ Len(pdu) <= 7
  BY LenProperties DEF sfMaxPayloadBytes
<1>2. Len(pdu) \in Byte
  BY <1>1, BytesOfNumbers, Zenon
<1>3. <<Len(pdu)>> \in Seq(Byte) /\ Len(<<Len(pdu)>>) = 1
  BY <1>2
<1>4. Len(<<Len(pdu)>>) + Len(pdu) <= 8
  BY <1>1, <1>3
<1>5. QED
  BY <1>3, <1>4, HeaderAndData DEF EncodeSingleFrame

LEMMA FirstFrameBytes ==
  ASSUME NEW pdu \in Seq(Byte), ~(Len(pdu) <= sfMaxPayloadBytes)
  PROVE  EncodeFirstFrame(pdu) \in CanFrames /\ ffFirstDataBytes \in 0 .. Len(pdu)
<1> DEFINE high == 16 + ((Len(pdu) \div 256) % 16)
           low == Len(pdu) % 256
           header == <<high, low>>
           data == SubSeq(pdu, 1, ffFirstDataBytes)
<1>1. Len(pdu) \in Nat
  BY LenProperties
<1>2. ffFirstDataBytes \in 0 .. Len(pdu) /\ ffFirstDataBytes = 6
  BY <1>1 DEF ffFirstDataBytes, sfMaxPayloadBytes
<1>3. data \in Seq(Byte) /\ Len(data) = 6
  BY <1>2, FrontOfPdu
<1>4. high \in Byte /\ low \in Byte
  <2>1. Len(pdu) \div 256 \in Nat
    BY <1>1
  <2>2. QED
    BY <1>1, <2>1, BytesOfNumbers, Zenon
<1>5. EncodeFirstFrame(pdu) = header \o data
  BY DEF EncodeFirstFrame
<1> HIDE DEF high, low, data
<1>6. header \in Seq(Byte) /\ Len(header) = 2
  BY <1>4
<1> HIDE DEF header
<1>7. Len(header) + Len(data) <= 8
  BY <1>3, <1>6
<1>8. header \o data \in CanFrames
  BY <1>3, <1>6, <1>7, HeaderAndData, Zenon
<1>9. QED
  BY <1>2, <1>5, <1>8

LEMMA ConsecutiveFrameBytes ==
  ASSUME NEW sn \in Nat, NEW rest \in Seq(Byte)
  PROVE  /\ EncodeConsecutiveFrame(sn, rest) \in CanFrames
         /\ Len(EncodeConsecutiveFrame(sn, rest)) - 1 \in 0 .. Len(rest)
<1> DEFINE n == IF Len(rest) < cfMaxDataBytes THEN Len(rest) ELSE cfMaxDataBytes
           header == <<32 + (sn % snModulus)>>
           data == SubSeq(rest, 1, n)
<1>1. Len(rest) \in Nat
  BY LenProperties
<1>2. n \in 0 .. Len(rest) /\ n <= 7
  BY <1>1 DEF cfMaxDataBytes
<1>3. data \in Seq(Byte) /\ Len(data) = n
  BY <1>2, FrontOfPdu
<1>4. 32 + (sn % snModulus) \in Byte
  BY BytesOfNumbers, Zenon DEF snModulus
<1>5. header \in Seq(Byte) /\ Len(header) = 1
  BY <1>4
<1>6. EncodeConsecutiveFrame(sn, rest) = header \o data
  BY DEF EncodeConsecutiveFrame
<1> HIDE DEF n, header, data
<1>7. Len(header) + Len(data) <= 8
  BY <1>1, <1>2, <1>3, <1>5
<1>8. /\ header \o data \in CanFrames
      /\ Len(header \o data) = 1 + n
  BY <1>3, <1>5, <1>7, HeaderAndData
<1>9. QED
  BY <1>1, <1>2, <1>6, <1>8

\* What is left of a PDU.
LEMMA RestOfPdu ==
  ASSUME NEW pdu \in Seq(Byte), NEW n \in 0 .. Len(pdu)
  PROVE  /\ SubSeq(pdu, n + 1, Len(pdu)) \in Seq(Byte)
         /\ Len(SubSeq(pdu, n + 1, Len(pdu))) = Len(pdu) - n
<1>1. Len(pdu) \in Nat /\ n + 1 \in Int
  BY LenProperties
<1>2. \A k \in n + 1 .. Len(pdu) : pdu[k] \in Byte
  <2> SUFFICES ASSUME NEW k \in n + 1 .. Len(pdu) PROVE pdu[k] \in Byte
    OBVIOUS
  <2>1. k \in 1 .. Len(pdu)
    BY <1>1
  <2>2. QED
    BY <2>1, ElementOfSeq
<1>3. /\ SubSeq(pdu, n + 1, Len(pdu)) \in Seq(Byte)
      /\ Len(SubSeq(pdu, n + 1, Len(pdu)))
           = IF n + 1 <= Len(pdu) THEN Len(pdu) - (n + 1) + 1 ELSE 0
  BY <1>1, <1>2, SubSeqProperties
<1>4. QED
  BY <1>1, <1>3

-----------------------------------------------------------------------------
(* The next frame of a transfer *)

LEMMA NextFramePreserves ==
  ASSUME SenderAssumption, IInv, NEW w, Bounded(w), QueuedBriefly(w),
         NEW r, KeptFrom(r), NoneWatched(r), state # "idle",
         NEW running, running = {}, NEW size, NEW remaining, UNCHANGED resets,
         SendNextConsecutiveFrame(r, running, size, remaining)
  PROVE  IInv'
<1> DEFINE rest == SubSeq(pduBuffer, bytesSent + 1, Len(pduBuffer))
           frame == EncodeConsecutiveFrame(sequenceNumber, rest)
           allSent == AllSent(bytesSent + Len(frame) - 1)
           counted == IF ~allSent /\ size # 0 /\ remaining > 0 THEN remaining - 1
                                                               ELSE remaining
           blockEnd == ~allSent /\ size # 0 /\ counted = 0
           role == IF blockEnd THEN "blockEnd" ELSE IF allSent THEN "last" ELSE "next"
           newState == IF blockEnd THEN "waitingForFc" ELSE "sendingCf"
           timer == IF blockEnd THEN "nBs" ELSE "nAs"
<1>1. /\ sequenceNumber' = (sequenceNumber + 1) % snModulus
      /\ bytesSent' = bytesSent + Len(frame) - 1
      /\ UNCHANGED <<pduBuffer, accepted>>
      /\ HandDown(r, {}, frame, transfer, accepted, role, newState, timer)
  BY Zenon DEF SendNextConsecutiveFrame
<1>2. /\ pduBuffer \in Seq(Byte) /\ bytesSent \in 0 .. Len(pduBuffer)
      /\ sequenceNumber \in Nat
  BY DEF IInv, PduTypes
<1>3. rest \in Seq(Byte) /\ Len(rest) = Len(pduBuffer) - bytesSent
  BY <1>2, RestOfPdu
<1>4. frame \in CanFrames /\ Len(frame) - 1 \in 0 .. Len(rest)
  BY <1>2, <1>3, ConsecutiveFrameBytes
<1>5. Len(pduBuffer) \in Nat
  BY <1>2, LenProperties
<1>6. HandedDown(role, newState, timer)
  BY DEF HandedDown, Unwatched
<1>7. role = "last" => allSent
  OBVIOUS
<1> HIDE DEF role, newState, timer, blockEnd, counted, rest, frame
<1>8. bytesSent' \in 0 .. Len(pduBuffer)
  BY <1>1, <1>2, <1>3, <1>4, <1>5
<1>9. PduTypes'
  <2>1. sequenceNumber' \in Nat
    BY <1>1, <1>2 DEF snModulus
  <2>2. QED
    BY <1>1, <1>2, <1>8, <2>1 DEF PduTypes
<1>10. role = "last" => bytesSent' = Len(pduBuffer')
  <2>1. allSent => bytesSent' >= Len(pduBuffer)
    BY <1>1 DEF AllSent
  <2>2. QED
    BY <1>1, <1>5, <1>7, <1>8, <2>1
<1>11. transfer = transfer /\ accepted = accepted /\ accepted' = accepted
  BY <1>1
<1> HIDE DEF allSent
<1>12. QED
  BY <1>1, <1>4, <1>6, <1>9, <1>10, <1>11, HandDownPreserves

\* After the separation time, or at once.
LEMMA SchedulePreserves ==
  ASSUME SenderAssumption, IInv, NEW w, Bounded(w), QueuedBriefly(w),
         NEW r, KeptFrom(r), NoneWatched(r), state # "idle",
         NEW running, running = {}, NEW size, NEW remaining, NEW stMin, UNCHANGED resets,
         ScheduleNextCf(r, running, size, remaining, stMin)
  PROVE  IInv'
<1>1. CASE SendNextConsecutiveFrame(r, running, size, remaining)
  BY <1>1, NextFramePreserves
<1>2. CASE /\ state' = "sendingCf"
           /\ timers' = Started(running, "stMin")
           /\ owed' = r
           /\ UNCHANGED <<transfer, pduBuffer, bytesSent, sequenceNumber,
                          accepted, ended, outcome>>
  <2>1. timers' = {"stMin"}
    BY <1>2 DEF Started
  <2>2. /\ state' \in States \ {"idle"} /\ timers' \subseteq {"nBs", "stMin"}
        /\ WaitIsTimed'
    BY <1>2, <2>1 DEF WaitIsTimed, States
  <2>3. PduTypes'
    BY <1>2 DEF IInv, PduTypes, Byte
  <2>4. KeptFrom(owed') /\ NoneWatched(owed')
    BY <1>2
  <2>5. QED
    BY <1>2, <2>2, <2>3, <2>4, GoingOnPreserves
<1>3. QED
  BY <1>1, <1>2 DEF ScheduleNextCf

-----------------------------------------------------------------------------
(* The actions *)

LEMMA OwedIsKept ==
  ASSUME IInv
  PROVE  KeptFrom(owed)
BY DEF IInv, FrameTypes, KeptFrom

\* Only N_As watches a frame.
LEMMA NothingWatched ==
  ASSUME IInv, "nAs" \notin timers
  PROVE  NoneWatched(owed)
<1> SUFFICES ASSUME NEW k \in 1 .. Len(owed), owed[k].token = transfer
             PROVE  owed[k].role \in Unwatched
  BY DEF NoneWatched
<1>1. owed[k] \in OwedFrames
  BY ElementOfSeq DEF IInv, FrameTypes
<1>2. owed[k].role \in Watched \cup Unwatched
  BY <1>1 DEF OwedFrames
<1>3. owed[k].role \notin Watched
  BY DEF IInv, CurrentFrames, CurrentFrame
<1>4. QED
  BY <1>2, <1>3

\* A transfer under way is ended with its own token, whatever ends it.
LEMMA AbortPreserves ==
  ASSUME SenderAssumption, IInv, NEW w, Bounded(w), QueuedBriefly(w),
         NEW reason, state # "idle", KeptFrom(owed'), PduTypes',
         Abort(transfer, reason), UNCHANGED <<accepted, resets>>
  PROVE  IInv'
<1>1. /\ state' = "idle" /\ timers' = {} /\ transfer' = Next1(transfer)
      /\ ended' = ended + 1
  BY DEF Abort, Clear, Ends
<1>2. accepted = ended + 1
  BY DEF IInv, EndsOnce, SenderTypes
<1>3. ended' = accepted' /\ resets' \in 0 .. MaxResets
  BY <1>1, <1>2 DEF IInv, SenderTypes
<1>4. /\ transfer' = Next1(transfer) /\ accepted' = accepted
      /\ (state # "idle" /\ resets' = resets) \/ resets' = resets + 1
  BY <1>1
<1>5. QED
  BY <1>1, <1>3, <1>4, EndPreserves

LEMMA SendPreserves ==
  ASSUME SenderAssumption, IInv, NEW w, Bounded(w), QueuedBriefly(w),
         NEW pdu \in Pdus, Send(pdu)
  PROVE  IInv'
<1>1. /\ state = "idle" /\ pduBuffer' = pdu /\ sequenceNumber' = 1
      /\ accepted' = accepted + 1 /\ UNCHANGED resets
  BY DEF Send
<1>2. timers = {}
  BY <1>1 DEF IInv, WaitIsTimed
<1>3. KeptFrom(owed) /\ NoneWatched(owed)
  BY <1>2, OwedIsKept, NothingWatched
<1>4. pdu \in Seq(Byte)
  BY DEF SenderAssumption
<1>5. CASE Len(pdu) <= sfMaxPayloadBytes
  <2>1. /\ bytesSent' = 0
        /\ HandDown(owed, {}, EncodeSingleFrame(pdu), Next1(transfer), accepted + 1,
                    "single", "sendingSf", "nAs")
    BY <1>2, <1>5, Zenon DEF Send
  <2>2. PduTypes'
    <3>1. Len(pdu) \in Nat
      BY <1>4, LenProperties
    <3>2. QED
      BY <1>1, <1>4, <2>1, <3>1 DEF PduTypes
  <2>3. HandedDown("single", "sendingSf", "nAs") /\ "single" # "last"
    BY DEF HandedDown
  <2>4. EncodeSingleFrame(pdu) \in CanFrames
    BY <1>4, <1>5, SingleFrameBytes
  <2>5. QED
    BY <1>1, <1>3, <2>1, <2>2, <2>3, <2>4, HandDownPreserves
<1>6. CASE ~(Len(pdu) <= sfMaxPayloadBytes)
  <2>1. /\ bytesSent' = ffFirstDataBytes
        /\ HandDown(owed, {}, EncodeFirstFrame(pdu), Next1(transfer), accepted + 1,
                    "first", "waitingForFc", "nBs")
    BY <1>2, <1>6, Zenon DEF Send
  <2>2. EncodeFirstFrame(pdu) \in CanFrames /\ ffFirstDataBytes \in 0 .. Len(pdu)
    BY <1>4, <1>6, FirstFrameBytes
  <2>3. PduTypes'
    BY <1>1, <1>4, <2>1, <2>2 DEF PduTypes
  <2>4. HandedDown("first", "waitingForFc", "nBs") /\ "first" # "last"
    BY DEF HandedDown, Unwatched
  <2>5. QED
    BY <1>1, <1>3, <2>1, <2>2, <2>3, <2>4, HandDownPreserves
<1>7. QED
  BY <1>5, <1>6

LEMMA FlowControlPreserves ==
  ASSUME SenderAssumption, IInv, NEW w, Bounded(w), QueuedBriefly(w),
         NEW frame, FlowControl(frame)
  PROVE  IInv'
<1> DEFINE fc == DecodeFlowControl(frame)
<1>1. state = "waitingForFc" /\ UNCHANGED <<accepted, resets>>
  BY DEF FlowControl
<1>2. timers = {"nBs"}
  BY <1>1 DEF IInv, WaitIsTimed
<1>3. KeptFrom(owed) /\ NoneWatched(owed) /\ PduTypes
  BY <1>2, OwedIsKept, NothingWatched DEF IInv
<1>4. \/ \E reason : Abort(transfer, reason) /\ UNCHANGED <<transferVars, owed>>
      \/ \E reason : /\ Abort(transfer, reason)
                     /\ UNCHANGED <<pduBuffer, bytesSent, sequenceNumber, owed>>
      \/ /\ timers' = timers \cup {"nBs"}
         /\ UNCHANGED <<state, transfer, ended, outcome>>
         /\ UNCHANGED <<pduBuffer, bytesSent, sequenceNumber, owed>>
      \/ ScheduleNextCf(owed, timers \ {"nBs"}, fc.blockSize, fc.blockSize, fc.stMin)
  BY DEF FlowControl
<1>5. CASE \E reason : /\ Abort(transfer, reason)
                       /\ UNCHANGED <<pduBuffer, bytesSent, sequenceNumber, owed>>
  <2>1. KeptFrom(owed') /\ PduTypes'
    BY <1>3, <1>5 DEF PduTypes, Byte, KeptFrom, OwedFrames, Tokens
  <2>2. QED
    BY <1>1, <1>5, <2>1, AbortPreserves
<1>6. CASE /\ timers' = timers \cup {"nBs"}
           /\ UNCHANGED <<state, transfer, ended, outcome>>
           /\ UNCHANGED <<pduBuffer, bytesSent, sequenceNumber, owed>>
  <2>1. KeptFrom(owed') /\ PduTypes' /\ NoneWatched(owed')
    BY <1>3, <1>6 DEF PduTypes, Byte, KeptFrom, NoneWatched, OwedFrames, Tokens
  <2>2. /\ timers' \subseteq {"nBs", "stMin"} /\ WaitIsTimed'
        /\ state' \in States \ {"idle"} /\ state # "idle"
    BY <1>1, <1>2, <1>6 DEF WaitIsTimed, States
  <2>3. QED
    BY <1>1, <1>6, <2>1, <2>2, GoingOnPreserves
<1>7. CASE ScheduleNextCf(owed, timers \ {"nBs"}, fc.blockSize, fc.blockSize, fc.stMin)
  <2>1. timers \ {"nBs"} = {} /\ state # "idle"
    BY <1>1, <1>2
  <2> HIDE DEF fc
  <2>2. QED
    BY <1>1, <1>3, <1>7, <2>1, SchedulePreserves
<1>8. CASE \E reason : Abort(transfer, reason) /\ UNCHANGED <<transferVars, owed>>
  BY <1>5, <1>8 DEF transferVars
<1>9. QED
  BY <1>4, <1>5, <1>6, <1>7, <1>8

LEMMA ReplacedElement ==
  ASSUME NEW S, NEW s \in Seq(S), NEW i \in 1 .. Len(s), NEW f \in S,
         NEW t, t = [s EXCEPT ![i] = f]
  PROVE  /\ t \in Seq(S)
         /\ Len(t) = Len(s)
         /\ \A k \in 1 .. Len(s) : t[k] = IF k = i THEN f ELSE s[k]
BY ExceptSeq

\* The bus takes a frame: nothing the sender knows of changes.
LEMMA TransmittedPreserves ==
  ASSUME IInv, Transmitted
  PROVE  IInv'
<1>1. /\ owed \in Seq(OwedFrames) /\ owed # <<>> /\ Len(owed) \in Nat
      /\ owed' = [owed EXCEPT ![1].sent = TRUE]
      /\ UNCHANGED <<senderVars, historyVars>>
  BY LenProperties DEF IInv, FrameTypes, Transmitted
<1> DEFINE e == [owed[1] EXCEPT !.sent = TRUE]
<1>2. 1 \in 1 .. Len(owed)
  BY <1>1, EmptySeq
<1>3. owed[1] \in OwedFrames
  BY <1>1, <1>2, ElementOfSeq
<1>4. /\ e \in OwedFrames
      /\ e.token = owed[1].token /\ e.no = owed[1].no /\ e.role = owed[1].role
  BY <1>3 DEF OwedFrames
<1>5. owed' = [owed EXCEPT ![1] = e]
  BY <1>1
<1> HIDE DEF e
<1>6. /\ owed' \in Seq(OwedFrames)
      /\ Len(owed') = Len(owed)
      /\ \A k \in 1 .. Len(owed) : owed'[k] = IF k = 1 THEN e ELSE owed[k]
  <2>1. owed \in Seq(OwedFrames) /\ e \in OwedFrames
    BY <1>1, <1>4
  <2>2. ASSUME NEW t, t = [owed EXCEPT ![1] = e]
        PROVE  /\ t \in Seq(OwedFrames)
               /\ Len(t) = Len(owed)
               /\ \A k \in 1 .. Len(owed) : t[k] = IF k = 1 THEN e ELSE owed[k]
    BY <1>2, <2>1, <2>2, ReplacedElement
  <2>3. QED
    BY <1>5, <2>2
<1>7. \A k \in 1 .. Len(owed) : /\ owed'[k].token = owed[k].token
                                /\ owed'[k].no = owed[k].no
                                /\ owed'[k].role = owed[k].role
  BY <1>4, <1>6
<1>8. UNCHANGED <<state, transfer, timers, pduBuffer, bytesSent, sequenceNumber,
                  accepted, ended, resets>>
  BY <1>1 DEF senderVars, transferVars, historyVars
<1>9. SenderTypes' /\ PduTypes' /\ FrameTypes' /\ WaitIsTimed' /\ EndsOnce'
  BY <1>6, <1>8 DEF IInv, SenderTypes, PduTypes, FrameTypes, WaitIsTimed, EndsOnce,
                    Byte, OwedFrames, Tokens, States
<1>10. FrameAges'
  <2>1. IdleCount' = IdleCount
    BY <1>8 DEF IdleCount
  <2>2. ASSUME NEW k \in 1 .. Len(owed')
        PROVE  /\ owed'[k].no \in 1 .. accepted'
               /\ Distance(owed'[k].token, transfer')
                    <= 2 * (accepted' - owed'[k].no) + IdleCount' + resets'
    <3>1. k \in 1 .. Len(owed)
      BY <1>6
    <3>2. /\ owed[k].no \in 1 .. accepted
          /\ Distance(owed[k].token, transfer)
               <= 2 * (accepted - owed[k].no) + IdleCount + resets
      BY <3>1 DEF IInv, FrameAges
    <3>3. owed'[k].token = owed[k].token /\ owed'[k].no = owed[k].no
      BY <1>7, <3>1
    <3>4. transfer' = transfer /\ accepted' = accepted /\ resets' = resets
      BY <1>8
    <3>5. QED
      BY <2>1, <3>2, <3>3, <3>4, Zenon
  <2>3. QED
    BY <2>2 DEF FrameAges
<1>11. CurrentFrames'
  BY <1>6, <1>7, <1>8 DEF IInv, CurrentFrames, CurrentFrame
<1>12. WatchedFrameIsOwed'
  <2> SUFFICES ASSUME "nAs" \in timers'
               PROVE  /\ owed' # <<>>
                      /\ owed'[Len(owed')].token = transfer'
                      /\ owed'[Len(owed')].no = accepted'
                      /\ owed'[Len(owed')].role \in {"single", "next", "last"}
    BY DEF WatchedFrameIsOwed, IsCurrent
  <2>1. /\ owed[Len(owed)].token = transfer
        /\ owed[Len(owed)].no = accepted
        /\ owed[Len(owed)].role \in {"single", "next", "last"}
    BY <1>8 DEF IInv, WatchedFrameIsOwed, IsCurrent
  <2>2. Len(owed) \in 1 .. Len(owed) /\ owed' # <<>>
    BY <1>1, <1>2, <1>6, EmptySeq
  <2>3. QED
    BY <1>6, <1>7, <1>8, <2>1, <2>2
<1>13. QED
  BY <1>9, <1>10, <1>11, <1>12 DEF IInv

\* What is true of a frame whose completion comes while its token is current.
LEMMA CurrentCompletion ==
  ASSUME IInv, NEW i \in 1 .. Len(owed), owed[i].token = transfer
  PROVE  /\ state # "idle"
         /\ owed[i].no = accepted
         /\ owed[i].role \in Watched \cup Unwatched
         /\ owed[i].role \in Watched => i = Len(owed) /\ timers = {"nAs"}
         /\ owed[i].role \in {"next", "last"} => state = "sendingCf"
         /\ owed[i].role = "last" => bytesSent = Len(pduBuffer)
<1>1. owed[i] \in OwedFrames
  BY ElementOfSeq DEF IInv, FrameTypes
<1>2. CurrentFrame(i)
  BY DEF IInv, CurrentFrames
<1>3. WaitIsTimed /\ state \in States
  BY DEF IInv, SenderTypes
<1>4. QED
  BY <1>1, <1>2, <1>3 DEF CurrentFrame, WaitIsTimed, States, OwedFrames

\* Without the newest frame no frame is watched.
LEMMA NewestRemoved ==
  ASSUME IInv, NEW i \in 1 .. Len(owed), i = Len(owed)
  PROVE  NoneWatched(RemoveAt(owed, i))
<1>1. owed \in Seq(OwedFrames) /\ Len(owed) \in Nat
  BY LenProperties DEF IInv, FrameTypes
<1>2. /\ Len(RemoveAt(owed, i)) = Len(owed) - 1
      /\ \A k \in 1 .. Len(owed) - 1 :
           RemoveAt(owed, i)[k] = IF k < i THEN owed[k] ELSE owed[k + 1]
  BY <1>1, RemoveAtProperties
<1>3. ASSUME NEW k \in 1 .. Len(owed) - 1, RemoveAt(owed, i)[k].token = transfer
      PROVE  RemoveAt(owed, i)[k].role \in Unwatched
  <2>1. k \in 1 .. Len(owed) /\ k < i /\ k # Len(owed)
    BY <1>1
  <2>2. RemoveAt(owed, i)[k] = owed[k]
    BY <1>2, <2>1
  <2>3. owed[k].token = transfer
    BY <1>3, <2>2
  <2>4. owed[k].role \in Watched \cup Unwatched /\ owed[k].role \notin Watched
    BY <2>1, <2>3, CurrentCompletion
  <2>5. QED
    BY <2>2, <2>4
<1>4. QED
  BY <1>2, <1>3 DEF NoneWatched

\* The completion of a frame that nobody watches changes only what is owed.
LEMMA UnwatchedPreserves ==
  ASSUME IInv, NEW i \in 1 .. Len(owed), owed' = RemoveAt(owed, i),
         owed[i].token = transfer => owed[i].role \in Unwatched,
         UNCHANGED <<senderVars, accepted, ended, resets>>
  PROVE  IInv'
<1>1. owed \in Seq(OwedFrames) /\ Len(owed) \in Nat
  BY LenProperties DEF IInv, FrameTypes
<1>2. /\ owed' \in Seq(OwedFrames)
      /\ Len(owed') = Len(owed) - 1
      /\ \A k \in 1 .. Len(owed) - 1 : owed'[k] = IF k < i THEN owed[k] ELSE owed[k + 1]
  <2>1. /\ RemoveAt(owed, i) \in Seq(OwedFrames)
        /\ Len(RemoveAt(owed, i)) = Len(owed) - 1
        /\ \A k \in 1 .. Len(owed) - 1 :
             RemoveAt(owed, i)[k] = IF k < i THEN owed[k] ELSE owed[k + 1]
    BY <1>1, RemoveAtProperties
  <2>2. QED
    BY <2>1
<1>3. UNCHANGED <<state, transfer, timers, pduBuffer, bytesSent, sequenceNumber,
                  accepted, ended, resets>>
  BY DEF senderVars, transferVars
<1>4. SenderTypes' /\ PduTypes' /\ FrameTypes' /\ WaitIsTimed' /\ EndsOnce'
  BY <1>2, <1>3 DEF IInv, SenderTypes, PduTypes, FrameTypes, WaitIsTimed, EndsOnce,
                    Byte, OwedFrames, Tokens, States
<1>5. IdleCount' = IdleCount
  BY <1>3 DEF IdleCount
<1>6. ASSUME NEW k \in 1 .. Len(owed')
      PROVE  /\ owed'[k].no \in 1 .. accepted'
             /\ Distance(owed'[k].token, transfer')
                  <= 2 * (accepted' - owed'[k].no) + IdleCount' + resets'
             /\ owed'[k].token = transfer' => CurrentFrame(k)'
  <2>1. PICK j \in 1 .. Len(owed) : /\ j = IF k < i THEN k ELSE k + 1
                                    /\ owed'[k] = owed[j]
    BY <1>1, <1>2
  <2>2. /\ owed[j].no \in 1 .. accepted
        /\ Distance(owed[j].token, transfer)
             <= 2 * (accepted - owed[j].no) + IdleCount + resets
    BY DEF IInv, FrameAges
  <2>3. transfer' = transfer /\ accepted' = accepted /\ resets' = resets
    BY <1>3
  <2>4. /\ owed'[k].no \in 1 .. accepted'
        /\ Distance(owed'[k].token, transfer')
             <= 2 * (accepted' - owed'[k].no) + IdleCount' + resets'
    BY <1>5, <2>1, <2>2, <2>3, Zenon
  <2>5. ASSUME owed'[k].token = transfer'
        PROVE  CurrentFrame(k)'
    <3>1. CurrentFrame(j)
      BY <2>1, <2>3, <2>5 DEF IInv, CurrentFrames
    <3>2. j = Len(owed) => k = Len(owed')
      BY <1>1, <1>2, <2>1
    <3>3. QED
      BY <1>3, <2>1, <3>1, <3>2 DEF CurrentFrame
  <2>6. QED
    BY <2>4, <2>5
<1>7. FrameAges' /\ CurrentFrames'
  <2>1. FrameAges'
    BY <1>6 DEF FrameAges
  <2>2. CurrentFrames'
    BY <1>6 DEF CurrentFrames
  <2>3. QED
    BY <2>1, <2>2
<1>8. WatchedFrameIsOwed'
  <2> SUFFICES ASSUME "nAs" \in timers'
               PROVE  /\ owed' # <<>>
                      /\ owed'[Len(owed')].token = transfer'
                      /\ owed'[Len(owed')].no = accepted'
                      /\ owed'[Len(owed')].role \in {"single", "next", "last"}
    BY DEF WatchedFrameIsOwed, IsCurrent
  <2>1. /\ owed[Len(owed)].token = transfer
        /\ owed[Len(owed)].no = accepted
        /\ owed[Len(owed)].role \in {"single", "next", "last"}
    BY <1>3 DEF IInv, WatchedFrameIsOwed, IsCurrent
  <2>2. i # Len(owed)
    BY <2>1 DEF Unwatched
  <2>3. Len(owed) - 1 \in 1 .. Len(owed) - 1 /\ ~(Len(owed) - 1 < i)
    BY <1>1, <2>2
  <2>4. owed'[Len(owed')] = owed[Len(owed)]
    BY <1>1, <1>2, <2>3
  <2>5. owed' # <<>>
    BY <1>2, <2>3, EmptySeq
  <2>6. QED
    BY <1>3, <2>1, <2>4, <2>5
<1>9. QED
  BY <1>4, <1>7, <1>8 DEF IInv

\* What the completion of a frame of the current transfer does, by its outcome.
LEMMA CompletionCases ==
  ASSUME IInv, NEW i \in 1 .. Len(owed), owed[i].token = transfer, NEW success \in BOOLEAN,
         Completion(i, success)
  PROVE  /\ UNCHANGED <<accepted, resets>>
         /\ \/ /\ owed' = RemoveAt(owed, i) /\ UNCHANGED <<senderVars, ended, outcome>>
               /\ owed[i].role \in Unwatched
            \/ /\ owed' = RemoveAt(owed, i) /\ UNCHANGED transferVars
               /\ Abort(transfer, "sendFailed")
            \/ /\ owed' = RemoveAt(owed, i) /\ UNCHANGED transferVars
               /\ Complete
               /\ success /\ owed[i].role \in {"single", "last"}
            \/ /\ ScheduleNextCf(RemoveAt(owed, i), timers \ {"nAs"}, blockSize,
                                 blocksRemaining, stMinByte)
               /\ owed[i].role = "next"
<1>1. CompletionCounts(owed[i], success, RemoveAt(owed, i)) /\ UNCHANGED resets
  BY DEF Completion, IsCurrent
<1>2. owed[i].role \in Watched \cup Unwatched /\ (owed[i].role = "next" => state = "sendingCf")
  BY CurrentCompletion
<1>3. CASE owed[i].role \in {"first", "blockEnd"}
  BY <1>1, <1>3 DEF CompletionCounts, Unwatched
<1>4. CASE owed[i].role \in {"single", "next", "last"} /\ ~success
  BY <1>1, <1>4 DEF CompletionCounts
<1>5. CASE owed[i].role \in {"single", "last"} /\ success
  BY <1>1, <1>5 DEF CompletionCounts
<1>6. CASE owed[i].role = "next" /\ success
  <2>1. ScheduleNextCf(RemoveAt(owed, i), timers \ {"nAs"}, blockSize, blocksRemaining,
                       stMinByte)
    BY <1>1, <1>2, <1>6 DEF CompletionCounts
  <2>2. UNCHANGED accepted
    BY <2>1 DEF ScheduleNextCf, SendNextConsecutiveFrame
  <2>3. QED
    BY <1>1, <1>6, <2>1, <2>2
<1>7. QED
  BY <1>2, <1>3, <1>4, <1>5, <1>6 DEF Watched, Unwatched

LEMMA CompletionPreserves ==
  ASSUME SenderAssumption, IInv, NEW w, Bounded(w), QueuedBriefly(w),
         NEW i \in 1 .. Len(owed), NEW success \in BOOLEAN, Completion(i, success)
  PROVE  IInv'
<1>1. KeptFrom(RemoveAt(owed, i))
  BY RemovedIsKept
<1>2. CASE owed[i].token # transfer
  <2>1. /\ owed' = RemoveAt(owed, i)
        /\ UNCHANGED <<senderVars, accepted, ended, resets>>
    BY <1>2 DEF Completion, IsCurrent
  <2>2. QED
    BY <1>2, <2>1, UnwatchedPreserves
<1>3. CASE owed[i].token = transfer
  <2>1. /\ state # "idle"
        /\ owed[i].role \in Watched => i = Len(owed) /\ timers = {"nAs"}
    BY <1>3, CurrentCompletion
  <2>2. UNCHANGED <<accepted, resets>>
    BY <1>3, CompletionCases
  <2>3. CASE /\ owed' = RemoveAt(owed, i) /\ UNCHANGED <<senderVars, ended, outcome>>
             /\ owed[i].role \in Unwatched
    BY <2>2, <2>3, UnwatchedPreserves
  <2>4. CASE /\ owed' = RemoveAt(owed, i) /\ UNCHANGED transferVars
             /\ Abort(transfer, "sendFailed")
    <3>1. KeptFrom(owed') /\ PduTypes'
      <4>1. PduTypes'
        BY <2>4 DEF IInv, PduTypes, transferVars, Byte
      <4>2. QED
        BY <1>1, <2>4, <4>1
    <3>2. QED
      BY <2>1, <2>2, <2>4, <3>1, AbortPreserves
  <2>5. CASE /\ owed' = RemoveAt(owed, i) /\ UNCHANGED transferVars
             /\ Complete
             /\ success /\ owed[i].role \in {"single", "last"}
    <3>1. timers = {"nAs"}
      BY <2>1, <2>5 DEF Watched
    <3>2. /\ state' = "idle" /\ timers' = {} /\ transfer' = Next1(transfer)
          /\ ended' = ended + 1
      BY <2>5, <3>1 DEF Complete, Ends
    <3>3. KeptFrom(owed') /\ PduTypes'
      <4>1. PduTypes'
        BY <2>5 DEF IInv, PduTypes, transferVars, Byte
      <4>2. QED
        BY <1>1, <2>5, <4>1
    <3>4. ended' = accepted' /\ resets' \in 0 .. MaxResets
      BY <2>1, <2>2, <3>2 DEF IInv, EndsOnce, SenderTypes
    <3>5. /\ transfer' = Next1(transfer) /\ accepted' = accepted
          /\ (state # "idle" /\ resets' = resets) \/ resets' = resets + 1
      BY <2>1, <2>2, <3>2
    <3>6. QED
      BY <3>2, <3>3, <3>4, <3>5, EndPreserves
  <2>6. CASE /\ ScheduleNextCf(RemoveAt(owed, i), timers \ {"nAs"}, blockSize,
                               blocksRemaining, stMinByte)
             /\ owed[i].role = "next"
    <3>1. i = Len(owed) /\ timers \ {"nAs"} = {}
      BY <2>1, <2>6 DEF Watched
    <3>2. NoneWatched(RemoveAt(owed, i))
      BY <3>1, NewestRemoved
    <3>3. QED
      BY <1>1, <2>1, <2>2, <2>6, <3>1, <3>2, SchedulePreserves
  <2>7. QED
    BY <1>3, <2>3, <2>4, <2>5, <2>6, CompletionCases
<1>4. QED
  BY <1>2, <1>3

LEMMA TimersPreserve ==
  ASSUME SenderAssumption, IInv, NEW w, Bounded(w), QueuedBriefly(w),
         NBsTimeout \/ NAsTimeout \/ StMinTimeout
  PROVE  IInv'
<1>1. WaitIsTimed /\ state \in States
  BY DEF IInv, SenderTypes
<1>2. state # "idle"
  BY <1>1 DEF NBsTimeout, NAsTimeout, StMinTimeout, WaitIsTimed
<1>3. CASE NBsTimeout \/ NAsTimeout
  <2>1. PICK reason : /\ Abort(transfer, reason)
                      /\ UNCHANGED <<transferVars, owed, accepted, resets>>
    BY <1>3 DEF NBsTimeout, NAsTimeout
  <2>2. KeptFrom(owed') /\ PduTypes'
    <3>1. PduTypes'
      BY <2>1 DEF IInv, PduTypes, transferVars, Byte
    <3>2. KeptFrom(owed)
      BY OwedIsKept
    <3>3. QED
      BY <2>1, <3>1, <3>2 DEF KeptFrom, OwedFrames, Tokens
  <2>3. QED
    BY <1>2, <2>1, <2>2, AbortPreserves
<1>4. CASE StMinTimeout
  <2>1. timers = {"stMin"}
    BY <1>1, <1>4 DEF StMinTimeout, WaitIsTimed, States
  <2>2. timers \ {"stMin"} = {} /\ KeptFrom(owed) /\ NoneWatched(owed)
    BY <2>1, OwedIsKept, NothingWatched
  <2>3. /\ SendNextConsecutiveFrame(owed, timers \ {"stMin"}, blockSize, blocksRemaining)
        /\ UNCHANGED resets
    BY <1>4 DEF StMinTimeout
  <2>4. QED
    BY <1>2, <2>2, <2>3, NextFramePreserves
<1>5. QED
  BY <1>3, <1>4

LEMMA ResetPreserves ==
  ASSUME SenderAssumption, IInv, NEW w, Bounded(w), QueuedBriefly(w), Reset
  PROVE  IInv'
<1>1. /\ state' = "idle" /\ timers' = {} /\ transfer' = Next1(transfer)
      /\ resets < MaxResets /\ resets' = resets + 1
      /\ UNCHANGED <<transferVars, owed, accepted>>
  BY DEF Reset, Clear
<1>2. /\ state = "idle" => ended' = ended
      /\ state # "idle" => ended' = ended + 1
  BY DEF Reset, Ends
<1>3. ended' = accepted'
  BY <1>1, <1>2 DEF IInv, EndsOnce, SenderTypes
<1>4. resets' \in 0 .. MaxResets
  BY <1>1 DEF IInv, SenderTypes, SenderAssumption
<1>5. PduTypes'
  BY <1>1 DEF IInv, PduTypes, transferVars, Byte
<1>6. KeptFrom(owed')
  <2>1. KeptFrom(owed)
    BY OwedIsKept
  <2>2. QED
    BY <1>1, <2>1 DEF KeptFrom, OwedFrames, Tokens
<1>7. /\ transfer' = Next1(transfer) /\ accepted' = accepted
      /\ (state # "idle" /\ resets' = resets) \/ resets' = resets + 1
  BY <1>1
<1>8. QED
  BY <1>1, <1>3, <1>4, <1>5, <1>6, <1>7, EndPreserves

LEMMA UnchangedPreserves ==
  ASSUME IInv, UNCHANGED vars
  PROVE  IInv'
<1>1. UNCHANGED <<state, transfer, timers, pduBuffer, bytesSent, sequenceNumber, owed,
                  accepted, ended, resets>>
  BY DEF vars, senderVars, transferVars, historyVars
<1>2. SenderTypes' /\ PduTypes' /\ FrameTypes' /\ WaitIsTimed' /\ EndsOnce'
  BY <1>1 DEF IInv, SenderTypes, PduTypes, FrameTypes, WaitIsTimed, EndsOnce,
              Byte, OwedFrames, Tokens, States
<1>3. FrameAges'
  BY <1>1 DEF IInv, FrameAges, IdleCount, Distance
<1>4. CurrentFrames' /\ WatchedFrameIsOwed'
  BY <1>1 DEF IInv, CurrentFrames, CurrentFrame, WatchedFrameIsOwed, IsCurrent
<1>5. QED
  BY <1>2, <1>3, <1>4 DEF IInv

LEMMA InitEstablishes ==
  ASSUME SenderAssumption, Init
  PROVE  IInv
<1>1. Len(<<>>) = 0 /\ <<>> \in Seq(Byte) /\ <<>> \in Seq(OwedFrames)
  BY EmptySeq
<1>2. SenderTypes /\ PduTypes /\ FrameTypes
  BY <1>1 DEF Init, SenderAssumption, SenderTypes, PduTypes, FrameTypes, States, Tokens
<1>3. WaitIsTimed /\ EndsOnce /\ WatchedFrameIsOwed
  BY DEF Init, WaitIsTimed, EndsOnce, WatchedFrameIsOwed
<1>4. 1 .. Len(owed) = {}
  BY <1>1 DEF Init
<1>5. FrameAges /\ CurrentFrames
  BY <1>4 DEF FrameAges, CurrentFrames
<1>6. QED
  BY <1>2, <1>3, <1>5 DEF IInv

LEMMA StepPreserves ==
  ASSUME SenderAssumption, IInv, NEW w, Bounded(w), QueuedBriefly(w), [Next]_vars
  PROVE  IInv'
<1>1. DOMAIN owed = 1 .. Len(owed)
  BY LenProperties DEF IInv, FrameTypes
<1>2. CASE \E pdu \in Pdus : Send(pdu)
  BY <1>2, SendPreserves
<1>3. CASE \E frame \in FlowControls : FlowControl(frame)
  BY <1>3, FlowControlPreserves
<1>4. CASE Transmitted
  BY <1>4, TransmittedPreserves
<1>5. CASE \E i \in DOMAIN owed, success \in BOOLEAN : Completion(i, success)
  BY <1>1, <1>5, CompletionPreserves
<1>6. CASE NBsTimeout \/ NAsTimeout \/ StMinTimeout
  BY <1>6, TimersPreserve
<1>7. CASE Reset
  BY <1>7, ResetPreserves
<1>8. CASE UNCHANGED vars
  BY <1>8, UnchangedPreserves
<1>9. QED
  BY <1>2, <1>3, <1>4, <1>5, <1>6, <1>7, <1>8 DEF Next

-----------------------------------------------------------------------------
(* What completions may not do *)

\* A hand-down loses no frame and reports no success.
LEMMA HandDownEffects ==
  ASSUME NEW r \in Seq(OwedFrames), NEW running, NEW bytes, NEW token, NEW no, NEW role,
         NEW newState, NEW timer,
         HandDown(r, running, bytes, token, no, role, newState, timer)
  PROVE  /\ owed' = r \/ Len(owed') = Len(r) + 1
         /\ ended' = ended \/ outcome' = "sendFailed"
<1>1. \A f : Len(Append(r, f)) = Len(r) + 1
  <2> SUFFICES ASSUME NEW f PROVE Len(Append(r, f)) = Len(r) + 1
    OBVIOUS
  <2>1. r \in Seq(OwedFrames \cup {f}) /\ f \in OwedFrames \cup {f}
    BY SeqMonotonic, Zenon
  <2>2. QED
    BY <2>1, AppendProperties
<1>2. QED
  BY <1>1 DEF HandDown, Abort, Ends

LEMMA NextFrameEffects ==
  ASSUME NEW r \in Seq(OwedFrames), NEW running, NEW size, NEW remaining,
         SendNextConsecutiveFrame(r, running, size, remaining)
  PROVE  /\ owed' = r \/ Len(owed') = Len(r) + 1
         /\ ended' = ended \/ outcome' = "sendFailed"
<1>1. \E bytes, token, no, role, newState, timer :
        HandDown(r, running, bytes, token, no, role, newState, timer)
  BY Zenon DEF SendNextConsecutiveFrame
<1>2. QED
  BY <1>1, HandDownEffects

LEMMA ScheduleEffects ==
  ASSUME NEW r \in Seq(OwedFrames), NEW running, NEW size, NEW remaining, NEW stMin,
         ScheduleNextCf(r, running, size, remaining, stMin)
  PROVE  /\ owed' = r \/ Len(owed') = Len(r) + 1
         /\ ended' = ended \/ outcome' = "sendFailed"
<1>1. CASE SendNextConsecutiveFrame(r, running, size, remaining)
  BY <1>1, NextFrameEffects
<1>2. CASE owed' = r /\ UNCHANGED ended
  BY <1>2
<1>3. QED
  BY <1>1, <1>2 DEF ScheduleNextCf

\* Only completions take frames away, and only they report success.
LEMMA OtherSteps ==
  ASSUME IInv, Next, ~(\E i \in 1 .. Len(owed), success \in BOOLEAN : Completion(i, success))
  PROVE  /\ Len(owed') \in Nat /\ Len(owed') >= Len(owed)
         /\ ended' = ended \/ outcome' # "done"
<1>1. owed \in Seq(OwedFrames) /\ Len(owed) \in Nat /\ DOMAIN owed = 1 .. Len(owed)
  BY LenProperties DEF IInv, FrameTypes
<1>2. CASE \E pdu \in Pdus : Send(pdu)
  <2>1. \E pdu, bytes, token, no, role, newState, timer :
          HandDown(owed, timers, bytes, token, no, role, newState, timer)
    BY <1>2, Zenon DEF Send
  <2>2. /\ owed' = owed \/ Len(owed') = Len(owed) + 1
        /\ ended' = ended \/ outcome' = "sendFailed"
    BY <1>1, <2>1, HandDownEffects
  <2>3. QED
    BY <1>1, <2>2
<1>3. CASE \E frame \in FlowControls : FlowControl(frame)
  <2>1. \/ owed' = owed /\ (ended' = ended \/ outcome' \in AbortReason)
        \/ \E running, size, remaining, stMin :
             ScheduleNextCf(owed, running, size, remaining, stMin)
    BY <1>3 DEF FlowControl, Abort, Ends, AbortReason
  <2>2. /\ owed' = owed \/ Len(owed') = Len(owed) + 1
        /\ ended' = ended \/ outcome' \in AbortReason
    <3>1. CASE \E running, size, remaining, stMin :
                 ScheduleNextCf(owed, running, size, remaining, stMin)
      BY <1>1, <3>1, ScheduleEffects DEF AbortReason
    <3>2. QED
      BY <2>1, <3>1
  <2>3. QED
    BY <1>1, <2>2 DEF AbortReason
<1>4. CASE Transmitted
  <2>1. Len(owed') = Len(owed) /\ ended' = ended
    <3>1. owed' = [owed EXCEPT ![1] = [owed[1] EXCEPT !.sent = TRUE]] /\ ended' = ended
      BY <1>4 DEF Transmitted, historyVars
    <3>2. owed # <<>>
      BY <1>4 DEF Transmitted
    <3>3. 1 \in 1 .. Len(owed)
      BY <1>1, <3>2, EmptySeq
    <3>4. owed[1] \in OwedFrames
      BY <1>1, <3>3, ElementOfSeq
    <3>5. [owed[1] EXCEPT !.sent = TRUE] \in OwedFrames
      BY <3>4 DEF OwedFrames
    <3>6. ASSUME NEW t, t = [owed EXCEPT ![1] = [owed[1] EXCEPT !.sent = TRUE]]
          PROVE  Len(t) = Len(owed)
      BY <1>1, <3>3, <3>5, <3>6, ReplacedElement
    <3>7. QED
      BY <3>1, <3>6
  <2>2. QED
    BY <1>1, <2>1
<1>5. CASE NBsTimeout \/ NAsTimeout \/ Reset
  <2>1. owed' = owed /\ (ended' = ended \/ outcome' # "done")
    BY <1>5 DEF NBsTimeout, NAsTimeout, Reset, Abort, Ends
  <2>2. QED
    BY <1>1, <2>1
<1>6. CASE StMinTimeout
  <2>1. /\ owed' = owed \/ Len(owed') = Len(owed) + 1
        /\ ended' = ended \/ outcome' = "sendFailed"
    BY <1>1, <1>6, NextFrameEffects DEF StMinTimeout
  <2>2. QED
    BY <1>1, <2>1
<1>7. QED
  BY <1>1, <1>2, <1>3, <1>4, <1>5, <1>6 DEF Next

LEMMA StaleCompletion ==
  ASSUME IInv, [Next]_vars, NEW i \in DOMAIN owed,
         owed' = RemoveAt(owed, i), owed[i].no < accepted \/ ended = accepted
  PROVE  UNCHANGED <<senderVars, ended, outcome>>
<1>1. owed \in Seq(OwedFrames) /\ Len(owed) \in Nat /\ i \in 1 .. Len(owed)
  BY LenProperties DEF IInv, FrameTypes
<1>2. Len(owed') = Len(owed) - 1
  BY <1>1, RemoveAtProperties
<1>3. CASE UNCHANGED vars
  BY <1>3 DEF vars, historyVars
<1>4. CASE \E j \in 1 .. Len(owed), success \in BOOLEAN : Completion(j, success)
  <2>1. PICK j \in 1 .. Len(owed), success \in BOOLEAN : Completion(j, success)
    BY <1>4
  <2>2. CASE owed[j].token # transfer
    BY <2>1, <2>2 DEF Completion, IsCurrent
  <2>3. CASE owed[j].token = transfer
    <3>1. owed[j].no = accepted /\ state # "idle"
      BY <2>3, CurrentCompletion
    <3>2. ended # accepted
      BY <3>1 DEF IInv, EndsOnce, SenderTypes
    <3>3. owed[j].no < accepted => FALSE
      BY <3>1 DEF IInv, SenderTypes
    <3>4. owed[i] # owed[j]
      BY <3>2, <3>3
    <3>5. owed' # RemoveAt(owed, j)
      <4>1. RemoveAt(owed, i) # RemoveAt(owed, j)
        BY <1>1, <3>4, RemovedElement
      <4>2. QED
        BY <4>1
    <3>6. ScheduleNextCf(RemoveAt(owed, j), timers \ {"nAs"}, blockSize,
                         blocksRemaining, stMinByte)
      BY <2>1, <2>3, <3>5, CompletionCases
    <3>7. /\ RemoveAt(owed, j) \in Seq(OwedFrames)
          /\ Len(RemoveAt(owed, j)) = Len(owed) - 1
      BY <1>1, RemoveAtProperties
    <3>8. Len(owed') = (Len(owed) - 1) + 1
      BY <3>5, <3>6, <3>7, ScheduleEffects
    <3>9. QED
      BY <1>1, <1>2, <3>8
  <2>4. QED
    BY <2>2, <2>3
<1>5. CASE Next /\ ~(\E j \in 1 .. Len(owed), success \in BOOLEAN : Completion(j, success))
  <2>1. Len(owed') >= Len(owed)
    BY <1>5, OtherSteps
  <2>2. QED
    BY <1>1, <1>2, <2>1
<1>6. QED
  BY <1>3, <1>4, <1>5

LEMMA DoneIsSent ==
  ASSUME IInv, [Next]_vars, outcome' = "done", ended' # ended
  PROVE  \E i \in DOMAIN owed :
           /\ owed[i].no = accepted /\ owed[i].sent
           /\ owed[i].role \in {"single", "last"}
           /\ owed[i].role = "last" => bytesSent = Len(pduBuffer)
<1>1. owed \in Seq(OwedFrames) /\ Len(owed) \in Nat /\ DOMAIN owed = 1 .. Len(owed)
  BY LenProperties DEF IInv, FrameTypes
<1>2. CASE UNCHANGED vars
  BY <1>2 DEF vars, historyVars
<1>3. CASE \E j \in 1 .. Len(owed), success \in BOOLEAN : Completion(j, success)
  <2>1. PICK j \in 1 .. Len(owed), success \in BOOLEAN : Completion(j, success)
    BY <1>3
  <2>2. owed[j].token = transfer
    BY <2>1 DEF Completion, IsCurrent
  <2>3. /\ owed[j].no = accepted
        /\ owed[j].role = "last" => bytesSent = Len(pduBuffer)
    BY <2>2, CurrentCompletion
  <2>4. success => owed[j].sent
    BY <2>1 DEF Completion, MayComplete
  <2>5. RemoveAt(owed, j) \in Seq(OwedFrames)
    BY <1>1, RemoveAtProperties
  <2>6. ~ScheduleNextCf(RemoveAt(owed, j), timers \ {"nAs"}, blockSize,
                        blocksRemaining, stMinByte)
    BY <2>5, ScheduleEffects
  <2>7. success /\ owed[j].role \in {"single", "last"}
    BY <2>1, <2>2, <2>6, CompletionCases DEF Abort, Ends
  <2>8. QED
    BY <1>1, <2>3, <2>4, <2>7
<1>4. CASE Next /\ ~(\E j \in 1 .. Len(owed), success \in BOOLEAN : Completion(j, success))
  BY <1>4, OtherSteps
<1>5. QED
  BY <1>2, <1>3, <1>4

-----------------------------------------------------------------------------
(* Short lives *)

\* The number of transfers bounds how many follow a frame.
LEMMA ShortIsBrief ==
  ASSUME SenderAssumption, IInv, accepted <= MaxTransfers
  PROVE  QueuedBriefly(MaxTransfers)
<1>1. accepted \in Nat /\ MaxTransfers \in Nat
  BY DEF IInv, SenderTypes, SenderAssumption
<1>2. DOMAIN owed = 1 .. Len(owed)
  BY LenProperties DEF IInv, FrameTypes
<1>3. ASSUME NEW i \in 1 .. Len(owed)
      PROVE  accepted - owed[i].no <= MaxTransfers
  <2>1. owed[i].no \in 1 .. accepted
    BY DEF IInv, FrameAges
  <2>2. QED
    BY <1>1, <2>1
<1>4. QED
  BY <1>2, <1>3 DEF QueuedBriefly

LEMMA ShortStaysShort ==
  ASSUME SenderAssumption, IInv, accepted <= MaxTransfers, [Next]_vars
  PROVE  accepted' <= MaxTransfers
<1>1. accepted \in Nat /\ MaxTransfers \in Nat
  BY DEF IInv, SenderTypes, SenderAssumption
<1>2. CASE \E pdu \in Pdus : Send(pdu)
  BY <1>1, <1>2 DEF Send
<1>3. CASE accepted' = accepted
  BY <1>3
<1>4. CASE \E i \in DOMAIN owed, success \in BOOLEAN : Completion(i, success)
  <2>1. PICK i \in 1 .. Len(owed), success \in BOOLEAN : Completion(i, success)
    BY <1>4, LenProperties DEF IInv, FrameTypes
  <2>2. accepted' = accepted
    BY <2>1, CompletionCases DEF Completion, IsCurrent
  <2>3. QED
    BY <2>2
<1>5. CASE StMinTimeout
  BY <1>5 DEF StMinTimeout, SendNextConsecutiveFrame
<1>6. QED
  BY <1>2, <1>3, <1>4, <1>5
     DEF Next, FlowControl, Transmitted, NBsTimeout, NAsTimeout, Reset,
         vars, historyVars

-----------------------------------------------------------------------------
(* What the frames handed down carry *)

\* The bytes of the PDU that are sent with a further frame.
SentWithNext == IF bytesSent + 7 < Len(pduBuffer) THEN bytesSent + 7 ELSE Len(pduBuffer)

\* The consecutive frame that comes next is refused, or follows the frames rest
\* in a block of `size' frames, of which `remaining' are left.
HandsNextFrame(rest, size, remaining) ==
  /\ UNCHANGED <<pduBuffer, accepted>>
  /\ bytesSent' = SentWithNext
  /\ \/ owed' = rest /\ state' = "idle"
     \/ \E e \in OwedFrames :
          /\ owed' = Append(rest, e)
          /\ e.no = accepted /\ ~e.sent
          /\ e.bytes = EncodeConsecutiveFrame(sequenceNumber,
                         SubSeq(pduBuffer, bytesSent + 1, Len(pduBuffer)))
          /\ \/ /\ e.role = "blockEnd" /\ state' = "waitingForFc"
                /\ bytesSent' < Len(pduBuffer) /\ size # 0
             \/ /\ e.role \in {"next", "last"} /\ state' = "sendingCf"
                /\ bytesSent' < Len(pduBuffer) =>
                     /\ blockSize' = size
                     /\ size # 0 /\ remaining \in Nat => /\ remaining > 1
                                                         /\ blocksRemaining' = remaining - 1

\* So, or it waits for the separation time.
HandsNextFrameOrWaits(rest, size, remaining) ==
  \/ HandsNextFrame(rest, size, remaining)
  \/ /\ owed' = rest /\ state' = "sendingCf"
     /\ blockSize' = size /\ blocksRemaining' = remaining
     /\ UNCHANGED <<pduBuffer, bytesSent, accepted>>

\* The frames rest are left and the transfer goes on as it was, or ends.
GoesOnOrEnds(rest) ==
  /\ owed' = rest
  /\ state' \in {state, "idle"}
  /\ UNCHANGED <<pduBuffer, bytesSent, accepted, blockSize, blocksRemaining>>

LEMMA ConsecutiveFrameLength ==
  ASSUME NEW sn \in Nat, NEW rest \in Seq(Byte)
  PROVE  /\ Len(EncodeConsecutiveFrame(sn, rest)) = 1 + (IF Len(rest) < 7 THEN Len(rest) ELSE 7)
         /\ EncodeConsecutiveFrame(sn, rest)
              = <<32 + (sn % 16)>> \o SubSeq(rest, 1, IF Len(rest) < 7 THEN Len(rest) ELSE 7)
<1> DEFINE n == IF Len(rest) < 7 THEN Len(rest) ELSE 7
           header == <<32 + (sn % snModulus)>>
           data == SubSeq(rest, 1, n)
<1>1. Len(rest) \in Nat
  BY LenProperties
<1>2. n \in 0 .. Len(rest) /\ n <= 7
  BY <1>1
<1>3. data \in Seq(Byte) /\ Len(data) = n
  BY <1>2, FrontOfPdu
<1>4. 32 + (sn % snModulus) \in Byte
  BY BytesOfNumbers, Zenon DEF snModulus
<1>5. header \in Seq(Byte) /\ Len(header) = 1
  BY <1>4
<1>6. EncodeConsecutiveFrame(sn, rest) = header \o data
  BY DEF EncodeConsecutiveFrame, cfMaxDataBytes
<1>7. header = <<32 + (sn % 16)>>
  BY DEF snModulus
<1> HIDE DEF n, header, data
<1>8. Len(header) + Len(data) <= 8
  BY <1>1, <1>2, <1>3, <1>5
<1>9. Len(header \o data) = 1 + n
  BY <1>3, <1>5, <1>8, HeaderAndData
<1>10. QED
  BY <1>6, <1>7, <1>9 DEF n, data

LEMMA HandDownCarries ==
  ASSUME SenderAssumption, IInv, NEW r \in Seq(OwedFrames), NEW running,
         NEW bytes \in CanFrames, NEW token \in Tokens,
         NEW no \in Nat, NEW role \in Watched \cup Unwatched, NEW newState, NEW timer,
         HandDown(r, running, bytes, token, no, role, newState, timer)
  PROVE  \/ owed' = r /\ state' = "idle"
         \/ \E e \in OwedFrames :
              /\ owed' = Append(r, e) /\ state' = newState
              /\ e.no = no /\ ~e.sent /\ e.bytes = bytes /\ e.role = role
<1>1. Frame(bytes, token, role, no) \in OwedFrames
  BY DEF Frame, OwedFrames
<1>2. QED
  BY <1>1 DEF HandDown, Abort, Clear, Frame

LEMMA NextFrameCarries ==
  ASSUME SenderAssumption, IInv, NEW r \in Seq(OwedFrames), NEW running, NEW size, NEW remaining,
         SendNextConsecutiveFrame(r, running, size, remaining)
  PROVE  HandsNextFrame(r, size, remaining)
<1> DEFINE rest == SubSeq(pduBuffer, bytesSent + 1, Len(pduBuffer))
           frame == EncodeConsecutiveFrame(sequenceNumber, rest)
           sent == bytesSent + Len(frame) - 1
           allSent == sent >= Len(pduBuffer)
           counted == IF ~allSent /\ size # 0 /\ remaining > 0 THEN remaining - 1 ELSE remaining
           blockEnd == ~allSent /\ size # 0 /\ counted = 0
           role == IF blockEnd THEN "blockEnd" ELSE IF allSent THEN "last" ELSE "next"
           newState == IF blockEnd THEN "waitingForFc" ELSE "sendingCf"
           timer == IF blockEnd THEN "nBs" ELSE "nAs"
<1>1. /\ pduBuffer \in Seq(Byte) /\ bytesSent \in 0 .. Len(pduBuffer) /\ sequenceNumber \in Nat
      /\ Len(pduBuffer) \in Nat /\ transfer \in Tokens /\ accepted \in Nat
  BY LenProperties DEF IInv, PduTypes, SenderTypes
<1>2. rest \in Seq(Byte) /\ Len(rest) = Len(pduBuffer) - bytesSent
  BY <1>1, RestOfPdu
<1>3. /\ frame \in CanFrames
      /\ Len(frame) = 1 + (IF Len(rest) < 7 THEN Len(rest) ELSE 7)
  BY <1>1, <1>2, ConsecutiveFrameBytes, ConsecutiveFrameLength
<1>4. sent = SentWithNext
  BY <1>1, <1>2, <1>3 DEF SentWithNext
<1>5. /\ bytesSent' = sent /\ UNCHANGED <<pduBuffer, accepted>>
      /\ blocksRemaining' = counted /\ blockSize' = size
      /\ HandDown(r, running, frame, transfer, accepted, role, newState, timer)
  BY Zenon DEF SendNextConsecutiveFrame, AllSent
<1>6. role \in Watched \cup Unwatched
  BY DEF Watched, Unwatched
<1> HIDE DEF rest, frame
<1>7. \/ owed' = r /\ state' = "idle"
      \/ \E e \in OwedFrames :
           /\ owed' = Append(r, e) /\ state' = newState
           /\ e.no = accepted /\ ~e.sent /\ e.bytes = frame /\ e.role = role
  <2> HIDE DEF role, newState, timer, sent, allSent, counted, blockEnd
  <2>1. PICK b, t, n, o, new, started :
          b = frame /\ t = transfer /\ n = accepted /\ o = role /\ new = newState /\ started = timer
    OBVIOUS
  <2>2. HandDown(r, running, b, t, n, o, new, started)
    BY <1>5, <2>1
  <2>3. b \in CanFrames /\ t \in Tokens /\ n \in Nat /\ o \in Watched \cup Unwatched
    BY <1>1, <1>3, <1>6, <2>1
  <2>4. \/ owed' = r /\ state' = "idle"
        \/ \E e \in OwedFrames :
             /\ owed' = Append(r, e) /\ state' = new
             /\ e.no = n /\ ~e.sent /\ e.bytes = b /\ e.role = o
    BY <2>2, <2>3, HandDownCarries
  <2>5. QED
    BY <2>1, <2>4
<1>8. CASE owed' = r /\ state' = "idle"
  BY <1>4, <1>5, <1>8 DEF HandsNextFrame
<1>9. ASSUME NEW e \in OwedFrames, owed' = Append(r, e), state' = newState,
             e.no = accepted, ~e.sent, e.bytes = frame, e.role = role
      PROVE  HandsNextFrame(r, size, remaining)
  <2>1. CASE blockEnd
    <3>1. e.role = "blockEnd" /\ state' = "waitingForFc" /\ size # 0 /\ ~allSent
      BY <1>9, <2>1
    <3>2. bytesSent' < Len(pduBuffer)
      BY <1>1, <1>4, <1>5, <3>1 DEF SentWithNext
    <3>3. QED
      BY <1>4, <1>5, <1>9, <3>1, <3>2 DEF HandsNextFrame, frame, rest
  <2>2. CASE ~blockEnd
    <3>1. e.role \in {"next", "last"} /\ state' = "sendingCf"
      BY <1>9, <2>2
    <3>2. ASSUME bytesSent' < Len(pduBuffer)
          PROVE  /\ blockSize' = size
                 /\ size # 0 /\ remaining \in Nat => /\ remaining > 1
                                                     /\ blocksRemaining' = remaining - 1
      <4>1. ~allSent
        BY <1>1, <1>4, <1>5, <3>2 DEF SentWithNext
      <4>2. ASSUME size # 0, remaining \in Nat
            PROVE  remaining > 1 /\ counted = remaining - 1
        BY <2>2, <4>1, <4>2
      <4>3. QED
        BY <1>5, <4>2
    <3>3. QED
      BY <1>4, <1>5, <1>9, <3>1, <3>2 DEF HandsNextFrame, frame, rest
  <2>3. QED
    BY <2>1, <2>2
<1>10. QED
  BY <1>7, <1>8, <1>9

LEMMA ScheduleCarries ==
  ASSUME SenderAssumption, IInv, NEW r \in Seq(OwedFrames), NEW running, NEW size, NEW remaining, NEW stMin,
         ScheduleNextCf(r, running, size, remaining, stMin)
  PROVE  HandsNextFrameOrWaits(r, size, remaining)
BY NextFrameCarries DEF ScheduleNextCf, HandsNextFrameOrWaits

LEMMA SendCarries ==
  ASSUME SenderAssumption, IInv, NEW pdu \in Seq(Byte), Send(pdu)
  PROVE  /\ state = "idle" /\ pdu # <<>> /\ Len(pdu) <= MaxPduSize /\ Len(pdu) <= 4095
         /\ accepted < MaxTransfers
         /\ accepted' = accepted + 1 /\ pduBuffer' = pdu
         /\ Len(pdu) > 7 => bytesSent' = 6
         /\ \/ owed' = owed /\ state' = "idle"
            \/ \E e \in OwedFrames :
                 /\ owed' = Append(owed, e)
                 /\ e.no = accepted + 1 /\ ~e.sent
                 /\ \/ /\ Len(pdu) <= 7 /\ e.bytes = EncodeSingleFrame(pdu)
                       /\ e.role = "single" /\ state' = "sendingSf"
                    \/ /\ Len(pdu) > 7 /\ e.bytes = EncodeFirstFrame(pdu)
                       /\ e.role = "first" /\ state' = "waitingForFc"
<1>1. /\ owed \in Seq(OwedFrames) /\ Next1(transfer) \in Tokens
      /\ accepted + 1 \in Nat /\ Len(pdu) \in Nat
  BY NextToken, LenProperties DEF IInv, FrameTypes, SenderTypes
<1>2. /\ state = "idle" /\ pdu # <<>> /\ Len(pdu) <= MaxPduSize /\ Len(pdu) <= 4095
      /\ accepted < MaxTransfers /\ accepted' = accepted + 1 /\ pduBuffer' = pdu
  BY DEF Send, ffMaxPduLength
<1>3. CASE Len(pdu) <= sfMaxPayloadBytes
  <2>1. EncodeSingleFrame(pdu) \in CanFrames
    BY <1>3, SingleFrameBytes
  <2>2. HandDown(owed, timers, EncodeSingleFrame(pdu), Next1(transfer), accepted + 1, "single", "sendingSf", "nAs")
    BY <1>3 DEF Send
  <2>3. Len(pdu) <= 7
    BY <1>3 DEF sfMaxPayloadBytes
  <2>4. "single" \in Watched \cup Unwatched
    BY DEF Watched
  <2>5. \/ owed' = owed /\ state' = "idle"
        \/ \E e \in OwedFrames :
             /\ owed' = Append(owed, e) /\ state' = "sendingSf"
             /\ e.no = accepted + 1 /\ ~e.sent /\ e.bytes = EncodeSingleFrame(pdu) /\ e.role = "single"
    BY <1>1, <2>1, <2>2, <2>4, HandDownCarries
  <2>6. QED
    BY <1>1, <1>2, <2>3, <2>5
<1>4. CASE ~(Len(pdu) <= sfMaxPayloadBytes)
  <2>1. EncodeFirstFrame(pdu) \in CanFrames
    BY <1>4, FirstFrameBytes
  <2>2. /\ HandDown(owed, timers, EncodeFirstFrame(pdu), Next1(transfer), accepted + 1, "first", "waitingForFc", "nBs")
        /\ bytesSent' = 6
    BY <1>4 DEF Send, ffFirstDataBytes
  <2>3. Len(pdu) > 7
    BY <1>1, <1>4 DEF sfMaxPayloadBytes
  <2>4. "first" \in Watched \cup Unwatched
    BY DEF Unwatched
  <2>5. \/ owed' = owed /\ state' = "idle"
        \/ \E e \in OwedFrames :
             /\ owed' = Append(owed, e) /\ state' = "waitingForFc"
             /\ e.no = accepted + 1 /\ ~e.sent /\ e.bytes = EncodeFirstFrame(pdu) /\ e.role = "first"
    BY <1>1, <2>1, <2>2, <2>4, HandDownCarries
  <2>6. QED
    BY <1>1, <1>2, <2>2, <2>3, <2>5
<1>5. QED
  BY <1>3, <1>4

LEMMA FlowControlCarries ==
  ASSUME SenderAssumption, IInv, NEW frame, FlowControl(frame)
  PROVE  /\ state = "waitingForFc"
         /\ \/ /\ GoesOnOrEnds(owed)
               /\ ~(IsFlowControl(frame) /\ DecodeFlowControl(frame).fs = "continueToSend")
            \/ LET block == DecodeFlowControl(frame).blockSize
               IN HandsNextFrameOrWaits(owed, block, block)
<1>1. owed \in Seq(OwedFrames)
  BY DEF IInv, FrameTypes
<1>2. state = "waitingForFc"
  BY DEF FlowControl
<1>3. CASE /\ IsFlowControl(frame) /\ DecodeFlowControl(frame).fs = "continueToSend"
           /\ ScheduleNextCf(owed, timers \ {"nBs"}, DecodeFlowControl(frame).blockSize,
                             DecodeFlowControl(frame).blockSize, DecodeFlowControl(frame).stMin)
  BY <1>1, <1>2, <1>3, ScheduleCarries, Zenon
<1>4. CASE /\ ~(IsFlowControl(frame) /\ DecodeFlowControl(frame).fs = "continueToSend")
           /\ UNCHANGED <<pduBuffer, bytesSent, accepted, blockSize, blocksRemaining, owed>>
           /\ state' \in {state, "idle"}
  BY <1>2, <1>4 DEF GoesOnOrEnds
<1>5. QED
  <2>1. CASE ~IsFlowControl(frame) /\ Abort(transfer, "unexpectedFrame") /\ UNCHANGED <<transferVars, owed, accepted>>
    BY <1>4, <2>1 DEF Abort, Clear, transferVars
  <2>2. CASE /\ IsFlowControl(frame) /\ DecodeFlowControl(frame).fs = "overflow"
             /\ Abort(transfer, "overflow") /\ UNCHANGED <<transferVars, owed, accepted>>
    BY <1>4, <2>2 DEF Abort, Clear, transferVars
  <2>3. CASE /\ IsFlowControl(frame) /\ DecodeFlowControl(frame).fs = "wait"
             /\ \/ Abort(transfer, "waitLimitExceeded")
                \/ UNCHANGED state
             /\ UNCHANGED <<pduBuffer, bytesSent, sequenceNumber, blockSize, blocksRemaining, stMinByte, owed, accepted>>
    BY <1>4, <2>3 DEF Abort, Clear
  <2>4. QED
    BY <1>3, <2>1, <2>2, <2>3, Zenon DEF FlowControl

\* A completion of a frame of another transfer changes nothing, and a failure of
\* one of the current transfer ends it.
LEMMA CompletionCarries ==
  ASSUME SenderAssumption, IInv, NEW i \in 1 .. Len(owed), NEW success \in BOOLEAN,
         Completion(i, success)
  PROVE  /\ success => i = 1 /\ owed[i].sent
         /\ ~success => ~owed[i].sent
         /\ \/ /\ GoesOnOrEnds(RemoveAt(owed, i))
               /\ owed[i].token # transfer => state' = state
               /\ ~success /\ owed[i].token = transfer => state' = "idle"
               /\ success /\ state' # state => owed[i].role \in Watched
            \/ /\ success /\ state = "sendingCf"
               /\ HandsNextFrameOrWaits(RemoveAt(owed, i), blockSize, blocksRemaining)
<1>1. owed \in Seq(OwedFrames) /\ RemoveAt(owed, i) \in Seq(OwedFrames) /\ owed[i] \in OwedFrames
  BY RemoveAtProperties, ElementOfSeq DEF IInv, FrameTypes
<1>2. owed[i].role \in {"single", "next", "last", "first", "blockEnd"}
  BY <1>1 DEF OwedFrames, Watched, Unwatched
<1>3. MayComplete(i, success)
  BY DEF Completion
<1>4. CASE owed[i].token # transfer
  <2>1. owed' = RemoveAt(owed, i) /\ UNCHANGED <<senderVars, accepted>>
    BY <1>4 DEF Completion, IsCurrent
  <2>2. QED
    BY <1>3, <1>4, <2>1 DEF GoesOnOrEnds, MayComplete, senderVars, transferVars
<1>5. CASE owed[i].token = transfer
  <2>1. CompletionCounts(owed[i], success, RemoveAt(owed, i))
    BY <1>5 DEF Completion, IsCurrent
  <2>2. CASE ~success
    <3>1. owed' = RemoveAt(owed, i) /\ Abort(transfer, "sendFailed") /\ UNCHANGED <<transferVars, accepted>>
      BY <1>2, <2>1, <2>2 DEF CompletionCounts
    <3>2. QED
      BY <1>3, <1>5, <2>2, <3>1 DEF GoesOnOrEnds, MayComplete, Abort, Clear, transferVars
  <2>3. CASE success /\ owed[i].role \in {"first", "blockEnd"}
    <3>1. owed' = RemoveAt(owed, i) /\ UNCHANGED <<senderVars, accepted>>
      BY <2>1, <2>3 DEF CompletionCounts
    <3>2. QED
      BY <1>3, <1>5, <2>3, <3>1 DEF GoesOnOrEnds, MayComplete, senderVars, transferVars
  <2>4. CASE success /\ owed[i].role \in {"single", "last"}
    <3>1. owed' = RemoveAt(owed, i) /\ Complete /\ UNCHANGED <<transferVars, accepted>>
      BY <2>1, <2>4 DEF CompletionCounts
    <3>2. QED
      BY <1>3, <1>5, <2>4, <3>1 DEF GoesOnOrEnds, MayComplete, Complete, transferVars, Watched
  <2>5. CASE success /\ owed[i].role = "next" /\ state = "sendingCf"
    <3>1. ScheduleNextCf(RemoveAt(owed, i), timers \ {"nAs"}, blockSize, blocksRemaining, stMinByte)
      BY <2>1, <2>5 DEF CompletionCounts
    <3>2. HandsNextFrameOrWaits(RemoveAt(owed, i), blockSize, blocksRemaining)
      BY <1>1, <3>1, ScheduleCarries
    <3>3. QED
      BY <1>3, <2>5, <3>2 DEF MayComplete
  <2>6. CASE success /\ owed[i].role = "next" /\ state # "sendingCf"
    <3>1. owed' = RemoveAt(owed, i) /\ UNCHANGED <<state, pduBuffer, bytesSent, accepted>>
      BY <2>1, <2>6 DEF CompletionCounts
    <3>2. owed[i].token = transfer => state = "sendingCf"
      BY <2>6 DEF IInv, CurrentFrames, CurrentFrame
    <3>3. QED
      BY <1>5, <2>6, <3>2
  <2>7. QED
    BY <1>2, <2>2, <2>3, <2>4, <2>5, <2>6
<1>6. QED
  BY <1>4, <1>5

LEMMA TimeoutsCarry ==
  ASSUME SenderAssumption, IInv
  PROVE  /\ NBsTimeout \/ NAsTimeout => GoesOnOrEnds(owed) /\ state' = "idle"
         /\ StMinTimeout => state = "sendingCf" /\ HandsNextFrame(owed, blockSize, blocksRemaining)
<1>1. NBsTimeout \/ NAsTimeout => GoesOnOrEnds(owed) /\ state' = "idle"
  BY DEF NBsTimeout, NAsTimeout, GoesOnOrEnds, Abort, Clear, transferVars
<1>2. ASSUME StMinTimeout
      PROVE  state = "sendingCf" /\ HandsNextFrame(owed, blockSize, blocksRemaining)
  <2>1. "stMin" \in timers /\ SendNextConsecutiveFrame(owed, timers \ {"stMin"}, blockSize, blocksRemaining)
    BY <1>2 DEF StMinTimeout
  <2>2. state = "sendingCf"
    BY <2>1 DEF IInv, SenderTypes, States, WaitIsTimed
  <2>3. owed \in Seq(OwedFrames)
    BY DEF IInv, FrameTypes
  <2>4. QED
    BY <2>1, <2>2, <2>3, NextFrameCarries
<1>3. QED
  BY <1>1, <1>2

\* While the channel was never released, the frames of the transfer that goes on
\* are those with its token.
LEMMA FramesOfTransfer ==
  ASSUME SenderAssumption, IInv, resets = 0, state # "idle",
         NEW i \in 1 .. Len(owed), owed[i].no = accepted
  PROVE  owed[i].token = transfer /\ CurrentFrame(i)
<1>1. owed[i] \in OwedFrames
  BY ElementOfSeq DEF IInv, FrameTypes
<1>2. owed[i].token \in Tokens /\ transfer \in Tokens /\ accepted \in Nat
  BY <1>1 DEF OwedFrames, IInv, SenderTypes
<1>3. Distance(owed[i].token, transfer) <= 0
  <2>1. Distance(owed[i].token, transfer) <= 2 * (accepted - owed[i].no) + IdleCount + resets
    BY DEF IInv, FrameAges
  <2>2. IdleCount = 0 /\ 2 * (accepted - owed[i].no) = 0
    BY <1>2 DEF IdleCount
  <2>3. Distance(owed[i].token, transfer) \in Nat
    BY <1>2, DistanceGrows
  <2>4. QED
    BY <2>1, <2>2, <2>3
<1>4. owed[i].token = transfer
  BY <1>2, <1>3, DistanceGrows
<1>5. QED
  BY <1>4 DEF IInv, CurrentFrames

-----------------------------------------------------------------------------
(* The theorems *)

\* The invariant holds as long as no frame stays with the transport for more
\* transfers than the eight bits of the token tell apart.
THEOREM Invariance ==
  ASSUME SenderAssumption, NEW w, Bounded(w)
  PROVE  Spec /\ []QueuedBriefly(w) => []IInv
<1>1. Init => IInv
  BY InitEstablishes
<1>2. IInv /\ QueuedBriefly(w) /\ [Next]_vars => IInv'
  BY StepPreserves
<1>3. QED
  BY <1>1, <1>2, PTL DEF Spec

\* Whatever state the sender waits in, the timer that takes it out runs and no
\* other, and the frame that N_As watches is the newest handed down.
THEOREM WaitsAreTimed ==
  ASSUME SenderAssumption, NEW w, Bounded(w)
  PROVE  Spec /\ []QueuedBriefly(w) => [](WaitIsTimed /\ WatchedFrameIsOwed)
<1>1. IInv => WaitIsTimed /\ WatchedFrameIsOwed
  BY DEF IInv
<1>2. QED
  BY <1>1, Invariance, PTL

\* Every PDU that Send accepts ends once: done, aborted or released.
THEOREM TransfersEndOnce ==
  ASSUME SenderAssumption, NEW w, Bounded(w)
  PROVE  Spec /\ []QueuedBriefly(w) => []EndsOnce
<1>1. IInv => EndsOnce
  BY DEF IInv
<1>2. QED
  BY <1>1, Invariance, PTL

\* The completion of a frame whose transfer has ended, however late it comes,
\* neither aborts nor completes the transfer that followed.
THEOREM LateCompletionsChangeNothing ==
  ASSUME SenderAssumption, NEW w, Bounded(w)
  PROVE  Spec /\ []QueuedBriefly(w) => StaleCompletionsIgnored
<1>1. IInv /\ [Next]_vars =>
        [\A i \in DOMAIN owed :
           /\ owed' = RemoveAt(owed, i)
           /\ owed[i].no < accepted \/ ended = accepted
           => UNCHANGED <<senderVars, ended, outcome>>]_<<senderVars, owed, ended, outcome>>
  BY StaleCompletion
<1>2. QED
  BY <1>1, Invariance, PTL DEF Spec, StaleCompletionsIgnored

\* onDone(true) is called only when the last byte of the PDU has been on the bus.
THEOREM DoneIsReportedWhenSent ==
  ASSUME SenderAssumption, NEW w, Bounded(w)
  PROVE  Spec /\ []QueuedBriefly(w) => DoneMeansSent
<1>1. IInv /\ [Next]_vars =>
        [outcome' = "done" /\ ended' # ended =>
           \E i \in DOMAIN owed :
             /\ owed[i].no = accepted /\ owed[i].sent
             /\ owed[i].role \in {"single", "last"}
             /\ owed[i].role = "last" => bytesSent = Len(pduBuffer)]_vars
  BY DoneIsSent
<1>2. QED
  BY <1>1, Invariance, PTL DEF Spec, DoneMeansSent

\* A channel whose life is no longer than the tokens tell apart needs no more: the
\* transport may keep its frames for as long as it likes.
THEOREM ShortLivesAreSound ==
  ASSUME SenderAssumption, Bounded(MaxTransfers)
  PROVE  Spec => [](WaitIsTimed /\ WatchedFrameIsOwed /\ EndsOnce)
<1> DEFINE Short == IInv /\ accepted <= MaxTransfers
<1>1. Init => Short
  BY InitEstablishes DEF Init, SenderAssumption
<1>2. Short /\ [Next]_vars => Short'
  <2> SUFFICES ASSUME IInv, accepted <= MaxTransfers, [Next]_vars
               PROVE  IInv' /\ accepted' <= MaxTransfers
    OBVIOUS
  <2>1. QueuedBriefly(MaxTransfers) /\ accepted' <= MaxTransfers
    BY ShortIsBrief, ShortStaysShort
  <2>2. IInv'
    BY <2>1, StepPreserves
  <2>3. QED
    BY <2>1, <2>2
<1>3. Short => WaitIsTimed /\ WatchedFrameIsOwed /\ EndsOnce
  BY DEF IInv
<1>4. QED
  BY <1>1, <1>2, <1>3, PTL DEF Spec

=============================================================================
