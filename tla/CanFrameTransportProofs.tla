---------------------- MODULE CanFrameTransportProofs ----------------------
(***************************************************************************)
(* Proofs about CanFrameTransport for every queue depth, reserve, retry    *)
(* limit and set of priorities that TransportAssumption allows.            *)
(***************************************************************************)
EXTENDS CanFrameTransport, SequenceTheorems, FiniteSetTheorems, TLAPS

-----------------------------------------------------------------------------
(* The queue operators *)

\* A nonempty set of natural numbers has a least element.
LEMMA LeastElement ==
  ASSUME NEW T \in SUBSET Nat, T # {}
  PROVE  \E m \in T : \A k \in T : m <= k
<1> DEFINE Below == {1 .. k : k \in T}
<1>1. Below \subseteq FiniteSubsetsOf(Nat) /\ Below # {}
  <2>1. \A k \in T : 1 .. k \in SUBSET Nat /\ IsFiniteSet(1 .. k)
    BY FS_Interval
  <2> QED BY <2>1 DEF FiniteSubsetsOf
<1>2. PICK B \in Below : \A C \in Below : <<C, B>> \notin StrictSubsetOrdering(Nat)
  BY <1>1, FS_StrictSubsetOrderingWellFounded, WFMin
<1>3. PICK m \in T : B = 1 .. m
  BY <1>2
<1>4. ASSUME NEW k \in T PROVE m <= k
  <2>1. ~(1 .. k \subseteq 1 .. m /\ 1 .. k # 1 .. m)
    <3>1. <<1 .. k, 1 .. m>> \notin StrictSubsetOrdering(Nat)
      BY <1>2, <1>3
    <3>2. 1 .. k \in SUBSET Nat /\ 1 .. m \in SUBSET Nat
      OBVIOUS
    <3> QED BY <3>1, <3>2 DEF StrictSubsetOrdering
  <2>2. k < m => 1 .. k \subseteq 1 .. m /\ m \in 1 .. m /\ m \notin 1 .. k
    OBVIOUS
  <2> QED BY <2>1, <2>2
<1> QED BY <1>3, <1>4

LEMMA PrioritiesAreNumbers ==
  /\ EmergencyPriority \in Nat
  /\ \A f \in Frames : /\ f.priority \in Nat
                       /\ EmergencyPriority <= f.priority
                       /\ f.no \in Nat
<1>1. /\ Priorities \subseteq Nat
      /\ EmergencyPriority \in Priorities
      /\ \A p \in Priorities : EmergencyPriority <= p
  BY TransportAssumption
<1>2. \A f \in Frames : f.priority \in Priorities
  BY DEF Frames
<1>3. \A f \in Frames : f.no \in Nat
  BY TransportAssumption DEF Frames, Calls
<1> QED BY <1>1, <1>2, <1>3

\* No frame is sent before itself.
LEMMA BeforeIsIrreflexive ==
  ASSUME NEW f \in Frames
  PROVE  ~Before(f, f)
BY PrioritiesAreNumbers DEF Before

\* std::find_if finds the first less urgent frame, or the end.
LEMMA InsertionPointIsFirstLessUrgent ==
  ASSUME NEW queue \in Seq(Frames), NEW frame \in Frames
  PROVE  LET at == InsertionPoint(queue, frame)
         IN  /\ at \in 1 .. Len(queue) + 1
             /\ \A j \in 1 .. at - 1 : queue[j].priority <= frame.priority
             /\ at <= Len(queue) => queue[at].priority > frame.priority
<1> DEFINE Fits(i) ==
      /\ \A j \in 1 .. i - 1 : queue[j].priority <= frame.priority
      /\ i <= Len(queue) => queue[i].priority > frame.priority
<1> DEFINE Less == {i \in 1 .. Len(queue) : queue[i].priority > frame.priority}
<1>1. /\ Len(queue) \in Nat
      /\ \A i \in 1 .. Len(queue) : queue[i] \in Frames
  BY LenProperties, ElementOfSeq
<1>2. \A f \in Frames : f.priority \in Int
  BY PrioritiesAreNumbers
<1>3. \E i \in 1 .. Len(queue) + 1 : Fits(i)
  <2>1. CASE Less = {}
    <3>1. Fits(Len(queue) + 1)
      BY <1>1, <1>2, <2>1
    <3> QED BY <1>1, <3>1
  <2>2. CASE Less # {}
    <3>1. PICK m \in Less : \A k \in Less : m <= k
      <4>1. Less \in SUBSET Nat
        BY <1>1
      <4> HIDE DEF Less
      <4> QED BY <2>2, <4>1, LeastElement
    <3>2. Fits(m)
      BY <1>1, <1>2, <3>1
    <3> QED BY <1>1, <3>1, <3>2
  <2> QED BY <2>1, <2>2
<1>4. InsertionPoint(queue, frame) = CHOOSE i \in 1 .. Len(queue) + 1 : Fits(i)
  BY DEF InsertionPoint
<1> HIDE DEF Fits
<1>5. /\ InsertionPoint(queue, frame) \in 1 .. Len(queue) + 1
      /\ Fits(InsertionPoint(queue, frame))
  BY <1>3, <1>4
<1> QED BY <1>5 DEF Fits

\* Insert opens a place for the frame and moves what follows back by one.
LEMMA InsertShape ==
  ASSUME NEW queue \in Seq(Frames), NEW frame \in Frames
  PROVE  /\ Insert(queue, frame) \in Seq(Frames)
         /\ Len(Insert(queue, frame)) = Len(queue) + 1
         /\ \E at \in 1 .. Len(queue) + 1 :
              /\ Insert(queue, frame)[at] = frame
              /\ \A j \in 1 .. at - 1 :
                   /\ Insert(queue, frame)[j] = queue[j]
                   /\ queue[j].priority <= frame.priority
              /\ \A j \in at .. Len(queue) : Insert(queue, frame)[j + 1] = queue[j]
              /\ at <= Len(queue) => queue[at].priority > frame.priority
<1> DEFINE at == InsertionPoint(queue, frame)
           inserted == Insert(queue, frame)
<1>1. /\ at \in 1 .. Len(queue) + 1
      /\ \A j \in 1 .. at - 1 : queue[j].priority <= frame.priority
      /\ at <= Len(queue) => queue[at].priority > frame.priority
  BY InsertionPointIsFirstLessUrgent
<1>2. /\ Len(queue) \in Nat
      /\ \A i \in 1 .. Len(queue) : queue[i] \in Frames
  BY LenProperties, ElementOfSeq
<1>3. inserted = [i \in 1 .. Len(queue) + 1 |->
                    IF i < at THEN queue[i]
                    ELSE IF i = at THEN frame ELSE queue[i - 1]]
  BY DEF Insert
<1> HIDE DEF at, inserted
<1>4. inserted \in [1 .. Len(queue) + 1 -> Frames]
  BY <1>1, <1>2, <1>3
<1>5. inserted \in Seq(Frames)
  BY <1>2, <1>4, SeqDef
<1>6. Len(inserted) = Len(queue) + 1
  BY <1>2, <1>4, <1>5, LenProperties
<1>7. /\ inserted[at] = frame
      /\ \A j \in 1 .. at - 1 : inserted[j] = queue[j]
      /\ \A j \in at .. Len(queue) : inserted[j + 1] = queue[j]
  BY <1>1, <1>2, <1>3
<1> QED BY <1>1, <1>5, <1>6, <1>7 DEF at, inserted

\* The frames that wait after an insertion are those before and the new one.
LEMMA InsertElements ==
  ASSUME NEW queue \in Seq(Frames), NEW frame \in Frames
  PROVE  Elements(Insert(queue, frame)) = Elements(queue) \cup {frame}
<1> DEFINE inserted == Insert(queue, frame)
<1>1. PICK at \in 1 .. Len(queue) + 1 :
        /\ inserted[at] = frame
        /\ \A j \in 1 .. at - 1 : inserted[j] = queue[j]
        /\ \A j \in at .. Len(queue) : inserted[j + 1] = queue[j]
  BY InsertShape
<1>2. Len(queue) \in Nat /\ Len(inserted) = Len(queue) + 1
  BY InsertShape, LenProperties
<1> HIDE DEF inserted
<1>3. ASSUME NEW i \in 1 .. Len(inserted)
      PROVE  inserted[i] \in {queue[j] : j \in 1 .. Len(queue)} \cup {frame}
  <2>1. CASE i < at
    BY <1>1, <1>2, <2>1
  <2>2. CASE i > at
    <3>1. i - 1 \in at .. Len(queue) /\ i = (i - 1) + 1
      BY <1>2, <2>2
    <3>2. inserted[i] = queue[i - 1] /\ i - 1 \in 1 .. Len(queue)
      BY <1>1, <3>1
    <3> QED BY <3>2
  <2>3. CASE i = at
    BY <1>1, <2>3
  <2> QED BY <1>2, <2>1, <2>2, <2>3
<1>4. ASSUME NEW j \in 1 .. Len(queue)
      PROVE  queue[j] \in {inserted[i] : i \in 1 .. Len(inserted)}
  <2>1. CASE j < at
    BY <1>1, <1>2, <2>1
  <2>2. CASE j >= at
    BY <1>1, <1>2, <2>2
  <2> QED BY <1>2, <2>1, <2>2
<1> QED BY <1>1, <1>2, <1>3, <1>4 DEF Elements, inserted

\* An insertion adds one to the ordinary frames, unless it is of an emergency.
LEMMA InsertOrdinaryCount ==
  ASSUME NEW queue \in Seq(Frames), NEW frame \in Frames
  PROVE  OrdinaryCount(Insert(queue, frame)) =
           OrdinaryCount(queue) + (IF IsEmergency(frame) THEN 0 ELSE 1)
<1> DEFINE inserted == Insert(queue, frame)
           old == Ordinaries(queue)
           new == Ordinaries(inserted)
<1>1. PICK at \in 1 .. Len(queue) + 1 :
        /\ inserted[at] = frame
        /\ \A j \in 1 .. at - 1 : inserted[j] = queue[j]
        /\ \A j \in at .. Len(queue) : inserted[j + 1] = queue[j]
  BY InsertShape
<1>2. Len(queue) \in Nat /\ Len(inserted) = Len(queue) + 1
  BY InsertShape, LenProperties
<1>3. IsFiniteSet(old)
  <2>1. old \subseteq 1 .. Len(queue) /\ IsFiniteSet(1 .. Len(queue))
    BY <1>2, FS_Interval DEF Ordinaries
  <2> QED BY <2>1, FS_Subset
<1> DEFINE shift == [j \in old |-> IF j < at THEN j ELSE j + 1]
<1> HIDE DEF inserted
<1>4. shift \in Bijection(old, new \ {at})
  <2>1. \A j \in old : j \in 1 .. Len(queue) /\ ~IsEmergency(queue[j])
    BY DEF Ordinaries
  <2>2. ASSUME NEW j \in old
        PROVE  shift[j] \in new \ {at}
    <3>1. inserted[shift[j]] = queue[j] /\ shift[j] \in 1 .. Len(inserted)
      BY <1>1, <1>2, <2>1
    <3>2. shift[j] # at
      BY <1>2, <2>1
    <3> QED BY <2>1, <3>1, <3>2 DEF Ordinaries
  <2>3. \A j, k \in old : shift[j] = shift[k] => j = k
    BY <1>2, <2>1
  <2>4. ASSUME NEW i \in new \ {at}
        PROVE  \E j \in old : shift[j] = i
    <3>1. i \in 1 .. Len(inserted) /\ ~IsEmergency(inserted[i]) /\ i # at
      BY DEF Ordinaries
    <3>2. CASE i < at
      <4>1. i \in 1 .. Len(queue) /\ inserted[i] = queue[i]
        BY <1>1, <1>2, <3>1, <3>2
      <4>2. i \in old
        BY <3>1, <4>1 DEF Ordinaries
      <4> QED BY <3>2, <4>2
    <3>3. CASE i > at
      <4>1. i - 1 \in at .. Len(queue) /\ i = (i - 1) + 1
        BY <1>2, <3>1, <3>3
      <4>2. i - 1 \in 1 .. Len(queue) /\ inserted[i] = queue[i - 1]
        BY <1>1, <1>2, <4>1
      <4>3. i - 1 \in old
        BY <3>1, <4>2 DEF Ordinaries
      <4> QED BY <1>2, <4>1, <4>3
    <3> QED BY <1>2, <3>1, <3>2, <3>3
  <2>5. shift \in [old -> new \ {at}]
    BY <2>2
  <2> HIDE DEF shift
  <2> QED BY <2>3, <2>4, <2>5 DEF Bijection, Injection, Surjection, IsInjective
<1> HIDE DEF shift, old, new
<1>5. /\ IsFiniteSet(new \ {at})
      /\ Cardinality(new \ {at}) = Cardinality(old)
  <2>1. ExistsBijection(old, new \ {at})
    BY <1>4 DEF ExistsBijection
  <2> QED BY <1>3, <2>1, FS_Bijection
<1>6. Cardinality(old) \in Nat
  BY <1>3, FS_CardinalityType
<1>7. at \in new <=> ~IsEmergency(frame)
  BY <1>1, <1>2 DEF Ordinaries, new
<1>8. CASE IsEmergency(frame)
  <2>1. new \ {at} = new
    BY <1>7, <1>8
  <2>2. Cardinality(new) = Cardinality(old)
    BY <1>5, <2>1, Zenon
  <2>3. Cardinality(new) = Cardinality(old) + 0
    BY <1>6, <2>2
  <2> QED BY <1>8, <2>3 DEF OrdinaryCount, old, new, inserted
<1>9. CASE ~IsEmergency(frame)
  <2>1. new = (new \ {at}) \cup {at}
    BY <1>7, <1>9
  <2>2. Cardinality(new) = Cardinality(new \ {at}) + 1
    BY <1>5, <2>1, FS_AddElement
  <2> QED BY <1>5, <1>6, <1>9, <2>2 DEF OrdinaryCount, old, new, inserted
<1> QED BY <1>8, <1>9

\* A frame that was sent after every waiting one goes behind its equals, so the
\* queue stays in transmission order.
LEMMA InsertOrdered ==
  ASSUME NEW queue \in Seq(Frames), NEW frame \in Frames, Ordered(queue),
         \A i \in 1 .. Len(queue) : queue[i].no < frame.no
  PROVE  Ordered(Insert(queue, frame))
<1> DEFINE inserted == Insert(queue, frame)
<1>1. PICK at \in 1 .. Len(queue) + 1 :
        /\ inserted[at] = frame
        /\ \A j \in 1 .. at - 1 :
             inserted[j] = queue[j] /\ queue[j].priority <= frame.priority
        /\ \A j \in at .. Len(queue) : inserted[j + 1] = queue[j]
        /\ at <= Len(queue) => queue[at].priority > frame.priority
  BY InsertShape
<1>2. Len(queue) \in Nat /\ Len(inserted) = Len(queue) + 1
  BY InsertShape, LenProperties
<1>3. /\ \A i \in 1 .. Len(queue) : queue[i].priority \in Nat
      /\ frame.priority \in Nat
  BY ElementOfSeq, PrioritiesAreNumbers
<1>4. ASSUME NEW j \in at .. Len(queue) PROVE Before(frame, queue[j])
  <2>1. queue[at].priority > frame.priority
    BY <1>1, <1>2
  <2>2. queue[at].priority <= queue[j].priority
    BY <1>2, <1>3 DEF Ordered, Before
  <2>3. frame.priority < queue[j].priority
    BY <1>2, <1>3, <2>1, <2>2
  <2> QED BY <2>3 DEF Before
<1>5. ASSUME NEW j \in 1 .. at - 1 PROVE Before(queue[j], frame)
  BY <1>1, <1>2, <1>3 DEF Before
<1> HIDE DEF inserted
<1>6. SUFFICES ASSUME NEW i \in 1 .. Len(queue) + 1, NEW j \in 1 .. Len(queue) + 1,
                      i < j
               PROVE  Before(inserted[i], inserted[j])
  BY <1>2 DEF Ordered, inserted
<1>7. CASE j < at
  <2>1. inserted[i] = queue[i] /\ inserted[j] = queue[j] /\ j <= Len(queue)
    BY <1>1, <1>2, <1>6, <1>7
  <2> QED BY <1>2, <1>6, <2>1 DEF Ordered
<1>8. CASE j = at
  BY <1>1, <1>2, <1>5, <1>6, <1>8
<1>9. CASE j > at
  <2>1. j - 1 \in at .. Len(queue) /\ inserted[j] = queue[j - 1]
    <3>1. j - 1 \in at .. Len(queue) /\ (j - 1) + 1 = j
      BY <1>2, <1>9
    <3> QED BY <1>1, <3>1
  <2>2. CASE i = at
    BY <1>1, <1>4, <2>1, <2>2
  <2>3. CASE i < at
    <3>1. inserted[i] = queue[i] /\ i \in 1 .. Len(queue)
      BY <1>1, <1>2, <2>3
    <3>2. j - 1 \in 1 .. Len(queue) /\ i < j - 1
      BY <1>2, <2>1, <2>3
    <3> QED BY <2>1, <3>1, <3>2 DEF Ordered
  <2>4. CASE i > at
    <3>1. i - 1 \in at .. Len(queue) /\ (i - 1) + 1 = i
      BY <1>2, <1>6, <2>1, <2>4
    <3>2. inserted[i] = queue[i - 1]
      BY <1>1, <3>1
    <3>3. i - 1 \in 1 .. Len(queue) /\ j - 1 \in 1 .. Len(queue) /\ i - 1 < j - 1
      BY <1>2, <1>6, <2>1, <3>1
    <3> QED BY <2>1, <3>2, <3>3 DEF Ordered
  <2> QED BY <1>2, <2>2, <2>3, <2>4
<1> QED BY <1>2, <1>7, <1>8, <1>9

\* pop_back of an ordered queue.
LEMMA WithoutBackProperties ==
  ASSUME NEW queue \in Seq(Frames), queue # <<>>, Ordered(queue)
  PROVE  /\ Len(queue) \in Nat \ {0}
         /\ Back(queue) \in Elements(queue)
         /\ WithoutBack(queue) \in Seq(Frames)
         /\ Len(WithoutBack(queue)) = Len(queue) - 1
         /\ Ordered(WithoutBack(queue))
         /\ Elements(WithoutBack(queue)) = Elements(queue) \ {Back(queue)}
         /\ OrdinaryCount(WithoutBack(queue)) =
              OrdinaryCount(queue) - (IF IsEmergency(Back(queue)) THEN 0 ELSE 1)
<1> DEFINE short == WithoutBack(queue)
<1>1. Len(queue) \in Nat \ {0}
  BY EmptySeq
<1>2. \A i \in 1 .. Len(queue) : queue[i] \in Frames /\ queue[i].priority \in Nat
  BY ElementOfSeq, PrioritiesAreNumbers
<1>3. /\ short \in Seq(Frames)
      /\ Len(short) = Len(queue) - 1
      /\ \A i \in 1 .. Len(queue) - 1 : short[i] = queue[i]
  <2>1. \A i \in 1 .. Len(queue) - 1 : queue[i] \in Frames
    BY <1>1, <1>2
  <2>2. 1 \in Int /\ Len(queue) - 1 \in Int
    BY <1>1
  <2>3. /\ SubSeq(queue, 1, Len(queue) - 1) \in Seq(Frames)
        /\ Len(SubSeq(queue, 1, Len(queue) - 1)) =
             IF 1 <= Len(queue) - 1 THEN Len(queue) - 1 - 1 + 1 ELSE 0
        /\ \A i \in 1 .. Len(queue) - 1 - 1 + 1 :
             SubSeq(queue, 1, Len(queue) - 1)[i] = queue[1 + i - 1]
    BY <2>1, <2>2, SubSeqProperties
  <2>4. \A i \in 1 .. Len(queue) - 1 : 1 + i - 1 = i /\ i \in 1 .. Len(queue) - 1 - 1 + 1
    BY <1>1
  <2>5. Len(SubSeq(queue, 1, Len(queue) - 1)) = Len(queue) - 1
    <3>1. \A k \in Nat : (IF 1 <= k THEN k - 1 + 1 ELSE 0) = k
      OBVIOUS
    <3>2. Len(queue) - 1 \in Nat
      BY <1>1
    <3> QED BY <2>3, <3>1, <3>2, Zenon
  <2>6. \A i \in 1 .. Len(queue) - 1 : SubSeq(queue, 1, Len(queue) - 1)[i] = queue[i]
    BY <2>3, <2>4
  <2> QED BY <2>3, <2>5, <2>6 DEF WithoutBack
<1> HIDE DEF short
<1>4. Ordered(short)
  BY <1>1, <1>3 DEF Ordered
<1>5. \A i \in 1 .. Len(queue) - 1 : queue[i] # Back(queue)
  <2>1. \A i \in 1 .. Len(queue) - 1 : Before(queue[i], Back(queue))
    BY <1>1 DEF Ordered, Back
  <2> QED BY <1>1, <1>2, <2>1, BeforeIsIrreflexive
<1>6. Elements(short) = Elements(queue) \ {Back(queue)}
  <2>1. Elements(short) = {queue[i] : i \in 1 .. Len(queue) - 1}
    BY <1>1, <1>3 DEF Elements
  <2>2. \A i \in 1 .. Len(queue) : i \in 1 .. Len(queue) - 1 \/ queue[i] = Back(queue)
    BY <1>1 DEF Back
  <2>3. \A i \in 1 .. Len(queue) - 1 : i \in 1 .. Len(queue)
    BY <1>1
  <2> QED BY <1>5, <2>1, <2>2, <2>3 DEF Elements
<1>7. Back(queue) \in Elements(queue)
  BY <1>1 DEF Back, Elements
<1>8. Ordinaries(short) = Ordinaries(queue) \ {Len(queue)}
  BY <1>1, <1>3 DEF Ordinaries
<1>9. IsFiniteSet(Ordinaries(queue))
  <2>1. Ordinaries(queue) \subseteq 1 .. Len(queue) /\ IsFiniteSet(1 .. Len(queue))
    BY <1>1, FS_Interval DEF Ordinaries
  <2> QED BY <2>1, FS_Subset
<1>10. Cardinality(Ordinaries(queue)) \in Nat
  BY <1>9, FS_CardinalityType
<1>11. Len(queue) \in Ordinaries(queue) <=> ~IsEmergency(Back(queue))
  BY <1>1 DEF Ordinaries, Back
<1>12. Cardinality(Ordinaries(queue) \ {Len(queue)}) =
         IF Len(queue) \in Ordinaries(queue)
           THEN Cardinality(Ordinaries(queue)) - 1 ELSE Cardinality(Ordinaries(queue))
  BY <1>9, FS_RemoveElement
<1>13. Cardinality(Ordinaries(short)) = Cardinality(Ordinaries(queue) \ {Len(queue)})
  BY <1>8, Zenon
<1>14. OrdinaryCount(short) =
         OrdinaryCount(queue) - (IF IsEmergency(Back(queue)) THEN 0 ELSE 1)
  <2>1. CASE IsEmergency(Back(queue))
    BY <1>10, <1>11, <1>12, <1>13, <2>1 DEF OrdinaryCount
  <2>2. CASE ~IsEmergency(Back(queue))
    BY <1>10, <1>11, <1>12, <1>13, <2>2 DEF OrdinaryCount
  <2> QED BY <2>1, <2>2
<1> QED BY <1>1, <1>3, <1>4, <1>6, <1>7, <1>14 DEF short

\* front and erase of an ordered queue.
LEMMA TailProperties ==
  ASSUME NEW queue \in Seq(Frames), queue # <<>>, Ordered(queue)
  PROVE  /\ Head(queue) \in Elements(queue)
         /\ Tail(queue) \in Seq(Frames)
         /\ Len(Tail(queue)) = Len(queue) - 1
         /\ Ordered(Tail(queue))
         /\ Elements(Tail(queue)) = Elements(queue) \ {Head(queue)}
         /\ \A f \in Elements(Tail(queue)) : Before(Head(queue), f)
         /\ OrdinaryCount(Tail(queue)) <= OrdinaryCount(queue)
<1> DEFINE rest == Tail(queue)
<1>1. Len(queue) \in Nat \ {0}
  BY EmptySeq
<1>2. \A i \in 1 .. Len(queue) : queue[i] \in Frames /\ queue[i].priority \in Nat
  BY ElementOfSeq, PrioritiesAreNumbers
<1>3. /\ rest \in Seq(Frames)
      /\ Len(rest) = Len(queue) - 1
      /\ \A i \in 1 .. Len(queue) - 1 : rest[i] = queue[i + 1]
  BY HeadTailProperties
<1>4. Head(queue) = queue[1]
  BY <1>1
<1> HIDE DEF rest
<1>5. Ordered(rest)
  BY <1>1, <1>3 DEF Ordered
<1>6. \A i \in 1 .. Len(queue) - 1 : Before(queue[1], rest[i])
  BY <1>1, <1>3 DEF Ordered
<1>7. \A i \in 1 .. Len(queue) - 1 : rest[i] # queue[1]
  BY <1>1, <1>2, <1>6, BeforeIsIrreflexive
<1>8. Elements(rest) = {rest[i] : i \in 1 .. Len(queue) - 1}
  BY <1>3 DEF Elements
<1>9. Elements(rest) = Elements(queue) \ {Head(queue)}
  <2>1. ASSUME NEW i \in 1 .. Len(queue)
        PROVE  queue[i] \in Elements(rest) \/ queue[i] = Head(queue)
    <3>1. CASE i = 1
      BY <1>4, <3>1
    <3>2. CASE i > 1
      <4>1. i - 1 \in 1 .. Len(queue) - 1 /\ (i - 1) + 1 = i
        BY <1>1, <3>2
      <4> QED BY <1>3, <1>8, <4>1
    <3> QED BY <3>1, <3>2
  <2>2. \A i \in 1 .. Len(queue) - 1 : rest[i] = queue[i + 1] /\ i + 1 \in 1 .. Len(queue)
    BY <1>1, <1>3
  <2>3. Elements(rest) \subseteq Elements(queue) \ {Head(queue)}
    BY <1>4, <1>7, <1>8, <2>2 DEF Elements
  <2>4. Elements(queue) \ {Head(queue)} \subseteq Elements(rest)
    BY <2>1 DEF Elements
  <2> QED BY <2>3, <2>4
<1>10. IsFiniteSet(Ordinaries(queue))
  <2>1. Ordinaries(queue) \subseteq 1 .. Len(queue) /\ IsFiniteSet(1 .. Len(queue))
    BY <1>1, FS_Interval DEF Ordinaries
  <2> QED BY <2>1, FS_Subset
<1> DEFINE shift == [i \in Ordinaries(rest) |-> i + 1]
<1>11. shift \in Injection(Ordinaries(rest), Ordinaries(queue))
  <2>1. \A i \in Ordinaries(rest) :
          i \in 1 .. Len(queue) - 1 /\ i + 1 \in Ordinaries(queue)
    BY <1>1, <1>3 DEF Ordinaries
  <2>2. \A i, j \in Ordinaries(rest) : shift[i] = shift[j] => i = j
    BY <2>1
  <2>3. shift \in [Ordinaries(rest) -> Ordinaries(queue)]
    BY <2>1
  <2> HIDE DEF shift
  <2> QED BY <2>2, <2>3 DEF Injection, IsInjective
<1>12. OrdinaryCount(rest) <= OrdinaryCount(queue)
  BY <1>10, <1>11, FS_Injection DEF OrdinaryCount
<1>13. Head(queue) \in Elements(queue)
  BY <1>1, <1>4 DEF Elements
<1> QED BY <1>3, <1>4, <1>5, <1>6, <1>8, <1>9, <1>12, <1>13 DEF rest

-----------------------------------------------------------------------------
(* The inductive invariant *)

LEMMA FailureIsNoSilence == <<>> # <<FALSE>>
<1>1. Len(<<>>) = 0 /\ Len(<<FALSE>>) = 1
  OBVIOUS
<1> QED BY <1>1

LEMMA OrdinaryCountIsNat ==
  ASSUME NEW queue \in Seq(Frames)
  PROVE  Len(queue) \in Nat /\ OrdinaryCount(queue) \in Nat
<1>1. Len(queue) \in Nat
  BY LenProperties
<1>2. IsFiniteSet(1 .. Len(queue)) /\ Ordinaries(queue) \in SUBSET (1 .. Len(queue))
  BY <1>1, FS_Interval DEF Ordinaries
<1>3. IsFiniteSet(Ordinaries(queue))
  BY <1>2, FS_Subset
<1>4. Cardinality(Ordinaries(queue)) \in Nat
  BY <1>3, FS_CardinalityType
<1> QED BY <1>1, <1>4 DEF OrdinaryCount

LEMMA InitIInv == Init => IInv
<1> SUFFICES ASSUME Init PROVE IInv
  OBVIOUS
<1> USE DEF Init
<1>1. sendQueue \in Seq(Frames) /\ Len(sendQueue) = 0
  OBVIOUS
<1>2. TypeOK
  BY TransportAssumption DEF TypeOK, Counters, Calls
<1>3. QueueOrdered
  BY DEF QueueOrdered, Ordered
<1>4. ReserveKept
  <2>1. OrdinaryCount(sendQueue) = 0
    <3>1. Ordinaries(sendQueue) = {}
      BY <1>1 DEF Ordinaries
    <3> QED BY <3>1, FS_EmptySet, Zenon DEF OrdinaryCount
  <2> QED BY <2>1, TransportAssumption DEF ReserveKept
<1>5. OneFrameWithDriver
  BY DEF OneFrameWithDriver
<1>6. Waiting = {} /\ Held = {}
  BY DEF Waiting, Held, Elements
<1>7. FramesAccountedFor
  BY <1>6 DEF FramesAccountedFor, Calls
<1>8. ReportedExactlyOnce
  BY DEF ReportedExactlyOnce
<1>9. EmergencyNotGivenUp
  BY DEF EmergencyNotGivenUp
<1> QED BY <1>2, <1>3, <1>4, <1>5, <1>7, <1>8, <1>9 DEF IInv

\* What IInv says of the frames held, in the form the steps need it.
LEMMA HeldFacts ==
  ASSUME IInv
  PROVE  /\ Waiting \subseteq Frames
         /\ Held \subseteq Frames
         /\ \A f \in Held : f.no \in Calls /\ f.no <= Len(issued)
         /\ \A f \in Held : reports[f.no] = <<>> /\ answer[f.no] = "accepted"
         /\ \A f, g \in Held : f.no = g.no => f = g
         /\ current \notin Waiting
<1> USE DEF IInv
<1>1. Waiting \subseteq Frames
  BY ElementOfSeq DEF TypeOK, Waiting, Elements
<1>2. Held \subseteq Frames
  BY <1>1 DEF TypeOK, Held
<1>3. \A f \in Held : f.no \in Calls /\ f.no <= Len(issued)
  BY <1>2 DEF FramesAccountedFor, Frames
<1>4. ASSUME NEW f \in Held PROVE reports[f.no] = <<>> /\ answer[f.no] = "accepted"
  <2>1. f.no \in HeldNos /\ f.no \in Calls /\ reports[f.no] \in Seq(BOOLEAN)
    BY <1>3 DEF HeldNos, TypeOK
  <2>2. Len(reports[f.no]) = 0
    BY <2>1 DEF ReportedExactlyOnce
  <2>3. reports[f.no] = <<>>
    BY <2>1, <2>2, EmptySeq
  <2> QED BY <2>3 DEF FramesAccountedFor
<1>5. ASSUME NEW f \in Held, NEW g \in Held, f.no = g.no PROVE f = g
  <2>1. f.priority = g.priority
    BY <1>5 DEF FramesAccountedFor
  <2> QED BY <1>2, <1>5, <2>1 DEF Frames
<1>6. current \notin Waiting
  <2>1. SUFFICES ASSUME current \in Waiting PROVE FALSE
    OBVIOUS
  <2>2. current # NoFrame
    BY <1>1, <2>1, TransportAssumption DEF Frames, Calls
  <2>3. attempts[current.no] = 0 /\ attempts[current.no] = currentRetries + 1
    BY <2>1, <2>2 DEF FramesAccountedFor
  <2> QED BY <2>3 DEF TypeOK
<1> QED BY <1>1, <1>2, <1>3, <1>4, <1>5, <1>6

\* What every call of SendRawFrame does before it looks at the queue.
LEMMA NewCallFacts ==
  ASSUME IInv, NEW id \in Ids, Len(issued) < MaxSends,
         issued' = Append(issued, PriorityOf(id)),
         NEW frame, frame = [no |-> Len(issued) + 1, priority |-> PriorityOf(id)]
  PROVE  /\ frame \in Frames
         /\ frame.no \in Calls
         /\ frame.no = Len(issued) + 1
         /\ issued' \in Seq(Priorities)
         /\ Len(issued') = Len(issued) + 1
         /\ Len(issued') <= MaxSends
         /\ issued'[frame.no] = frame.priority
         /\ \A n \in 1 .. Len(issued) : issued'[n] = issued[n]
         /\ answer[frame.no] = "none"
         /\ attempts[frame.no] = 0
         /\ reports[frame.no] = <<>>
         /\ \A f \in Held : f.no < frame.no
<1> USE DEF IInv
<1>1. Len(issued) \in Nat /\ MaxSends \in Nat /\ issued \in Seq(Priorities)
  BY TransportAssumption DEF TypeOK
<1>2. PriorityOf(id) \in Priorities
  BY TransportAssumption DEF Ids, PriorityOf
<1>3. frame.no = Len(issued) + 1 /\ frame.priority = PriorityOf(id)
  OBVIOUS
<1>4. frame.no \in Calls
  BY <1>1, <1>3 DEF Calls
<1>5. frame \in Frames
  BY <1>2, <1>3, <1>4 DEF Frames
<1>6. /\ issued' \in Seq(Priorities)
      /\ Len(issued') = Len(issued) + 1
      /\ \A n \in 1 .. Len(issued) : issued'[n] = issued[n]
      /\ issued'[frame.no] = frame.priority
  BY <1>1, <1>2, <1>3, AppendProperties
<1>7. answer[frame.no] = "none"
  BY <1>1, <1>3, <1>4 DEF FramesAccountedFor
<1>8. attempts[frame.no] = 0
  BY <1>4, <1>7 DEF FramesAccountedFor
<1>9. reports[frame.no] = <<>>
  <2>1. Len(reports[frame.no]) = 0 /\ reports[frame.no] \in Seq(BOOLEAN)
    BY <1>4, <1>7 DEF ReportedExactlyOnce, TypeOK
  <2> QED BY <2>1, EmptySeq
<1>10. \A f \in Held : f.no < frame.no
  BY <1>1, <1>3, HeldFacts, PrioritiesAreNumbers
<1> QED BY <1>1, <1>3, <1>4, <1>5, <1>6, <1>7, <1>8, <1>9, <1>10

\* A call that hands nothing to the driver leaves the account of the others as
\* it was.
LEMMA CallKeepsAccount ==
  ASSUME IInv, NEW frame \in Frames, frame.no \in Calls, frame.no = Len(issued) + 1,
         Len(issued') = Len(issued) + 1,
         \A n \in 1 .. Len(issued) : issued'[n] = issued[n],
         attempts[frame.no] = 0, UNCHANGED attempts,
         NEW a \in {"accepted", "refused"},
         answer' = [answer EXCEPT ![frame.no] = a]
  PROVE  /\ \A n \in Calls : answer'[n] = "none" <=> n > Len(issued')
         /\ \A n \in Calls : answer'[n] = "none" => attempts'[n] = 0
         /\ \A f \in Held : /\ f.no <= Len(issued')
                            /\ issued'[f.no] = f.priority
                            /\ answer'[f.no] = "accepted"
<1> USE DEF IInv
<1>1. Len(issued) \in Nat /\ answer \in [Calls -> {"none", "accepted", "refused"}]
  BY LenProperties DEF TypeOK
<1>2. \A n \in Calls : answer'[n] = IF n = frame.no THEN a ELSE answer[n]
  BY <1>1
<1>3. \A n \in Calls : n \in Int /\ (answer[n] = "none" <=> n > Len(issued))
  BY TransportAssumption DEF FramesAccountedFor, Calls
<1>4. \A n \in Calls : answer'[n] = "none" <=> n > Len(issued')
  BY <1>1, <1>2, <1>3
<1>5. \A n \in Calls : answer'[n] = "none" => attempts'[n] = 0
  BY <1>2 DEF FramesAccountedFor
<1>6. ASSUME NEW f \in Held
      PROVE  /\ f.no <= Len(issued')
             /\ issued'[f.no] = f.priority
             /\ answer'[f.no] = "accepted"
  <2>1. f.no \in Calls /\ f.no <= Len(issued) /\ f.no \in 1 .. Len(issued)
    BY <1>1, HeldFacts, TransportAssumption DEF Calls
  <2>2. f.no # frame.no /\ f.no <= Len(issued')
    BY <1>1, <2>1
  <2>3. issued[f.no] = f.priority /\ answer[f.no] = "accepted"
    BY DEF FramesAccountedFor
  <2> QED BY <1>2, <2>1, <2>2, <2>3
<1> QED BY <1>4, <1>5, <1>6

\* The driver was idle: nothing was held, and now the frame is with it.
LEMMA SendAtOnceStep ==
  ASSUME IInv, NEW id \in Ids, Len(issued) < MaxSends,
         issued' = Append(issued, PriorityOf(id)),
         NEW frame, frame = [no |-> Len(issued) + 1, priority |-> PriorityOf(id)],
         SendAtOnce(frame)
  PROVE  IInv'
<1> USE DEF IInv, SendAtOnce, Transmit, Accepted
<1>1. /\ frame \in Frames
      /\ frame.no \in Calls
      /\ frame.no = Len(issued) + 1
      /\ issued' \in Seq(Priorities)
      /\ Len(issued') = Len(issued) + 1
      /\ Len(issued') <= MaxSends
      /\ issued'[frame.no] = frame.priority
      /\ \A n \in 1 .. Len(issued) : issued'[n] = issued[n]
      /\ answer[frame.no] = "none"
      /\ attempts[frame.no] = 0
      /\ reports[frame.no] = <<>>
  BY NewCallFacts
<1>2. /\ sendQueue = <<>> /\ inFlight = <<>>
      /\ frame # NoFrame
  BY <1>1, TransportAssumption DEF OneFrameWithDriver, Frames, Calls
<1>3. inFlight' = <<frame>> /\ current' = frame /\ sendQueue' = <<>>
  BY <1>2
<1>4. /\ Waiting = {} /\ Waiting' = {}
      /\ Held = {} /\ Held' = {frame}
      /\ HeldNos = {} /\ HeldNos' = {frame.no}
  BY <1>2, <1>3 DEF Waiting, Elements, Held, HeldNos
<1>5. TypeOK'
  <2>1. inFlight' \in Seq(Frames)
    BY <1>1, AppendProperties DEF TypeOK
  <2> QED BY <1>1, <1>3, <2>1, TransportAssumption DEF TypeOK
<1>6. QueueOrdered'
  BY DEF QueueOrdered, Ordered
<1>7. ReserveKept'
  BY DEF ReserveKept, OrdinaryCount, Ordinaries
<1>8. OneFrameWithDriver'
  BY <1>2, <1>3 DEF OneFrameWithDriver
<1>9. FramesAccountedFor'
  <2>1. \A n \in Calls : answer'[n] = IF n = frame.no THEN "accepted" ELSE answer[n]
    BY <1>1 DEF TypeOK
  <2>2. \A n \in Calls : attempts'[n] = IF n = frame.no THEN 1 ELSE attempts[n]
    BY <1>1 DEF TypeOK
  <2>3. \A n \in Calls : answer'[n] = "none" <=> n > Len(issued')
    <3>1. Len(issued) \in Nat
      BY LenProperties DEF TypeOK
    <3>2. \A n \in Calls : n \in Int /\ (answer[n] = "none" <=> n > Len(issued))
      BY TransportAssumption DEF FramesAccountedFor, Calls
    <3> QED BY <1>1, <2>1, <3>1, <3>2
  <2>4. \A n \in Calls : answer'[n] = "none" => attempts'[n] = 0
    BY <2>1, <2>2 DEF FramesAccountedFor
  <2>5. \A f \in Held' : /\ f.no <= Len(issued')
                         /\ issued'[f.no] = f.priority
                         /\ answer'[f.no] = "accepted"
    BY <1>1, <1>4, <2>1, LenProperties DEF TypeOK
  <2>6. attempts'[current'.no] = currentRetries' + 1 /\ currentRetries' = 0
    BY <1>1, <1>3, <2>2
  <2> QED BY <1>4, <2>3, <2>4, <2>5, <2>6 DEF FramesAccountedFor
<1>10. ReportedExactlyOnce'
  BY <1>1, <1>4 DEF ReportedExactlyOnce, TypeOK
<1>11. EmergencyNotGivenUp'
  <2>1. ASSUME NEW n \in 1 .. Len(issued') PROVE
          IF issued'[n] = EmergencyPriority
          THEN /\ attempts'[n] <= EmergencyRetryLimit + 1
               /\ Lost(n)' => attempts'[n] = EmergencyRetryLimit + 1
          ELSE attempts'[n] <= 1
    <3>1. CASE n = frame.no
      <4>1. attempts'[n] = 1
        BY <1>1, <3>1 DEF TypeOK
      <4>2. ~Lost(n)'
        BY <1>1, <3>1, FailureIsNoSilence, Zenon DEF Lost
      <4> QED BY <4>1, <4>2, TransportAssumption
    <3>2. CASE n # frame.no
      <4>1. n \in 1 .. Len(issued)
        BY <1>1, <3>2 DEF TypeOK
      <4>2. attempts'[n] = attempts[n] /\ reports'[n] = reports[n] /\ issued'[n] = issued[n]
        BY <1>1, <3>2, <4>1 DEF TypeOK
      <4>3. Lost(n)' <=> Lost(n)
        BY <4>2 DEF Lost
      <4> QED BY <4>1, <4>2, <4>3 DEF EmergencyNotGivenUp
    <3> QED BY <3>1, <3>2
  <2> QED BY <2>1 DEF EmergencyNotGivenUp
<1> QED BY <1>5, <1>6, <1>7, <1>8, <1>9, <1>10, <1>11

\* A call that hands nothing to the driver and reports no emergency keeps what
\* EmergencyNotGivenUp says.
LEMMA EmergencyNotGivenUpKept ==
  ASSUME IInv, NEW frame \in Frames, frame.no = Len(issued) + 1,
         issued' \in Seq(Priorities), Len(issued') = Len(issued) + 1,
         \A n \in 1 .. Len(issued) : issued'[n] = issued[n],
         attempts[frame.no] = 0, UNCHANGED attempts,
         reports'[frame.no] = <<>>,
         \A n \in 1 .. Len(issued) :
           reports'[n] = reports[n] \/ issued[n] # EmergencyPriority
  PROVE  EmergencyNotGivenUp'
<1> USE DEF IInv
<1>1. SUFFICES ASSUME NEW n \in 1 .. Len(issued')
      PROVE IF issued'[n] = EmergencyPriority
            THEN /\ attempts'[n] <= EmergencyRetryLimit + 1
                 /\ Lost(n)' => attempts'[n] = EmergencyRetryLimit + 1
            ELSE attempts'[n] <= 1
  BY DEF EmergencyNotGivenUp
<1>2. CASE n = frame.no
  <2>1. attempts'[n] = 0
    BY <1>2
  <2>2. ~Lost(n)'
    BY <1>2, FailureIsNoSilence, Zenon DEF Lost
  <2> QED BY <2>1, <2>2, TransportAssumption
<1>3. CASE n # frame.no
  <2>1. n \in 1 .. Len(issued) /\ issued'[n] = issued[n]
    BY <1>3 DEF TypeOK
  <2>2. (Lost(n)' <=> Lost(n)) \/ issued[n] # EmergencyPriority
    BY <2>1 DEF Lost
  <2> QED BY <2>1, <2>2 DEF EmergencyNotGivenUp
<1> QED BY <1>2, <1>3

LEMMA EnqueueStep ==
  ASSUME IInv, NEW id \in Ids, Len(issued) < MaxSends,
         issued' = Append(issued, PriorityOf(id)),
         NEW frame, frame = [no |-> Len(issued) + 1, priority |-> PriorityOf(id)],
         Enqueue(frame)
  PROVE  IInv'
<1> USE DEF IInv, Enqueue, Accepted
<1>1. /\ frame \in Frames
      /\ frame.no \in Calls
      /\ frame.no = Len(issued) + 1
      /\ issued' \in Seq(Priorities)
      /\ Len(issued') = Len(issued) + 1
      /\ Len(issued') <= MaxSends
      /\ issued'[frame.no] = frame.priority
      /\ \A n \in 1 .. Len(issued) : issued'[n] = issued[n]
      /\ answer[frame.no] = "none"
      /\ attempts[frame.no] = 0
      /\ reports[frame.no] = <<>>
      /\ \A f \in Held : f.no < frame.no
  BY NewCallFacts
<1>2. sendQueue \in Seq(Frames) /\ sendQueue' = Insert(sendQueue, frame)
  BY DEF TypeOK
<1>3. /\ sendQueue' \in Seq(Frames)
      /\ Len(sendQueue') = Len(sendQueue) + 1
      /\ Waiting' = Waiting \cup {frame}
      /\ OrdinaryCount(sendQueue') =
           OrdinaryCount(sendQueue) + (IF IsEmergency(frame) THEN 0 ELSE 1)
  <2>1. sendQueue' \in Seq(Frames) /\ Len(sendQueue') = Len(sendQueue) + 1
    BY <1>1, <1>2, InsertShape
  <2>2. Waiting' = Waiting \cup {frame}
    BY <1>1, <1>2, InsertElements, Zenon DEF Waiting
  <2>3. OrdinaryCount(sendQueue') =
          OrdinaryCount(sendQueue) + (IF IsEmergency(frame) THEN 0 ELSE 1)
    BY <1>1, <1>2, InsertOrdinaryCount
  <2> QED BY <2>1, <2>2, <2>3
<1>4. /\ Held' = Held \cup {frame}
      /\ HeldNos' = HeldNos \cup {frame.no}
  BY <1>3 DEF Held, HeldNos
<1>5. TypeOK'
  BY <1>1, <1>3 DEF TypeOK
<1>6. QueueOrdered'
  <2>1. \A i \in 1 .. Len(sendQueue) : sendQueue[i].no < frame.no
    BY <1>1 DEF Held, Waiting, Elements
  <2> QED BY <1>1, <1>2, <2>1, InsertOrdered DEF QueueOrdered
<1>7. ReserveKept'
  <2>1. Len(sendQueue) \in Nat /\ OrdinaryCount(sendQueue) \in Nat
    BY <1>2, OrdinaryCountIsNat
  <2> QED BY <1>3, <2>1, TransportAssumption DEF ReserveKept, HasRoom
<1>8. OneFrameWithDriver'
  BY DEF OneFrameWithDriver
<1>9. FramesAccountedFor'
  <2>1. /\ \A n \in Calls : answer'[n] = "none" <=> n > Len(issued')
        /\ \A n \in Calls : answer'[n] = "none" => attempts'[n] = 0
        /\ \A f \in Held : /\ f.no <= Len(issued')
                           /\ issued'[f.no] = f.priority
                           /\ answer'[f.no] = "accepted"
    BY <1>1, CallKeepsAccount
  <2>2. /\ frame.no <= Len(issued')
        /\ issued'[frame.no] = frame.priority
        /\ answer'[frame.no] = "accepted"
    BY <1>1, LenProperties DEF TypeOK
  <2>3. \A f \in Waiting' : attempts'[f.no] = 0
    BY <1>1, <1>3 DEF FramesAccountedFor
  <2> QED BY <1>4, <2>1, <2>2, <2>3 DEF FramesAccountedFor
<1>10. ReportedExactlyOnce'
  BY <1>1, <1>4 DEF ReportedExactlyOnce, TypeOK
<1>11. EmergencyNotGivenUp'
  BY <1>1, EmergencyNotGivenUpKept
<1> QED BY <1>5, <1>6, <1>7, <1>8, <1>9, <1>10, <1>11

LEMMA RefuseStep ==
  ASSUME IInv, NEW id \in Ids, Len(issued) < MaxSends,
         issued' = Append(issued, PriorityOf(id)),
         NEW frame, frame = [no |-> Len(issued) + 1, priority |-> PriorityOf(id)],
         Refuse(frame)
  PROVE  IInv'
<1> USE DEF IInv, Refuse
<1>1. /\ frame \in Frames
      /\ frame.no \in Calls
      /\ frame.no = Len(issued) + 1
      /\ issued' \in Seq(Priorities)
      /\ Len(issued') = Len(issued) + 1
      /\ Len(issued') <= MaxSends
      /\ \A n \in 1 .. Len(issued) : issued'[n] = issued[n]
      /\ answer[frame.no] = "none"
      /\ attempts[frame.no] = 0
      /\ reports[frame.no] = <<>>
      /\ \A f \in Held : f.no < frame.no
  BY NewCallFacts
<1>2. Waiting' = Waiting /\ Held' = Held /\ HeldNos' = HeldNos
  BY DEF Waiting, Held, HeldNos
<1>3. TypeOK'
  <2>1. counters' \in Counters
    <3>1. counters \in Counters
      BY DEF TypeOK
    <3>2. /\ [counters EXCEPT !.emergencyDrops = @ + 1] \in Counters
          /\ [counters EXCEPT !.ordinaryDrops = @ + 1] \in Counters
      BY <3>1, SMTT(30) DEF Counters
    <3> QED BY <3>2, ZenonT(30)
  <2> QED BY <1>1, <2>1 DEF TypeOK
<1>4. QueueOrdered' /\ ReserveKept' /\ OneFrameWithDriver'
  BY DEF QueueOrdered, ReserveKept, OneFrameWithDriver
<1>5. FramesAccountedFor'
  <2>1. /\ \A n \in Calls : answer'[n] = "none" <=> n > Len(issued')
        /\ \A n \in Calls : answer'[n] = "none" => attempts'[n] = 0
        /\ \A f \in Held : /\ f.no <= Len(issued')
                           /\ issued'[f.no] = f.priority
                           /\ answer'[f.no] = "accepted"
    BY <1>1, CallKeepsAccount
  <2> QED BY <1>2, <2>1 DEF FramesAccountedFor
<1>6. ReportedExactlyOnce'
  BY <1>1, <1>2 DEF ReportedExactlyOnce, TypeOK
<1>7. EmergencyNotGivenUp'
  BY <1>1, EmergencyNotGivenUpKept
<1> QED BY <1>3, <1>4, <1>5, <1>6, <1>7

\* sendQueue.back() is never taken of an empty queue: a queue without room for
\* some frame holds one.
LEMMA FullQueueHasBack ==
  ASSUME NEW queue \in Seq(Frames), NEW frame \in Frames, ~HasRoom(queue, frame)
  PROVE  queue # <<>>
<1> SUFFICES ASSUME queue = <<>> PROVE FALSE
  OBVIOUS
<1>1. Len(queue) = 0
  OBVIOUS
<1>2. OrdinaryCount(queue) = 0
  <2>1. Ordinaries(queue) = {}
    BY <1>1 DEF Ordinaries
  <2> QED BY <2>1, FS_EmptySet, Zenon DEF OrdinaryCount
<1> HIDE DEF HasRoom
<1>3. 0 < QueueDepth /\ 0 < QueueDepth - EmergencyReserve
  BY TransportAssumption
<1> QED BY <1>1, <1>2, <1>3 DEF HasRoom

LEMMA DisplaceStep ==
  ASSUME IInv, NEW id \in Ids, Len(issued) < MaxSends,
         issued' = Append(issued, PriorityOf(id)),
         NEW frame, frame = [no |-> Len(issued) + 1, priority |-> PriorityOf(id)],
         DisplaceNewestLeastUrgent(frame)
  PROVE  IInv'
<1> USE DEF IInv, DisplaceNewestLeastUrgent, Accepted, Report
<1> DEFINE back == Back(sendQueue)
           short == WithoutBack(sendQueue)
<1>1. /\ frame \in Frames
      /\ frame.no \in Calls
      /\ frame.no = Len(issued) + 1
      /\ issued' \in Seq(Priorities)
      /\ Len(issued') = Len(issued) + 1
      /\ Len(issued') <= MaxSends
      /\ issued'[frame.no] = frame.priority
      /\ \A n \in 1 .. Len(issued) : issued'[n] = issued[n]
      /\ answer[frame.no] = "none"
      /\ attempts[frame.no] = 0
      /\ reports[frame.no] = <<>>
      /\ \A f \in Held : f.no < frame.no
  BY NewCallFacts
<1>2. /\ sendQueue \in Seq(Frames)
      /\ Ordered(sendQueue)
      /\ sendQueue # <<>>
  BY <1>1, FullQueueHasBack DEF TypeOK, QueueOrdered
<1>3. /\ Len(sendQueue) \in Nat \ {0}
      /\ back \in Waiting
      /\ short \in Seq(Frames)
      /\ Len(short) = Len(sendQueue) - 1
      /\ Ordered(short)
      /\ Elements(short) = Waiting \ {back}
      /\ OrdinaryCount(short) = OrdinaryCount(sendQueue) - 1
  <2>1. ~IsEmergency(back)
    BY DEF MayDisplace
  <2>2. /\ Len(sendQueue) \in Nat \ {0}
        /\ back \in Elements(sendQueue)
        /\ short \in Seq(Frames)
        /\ Len(short) = Len(sendQueue) - 1
        /\ Ordered(short)
        /\ Elements(short) = Elements(sendQueue) \ {back}
        /\ OrdinaryCount(short) =
             OrdinaryCount(sendQueue) - (IF IsEmergency(back) THEN 0 ELSE 1)
    BY <1>2, WithoutBackProperties
  <2> HIDE DEF back, short
  <2> QED BY <2>1, <2>2 DEF Waiting
<1>4. /\ sendQueue' \in Seq(Frames)
      /\ Len(sendQueue') = Len(sendQueue)
      /\ Waiting' = (Waiting \ {back}) \cup {frame}
      /\ OrdinaryCount(sendQueue') =
           OrdinaryCount(sendQueue) - (IF IsEmergency(frame) THEN 1 ELSE 0)
  <2>1. sendQueue' = Insert(short, frame)
    OBVIOUS
  <2> HIDE DEF short, back
  <2>2. sendQueue' \in Seq(Frames) /\ Len(sendQueue') = Len(short) + 1
    BY <1>1, <1>3, <2>1, InsertShape
  <2>3. Waiting' = (Waiting \ {back}) \cup {frame}
    <3>1. Elements(sendQueue') = Elements(short) \cup {frame}
      BY <1>1, <1>3, <2>1, InsertElements, ZenonT(60)
    <3> QED BY <1>3, <3>1, Zenon DEF Waiting
  <2>4. OrdinaryCount(sendQueue') =
          OrdinaryCount(short) + (IF IsEmergency(frame) THEN 0 ELSE 1)
    BY <1>1, <1>3, <2>1, InsertOrdinaryCount
  <2>5. OrdinaryCount(sendQueue) \in Nat
    BY <1>2, OrdinaryCountIsNat
  <2>6. Len(sendQueue') = Len(sendQueue)
    BY <1>3, <2>2
  <2>7. OrdinaryCount(sendQueue') =
          OrdinaryCount(sendQueue) - (IF IsEmergency(frame) THEN 1 ELSE 0)
    <3>1. CASE IsEmergency(frame)
      BY <1>3, <2>4, <2>5, <3>1, SMTT(30)
    <3>2. CASE ~IsEmergency(frame)
      BY <1>3, <2>4, <2>5, <3>2
    <3> QED BY <3>1, <3>2
  <2> QED BY <2>2, <2>3, <2>6, <2>7
<1>5. /\ back \in Held /\ back # current
      /\ Held' = (Held \ {back}) \cup {frame}
  BY <1>3, <1>4, HeldFacts, TransportAssumption DEF Held
<1>6. /\ back.no \in Calls /\ back.no <= Len(issued) /\ back.no # frame.no
      /\ reports[back.no] = <<>>
      /\ answer[back.no] = "accepted"
      /\ issued[back.no] # EmergencyPriority
  <2>1. issued[back.no] = back.priority /\ ~IsEmergency(back)
    BY <1>5 DEF FramesAccountedFor, MayDisplace
  <2>2. /\ back.no \in Calls /\ back.no <= Len(issued)
        /\ reports[back.no] = <<>>
        /\ answer[back.no] = "accepted"
    BY <1>5, HeldFacts
  <2>3. back.no # frame.no
    BY <1>1, <2>2
  <2> HIDE DEF back
  <2> QED BY <2>1, <2>2, <2>3 DEF IsEmergency
<1> HIDE DEF back, short
<1>7. /\ \A n \in Calls : reports'[n] =
             IF n = back.no THEN Append(reports[n], FALSE) ELSE reports[n]
      /\ reports' \in [Calls -> Seq(BOOLEAN)]
      /\ Len(reports'[back.no]) = 1
  <2>1. reports \in [Calls -> Seq(BOOLEAN)]
    BY DEF TypeOK
  <2>2. reports' = [reports EXCEPT ![back.no] = Append(@, FALSE)]
    BY DEF back
  <2>3. Append(reports[back.no], FALSE) \in Seq(BOOLEAN)
    BY <1>6, <2>1, AppendProperties
  <2>4. Len(Append(reports[back.no], FALSE)) = 1
    BY <1>6, <2>1
  <2> QED BY <1>6, <2>1, <2>2, <2>3, <2>4
<1>8. TypeOK'
  <2>1. counters' \in Counters
    <3>1. counters \in Counters
      BY DEF TypeOK
    <3>2. [counters EXCEPT !.evictions = @ + 1] \in Counters
      BY <3>1, SMTT(30) DEF Counters
    <3> QED BY <3>2, ZenonT(30)
  <2> QED BY <1>1, <1>4, <1>7, <2>1, SMTT(30) DEF TypeOK
<1>9. QueueOrdered'
  <2>1. \A i \in 1 .. Len(short) : short[i].no < frame.no
    <3>1. \A i \in 1 .. Len(short) : short[i] \in Elements(short)
      BY DEF Elements
    <3> QED BY <1>1, <1>3, <3>1 DEF Held
  <2> QED BY <1>1, <1>3, <2>1, InsertOrdered DEF QueueOrdered, short
<1>10. ReserveKept'
  <2>1. OrdinaryCount(sendQueue) \in Nat
    BY <1>2, OrdinaryCountIsNat
  <2>2. OrdinaryCount(sendQueue') <= OrdinaryCount(sendQueue)
    BY <1>4, <2>1
  <2> QED BY <1>4, <2>1, <2>2, TransportAssumption DEF ReserveKept
<1>11. OneFrameWithDriver'
  BY DEF OneFrameWithDriver
<1>12. FramesAccountedFor'
  <2>1. /\ \A n \in Calls : answer'[n] = "none" <=> n > Len(issued')
        /\ \A n \in Calls : answer'[n] = "none" => attempts'[n] = 0
        /\ \A f \in Held : /\ f.no <= Len(issued')
                           /\ issued'[f.no] = f.priority
                           /\ answer'[f.no] = "accepted"
    BY <1>1, CallKeepsAccount
  <2>2. /\ frame.no <= Len(issued')
        /\ issued'[frame.no] = frame.priority
        /\ answer'[frame.no] = "accepted"
    BY <1>1, LenProperties DEF TypeOK
  <2>3. \A f \in Waiting' : attempts'[f.no] = 0
    BY <1>1, <1>4 DEF FramesAccountedFor
  <2>4. current' # NoFrame =>
          /\ attempts'[current'.no] = currentRetries' + 1
          /\ IsEmergency(current') \/ currentRetries' = 0
    BY DEF FramesAccountedFor
  <2> QED BY <1>5, <2>1, <2>2, <2>3, <2>4 DEF FramesAccountedFor
<1>13. ReportedExactlyOnce'
  <2>1. HeldNos' = (HeldNos \ {back.no}) \cup {frame.no}
    <3>1. \A f \in Held : f.no = back.no => f = back
      BY <1>5, HeldFacts
    <3> QED BY <1>5, <3>1 DEF HeldNos
  <2>2. ASSUME NEW n \in Calls
        PROVE  Len(reports'[n]) =
                 IF answer'[n] = "accepted" /\ n \notin HeldNos' THEN 1 ELSE 0
    <3>1. answer'[n] = IF n = frame.no THEN "accepted" ELSE answer[n]
      BY <1>1 DEF TypeOK
    <3>2. CASE n = back.no
      <4>1. Len(reports'[n]) = 1
        BY <1>7, <3>2
      <4>2. answer'[n] = "accepted" /\ n \notin HeldNos'
        BY <1>6, <2>1, <3>1, <3>2
      <4> QED BY <4>1, <4>2
    <3>3. CASE n # back.no
      <4>1. reports'[n] = reports[n]
        BY <1>7, <3>3
      <4>2. CASE n = frame.no
        <5>1. Len(reports'[n]) = 0
          <6>1. Len(<<>>) = 0
            OBVIOUS
          <6> QED BY <1>1, <4>1, <4>2, <6>1, Zenon
        <5>2. n \in HeldNos'
          BY <2>1, <4>2
        <5> QED BY <5>1, <5>2
      <4>3. CASE n # frame.no
        BY <2>1, <3>1, <3>3, <4>1, <4>3 DEF ReportedExactlyOnce
      <4> QED BY <4>2, <4>3
    <3> QED BY <3>2, <3>3
  <2> QED BY <2>2 DEF ReportedExactlyOnce
<1>14. EmergencyNotGivenUp'
  <2>1. reports'[frame.no] = <<>>
    BY <1>1, <1>6, <1>7
  <2>2. \A n \in 1 .. Len(issued) :
          reports'[n] = reports[n] \/ issued[n] # EmergencyPriority
    <3>1. \A n \in 1 .. Len(issued) : n \in Calls
      BY LenProperties, TransportAssumption DEF TypeOK, Calls
    <3> QED BY <1>6, <1>7, <3>1
  <2> QED BY <1>1, <2>1, <2>2, EmergencyNotGivenUpKept
<1> QED BY <1>8, <1>9, <1>10, <1>11, <1>12, <1>13, <1>14

\* The driver is answered; an emergency frame has a try left.
LEMMA RetryStep ==
  ASSUME IInv, inFlight # <<>>, RetryCurrent, UNCHANGED <<issued, answer, notified>>
  PROVE  IInv'
<1> USE DEF IInv, RetryCurrent, Transmit
<1>1. /\ current # NoFrame /\ current \in Frames /\ current \in Held
      /\ inFlight = <<current>>
  BY DEF OneFrameWithDriver, TypeOK, Held
<1>2. /\ current.no \in Calls /\ current.no <= Len(issued)
      /\ reports[current.no] = <<>>
      /\ current \notin Waiting
      /\ \A f \in Held : f.no = current.no => f = current
  BY <1>1, HeldFacts
<1>3. /\ issued[current.no] = EmergencyPriority
      /\ attempts[current.no] = currentRetries + 1
  BY <1>1 DEF FramesAccountedFor, IsEmergency
<1>4. inFlight' = <<current>>
  <2>1. inFlight' = Append(Tail(<<current>>), current)
    BY <1>1
  <2>2. \A f : Append(Tail(<<f>>), f) = <<f>>
    OBVIOUS
  <2> QED BY <2>1, <2>2, Zenon
<1>5. Waiting' = Waiting /\ Held' = Held /\ HeldNos' = HeldNos
  BY DEF Waiting, Held, HeldNos
<1>6. /\ currentRetries \in Nat
      /\ EmergencyRetryLimit \in Nat
      /\ currentRetries + 1 <= EmergencyRetryLimit
  BY TransportAssumption DEF TypeOK
<1>7. \A n \in Calls : attempts'[n] = IF n = current.no THEN currentRetries + 2
                                      ELSE attempts[n]
  BY <1>2, <1>3, <1>6 DEF TypeOK
<1>8. TypeOK'
  <2>1. counters' \in Counters
    <3>1. counters \in Counters
      BY DEF TypeOK
    <3>2. [counters EXCEPT !.emergencyRetries = @ + 1] \in Counters
      BY <3>1 DEF Counters
    <3> QED BY <3>2, Zenon
  <2>2. inFlight' \in Seq(Frames)
    BY <1>1, <1>4
  <2>3. attempts' \in [Calls -> Nat]
    BY <1>2, <1>3, <1>6, SMTT(30) DEF TypeOK
  <2> QED BY <1>6, <2>1, <2>2, <2>3 DEF TypeOK
<1>9. QueueOrdered' /\ ReserveKept'
  BY DEF QueueOrdered, ReserveKept
<1>10. OneFrameWithDriver'
  BY <1>1, <1>4 DEF OneFrameWithDriver
<1>11. FramesAccountedFor'
  <2>1. \A n \in Calls : answer'[n] = "none" <=> n > Len(issued')
    BY DEF FramesAccountedFor
  <2>2. \A n \in Calls : answer'[n] = "none" => attempts'[n] = 0
    BY <1>1, <1>7 DEF FramesAccountedFor
  <2>3. \A f \in Held' : /\ f.no <= Len(issued')
                         /\ issued'[f.no] = f.priority
                         /\ answer'[f.no] = "accepted"
    BY <1>5 DEF FramesAccountedFor
  <2>4. \A f \in Waiting' : attempts'[f.no] = 0
    <3>1. \A f \in Waiting : f.no \in Calls /\ f.no # current.no
      BY <1>2, HeldFacts DEF Held
    <3> QED BY <1>5, <1>7, <3>1 DEF FramesAccountedFor
  <2>5. attempts'[current'.no] = currentRetries' + 1 /\ IsEmergency(current')
    BY <1>2, <1>6, <1>7
  <2> QED BY <2>1, <2>2, <2>3, <2>4, <2>5 DEF FramesAccountedFor
<1>12. ReportedExactlyOnce'
  BY <1>5 DEF ReportedExactlyOnce
<1>13. EmergencyNotGivenUp'
  <2>1. ASSUME NEW n \in 1 .. Len(issued)
        PROVE IF issued'[n] = EmergencyPriority
              THEN /\ attempts'[n] <= EmergencyRetryLimit + 1
                   /\ Lost(n)' => attempts'[n] = EmergencyRetryLimit + 1
              ELSE attempts'[n] <= 1
    <3>1. n \in Calls
      BY LenProperties, TransportAssumption DEF TypeOK, Calls
    <3>2. CASE n = current.no
      <4>1. ~Lost(n)'
        BY <1>2, <3>2, FailureIsNoSilence, Zenon DEF Lost
      <4> QED BY <1>3, <1>6, <1>7, <3>1, <3>2, <4>1
    <3>3. CASE n # current.no
      <4>1. attempts'[n] = attempts[n] /\ (Lost(n)' <=> Lost(n))
        BY <1>7, <3>1, <3>3 DEF Lost
      <4> QED BY <4>1 DEF EmergencyNotGivenUp
    <3> QED BY <3>2, <3>3
  <2> QED BY <2>1 DEF EmergencyNotGivenUp
<1> QED BY <1>8, <1>9, <1>10, <1>11, <1>12, <1>13

\* The driver is done with current, which leaves; the next frame follows.
LEMMA ConcludeStep ==
  ASSUME IInv, inFlight # <<>>, NEW success \in BOOLEAN,
         success \/ ~IsEmergency(current) \/ currentRetries = EmergencyRetryLimit,
         ConcludeCurrent(success), UNCHANGED <<issued, answer, notified>>
  PROVE  IInv'
<1> USE DEF IInv, ConcludeCurrent, Report
<1>1. /\ current # NoFrame /\ current \in Frames /\ current \in Held
      /\ inFlight = <<current>> /\ Tail(inFlight) = <<>>
  BY DEF OneFrameWithDriver, TypeOK, Held
<1>2. /\ current.no \in Calls /\ current.no <= Len(issued)
      /\ reports[current.no] = <<>>
      /\ answer[current.no] = "accepted"
      /\ current \notin Waiting
      /\ \A f \in Held : f.no = current.no => f = current
  BY <1>1, HeldFacts
<1>3. /\ issued[current.no] = current.priority
      /\ attempts[current.no] = currentRetries + 1
      /\ IsEmergency(current) \/ currentRetries = 0
  BY <1>1 DEF FramesAccountedFor
<1>4. /\ \A n \in Calls : reports'[n] =
             IF n = current.no THEN Append(reports[n], success) ELSE reports[n]
      /\ reports' \in [Calls -> Seq(BOOLEAN)]
      /\ reports'[current.no] = <<success>>
      /\ Len(reports'[current.no]) = 1
  <2>1. reports \in [Calls -> Seq(BOOLEAN)]
    BY DEF TypeOK
  <2>2. Append(reports[current.no], success) \in Seq(BOOLEAN)
    BY <1>2, <2>1, AppendProperties
  <2>3. Append(<<>>, success) = <<success>> /\ Len(<<success>>) = 1
    OBVIOUS
  <2>4. reports' = [reports EXCEPT ![current.no] = Append(@, success)]
    OBVIOUS
  <2>5. reports'[current.no] = <<success>>
    BY <1>2, <2>1, <2>3, <2>4
  <2> QED BY <1>2, <2>1, <2>2, <2>3, <2>4, <2>5
<1>5. counters' \in Counters
  <2>1. counters \in Counters
    BY DEF TypeOK
  <2>2. /\ [counters EXCEPT !.emergencyDrops = @ + 1] \in Counters
        /\ [counters EXCEPT !.sendFailures = @ + 1] \in Counters
    BY <2>1 DEF Counters
  <2> QED BY <2>1, <2>2, Zenon DEF CountedFailure
<1>6. /\ Held' = Held \ {current}
      /\ HeldNos' = HeldNos \ {current.no}
      /\ Waiting' \subseteq Waiting
      /\ TypeOK' /\ QueueOrdered' /\ ReserveKept' /\ OneFrameWithDriver'
      /\ \A n \in Calls : /\ attempts'[n] # attempts[n] =>
                              current' # NoFrame /\ n = current'.no
                          /\ n = current.no => attempts'[n] = attempts[n]
      /\ current' # NoFrame =>
           /\ current' \in Waiting
           /\ current' \notin Waiting'
           /\ attempts'[current'.no] = 1
           /\ currentRetries' = 0
  <2>1. CASE sendQueue = <<>>
    <3>1. /\ current' = NoFrame /\ inFlight' = <<>>
          /\ UNCHANGED <<currentRetries, sendQueue, attempts>>
      BY <1>1, <2>1 DEF SendNextQueued
    <3>2. Waiting = {} /\ Waiting' = {} /\ Held = {current} /\ Held' = {}
      BY <1>1, <2>1, <3>1 DEF Waiting, Elements, Held
    <3>3. HeldNos' = HeldNos \ {current.no}
      BY <3>2 DEF HeldNos
    <3>4. TypeOK'
      BY <1>4, <1>5, <3>1 DEF TypeOK
    <3>5. QueueOrdered' /\ ReserveKept' /\ OneFrameWithDriver'
      BY <2>1, <3>1 DEF QueueOrdered, ReserveKept, OneFrameWithDriver
    <3> QED BY <3>1, <3>2, <3>3, <3>4, <3>5
  <2>2. CASE sendQueue # <<>>
    <3> DEFINE next == Head(sendQueue)
    <3>1. /\ current' = next
          /\ sendQueue' = Tail(sendQueue)
          /\ currentRetries' = 0
          /\ inFlight' = Append(<<>>, next)
          /\ attempts' = [attempts EXCEPT ![next.no] = @ + 1]
      BY <1>1, <2>2 DEF SendNextQueued, Transmit
    <3>2. /\ sendQueue \in Seq(Frames)
          /\ Ordered(sendQueue)
          /\ Len(sendQueue) \in Nat \ {0}
      BY <2>2, EmptySeq DEF TypeOK, QueueOrdered
    <3>3. /\ next \in Waiting
          /\ sendQueue' \in Seq(Frames)
          /\ Len(sendQueue') = Len(sendQueue) - 1
          /\ Ordered(sendQueue')
          /\ OrdinaryCount(sendQueue') <= OrdinaryCount(sendQueue)
      BY <2>2, <3>1, <3>2, TailProperties DEF Waiting
    <3>4. Waiting' = Waiting \ {next}
      <4>1. Elements(Tail(sendQueue)) = Waiting \ {next}
        BY <2>2, <3>2, TailProperties DEF Waiting
      <4> QED BY <3>1, <4>1, Zenon DEF Waiting
    <3> HIDE DEF next
    <3>5. /\ next \in Frames /\ next.no \in Calls /\ next # NoFrame
          /\ next # current /\ next.no # current.no
          /\ attempts[next.no] = 0
      <4>1. next \in Frames /\ next.no \in Calls
        BY <3>3, HeldFacts DEF Held
      <4>2. next # NoFrame
        BY <4>1, TransportAssumption DEF Frames, Calls
      <4>3. next # current /\ next.no # current.no
        BY <1>2, <3>3 DEF Held
      <4> QED BY <3>3, <4>1, <4>2, <4>3 DEF FramesAccountedFor
    <3>6. Held' = Held \ {current}
      BY <1>1, <1>2, <3>1, <3>3, <3>4, <3>5 DEF Held
    <3>7. HeldNos' = HeldNos \ {current.no}
      BY <1>2, <3>6 DEF HeldNos
    <3>8. \A n \in Calls : attempts'[n] = IF n = next.no THEN 1 ELSE attempts[n]
      BY <3>1, <3>5 DEF TypeOK
    <3>9. TypeOK'
      <4>1. inFlight' \in Seq(Frames)
        BY <3>1, <3>5
      <4>2. attempts' \in [Calls -> Nat]
        BY <3>1, <3>5 DEF TypeOK
      <4> QED BY <1>4, <1>5, <3>1, <3>3, <3>5, <4>1, <4>2, TransportAssumption DEF TypeOK
    <3>10. QueueOrdered'
      BY <3>3 DEF QueueOrdered
    <3>11. ReserveKept'
      <4>1. /\ OrdinaryCount(sendQueue) \in Nat
            /\ OrdinaryCount(sendQueue') \in Nat
        BY <3>2, <3>3, OrdinaryCountIsNat
      <4> QED BY <3>2, <3>3, <4>1, TransportAssumption DEF ReserveKept
    <3>12. OneFrameWithDriver'
      BY <3>1, <3>5 DEF OneFrameWithDriver
    <3> QED BY <3>1, <3>3, <3>4, <3>5, <3>6, <3>7, <3>8, <3>9, <3>10, <3>11, <3>12
  <2> QED BY <2>1, <2>2
<1>7. FramesAccountedFor'
  <2>1. \A n \in Calls : answer'[n] = "none" <=> n > Len(issued')
    BY DEF FramesAccountedFor
  <2>2. \A n \in Calls : answer'[n] = "none" => attempts'[n] = 0
    <3>1. \A f \in Waiting : answer[f.no] = "accepted"
      BY DEF FramesAccountedFor, Held
    <3> QED BY <1>6, <3>1 DEF FramesAccountedFor
  <2>3. \A f \in Held' : /\ f.no <= Len(issued')
                         /\ issued'[f.no] = f.priority
                         /\ answer'[f.no] = "accepted"
    BY <1>6 DEF FramesAccountedFor
  <2>4. \A f \in Waiting' : attempts'[f.no] = 0
    <3>1. ASSUME NEW f \in Waiting' PROVE attempts'[f.no] = attempts[f.no]
      <4>1. f \in Waiting /\ f.no \in Calls
        BY <1>6, HeldFacts DEF Held
      <4>2. current' # NoFrame => f.no # current'.no
        BY <1>6, <4>1, HeldFacts DEF Held
      <4> QED BY <1>6, <4>1, <4>2
    <3> QED BY <1>6, <3>1 DEF FramesAccountedFor
  <2>5. current' # NoFrame => attempts'[current'.no] = currentRetries' + 1 /\ currentRetries' = 0
    BY <1>6
  <2> QED BY <2>1, <2>2, <2>3, <2>4, <2>5 DEF FramesAccountedFor
<1>8. ReportedExactlyOnce'
  <2>1. ASSUME NEW n \in Calls
        PROVE  Len(reports'[n]) =
                 IF answer'[n] = "accepted" /\ n \notin HeldNos' THEN 1 ELSE 0
    <3>1. CASE n = current.no
      <4>1. Len(reports'[n]) = 1
        BY <1>4, <3>1
      <4>2. answer'[n] = "accepted" /\ n \notin HeldNos'
        BY <1>2, <1>6, <3>1
      <4> QED BY <4>1, <4>2
    <3>2. CASE n # current.no
      <4>1. reports'[n] = reports[n] /\ (n \in HeldNos' <=> n \in HeldNos)
        BY <1>4, <1>6, <3>2
      <4> QED BY <4>1 DEF ReportedExactlyOnce
    <3> QED BY <3>1, <3>2
  <2> QED BY <2>1 DEF ReportedExactlyOnce
<1>9. EmergencyNotGivenUp'
  <2>1. ASSUME NEW n \in 1 .. Len(issued)
        PROVE IF issued'[n] = EmergencyPriority
              THEN /\ attempts'[n] <= EmergencyRetryLimit + 1
                   /\ Lost(n)' => attempts'[n] = EmergencyRetryLimit + 1
              ELSE attempts'[n] <= 1
    <3>1. n \in Calls /\ EmergencyRetryLimit \in Nat /\ issued'[n] = issued[n]
      BY LenProperties, TransportAssumption DEF TypeOK, Calls
    <3>2. CASE n = current.no
      <4>1. attempts'[n] = currentRetries + 1 /\ currentRetries \in 0 .. EmergencyRetryLimit
        BY <1>3, <1>6, <3>1, <3>2 DEF TypeOK
      <4>2. Lost(n)' => ~success
        <5>1. <<TRUE>> # <<FALSE>>
          <6>1. <<TRUE>>[1] = TRUE /\ <<FALSE>>[1] = FALSE
            OBVIOUS
          <6> QED BY <6>1
        <5>2. reports'[n] = <<success>>
          BY <1>4, <3>2
        <5> QED BY <5>1, <5>2, Zenon DEF Lost
      <4>3. Lost(n)' /\ issued[n] = EmergencyPriority => currentRetries = EmergencyRetryLimit
        BY <1>3, <3>2, <4>2 DEF IsEmergency
      <4>4. issued[n] # EmergencyPriority => currentRetries = 0
        BY <1>3, <3>2 DEF IsEmergency
      <4> QED BY <3>1, <4>1, <4>3, <4>4
    <3>3. CASE n # current.no /\ attempts'[n] # attempts[n]
      <4>1. current' # NoFrame /\ n = current'.no /\ current' \in Waiting
        BY <1>6, <3>1, <3>3
      <4>2. attempts'[n] = 1
        BY <1>6, <4>1
      <4>3. reports'[n] = <<>>
        BY <1>4, <3>1, <3>3, <4>1, HeldFacts DEF Held
      <4>4. ~Lost(n)'
        BY <4>3, FailureIsNoSilence, Zenon DEF Lost
      <4> QED BY <3>1, <4>2, <4>4
    <3>4. CASE n # current.no /\ attempts'[n] = attempts[n]
      <4>1. Lost(n)' <=> Lost(n)
        BY <1>4, <3>1, <3>4 DEF Lost
      <4> QED BY <3>1, <3>4, <4>1 DEF EmergencyNotGivenUp
    <3> QED BY <3>2, <3>3, <3>4
  <2> QED BY <2>1 DEF EmergencyNotGivenUp
<1> QED BY <1>6, <1>7, <1>8, <1>9

\* IInv is an invariant of the transport, for every depth, reserve and limit.
THEOREM TransportInvariant == Spec => []IInv
<1>1. Init => IInv
  BY InitIInv
<1>2. IInv /\ [Next]_vars => IInv'
  <2> SUFFICES ASSUME IInv, [Next]_vars PROVE IInv'
    OBVIOUS
  <2>1. ASSUME NEW id \in Ids, SendRawFrame(id) PROVE IInv'
    <3> DEFINE frame == [no |-> Len(issued) + 1, priority |-> PriorityOf(id)]
    <3>1. /\ Len(issued) < MaxSends
          /\ issued' = Append(issued, PriorityOf(id))
          /\ \/ SendAtOnce(frame)
             \/ Enqueue(frame)
             \/ DisplaceNewestLeastUrgent(frame)
             \/ Refuse(frame)
      BY <2>1 DEF SendRawFrame
    <3>2. frame = [no |-> Len(issued) + 1, priority |-> PriorityOf(id)]
      OBVIOUS
    <3> HIDE DEF frame
    <3>3. CASE SendAtOnce(frame)
      BY <3>1, <3>2, <3>3, SendAtOnceStep
    <3>4. CASE Enqueue(frame)
      BY <3>1, <3>2, <3>4, EnqueueStep
    <3>5. CASE DisplaceNewestLeastUrgent(frame)
      BY <3>1, <3>2, <3>5, DisplaceStep
    <3>6. CASE Refuse(frame)
      BY <3>1, <3>2, <3>6, RefuseStep
    <3> QED BY <3>1, <3>3, <3>4, <3>5, <3>6
  <2>2. ASSUME NEW success \in BOOLEAN, OnSendComplete(success) PROVE IInv'
    <3>1. CASE ~success /\ RetryCurrent
      BY <2>2, <3>1, RetryStep DEF OnSendComplete
    <3>2. CASE /\ success \/ ~IsEmergency(current) \/ currentRetries = EmergencyRetryLimit
               /\ ConcludeCurrent(success)
      BY <2>2, <3>2, ConcludeStep DEF OnSendComplete
    <3> QED BY <2>2, <3>1, <3>2 DEF OnSendComplete
  <2>3. CASE UNCHANGED vars
    BY <2>3 DEF IInv, vars, transportVars, historyVars, TypeOK, QueueOrdered,
       ReserveKept, OneFrameWithDriver, FramesAccountedFor, ReportedExactlyOnce,
       EmergencyNotGivenUp, Lost, Held, HeldNos, Waiting
  <2> QED BY <2>1, <2>2, <2>3 DEF Next
<1> QED BY <1>1, <1>2, PTL DEF Spec

\* Every variable keeps its type, for every queue depth, reserve and retry limit.
THEOREM TransportTypes == Spec => []TypeOK
BY TransportInvariant, PTL DEF IInv

\* onDone runs exactly once for an accepted frame, when the transport lets go
\* of it, and never for a refused one.
THEOREM FramesReportedOnce == Spec => []ReportedExactlyOnce
BY TransportInvariant, PTL DEF IInv

\* An accepted emergency is reported lost only after its last retransmission.
THEOREM EmergenciesAreTriedAgain == Spec => []EmergencyNotGivenUp
BY TransportInvariant, PTL DEF IInv

\* The queue never overflows, and the reserve never holds ordinary frames.
THEOREM ReserveIsForEmergencies == Spec => []ReserveKept
BY TransportInvariant, PTL DEF IInv

\* The driver holds one frame at a time, and it is `current'.
THEOREM DriverHoldsCurrent == Spec => []OneFrameWithDriver
BY TransportInvariant, PTL DEF IInv

-----------------------------------------------------------------------------
(* Refusals *)

\* In an ordered queue nothing is less urgent than the back.
LEMMA BackIsLast ==
  ASSUME NEW queue \in Seq(Frames), queue # <<>>, Ordered(queue)
  PROVE  /\ Back(queue) \in Elements(queue)
         /\ \A f \in Elements(queue) : f = Back(queue) \/ Before(f, Back(queue))
         /\ \A f \in Elements(queue) : f.priority <= Back(queue).priority
<1>1. Len(queue) \in Nat \ {0}
  BY EmptySeq
<1>2. \A f \in Elements(queue) : f.priority \in Nat
  BY ElementOfSeq, PrioritiesAreNumbers DEF Elements
<1>3. ASSUME NEW f \in Elements(queue) PROVE f = Back(queue) \/ Before(f, Back(queue))
  <2>1. PICK i \in 1 .. Len(queue) : f = queue[i]
    BY DEF Elements
  <2>2. CASE i = Len(queue)
    BY <2>1, <2>2 DEF Back
  <2>3. CASE i < Len(queue)
    BY <1>1, <2>1, <2>3 DEF Back, Ordered
  <2> QED BY <1>1, <2>2, <2>3
<1>4. Back(queue) \in Elements(queue)
  BY <1>1 DEF Back, Elements
<1> QED BY <1>2, <1>3, <1>4 DEF Before

\* When the back does not give way to a frame, nothing in the queue would.
LEMMA RefusalIsFair ==
  ASSUME NEW queue \in Seq(Frames), queue # <<>>, Ordered(queue),
         NEW frame \in Frames, ~MayDisplace(queue, frame)
  PROVE  \A f \in Elements(queue) : f.priority <= frame.priority
<1>1. /\ \A f \in Elements(queue) : f \in Frames /\ f.priority \in Nat
      /\ frame.priority \in Nat /\ EmergencyPriority \in Nat
      /\ EmergencyPriority <= frame.priority
  BY ElementOfSeq, PrioritiesAreNumbers DEF Elements
<1>2. Back(queue).priority <= frame.priority
  <2>1. Back(queue) \in Elements(queue)
    BY BackIsLast
  <2>2. CASE IsEmergency(Back(queue))
    BY <1>1, <2>2 DEF IsEmergency
  <2>3. CASE ~IsEmergency(Back(queue))
    BY <1>1, <2>1, <2>3 DEF MayDisplace
  <2> QED BY <2>2, <2>3
<1>3. \A f \in Elements(queue) : f.priority <= Back(queue).priority
  BY BackIsLast
<1> QED BY <1>1, <1>2, <1>3, BackIsLast

\* A frame is refused only when nothing that waits is less urgent than it.
THEOREM RefusalsAreFair == Spec => RefusedOnlyWhenNothingYields
<1>1. IInv /\ [Next]_vars =>
        [\A n \in Calls :
           ~Refused(n) /\ Refused(n)' =>
             \A frame \in Waiting : frame.priority <= issued'[n]]_vars
  <2> SUFFICES ASSUME IInv, [Next]_vars
               PROVE  [\A n \in Calls :
                         ~Refused(n) /\ Refused(n)' =>
                           \A f \in Waiting : f.priority <= issued'[n]]_vars
    OBVIOUS
  <2> USE DEF IInv
  <2>1. CASE UNCHANGED vars
    BY <2>1
  <2>2. ASSUME NEW success \in BOOLEAN, OnSendComplete(success)
        PROVE  \A n \in Calls : Refused(n)' => Refused(n)
    BY <2>2 DEF OnSendComplete, Refused
  <2>3. ASSUME NEW id \in Ids, SendRawFrame(id), NEW n \in Calls, ~Refused(n), Refused(n)'
        PROVE  \A f \in Waiting : f.priority <= issued'[n]
    <3> DEFINE frame == [no |-> Len(issued) + 1, priority |-> PriorityOf(id)]
    <3>1. /\ Len(issued) < MaxSends
          /\ issued' = Append(issued, PriorityOf(id))
          /\ \/ SendAtOnce(frame)
             \/ Enqueue(frame)
             \/ DisplaceNewestLeastUrgent(frame)
             \/ Refuse(frame)
      BY <2>3 DEF SendRawFrame
    <3>2. frame = [no |-> Len(issued) + 1, priority |-> PriorityOf(id)]
      OBVIOUS
    <3> HIDE DEF frame
    <3>3. /\ frame \in Frames /\ frame.no \in Calls
          /\ issued'[frame.no] = frame.priority
      BY <3>1, <3>2, NewCallFacts
    <3>4. answer \in [Calls -> {"none", "accepted", "refused"}]
      BY DEF TypeOK
    <3>5. n = frame.no /\ Refuse(frame)
      <4>1. CASE answer' = [answer EXCEPT ![frame.no] = "accepted"]
        BY <2>3, <3>3, <3>4, <4>1 DEF Refused
      <4>2. CASE Refuse(frame)
        BY <2>3, <3>3, <3>4, <4>2 DEF Refused, Refuse
      <4> QED BY <3>1, <4>1, <4>2 DEF SendAtOnce, Enqueue, DisplaceNewestLeastUrgent, Accepted
    <3>6. /\ sendQueue \in Seq(Frames) /\ Ordered(sendQueue) /\ sendQueue # <<>>
          /\ ~MayDisplace(sendQueue, frame)
      BY <3>3, <3>5, FullQueueHasBack DEF TypeOK, QueueOrdered, Refuse
    <3>7. \A f \in Elements(sendQueue) : f.priority <= frame.priority
      BY <3>3, <3>6, RefusalIsFair
    <3> QED BY <3>3, <3>5, <3>7 DEF Waiting
  <2> QED BY <2>1, <2>2, <2>3 DEF Next
<1> QED BY <1>1, TransportInvariant, PTL DEF Spec, RefusedOnlyWhenNothingYields

-----------------------------------------------------------------------------
(* The refinement of FrameDelivery *)

\* An ordered queue holds no frame twice, so it can be counted as a set.
LEMMA QueueAsSet ==
  ASSUME NEW queue \in Seq(Frames), Ordered(queue)
  PROVE  /\ Cardinality(Elements(queue)) = Len(queue)
         /\ Cardinality(Delivery!Ordinary(Elements(queue))) = OrdinaryCount(queue)
<1>1. /\ Len(queue) \in Nat
      /\ \A i \in 1 .. Len(queue) : queue[i] \in Frames
  BY LenProperties, ElementOfSeq
<1>2. \A i, j \in 1 .. Len(queue) : queue[i] = queue[j] => i = j
  <2> SUFFICES ASSUME NEW i \in 1 .. Len(queue), NEW j \in 1 .. Len(queue),
                      queue[i] = queue[j], i # j
               PROVE  FALSE
    OBVIOUS
  <2>1. ~Before(queue[i], queue[j]) /\ ~Before(queue[j], queue[i])
    BY <1>1, BeforeIsIrreflexive
  <2> QED BY <1>1, <2>1 DEF Ordered
<1>3. ASSUME NEW I \in SUBSET (1 .. Len(queue))
      PROVE  Cardinality({queue[i] : i \in I}) = Cardinality(I)
  <2> DEFINE pick == [i \in I |-> queue[i]]
  <2>1. IsFiniteSet(I)
    <3>1. IsFiniteSet(1 .. Len(queue))
      BY <1>1, FS_Interval
    <3> QED BY <3>1, FS_Subset
  <2>2. /\ pick \in [I -> {queue[i] : i \in I}]
        /\ \A i, j \in I : pick[i] = pick[j] => i = j
        /\ \A f \in {queue[i] : i \in I} : \E i \in I : pick[i] = f
    BY <1>2
  <2> HIDE DEF pick
  <2>3. pick \in Bijection(I, {queue[i] : i \in I})
    BY <2>2 DEF Bijection, Injection, Surjection, IsInjective
  <2>4. ExistsBijection(I, {queue[i] : i \in I})
    BY <2>3 DEF ExistsBijection
  <2> QED BY <2>1, <2>4, FS_Bijection
<1>4. Cardinality(Elements(queue)) = Len(queue)
  <2>1. Cardinality({queue[i] : i \in 1 .. Len(queue)}) = Cardinality(1 .. Len(queue))
    BY <1>3
  <2>2. Cardinality(1 .. Len(queue)) =
          IF 1 > Len(queue) THEN 0 ELSE Len(queue) - 1 + 1
    <3>1. 1 \in Int /\ Len(queue) \in Int
      BY <1>1
    <3> QED BY <3>1, FS_Interval, Zenon
  <2>3. (IF 1 > Len(queue) THEN 0 ELSE Len(queue) - 1 + 1) = Len(queue)
    BY <1>1
  <2> QED BY <2>1, <2>2, <2>3, Zenon DEF Elements
<1>5. Delivery!Ordinary(Elements(queue)) = {queue[i] : i \in Ordinaries(queue)}
  BY DEF Delivery!Ordinary, Elements, Ordinaries, IsEmergency
<1>6. Cardinality({queue[i] : i \in Ordinaries(queue)}) = OrdinaryCount(queue)
  <2>1. Ordinaries(queue) \in SUBSET (1 .. Len(queue))
    BY DEF Ordinaries
  <2> QED BY <1>3, <2>1 DEF OrdinaryCount
<1> QED BY <1>4, <1>5, <1>6, Zenon

LEMMA AdmitsIffRoom ==
  ASSUME IInv, NEW frame \in Frames
  PROVE  Delivery!Admits(Waiting, frame) <=> HasRoom(sendQueue, frame)
<1>1. /\ Cardinality(Waiting) = Len(sendQueue)
      /\ Cardinality(Delivery!Ordinary(Waiting)) = OrdinaryCount(sendQueue)
  BY QueueAsSet DEF IInv, TypeOK, QueueOrdered, Waiting
<1>2. Delivery!Admits(Waiting, frame) <=>
        /\ Cardinality(Waiting) < QueueDepth
        /\ \/ frame.priority = EmergencyPriority
           \/ Cardinality(Delivery!Ordinary(Waiting)) < QueueDepth - EmergencyReserve
  BY Zenon DEF Delivery!Admits, Delivery!Cardinality, Delivery!IsFiniteSet,
               Cardinality, IsFiniteSet
<1> QED BY <1>1, <1>2, Zenon DEF HasRoom, IsEmergency

\* What the answer to a frame and its reports say of its outcome.
LEMMA OutcomeFrom ==
  ASSUME NEW n, NEW a, NEW r, answer'[n] = a, reports'[n] = r
  PROVE  Outcome(n)' = IF a # "accepted" THEN a
                       ELSE IF r = <<>> THEN "held"
                       ELSE IF r = <<FALSE>> THEN "lost" ELSE "delivered"
BY Zenon DEF Outcome, Lost

\* The outcome changes only where the answer or the reports do.
LEMMA SameOutcome ==
  ASSUME NEW n, answer'[n] = answer[n], reports'[n] = reports[n]
  PROVE  Outcome(n)' = Outcome(n)
BY Zenon DEF Outcome, Lost

LEMMA InitRefines == Init => Delivery!Init
<1> SUFFICES ASSUME Init PROVE Delivery!Init
  OBVIOUS
<1>1. Waiting = {}
  BY DEF Init, Waiting, Elements
<1>2. \A n \in Calls : Outcome(n) = "none"
  BY DEF Init, Outcome
<1> QED BY <1>1, <1>2 DEF Init, Delivery!Init, Delivery!Calls, Calls

\* Every call of SendRawFrame is an Offer.
LEMMA SendRefines ==
  ASSUME IInv, IInv', NEW id \in Ids, SendRawFrame(id)
  PROVE  Delivery!Next
<1> DEFINE frame == [no |-> Len(issued) + 1, priority |-> PriorityOf(id)]
           outcome == [n \in Calls |-> Outcome(n)]
           outcomeNext == [n \in Calls |-> Outcome(n)']
<1>1. /\ Len(issued) < MaxSends
      /\ issued' = Append(issued, PriorityOf(id))
      /\ \/ SendAtOnce(frame)
         \/ Enqueue(frame)
         \/ DisplaceNewestLeastUrgent(frame)
         \/ Refuse(frame)
  BY DEF SendRawFrame
<1>2. frame = [no |-> Len(issued) + 1, priority |-> PriorityOf(id)]
  OBVIOUS
<1>3. PriorityOf(id) \in Priorities
  BY TransportAssumption DEF Ids, PriorityOf
<1> HIDE DEF frame
<1>4. /\ frame \in Frames /\ frame.no \in Calls
      /\ reports[frame.no] = <<>>
      /\ \A f \in Held : f.no < frame.no
  BY <1>1, <1>2, NewCallFacts
<1>5. /\ answer \in [Calls -> {"none", "accepted", "refused"}]
      /\ reports \in [Calls -> Seq(BOOLEAN)]
      /\ sendQueue \in Seq(Frames)
      /\ Ordered(sendQueue)
  BY DEF IInv, TypeOK, QueueOrdered
<1>6. Delivery!Admits(Waiting, frame) <=> HasRoom(sendQueue, frame)
  BY <1>4, AdmitsIffRoom
<1>7. ASSUME NEW a \in {"accepted", "refused"},
             answer' = [answer EXCEPT ![frame.no] = a], UNCHANGED reports
      PROVE  outcomeNext = [outcome EXCEPT ![frame.no] =
                              IF a = "accepted" THEN "held" ELSE "refused"]
  <2>1. \A n \in Calls \ {frame.no} : Outcome(n)' = Outcome(n)
    <3> TAKE n \in Calls \ {frame.no}
    <3>1. answer'[n] = answer[n] /\ reports'[n] = reports[n]
      BY <1>4, <1>5, <1>7
    <3> QED BY <3>1, SameOutcome
  <2>2. ASSUME NEW n \in Calls, n = frame.no
        PROVE  Outcome(n)' = IF a = "accepted" THEN "held" ELSE "refused"
    <3>1. answer'[n] = a /\ reports'[n] = <<>>
      BY <1>4, <1>5, <1>7, <2>2
    <3>2. Outcome(n)' = IF a # "accepted" THEN a ELSE "held"
      BY <3>1, OutcomeFrom, Zenon
    <3> QED BY <3>2
  <2> QED BY <1>4, <2>1, <2>2
<1>8. CASE SendAtOnce(frame)
  <2>1. sendQueue' = sendQueue
    BY <1>8 DEF SendAtOnce
  <2>2. Waiting' = Waiting
    BY <2>1 DEF Waiting
  <2>3. outcomeNext = [outcome EXCEPT ![frame.no] = "held"]
    BY <1>7, <1>8 DEF SendAtOnce, Accepted
  <2>4. Delivery!Start(frame)
    BY <1>8, <2>2, <2>3 DEF Delivery!Start, SendAtOnce
  <2> QED BY <1>1, <1>3, <2>4 DEF Delivery!Next, Delivery!Offer, frame
<1>9. CASE Enqueue(frame)
  <2>1. Waiting' = Waiting \cup {frame}
    <3>1. sendQueue' = Insert(sendQueue, frame)
      BY <1>9 DEF Enqueue
    <3> QED BY <1>4, <1>5, <3>1, InsertElements, Zenon DEF Waiting
  <2>2. outcomeNext = [outcome EXCEPT ![frame.no] = "held"]
    BY <1>7, <1>9 DEF Enqueue, Accepted
  <2>3. Delivery!Wait(frame)
    BY <1>6, <1>9, <2>1, <2>2 DEF Delivery!Wait, Enqueue
  <2> QED BY <1>1, <1>3, <2>3 DEF Delivery!Next, Delivery!Offer, frame
<1>10. CASE DisplaceNewestLeastUrgent(frame)
  <2> DEFINE back == Back(sendQueue)
  <2>1. /\ ~HasRoom(sendQueue, frame) /\ MayDisplace(sendQueue, frame)
        /\ sendQueue' = Insert(WithoutBack(sendQueue), frame)
        /\ reports' = [reports EXCEPT ![back.no] = Append(@, FALSE)]
        /\ answer' = [answer EXCEPT ![frame.no] = "accepted"]
        /\ current # NoFrame /\ UNCHANGED current
    BY <1>10 DEF DisplaceNewestLeastUrgent, Report, Accepted
  <2>2. sendQueue # <<>>
    BY <1>4, <1>5, <2>1, FullQueueHasBack
  <2>3. /\ back \in Waiting
        /\ \A f \in Waiting : f = back \/ Before(f, back)
    BY <1>5, <2>2, BackIsLast DEF Waiting
  <2>4. Waiting' = (Waiting \ {back}) \cup {frame}
    <3>1. /\ WithoutBack(sendQueue) \in Seq(Frames)
          /\ Elements(WithoutBack(sendQueue)) = Elements(sendQueue) \ {back}
      BY <1>5, <2>2, WithoutBackProperties
    <3>2. Elements(sendQueue') = Elements(WithoutBack(sendQueue)) \cup {frame}
      BY <1>4, <2>1, <3>1, InsertElements, Zenon
    <3> QED BY <3>1, <3>2, Zenon DEF Waiting
  <2>5. frame.priority < back.priority
    <3>1. back \in Frames
      BY <2>3, HeldFacts
    <3>2. back.priority \in Nat /\ frame.priority \in Nat /\ EmergencyPriority \in Nat
          /\ EmergencyPriority <= back.priority
      BY <1>4, <3>1, PrioritiesAreNumbers
    <3>3. back.priority # EmergencyPriority
      BY <2>1 DEF MayDisplace, IsEmergency
    <3>4. frame.priority = EmergencyPriority \/ back.priority > frame.priority
      BY <2>1 DEF MayDisplace, IsEmergency
    <3> HIDE DEF back
    <3> QED BY <3>2, <3>3, <3>4
  <2>6. /\ back.no \in Calls /\ back.no # frame.no
        /\ reports[back.no] = <<>> /\ answer[back.no] = "accepted"
    BY <1>4, <2>3, HeldFacts, PrioritiesAreNumbers DEF Held
  <2> HIDE DEF back
  <2>7. outcomeNext = [outcome EXCEPT ![back.no] = "lost", ![frame.no] = "held"]
    <3>1. ASSUME NEW n \in Calls, n = back.no
          PROVE  Outcome(n)' = "lost"
      <4>1. answer'[n] = "accepted" /\ reports'[n] = Append(<<>>, FALSE)
        BY <1>4, <1>5, <2>1, <2>6, <3>1
      <4>2. Append(<<>>, FALSE) = <<FALSE>>
        OBVIOUS
      <4> QED BY <4>1, <4>2, FailureIsNoSilence, OutcomeFrom, Zenon
    <3>2. ASSUME NEW n \in Calls, n = frame.no
          PROVE  Outcome(n)' = "held"
      <4>1. answer'[n] = "accepted" /\ reports'[n] = <<>>
        BY <1>4, <1>5, <2>1, <2>6, <3>2
      <4> QED BY <4>1, OutcomeFrom, Zenon
    <3>3. \A n \in Calls \ {back.no, frame.no} : Outcome(n)' = Outcome(n)
      <4> TAKE n \in Calls \ {back.no, frame.no}
      <4>1. answer'[n] = answer[n] /\ reports'[n] = reports[n]
        BY <1>4, <1>5, <2>1, <2>6
      <4> QED BY <4>1, SameOutcome
    <3> QED BY <1>4, <2>6, <3>1, <3>2, <3>3
  <2>8. Delivery!TakePlace(frame)
    <3>1. \A f \in Waiting : f = back \/ Delivery!Before(f, back)
      BY <2>3 DEF Before, Delivery!Before
    <3> QED BY <1>6, <2>1, <2>3, <2>4, <2>5, <2>7, <3>1 DEF Delivery!TakePlace
  <2> QED BY <1>1, <1>3, <2>8 DEF Delivery!Next, Delivery!Offer, frame
<1>11. CASE Refuse(frame)
  <2>1. /\ ~HasRoom(sendQueue, frame) /\ ~MayDisplace(sendQueue, frame)
        /\ answer' = [answer EXCEPT ![frame.no] = "refused"]
        /\ UNCHANGED <<sendQueue, reports, current>>
        /\ current # NoFrame
    BY <1>11 DEF Refuse
  <2>2. Waiting' = Waiting
    BY <2>1 DEF Waiting
  <2>3. outcomeNext = [outcome EXCEPT ![frame.no] = "refused"]
    BY <1>7, <2>1
  <2>4. \A f \in Waiting : f.priority <= frame.priority
    BY <1>4, <1>5, <2>1, FullQueueHasBack, RefusalIsFair DEF Waiting
  <2>5. Delivery!Refuse(frame)
    BY <1>6, <2>1, <2>2, <2>3, <2>4 DEF Delivery!Refuse
  <2> QED BY <1>1, <1>3, <2>5 DEF Delivery!Next, Delivery!Offer, frame
<1> QED BY <1>1, <1>8, <1>9, <1>10, <1>11

\* The end of a frame's delivery is a Finish, a retransmission is no step.
LEMMA CompleteRefines ==
  ASSUME IInv, IInv', NEW success \in BOOLEAN, OnSendComplete(success)
  PROVE  [Delivery!Next]_(Delivery!vars)
<1> DEFINE outcome == [n \in Calls |-> Outcome(n)]
           outcomeNext == [n \in Calls |-> Outcome(n)']
<1>1. UNCHANGED <<issued, answer>>
  BY DEF OnSendComplete
<1>2. CASE RetryCurrent
  <2>1. UNCHANGED <<current, sendQueue, reports, issued, answer>>
    BY <1>1, <1>2 DEF RetryCurrent
  <2>2. Waiting' = Waiting /\ \A n \in Calls : Outcome(n)' = Outcome(n)
    BY <2>1, SameOutcome DEF Waiting
  <2> QED BY <2>1, <2>2 DEF Delivery!vars
<1>3. CASE ConcludeCurrent(success)
  <2> DEFINE result == IF success THEN "delivered" ELSE "lost"
  <2>1. /\ current # NoFrame /\ current \in Held
        /\ reports' = [reports EXCEPT ![current.no] = Append(@, success)]
    BY <1>3 DEF ConcludeCurrent, Report, OnSendComplete, IInv, OneFrameWithDriver, TypeOK, Held
  <2>2. /\ current.no \in Calls
        /\ reports[current.no] = <<>> /\ answer[current.no] = "accepted"
        /\ reports \in [Calls -> Seq(BOOLEAN)]
    BY <2>1, HeldFacts DEF IInv, TypeOK
  <2>3. ASSUME NEW n \in Calls, n = current.no
        PROVE  Outcome(n)' = result
    <3>1. answer'[n] = "accepted" /\ reports'[n] = Append(<<>>, success)
      BY <1>1, <2>1, <2>2, <2>3
    <3>2. Append(<<>>, TRUE) = <<TRUE>> /\ Append(<<>>, FALSE) = <<FALSE>>
      OBVIOUS
    <3>3. <<TRUE>> # <<>> /\ <<TRUE>> # <<FALSE>>
      <4>1. Len(<<TRUE>>) = 1 /\ Len(<<>>) = 0
        OBVIOUS
      <4>2. <<TRUE>>[1] /\ ~<<FALSE>>[1]
        OBVIOUS
      <4> QED BY <4>1, <4>2, Zenon
    <3>4. CASE success
      <4>1. success = TRUE
        BY <3>4
      <4>2. reports'[n] = <<TRUE>>
        BY <3>1, <3>2, <4>1, Zenon
      <4> QED BY <3>1, <3>3, <3>4, <4>2, OutcomeFrom, Zenon
    <3>5. CASE ~success
      <4>1. success = FALSE
        BY <3>5
      <4>2. reports'[n] = <<FALSE>>
        BY <3>1, <3>2, <4>1, Zenon
      <4> QED BY <3>1, <3>5, <4>2, FailureIsNoSilence, OutcomeFrom, Zenon
    <3> QED BY <3>4, <3>5
  <2>4. \A n \in Calls \ {current.no} : Outcome(n)' = Outcome(n)
    <3> TAKE n \in Calls \ {current.no}
    <3>1. answer'[n] = answer[n] /\ reports'[n] = reports[n]
      BY <1>1, <2>1, <2>2
    <3> QED BY <3>1, SameOutcome
  <2>5. outcomeNext = [outcome EXCEPT ![current.no] = result]
    BY <2>2, <2>3, <2>4
  <2>6. Delivery!Advance
    <3>1. /\ sendQueue \in Seq(Frames)
          /\ Ordered(sendQueue)
      BY DEF IInv, TypeOK, QueueOrdered
    <3>2. CASE sendQueue = <<>> /\ current' = NoFrame /\ UNCHANGED sendQueue
      <4>1. Waiting = {} /\ Waiting' = {}
        BY <3>2 DEF Waiting, Elements
      <4> QED BY <3>2, <4>1 DEF Delivery!Advance
    <3>3. CASE /\ sendQueue # <<>>
               /\ current' = Head(sendQueue)
               /\ sendQueue' = Tail(sendQueue)
      <4> DEFINE first == Head(sendQueue)
      <4>1. /\ first \in Waiting
            /\ Waiting' = Waiting \ {first}
            /\ \A f \in Waiting : f = first \/ Before(first, f)
        BY <3>1, <3>3, TailProperties, Zenon DEF Waiting
      <4>2. \A f \in Waiting : f = first \/ Delivery!Before(first, f)
        BY <4>1 DEF Before, Delivery!Before
      <4> QED BY <3>3, <4>1, <4>2 DEF Delivery!Advance
    <3> QED BY <1>3, <3>2, <3>3 DEF ConcludeCurrent, SendNextQueued
  <2>7. Delivery!Finish(result)
    BY <1>1, <2>1, <2>5, <2>6 DEF Delivery!Finish
  <2> QED BY <2>7 DEF Delivery!Next
<1> QED BY <1>2, <1>3 DEF OnSendComplete

\* CanFrameTransport takes no step that FrameDelivery does not allow: the most
\* urgent frame leaves next, the oldest among equals, and only the last in line
\* gives way.
THEOREM TransportImplementsDelivery == Spec => ImplementsDeliverySteps
<1>1. IInv /\ IInv' /\ [Next]_vars => [Delivery!Next]_(Delivery!vars)
  <2> SUFFICES ASSUME IInv, IInv', [Next]_vars
               PROVE  [Delivery!Next]_(Delivery!vars)
    OBVIOUS
  <2>1. CASE \E id \in Ids : SendRawFrame(id)
    BY <2>1, SendRefines
  <2>2. CASE \E success \in BOOLEAN : OnSendComplete(success)
    BY <2>2, CompleteRefines
  <2>3. CASE UNCHANGED vars
    <3>1. UNCHANGED <<current, sendQueue, issued, answer, reports>>
      BY <2>3 DEF vars, transportVars, historyVars
    <3>2. Waiting' = Waiting /\ \A n \in Calls : Outcome(n)' = Outcome(n)
      BY <3>1, SameOutcome DEF Waiting
    <3> QED BY <3>1, <3>2 DEF Delivery!vars
  <2> QED BY <2>1, <2>2, <2>3 DEF Next
<1> QED BY <1>1, InitRefines, TransportInvariant, PTL DEF Spec, ImplementsDeliverySteps

-----------------------------------------------------------------------------
(* The counters *)

LEMMA NothingIsLostAtFirst ==
  ASSUME Init
  PROVE  LossesAreCounted
<1>1. Len(issued) = 0
  BY DEF Init
<1>2. OrdinaryRefusals = {} /\ EmergencyLosses = {} /\ Displacements = {} /\ Failures = {}
  BY <1>1 DEF OrdinaryRefusals, EmergencyLosses, Displacements, Failures
<1>3. Cardinality({}) = 0
  BY FS_EmptySet
<1>4. /\ counters.ordinaryDrops = 0 /\ counters.emergencyDrops = 0
      /\ counters.evictions = 0 /\ counters.sendFailures = 0
  BY DEF Init
<1>5. QED
  BY <1>2, <1>3, <1>4 DEF LossesAreCounted

\* The sets that are counted are finite sets of calls.
LEMMA LossesAreCalls ==
  ASSUME IInv
  PROVE  /\ Len(issued) \in Nat
         /\ \A S \in {OrdinaryRefusals, EmergencyLosses, Displacements, Failures} :
              S \subseteq 1 .. Len(issued) /\ IsFiniteSet(S) /\ Cardinality(S) \in Nat
<1>1. Len(issued) \in Nat /\ IsFiniteSet(1 .. Len(issued))
  BY LenProperties, FS_Interval DEF IInv, TypeOK
<1>2. \A S \in SUBSET (1 .. Len(issued)) : IsFiniteSet(S) /\ Cardinality(S) \in Nat
  BY <1>1, FS_Subset, FS_CardinalityType
<1>3. \A S \in {OrdinaryRefusals, EmergencyLosses, Displacements, Failures} :
        S \subseteq 1 .. Len(issued)
  BY DEF OrdinaryRefusals, EmergencyLosses, Displacements, Failures
<1>4. QED
  BY <1>1, <1>2, <1>3

\* What happens to some calls does not change what became of the others; only a
\* call that is not lost is handed to the driver.
LEMMA OthersKeepTheirLosses ==
  ASSUME NEW M,
         \A n \in 1 .. Len(issued) : n \in 1 .. Len(issued'),
         \A n \in 1 .. Len(issued') : n \in 1 .. Len(issued) \/ n \in M,
         \A n \in (1 .. Len(issued)) \ M :
           /\ issued'[n] = issued[n] /\ answer'[n] = answer[n] /\ reports'[n] = reports[n]
           /\ attempts'[n] = attempts[n] \/ ~Lost(n)
  PROVE  /\ OrdinaryRefusals' \ M = OrdinaryRefusals \ M
         /\ EmergencyLosses' \ M = EmergencyLosses \ M
         /\ Displacements' \ M = Displacements \ M
         /\ Failures' \ M = Failures \ M
<1>1. ASSUME NEW n, n \notin M
      PROVE  n \in 1 .. Len(issued') <=> n \in 1 .. Len(issued)
  BY <1>1
<1>2. ASSUME NEW n \in (1 .. Len(issued)) \ M
      PROVE  /\ Refused(n)' <=> Refused(n)
             /\ Urgent(n)' <=> Urgent(n)
             /\ Lost(n)' <=> Lost(n)
             /\ attempts'[n] = attempts[n] \/ ~Lost(n)
  BY <1>2, Zenon DEF Refused, Urgent, Lost
<1>3. OrdinaryRefusals' \ M = OrdinaryRefusals \ M
  BY <1>1, <1>2, Zenon DEF OrdinaryRefusals
<1>4. EmergencyLosses' \ M = EmergencyLosses \ M
  BY <1>1, <1>2, Zenon DEF EmergencyLosses
<1>5. Displacements' \ M = Displacements \ M
  BY <1>1, <1>2, Zenon DEF Displacements
<1>6. Failures' \ M = Failures \ M
  BY <1>1, <1>2, Zenon DEF Failures
<1>7. QED
  BY <1>3, <1>4, <1>5, <1>6

\* The counters for the sets of losses, as one more is counted or none.
LEMMA CountOneMore ==
  ASSUME NEW S, IsFiniteSet(S), NEW T, NEW M, S \ M = T \ M, NEW m \in M,
         M \cap S = {}, M \cap T = {m}
  PROVE  Cardinality(T) = Cardinality(S) + 1
<1>1. T = S \cup {m} /\ m \notin S
  OBVIOUS
<1>2. QED
  BY <1>1, FS_AddElement

LEMMA CountTheSame ==
  ASSUME NEW S, NEW T, NEW M, S \ M = T \ M, M \cap S = {}, M \cap T = {}
  PROVE  S = T
OBVIOUS

\* Where a new call stands before it is answered.
LEMMA NewCallIsNoLoss ==
  ASSUME IInv, NEW id \in Ids, Len(issued) < MaxSends,
         issued' = Append(issued, PriorityOf(id)),
         NEW frame, frame = [no |-> Len(issued) + 1, priority |-> PriorityOf(id)],
         NEW a \in {"accepted", "refused"},
         answer' = [answer EXCEPT ![frame.no] = a]
  PROVE  /\ frame.no \in Calls /\ frame.no \in 1 .. Len(issued') /\ frame.no \notin 1 .. Len(issued)
         /\ \A n \in 1 .. Len(issued) : n \in 1 .. Len(issued') /\ n \in Calls /\ n # frame.no
         /\ \A n \in 1 .. Len(issued') : n \in 1 .. Len(issued) \/ n = frame.no
         /\ \A n \in 1 .. Len(issued) : issued'[n] = issued[n] /\ answer'[n] = answer[n]
         /\ answer'[frame.no] = a
         /\ issued'[frame.no] = frame.priority
         /\ reports[frame.no] = <<>> /\ attempts[frame.no] = 0
         /\ \A S \in {OrdinaryRefusals, EmergencyLosses, Displacements, Failures} : frame.no \notin S
<1>1. /\ frame.no \in Calls /\ frame.no = Len(issued) + 1 /\ Len(issued') = Len(issued) + 1
      /\ Len(issued') <= MaxSends
      /\ \A n \in 1 .. Len(issued) : issued'[n] = issued[n]
      /\ issued'[frame.no] = frame.priority
      /\ reports[frame.no] = <<>> /\ attempts[frame.no] = 0
  BY NewCallFacts
<1>2. Len(issued) \in Nat /\ MaxSends \in Nat
  BY LenProperties, TransportAssumption DEF IInv, TypeOK
<1>3. /\ frame.no \in 1 .. Len(issued') /\ frame.no \notin 1 .. Len(issued)
      /\ \A n \in 1 .. Len(issued) : n \in 1 .. Len(issued') /\ n \in Calls /\ n # frame.no
      /\ \A n \in 1 .. Len(issued') : n \in 1 .. Len(issued) \/ n = frame.no
  BY <1>1, <1>2 DEF Calls
<1>4. answer \in [Calls -> {"none", "accepted", "refused"}]
  BY DEF IInv, TypeOK
<1>5. /\ \A n \in 1 .. Len(issued) : answer'[n] = answer[n]
      /\ answer'[frame.no] = a
  BY <1>1, <1>3, <1>4
<1>6. \A S \in {OrdinaryRefusals, EmergencyLosses, Displacements, Failures} : frame.no \notin S
  BY <1>3, LossesAreCalls
<1>7. QED
  BY <1>1, <1>3, <1>5, <1>6

\* A call that is accepted and displaces nothing loses nothing.
LEMMA AcceptedCallLosses ==
  ASSUME IInv, LossesAreCounted, NEW id \in Ids, Len(issued) < MaxSends,
         issued' = Append(issued, PriorityOf(id)),
         NEW frame, frame = [no |-> Len(issued) + 1, priority |-> PriorityOf(id)],
         answer' = [answer EXCEPT ![frame.no] = "accepted"],
         reports' = reports, counters' = counters,
         \A n \in 1 .. Len(issued) : attempts'[n] = attempts[n]
  PROVE  LossesAreCounted'
<1> DEFINE M == {frame.no}
<1>0. /\ \A n \in 1 .. Len(issued) : n \in 1 .. Len(issued') /\ n # frame.no
      /\ \A n \in 1 .. Len(issued') : n \in 1 .. Len(issued) \/ n = frame.no
      /\ \A n \in 1 .. Len(issued) : issued'[n] = issued[n] /\ answer'[n] = answer[n]
      /\ answer'[frame.no] = "accepted" /\ reports[frame.no] = <<>>
      /\ \A S \in {OrdinaryRefusals, EmergencyLosses, Displacements, Failures} : frame.no \notin S
  BY NewCallIsNoLoss, ZenonT(60)
<1>1. /\ \A n \in 1 .. Len(issued) : n \in 1 .. Len(issued')
      /\ \A n \in 1 .. Len(issued') : n \in 1 .. Len(issued) \/ n \in M
      /\ \A n \in (1 .. Len(issued)) \ M :
           /\ issued'[n] = issued[n] /\ answer'[n] = answer[n] /\ reports'[n] = reports[n]
           /\ attempts'[n] = attempts[n] \/ ~Lost(n)
      /\ answer'[frame.no] = "accepted" /\ reports'[frame.no] = <<>>
      /\ \A S \in {OrdinaryRefusals, EmergencyLosses, Displacements, Failures} : frame.no \notin S
  BY <1>0, SMTT(30)
<1>2. ~Refused(frame.no)' /\ ~Lost(frame.no)'
  BY <1>1, FailureIsNoSilence, ZenonT(30) DEF Refused, Lost
<1>3. /\ M \cap OrdinaryRefusals' = {} /\ M \cap EmergencyLosses' = {}
      /\ M \cap Displacements' = {} /\ M \cap Failures' = {}
  BY <1>2, Zenon DEF OrdinaryRefusals, EmergencyLosses, Displacements, Failures
<1>4. /\ M \cap OrdinaryRefusals = {} /\ M \cap EmergencyLosses = {}
      /\ M \cap Displacements = {} /\ M \cap Failures = {}
  BY <1>1
<1>5. /\ OrdinaryRefusals' \ M = OrdinaryRefusals \ M
      /\ EmergencyLosses' \ M = EmergencyLosses \ M
      /\ Displacements' \ M = Displacements \ M
      /\ Failures' \ M = Failures \ M
  <2> HIDE DEF M
  <2>1. QED
    BY <1>1, OthersKeepTheirLosses, Zenon
<1> HIDE DEF M
<1>6. /\ OrdinaryRefusals' = OrdinaryRefusals /\ EmergencyLosses' = EmergencyLosses
      /\ Displacements' = Displacements /\ Failures' = Failures
  BY <1>3, <1>4, <1>5
<1>7. QED
  BY <1>6, Zenon DEF LossesAreCounted

\* What is refused is counted by how urgent it is.
LEMMA RefusedCallLosses ==
  ASSUME IInv, LossesAreCounted, NEW id \in Ids, Len(issued) < MaxSends,
         issued' = Append(issued, PriorityOf(id)),
         NEW frame, frame = [no |-> Len(issued) + 1, priority |-> PriorityOf(id)],
         Refuse(frame)
  PROVE  LossesAreCounted'
<1> DEFINE M == {frame.no}
<1>1. /\ answer' = [answer EXCEPT ![frame.no] = "refused"]
      /\ reports' = reports /\ attempts' = attempts
      /\ counters' = IF IsEmergency(frame)
                     THEN [counters EXCEPT !.emergencyDrops = @ + 1]
                     ELSE [counters EXCEPT !.ordinaryDrops = @ + 1]
  BY DEF Refuse
<1>2. /\ \A n \in 1 .. Len(issued) : n \in 1 .. Len(issued')
      /\ \A n \in 1 .. Len(issued') : n \in 1 .. Len(issued) \/ n \in M
      /\ \A n \in (1 .. Len(issued)) \ M :
           /\ issued'[n] = issued[n] /\ answer'[n] = answer[n] /\ reports'[n] = reports[n]
           /\ attempts'[n] = attempts[n] \/ ~Lost(n)
      /\ answer'[frame.no] = "refused" /\ reports'[frame.no] = <<>>
      /\ issued'[frame.no] = frame.priority /\ frame.no \in 1 .. Len(issued')
      /\ \A S \in {OrdinaryRefusals, EmergencyLosses, Displacements, Failures} : frame.no \notin S
  BY <1>1, NewCallIsNoLoss
<1>3. /\ Refused(frame.no)' /\ ~Lost(frame.no)'
      /\ Urgent(frame.no)' <=> IsEmergency(frame)
  BY <1>2, FailureIsNoSilence, Zenon DEF Refused, Lost, Urgent, IsEmergency
<1>4. /\ M \cap OrdinaryRefusals = {} /\ M \cap EmergencyLosses = {}
      /\ M \cap Displacements = {} /\ M \cap Failures = {}
  BY <1>2
<1>5. M \cap Displacements' = {} /\ M \cap Failures' = {}
  BY <1>3, Zenon DEF Displacements, Failures
<1>6. /\ OrdinaryRefusals' \ M = OrdinaryRefusals \ M
      /\ EmergencyLosses' \ M = EmergencyLosses \ M
      /\ Displacements' \ M = Displacements \ M
      /\ Failures' \ M = Failures \ M
  <2> HIDE DEF M
  <2>1. QED
    BY <1>2, OthersKeepTheirLosses, Zenon
<1>7. Displacements' = Displacements /\ Failures' = Failures
  <2> HIDE DEF M
  <2>1. QED
    BY <1>4, <1>5, <1>6
<1>8. IsFiniteSet(OrdinaryRefusals) /\ IsFiniteSet(EmergencyLosses)
  BY LossesAreCalls
<1>9. counters \in Counters
  BY DEF IInv, TypeOK
<1>10. frame.no \in M
  OBVIOUS
<1>11. CASE IsEmergency(frame)
  <2>1. M \cap OrdinaryRefusals' = {} /\ M \cap EmergencyLosses' = {frame.no}
    BY <1>2, <1>3, <1>11, Zenon DEF OrdinaryRefusals, EmergencyLosses
  <2> HIDE DEF M
  <2>2. OrdinaryRefusals' = OrdinaryRefusals
    BY <1>4, <1>6, <2>1, ZenonT(60)
  <2>3. Cardinality(EmergencyLosses') = Cardinality(EmergencyLosses) + 1
    BY <1>4, <1>6, <1>8, <1>10, <2>1, CountOneMore
  <2>4. counters' = [counters EXCEPT !.emergencyDrops = @ + 1]
    BY <1>1, <1>11, Zenon
  <2>5. QED
    BY <1>7, <1>9, <2>2, <2>3, <2>4 DEF LossesAreCounted, Counters
<1>12. CASE ~IsEmergency(frame)
  <2>1. M \cap EmergencyLosses' = {} /\ M \cap OrdinaryRefusals' = {frame.no}
    BY <1>2, <1>3, <1>12, Zenon DEF OrdinaryRefusals, EmergencyLosses
  <2> HIDE DEF M
  <2>2. EmergencyLosses' = EmergencyLosses
    BY <1>4, <1>6, <2>1
  <2>3. Cardinality(OrdinaryRefusals') = Cardinality(OrdinaryRefusals) + 1
    BY <1>4, <1>6, <1>8, <1>10, <2>1, CountOneMore
  <2>4. counters' = [counters EXCEPT !.ordinaryDrops = @ + 1]
    BY <1>1, <1>12, Zenon
  <2>5. QED
    BY <1>7, <1>9, <2>2, <2>3, <2>4 DEF LossesAreCounted, Counters
<1>13. QED
  BY <1>11, <1>12

\* What is displaced is counted as evicted, and is no emergency.
LEMMA DisplacingCallLosses ==
  ASSUME IInv, LossesAreCounted, NEW id \in Ids, Len(issued) < MaxSends,
         issued' = Append(issued, PriorityOf(id)),
         NEW frame, frame = [no |-> Len(issued) + 1, priority |-> PriorityOf(id)],
         DisplaceNewestLeastUrgent(frame)
  PROVE  LossesAreCounted'
<1> DEFINE back == Back(sendQueue)
<1>1. /\ answer' = [answer EXCEPT ![frame.no] = "accepted"]
      /\ reports' = [reports EXCEPT ![back.no] = Append(@, FALSE)]
      /\ attempts' = attempts
      /\ counters' = [counters EXCEPT !.evictions = @ + 1]
  BY Zenon DEF DisplaceNewestLeastUrgent, Accepted, Report
<1>2. back \in Waiting /\ ~IsEmergency(back)
  <2>1. frame \in Frames
    BY NewCallFacts
  <2>2. sendQueue \in Seq(Frames) /\ ~HasRoom(sendQueue, frame) /\ ~IsEmergency(back)
    BY DEF IInv, TypeOK, DisplaceNewestLeastUrgent, MayDisplace
  <2>3. sendQueue # <<>>
    BY <2>1, <2>2, FullQueueHasBack
  <2>4. Len(sendQueue) \in 1 .. Len(sendQueue)
    BY <2>2, <2>3, LenProperties, EmptySeq
  <2>5. QED
    BY <2>2, <2>4 DEF Waiting, Elements, Back
<1>3. PICK m \in Calls : m = back.no
  <2>1. back \in Held
    BY <1>2 DEF Held
  <2>2. QED
    BY <2>1, HeldFacts
<1>3a. /\ m \in Calls /\ m \in 1 .. Len(issued)
       /\ reports[m] = <<>> /\ answer[m] = "accepted"
       /\ attempts[m] = 0 /\ issued[m] = back.priority
  <2>1. back \in Held
    BY <1>2 DEF Held
  <2>2. back.no \in Calls /\ back.no <= Len(issued) /\ Len(issued) \in Nat
    BY <2>1, HeldFacts, LossesAreCalls
  <2>3. back.no \in 1 .. Len(issued)
    BY <2>2, TransportAssumption DEF Calls
  <2>4. reports[back.no] = <<>> /\ answer[back.no] = "accepted"
    BY <2>1, HeldFacts
  <2>5. attempts[back.no] = 0 /\ issued[back.no] = back.priority
    BY <1>2, <2>1 DEF IInv, FramesAccountedFor
  <2>6. QED
    BY <1>3, <2>2, <2>3, <2>4, <2>5
<1> DEFINE M == {frame.no, m}
<1> HIDE DEF back
<1>4. /\ frame.no \in Calls /\ frame.no \in 1 .. Len(issued') /\ frame.no \notin 1 .. Len(issued)
      /\ \A n \in 1 .. Len(issued) : n \in 1 .. Len(issued') /\ n \in Calls /\ n # frame.no
      /\ \A n \in 1 .. Len(issued') : n \in 1 .. Len(issued) \/ n = frame.no
      /\ \A n \in 1 .. Len(issued) : issued'[n] = issued[n] /\ answer'[n] = answer[n]
      /\ answer'[frame.no] = "accepted" /\ reports[frame.no] = <<>>
      /\ \A S \in {OrdinaryRefusals, EmergencyLosses, Displacements, Failures} : frame.no \notin S
  BY <1>1, NewCallIsNoLoss
<1>5. /\ \A n \in Calls : n # m => reports'[n] = reports[n]
      /\ reports'[m] = <<FALSE>>
  <2>1. reports \in [Calls -> Seq(BOOLEAN)]
    BY DEF IInv, TypeOK
  <2>2. Append(<<>>, FALSE) = <<FALSE>>
    OBVIOUS
  <2>3. reports' = [reports EXCEPT ![m] = Append(@, FALSE)]
    BY <1>1, <1>3, Zenon
  <2>4. QED
    BY <1>3a, <2>1, <2>2, <2>3, Zenon
<1>6. m # frame.no /\ m \in 1 .. Len(issued')
  BY <1>3a, <1>4
<1>7. /\ \A n \in 1 .. Len(issued) : n \in 1 .. Len(issued')
      /\ \A n \in 1 .. Len(issued') : n \in 1 .. Len(issued) \/ n \in M
      /\ \A n \in (1 .. Len(issued)) \ M :
           /\ issued'[n] = issued[n] /\ answer'[n] = answer[n] /\ reports'[n] = reports[n]
           /\ attempts'[n] = attempts[n] \/ ~Lost(n)
  BY <1>1, <1>4, <1>5
<1>8. /\ ~Refused(frame.no)' /\ ~Lost(frame.no)'
      /\ ~Refused(m)' /\ Lost(m)' /\ ~Urgent(m)'
      /\ attempts'[m] = 0
  <2>1. reports'[frame.no] = <<>>
    BY <1>4, <1>5, <1>6
  <2>2. answer'[m] = "accepted" /\ issued'[m] = back.priority
    BY <1>3a, <1>4
  <2>3. back.priority # EmergencyPriority
    BY <1>2 DEF IsEmergency
  <2>4. ~Refused(frame.no)' /\ ~Lost(frame.no)'
    BY <1>4, <2>1, FailureIsNoSilence, Zenon DEF Refused, Lost
  <2>5. ~Refused(m)' /\ Lost(m)' /\ ~Urgent(m)'
    BY <1>5, <2>2, <2>3, Zenon DEF Refused, Lost, Urgent
  <2>6. attempts'[m] = 0
    BY <1>1, <1>3a
  <2>7. QED
    BY <2>4, <2>5, <2>6
<1>9. ~Refused(m) /\ ~Lost(m)
  BY <1>3a, FailureIsNoSilence, Zenon DEF Refused, Lost
<1>10. /\ M \cap OrdinaryRefusals = {} /\ M \cap EmergencyLosses = {}
       /\ M \cap Displacements = {} /\ M \cap Failures = {}
  <2>1. \A S \in {OrdinaryRefusals, EmergencyLosses, Displacements, Failures} : m \notin S
    BY <1>9, Zenon DEF OrdinaryRefusals, EmergencyLosses, Displacements, Failures
  <2>2. QED
    BY <1>4, <2>1
<1>11. /\ M \cap OrdinaryRefusals' = {} /\ M \cap EmergencyLosses' = {}
       /\ M \cap Failures' = {}
  <2>1. 0 # 1
    OBVIOUS
  <2>2. /\ frame.no \notin OrdinaryRefusals' /\ m \notin OrdinaryRefusals'
        /\ frame.no \notin EmergencyLosses' /\ m \notin EmergencyLosses'
        /\ frame.no \notin Failures' /\ m \notin Failures'
    BY <1>8, <2>1, Zenon DEF OrdinaryRefusals, EmergencyLosses, Failures
  <2>3. QED
    BY <2>2
<1>12. M \cap Displacements' = {m} /\ m \in M
  <2>1. frame.no \notin Displacements' /\ m \in Displacements'
    BY <1>6, <1>8, Zenon DEF Displacements
  <2>2. QED
    BY <2>1
<1> HIDE DEF M
<1>13. /\ OrdinaryRefusals' \ M = OrdinaryRefusals \ M
       /\ EmergencyLosses' \ M = EmergencyLosses \ M
       /\ Displacements' \ M = Displacements \ M
       /\ Failures' \ M = Failures \ M
  BY <1>7, OthersKeepTheirLosses, Zenon
<1>14. /\ OrdinaryRefusals' = OrdinaryRefusals /\ EmergencyLosses' = EmergencyLosses
       /\ Failures' = Failures
  BY <1>10, <1>11, <1>13
<1>15. Cardinality(Displacements') = Cardinality(Displacements) + 1
  <2>1. IsFiniteSet(Displacements)
    BY LossesAreCalls
  <2>2. QED
    BY <1>10, <1>12, <1>13, <2>1, CountOneMore
<1>16. counters \in Counters
  BY DEF IInv, TypeOK
<1>17. QED
  BY <1>1, <1>14, <1>15, <1>16 DEF LossesAreCounted, Counters

\* What the driver answers: current is held, so it was not lost before, nor was
\* the frame that goes to the driver next.
LEMMA HeldIsNotLost ==
  ASSUME IInv, NEW f \in Held
  PROVE  /\ f.no \in Calls /\ f.no \in 1 .. Len(issued)
         /\ answer[f.no] = "accepted" /\ reports[f.no] = <<>> /\ issued[f.no] = f.priority
         /\ ~Refused(f.no) /\ ~Lost(f.no)
<1>1. /\ f.no \in Calls /\ f.no <= Len(issued) /\ Len(issued) \in Nat
      /\ reports[f.no] = <<>> /\ answer[f.no] = "accepted"
  BY HeldFacts, LossesAreCalls
<1>2. f.no \in 1 .. Len(issued)
  BY <1>1, TransportAssumption DEF Calls
<1>3. issued[f.no] = f.priority
  BY DEF IInv, FramesAccountedFor
<1>4. ~Refused(f.no) /\ ~Lost(f.no)
  BY <1>1, FailureIsNoSilence, Zenon DEF Refused, Lost
<1>5. QED
  BY <1>1, <1>2, <1>3, <1>4

\* A retransmission loses nothing.
LEMMA RetryLosses ==
  ASSUME IInv, LossesAreCounted, inFlight # <<>>, RetryCurrent, UNCHANGED <<issued, answer, notified>>
  PROVE  LossesAreCounted'
<1>1. current \in Held
  BY DEF IInv, OneFrameWithDriver, Held, TypeOK
<1>2. current.no \in Calls /\ ~Refused(current.no) /\ ~Lost(current.no)
  BY <1>1, HeldIsNotLost
<1>3. /\ attempts' = [attempts EXCEPT ![current.no] = @ + 1]
      /\ issued' = issued /\ answer' = answer /\ reports' = reports
      /\ counters' = [counters EXCEPT !.emergencyRetries = @ + 1]
  BY DEF RetryCurrent, Transmit
<1>4. \A n \in 1 .. Len(issued) : attempts'[n] = attempts[n] \/ ~Lost(n)
  <2>1. attempts \in [Calls -> Nat]
    BY DEF IInv, TypeOK
  <2>2. \A n \in 1 .. Len(issued) : n \in Calls
    BY TransportAssumption, LossesAreCalls DEF IInv, TypeOK, Calls
  <2>3. \A n \in Calls : n # current.no => attempts'[n] = attempts[n]
    BY <1>3, <2>1
  <2>4. QED
    BY <1>2, <2>2, <2>3
<1>5. /\ OrdinaryRefusals' \ {} = OrdinaryRefusals \ {}
      /\ EmergencyLosses' \ {} = EmergencyLosses \ {}
      /\ Displacements' \ {} = Displacements \ {}
      /\ Failures' \ {} = Failures \ {}
  <2>1. /\ \A n \in 1 .. Len(issued) : n \in 1 .. Len(issued')
        /\ \A n \in 1 .. Len(issued') : n \in 1 .. Len(issued) \/ n \in {}
        /\ \A n \in (1 .. Len(issued)) \ {} :
             /\ issued'[n] = issued[n] /\ answer'[n] = answer[n] /\ reports'[n] = reports[n]
             /\ attempts'[n] = attempts[n] \/ ~Lost(n)
    BY <1>3, <1>4
  <2>2. QED
    BY <2>1, OthersKeepTheirLosses, Zenon
<1>6. /\ OrdinaryRefusals' = OrdinaryRefusals /\ EmergencyLosses' = EmergencyLosses
      /\ Displacements' = Displacements /\ Failures' = Failures
  BY <1>5
<1>7. /\ counters'.ordinaryDrops = counters.ordinaryDrops
      /\ counters'.emergencyDrops = counters.emergencyDrops
      /\ counters'.evictions = counters.evictions
      /\ counters'.sendFailures = counters.sendFailures
  <2>1. counters \in Counters
    BY DEF IInv, TypeOK
  <2>2. QED
    BY <1>3, <2>1 DEF Counters
<1>8. QED
  BY <1>6, <1>7 DEF LossesAreCounted

\* The frame that is done with is counted if it failed, by how urgent it is.
LEMMA ConcludeLosses ==
  ASSUME IInv, LossesAreCounted, inFlight # <<>>, NEW success \in BOOLEAN,
         success \/ ~IsEmergency(current) \/ currentRetries = EmergencyRetryLimit,
         ConcludeCurrent(success), UNCHANGED <<issued, answer, notified>>
  PROVE  LossesAreCounted'
<1>1. current \in Held /\ current # NoFrame
  BY DEF IInv, OneFrameWithDriver, Held, TypeOK
<1>1a. PICK m \in Calls : m = current.no
  BY <1>1, HeldIsNotLost
<1> DEFINE M == {m}
<1>2. /\ m \in Calls /\ m \in 1 .. Len(issued)
      /\ answer[m] = "accepted" /\ reports[m] = <<>>
      /\ issued[m] = current.priority
      /\ ~Refused(m) /\ ~Lost(m)
  BY <1>1, <1>1a, HeldIsNotLost
<1>3. /\ issued' = issued /\ answer' = answer
      /\ reports' = [reports EXCEPT ![m] = Append(@, success)]
      /\ counters' = IF success THEN counters ELSE CountedFailure
      /\ SendNextQueued
  BY <1>1a DEF ConcludeCurrent, Report
<1>4. /\ attempts' = attempts
      \/ \E f \in Waiting : attempts' = [attempts EXCEPT ![f.no] = @ + 1]
  <2>1. CASE sendQueue = <<>>
    BY <1>3, <2>1 DEF SendNextQueued
  <2>2. CASE sendQueue # <<>>
    <3>1. attempts' = [attempts EXCEPT ![Head(sendQueue).no] = @ + 1]
      BY <1>3, <2>2, Zenon DEF SendNextQueued, Transmit
    <3>2. sendQueue \in Seq(Frames)
      BY DEF IInv, TypeOK
    <3>3. 1 \in 1 .. Len(sendQueue) /\ Head(sendQueue) = sendQueue[1]
      BY <2>2, <3>2, LenProperties, EmptySeq
    <3>4. Head(sendQueue) \in Waiting
      BY <3>3 DEF Waiting, Elements
    <3>5. QED
      BY <3>1, <3>4, Zenon
  <2>3. QED
    BY <2>1, <2>2
<1>5. /\ \A n \in 1 .. Len(issued) : attempts'[n] = attempts[n] \/ ~Lost(n)
      /\ attempts'[m] = attempts[m]
  <2>1. CASE attempts' = attempts
    BY <2>1
  <2>2. ASSUME NEW f \in Waiting, attempts' = [attempts EXCEPT ![f.no] = @ + 1]
        PROVE  /\ \A n \in 1 .. Len(issued) : attempts'[n] = attempts[n] \/ ~Lost(n)
               /\ attempts'[m] = attempts[m]
    <3>1. attempts \in [Calls -> Nat] /\ \A n \in 1 .. Len(issued) : n \in Calls
      BY TransportAssumption, LossesAreCalls DEF IInv, TypeOK, Calls
    <3>2. f \in Held /\ ~Lost(f.no)
      BY HeldIsNotLost DEF Held
    <3>3. f.no # m
      BY <1>1, <1>1a, <3>2, HeldFacts
    <3>4. \A n \in Calls : n # f.no => attempts'[n] = attempts[n]
      BY <2>2, <3>1
    <3>5. QED
      BY <1>2, <3>1, <3>2, <3>3, <3>4
  <2>3. QED
    BY <1>4, <2>1, <2>2
<1>6. /\ \A n \in Calls : n # m => reports'[n] = reports[n]
      /\ reports'[m] = <<success>>
  <2>1. reports \in [Calls -> Seq(BOOLEAN)]
    BY DEF IInv, TypeOK
  <2>2. Append(<<>>, success) = <<success>>
    OBVIOUS
  <2>3. QED
    BY <1>2, <1>3, <2>1, <2>2, Zenon
<1>7. /\ \A n \in 1 .. Len(issued) : n \in 1 .. Len(issued')
      /\ \A n \in 1 .. Len(issued') : n \in 1 .. Len(issued) \/ n \in M
      /\ \A n \in (1 .. Len(issued)) \ M :
           /\ issued'[n] = issued[n] /\ answer'[n] = answer[n] /\ reports'[n] = reports[n]
           /\ attempts'[n] = attempts[n] \/ ~Lost(n)
  <2>1. \A n \in 1 .. Len(issued) : n \in Calls
    BY TransportAssumption, LossesAreCalls DEF IInv, TypeOK, Calls
  <2>2. QED
    BY <1>3, <1>5, <1>6, <2>1
<1>8. /\ M \cap OrdinaryRefusals = {} /\ M \cap EmergencyLosses = {}
      /\ M \cap Displacements = {} /\ M \cap Failures = {}
  BY <1>2, Zenon DEF OrdinaryRefusals, EmergencyLosses, Displacements, Failures
<1>9. /\ ~Refused(m)'
      /\ Urgent(m)' <=> IsEmergency(current)
      /\ attempts'[m] = currentRetries + 1
      /\ attempts'[m] # 0
      /\ ~IsEmergency(current) => attempts'[m] = 1
  <2>1. ~Refused(m)' /\ (Urgent(m)' <=> IsEmergency(current))
    BY <1>2, <1>3, Zenon DEF Refused, Urgent, IsEmergency
  <2>2. currentRetries \in Nat
    BY TransportAssumption DEF IInv, TypeOK
  <2>3. /\ attempts[m] = currentRetries + 1
        /\ IsEmergency(current) \/ currentRetries = 0
    BY <1>1, <1>1a DEF IInv, FramesAccountedFor
  <2>4. QED
    BY <1>5, <2>1, <2>2, <2>3
<1>10. m \in M /\ m \in 1 .. Len(issued')
  BY <1>2, <1>3
<1>11. /\ OrdinaryRefusals' \ M = OrdinaryRefusals \ M
       /\ EmergencyLosses' \ M = EmergencyLosses \ M
       /\ Displacements' \ M = Displacements \ M
       /\ Failures' \ M = Failures \ M
  <2> HIDE DEF M
  <2>1. QED
    BY <1>7, OthersKeepTheirLosses, Zenon
<1>12. OrdinaryRefusals' = OrdinaryRefusals /\ Displacements' = Displacements
  <2>1. M \cap OrdinaryRefusals' = {} /\ M \cap Displacements' = {}
    BY <1>9, Zenon DEF OrdinaryRefusals, Displacements
  <2> HIDE DEF M
  <2>2. QED
    BY <1>8, <1>11, <2>1
<1>13. IsFiniteSet(EmergencyLosses) /\ IsFiniteSet(Failures)
  BY LossesAreCalls
<1>14. counters \in Counters
  BY DEF IInv, TypeOK
<1>15. CASE success
  <2>1. ~Lost(m)'
    <3>1. <<TRUE>> # <<FALSE>>
      OBVIOUS
    <3>2. reports'[m] = <<TRUE>>
      BY <1>6, <1>15, Zenon
    <3>3. QED
      BY <3>1, <3>2, Zenon DEF Lost
  <2>2. M \cap EmergencyLosses' = {} /\ M \cap Failures' = {}
    BY <1>9, <2>1, Zenon DEF EmergencyLosses, Failures
  <2> HIDE DEF M
  <2>3. EmergencyLosses' = EmergencyLosses /\ Failures' = Failures
    BY <1>8, <1>11, <2>2
  <2>4. counters' = counters
    BY <1>3, <1>15, Zenon
  <2>5. QED
    BY <1>12, <2>3, <2>4, Zenon DEF LossesAreCounted
<1>16. ASSUME ~success
       PROVE  Lost(m)' /\ counters' = CountedFailure
  <2>1. reports'[m] = <<FALSE>>
    BY <1>6, <1>16, Zenon
  <2>2. QED
    BY <1>3, <1>16, <2>1, Zenon DEF Lost
<1>17. CASE ~success /\ IsEmergency(current)
  <2>1. M \cap EmergencyLosses' = {m} /\ M \cap Failures' = {}
    BY <1>9, <1>10, <1>16, <1>17, Zenon DEF EmergencyLosses, Failures
  <2> HIDE DEF M
  <2>2. Failures' = Failures
    BY <1>8, <1>11, <2>1
  <2>3. Cardinality(EmergencyLosses') = Cardinality(EmergencyLosses) + 1
    BY <1>8, <1>10, <1>11, <1>13, <2>1, CountOneMore
  <2>4. counters' = [counters EXCEPT !.emergencyDrops = @ + 1]
    BY <1>16, <1>17, Zenon DEF CountedFailure
  <2>5. QED
    BY <1>12, <1>14, <2>2, <2>3, <2>4 DEF LossesAreCounted, Counters
<1>18. CASE ~success /\ ~IsEmergency(current)
  <2>1. M \cap EmergencyLosses' = {} /\ M \cap Failures' = {m}
    BY <1>9, <1>10, <1>16, <1>18, Zenon DEF EmergencyLosses, Failures
  <2> HIDE DEF M
  <2>2. EmergencyLosses' = EmergencyLosses
    BY <1>8, <1>11, <2>1
  <2>3. Cardinality(Failures') = Cardinality(Failures) + 1
    BY <1>8, <1>10, <1>11, <1>13, <2>1, CountOneMore
  <2>4. counters' = [counters EXCEPT !.sendFailures = @ + 1]
    BY <1>16, <1>18, Zenon DEF CountedFailure
  <2>5. QED
    BY <1>12, <1>14, <2>2, <2>3, <2>4 DEF LossesAreCounted, Counters
<1>19. QED
  BY <1>15, <1>17, <1>18

\* Every frame the transport lost is in one counter, the one that says how:
\* refused, displaced, or given up by the driver; and no other frame is.
THEOREM LossesAreInTheStatistics == Spec => []EveryFrameAccountedFor
<1>1. Init => LossesAreCounted
  BY NothingIsLostAtFirst
<1>2. IInv /\ LossesAreCounted /\ [Next]_vars => LossesAreCounted'
  <2> SUFFICES ASSUME IInv, LossesAreCounted, [Next]_vars PROVE LossesAreCounted'
    OBVIOUS
  <2>1. ASSUME NEW id \in Ids, SendRawFrame(id) PROVE LossesAreCounted'
    <3> DEFINE frame == [no |-> Len(issued) + 1, priority |-> PriorityOf(id)]
    <3>1. /\ Len(issued) < MaxSends
          /\ issued' = Append(issued, PriorityOf(id))
          /\ \/ SendAtOnce(frame)
             \/ Enqueue(frame)
             \/ DisplaceNewestLeastUrgent(frame)
             \/ Refuse(frame)
      BY <2>1 DEF SendRawFrame
    <3>2. frame = [no |-> Len(issued) + 1, priority |-> PriorityOf(id)]
      OBVIOUS
    <3> HIDE DEF frame
    <3>3. CASE SendAtOnce(frame)
      <4>1. /\ answer' = [answer EXCEPT ![frame.no] = "accepted"]
            /\ attempts' = [attempts EXCEPT ![frame.no] = @ + 1]
            /\ reports' = reports /\ counters' = counters
        BY <3>3, Zenon DEF SendAtOnce, Transmit, Accepted
      <4>2. \A n \in 1 .. Len(issued) : n \in Calls /\ n # frame.no
        BY <3>1, <3>2, <4>1, NewCallIsNoLoss
      <4>3. attempts \in [Calls -> Nat]
        BY DEF IInv, TypeOK
      <4>4. \A n \in 1 .. Len(issued) : attempts'[n] = attempts[n]
        BY <4>1, <4>2, <4>3
      <4>5. QED
        BY <3>1, <3>2, <4>1, <4>4, AcceptedCallLosses
    <3>4. CASE Enqueue(frame)
      <4>1. /\ answer' = [answer EXCEPT ![frame.no] = "accepted"]
            /\ reports' = reports /\ counters' = counters /\ attempts' = attempts
        BY <3>4, Zenon DEF Enqueue, Accepted
      <4>2. QED
        BY <3>1, <3>2, <4>1, AcceptedCallLosses
    <3>5. CASE DisplaceNewestLeastUrgent(frame)
      BY <3>1, <3>2, <3>5, DisplacingCallLosses
    <3>6. CASE Refuse(frame)
      BY <3>1, <3>2, <3>6, RefusedCallLosses
    <3> QED BY <3>1, <3>3, <3>4, <3>5, <3>6
  <2>2. ASSUME NEW success \in BOOLEAN, OnSendComplete(success) PROVE LossesAreCounted'
    <3>1. CASE ~success /\ RetryCurrent
      BY <2>2, <3>1, RetryLosses DEF OnSendComplete
    <3>2. CASE /\ success \/ ~IsEmergency(current) \/ currentRetries = EmergencyRetryLimit
               /\ ConcludeCurrent(success)
      BY <2>2, <3>2, ConcludeLosses DEF OnSendComplete
    <3> QED BY <2>2, <3>1, <3>2 DEF OnSendComplete
  <2>3. CASE UNCHANGED vars
    BY <2>3, Zenon DEF vars, transportVars, historyVars, LossesAreCounted, OrdinaryRefusals,
       EmergencyLosses, Displacements, Failures, Refused, Urgent, Lost
  <2> QED BY <2>1, <2>2, <2>3 DEF Next
<1>3. IInv /\ LossesAreCounted => EveryFrameAccountedFor
  BY DEF IInv, EveryFrameAccountedFor
<1>4. QED
  BY <1>1, <1>2, <1>3, TransportInvariant, PTL DEF Spec

=============================================================================
