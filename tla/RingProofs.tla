----------------------------- MODULE RingProofs -----------------------------
(***************************************************************************)
(* Theorems about the player's ring: it keeps its types, it is a bounded   *)
(* queue, and its only consumer is never left asleep beside entries.       *)
(***************************************************************************)
EXTENDS RingGeneric, SequenceTheorems, TLAPS

\* The mutex is held across steps exactly by an Insert that has advanced the
\* index, from where its local variable says.
LockOK ==
    /\ \A t \in Threads : pc[t] = "advanced" <=> Lock = t
    /\ Lock # NoThread => NextInsert = Following(OldNextInsert)

RingInv == TypeOK /\ LockOK

\* Only a producer is on its way to the event.
Sleeper ==
    \A c \in Consumers :
        pc[c] = "wait" =>
            Signal \/ (\E p \in Producers : pc[p] = "signal") \/ Count \in {0, MaxEntries}

USE DEF Threads, Limit, Slots

---------------------------------------------------------------------------
\* The number of entries is within the capacity, and the slots they are in
\* exist, are distinct from the one inserted into next, and follow each other.
LEMMA CountBounds ==
    ASSUME TypeOK
    PROVE  /\ LastInsert \in Slots
           /\ Count \in 0 .. MaxEntries
           /\ Count = 0 <=> NextExtract = LastInsert
           /\ Count = MaxEntries <=> Following(LastInsert) = NextExtract
           /\ \A i \in 0 .. MaxEntries : SlotOf(i) \in Slots
           /\ \A i \in 0 .. MaxEntries : i < Count => SlotOf(i) # LastInsert
           /\ SlotOf(Count) = LastInsert
           /\ SlotOf(0) = NextExtract
BY CapacityAssumption DEF TypeOK, LastInsert, Count, SlotOf, Following

\* What is in the ring, as a sequence.
LEMMA ContentsSequence ==
    ASSUME TypeOK
    PROVE  /\ Contents \in Seq(Values)
           /\ Len(Contents) = Count
           /\ \A i \in 1 .. Count : Contents[i] = Storage[SlotOf(i - 1)]
<1>1. Count \in Nat /\ Count <= MaxEntries
  BY CountBounds, CapacityAssumption
<1>2. \A i \in 1 .. Count : Storage[SlotOf(i - 1)] \in Values
  BY <1>1, CountBounds, CapacityAssumption DEF TypeOK
<1> QED
  BY <1>1, <1>2 DEF Contents

LEMMA ContentsTyped == TypeOK => Len(Contents) = Count /\ Contents \in Seq(Values)
BY ContentsSequence

\* Two sequences are the same if their lengths and entries are.
LEMMA SameEntries ==
    ASSUME NEW S, NEW s \in Seq(S), NEW t \in Seq(S), Len(s) = Len(t),
           \A i \in 1 .. Len(s) : s[i] = t[i]
    PROVE  s = t
OBVIOUS

---------------------------------------------------------------------------
LEMMA InitInv == Init => RingInv
<1> SUFFICES ASSUME Init PROVE RingInv
  OBVIOUS
<1>1. TypeOK
  <2>1. 0 \in Slots
    BY CapacityAssumption
  <2>2. pc \in [Threads -> {"idle", "advanced", "signal", "look", "wait", "take"}]
    BY DEF Init
  <2>3. answer \in [Threads -> Answers]
    BY DEF Init, Answers
  <2> QED
    BY <2>1, <2>2, <2>3 DEF Init, TypeOK
<1>2. LockOK
  BY ThreadAssumption DEF Init, LockOK
<1> QED
  BY <1>1, <1>2 DEF RingInv

LEMMA StepInv == ASSUME RingInv, [Next]_vars PROVE RingInv'
<1> USE CapacityAssumption, ThreadAssumption DEF RingInv, TypeOK, LockOK, Goto, Answer, Following
<1>1. CASE UNCHANGED vars
  BY <1>1 DEF vars
<1>2. ASSUME NEW p \in Producers, InsertAdvance(p) PROVE RingInv'
  BY <1>2 DEF InsertAdvance
<1>3. ASSUME NEW p \in Producers, InsertCommit(p) PROVE RingInv'
  BY <1>3 DEF InsertCommit, Answers
<1>4. ASSUME NEW p \in Producers, InsertSignal(p) PROVE RingInv'
  BY <1>4 DEF InsertSignal
<1>5. ASSUME NEW p \in Producers, Flush(p) PROVE RingInv'
  BY <1>5 DEF Flush
<1>6. ASSUME NEW c \in Consumers, ExtractReset(c) PROVE RingInv'
  BY <1>6 DEF ExtractReset
<1>7. ASSUME NEW c \in Consumers, ExtractLook(c) PROVE RingInv'
  BY <1>7 DEF ExtractLook
<1>8. ASSUME NEW c \in Consumers, ExtractWoken(c) \/ ExtractTimeout(c) PROVE RingInv'
  BY <1>8 DEF ExtractWoken, ExtractTimeout
<1>9. ASSUME NEW c \in Consumers, ExtractTake(c) PROVE RingInv'
  BY <1>9 DEF ExtractTake, Answers
<1> QED
  BY <1>1, <1>2, <1>3, <1>4, <1>5, <1>6, <1>7, <1>8, <1>9 DEF Next, Producer, Consumer

LEMMA RingInvariant == Spec => []RingInv
BY InitInv, StepInv, PTL DEF Spec

\* Every variable of the ring keeps its type: no index leaves the array.
THEOREM RingTyped == Spec => []TypeOK
BY RingInvariant, PTL DEF RingInv

---------------------------------------------------------------------------
(* The refinement: one lemma per kind of step. *)

LEMMA SameContents ==
    ASSUME UNCHANGED <<Storage, NextExtract, NextInsert, OldNextInsert, Lock>>
    PROVE  UNCHANGED Contents
BY DEF Contents, Count, LastInsert, SlotOf

LEMMA AdvanceStutters ==
    ASSUME RingInv, NEW p \in Producers, InsertAdvance(p)
    PROVE  UNCHANGED Contents
<1>1. TypeOK /\ TypeOK'
  BY StepInv DEF RingInv, Next, Producer
<1>2. LastInsert = NextInsert /\ LastInsert' = NextInsert /\ NextExtract' = NextExtract
  BY ThreadAssumption DEF LastInsert, InsertAdvance
<1>3. Count' = Count
  BY <1>2 DEF Count
<1>4. Count \in Nat /\ Count <= MaxEntries
  BY <1>1, CountBounds, CapacityAssumption
<1>5. ASSUME NEW i \in 1 .. Count PROVE Storage'[SlotOf(i - 1)] = Storage[SlotOf(i - 1)]
  <2>1. SlotOf(i - 1) # NextInsert /\ SlotOf(i - 1) \in Slots
    BY <1>1, <1>2, <1>4, CountBounds, CapacityAssumption
  <2> QED
    BY <2>1 DEF InsertAdvance, RingInv, TypeOK
<1>6. \A i \in 1 .. Count : SlotOf(i - 1)' = SlotOf(i - 1)
  BY <1>2 DEF SlotOf
<1> QED
  BY <1>3, <1>5, <1>6 DEF Contents

LEMMA CommitInserts ==
    ASSUME RingInv, NEW p \in Producers, InsertCommit(p)
    PROVE  Queue!Insert(p)
<1>1. TypeOK /\ TypeOK' /\ LockOK
  BY StepInv DEF RingInv, Next, Producer
<1>2. /\ Lock = p /\ Lock # NoThread /\ Lock' = NoThread
      /\ LastInsert = OldNextInsert /\ NextInsert = Following(LastInsert)
      /\ NextExtract' = NextExtract /\ Storage' = Storage
  BY <1>1, ThreadAssumption DEF LockOK, InsertCommit, LastInsert
<1>3. Count \in Nat /\ Count <= MaxEntries /\ Len(Contents) = Count /\ Contents \in Seq(Values)
  BY <1>1, CountBounds, ContentsSequence, CapacityAssumption
<1>4. CASE NextInsert = NextExtract
  <2>1. Count = MaxEntries
    BY <1>1, <1>2, <1>4, CountBounds
  <2>2. LastInsert' = LastInsert /\ Answer(p, "full")
    BY <1>2, <1>4 DEF InsertCommit, LastInsert
  <2>3. Contents' = Contents
    BY <1>2, <2>2 DEF Contents, Count, SlotOf
  <2> QED
    BY <1>3, <2>1, <2>2, <2>3 DEF Queue!Insert, Queue!Answer, Answer
<1>5. CASE NextInsert # NextExtract
  <2>1. Count < MaxEntries
    BY <1>1, <1>2, <1>3, <1>5, CountBounds, CapacityAssumption
  <2>2. LastInsert' = Following(LastInsert) /\ Answer(p, "accepted")
    BY <1>2, <1>5 DEF InsertCommit, LastInsert
  <2>3. Count' = Count + 1
    <3>1. Following(LastInsert) # NextExtract /\ NextExtract \in Slots /\ LastInsert \in Slots
      BY <1>1, <1>2, <1>5, CountBounds DEF TypeOK
    <3> QED
      BY <1>2, <2>2, <3>1, CapacityAssumption DEF Count, Following
  <2>4. Storage[LastInsert] \in Values
    BY <1>1, CountBounds DEF TypeOK
  <2>5. Len(Contents') = Count + 1 /\ Contents' \in Seq(Values)
    <3>1. (Len(Contents) = Count /\ Contents \in Seq(Values))'
      BY <1>1, ContentsTyped, PTL
    <3> QED
      BY <2>3, <3>1
  <2>6. ASSUME NEW i \in 1 .. Count + 1
        PROVE  Contents'[i] = Append(Contents, Storage[LastInsert])[i]
    <3>1. Contents'[i] = Storage[SlotOf(i - 1)]
      BY <1>1, <1>2, <2>3 DEF Contents, SlotOf
    <3>2. SlotOf(Count) = LastInsert
      BY <1>1, CountBounds
    <3>3. CASE i = Count + 1
      <4>1. Append(Contents, Storage[LastInsert])[i] = Storage[LastInsert]
        BY <1>3, <2>4, <3>3
      <4>2. i - 1 = Count
        BY <1>3, <3>3
      <4> QED
        BY <3>1, <3>2, <4>1, <4>2
    <3>4. CASE i \in 1 .. Count
      <4>1. Append(Contents, Storage[LastInsert])[i] = Contents[i]
        BY <1>3, <2>4, <3>4
      <4>2. Contents[i] = Storage[SlotOf(i - 1)]
        BY <1>1, <3>4, ContentsSequence
      <4> QED
        BY <3>1, <4>1, <4>2
    <3> QED
      BY <1>3, <3>3, <3>4
  <2>7. Contents' = Append(Contents, Storage[LastInsert])
    BY <1>3, <2>4, <2>5, <2>6, SameEntries
  <2> QED
    BY <1>3, <2>1, <2>2, <2>4, <2>7 DEF Queue!Insert, Queue!Answer, Answer
<1> QED
  BY <1>4, <1>5

LEMMA TakeExtracts ==
    ASSUME RingInv, NEW c \in Consumers, ExtractTake(c)
    PROVE  Queue!Extract(c)
<1>1. TypeOK /\ TypeOK'
  BY StepInv DEF RingInv, Next, Consumer
<1>2. LastInsert = NextInsert /\ LastInsert' = NextInsert /\ Storage' = Storage
  BY DEF LastInsert, ExtractTake
<1>3. Count \in Nat /\ Count <= MaxEntries /\ Len(Contents) = Count /\ Contents \in Seq(Values)
  BY <1>1, CountBounds, ContentsSequence, CapacityAssumption
<1>4. CASE NextExtract = NextInsert
  <2>1. NextExtract' = NextExtract /\ Answer(c, "nothing")
    BY <1>4 DEF ExtractTake
  <2>2. Contents' = Contents
    BY <1>2, <2>1 DEF Contents, Count, SlotOf
  <2>3. Contents = <<>>
    BY <1>1, <1>2, <1>3, <1>4, CountBounds
  <2> QED
    BY <2>1, <2>2, <2>3 DEF Queue!Extract, Queue!Answer, Answer
<1>5. CASE NextExtract # NextInsert
  <2>1. NextExtract' = Following(NextExtract) /\ Answer(c, Storage[NextExtract])
    BY <1>5 DEF ExtractTake
  <2>2. Count > 0
    BY <1>1, <1>2, <1>3, <1>5, CountBounds
  <2>3. Count' = Count - 1
    BY <1>1, <1>2, <1>5, <2>1, CapacityAssumption DEF Count, Following, TypeOK
  <2>4. Head(Contents) = Storage[NextExtract] /\ Contents # <<>>
    BY <1>1, <1>3, <2>2, CountBounds, ContentsSequence
  <2>5. Len(Contents') = Count - 1 /\ Contents' \in Seq(Values)
    <3>1. (Len(Contents) = Count /\ Contents \in Seq(Values))'
      BY <1>1, ContentsTyped, PTL
    <3> QED
      BY <2>3, <3>1
  <2>6. Len(Tail(Contents)) = Count - 1 /\ Tail(Contents) \in Seq(Values)
    BY <1>3, <2>4
  <2>7. ASSUME NEW i \in 1 .. Count - 1 PROVE Contents'[i] = Tail(Contents)[i]
    <3>1. Contents'[i] = Storage[SlotOf(i - 1)']
      BY <1>2, <2>3 DEF Contents
    <3>2. SlotOf(i - 1)' = SlotOf(i)
      BY <1>1, <1>3, <2>1, CapacityAssumption DEF SlotOf, Following, TypeOK
    <3>3. Tail(Contents)[i] = Contents[i + 1]
      BY <1>3, <2>4
    <3>4. i + 1 \in 1 .. Count /\ (i + 1) - 1 = i
      BY <1>3
    <3>5. Contents[i + 1] = Storage[SlotOf(i)]
      BY <1>1, <3>4, ContentsSequence
    <3> QED
      BY <3>1, <3>2, <3>3, <3>5
  <2>8. Contents' = Tail(Contents)
    BY <2>5, <2>6, <2>7, SameEntries
  <2> QED
    BY <2>1, <2>4, <2>8 DEF Queue!Extract, Queue!Answer, Answer
<1> QED
  BY <1>4, <1>5

LEMMA FlushEmpties ==
    ASSUME RingInv, NEW p \in Producers, Flush(p)
    PROVE  Queue!Flush
<1>1. TypeOK'
  BY StepInv DEF RingInv, Next, Producer
<1>2. Count' = 0
  BY DEF Flush, Count, LastInsert
<1>3. Len(Contents') = 0 /\ Contents' \in Seq(Values)
  <2>1. (Len(Contents) = Count /\ Contents \in Seq(Values))'
    BY <1>1, ContentsTyped, PTL
  <2> QED
    BY <1>2, <2>1
<1> QED
  BY <1>3 DEF Queue!Flush, Flush

LEMMA StepImplements ==
    ASSUME RingInv, [Next]_vars PROVE [Queue!Next]_<<Contents, answer>>
<1>1. CASE UNCHANGED vars
  BY <1>1, SameContents DEF vars
<1>2. ASSUME NEW p \in Producers, InsertAdvance(p) PROVE UNCHANGED <<Contents, answer>>
  BY <1>2, AdvanceStutters DEF InsertAdvance
<1>3. ASSUME NEW p \in Producers, InsertCommit(p) PROVE Queue!Next
  BY <1>3, CommitInserts DEF Queue!Next
<1>4. ASSUME NEW p \in Producers, InsertSignal(p) PROVE UNCHANGED <<Contents, answer>>
  BY <1>4, SameContents DEF InsertSignal
<1>5. ASSUME NEW p \in Producers, Flush(p) PROVE Queue!Next
  BY <1>5, FlushEmpties DEF Queue!Next
<1>6. ASSUME NEW c \in Consumers, ExtractReset(c) PROVE UNCHANGED <<Contents, answer>>
  BY <1>6, SameContents DEF ExtractReset
<1>7. ASSUME NEW c \in Consumers, ExtractLook(c) PROVE UNCHANGED <<Contents, answer>>
  BY <1>7, SameContents DEF ExtractLook
<1>8. ASSUME NEW c \in Consumers, ExtractWoken(c) \/ ExtractTimeout(c)
      PROVE  UNCHANGED <<Contents, answer>>
  BY <1>8, SameContents DEF ExtractWoken, ExtractTimeout
<1>9. ASSUME NEW c \in Consumers, ExtractTake(c) PROVE Queue!Next
  BY <1>9, TakeExtracts DEF Queue!Next
<1> QED
  BY <1>1, <1>2, <1>3, <1>4, <1>5, <1>6, <1>7, <1>8, <1>9 DEF Next, Producer, Consumer

LEMMA InitImplements == Init => Queue!Init
<1> SUFFICES ASSUME Init PROVE Queue!Init
  OBVIOUS
<1>1. TypeOK
  BY InitInv DEF RingInv
<1>2. Count = 0
  BY DEF Init, Count, LastInsert
<1>3. Contents = <<>>
  BY <1>1, <1>2, ContentsSequence
<1> QED
  BY <1>3 DEF Init, Queue!Init

\* The ring is a bounded queue for any number of threads, capacity and values:
\* each call takes effect at one instant, entries come out in the order they
\* went in, a call is refused only by a full ring and finds nothing only in an
\* empty one (RingGeneric_c::Insert, Extract, Flush).
THEOREM RingIsQueue == Spec => ImplementsQueue
BY InitImplements, RingInvariant, StepImplements, PTL
DEF Spec, ImplementsQueue, Queue!Spec

---------------------------------------------------------------------------
LEMMA StepSleeper ==
    ASSUME RingInv, Sleeper, [Next]_vars, \A c, d \in Consumers : c = d
    PROVE  Sleeper'
<1> USE ThreadAssumption, CapacityAssumption
<1>0. TypeOK /\ TypeOK' /\ LockOK
  BY StepInv DEF RingInv
<1>1. CASE UNCHANGED vars
  BY <1>1 DEF vars, Sleeper, Count, LastInsert
<1>2. ASSUME NEW p \in Producers, InsertAdvance(p) PROVE Sleeper'
  <2>1. Count' = Count /\ UNCHANGED Signal
    BY <1>2 DEF InsertAdvance, Count, LastInsert
  <2> QED
    BY <1>0, <1>2, <2>1 DEF InsertAdvance, Sleeper, Goto, TypeOK
<1>3. ASSUME NEW p \in Producers, InsertCommit(p) PROVE Sleeper'
  <2>1. CASE NextInsert = NextExtract
    <3>1. Count' = Count /\ UNCHANGED Signal
      BY <1>0, <1>3, <2>1 DEF InsertCommit, Count, LastInsert, LockOK
    <3> QED
      BY <1>0, <1>3, <2>1, <3>1 DEF InsertCommit, Sleeper, Goto, TypeOK
  <2>2. CASE NextInsert # NextExtract
    BY <1>0, <1>3, <2>2 DEF InsertCommit, Sleeper, Goto, TypeOK
  <2> QED
    BY <2>1, <2>2
<1>4. ASSUME NEW p \in Producers, InsertSignal(p) PROVE Sleeper'
  BY <1>4 DEF InsertSignal, Sleeper
<1>5. ASSUME NEW p \in Producers, Flush(p) PROVE Sleeper'
  BY <1>5 DEF Flush, Sleeper, Count, LastInsert
<1>6. ASSUME NEW c \in Consumers, ExtractReset(c) PROVE Sleeper'
  BY <1>0, <1>6 DEF ExtractReset, Sleeper, Goto, TypeOK
<1>7. ASSUME NEW c \in Consumers, ExtractLook(c) PROVE Sleeper'
  <2>1. Count' = Count /\ UNCHANGED Signal
    BY <1>7 DEF ExtractLook, Count, LastInsert
  <2>2. NextExtract = NextInsert => Count \in {0, MaxEntries}
    <3>1. CASE Lock = NoThread
      BY <1>0, <3>1, CountBounds DEF LastInsert
    <3>2. CASE Lock # NoThread
      BY <1>0, <3>2, CountBounds DEF LastInsert, LockOK
    <3> QED
      BY <3>1, <3>2
  <2>3. pc'[c] = "wait" => Count' \in {0, MaxEntries}
    BY <1>0, <1>7, <2>1, <2>2 DEF ExtractLook, Goto, TypeOK
  <2> QED
    BY <2>3 DEF Sleeper
<1>8. ASSUME NEW c \in Consumers, ExtractWoken(c) \/ ExtractTimeout(c) PROVE Sleeper'
  BY <1>0, <1>8 DEF ExtractWoken, ExtractTimeout, Sleeper, Goto, TypeOK
<1>9. ASSUME NEW c \in Consumers, ExtractTake(c) PROVE Sleeper'
  BY <1>0, <1>9 DEF ExtractTake, Sleeper, Goto, TypeOK
<1> QED
  BY <1>1, <1>2, <1>3, <1>4, <1>5, <1>6, <1>7, <1>8, <1>9 DEF Next, Producer, Consumer

LEMMA SleeperWakes == ASSUME RingInv, Sleeper PROVE NoLostWakeup
<1>1. Count = 0 => Contents = <<>>
  BY ContentsSequence DEF RingInv
<1> QED
  BY <1>1 DEF Sleeper, NoLostWakeup

\* With one thread that extracts, no wake-up is lost: it sleeps beside entries
\* only if the event is set or about to be, or the ring is full.
THEOREM RingWakes ==
    ASSUME \A c, d \in Consumers : c = d PROVE Spec => []NoLostWakeup
<1>1. Init => Sleeper
  BY ThreadAssumption DEF Init, Sleeper
<1>2. RingInv /\ Sleeper /\ [Next]_vars => Sleeper'
  BY StepSleeper
<1>3. RingInv /\ Sleeper => NoLostWakeup
  BY SleeperWakes
<1> QED
  BY <1>1, <1>2, <1>3, RingInvariant, PTL DEF Spec
=============================================================================
