-------------------------- MODULE CodecOwnerProofs --------------------------
(***************************************************************************)
(* Theorems about who owns the decode buffers of the player's codec.       *)
(***************************************************************************)
EXTENDS CodecMmeProofs

\* A decode that still has to report to its buffer; a decode that reads a buffer.
Waits(b, n) ==
    \/ \E i \in DOMAIN mme :
         /\ mme[i].buffer = b /\ mme[i].number = n
         /\ i = 1 => pc["mme"] \in {"idle", "test", "take"}
    \/ pc["decode"] \in {"send", "release"} /\ work.buffer = b /\ work.number = n
Reads(b, n) ==
    \/ \E i \in DOMAIN mme :
         /\ mme[i].use = b /\ mme[i].number = n
         /\ i = 1 => pc["mme"] \notin {"context", "forgetContext", "released"}
    \/ /\ pc["decode"] \in {"count", "send", "release", "discard", "compare", "forgetIndex",
                            "references"}
       /\ work.use = b /\ work.number = n

Waiting(b) == {n \in 0..MaxPictures[direct] : Waits(b, n)}
Reading(b) == {n \in 0..MaxPictures[direct] : Reads(b, n)}

\* The buffer that pictures are being, or will go on to be, filled into.
Filling(b) ==
    /\ current = b
    /\ \/ pc["decode"] \in {"idle", "marker", "test", "take", "look", "argument", "output",
                            "obtain", "initialize", "prepare", "use", "count", "references",
                            "context", "forgetContext", "released"}
       \/ pc["decode"] \in {"send", "finish"} /\ ~work.last

Counting(b) == pc["decode"] \in {"use", "count"} /\ work.buffer = b
Outputting(b) == pc["decode"] = "output" /\ partial["decode"] = b
Discarded(t, b) == pc[t] = "discard" /\ Released(t).buffer = b

\* Somebody has the reference that a buffer was obtained with.
Obtained(b) == \/ Filling(b) \/ Counting(b) \/ Outputting(b)
               \/ state[b].busy > 0 \/ output[b] > 0
               \/ \E t \in Threads : Discarded(t, b)

One(p) == IF p THEN 1 ELSE 0

\* A buffer counts the decodes that will report to it, and has a reference for
\* each of its owners.
WaitsCounted(b) == state[b].busy >= Cardinality(Waiting(b))
OwnersCounted(b) == refs[b] >= One(Obtained(b)) + state[b].pinned + Cardinality(Reading(b))

\* A buffer that is filled is not yet output, one that was passed on or is
\* discarded has no decode left, and only one of these happens to it; in the pool it is
\* cleared.
StateOK(b) ==
    /\ refs[b] = 0 => ~state[b].out
    /\ output[b] > 0 => output[b] = 1 /\ state[b].busy = 0 /\ state[b].out
    /\ Filling(b) \/ Counting(b) \/ Outputting(b) => ~state[b].out
    /\ \A t \in Threads : Discarded(t, b) =>
         /\ output[b] = 0 /\ state[b].busy = 0 /\ state[b].out
         /\ \A r \in Threads : Discarded(r, b) => t = r

BuffersOK == \A b \in Buffers : StateOK(b) /\ WaitsCounted(b) /\ OwnersCounted(b)

\* The index may be reset under the decoder's hands, but is not another's.
IndexOK ==
    /\ pc["decode"] \in {"use", "count", "send", "finish", "release", "discard", "compare",
                         "forgetIndex"} =>
           current \in {work.buffer, NoBuffer}
    /\ pc["decode"] \in {"output", "forget"} => current \in {partial["decode"], NoBuffer}

\* No decode is under way into the buffer that is about to be initialized.
FreshOK == \A b \in Buffers :
              pc["decode"] = "initialize" /\ current = b => state[b].busy = 0

Owned == pc["drain"] = "idle" /\ BuffersOK /\ IndexOK

\* Where the draining thread outputs partial buffers itself all this holds until
\* there is a drain.
OwnInv == (direct => drains = 0) => wild # "count" /\ Owned /\ FreshOK

-----------------------------------------------------------------------------
(* Counting members. *)

\* Sets of numbers up to some bound, and how many members they have.
LEMMA SmallSets ==
    ASSUME NEW m \in Nat, NEW A \in SUBSET (0..m)
    PROVE  IsFiniteSet(A) /\ Cardinality(A) \in Nat
<1>1. IsFiniteSet(0..m)
  BY FS_Interval
<1>2. IsFiniteSet(A)
  BY <1>1, FS_Subset
<1> QED
  BY <1>2, FS_CardinalityType

LEMMA SubsetSmaller ==
    ASSUME NEW m \in Nat, NEW B \in SUBSET (0..m), NEW A \in SUBSET B
    PROVE  Cardinality(A) <= Cardinality(B)
BY SmallSets, FS_Subset

LEMMA OneMore ==
    ASSUME NEW m \in Nat, NEW A \in SUBSET (0..m), NEW B \in SUBSET (0..m), NEW x,
           A \subseteq B \cup {x}
    PROVE  Cardinality(A) <= Cardinality(B) + 1
<1>1. IsFiniteSet(B) /\ Cardinality(B) \in Nat /\ IsFiniteSet(A) /\ Cardinality(A) \in Nat
  BY SmallSets
<1>2. /\ IsFiniteSet(B \cup {x})
      /\ Cardinality(B \cup {x}) = (IF x \in B THEN Cardinality(B) ELSE Cardinality(B) + 1)
  BY <1>1, FS_AddElement
<1>3. Cardinality(A) <= Cardinality(B \cup {x})
  BY <1>2, FS_Subset
<1>4. CASE x \in B
  BY <1>1, <1>2, <1>3, <1>4
<1>5. CASE x \notin B
  BY <1>1, <1>2, <1>3, <1>5
<1> QED
  BY <1>4, <1>5

LEMMA OneLess ==
    ASSUME NEW m \in Nat, NEW A \in SUBSET (0..m), NEW B \in SUBSET (0..m), NEW x \in B,
           A \subseteq B \ {x}
    PROVE  Cardinality(A) + 1 <= Cardinality(B)
<1>1. IsFiniteSet(B) /\ Cardinality(B) \in Nat /\ IsFiniteSet(A) /\ Cardinality(A) \in Nat
  BY SmallSets
<1>2. Cardinality(B \ {x}) = Cardinality(B) - 1 /\ IsFiniteSet(B \ {x})
  BY <1>1, FS_RemoveElement
<1>3. Cardinality(A) <= Cardinality(B \ {x})
  BY <1>2, FS_Subset
<1> QED
  BY <1>1, <1>2, <1>3

\* How many decodes wait for a buffer, and how many read it.
LEMMA OwnerCounts ==
    ASSUME Types, NEW b \in Buffers
    PROVE  /\ Cardinality(Waiting(b)) \in Nat /\ Cardinality(Reading(b)) \in Nat
           /\ \A n \in Waiting(b) : Cardinality(Waiting(b)) > 0
           /\ \A n \in Reading(b) : Cardinality(Reading(b)) > 0
<1>1. MaxPictures[direct] \in Nat
  BY MaxType DEF Types
<1>2. /\ Waiting(b) \in SUBSET (0..MaxPictures[direct]) /\ Reading(b) \in SUBSET (0..MaxPictures[direct])
  BY DEF Waiting, Reading
<1> HIDE DEF Waiting, Reading
<1>3. /\ Cardinality(Waiting(b)) \in Nat /\ Cardinality(Reading(b)) \in Nat
  BY <1>1, <1>2, SmallSets
<1>4. {} \in SUBSET (0..MaxPictures[direct]) /\ Cardinality({}) = 0
  BY FS_EmptySet
<1>5. \A n \in Waiting(b) : Cardinality({}) + 1 <= Cardinality(Waiting(b))
  BY <1>1, <1>2, <1>4, OneLess
<1>6. \A n \in Reading(b) : Cardinality({}) + 1 <= Cardinality(Reading(b))
  BY <1>1, <1>2, <1>4, OneLess
<1> QED
  BY <1>3, <1>4, <1>5, <1>6

\* A step after which as many wait, one less or one more; likewise for readers.
LEMMA WaitingKept ==
    ASSUME Types, direct' = direct, NEW b \in Buffers, \A n : Waits(b, n)' => Waits(b, n)
    PROVE  Cardinality(Waiting(b)') <= Cardinality(Waiting(b)) /\ Cardinality(Waiting(b)') \in Nat
<1>1. MaxPictures[direct] \in Nat
  BY MaxType DEF Types
<1>2. Waiting(b) \in SUBSET (0..MaxPictures[direct]) /\ Waiting(b)' \in SUBSET Waiting(b)
  BY DEF Waiting
<1> QED
  BY <1>1, <1>2, SmallSets, SubsetSmaller

LEMMA WaitingLess ==
    ASSUME Types, direct' = direct, NEW b \in Buffers, NEW x \in Waiting(b),
           \A n : Waits(b, n)' => Waits(b, n) /\ n # x
    PROVE  Cardinality(Waiting(b)') + 1 <= Cardinality(Waiting(b)) /\ Cardinality(Waiting(b)') \in Nat
<1>1. MaxPictures[direct] \in Nat
  BY MaxType DEF Types
<1>2. /\ Waiting(b) \in SUBSET (0..MaxPictures[direct]) /\ Waiting(b)' \subseteq Waiting(b) \ {x}
      /\ Waiting(b)' \in SUBSET (0..MaxPictures[direct])
  BY DEF Waiting
<1> HIDE DEF Waiting
<1> QED
  BY <1>1, <1>2, SmallSets, OneLess

LEMMA WaitingMore ==
    ASSUME Types, direct' = direct, NEW b \in Buffers, NEW x,
           \A n : Waits(b, n)' => Waits(b, n) \/ n = x
    PROVE  Cardinality(Waiting(b)') <= Cardinality(Waiting(b)) + 1 /\ Cardinality(Waiting(b)') \in Nat
<1>1. MaxPictures[direct] \in Nat
  BY MaxType DEF Types
<1>2. /\ Waiting(b) \in SUBSET (0..MaxPictures[direct]) /\ Waiting(b)' \subseteq Waiting(b) \cup {x}
      /\ Waiting(b)' \in SUBSET (0..MaxPictures[direct])
  BY DEF Waiting
<1> HIDE DEF Waiting
<1> QED
  BY <1>1, <1>2, SmallSets, OneMore

LEMMA ReadingKept ==
    ASSUME Types, direct' = direct, NEW b \in Buffers, \A n : Reads(b, n)' => Reads(b, n)
    PROVE  Cardinality(Reading(b)') <= Cardinality(Reading(b)) /\ Cardinality(Reading(b)') \in Nat
<1>1. MaxPictures[direct] \in Nat
  BY MaxType DEF Types
<1>2. Reading(b) \in SUBSET (0..MaxPictures[direct]) /\ Reading(b)' \in SUBSET Reading(b)
  BY DEF Reading
<1> QED
  BY <1>1, <1>2, SmallSets, SubsetSmaller

LEMMA ReadingLess ==
    ASSUME Types, direct' = direct, NEW b \in Buffers, NEW x \in Reading(b),
           \A n : Reads(b, n)' => Reads(b, n) /\ n # x
    PROVE  Cardinality(Reading(b)') + 1 <= Cardinality(Reading(b)) /\ Cardinality(Reading(b)') \in Nat
<1>1. MaxPictures[direct] \in Nat
  BY MaxType DEF Types
<1>2. /\ Reading(b) \in SUBSET (0..MaxPictures[direct]) /\ Reading(b)' \subseteq Reading(b) \ {x}
      /\ Reading(b)' \in SUBSET (0..MaxPictures[direct])
  BY DEF Reading
<1> HIDE DEF Reading
<1> QED
  BY <1>1, <1>2, SmallSets, OneLess

LEMMA ReadingMore ==
    ASSUME Types, direct' = direct, NEW b \in Buffers, NEW x,
           \A n : Reads(b, n)' => Reads(b, n) \/ n = x
    PROVE  Cardinality(Reading(b)') <= Cardinality(Reading(b)) + 1 /\ Cardinality(Reading(b)') \in Nat
<1>1. MaxPictures[direct] \in Nat
  BY MaxType DEF Types
<1>2. /\ Reading(b) \in SUBSET (0..MaxPictures[direct]) /\ Reading(b)' \subseteq Reading(b) \cup {x}
      /\ Reading(b)' \in SUBSET (0..MaxPictures[direct])
  BY DEF Reading
<1> HIDE DEF Reading
<1> QED
  BY <1>1, <1>2, SmallSets, OneMore

\* What the counts say of a buffer.
LEMMA OwnerFacts ==
    ASSUME Types, BuffersOK, NEW b \in Buffers
    PROVE  /\ refs[b] \in Nat /\ output[b] \in Nat /\ state[b].busy \in Nat
           /\ state[b].pinned \in Nat /\ state[b].out \in BOOLEAN
           /\ Cardinality(Waiting(b)) \in Nat /\ Cardinality(Reading(b)) \in Nat
           /\ refs[b] >= state[b].pinned + Cardinality(Reading(b))
           /\ Obtained(b) => refs[b] >= 1 + state[b].pinned + Cardinality(Reading(b))
           /\ state[b].busy >= Cardinality(Waiting(b))
           /\ StateOK(b)
<1>1. StateOK(b) /\ WaitsCounted(b) /\ OwnersCounted(b)
  BY DEF BuffersOK
<1>2. /\ refs[b] \in Nat /\ output[b] \in Nat /\ state[b].busy \in Nat
      /\ state[b].pinned \in Nat /\ state[b].out \in BOOLEAN
  BY CountTypes DEF Types, BuffersType
<1>3. Cardinality(Waiting(b)) \in Nat /\ Cardinality(Reading(b)) \in Nat
  BY OwnerCounts
<1>4. One(Obtained(b)) \in Nat /\ (Obtained(b) => One(Obtained(b)) = 1)
  BY DEF One
<1>5. /\ refs[b] >= state[b].pinned + Cardinality(Reading(b))
      /\ Obtained(b) => refs[b] >= 1 + state[b].pinned + Cardinality(Reading(b))
  <2> HIDE DEF Obtained, Reading, One
  <2> QED
    BY <1>1, <1>2, <1>3, <1>4 DEF OwnersCounted
<1> QED
  BY <1>1, <1>2, <1>3, <1>5 DEF WaitsCounted

\* What is obtained has an owner.
LEMMA ObtainedOwned ==
    ASSUME Types, BuffersOK, NEW b \in Buffers, Obtained(b)
    PROVE  refs[b] # 0
BY OwnerFacts

\* The references after a step suffice.
LEMMA OwnersEnough ==
    ASSUME NEW b \in Buffers,
           refs'[b] >= state'[b].pinned + Cardinality(Reading(b)'),
           Obtained(b)' => refs'[b] >= 1 + state'[b].pinned + Cardinality(Reading(b)'),
           state'[b].pinned \in Nat, Cardinality(Reading(b)') \in Nat
    PROVE  OwnersCounted(b)'
<1>1. CASE Obtained(b)'
  BY <1>1 DEF OwnersCounted, One
<1>2. CASE ~Obtained(b)'
  BY <1>2 DEF OwnersCounted, One
<1> QED
  BY <1>1, <1>2

\* A buffer that a step does not change and that nobody else takes up.
LEMMA BufferKept ==
    ASSUME Types, direct' = direct, BuffersOK, NEW b \in Buffers,
           state'[b] = state[b], refs'[b] = refs[b], output'[b] = output[b],
           Filling(b)' => Filling(b),
           Counting(b)' => Counting(b) \/ Filling(b),
           Outputting(b)' => Outputting(b) \/ Filling(b),
           \A t \in Threads : Discarded(t, b)' => Discarded(t, b),
           \A n : Waits(b, n)' => Waits(b, n), \A n : Reads(b, n)' => Reads(b, n)
    PROVE  StateOK(b)' /\ WaitsCounted(b)' /\ OwnersCounted(b)'
<1>1. StateOK(b)
  BY OwnerFacts
<1>2. StateOK(b)'
  BY <1>1 DEF StateOK
<1>3. /\ Cardinality(Waiting(b)) \in Nat /\ Cardinality(Reading(b)) \in Nat
      /\ Cardinality(Waiting(b)') \in Nat /\ Cardinality(Reading(b)') \in Nat
      /\ Cardinality(Waiting(b)') <= Cardinality(Waiting(b))
      /\ Cardinality(Reading(b)') <= Cardinality(Reading(b))
  BY OwnerCounts, WaitingKept, ReadingKept
<1>4. WaitsCounted(b)'
  BY <1>3, OwnerFacts DEF WaitsCounted
<1>5. Obtained(b)' => Obtained(b)
  BY DEF Obtained
<1>6. OwnersCounted(b)'
  BY <1>3, <1>5, OwnerFacts, OwnersEnough
<1> QED
  BY <1>2, <1>4, <1>6

\* A step that changes no buffer.
LEMMA BuffersKept ==
    ASSUME Types, UNCHANGED <<state, refs, output>>, direct' = direct, BuffersOK,
           \A b \in Buffers : /\ Filling(b)' => Filling(b)
                              /\ Counting(b)' => Counting(b)
                              /\ Outputting(b)' => Outputting(b) \/ Filling(b)
                              /\ \A t \in Threads : Discarded(t, b)' => Discarded(t, b),
           \A b \in Buffers : \A n : (Waits(b, n)' => Waits(b, n)) /\ (Reads(b, n)' => Reads(b, n))
    PROVE  BuffersOK'
BY BufferKept DEF BuffersOK

-----------------------------------------------------------------------------
(* The steps that change no buffer. *)

LEMMA GetFailsKeeps ==
    ASSUME CountInv, Owned, Types', PlacesOK', direct' => drains' = 0, wild = "no", wild' =
           "no", GetFails
    PROVE  Owned'
<1>1. pc \in [Threads -> Labels] /\ pc["drain"] = "idle"
  BY DEF PlacesOK, Owned, CountInv, Threads, Releases, Tests
<1>2. UNCHANGED <<state, refs, output>> /\ direct' = direct
  BY DEF GetFails, Undefined, buffers, past
<1>3. pc'["drain"] = "idle"
  BY <1>1 DEF GetFails, Undefined, Fails, Goto, buffers, counts, codec, marks, past,
     threads, Threads
<1>4. \A b \in Buffers : /\ Filling(b)' => Filling(b)
                         /\ Counting(b)' => Counting(b)
                         /\ Outputting(b)' => Outputting(b) \/ Filling(b)
  BY <1>1, BuffersAssumption DEF Filling, Counting, Outputting, Threads, GetFails,
     Undefined, Fails, Goto, buffers, counts, codec, marks, past, threads
<1>5. \A b \in Buffers : \A r \in Threads : Discarded(r, b)' => Discarded(r, b)
  BY <1>1 DEF Discarded, Released, Threads, GetFails, Undefined, Fails, Goto, buffers,
     counts, codec, marks, past, threads
<1>6. \A b \in Buffers : \A n : Waits(b, n)' => Waits(b, n)
  BY <1>1 DEF Waits, Threads, GetFails, Undefined, Fails, Goto, buffers, counts, codec,
     marks, past, threads
<1>7. \A b \in Buffers : \A n : Reads(b, n)' => Reads(b, n)
  BY <1>1 DEF Reads, Threads, GetFails, Undefined, Fails, Goto, buffers, counts, codec,
     marks, past, threads
<1>8. IndexOK'
  BY <1>1 DEF Owned, IndexOK, Releases, Threads, GetFails, Undefined, Fails, Goto, buffers,
     counts, codec, marks, past, threads
<1>9. BuffersOK'
  BY <1>2, <1>4, <1>5, <1>6, <1>7, BuffersKept DEF Owned, CountInv
<1> QED
  BY <1>3, <1>8, <1>9 DEF Owned

LEMMA KeepDecodeBufferKeeps ==
    ASSUME CountInv, Owned, Types', PlacesOK', direct' => drains' = 0, wild = "no", wild' =
           "no", KeepDecodeBuffer
    PROVE  Owned'
<1>1. pc \in [Threads -> Labels] /\ pc["drain"] = "idle"
  BY DEF PlacesOK, Owned, CountInv, Threads, Releases, Tests
<1>2. UNCHANGED <<state, refs, output>> /\ direct' = direct
  BY DEF KeepDecodeBuffer, Undefined, buffers, past
<1>3. pc'["drain"] = "idle"
  BY <1>1 DEF KeepDecodeBuffer, Undefined, Fails, Goto, buffers, counts, codec, marks, past,
     threads, Threads
<1>4. \A b \in Buffers : /\ Filling(b)' => Filling(b)
                         /\ Counting(b)' => Counting(b)
                         /\ Outputting(b)' => Outputting(b) \/ Filling(b)
  BY <1>1, BuffersAssumption DEF Filling, Counting, Outputting, Threads, KeepDecodeBuffer,
     Undefined, Fails, Goto, buffers, counts, codec, marks, past, threads
<1>5. \A b \in Buffers : \A r \in Threads : Discarded(r, b)' => Discarded(r, b)
  BY <1>1 DEF Discarded, Released, Threads, KeepDecodeBuffer, Undefined, Fails, Goto,
     buffers, counts, codec, marks, past, threads
<1>6. \A b \in Buffers : \A n : Waits(b, n)' => Waits(b, n)
  BY <1>1 DEF Waits, Threads, KeepDecodeBuffer, Undefined, Fails, Goto, buffers, counts,
     codec, marks, past, threads
<1>7. \A b \in Buffers : \A n : Reads(b, n)' => Reads(b, n)
  BY <1>1 DEF Reads, Threads, KeepDecodeBuffer, Undefined, Fails, Goto, buffers, counts,
     codec, marks, past, threads
<1>8. IndexOK'
  BY <1>1 DEF Owned, IndexOK, Releases, Threads, KeepDecodeBuffer, Undefined, Fails, Goto,
     buffers, counts, codec, marks, past, threads
<1>9. BuffersOK'
  BY <1>2, <1>4, <1>5, <1>6, <1>7, BuffersKept DEF Owned, CountInv
<1> QED
  BY <1>3, <1>8, <1>9 DEF Owned

LEMMA KeepFailsKeeps ==
    ASSUME CountInv, Owned, Types', PlacesOK', direct' => drains' = 0, wild = "no", wild' =
           "no", KeepFails
    PROVE  Owned'
<1>1. pc \in [Threads -> Labels] /\ pc["drain"] = "idle"
  BY DEF PlacesOK, Owned, CountInv, Threads, Releases, Tests
<1>2. UNCHANGED <<state, refs, output>> /\ direct' = direct
  BY DEF KeepFails, Undefined, buffers, past
<1>3. pc'["drain"] = "idle"
  BY <1>1 DEF KeepFails, Undefined, Fails, Goto, buffers, counts, codec, marks, past,
     threads, Threads
<1>4. \A b \in Buffers : /\ Filling(b)' => Filling(b)
                         /\ Counting(b)' => Counting(b)
                         /\ Outputting(b)' => Outputting(b) \/ Filling(b)
  BY <1>1, BuffersAssumption DEF Filling, Counting, Outputting, Threads, KeepFails,
     Undefined, Fails, Goto, buffers, counts, codec, marks, past, threads
<1>5. \A b \in Buffers : \A r \in Threads : Discarded(r, b)' => Discarded(r, b)
  BY <1>1 DEF Discarded, Released, Threads, KeepFails, Undefined, Fails, Goto,
     buffers, counts, codec, marks, past, threads
<1>6. \A b \in Buffers : \A n : Waits(b, n)' => Waits(b, n)
  BY <1>1 DEF Waits, Threads, KeepFails, Undefined, Fails, Goto, buffers, counts,
     codec, marks, past, threads
<1>7. \A b \in Buffers : \A n : Reads(b, n)' => Reads(b, n)
  BY <1>1 DEF Reads, Threads, KeepFails, Undefined, Fails, Goto, buffers, counts,
     codec, marks, past, threads
<1>8. IndexOK'
  BY <1>1 DEF Owned, IndexOK, Releases, Threads, KeepFails, Undefined, Fails, Goto,
     buffers, counts, codec, marks, past, threads
<1>9. BuffersOK'
  BY <1>2, <1>4, <1>5, <1>6, <1>7, BuffersKept DEF Owned, CountInv
<1> QED
  BY <1>3, <1>8, <1>9 DEF Owned

LEMMA SendMMEDecodeCommandKeeps ==
    ASSUME CountInv, Owned, Types', PlacesOK', direct' => drains' = 0, wild = "no", wild' =
           "no", SendMMEDecodeCommand
    PROVE  Owned'
<1>1. pc \in [Threads -> Labels] /\ pc["drain"] = "idle"
  BY DEF PlacesOK, Owned, CountInv, Threads, Releases, Tests
<1>2. UNCHANGED <<state, refs, output>> /\ direct' = direct
  BY DEF SendMMEDecodeCommand, Undefined, buffers, past
<1>3. pc'["drain"] = "idle"
  BY <1>1 DEF SendMMEDecodeCommand, Undefined, Fails, Goto, buffers, counts, codec, marks,
     past, threads, Threads
<1>4. \A b \in Buffers : /\ Filling(b)' => Filling(b)
                         /\ Counting(b)' => Counting(b)
                         /\ Outputting(b)' => Outputting(b) \/ Filling(b)
  BY <1>1, BuffersAssumption DEF Filling, Counting, Outputting, Threads,
     SendMMEDecodeCommand, Undefined, Fails, Goto, buffers, counts, codec, marks, past,
     threads
<1>5. \A b \in Buffers : \A r \in Threads : Discarded(r, b)' => Discarded(r, b)
  <2> SUFFICES ASSUME NEW b \in Buffers, NEW r \in Threads, Discarded(r, b)'
               PROVE  Discarded(r, b)
    OBVIOUS
  <2>1. /\ pc["decode"] = "send" /\ UNCHANGED work
        /\ \/ mme' = Append(mme, work) /\ pc' = [pc EXCEPT !["decode"] = "finish"]
           \/ UNCHANGED mme /\ pc' = [pc EXCEPT !["decode"] = "release"]
    BY DEF SendMMEDecodeCommand, Undefined, Goto
  <2>2. r = "mme" /\ pc["mme"] = "discard"
    BY <1>1, <2>1 DEF Discarded, Threads, Owned
  <2>3. mme # <<>> /\ mme \in Seq(Contexts) /\ work \in Contexts
    BY <2>2 DEF CountInv, PlacesOK, Releases, Types, CommandsType, InputType
  <2>4. Head(mme') = Head(mme)
    BY <2>1, <2>3
  <2> QED
    BY <2>2, <2>4 DEF Discarded, Released
<1>6. \A b \in Buffers : \A n : Waits(b, n)' => Waits(b, n)
  BY <1>1 DEF Waits, Threads, SendMMEDecodeCommand, Undefined, Fails, Goto, buffers, counts,
     codec, marks, past, threads
<1>7. \A b \in Buffers : \A n : Reads(b, n)' => Reads(b, n)
  BY <1>1 DEF Reads, Threads, SendMMEDecodeCommand, Undefined, Fails, Goto, buffers, counts,
     codec, marks, past, threads
<1>8. IndexOK'
  BY <1>1 DEF Owned, IndexOK, Releases, Threads, SendMMEDecodeCommand, Undefined, Fails,
     Goto, buffers, counts, codec, marks, past, threads
<1>9. BuffersOK'
  BY <1>2, <1>4, <1>5, <1>6, <1>7, BuffersKept DEF Owned, CountInv
<1> QED
  BY <1>3, <1>8, <1>9 DEF Owned

LEMMA FinishKeeps ==
    ASSUME CountInv, Owned, Types', PlacesOK', direct' => drains' = 0, wild = "no", wild' =
           "no", Finish
    PROVE  Owned'
<1>1. pc \in [Threads -> Labels] /\ pc["drain"] = "idle"
  BY DEF PlacesOK, Owned, CountInv, Threads, Releases, Tests
<1>2. UNCHANGED <<state, refs, output>> /\ direct' = direct
  BY DEF Finish, Undefined, buffers, past
<1>3. pc'["drain"] = "idle"
  BY <1>1 DEF Finish, Undefined, Fails, Goto, buffers, counts, codec, marks, past, threads,
     Threads
<1>4. \A b \in Buffers : /\ Filling(b)' => Filling(b)
                         /\ Counting(b)' => Counting(b)
                         /\ Outputting(b)' => Outputting(b) \/ Filling(b)
  BY <1>1, BuffersAssumption DEF Filling, Counting, Outputting, Threads, Finish, Undefined,
     Fails, Goto, buffers, counts, codec, marks, past, threads
<1>5. \A b \in Buffers : \A r \in Threads : Discarded(r, b)' => Discarded(r, b)
  BY <1>1 DEF Discarded, Released, Threads, Finish, Undefined, Fails, Goto, buffers, counts,
     codec, marks, past, threads
<1>6. \A b \in Buffers : \A n : Waits(b, n)' => Waits(b, n)
  BY <1>1 DEF Waits, Threads, Finish, Undefined, Fails, Goto, buffers, counts, codec, marks,
     past, threads
<1>7. \A b \in Buffers : \A n : Reads(b, n)' => Reads(b, n)
  BY <1>1 DEF Reads, Threads, Finish, Undefined, Fails, Goto, buffers, counts, codec, marks,
     past, threads
<1>8. IndexOK'
  BY <1>1 DEF Owned, IndexOK, Releases, Threads, Finish, Undefined, Fails, Goto, buffers,
     counts, codec, marks, past, threads
<1>9. BuffersOK'
  BY <1>2, <1>4, <1>5, <1>6, <1>7, BuffersKept DEF Owned, CountInv
<1> QED
  BY <1>3, <1>8, <1>9 DEF Owned

LEMMA FailedKeeps ==
    ASSUME CountInv, Owned, Types', PlacesOK', direct' => drains' = 0, wild = "no", wild' =
           "no", Failed
    PROVE  Owned'
<1>1. pc \in [Threads -> Labels] /\ pc["drain"] = "idle"
  BY DEF PlacesOK, Owned, CountInv, Threads, Releases, Tests
<1>2. UNCHANGED <<state, refs, output>> /\ direct' = direct
  BY DEF Failed, Undefined, buffers, past
<1>3. pc'["drain"] = "idle"
  BY <1>1 DEF Failed, Undefined, Fails, Goto, buffers, counts, codec, marks, past, threads,
     Threads
<1>4. \A b \in Buffers : /\ Filling(b)' => Filling(b)
                         /\ Counting(b)' => Counting(b)
                         /\ Outputting(b)' => Outputting(b) \/ Filling(b)
  BY <1>1, BuffersAssumption DEF Filling, Counting, Outputting, Threads, Failed, Undefined,
     Fails, Goto, buffers, counts, codec, marks, past, threads
<1>5. \A b \in Buffers : \A r \in Threads : Discarded(r, b)' => Discarded(r, b)
  BY <1>1 DEF Discarded, Released, Threads, Failed, Undefined, Fails, Goto, buffers, counts,
     codec, marks, past, threads
<1>6. \A b \in Buffers : \A n : Waits(b, n)' => Waits(b, n)
  BY <1>1 DEF Waits, Threads, Failed, Undefined, Fails, Goto, buffers, counts, codec, marks,
     past, threads
<1>7. \A b \in Buffers : \A n : Reads(b, n)' => Reads(b, n)
  BY <1>1 DEF Reads, Threads, Failed, Undefined, Fails, Goto, buffers, counts, codec, marks,
     past, threads
<1>8. IndexOK'
  BY <1>1 DEF Owned, IndexOK, Releases, Threads, Failed, Undefined, Fails, Goto, buffers,
     counts, codec, marks, past, threads
<1>9. BuffersOK'
  BY <1>2, <1>4, <1>5, <1>6, <1>7, BuffersKept DEF Owned, CountInv
<1> QED
  BY <1>3, <1>8, <1>9 DEF Owned

LEMMA InputMarkerKeeps ==
    ASSUME CountInv, Owned, Types', PlacesOK', direct' => drains' = 0, wild = "no", wild' =
           "no", InputMarker
    PROVE  Owned'
<1>1. pc \in [Threads -> Labels] /\ pc["drain"] = "idle"
  BY DEF PlacesOK, Owned, CountInv, Threads, Releases, Tests
<1>2. UNCHANGED <<state, refs, output>> /\ direct' = direct
  BY DEF InputMarker, Undefined, buffers, past
<1>3. pc'["drain"] = "idle"
  BY <1>1 DEF InputMarker, Undefined, Fails, Goto, buffers, counts, codec, marks, past,
     threads, Threads
<1>4. \A b \in Buffers : /\ Filling(b)' => Filling(b)
                         /\ Counting(b)' => Counting(b)
                         /\ Outputting(b)' => Outputting(b) \/ Filling(b)
  BY <1>1, BuffersAssumption DEF Filling, Counting, Outputting, Threads, InputMarker,
     Undefined, Fails, Goto, buffers, counts, codec, marks, past, threads
<1>5. \A b \in Buffers : \A r \in Threads : Discarded(r, b)' => Discarded(r, b)
  BY <1>1 DEF Discarded, Released, Threads, InputMarker, Undefined, Fails, Goto, buffers,
     counts, codec, marks, past, threads
<1>6. \A b \in Buffers : \A n : Waits(b, n)' => Waits(b, n)
  BY <1>1 DEF Waits, Threads, InputMarker, Undefined, Fails, Goto, buffers, counts, codec,
     marks, past, threads
<1>7. \A b \in Buffers : \A n : Reads(b, n)' => Reads(b, n)
  BY <1>1 DEF Reads, Threads, InputMarker, Undefined, Fails, Goto, buffers, counts, codec,
     marks, past, threads
<1>8. IndexOK'
  BY <1>1 DEF Owned, IndexOK, Releases, Threads, InputMarker, Undefined, Fails, Goto,
     buffers, counts, codec, marks, past, threads
<1>9. BuffersOK'
  BY <1>2, <1>4, <1>5, <1>6, <1>7, BuffersKept DEF Owned, CountInv
<1> QED
  BY <1>3, <1>8, <1>9 DEF Owned

LEMMA MarkerFailsKeeps ==
    ASSUME CountInv, Owned, Types', PlacesOK', direct' => drains' = 0, wild = "no", wild' =
           "no", MarkerFails
    PROVE  Owned'
<1>1. pc \in [Threads -> Labels] /\ pc["drain"] = "idle"
  BY DEF PlacesOK, Owned, CountInv, Threads, Releases, Tests
<1>2. UNCHANGED <<state, refs, output>> /\ direct' = direct
  BY DEF MarkerFails, Undefined, buffers, past
<1>3. pc'["drain"] = "idle"
  BY <1>1 DEF MarkerFails, Undefined, Fails, Goto, buffers, counts, codec, marks, past,
     threads, Threads
<1>4. \A b \in Buffers : /\ Filling(b)' => Filling(b)
                         /\ Counting(b)' => Counting(b)
                         /\ Outputting(b)' => Outputting(b) \/ Filling(b)
  BY <1>1, BuffersAssumption DEF Filling, Counting, Outputting, Threads, MarkerFails,
     Undefined, Fails, Goto, buffers, counts, codec, marks, past, threads
<1>5. \A b \in Buffers : \A r \in Threads : Discarded(r, b)' => Discarded(r, b)
  BY <1>1 DEF Discarded, Released, Threads, MarkerFails, Undefined, Fails, Goto, buffers,
     counts, codec, marks, past, threads
<1>6. \A b \in Buffers : \A n : Waits(b, n)' => Waits(b, n)
  BY <1>1 DEF Waits, Threads, MarkerFails, Undefined, Fails, Goto, buffers, counts, codec,
     marks, past, threads
<1>7. \A b \in Buffers : \A n : Reads(b, n)' => Reads(b, n)
  BY <1>1 DEF Reads, Threads, MarkerFails, Undefined, Fails, Goto, buffers, counts, codec,
     marks, past, threads
<1>8. IndexOK'
  BY <1>1 DEF Owned, IndexOK, Releases, Threads, MarkerFails, Undefined, Fails, Goto,
     buffers, counts, codec, marks, past, threads
<1>9. BuffersOK'
  BY <1>2, <1>4, <1>5, <1>6, <1>7, BuffersKept DEF Owned, CountInv
<1> QED
  BY <1>3, <1>8, <1>9 DEF Owned

LEMMA HoldMarkerKeeps ==
    ASSUME CountInv, Owned, Types', PlacesOK', direct' => drains' = 0, wild = "no", wild' =
           "no", HoldMarker
    PROVE  Owned'
<1>1. pc \in [Threads -> Labels] /\ pc["drain"] = "idle"
  BY DEF PlacesOK, Owned, CountInv, Threads, Releases, Tests
<1>2. UNCHANGED <<state, refs, output>> /\ direct' = direct
  BY DEF HoldMarker, Undefined, buffers, past
<1>3. pc'["drain"] = "idle"
  BY <1>1 DEF HoldMarker, Undefined, Fails, Goto, buffers, counts, codec, marks, past,
     threads, Threads
<1>4. \A b \in Buffers : /\ Filling(b)' => Filling(b)
                         /\ Counting(b)' => Counting(b)
                         /\ Outputting(b)' => Outputting(b) \/ Filling(b)
  BY <1>1, BuffersAssumption DEF Filling, Counting, Outputting, Threads, HoldMarker,
     Undefined, Fails, Goto, buffers, counts, codec, marks, past, threads
<1>5. \A b \in Buffers : \A r \in Threads : Discarded(r, b)' => Discarded(r, b)
  BY <1>1 DEF Discarded, Released, Threads, HoldMarker, Undefined, Fails, Goto, buffers,
     counts, codec, marks, past, threads
<1>6. \A b \in Buffers : \A n : Waits(b, n)' => Waits(b, n)
  BY <1>1 DEF Waits, Threads, HoldMarker, Undefined, Fails, Goto, buffers, counts, codec,
     marks, past, threads
<1>7. \A b \in Buffers : \A n : Reads(b, n)' => Reads(b, n)
  BY <1>1 DEF Reads, Threads, HoldMarker, Undefined, Fails, Goto, buffers, counts, codec,
     marks, past, threads
<1>8. IndexOK'
  BY <1>1 DEF Owned, IndexOK, Releases, Threads, HoldMarker, Undefined, Fails, Goto,
     buffers, counts, codec, marks, past, threads
<1>9. BuffersOK'
  BY <1>2, <1>4, <1>5, <1>6, <1>7, BuffersKept DEF Owned, CountInv
<1> QED
  BY <1>3, <1>8, <1>9 DEF Owned

LEMMA InputPictureKeeps ==
    ASSUME CountInv, Owned, Types', PlacesOK', direct' => drains' = 0, wild = "no", wild' =
           "no", InputPicture
    PROVE  Owned'
<1>1. pc \in [Threads -> Labels] /\ pc["drain"] = "idle"
  BY DEF PlacesOK, Owned, CountInv, Threads, Releases, Tests
<1>2. UNCHANGED <<state, refs, output>> /\ direct' = direct
  BY DEF InputPicture, Undefined, buffers, past
<1>3. pc'["drain"] = "idle"
  BY <1>1 DEF InputPicture, Undefined, Fails, Goto, buffers, counts, codec, marks, past,
     threads, NoContext, Threads
<1>4. \A b \in Buffers : /\ Filling(b)' => Filling(b)
                         /\ Counting(b)' => Counting(b)
                         /\ Outputting(b)' => Outputting(b) \/ Filling(b)
  BY <1>1, BuffersAssumption DEF Filling, Counting, Outputting, Threads, InputPicture,
     Undefined, Fails, Goto, buffers, counts, codec, marks, past, threads, NoContext
<1>5. \A b \in Buffers : \A r \in Threads : Discarded(r, b)' => Discarded(r, b)
  BY <1>1 DEF Discarded, Released, Threads, InputPicture, Undefined, Fails, Goto, buffers,
     counts, codec, marks, past, threads, NoContext
<1>6. \A b \in Buffers : \A n : Waits(b, n)' => Waits(b, n)
  BY <1>1 DEF Waits, Threads, InputPicture, Undefined, Fails, Goto, buffers, counts, codec,
     marks, past, threads, NoContext
<1>7. \A b \in Buffers : \A n : Reads(b, n)' => Reads(b, n)
  BY <1>1 DEF Reads, Threads, InputPicture, Undefined, Fails, Goto, buffers, counts, codec,
     marks, past, threads, NoContext
<1>8. IndexOK'
  BY <1>1 DEF Owned, IndexOK, Releases, Threads, InputPicture, Undefined, Fails, Goto,
     buffers, counts, codec, marks, past, threads, NoContext
<1>9. BuffersOK'
  BY <1>2, <1>4, <1>5, <1>6, <1>7, BuffersKept DEF Owned, CountInv
<1> QED
  BY <1>3, <1>8, <1>9 DEF Owned

LEMMA OutputInSequenceKeeps ==
    ASSUME CountInv, Owned, Types', PlacesOK', direct' => drains' = 0, wild = "no", wild' =
           "no", OutputInSequence
    PROVE  Owned'
<1>1. pc \in [Threads -> Labels] /\ pc["drain"] = "idle"
  BY DEF PlacesOK, Owned, CountInv, Threads, Releases, Tests
<1>2. UNCHANGED <<state, refs, output>> /\ direct' = direct
  BY DEF OutputInSequence, Undefined, buffers, past
<1>3. pc'["drain"] = "idle"
  BY <1>1 DEF OutputInSequence, Undefined, Fails, Goto, buffers, counts, codec, marks, past,
     threads, Threads
<1>4. \A b \in Buffers : /\ Filling(b)' => Filling(b)
                         /\ Counting(b)' => Counting(b)
                         /\ Outputting(b)' => Outputting(b) \/ Filling(b)
  BY <1>1, BuffersAssumption DEF Filling, Counting, Outputting, Threads, OutputInSequence,
     Undefined, Fails, Goto, buffers, counts, codec, marks, past, threads
<1>5. \A b \in Buffers : \A r \in Threads : Discarded(r, b)' => Discarded(r, b)
  BY <1>1 DEF Discarded, Released, Threads, OutputInSequence, Undefined, Fails, Goto,
     buffers, counts, codec, marks, past, threads
<1>6. \A b \in Buffers : \A n : Waits(b, n)' => Waits(b, n)
  BY <1>1 DEF Waits, Threads, OutputInSequence, Undefined, Fails, Goto, buffers, counts,
     codec, marks, past, threads
<1>7. \A b \in Buffers : \A n : Reads(b, n)' => Reads(b, n)
  BY <1>1 DEF Reads, Threads, OutputInSequence, Undefined, Fails, Goto, buffers, counts,
     codec, marks, past, threads
<1>8. IndexOK'
  BY <1>1 DEF Owned, IndexOK, Releases, Threads, OutputInSequence, Undefined, Fails, Goto,
     buffers, counts, codec, marks, past, threads
<1>9. BuffersOK'
  BY <1>2, <1>4, <1>5, <1>6, <1>7, BuffersKept DEF Owned, CountInv
<1> QED
  BY <1>3, <1>8, <1>9 DEF Owned

LEMMA CompletedKeeps ==
    ASSUME CountInv, Owned, Types', PlacesOK', direct' => drains' = 0, wild = "no", wild' =
           "no", Completed
    PROVE  Owned'
<1>1. pc \in [Threads -> Labels] /\ pc["drain"] = "idle"
  BY DEF PlacesOK, Owned, CountInv, Threads, Releases, Tests
<1>2. UNCHANGED <<state, refs, output>> /\ direct' = direct
  BY DEF Completed, Undefined, buffers, past
<1>3. pc'["drain"] = "idle"
  BY <1>1 DEF Completed, Undefined, Fails, Goto, buffers, counts, codec, marks, past,
     threads, Threads
<1>4. \A b \in Buffers : /\ Filling(b)' => Filling(b)
                         /\ Counting(b)' => Counting(b)
                         /\ Outputting(b)' => Outputting(b) \/ Filling(b)
  BY <1>1, BuffersAssumption DEF Filling, Counting, Outputting, Threads, Completed,
     Undefined, Fails, Goto, buffers, counts, codec, marks, past, threads
<1>5. \A b \in Buffers : \A r \in Threads : Discarded(r, b)' => Discarded(r, b)
  BY <1>1 DEF Discarded, Released, Threads, Completed, Undefined, Fails, Goto, buffers,
     counts, codec, marks, past, threads
<1>6. \A b \in Buffers : \A n : Waits(b, n)' => Waits(b, n)
  <2>1. /\ mme # <<>> /\ mme' = Tail(mme) /\ UNCHANGED work
        /\ pc' = [pc EXCEPT !["mme"] = "test"] /\ pc["mme"] = "released"
    BY DEF Completed, Goto, CountInv, PlacesOK, Releases
  <2>2. /\ DOMAIN mme = 1 .. Len(mme) /\ DOMAIN mme' = 1 .. Len(mme) - 1 /\ Len(mme) \in Nat
        /\ \A i \in DOMAIN mme' : i + 1 \in DOMAIN mme /\ mme'[i] = mme[i + 1]
    BY <2>1, CompletedEffect DEF CountInv, Types
  <2>3. \A i \in DOMAIN mme' : i + 1 # 1
    BY <2>2
  <2> QED
    BY <1>1, <2>1, <2>2, <2>3 DEF Waits, Threads
<1>7. \A b \in Buffers : \A n : Reads(b, n)' => Reads(b, n)
  <2>1. /\ mme # <<>> /\ mme' = Tail(mme) /\ UNCHANGED work
        /\ pc' = [pc EXCEPT !["mme"] = "test"] /\ pc["mme"] = "released"
    BY DEF Completed, Goto, CountInv, PlacesOK, Releases
  <2>2. /\ DOMAIN mme = 1 .. Len(mme) /\ DOMAIN mme' = 1 .. Len(mme) - 1 /\ Len(mme) \in Nat
        /\ \A i \in DOMAIN mme' : i + 1 \in DOMAIN mme /\ mme'[i] = mme[i + 1]
    BY <2>1, CompletedEffect DEF CountInv, Types
  <2>3. \A i \in DOMAIN mme' : i + 1 # 1
    BY <2>2
  <2> QED
    BY <1>1, <2>1, <2>2, <2>3 DEF Reads, Threads
<1>8. IndexOK'
  BY <1>1 DEF Owned, IndexOK, Releases, Threads, Completed, Undefined, Fails, Goto, buffers,
     counts, codec, marks, past, threads
<1>9. BuffersOK'
  BY <1>2, <1>4, <1>5, <1>6, <1>7, BuffersKept DEF Owned, CountInv
<1> QED
  BY <1>3, <1>8, <1>9 DEF Owned

LEMMA DiscardQueuedDecodesKeeps ==
    ASSUME CountInv, Owned, Types', PlacesOK', direct' => drains' = 0, wild = "no", wild' =
           "no", DiscardQueuedDecodes
    PROVE  Owned'
<1>1. pc \in [Threads -> Labels] /\ pc["drain"] = "idle"
  BY DEF PlacesOK, Owned, CountInv, Threads, Releases, Tests
<1>2. UNCHANGED <<state, refs, output>> /\ direct' = direct
  BY DEF DiscardQueuedDecodes, Undefined, buffers, past
<1>3. pc'["drain"] = "idle"
  <2>1. drains \in Nat /\ drains' = drains + 1 /\ direct' = direct
    BY BoundsAssumption DEF DiscardQueuedDecodes, CountInv, Types, PastType
  <2>2. ~direct
    BY <2>1
  <2> QED
    BY <1>1, <2>2 DEF DiscardQueuedDecodes, Drainer, Goto, Threads
<1>4. \A b \in Buffers : /\ Filling(b)' => Filling(b)
                         /\ Counting(b)' => Counting(b)
                         /\ Outputting(b)' => Outputting(b) \/ Filling(b)
  BY <1>1, BuffersAssumption DEF Filling, Counting, Outputting, Threads,
     DiscardQueuedDecodes, Undefined, Fails, Goto, buffers, counts, codec, marks, past,
     threads, Drainer
<1>5. \A b \in Buffers : \A r \in Threads : Discarded(r, b)' => Discarded(r, b)
  BY <1>1 DEF Discarded, Released, Threads, DiscardQueuedDecodes, Undefined, Fails, Goto,
     buffers, counts, codec, marks, past, threads, Drainer
<1>6. \A b \in Buffers : \A n : Waits(b, n)' => Waits(b, n)
  BY <1>1 DEF Waits, Threads, DiscardQueuedDecodes, Undefined, Fails, Goto, buffers, counts,
     codec, marks, past, threads, Drainer
<1>7. \A b \in Buffers : \A n : Reads(b, n)' => Reads(b, n)
  BY <1>1 DEF Reads, Threads, DiscardQueuedDecodes, Undefined, Fails, Goto, buffers, counts,
     codec, marks, past, threads, Drainer
<1>8. IndexOK'
  BY <1>1 DEF Owned, IndexOK, Releases, Threads, DiscardQueuedDecodes, Undefined, Fails,
     Goto, buffers, counts, codec, marks, past, threads, Drainer
<1>9. BuffersOK'
  BY <1>2, <1>4, <1>5, <1>6, <1>7, BuffersKept DEF Owned, CountInv
<1> QED
  BY <1>3, <1>8, <1>9 DEF Owned

LEMMA LookKeeps ==
    ASSUME NEW t \in Threads, CountInv, Owned, Types', PlacesOK', direct' => drains' = 0,
           wild = "no", wild' = "no", Look(t)
    PROVE  Owned'
<1>1. pc \in [Threads -> Labels] /\ pc["drain"] = "idle" /\ t = "decode"
  BY DEF PlacesOK, Owned, CountInv, Threads, Releases, Tests, Look
<1>2. UNCHANGED <<state, refs, output>> /\ direct' = direct
  BY DEF Look, Undefined, buffers, past
<1>3. pc'["drain"] = "idle"
  BY <1>1 DEF Look, Undefined, Fails, Goto, buffers, counts, codec, marks, past, threads,
     Return, Threads
<1>4. \A b \in Buffers : /\ Filling(b)' => Filling(b)
                         /\ Counting(b)' => Counting(b)
                         /\ Outputting(b)' => Outputting(b) \/ Filling(b)
  BY <1>1, BuffersAssumption DEF Filling, Counting, Outputting, Threads, Look, Undefined,
     Fails, Goto, buffers, counts, codec, marks, past, threads, Return, CountInv, Types,
     InputType
<1>5. \A b \in Buffers : \A r \in Threads : Discarded(r, b)' => Discarded(r, b)
  BY <1>1 DEF Discarded, Released, Threads, Look, Undefined, Fails, Goto, buffers, counts,
     codec, marks, past, threads, Return
<1>6. \A b \in Buffers : \A n : Waits(b, n)' => Waits(b, n)
  BY <1>1 DEF Waits, Threads, Look, Undefined, Fails, Goto, buffers, counts, codec, marks,
     past, threads, Return
<1>7. \A b \in Buffers : \A n : Reads(b, n)' => Reads(b, n)
  BY <1>1 DEF Reads, Threads, Look, Undefined, Fails, Goto, buffers, counts, codec, marks,
     past, threads, Return
<1>8. IndexOK'
  BY <1>1 DEF Owned, IndexOK, Releases, Threads, Look, Undefined, Fails, Goto, buffers,
     counts, codec, marks, past, threads, Return, CountInv, Types, InputType
<1>9. BuffersOK'
  BY <1>2, <1>4, <1>5, <1>6, <1>7, BuffersKept DEF Owned, CountInv
<1> QED
  BY <1>3, <1>8, <1>9 DEF Owned

LEMMA ArgumentKeeps ==
    ASSUME NEW t \in Threads, CountInv, Owned, Types', PlacesOK', direct' => drains' = 0,
           wild = "no", wild' = "no", Argument(t)
    PROVE  Owned'
<1>1. pc \in [Threads -> Labels] /\ pc["drain"] = "idle" /\ t = "decode"
  BY DEF PlacesOK, Owned, CountInv, Threads, Releases, Tests, Argument
<1>2. UNCHANGED <<state, refs, output>> /\ direct' = direct
  BY DEF Argument, Undefined, buffers, past
<1>3. pc'["drain"] = "idle"
  BY <1>1 DEF Argument, Undefined, Fails, Goto, buffers, counts, codec, marks, past, threads,
     Return, Threads
<1>4. \A b \in Buffers : /\ Filling(b)' => Filling(b)
                         /\ Counting(b)' => Counting(b)
                         /\ Outputting(b)' => Outputting(b) \/ Filling(b)
  BY <1>1, BuffersAssumption DEF Filling, Counting, Outputting, Threads, Argument, Undefined,
     Fails, Goto, buffers, counts, codec, marks, past, threads, CountInv, Types,
     InputType
<1>5. \A b \in Buffers : \A r \in Threads : Discarded(r, b)' => Discarded(r, b)
  BY <1>1 DEF Discarded, Released, Threads, Argument, Undefined, Fails, Goto, buffers, counts,
     codec, marks, past, threads
<1>6. \A b \in Buffers : \A n : Waits(b, n)' => Waits(b, n)
  BY <1>1 DEF Waits, Threads, Argument, Undefined, Fails, Goto, buffers, counts, codec, marks,
     past, threads
<1>7. \A b \in Buffers : \A n : Reads(b, n)' => Reads(b, n)
  BY <1>1 DEF Reads, Threads, Argument, Undefined, Fails, Goto, buffers, counts, codec, marks,
     past, threads
<1>8. IndexOK'
  BY <1>1 DEF Owned, IndexOK, Releases, Threads, Argument, Undefined, Fails, Goto, buffers,
     counts, codec, marks, past, threads, CountInv, Types, InputType
<1>9. BuffersOK'
  BY <1>2, <1>4, <1>5, <1>6, <1>7, BuffersKept DEF Owned, CountInv
<1> QED
  BY <1>3, <1>8, <1>9 DEF Owned

LEMMA ForgetKeeps ==
    ASSUME NEW t \in Threads, CountInv, Owned, Types', PlacesOK', direct' => drains' = 0,
           wild = "no", wild' = "no", Forget(t)
    PROVE  Owned'
<1>1. pc \in [Threads -> Labels] /\ pc["drain"] = "idle" /\ t = "decode"
  BY DEF PlacesOK, Owned, CountInv, Threads, Releases, Tests, Forget
<1>2. UNCHANGED <<state, refs, output>> /\ direct' = direct
  BY DEF Forget, Undefined, buffers, past
<1>3. pc'["drain"] = "idle"
  BY <1>1 DEF Forget, Undefined, Fails, Goto, buffers, counts, codec, marks, past, threads,
     Return, Threads
<1>4. \A b \in Buffers : /\ Filling(b)' => Filling(b)
                         /\ Counting(b)' => Counting(b)
                         /\ Outputting(b)' => Outputting(b) \/ Filling(b)
  BY <1>1, BuffersAssumption DEF Filling, Counting, Outputting, Threads, Forget, Undefined,
     Fails, Goto, buffers, counts, codec, marks, past, threads, Return
<1>5. \A b \in Buffers : \A r \in Threads : Discarded(r, b)' => Discarded(r, b)
  BY <1>1 DEF Discarded, Released, Threads, Forget, Undefined, Fails, Goto, buffers, counts,
     codec, marks, past, threads, Return
<1>6. \A b \in Buffers : \A n : Waits(b, n)' => Waits(b, n)
  BY <1>1 DEF Waits, Threads, Forget, Undefined, Fails, Goto, buffers, counts, codec, marks,
     past, threads, Return
<1>7. \A b \in Buffers : \A n : Reads(b, n)' => Reads(b, n)
  BY <1>1 DEF Reads, Threads, Forget, Undefined, Fails, Goto, buffers, counts, codec, marks,
     past, threads, Return
<1>8. IndexOK'
  BY <1>1 DEF Owned, IndexOK, Releases, Threads, Forget, Undefined, Fails, Goto, buffers,
     counts, codec, marks, past, threads, Return
<1>9. BuffersOK'
  BY <1>2, <1>4, <1>5, <1>6, <1>7, BuffersKept DEF Owned, CountInv
<1> QED
  BY <1>3, <1>8, <1>9 DEF Owned

LEMMA CompareKeeps ==
    ASSUME NEW t \in Threads, CountInv, Owned, Types', PlacesOK', direct' => drains' = 0,
           wild = "no", wild' = "no", Compare(t)
    PROVE  Owned'
<1>1. pc \in [Threads -> Labels] /\ pc["drain"] = "idle"
  BY DEF PlacesOK, Owned, CountInv, Threads, Releases, Tests
<1>2. UNCHANGED <<state, refs, output>> /\ direct' = direct
  BY DEF Compare, Undefined, buffers, past
<1>3. pc'["drain"] = "idle"
  BY <1>1 DEF Compare, Undefined, Fails, Goto, buffers, counts, codec, marks, past, threads,
     CompareIndex, AfterIndex, Released, Threads
<1>4. \A b \in Buffers : /\ Filling(b)' => Filling(b)
                         /\ Counting(b)' => Counting(b)
                         /\ Outputting(b)' => Outputting(b) \/ Filling(b)
  BY <1>1, BuffersAssumption DEF Filling, Counting, Outputting, Threads, Compare, Undefined,
     Fails, Goto, buffers, counts, codec, marks, past, threads, CompareIndex, AfterIndex,
     Released, Owned, IndexOK, Releases
<1>5. \A b \in Buffers : \A r \in Threads : Discarded(r, b)' => Discarded(r, b)
  BY <1>1 DEF Discarded, Released, Threads, Compare, Undefined, Fails, Goto, buffers,
     counts, codec, marks, past, threads, CompareIndex, AfterIndex, Released
<1>6. \A b \in Buffers : \A n : Waits(b, n)' => Waits(b, n)
  BY <1>1 DEF Waits, Threads, Compare, Undefined, Fails, Goto, buffers, counts, codec,
     marks, past, threads, CompareIndex, AfterIndex, Released
<1>7. \A b \in Buffers : \A n : Reads(b, n)' => Reads(b, n)
  BY <1>1 DEF Reads, Threads, Compare, Undefined, Fails, Goto, buffers, counts, codec,
     marks, past, threads, CompareIndex, AfterIndex, Released
<1>8. IndexOK'
  BY <1>1 DEF Owned, IndexOK, Releases, Threads, Compare, Undefined, Fails, Goto, buffers,
     counts, codec, marks, past, threads, CompareIndex, AfterIndex, Released
<1>9. BuffersOK'
  BY <1>2, <1>4, <1>5, <1>6, <1>7, BuffersKept DEF Owned, CountInv
<1> QED
  BY <1>3, <1>8, <1>9 DEF Owned

LEMMA ForgetIndexKeeps ==
    ASSUME NEW t \in Threads, CountInv, Owned, Types', PlacesOK', direct' => drains' = 0,
           wild = "no", wild' = "no", ForgetIndex(t)
    PROVE  Owned'
<1>1. pc \in [Threads -> Labels] /\ pc["drain"] = "idle"
  BY DEF PlacesOK, Owned, CountInv, Threads, Releases, Tests
<1>2. UNCHANGED <<state, refs, output>> /\ direct' = direct
  BY DEF ForgetIndex, Undefined, buffers, past
<1>3. pc'["drain"] = "idle"
  BY <1>1 DEF ForgetIndex, Undefined, Fails, Goto, buffers, counts, codec, marks, past,
     threads, AfterIndex, Released, Threads
<1>4. \A b \in Buffers : /\ Filling(b)' => Filling(b)
                         /\ Counting(b)' => Counting(b)
                         /\ Outputting(b)' => Outputting(b) \/ Filling(b)
  BY <1>1, BuffersAssumption DEF Filling, Counting, Outputting, Threads, ForgetIndex,
     Undefined, Fails, Goto, buffers, counts, codec, marks, past, threads, AfterIndex,
     Released
<1>5. \A b \in Buffers : \A r \in Threads : Discarded(r, b)' => Discarded(r, b)
  BY <1>1 DEF Discarded, Released, Threads, ForgetIndex, Undefined, Fails, Goto, buffers,
     counts, codec, marks, past, threads, AfterIndex, Released
<1>6. \A b \in Buffers : \A n : Waits(b, n)' => Waits(b, n)
  BY <1>1 DEF Waits, Threads, ForgetIndex, Undefined, Fails, Goto, buffers, counts, codec,
     marks, past, threads, AfterIndex, Released
<1>7. \A b \in Buffers : \A n : Reads(b, n)' => Reads(b, n)
  BY <1>1 DEF Reads, Threads, ForgetIndex, Undefined, Fails, Goto, buffers, counts, codec,
     marks, past, threads, AfterIndex, Released
<1>8. IndexOK'
  BY <1>1 DEF Owned, IndexOK, Releases, Threads, ForgetIndex, Undefined, Fails, Goto,
     buffers, counts, codec, marks, past, threads, AfterIndex, Released
<1>9. BuffersOK'
  BY <1>2, <1>4, <1>5, <1>6, <1>7, BuffersKept DEF Owned, CountInv
<1> QED
  BY <1>3, <1>8, <1>9 DEF Owned

LEMMA ContextKeeps ==
    ASSUME NEW t \in Threads, CountInv, Owned, Types', PlacesOK', direct' => drains' = 0,
           wild = "no", wild' = "no", Context(t)
    PROVE  Owned'
<1>1. pc \in [Threads -> Labels] /\ pc["drain"] = "idle"
  BY DEF PlacesOK, Owned, CountInv, Threads, Releases, Tests
<1>2. UNCHANGED <<state, refs, output>> /\ direct' = direct
  BY DEF Context, Undefined, buffers, past
<1>3. pc'["drain"] = "idle"
  BY <1>1 DEF Context, Undefined, Fails, Goto, buffers, counts, codec, marks, past, threads,
     Released, Threads
<1>4. \A b \in Buffers : /\ Filling(b)' => Filling(b)
                         /\ Counting(b)' => Counting(b)
                         /\ Outputting(b)' => Outputting(b) \/ Filling(b)
  BY <1>1, BuffersAssumption DEF Filling, Counting, Outputting, Threads, Context, Undefined,
     Fails, Goto, buffers, counts, codec, marks, past, threads, Released
<1>5. \A b \in Buffers : \A r \in Threads : Discarded(r, b)' => Discarded(r, b)
  BY <1>1 DEF Discarded, Released, Threads, Context, Undefined, Fails, Goto, buffers,
     counts, codec, marks, past, threads, Released
<1>6. \A b \in Buffers : \A n : Waits(b, n)' => Waits(b, n)
  BY <1>1 DEF Waits, Threads, Context, Undefined, Fails, Goto, buffers, counts, codec,
     marks, past, threads, Released
<1>7. \A b \in Buffers : \A n : Reads(b, n)' => Reads(b, n)
  BY <1>1 DEF Reads, Threads, Context, Undefined, Fails, Goto, buffers, counts, codec,
     marks, past, threads, Released
<1>8. IndexOK'
  BY <1>1 DEF Owned, IndexOK, Releases, Threads, Context, Undefined, Fails, Goto, buffers,
     counts, codec, marks, past, threads, Released
<1>9. BuffersOK'
  BY <1>2, <1>4, <1>5, <1>6, <1>7, BuffersKept DEF Owned, CountInv
<1> QED
  BY <1>3, <1>8, <1>9 DEF Owned

LEMMA ForgetContextKeeps ==
    ASSUME NEW t \in Threads, CountInv, Owned, Types', PlacesOK', direct' => drains' = 0,
           wild = "no", wild' = "no", ForgetContext(t)
    PROVE  Owned'
<1>1. pc \in [Threads -> Labels] /\ pc["drain"] = "idle"
  BY DEF PlacesOK, Owned, CountInv, Threads, Releases, Tests
<1>2. UNCHANGED <<state, refs, output>> /\ direct' = direct
  BY DEF ForgetContext, Undefined, buffers, past
<1>3. pc'["drain"] = "idle"
  BY <1>1 DEF ForgetContext, Undefined, Fails, Goto, buffers, counts, codec, marks, past,
     threads, Threads
<1>4. \A b \in Buffers : /\ Filling(b)' => Filling(b)
                         /\ Counting(b)' => Counting(b)
                         /\ Outputting(b)' => Outputting(b) \/ Filling(b)
  BY <1>1, BuffersAssumption DEF Filling, Counting, Outputting, Threads, ForgetContext,
     Undefined, Fails, Goto, buffers, counts, codec, marks, past, threads
<1>5. \A b \in Buffers : \A r \in Threads : Discarded(r, b)' => Discarded(r, b)
  BY <1>1 DEF Discarded, Released, Threads, ForgetContext, Undefined, Fails, Goto, buffers,
     counts, codec, marks, past, threads
<1>6. \A b \in Buffers : \A n : Waits(b, n)' => Waits(b, n)
  BY <1>1 DEF Waits, Threads, ForgetContext, Undefined, Fails, Goto, buffers, counts, codec,
     marks, past, threads
<1>7. \A b \in Buffers : \A n : Reads(b, n)' => Reads(b, n)
  BY <1>1 DEF Reads, Threads, ForgetContext, Undefined, Fails, Goto, buffers, counts, codec,
     marks, past, threads
<1>8. IndexOK'
  BY <1>1 DEF Owned, IndexOK, Releases, Threads, ForgetContext, Undefined, Fails, Goto,
     buffers, counts, codec, marks, past, threads
<1>9. BuffersOK'
  BY <1>2, <1>4, <1>5, <1>6, <1>7, BuffersKept DEF Owned, CountInv
<1> QED
  BY <1>3, <1>8, <1>9 DEF Owned

LEMMA TestKeeps ==
    ASSUME NEW t \in Threads, CountInv, Owned, Types', PlacesOK', direct' => drains' = 0,
           wild = "no", wild' = "no", Test(t)
    PROVE  Owned'
<1>1. pc \in [Threads -> Labels] /\ pc["drain"] = "idle"
  BY DEF PlacesOK, Owned, CountInv, Threads, Releases, Tests
<1>2. UNCHANGED <<state, refs, output>> /\ direct' = direct
  BY DEF Test, Undefined, buffers, past
<1>3. pc'["drain"] = "idle"
  BY <1>1 DEF Test, Undefined, Fails, Goto, buffers, counts, codec, marks, past, threads,
     Threads
<1>4. \A b \in Buffers : /\ Filling(b)' => Filling(b)
                         /\ Counting(b)' => Counting(b)
                         /\ Outputting(b)' => Outputting(b) \/ Filling(b)
  BY <1>1, BuffersAssumption DEF Filling, Counting, Outputting, Threads, Test, Undefined,
     Fails, Goto, buffers, counts, codec, marks, past, threads
<1>5. \A b \in Buffers : \A r \in Threads : Discarded(r, b)' => Discarded(r, b)
  BY <1>1 DEF Discarded, Released, Threads, Test, Undefined, Fails, Goto, buffers, counts,
     codec, marks, past, threads
<1>6. \A b \in Buffers : \A n : Waits(b, n)' => Waits(b, n)
  BY <1>1 DEF Waits, Threads, Test, Undefined, Fails, Goto, buffers, counts, codec, marks,
     past, threads
<1>7. \A b \in Buffers : \A n : Reads(b, n)' => Reads(b, n)
  BY <1>1 DEF Reads, Threads, Test, Undefined, Fails, Goto, buffers, counts, codec, marks,
     past, threads
<1>8. IndexOK'
  BY <1>1 DEF Owned, IndexOK, Releases, Threads, Test, Undefined, Fails, Goto, buffers,
     counts, codec, marks, past, threads
<1>9. BuffersOK'
  BY <1>2, <1>4, <1>5, <1>6, <1>7, BuffersKept DEF Owned, CountInv
<1> QED
  BY <1>3, <1>8, <1>9 DEF Owned

LEMMA TakeMarkerBufferKeeps ==
    ASSUME NEW t \in Threads, CountInv, Owned, Types', PlacesOK', direct' => drains' = 0,
           wild = "no", wild' = "no", TakeMarkerBuffer(t)
    PROVE  Owned'
<1>1. pc \in [Threads -> Labels] /\ pc["drain"] = "idle"
  BY DEF PlacesOK, Owned, CountInv, Threads, Releases, Tests
<1>2. UNCHANGED <<state, refs, output>> /\ direct' = direct
  BY DEF TakeMarkerBuffer, Undefined, buffers, past
<1>3. pc'["drain"] = "idle"
  BY <1>1 DEF TakeMarkerBuffer, Undefined, Fails, Goto, buffers, counts, codec, marks, past,
     threads, Threads
<1>4. \A b \in Buffers : /\ Filling(b)' => Filling(b)
                         /\ Counting(b)' => Counting(b)
                         /\ Outputting(b)' => Outputting(b) \/ Filling(b)
  BY <1>1, BuffersAssumption DEF Filling, Counting, Outputting, Threads, TakeMarkerBuffer,
     Undefined, Fails, Goto, buffers, counts, codec, marks, past, threads
<1>5. \A b \in Buffers : \A r \in Threads : Discarded(r, b)' => Discarded(r, b)
  BY <1>1 DEF Discarded, Released, Threads, TakeMarkerBuffer, Undefined, Fails, Goto,
     buffers, counts, codec, marks, past, threads
<1>6. \A b \in Buffers : \A n : Waits(b, n)' => Waits(b, n)
  BY <1>1 DEF Waits, Threads, TakeMarkerBuffer, Undefined, Fails, Goto, buffers, counts,
     codec, marks, past, threads
<1>7. \A b \in Buffers : \A n : Reads(b, n)' => Reads(b, n)
  BY <1>1 DEF Reads, Threads, TakeMarkerBuffer, Undefined, Fails, Goto, buffers, counts,
     codec, marks, past, threads
<1>8. IndexOK'
  BY <1>1 DEF Owned, IndexOK, Releases, Threads, TakeMarkerBuffer, Undefined, Fails, Goto,
     buffers, counts, codec, marks, past, threads
<1>9. BuffersOK'
  BY <1>2, <1>4, <1>5, <1>6, <1>7, BuffersKept DEF Owned, CountInv
<1> QED
  BY <1>3, <1>8, <1>9 DEF Owned
-----------------------------------------------------------------------------
(* The steps that change a buffer. *)

\* A partial buffer is passed on, now or when the decodes into it are done.
LEMMA SetOutputKeeps ==
    ASSUME NEW t \in Threads, CountInv, Owned, Types', PlacesOK', wild = "no", wild' = "no",
           SetOutput(t)
    PROVE  Owned'
<1>1. pc \in [Threads -> Labels] /\ pc["drain"] = "idle" /\ t = "decode"
  BY DEF PlacesOK, Owned, CountInv, Threads, Releases, Tests, SetOutput
<1>2. /\ pc["decode"] = "output" /\ pc' = [pc EXCEPT !["decode"] = "forget"]
      /\ UNCHANGED <<refs, current, mme, work, partial, direct>>
  <2>1. /\ pc["decode"] = "output" /\ Goto("decode", "forget")
        /\ UNCHANGED <<refs, counts, codec, past, work, partial>>
    BY Zenon, <1>1 DEF SetOutput, Undefined
  <2> QED
    BY <2>1 DEF Goto, counts, codec, past
<1>3. PICK b \in Buffers :
      /\ b = partial["decode"]
      /\ state'[b].out = TRUE
      /\ state'[b].busy = state[b].busy /\ state'[b].pinned = state[b].pinned
      /\ \A c \in Buffers \ {b} : state'[c] = state[c] /\ output'[c] = output[c]
      /\ output'[b] = (IF state[b].busy = 0 THEN output[b] + 1 ELSE output[b])
  BY <1>1, OutputEffect DEF CountInv, Types
<1>4. /\ \A c \in Buffers : ~Filling(c)' /\ ~Counting(c)' /\ ~Outputting(c)'
      /\ \A c \in Buffers : \A r \in Threads : Discarded(r, c)' => Discarded(r, c)
  BY <1>1, <1>2 DEF Filling, Counting, Outputting, Discarded, Released, Threads
<1>5. \A c \in Buffers : \A n : (Waits(c, n)' => Waits(c, n)) /\ (Reads(c, n)' => Reads(c, n))
  BY <1>1, <1>2 DEF Waits, Reads, Threads
<1>6. \A c \in Buffers \ {b} : StateOK(c)' /\ WaitsCounted(c)' /\ OwnersCounted(c)'
  BY <1>2, <1>3, <1>4, <1>5, BufferKept DEF CountInv, Owned
<1>7. StateOK(b)' /\ WaitsCounted(b)' /\ OwnersCounted(b)'
  <2>1. Outputting(b) /\ Obtained(b)
    BY <1>2, <1>3 DEF Outputting, Obtained
  <2>2. /\ ~state[b].out /\ output[b] = 0
        /\ \A r \in Threads : ~Discarded(r, b)
    BY <1>3, <2>1, OwnerFacts DEF StateOK, CountInv, Owned
  <2>3. StateOK(b)'
    BY <1>2, <1>3, <1>4, <2>1, <2>2, ObtainedOwned DEF StateOK, CountInv, Owned
  <2>4. /\ Cardinality(Waiting(b)') \in Nat /\ Cardinality(Reading(b)') \in Nat
        /\ Cardinality(Waiting(b)') <= Cardinality(Waiting(b))
        /\ Cardinality(Reading(b)') <= Cardinality(Reading(b))
    BY <1>2, <1>3, <1>5, WaitingKept, ReadingKept DEF CountInv
  <2>5. WaitsCounted(b)'
    BY <1>3, <2>4, OwnerFacts DEF WaitsCounted, CountInv, Owned
  <2>6. OwnersCounted(b)'
    BY <1>2, <1>3, <2>1, <2>4, OwnerFacts, OwnersEnough DEF CountInv, Owned
  <2> QED
    BY <2>3, <2>5, <2>6
<1>8. BuffersOK'
  BY <1>6, <1>7 DEF BuffersOK
<1>9. IndexOK' /\ pc'["drain"] = "idle"
  BY <1>1, <1>2 DEF IndexOK, Owned, Threads, Releases
<1> QED
  BY <1>8, <1>9 DEF Owned

\* The context of a decode that is released is that of one which waits.
LEMMA ReleasedWaits ==
    ASSUME CountInv, NEW t \in Threads,
           IF t = "mme" THEN pc[t] = "idle" /\ mme # <<>> ELSE pc[t] = "release"
    PROVE  /\ Released(t).buffer \in Buffers
           /\ Released(t).number \in Waiting(Released(t).buffer)
<1>1. Released(t) \in Contexts /\ Released(t).buffer \in Buffers
  BY ReleasedType DEF CountInv
<1>2. Waits(Released(t).buffer, Released(t).number)
  <2>1. CASE t = "mme"
    <3>1. 1 \in DOMAIN mme /\ Released(t) = mme[1]
      BY <2>1, ReleasedType DEF CountInv
    <3> QED
      BY <2>1, <3>1 DEF Waits
  <2>2. CASE t # "mme"
    <3>1. t = "decode" /\ Released(t) = work
      BY <2>2, ReleasedType DEF CountInv
    <3> QED
      BY <2>2, <3>1 DEF Waits
  <2> QED
    BY <2>1, <2>2
<1>3. Released(t).number \in 0..MaxPictures[direct]
  BY <1>1 DEF Contexts
<1> QED
  BY <1>1, <1>2, <1>3 DEF Waiting

\* The numbers of the other decodes are others.
LEMMA NumbersDiffer ==
    ASSUME CountInv, NEW t \in Threads,
           \/ t = "mme" /\ mme # <<>>
           \/ t = "decode" /\ pc["decode"] \in Releases \cup {"release"}
    PROVE  /\ t = "mme" => \A i \in DOMAIN mme : i # 1 => mme[i].number # Released(t).number
           /\ t = "mme" => /\ pc["decode"] \in {"count", "send", "release"} \cup Releases =>
                                work.number # Released(t).number
           /\ t = "decode" => \A i \in DOMAIN mme : mme[i].number # Released(t).number
<1> USE NumberTypes DEF CountInv
<1>1. CASE t = "mme"
  <2>1. 1 \in DOMAIN mme /\ Released(t) = mme[1] /\ mme[1].number \in Nat
    BY <1>1, ReleasedType
  <2>2. mme[1].number <= prepared /\ \A i \in DOMAIN mme : i # 1 => mme[1].number < mme[i].number
    BY SMTT(30), <2>1 DEF OrderOK
  <2>3. pc["decode"] \in {"count", "send"} => work.number = prepared + 1
    BY DEF WorkOK
  <2>4. pc["decode"] \in {"release"} \cup Releases => mme[1].number < work.number
    BY <2>1 DEF WorkOK
  <2> QED
    BY <1>1, <2>1, <2>2, <2>3, <2>4
<1>2. CASE t = "decode"
  <2>1. Released(t) = work
    BY <1>2 DEF Released
  <2>2. \A i \in DOMAIN mme : mme[i].number < work.number
    BY <1>2 DEF WorkOK
  <2> QED
    BY <1>2, <2>1, <2>2
<1> QED
  BY <1>1, <1>2

\* A decode is over: one less waits for its buffer, and the last passes it on
\* or goes on to discard it.
LEMMA ReleaseKeeps ==
    ASSUME NEW t \in Threads, CountInv, Owned, Types', PlacesOK', wild = "no", wild' = "no",
           Release(t)
    PROVE  Owned'
<1>1. /\ pc \in [Threads -> Labels] /\ pc["drain"] = "idle"
      /\ IF t = "mme" THEN pc[t] = "idle" /\ mme # <<>> ELSE pc[t] = "release"
      /\ t \in {"decode", "mme"}
  BY DEF PlacesOK, Owned, CountInv, Threads, Release, Undefined
<1>2. PICK b \in Buffers : b = Released(t).buffer
  BY <1>1, ReleasedWaits
<1>3. PICK x : x = Released(t).number
  OBVIOUS
<1>4. x \in Waiting(b) /\ Waits(b, x)
  BY <1>1, <1>2, <1>3, ReleasedWaits DEF Waiting
<1>5. UNCHANGED <<refs, mme, work, partial, current, direct>>
  BY DEF Release, Undefined, counts, codec, past
<1>6. /\ state[b].busy # 0 /\ state'[b].busy = state[b].busy - 1
      /\ state'[b].out = state[b].out /\ state'[b].pinned = state[b].pinned
      /\ \A c \in Buffers \ {b} : state'[c] = state[c] /\ output'[c] = output[c]
      /\ output'[b] = (IF state[b].out /\ state[b].busy = 1 /\ ~Discarding
                       THEN output[b] + 1 ELSE output[b])
  BY <1>2, ReleaseEffect DEF CountInv, Types
<1>7. \/ /\ state[b].out /\ state[b].busy = 1 /\ Discarding /\ pc' = [pc EXCEPT ![t] = "discard"]
      \/ pc' = [pc EXCEPT ![t] = "forgetIndex"]
      \/ /\ state[b].out => b # current
         /\ \/ pc' = [pc EXCEPT ![t] = "context"]
            \/ Released(t).use # NoBuffer /\ pc' = [pc EXCEPT ![t] = "references"]
  BY <1>2, ReleaseMoves, AfterIndexType
<1>8. \E l \in {"discard", "forgetIndex", "context", "references"} : pc' = [pc EXCEPT ![t] = l]
  BY <1>7
<1>9. t = "mme" => pc'["mme"] \notin {"idle", "test", "take"} /\ pc'["decode"] = pc["decode"]
  BY <1>1, <1>8 DEF Threads
<1>10. t = "decode" => /\ pc["decode"] = "release"
                       /\ pc'["decode"] \in {"discard", "forgetIndex", "context", "references"}
                       /\ pc'["mme"] = pc["mme"]
  BY <1>1, <1>8 DEF Threads
<1>11. \A c \in Buffers : \A n : Waits(c, n)' => Waits(c, n) /\ (c = b => n # x)
  <2>1. CASE t = "mme"
    <3>1. /\ \A i \in DOMAIN mme : i # 1 => mme[i].number # x
          /\ pc["decode"] \in {"send", "release"} => work.number # x
      BY <1>1, <1>3, <2>1, NumbersDiffer
    <3>2. \A c \in Buffers : \A n : Waits(c, n)' =>
             \/ \E i \in DOMAIN mme : i # 1 /\ mme[i].buffer = c /\ mme[i].number = n
             \/ pc["decode"] \in {"send", "release"} /\ work.buffer = c /\ work.number = n
      BY <1>5, <1>9, <2>1 DEF Waits
    <3> QED
      BY <3>1, <3>2 DEF Waits
  <2>2. CASE t = "decode"
    <3>1. \A i \in DOMAIN mme : mme[i].number # x
      BY <1>3, <1>10, <2>2, NumbersDiffer
    <3>2. \A c \in Buffers : \A n : Waits(c, n)' =>
             \E i \in DOMAIN mme : /\ mme[i].buffer = c /\ mme[i].number = n
                                   /\ i = 1 => pc["mme"] \in {"idle", "test", "take"}
      BY <1>5, <1>10, <2>2 DEF Waits
    <3> QED
      BY <3>1, <3>2 DEF Waits
  <2> QED
    BY <1>1, <2>1, <2>2
<1>12. \A c \in Buffers : \A n : Reads(c, n)' => Reads(c, n)
  <2>1. CASE t = "mme"
    <3>1. pc["mme"] = "idle"
      BY <1>1, <2>1
    <3> QED
      BY <1>5, <1>9, <2>1, <3>1 DEF Reads
  <2>2. CASE t = "decode"
    BY <1>5, <1>10, <2>2 DEF Reads
  <2> QED
    BY <1>1, <2>1, <2>2
<1>13. current \in {b, NoBuffer} \/ t = "mme"
  BY <1>1, <1>2, <1>10 DEF Owned, IndexOK, Released
<1>14. \A c \in Buffers : /\ Filling(c)' => Filling(c) \/ c = b
                          /\ Counting(c)' => Counting(c)
                          /\ Outputting(c)' => Outputting(c)
  BY <1>1, <1>5, <1>9, <1>10, <1>13, BuffersAssumption DEF Filling, Counting, Outputting
<1>15. \A c \in Buffers : \A r \in Threads :
          Discarded(r, c)' => Discarded(r, c) \/ (c = b /\ r = t /\ pc'[t] = "discard")
  <2>1. \A r \in Threads : Released(r)' = Released(r)
    BY <1>5 DEF Released
  <2>2. \A r \in Threads : r # t => pc'[r] = pc[r]
    BY <1>1, <1>8
  <2> QED
    BY <1>2, <2>1, <2>2 DEF Discarded
<1>16. \A c \in Buffers \ {b} : StateOK(c)' /\ WaitsCounted(c)' /\ OwnersCounted(c)'
  BY <1>5, <1>6, <1>11, <1>12, <1>14, <1>15, BufferKept DEF CountInv, Owned
<1>17. Obtained(b) /\ output[b] = 0 /\ \A r \in Threads : ~Discarded(r, b)
  BY <1>6, OwnerFacts DEF StateOK, Obtained, CountInv, Owned
<1>18. StateOK(b)'
  <2>1. output'[b] > 0 => output'[b] = 1 /\ state'[b].busy = 0 /\ state'[b].out
    BY <1>6, <1>17
  <2>2. Filling(b)' => ~state[b].out
    <3>1. CASE t = "mme"
      <4>1. Filling(b)' => Filling(b)
        BY <1>5, <1>9, <3>1 DEF Filling
      <4> QED
        BY <4>1, OwnerFacts DEF StateOK, CountInv, Owned
    <3>2. CASE t = "decode"
      <4>1. Filling(b)' => pc'["decode"] \in {"context", "references"} /\ current = b
        BY <1>5, <1>10, <3>2 DEF Filling
      <4>2. pc'["decode"] \in {"context", "references"} /\ state[b].out => b # current
        BY <1>1, <1>7, <3>2
      <4> QED
        BY <4>1, <4>2
    <3> QED
      BY <1>1, <3>1, <3>2
  <2>3. Filling(b)' \/ Counting(b)' \/ Outputting(b)' => ~state'[b].out
    BY <1>6, <1>14, <2>2, OwnerFacts DEF StateOK, CountInv, Owned
  <2>4. \A r \in Threads : Discarded(r, b)' => r = t /\ pc'[t] = "discard"
    BY <1>15, <1>17
  <2>5. pc'[t] = "discard" => state[b].out /\ state[b].busy = 1 /\ Discarding
    BY <1>1, <1>7
  <2>6. refs'[b] # 0
    BY <1>5, <1>17, ObtainedOwned DEF CountInv, Owned
  <2> QED
    BY <1>6, <1>17, <2>1, <2>3, <2>4, <2>5, <2>6 DEF StateOK
<1>19. WaitsCounted(b)'
  <2>1. /\ Cardinality(Waiting(b)') + 1 <= Cardinality(Waiting(b))
        /\ Cardinality(Waiting(b)') \in Nat
    BY <1>4, <1>5, <1>11, WaitingLess DEF CountInv
  <2> QED
    BY <1>6, <2>1, OwnerFacts DEF WaitsCounted, CountInv, Owned
<1>20. OwnersCounted(b)'
  <2>1. /\ Cardinality(Reading(b)') \in Nat
        /\ Cardinality(Reading(b)') <= Cardinality(Reading(b))
    BY <1>5, <1>12, ReadingKept DEF CountInv
  <2> QED
    BY <1>5, <1>6, <1>17, <2>1, OwnerFacts, OwnersEnough DEF CountInv, Owned
<1>21. BuffersOK'
  BY <1>16, <1>18, <1>19, <1>20 DEF BuffersOK
<1>22. IndexOK' /\ pc'["drain"] = "idle"
  BY <1>1, <1>5, <1>8 DEF IndexOK, Owned, Threads, Releases
<1> QED
  BY <1>21, <1>22 DEF Owned

\* Whoever gives back the reference that a buffer was obtained with leaves those
\* of the other owners.
LEMMA GivenBack ==
    ASSUME Types, BuffersOK, direct' = direct, NEW b \in Buffers, Obtained(b), ~Obtained(b)',
           refs'[b] = refs[b] - 1, state'[b] = (IF refs[b] = 1 THEN Fresh ELSE state[b]),
           state[b].busy = 0, output'[b] \in Nat,
           \A n : Waits(b, n)' => Waits(b, n), \A n : Reads(b, n)' => Reads(b, n)
    PROVE  StateOK(b)' /\ WaitsCounted(b)' /\ OwnersCounted(b)'
<1>1. StateOK(b)'
  <2>1. refs'[b] = 0 => ~state'[b].out
    BY OwnerFacts, FreshType
  <2> QED
    BY <2>1 DEF Obtained, StateOK
<1>2. /\ Cardinality(Waiting(b)') \in Nat /\ Cardinality(Reading(b)') \in Nat
      /\ Cardinality(Waiting(b)') <= Cardinality(Waiting(b))
      /\ Cardinality(Reading(b)') <= Cardinality(Reading(b))
  BY WaitingKept, ReadingKept
<1>3. state'[b].busy = 0 /\ state'[b].pinned \in Nat
  BY FreshType, OwnerFacts
<1>4. WaitsCounted(b)'
  BY <1>2, <1>3, OwnerFacts DEF WaitsCounted
<1>5. refs[b] >= 1 + state[b].pinned + Cardinality(Reading(b))
  BY OwnerFacts
<1>6. refs'[b] >= state'[b].pinned + Cardinality(Reading(b)')
  <2>1. CASE refs[b] = 1
    BY <1>2, <1>5, <2>1, FreshType, OwnerFacts
  <2>2. CASE refs[b] # 1
    BY <1>2, <1>5, <2>2, OwnerFacts
  <2> QED
    BY <2>1, <2>2
<1>7. OwnersCounted(b)'
  BY <1>2, <1>3, <1>6, OwnersEnough
<1> QED
  BY <1>1, <1>4, <1>7

\* The callback discards a decoded buffer.
LEMMA DiscardKeeps ==
    ASSUME NEW t \in Threads, CountInv, Owned, Types', PlacesOK', wild = "no", wild' = "no",
           Discard(t)
    PROVE  Owned'
<1>1. /\ pc \in [Threads -> Labels] /\ pc["drain"] = "idle" /\ pc[t] = "discard"
      /\ t \in {"decode", "mme"}
  BY DEF PlacesOK, Owned, CountInv, Threads, Discard, Undefined
<1>2. PICK b \in Buffers : b = Released(t).buffer
  BY <1>1, ReleasedType DEF CountInv, Releases
<1>3. /\ UNCHANGED <<output, mme, work, partial, current, direct>>
      /\ pc' = [pc EXCEPT ![t] = "compare"] /\ Drop(b) /\ refs[b] # 0
  BY <1>2 DEF Discard, Undefined, Goto, counts, codec, past
<1>4. /\ refs'[b] = refs[b] - 1
      /\ state'[b] = (IF refs[b] = 1 THEN Fresh ELSE state[b])
      /\ \A c \in Buffers \ {b} : refs'[c] = refs[c] /\ state'[c] = state[c]
  BY <1>3, DropEffect DEF CountInv, Types
<1>5. \A c \in Buffers : \A n : (Waits(c, n)' => Waits(c, n)) /\ (Reads(c, n)' => Reads(c, n))
  BY <1>1, <1>3 DEF Waits, Reads, Threads
<1>6. \A c \in Buffers : /\ Filling(c)' => Filling(c)
                         /\ Counting(c)' => Counting(c)
                         /\ Outputting(c)' => Outputting(c)
                         /\ \A r \in Threads : Discarded(r, c)' => Discarded(r, c) /\ r # t
  BY <1>1, <1>3 DEF Filling, Counting, Outputting, Discarded, Released, Threads
<1>7. \A c \in Buffers \ {b} : StateOK(c)' /\ WaitsCounted(c)' /\ OwnersCounted(c)'
  BY <1>3, <1>4, <1>5, <1>6, BufferKept DEF CountInv, Owned
<1>8. /\ Obtained(b) /\ output[b] = 0 /\ state[b].busy = 0
      /\ ~Filling(b) /\ ~Counting(b) /\ ~Outputting(b)
      /\ \A r \in Threads : Discarded(r, b) => r = t
  <2>1. Discarded(t, b)
    BY <1>1, <1>2 DEF Discarded
  <2> QED
    BY <2>1, OwnerFacts DEF Obtained, StateOK, CountInv, Owned
<1>9. ~Obtained(b)'
  <2>1. state'[b].busy = 0
    BY <1>4, <1>8, FreshType
  <2> QED
    BY <1>3, <1>6, <1>8, <2>1 DEF Obtained
<1>10. StateOK(b)' /\ WaitsCounted(b)' /\ OwnersCounted(b)'
  BY <1>3, <1>4, <1>5, <1>8, <1>9, GivenBack, OwnerFacts DEF CountInv, Owned
<1>11. BuffersOK'
  BY <1>7, <1>10 DEF BuffersOK
<1>12. IndexOK' /\ pc'["drain"] = "idle"
  BY <1>1, <1>3 DEF IndexOK, Owned, Threads, Releases
<1> QED
  BY <1>11, <1>12 DEF Owned

\* A buffer that was passed on is given back.
LEMMA ReleaseDecodeBufferKeeps ==
    ASSUME NEW b \in Buffers, CountInv, Owned, Types', PlacesOK', wild = "no", wild' = "no",
           ReleaseDecodeBuffer(b)
    PROVE  Owned'
<1>1. /\ UNCHANGED <<pc, mme, work, partial, current, direct>>
      /\ output[b] > 0 /\ output' = [output EXCEPT ![b] = @ - 1] /\ Drop(b) /\ refs[b] # 0
  BY DEF ReleaseDecodeBuffer, Undefined, counts, codec, past, threads
<1>2. /\ refs'[b] = refs[b] - 1
      /\ state'[b] = (IF refs[b] = 1 THEN Fresh ELSE state[b])
      /\ \A c \in Buffers \ {b} : refs'[c] = refs[c] /\ state'[c] = state[c]
  BY <1>1, DropEffect DEF CountInv, Types
<1>3. \A c \in Buffers : \A n : (Waits(c, n)' => Waits(c, n)) /\ (Reads(c, n)' => Reads(c, n))
  BY <1>1 DEF Waits, Reads
<1>4. \A c \in Buffers : /\ Filling(c)' => Filling(c)
                         /\ Counting(c)' => Counting(c)
                         /\ Outputting(c)' => Outputting(c)
                         /\ \A r \in Threads : Discarded(r, c)' => Discarded(r, c)
  BY <1>1 DEF Filling, Counting, Outputting, Discarded, Released
<1>5. /\ output'[b] = output[b] - 1
      /\ \A c \in Buffers \ {b} : output'[c] = output[c]
  BY <1>1 DEF CountInv, Types, BuffersType
<1>6. \A c \in Buffers \ {b} : StateOK(c)' /\ WaitsCounted(c)' /\ OwnersCounted(c)'
  BY <1>1, <1>2, <1>3, <1>4, <1>5, BufferKept DEF CountInv, Owned
<1>7. /\ Obtained(b) /\ output[b] = 1 /\ state[b].busy = 0
      /\ ~Filling(b) /\ ~Counting(b) /\ ~Outputting(b)
      /\ \A r \in Threads : ~Discarded(r, b)
  BY <1>1, OwnerFacts DEF Obtained, StateOK, CountInv, Owned
<1>8. ~Obtained(b)'
  <2>1. state'[b].busy = 0 /\ output'[b] = 0
    BY <1>2, <1>5, <1>7, FreshType
  <2> QED
    BY <1>4, <1>7, <2>1 DEF Obtained
<1>9. StateOK(b)' /\ WaitsCounted(b)' /\ OwnersCounted(b)'
  BY <1>1, <1>2, <1>3, <1>5, <1>7, <1>8, GivenBack DEF CountInv, Owned
<1>10. BuffersOK'
  BY <1>6, <1>9 DEF BuffersOK
<1>11. IndexOK' /\ pc'["drain"] = "idle"
  BY <1>1 DEF IndexOK, Owned
<1> QED
  BY <1>10, <1>11 DEF Owned

\* Any other reference leaves the buffer with whoever obtained it.
LEMMA OtherGivenBack ==
    ASSUME Types, BuffersOK, direct' = direct, NEW b \in Buffers,
           refs'[b] = refs[b] - 1, refs[b] = 1 => state'[b] = Fresh,
           refs[b] # 1 => state'[b].out = state[b].out /\ state'[b].busy = state[b].busy,
           output'[b] = output[b], state'[b].pinned \in Nat,
           refs[b] >= 1 + state'[b].pinned + Cardinality(Reading(b)'),
           Obtained(b) => refs[b] >= 2 + state'[b].pinned + Cardinality(Reading(b)'),
           Filling(b)' => Filling(b), Counting(b)' => Counting(b), Outputting(b)' => Outputting(b),
           \A t \in Threads : Discarded(t, b)' => Discarded(t, b),
           \A n : Waits(b, n)' => Waits(b, n), \A n : Reads(b, n)' => Reads(b, n)
    PROVE  StateOK(b)' /\ WaitsCounted(b)' /\ OwnersCounted(b)'
<1>1. /\ Cardinality(Waiting(b)') \in Nat /\ Cardinality(Reading(b)') \in Nat
      /\ Cardinality(Waiting(b)') <= Cardinality(Waiting(b))
      /\ Cardinality(Reading(b)') <= Cardinality(Reading(b))
  BY WaitingKept, ReadingKept
<1>2. CASE refs[b] = 1
  <2>1. ~Obtained(b)
    BY <1>1, <1>2
  <2>2. state[b].busy = 0
    BY <2>1, OwnerFacts DEF Obtained
  <2>3. state'[b].busy = 0 /\ state'[b].out = FALSE /\ state'[b].pinned = 0
    BY <1>2, FreshType
  <2>4. ~Obtained(b)'
    BY <2>1, <2>3 DEF Obtained
  <2>5. StateOK(b)'
    BY <2>3, <2>4, OwnerFacts DEF Obtained, StateOK
  <2>6. WaitsCounted(b)'
    BY <1>1, <2>2, <2>3, OwnerFacts DEF WaitsCounted
  <2>7. OwnersCounted(b)'
    BY <1>1, <1>2, <2>4, OwnersEnough
  <2> QED
    BY <2>5, <2>6, <2>7
<1>3. CASE refs[b] # 1
  <2>1. StateOK(b)'
    BY <1>3, OwnerFacts DEF StateOK
  <2>2. WaitsCounted(b)'
    BY <1>1, <1>3, OwnerFacts DEF WaitsCounted
  <2>3. Obtained(b)' => Obtained(b)
    BY <1>3 DEF Obtained
  <2>4. OwnersCounted(b)'
    BY <1>1, <2>3, OwnersEnough, OwnerFacts
  <2> QED
    BY <2>1, <2>2, <2>4
<1> QED
  BY <1>2, <1>3

\* The context whose references are dropped is that of a decode which reads.
LEMMA ReferencesRead ==
    ASSUME CountInv, NEW t \in Threads, pc[t] = "references"
    PROVE  /\ Released(t).use \in Buffers
           /\ Released(t).number \in Reading(Released(t).use)
<1>1. Released(t) \in Contexts /\ Released(t).use \in Buffers
  BY ReleasedType DEF CountInv, Releases
<1>2. Reads(Released(t).use, Released(t).number)
  <2>1. CASE t = "mme"
    <3>1. 1 \in DOMAIN mme /\ Released(t) = mme[1]
      BY <2>1, ReleasedType DEF CountInv, Releases
    <3> QED
      BY <2>1, <3>1 DEF Reads
  <2>2. CASE t # "mme"
    <3>1. t = "decode" /\ Released(t) = work
      BY <2>2, ReleasedType DEF CountInv, Releases
    <3> QED
      BY <2>2, <3>1 DEF Reads
  <2> QED
    BY <2>1, <2>2
<1>3. Released(t).number \in 0..MaxPictures[direct]
  BY <1>1 DEF Contexts
<1> QED
  BY <1>1, <1>2, <1>3 DEF Reading

\* A decode gives back the buffer it read.
LEMMA ReferencesKeeps ==
    ASSUME NEW t \in Threads, CountInv, Owned, Types', PlacesOK', wild = "no", wild' = "no",
           References(t)
    PROVE  Owned'
<1>1. /\ pc \in [Threads -> Labels] /\ pc["drain"] = "idle" /\ pc[t] = "references"
      /\ t \in {"decode", "mme"}
  BY DEF PlacesOK, Owned, CountInv, Threads, References, Undefined
<1>2. PICK b \in Buffers : b = Released(t).use
  BY <1>1, ReferencesRead
<1>3. PICK x : x = Released(t).number
  OBVIOUS
<1>4. x \in Reading(b)
  BY <1>1, <1>2, <1>3, ReferencesRead
<1>5. /\ UNCHANGED <<output, mme, work, partial, current, direct>>
      /\ pc' = [pc EXCEPT ![t] = "context"] /\ Drop(b) /\ refs[b] # 0
  BY <1>2 DEF References, Undefined, Goto, counts, codec, past
<1>6. /\ refs'[b] = refs[b] - 1
      /\ state'[b] = (IF refs[b] = 1 THEN Fresh ELSE state[b])
      /\ \A c \in Buffers \ {b} : refs'[c] = refs[c] /\ state'[c] = state[c]
  BY <1>5, DropEffect DEF CountInv, Types
<1>7. \A c \in Buffers : \A n : Waits(c, n)' => Waits(c, n)
  BY <1>1, <1>5 DEF Waits, Threads
<1>8. \A c \in Buffers : \A n : Reads(c, n)' => Reads(c, n) /\ n # x
  <2>1. CASE t = "mme"
    <3>1. /\ \A i \in DOMAIN mme : i # 1 => mme[i].number # x
          /\ pc["decode"] \in {"count", "send", "release"} \cup Releases => work.number # x
      BY <1>1, <1>3, <2>1, NumbersDiffer DEF CountInv, PlacesOK, Releases
    <3>2. \A c \in Buffers : \A n : Reads(c, n)' =>
             \/ \E i \in DOMAIN mme : i # 1 /\ mme[i].use = c /\ mme[i].number = n
             \/ /\ pc["decode"] \in {"count", "send", "release", "discard", "compare",
                                     "forgetIndex", "references"}
                /\ work.use = c /\ work.number = n
      BY <1>1, <1>5, <2>1 DEF Reads, Threads
    <3> QED
      BY <3>1, <3>2 DEF Reads, Releases
  <2>2. CASE t = "decode"
    <3>1. \A i \in DOMAIN mme : mme[i].number # x
      BY <1>1, <1>3, <2>2, NumbersDiffer DEF Releases
    <3>2. \A c \in Buffers : \A n : Reads(c, n)' =>
             \E i \in DOMAIN mme : /\ mme[i].use = c /\ mme[i].number = n
                                   /\ i = 1 => pc["mme"] \notin {"context", "forgetContext",
                                                                  "released"}
      BY <1>1, <1>5, <2>2 DEF Reads, Threads
    <3> QED
      BY <3>1, <3>2 DEF Reads
  <2> QED
    BY <1>1, <2>1, <2>2
<1>9. \A c \in Buffers : /\ Filling(c)' => Filling(c)
                         /\ Counting(c)' => Counting(c)
                         /\ Outputting(c)' => Outputting(c)
                         /\ \A r \in Threads : Discarded(r, c)' => Discarded(r, c)
  BY <1>1, <1>5 DEF Filling, Counting, Outputting, Discarded, Released, Threads
<1>10. \A c \in Buffers \ {b} : StateOK(c)' /\ WaitsCounted(c)' /\ OwnersCounted(c)'
  BY <1>5, <1>6, <1>7, <1>8, <1>9, BufferKept DEF CountInv, Owned
<1>11. StateOK(b)' /\ WaitsCounted(b)' /\ OwnersCounted(b)'
  <2>1. /\ Cardinality(Reading(b)') + 1 <= Cardinality(Reading(b))
        /\ Cardinality(Reading(b)') \in Nat
    BY <1>4, <1>5, <1>8, ReadingLess DEF CountInv
  <2>2. state'[b].pinned \in Nat /\ state'[b].pinned <= state[b].pinned
    BY <1>6, FreshType, OwnerFacts DEF CountInv, Owned
  <2>3. /\ refs[b] >= 1 + state'[b].pinned + Cardinality(Reading(b)')
        /\ Obtained(b) => refs[b] >= 2 + state'[b].pinned + Cardinality(Reading(b)')
    BY <2>1, <2>2, OwnerFacts DEF CountInv, Owned
  <2> QED
    BY <1>5, <1>6, <1>7, <1>8, <1>9, <2>2, <2>3, OtherGivenBack DEF CountInv, Owned
<1>12. BuffersOK'
  BY <1>10, <1>11 DEF BuffersOK
<1>13. IndexOK' /\ pc'["drain"] = "idle"
  BY <1>1, <1>5 DEF IndexOK, Owned, Threads, Releases
<1> QED
  BY <1>12, <1>13 DEF Owned

\* The parser gives back a reference frame.
LEMMA ReleaseReferenceFrameKeeps ==
    ASSUME NEW b \in Buffers, CountInv, Owned, Types', PlacesOK', wild = "no", wild' = "no",
           ReleaseReferenceFrame(b)
    PROVE  Owned'
<1>1. UNCHANGED <<output, pc, mme, work, partial, current, direct>>
  BY DEF ReleaseReferenceFrame, Undefined, counts, codec, past, threads
<1>2. /\ refs[b] # 0 /\ state[b].pinned > 0 /\ refs'[b] = refs[b] - 1
      /\ refs[b] = 1 => state'[b] = Fresh
      /\ refs[b] # 1 => /\ state'[b].out = state[b].out /\ state'[b].busy = state[b].busy
                        /\ state'[b].pinned = state[b].pinned - 1
      /\ \A c \in Buffers \ {b} : refs'[c] = refs[c] /\ state'[c] = state[c]
  BY ReferenceEffect DEF CountInv, Types
<1>3. \A c \in Buffers : \A n : (Waits(c, n)' => Waits(c, n)) /\ (Reads(c, n)' => Reads(c, n))
  BY <1>1 DEF Waits, Reads
<1>4. \A c \in Buffers : /\ Filling(c)' => Filling(c)
                         /\ Counting(c)' => Counting(c)
                         /\ Outputting(c)' => Outputting(c)
                         /\ \A r \in Threads : Discarded(r, c)' => Discarded(r, c)
  BY <1>1 DEF Filling, Counting, Outputting, Discarded, Released
<1>5. \A c \in Buffers \ {b} : StateOK(c)' /\ WaitsCounted(c)' /\ OwnersCounted(c)'
  BY <1>1, <1>2, <1>3, <1>4, BufferKept DEF CountInv, Owned
<1>6. StateOK(b)' /\ WaitsCounted(b)' /\ OwnersCounted(b)'
  <2>1. /\ Cardinality(Reading(b)') <= Cardinality(Reading(b))
        /\ Cardinality(Reading(b)') \in Nat
    BY <1>1, <1>3, ReadingKept DEF CountInv
  <2>2. state'[b].pinned \in Nat /\ state'[b].pinned + 1 <= state[b].pinned
    BY <1>2, FreshType, OwnerFacts DEF CountInv, Owned
  <2>3. /\ refs[b] >= 1 + state'[b].pinned + Cardinality(Reading(b)')
        /\ Obtained(b) => refs[b] >= 2 + state'[b].pinned + Cardinality(Reading(b)')
    BY <2>1, <2>2, OwnerFacts DEF CountInv, Owned
  <2> QED
    BY <1>1, <1>2, <1>3, <1>4, <2>2, <2>3, OtherGivenBack DEF CountInv, Owned
<1>7. BuffersOK'
  BY <1>5, <1>6 DEF BuffersOK
<1>8. IndexOK' /\ pc'["drain"] = "idle"
  BY <1>1 DEF IndexOK, Owned
<1> QED
  BY <1>7, <1>8 DEF Owned

\* A buffer from the pool has no owner.
LEMMA GetDecodeBufferKeeps ==
    ASSUME NEW b \in Buffers, CountInv, Owned, Types', PlacesOK', wild = "no", wild' = "no",
           GetDecodeBuffer(b)
    PROVE  Owned'
<1>1. pc \in [Threads -> Labels] /\ pc["drain"] = "idle"
  BY DEF PlacesOK, Owned, CountInv
<1>2. /\ UNCHANGED <<state, output, mme, work, partial, direct>>
      /\ pc["decode"] = "obtain" /\ pc' = [pc EXCEPT !["decode"] = "initialize"]
      /\ refs[b] = 0 /\ current' = b
  BY DEF GetDecodeBuffer, Goto, counts, past
<1>3. refs'[b] = 1 /\ \A c \in Buffers \ {b} : refs'[c] = refs[c]
  BY DEF GetDecodeBuffer, CountInv, Types, BuffersType
<1>4. \A c \in Buffers : \A n : (Waits(c, n)' => Waits(c, n)) /\ (Reads(c, n)' => Reads(c, n))
  BY <1>1, <1>2 DEF Waits, Reads, Threads
<1>5. \A c \in Buffers : /\ Filling(c)' => c = b
                         /\ ~Counting(c)' /\ ~Outputting(c)'
                         /\ \A r \in Threads : Discarded(r, c)' => Discarded(r, c)
  BY <1>1, <1>2 DEF Filling, Counting, Outputting, Discarded, Released, Threads
<1>6. \A c \in Buffers \ {b} : StateOK(c)' /\ WaitsCounted(c)' /\ OwnersCounted(c)'
  BY <1>2, <1>3, <1>4, <1>5, BufferKept DEF CountInv, Owned
<1>7. /\ ~Obtained(b) /\ state[b].pinned = 0 /\ Cardinality(Reading(b)) = 0
  BY <1>2, OwnerFacts DEF CountInv, Owned
<1>8. StateOK(b)' /\ WaitsCounted(b)' /\ OwnersCounted(b)'
  <2>1. output'[b] = 0 /\ state[b].busy = 0 /\ \A r \in Threads : ~Discarded(r, b)
    BY <1>2, <1>7, OwnerFacts DEF Obtained, CountInv, Owned
  <2>2. StateOK(b)'
    BY <1>2, <1>3, <1>5, <1>7, <2>1, OwnerFacts DEF StateOK, CountInv, Owned
  <2>3. /\ Cardinality(Waiting(b)') \in Nat /\ Cardinality(Reading(b)') \in Nat
        /\ Cardinality(Waiting(b)') <= Cardinality(Waiting(b))
        /\ Cardinality(Reading(b)') <= Cardinality(Reading(b))
    BY <1>2, <1>4, WaitingKept, ReadingKept DEF CountInv
  <2>4. WaitsCounted(b)'
    BY <1>2, <2>1, <2>3, OwnerFacts DEF WaitsCounted, CountInv, Owned
  <2>5. OwnersCounted(b)'
    BY <1>2, <1>3, <1>7, <2>3, OwnersEnough
  <2> QED
    BY <2>2, <2>4, <2>5
<1>9. BuffersOK'
  BY <1>6, <1>8 DEF BuffersOK
<1>10. IndexOK' /\ pc'["drain"] = "idle"
  BY <1>1, <1>2 DEF IndexOK, Threads, Releases
<1> QED
  BY <1>9, <1>10 DEF Owned

\* A buffer is initialized: what it was before is of no use to anybody.
LEMMA InitializeBufferKeeps ==
    ASSUME CountInv, Owned, FreshOK, Types', PlacesOK', wild = "no", wild' = "no",
           InitializeBuffer
    PROVE  Owned'
<1>1. pc \in [Threads -> Labels] /\ pc["drain"] = "idle"
  BY DEF PlacesOK, Owned, CountInv
<1>2. PICK b \in Buffers : b = current
  BY InitializeEffect DEF CountInv
<1>3. /\ UNCHANGED <<refs, output, mme, work, partial, current, direct>>
      /\ pc["decode"] = "initialize"
      /\ state'[b] = Fresh /\ \A c \in Buffers \ {b} : state'[c] = state[c]
  BY <1>2, InitializeEffect DEF CountInv, counts, codec
<1>4. \E l \in {"prepare", "context"} : pc' = [pc EXCEPT !["decode"] = l]
  BY InitializeEffect DEF CountInv
<1>5. \A c \in Buffers : \A n : (Waits(c, n)' => Waits(c, n)) /\ (Reads(c, n)' => Reads(c, n))
  BY <1>1, <1>3, <1>4 DEF Waits, Reads, Threads
<1>6. \A c \in Buffers : /\ Filling(c)' => Filling(c)
                         /\ ~Counting(c)' /\ ~Outputting(c)'
                         /\ \A r \in Threads : Discarded(r, c)' => Discarded(r, c)
  BY <1>1, <1>3, <1>4 DEF Filling, Counting, Outputting, Discarded, Released, Threads
<1>7. \A c \in Buffers \ {b} : StateOK(c)' /\ WaitsCounted(c)' /\ OwnersCounted(c)'
  BY <1>3, <1>5, <1>6, BufferKept DEF CountInv, Owned
<1>8. StateOK(b)' /\ WaitsCounted(b)' /\ OwnersCounted(b)'
  <2>1. Filling(b) /\ Obtained(b)
    BY <1>2, <1>3 DEF Filling, Obtained
  <2>2. /\ state[b].busy = 0 /\ output[b] = 0
        /\ \A r \in Threads : ~Discarded(r, b)
    BY <1>2, <1>3, <2>1, OwnerFacts DEF FreshOK, StateOK, CountInv, Owned
  <2>3. StateOK(b)'
    BY <1>3, <1>6, <2>2, FreshType DEF StateOK
  <2>4. /\ Cardinality(Waiting(b)') \in Nat /\ Cardinality(Reading(b)') \in Nat
        /\ Cardinality(Waiting(b)') <= Cardinality(Waiting(b))
        /\ Cardinality(Reading(b)') <= Cardinality(Reading(b))
    BY <1>3, <1>5, WaitingKept, ReadingKept DEF CountInv
  <2>5. WaitsCounted(b)'
    BY <1>3, <2>2, <2>4, FreshType, OwnerFacts DEF WaitsCounted, CountInv, Owned
  <2>6. OwnersCounted(b)'
    BY <1>3, <2>1, <2>4, FreshType, OwnerFacts, OwnersEnough DEF CountInv, Owned
  <2> QED
    BY <2>3, <2>5, <2>6
<1>9. BuffersOK'
  BY <1>7, <1>8 DEF BuffersOK
<1>10. IndexOK' /\ pc'["drain"] = "idle"
  <2>1. pc'["decode"] \in {"prepare", "context"}
    BY <1>1, <1>4 DEF Threads
  <2> QED
    BY <1>1, <1>3, <1>4, <2>1 DEF IndexOK, Threads, Releases, Owned
<1> QED
  BY <1>9, <1>10 DEF Owned

\* A reference frame gets an owner more.
LEMMA PrepareKeeps ==
    ASSUME CountInv, Owned, Types', PlacesOK', wild = "no", wild' = "no", Prepare
    PROVE  Owned'
<1>1. pc \in [Threads -> Labels] /\ pc["drain"] = "idle"
  BY DEF PlacesOK, Owned, CountInv
<1>2. PICK b \in Buffers : b = current
  BY PrepareEffect DEF CountInv
<1>3. /\ UNCHANGED <<output, mme, partial, current, direct>> /\ pc["decode"] = "prepare"
      /\ pc' = [pc EXCEPT !["decode"] = "use"]
      /\ state'[b].out = state[b].out /\ state'[b].busy = state[b].busy
      /\ state'[b].pinned = (IF picture.reference THEN state[b].pinned + 1 ELSE state[b].pinned)
      /\ refs'[b] = (IF picture.reference THEN refs[b] + 1 ELSE refs[b])
      /\ \A c \in Buffers \ {b} : state'[c] = state[c] /\ refs'[c] = refs[c]
      /\ work'.number = work.number /\ work'.buffer = b
  BY <1>2, PrepareEffect DEF CountInv, counts, codec, past
<1>4. \A c \in Buffers : \A n : (Waits(c, n)' => Waits(c, n)) /\ (Reads(c, n)' => Reads(c, n))
  BY <1>1, <1>3 DEF Waits, Reads, Threads
<1>5. \A c \in Buffers : /\ Filling(c)' => Filling(c)
                         /\ Counting(c)' => Filling(c)
                         /\ ~Outputting(c)'
                         /\ \A r \in Threads : Discarded(r, c)' => Discarded(r, c)
  BY <1>1, <1>2, <1>3 DEF Filling, Counting, Outputting, Discarded, Released, Threads
<1>6. \A c \in Buffers \ {b} : StateOK(c)' /\ WaitsCounted(c)' /\ OwnersCounted(c)'
  BY <1>3, <1>4, <1>5, BufferKept DEF CountInv, Owned
<1>7. StateOK(b)' /\ WaitsCounted(b)' /\ OwnersCounted(b)'
  <2>1. StateOK(b)'
    BY <1>3, <1>5, OwnerFacts DEF StateOK, CountInv, Owned
  <2>2. /\ Cardinality(Waiting(b)') \in Nat /\ Cardinality(Reading(b)') \in Nat
        /\ Cardinality(Waiting(b)') <= Cardinality(Waiting(b))
        /\ Cardinality(Reading(b)') <= Cardinality(Reading(b))
    BY <1>3, <1>4, WaitingKept, ReadingKept DEF CountInv
  <2>3. WaitsCounted(b)'
    BY <1>3, <2>2, OwnerFacts DEF WaitsCounted, CountInv, Owned
  <2>4. Obtained(b)' => Obtained(b)
    BY <1>3, <1>5 DEF Obtained
  <2>5. OwnersCounted(b)'
    BY <1>3, <2>2, <2>4, OwnerFacts, OwnersEnough DEF CountInv, Owned
  <2> QED
    BY <2>1, <2>3, <2>5
<1>8. BuffersOK'
  BY <1>6, <1>7 DEF BuffersOK
<1>9. IndexOK' /\ pc'["drain"] = "idle"
  BY <1>1, <1>2, <1>3 DEF IndexOK, Threads, Releases
<1> QED
  BY <1>8, <1>9 DEF Owned

\* The buffer that a decode reads gets an owner.
LEMMA UseReferenceKeeps ==
    ASSUME CountInv, Owned, Types', PlacesOK', wild = "no", wild' = "no", UseReference
    PROVE  Owned'
<1>1. pc \in [Threads -> Labels] /\ pc["drain"] = "idle"
  BY DEF PlacesOK, Owned, CountInv
<1>2. PICK x, use : x = work.number /\ use = work.use
  OBVIOUS
<1>3. /\ UNCHANGED <<state, output, mme, partial, work, current, direct>> /\ pc["decode"] = "use"
      /\ \A c \in Buffers : refs'[c] = (IF c = use THEN refs[c] + 1 ELSE refs[c])
  BY <1>2, UseEffect DEF CountInv, counts, codec
<1>4. \E l \in {"count", "context", "references"} : pc' = [pc EXCEPT !["decode"] = l]
  BY UseEffect DEF CountInv
<1>5. \A c \in Buffers : \A n : /\ Waits(c, n)' => Waits(c, n)
                                /\ Reads(c, n)' => Reads(c, n) \/ (n = x /\ c = use)
  BY <1>1, <1>2, <1>3, <1>4 DEF Waits, Reads, Threads
<1>6. \A c \in Buffers : /\ Filling(c)' => Filling(c)
                         /\ Counting(c)' => Counting(c)
                         /\ ~Outputting(c)'
                         /\ \A r \in Threads : Discarded(r, c)' => Discarded(r, c)
  BY <1>1, <1>3, <1>4 DEF Filling, Counting, Outputting, Discarded, Released, Threads
<1>7. \A c \in Buffers : c # use => StateOK(c)' /\ WaitsCounted(c)' /\ OwnersCounted(c)'
  BY <1>3, <1>5, <1>6, BufferKept DEF CountInv, Owned
<1>8. \A c \in Buffers : c = use => StateOK(c)' /\ WaitsCounted(c)' /\ OwnersCounted(c)'
  <2> SUFFICES ASSUME NEW c \in Buffers, c = use
               PROVE  StateOK(c)' /\ WaitsCounted(c)' /\ OwnersCounted(c)'
    OBVIOUS
  <2>1. StateOK(c)'
    BY <1>3, <1>6, OwnerFacts DEF StateOK, CountInv, Owned
  <2>2. \A n : Reads(c, n)' => Reads(c, n) \/ n = x
    BY <1>5
  <2>3. /\ Cardinality(Waiting(c)') \in Nat /\ Cardinality(Reading(c)') \in Nat
        /\ Cardinality(Waiting(c)') <= Cardinality(Waiting(c))
        /\ Cardinality(Reading(c)') <= Cardinality(Reading(c)) + 1
    BY <1>3, <1>5, <2>2, WaitingKept, ReadingMore DEF CountInv
  <2>4. WaitsCounted(c)'
    BY <1>3, <2>3, OwnerFacts DEF WaitsCounted, CountInv, Owned
  <2>5. Obtained(c)' => Obtained(c)
    BY <1>3, <1>6 DEF Obtained
  <2>6. refs'[c] = refs[c] + 1 /\ state'[c] = state[c]
    BY <1>3
  <2>7. OwnersCounted(c)'
    BY <2>3, <2>5, <2>6, OwnerFacts, OwnersEnough DEF CountInv, Owned
  <2> QED
    BY <2>1, <2>4, <2>7
<1>9. BuffersOK'
  BY <1>7, <1>8 DEF BuffersOK
<1>10. IndexOK' /\ pc'["drain"] = "idle"
  <2>1. pc'["decode"] \in {"count", "context", "references"}
    BY <1>1, <1>4 DEF Threads
  <2> QED
    BY <1>1, <1>3, <1>4, <2>1 DEF IndexOK, Threads, Releases, Owned
<1> QED
  BY <1>9, <1>10 DEF Owned

\* The buffer that the decode is counted for is the one prepared for it.
LEMMA CountDecodeKeeps ==
    ASSUME CountInv, Owned, Types', PlacesOK', wild = "no", wild' = "no", CountDecode
    PROVE  Owned'
<1>1. pc \in [Threads -> Labels] /\ pc["drain"] = "idle"
  BY DEF PlacesOK, Owned, CountInv
<1>2. PICK b \in Buffers : b = current
  BY CountEffect DEF CountInv
<1>3. PICK x : x = work.number
  OBVIOUS
<1>4. /\ UNCHANGED <<refs, output, mme, partial, current, direct>> /\ pc["decode"] = "count"
      /\ pc' = [pc EXCEPT !["decode"] = "send"]
      /\ state'[b].out = work'.last /\ state'[b].busy = state[b].busy + 1
      /\ state'[b].pinned = state[b].pinned
      /\ \A c \in Buffers \ {b} : state'[c] = state[c]
      /\ work'.number = x /\ work'.buffer = work.buffer /\ work'.use = work.use
  BY <1>2, <1>3, CountEffect DEF CountInv, counts, codec, past
<1>5. work.buffer = b
  BY <1>2, <1>4, BuffersAssumption DEF IndexOK, Owned
<1>6. \A c \in Buffers : \A n : /\ Waits(c, n)' => Waits(c, n) \/ (n = x /\ c = b)
                                /\ Reads(c, n)' => Reads(c, n)
  BY <1>1, <1>3, <1>4, <1>5 DEF Waits, Reads, Threads
<1>7. \A c \in Buffers : /\ Filling(c)' => c = b /\ ~work'.last
                         /\ ~Counting(c)' /\ ~Outputting(c)'
                         /\ \A r \in Threads : Discarded(r, c)' => Discarded(r, c)
  BY <1>1, <1>2, <1>4 DEF Filling, Counting, Outputting, Discarded, Released, Threads
<1>8. \A c \in Buffers \ {b} : StateOK(c)' /\ WaitsCounted(c)' /\ OwnersCounted(c)'
  BY <1>4, <1>6, <1>7, BufferKept DEF CountInv, Owned
<1>9. /\ Obtained(b) /\ output[b] = 0 /\ \A r \in Threads : ~Discarded(r, b)
  <2>1. Counting(b)
    BY <1>4, <1>5 DEF Counting
  <2> QED
    BY <2>1, OwnerFacts DEF Obtained, StateOK, CountInv, Owned
<1>10. StateOK(b)'
  BY <1>4, <1>7, <1>9, ObtainedOwned DEF StateOK, CountInv, Owned
<1>11. WaitsCounted(b)'
  <2>1. /\ Cardinality(Waiting(b)') \in Nat
        /\ Cardinality(Waiting(b)') <= Cardinality(Waiting(b)) + 1
    BY <1>4, <1>6, WaitingMore DEF CountInv
  <2> QED
    BY <1>4, <2>1, OwnerFacts DEF WaitsCounted, CountInv, Owned
<1>12. OwnersCounted(b)'
  <2>1. /\ Cardinality(Reading(b)') \in Nat
        /\ Cardinality(Reading(b)') <= Cardinality(Reading(b))
    BY <1>4, <1>6, ReadingKept DEF CountInv
  <2> QED
    BY <1>4, <1>9, <2>1, OwnerFacts, OwnersEnough DEF CountInv, Owned
<1>13. BuffersOK'
  BY <1>8, <1>10, <1>11, <1>12 DEF BuffersOK
<1>14. IndexOK' /\ pc'["drain"] = "idle"
  BY <1>1, <1>2, <1>4, <1>5 DEF IndexOK, Threads, Releases
<1> QED
  BY <1>13, <1>14 DEF Owned

-----------------------------------------------------------------------------
(* The invariant, and what follows from it. *)

\* No reference and no decode is counted down that is not there.
LEMMA NeverBelow ==
    ASSUME CountInv, Owned, Next
    PROVE  wild' # "count"
<1>1. wild = "no"
  BY DEF Next
<1>2. \A t \in Threads : Release(t) => state[Released(t).buffer].busy # 0
  <2> SUFFICES ASSUME NEW t \in Threads, Release(t)
               PROVE  state[Released(t).buffer].busy # 0
    OBVIOUS
  <2>1. /\ Released(t).buffer \in Buffers
        /\ Released(t).number \in Waiting(Released(t).buffer)
    BY ReleasedWaits DEF Release
  <2>2. PICK b \in Buffers : b = Released(t).buffer
    BY <2>1
  <2>3. Cardinality(Waiting(b)) > 0
    BY <2>1, <2>2, OwnerCounts DEF CountInv
  <2> QED
    BY <2>2, <2>3, OwnerFacts DEF CountInv, Owned
<1>3. \A t \in Threads : Discard(t) => refs[Released(t).buffer] # 0
  <2> SUFFICES ASSUME NEW t \in Threads, Discard(t)
               PROVE  refs[Released(t).buffer] # 0
    OBVIOUS
  <2>1. pc[t] = "discard"
    BY DEF Discard
  <2>2. PICK b \in Buffers : b = Released(t).buffer
    BY <2>1, ReleasedType DEF CountInv, Releases
  <2>3. Obtained(b)
    BY <2>1, <2>2 DEF Obtained, Discarded
  <2> QED
    BY <2>2, <2>3, OwnerFacts DEF CountInv, Owned
<1>4. \A t \in Threads : References(t) => refs[Released(t).use] # 0
  <2> SUFFICES ASSUME NEW t \in Threads, References(t)
               PROVE  refs[Released(t).use] # 0
    OBVIOUS
  <2>1. /\ Released(t).use \in Buffers
        /\ Released(t).number \in Reading(Released(t).use)
    BY ReferencesRead DEF References
  <2>2. PICK b \in Buffers : b = Released(t).use
    BY <2>1
  <2>3. Cardinality(Reading(b)) > 0
    BY <2>1, <2>2, OwnerCounts DEF CountInv
  <2> QED
    BY <2>2, <2>3, OwnerFacts DEF CountInv, Owned
<1>5. \A b \in Buffers : /\ ReleaseReferenceFrame(b) => refs[b] # 0
                         /\ ReleaseDecodeBuffer(b) => refs[b] # 0
  <2> SUFFICES ASSUME NEW b \in Buffers
               PROVE  /\ ReleaseReferenceFrame(b) => refs[b] # 0
                      /\ ReleaseDecodeBuffer(b) => refs[b] # 0
    OBVIOUS
  <2>1. ReleaseReferenceFrame(b) => state[b].pinned > 0
    BY DEF ReleaseReferenceFrame
  <2>2. ReleaseDecodeBuffer(b) => Obtained(b)
    BY DEF ReleaseDecodeBuffer, Obtained
  <2> QED
    BY <2>1, <2>2, OwnerFacts DEF CountInv, Owned
<1>6. \A t \in Threads : (Release(t) => wild' # "count") /\ (Discard(t) => wild' # "count")
                         /\ (References(t) => wild' # "count")
  BY <1>1, <1>2, <1>3, <1>4 DEF Release, Discard, References, Undefined, past
<1>7. \A b \in Buffers : /\ ReleaseReferenceFrame(b) => wild' # "count"
                         /\ ReleaseDecodeBuffer(b) => wild' # "count"
                         /\ GetDecodeBuffer(b) => wild' # "count"
  BY <1>1, <1>5 DEF ReleaseReferenceFrame, ReleaseDecodeBuffer, GetDecodeBuffer, Undefined, past
<1>8. GetFails \/ InitializeBuffer \/ Prepare \/ UseReference \/ CountDecode
      \/ SendMMEDecodeCommand => wild' # "count"
  BY Zenon, <1>1 DEF GetFails, InitializeBuffer, Initialized, Prepare, UseReference, CountDecode,
     SendMMEDecodeCommand, Undefined, past
<1>9. KeepDecodeBuffer \/ KeepFails \/ Finish \/ Failed \/ InputMarker \/ MarkerFails \/ HoldMarker
      \/ InputPicture \/ OutputInSequence \/ Completed \/ DiscardQueuedDecodes => wild' # "count"
  BY <1>1 DEF KeepDecodeBuffer, KeepFails, Finish, Failed, InputMarker, MarkerFails, HoldMarker,
     InputPicture, OutputInSequence, Completed, DiscardQueuedDecodes, past
<1>10. \A t \in Threads : Look(t) \/ Argument(t) \/ SetOutput(t) \/ Forget(t) \/ Compare(t)
         \/ ForgetIndex(t) \/ Context(t) \/ ForgetContext(t) \/ Test(t)
         \/ TakeMarkerBuffer(t) => wild' # "count"
  BY Zenon, <1>1 DEF Look, Argument, SetOutput, Undefined, Forget, Compare, ForgetIndex, Context, ForgetContext, Test,
     TakeMarkerBuffer, past
<1> QED
  BY <1>6, <1>7, <1>8, <1>9, <1>10, NextCases

LEMMA InitOwned == Init => Owned /\ FreshOK
<1> SUFFICES ASSUME Init PROVE Owned /\ FreshOK
  OBVIOUS
<1>1. Types /\ pc["decode"] = "idle" /\ pc["mme"] = "idle" /\ pc["drain"] = "idle"
  BY InitType DEF Init, Threads
<1>2. IndexOK
  BY <1>1 DEF IndexOK, Releases
<1>3. BuffersOK
  <2> SUFFICES ASSUME NEW b \in Buffers
               PROVE  StateOK(b) /\ WaitsCounted(b) /\ OwnersCounted(b)
    BY DEF BuffersOK
  <2>1. state[b] = Fresh /\ refs[b] = 0 /\ output[b] = 0 /\ mme = <<>> /\ current \notin Buffers
    BY BuffersAssumption DEF Init
  <2>2. ~Filling(b) /\ ~Counting(b) /\ ~Outputting(b) /\ \A t \in Threads : ~Discarded(t, b)
    BY <1>1, <2>1 DEF Filling, Counting, Outputting, Discarded, Threads
  <2>3. ~Obtained(b)
    BY <2>1, <2>2, FreshType DEF Obtained
  <2>4. StateOK(b)
    BY <2>1, <2>2, FreshType DEF StateOK
  <2>5. Waiting(b) = {} /\ Reading(b) = {}
    BY <1>1, <2>1 DEF Waiting, Reading, Waits, Reads
  <2>6. Cardinality(Waiting(b)) = 0 /\ Cardinality(Reading(b)) = 0
    BY <2>5, FS_EmptySet
  <2> QED
    BY <2>1, <2>3, <2>4, <2>6, FreshType DEF WaitsCounted, OwnersCounted, One
<1>4. FreshOK
  BY <1>1 DEF FreshOK
<1> QED
  BY <1>1, <1>2, <1>3, <1>4 DEF Owned

LEMMA UnchangedOwned ==
    ASSUME Types, Owned, UNCHANGED <<buffers, counts, codec, marks, threads>>, direct' = direct
    PROVE  Owned'
<1>1. UNCHANGED <<state, refs, output, mme, current, pc, partial, work>>
  BY DEF buffers, counts, codec, threads
<1>2. \A b \in Buffers : /\ Filling(b)' => Filling(b)
                         /\ Counting(b)' => Counting(b)
                         /\ Outputting(b)' => Outputting(b) \/ Filling(b)
                         /\ \A t \in Threads : Discarded(t, b)' => Discarded(t, b)
  BY <1>1 DEF Filling, Counting, Outputting, Discarded, Released
<1>3. \A b \in Buffers : \A n : (Waits(b, n)' => Waits(b, n)) /\ (Reads(b, n)' => Reads(b, n))
  BY <1>1 DEF Waits, Reads
<1>4. BuffersOK'
  BY <1>1, <1>2, <1>3, BuffersKept DEF Owned
<1> QED
  BY <1>1, <1>4 DEF Owned, IndexOK

LEMMA NextOwned ==
    ASSUME CountInv, CountInv', Owned, FreshOK, Next, direct' => drains' = 0
    PROVE  Owned'
<1>1. CASE wild' # "no"
  BY <1>1, WildStep, UndefinedEffect, UnchangedOwned DEF CountInv
<1>2. CASE wild' = "no"
  <2>1. Types' /\ PlacesOK'
    BY DEF CountInv
  <2> QED
    BY <1>2, <2>1, NextCases, GetFailsKeeps, InitializeBufferKeeps, KeepDecodeBufferKeeps,
       KeepFailsKeeps, PrepareKeeps, UseReferenceKeeps, MarkerFailsKeeps, HoldMarkerKeeps,
       ArgumentKeeps, CountDecodeKeeps, SendMMEDecodeCommandKeeps, FinishKeeps, FailedKeeps, InputMarkerKeeps,
       InputPictureKeeps, OutputInSequenceKeeps, CompletedKeeps, DiscardQueuedDecodesKeeps,
       GetDecodeBufferKeeps, ReleaseReferenceFrameKeeps, ReleaseDecodeBufferKeeps, LookKeeps,
       SetOutputKeeps, ForgetKeeps, ReleaseKeeps, DiscardKeeps, CompareKeeps, ForgetIndexKeeps,
       ReferencesKeeps, ContextKeeps, ForgetContextKeeps, TestKeeps, TakeMarkerBufferKeeps
<1> QED
  BY <1>1, <1>2

\* Nobody decodes into a buffer from the pool, and nobody will until it is
\* initialized.
LEMMA NextFresh ==
    ASSUME CountInv, Owned, FreshOK, Next
    PROVE  FreshOK'
<1>1. CASE wild' # "no"
  <2>1. UNCHANGED <<state, current, pc>>
    BY <1>1, WildStep, UndefinedEffect DEF buffers, codec, threads
  <2> QED
    BY <2>1 DEF FreshOK
<1>2. CASE wild' = "no"
  <2> SUFFICES ASSUME NEW b \in Buffers, pc'["decode"] = "initialize", current' = b
               PROVE  state'[b].busy = 0
    BY DEF FreshOK
  <2>1. /\ pc \in [Threads -> Labels] /\ "decode" \in Threads /\ b # NoBuffer
        /\ Types /\ PlacesOK /\ BuffersType
    BY BuffersAssumption DEF CountInv, PlacesOK, Types, Threads
  <2> DEFINE Same == pc'["decode"] = pc["decode"] /\ current' \in {current, NoBuffer}
  <2>2. Same => state[b].busy = 0
    BY <2>1 DEF FreshOK
  <2>3. CASE \E c \in Buffers : GetDecodeBuffer(c)
    <3>1. refs[b] = 0 /\ UNCHANGED state
      BY <2>3 DEF GetDecodeBuffer
    <3>2. ~Obtained(b) /\ state[b].busy \in Nat
      BY <3>1, OwnerFacts DEF CountInv, Owned
    <3> QED
      BY <3>1, <3>2 DEF Obtained
  <2>4. CASE \E c \in Buffers : ReleaseReferenceFrame(c)
    <3>1. PICK c \in Buffers : ReleaseReferenceFrame(c)
      BY <2>4
    <3>2. UNCHANGED <<pc, current>>
      BY <1>2, <3>1 DEF ReleaseReferenceFrame, Undefined, codec, threads
    <3>3. state'[b].busy \in {0, state[b].busy}
      BY <1>2, <2>1, <3>1, ReferenceEffect, FreshType
    <3> QED
      BY <2>2, <3>2, <3>3
  <2>5. CASE \E c \in Buffers : ReleaseDecodeBuffer(c)
    <3>1. PICK c \in Buffers : ReleaseDecodeBuffer(c)
      BY <2>5
    <3>2. UNCHANGED <<pc, current>> /\ Drop(c) /\ refs[c] # 0
      BY <1>2, <3>1 DEF ReleaseDecodeBuffer, Undefined, codec, threads
    <3>3. state'[b].busy \in {0, state[b].busy}
      BY <2>1, <3>2, DropEffect, FreshType
    <3> QED
      BY <2>2, <3>2, <3>3
  <2>6. ~InitializeBuffer /\ ~Prepare /\ ~UseReference /\ ~CountDecode
    BY <1>2, <2>1, InitializeEffect, PrepareEffect, UseEffect, CountEffect
  <2>7. /\ ~GetFails /\ ~KeepDecodeBuffer /\ ~KeepFails /\ ~MarkerFails /\ ~HoldMarker
        /\ ~SendMMEDecodeCommand /\ ~Finish /\ ~Failed /\ ~InputMarker /\ ~InputPicture
        /\ ~OutputInSequence
    BY <1>2, <2>1 DEF GetFails, KeepDecodeBuffer, KeepFails, MarkerFails, HoldMarker,
       SendMMEDecodeCommand, Finish, Failed, InputMarker, InputPicture, OutputInSequence,
       Undefined, Goto
  <2>8. Completed \/ DiscardQueuedDecodes => Same /\ UNCHANGED state
    BY <2>1 DEF Completed, DiscardQueuedDecodes, Drainer, Goto, buffers, codec, Threads
  <2>9. ASSUME NEW t \in Threads,
               \/ Look(t) \/ Argument(t) \/ SetOutput(t) \/ Forget(t)
               \/ Release(t) \/ Discard(t) \/ Compare(t) \/ ForgetIndex(t)
               \/ References(t) \/ Context(t) \/ ForgetContext(t)
               \/ Test(t) \/ TakeMarkerBuffer(t)
        PROVE  state'[b].busy = 0
    <3>1. /\ ~Look(t) /\ ~Argument(t) /\ ~Forget(t) /\ ~SetOutput(t)
      <4>1. Look(t) \/ Argument(t) \/ Forget(t) \/ SetOutput(t) => t = "decode"
        BY <2>1 DEF Look, Argument, Forget, SetOutput, PlacesOK, Owned, Threads, Releases, Tests
      <4>2. Look(t) \/ Argument(t) \/ Forget(t) =>
               \E l \in {"idle", "obtain", "argument", "output"} : pc' = [pc EXCEPT ![t] = l]
        BY Zenon, <1>2 DEF Look, Argument, Forget, Return, Undefined, Goto
      <4>3. SetOutput(t) => pc' = [pc EXCEPT ![t] = "forget"]
        BY Zenon, <1>2 DEF SetOutput, Undefined, Goto
      <4> QED
        BY <2>1, <4>1, <4>2, <4>3
    <3>2. CASE Compare(t) \/ ForgetIndex(t) \/ Context(t) \/ ForgetContext(t) \/ Test(t)
               \/ TakeMarkerBuffer(t)
      <4>1. UNCHANGED state /\ current' \in {current, NoBuffer}
        BY <3>2 DEF Compare, ForgetIndex, Context, ForgetContext, Test, TakeMarkerBuffer, buffers,
           codec
      <4>2. \E l \in {"forgetIndex", "context", "references", "forgetContext", "released",
                      "take", "idle"} : pc' = [pc EXCEPT ![t] = l]
        BY Zenon, <3>2 DEF Compare, CompareIndex, AfterIndex, ForgetIndex, Context, ForgetContext,
           Test, TakeMarkerBuffer, Goto
      <4> QED
        BY <2>1, <2>2, <4>1, <4>2
    <3>3. CASE Release(t)
      <4>1. /\ UNCHANGED current
            /\ IF t = "mme" THEN pc[t] = "idle" /\ mme # <<>> ELSE pc[t] = "release"
        BY <1>2, <3>3 DEF Release, Undefined, codec
      <4>2. PICK c \in Buffers : c = Released(t).buffer
        BY <4>1, ReleasedWaits
      <4>3. /\ state[c].busy # 0 /\ \A d \in Buffers \ {c} : state'[d] = state[d]
        BY <1>2, <2>1, <3>3, <4>2, ReleaseEffect
      <4>4. \E l \in {"discard", "forgetIndex", "references", "context"} :
               pc' = [pc EXCEPT ![t] = l]
        BY <1>2, <3>3, ReleaseMoves DEF AfterIndex
      <4> QED
        BY <2>1, <2>2, <4>1, <4>3, <4>4
    <3>4. CASE Discard(t) \/ References(t)
      <4>1. /\ UNCHANGED current /\ \E l \in {"compare", "context"} : pc' = [pc EXCEPT ![t] = l]
            /\ \E c : refs[c] # 0 /\ Drop(c)
        BY <1>2, <3>4 DEF Discard, References, Undefined, Goto, codec
      <4>2. state'[b].busy \in {0, state[b].busy}
        BY <2>1, <4>1, FreshType DEF Drop, BuffersType
      <4> QED
        BY <2>1, <2>2, <4>1, <4>2
    <3> QED
      BY <2>9, <3>1, <3>2, <3>3, <3>4
  <2> QED
    BY <2>2, <2>3, <2>4, <2>5, <2>6, <2>7, <2>8, <2>9, NextCases
<1> QED
  BY <1>1, <1>2

\* A drain is counted once and for all, for the kind of codec there is.
LEMMA DrainsGrow ==
    ASSUME Types, Next, direct' => drains' = 0
    PROVE  direct => drains = 0
<1>1. drains \in Nat
  BY BoundsAssumption DEF Types, PastType
<1>2. direct' = direct /\ drains' \in {drains, drains + 1}
  <2>1. CASE wild' # "no"
    BY <2>1, WildStep, UndefinedEffect
  <2>2. CASE wild' = "no"
    <3>1. \A b \in Buffers : GetDecodeBuffer(b) \/ ReleaseReferenceFrame(b)
             \/ ReleaseDecodeBuffer(b) => UNCHANGED <<direct, drains>>
      BY <2>2 DEF GetDecodeBuffer, ReleaseReferenceFrame, ReleaseDecodeBuffer, Undefined, past
    <3>2. \A t \in Threads : Look(t) \/ Argument(t) \/ SetOutput(t) \/ Forget(t) \/ Compare(t)
             \/ ForgetIndex(t) \/ Context(t) \/ ForgetContext(t) \/ Test(t) \/ TakeMarkerBuffer(t)
             \/ Release(t) \/ Discard(t) \/ References(t) => UNCHANGED <<direct, drains>>
      BY Zenon, <2>2 DEF Look, Argument, SetOutput, Forget, Compare, ForgetIndex, Context,
         ForgetContext, Test, TakeMarkerBuffer, Release, Discard, References, Undefined, past
    <3>3. GetFails \/ InitializeBuffer \/ KeepDecodeBuffer \/ KeepFails \/ Prepare \/ UseReference
          \/ CountDecode \/ SendMMEDecodeCommand \/ Finish \/ Failed \/ InputMarker \/ MarkerFails
          \/ HoldMarker \/ InputPicture \/ OutputInSequence \/ Completed =>
             UNCHANGED <<direct, drains>>
      BY Zenon, <2>2 DEF GetFails, InitializeBuffer, Initialized, KeepDecodeBuffer, KeepFails,
         Prepare, UseReference, CountDecode, SendMMEDecodeCommand, Finish, Failed, InputMarker,
         MarkerFails, HoldMarker, InputPicture, OutputInSequence, Completed, Undefined, past
    <3>4. DiscardQueuedDecodes => direct' = direct /\ drains' = drains + 1
      BY DEF DiscardQueuedDecodes
    <3> QED
      BY <3>1, <3>2, <3>3, <3>4, NextCases
  <2> QED
    BY <2>1, <2>2
<1> QED
  BY <1>1, <1>2

LEMMA OwnersCorrect == Spec => [](CountInv /\ OwnInv)
<1>1. Init => CountInv /\ OwnInv
  BY InitCounts, InitOwned DEF OwnInv, Init
<1>2. CountInv /\ OwnInv /\ [Next]_vars => (CountInv /\ OwnInv)'
  <2>1. CASE Next
    <3> SUFFICES ASSUME CountInv, OwnInv, Next PROVE CountInv' /\ OwnInv'
      BY <2>1
    <3>1. CountInv'
      BY NextCounts
    <3> SUFFICES ASSUME direct' => drains' = 0 PROVE (wild # "count" /\ Owned /\ FreshOK)'
      BY <3>1 DEF OwnInv
    <3>2. Owned /\ FreshOK
      BY DrainsGrow DEF OwnInv, CountInv
    <3> QED
      BY <3>1, <3>2, NextOwned, NextFresh, NeverBelow
  <2>2. CASE UNCHANGED vars
    <3> SUFFICES ASSUME CountInv, OwnInv, UNCHANGED vars PROVE CountInv' /\ OwnInv'
      BY <2>2
    <3>1. CountInv'
      BY StutterCounts
    <3>2. UNCHANGED <<direct, drains, wild>> /\ UNCHANGED <<buffers, counts, codec, marks, threads>>
      BY DEF vars, past
    <3>3. FreshOK => FreshOK'
      BY <3>2 DEF FreshOK, buffers, codec, threads
    <3> QED
      BY <3>1, <3>2, <3>3, UnchangedOwned DEF OwnInv, CountInv
  <2> QED
    BY <2>1, <2>2
<1> QED
  BY <1>1, <1>2, PTL DEF Spec

\* No decode into a buffer that was passed on is under way or about to start,
\* and it is passed on once, as long as the draining thread does not output the
\* buffer that the decoder fills: whoever finds the last decode ended, the
\* callback or the decoder, passes it on.  Whether it was decoded is another
\* question: after a failure the buffer of a first picture is passed on
\* undecoded (player_process_parse_to_decode.cpp:240-243).
THEOREM OutputDecoded == Spec => []DecodedBeforeOutput
<1>1. CountInv /\ OwnInv => DecodedBeforeOutput
  <2> SUFFICES ASSUME CountInv, OwnInv, direct => drains = 0, NEW b \in Buffers, output[b] > 0
               PROVE  output[b] = 1 /\ ~Undecoded(b)
    BY DEF DecodedBeforeOutput
  <2>1. StateOK(b) /\ state[b].busy \in Nat
    BY OwnerFacts DEF OwnInv, Owned, CountInv
  <2>2. output[b] = 1 /\ state[b].busy = 0 /\ ~Filling(b)
    BY <2>1 DEF StateOK
  <2>3. ~(pc["decode"] \in {"initialize", "prepare", "use", "count"} /\ current = b)
    BY <2>2 DEF Filling
  <2> QED
    BY <2>2, <2>3 DEF Undecoded
<1> QED
  BY <1>1, OwnersCorrect, PTL

\* A buffer that is decoded into or that a decode reads has an owner, so that it
\* is not in the pool, and no owner's reference is dropped by another.
THEOREM BuffersInUse == Spec => []InUseNotFree
<1>1. CountInv /\ OwnInv => InUseNotFree
  <2> SUFFICES ASSUME CountInv, OwnInv, direct => drains = 0
               PROVE  wild # "count" /\ \A b \in (Filled \cup Read) \ {NoBuffer} : refs[b] > 0
    BY DEF InUseNotFree
  <2>1. Owned /\ Types /\ PlacesOK
    BY DEF OwnInv, CountInv
  <2>2. \A b \in Buffers : \A n \in 0..MaxPictures[direct] : Waits(b, n) \/ Reads(b, n) => refs[b] > 0
    <3> SUFFICES ASSUME NEW b \in Buffers, NEW n \in 0..MaxPictures[direct],
                        Waits(b, n) \/ Reads(b, n)
                 PROVE  refs[b] > 0
      OBVIOUS
    <3>1. Cardinality(Waiting(b)) > 0 \/ Cardinality(Reading(b)) > 0
      BY <2>1, OwnerCounts DEF Waiting, Reading
    <3>2. Cardinality(Waiting(b)) > 0 => Obtained(b)
      BY <2>1, OwnerFacts DEF Obtained, Owned
    <3> QED
      BY <2>1, <3>1, <3>2, OwnerFacts DEF Owned
  <2>3. \A b \in Buffers : Counting(b) => refs[b] > 0
    <3> SUFFICES ASSUME NEW b \in Buffers, Counting(b) PROVE refs[b] > 0
      OBVIOUS
    <3>1. Obtained(b)
      BY DEF Obtained
    <3> QED
      BY <2>1, <3>1, OwnerFacts DEF Owned
  <2>4. \A c \in Contexts : /\ c.number \in 0..MaxPictures[direct]
                            /\ c.buffer \in Buffers \cup {NoBuffer}
                            /\ c.use \in Buffers \cup {NoBuffer}
    BY DEF Contexts
  <2>5. /\ work \in Contexts /\ \A i \in DOMAIN mme : mme[i] \in Contexts
        /\ mme # <<>> => 1 \in DOMAIN mme /\ Head(mme) = mme[1]
    BY <2>1 DEF Types, InputType, CommandsType
  <2>6. \A c \in Sent \ Releasing : \E i \in DOMAIN mme :
           c = mme[i] /\ (i = 1 => pc["mme"] \in {"idle", "test", "take"})
    <3> SUFFICES ASSUME NEW c \in Sent \ Releasing
                 PROVE  \E i \in DOMAIN mme :
                           c = mme[i] /\ (i = 1 => pc["mme"] \in {"idle", "test", "take"})
      OBVIOUS
    <3>1. PICK i \in DOMAIN mme : c = mme[i]
      BY DEF Sent
    <3>2. i = 1 /\ pc["mme"] \notin {"idle", "test", "take"} => c \in Releasing
      BY <2>5, <3>1 DEF Releasing
    <3> QED
      BY <3>1, <3>2
  <2>7. \A c \in Sent \ Releasing : c \in Contexts /\ Waits(c.buffer, c.number) /\ Reads(c.use, c.number)
    BY <2>5, <2>6 DEF Waits, Reads
  <2>8. \A c \in Releasing : pc["mme"] \notin {"context", "forgetContext", "released"} =>
           c \in Contexts /\ Reads(c.use, c.number)
    <3>1. pc["mme"] \notin {"idle", "test", "take"} => mme # <<>>
      BY <2>1 DEF PlacesOK, Tests
    <3> QED
      BY <2>5, <3>1 DEF Releasing, Reads
  <2>9. /\ pc["decode"] \in {"send", "release"} => Waits(work.buffer, work.number)
        /\ pc["decode"] \in {"use", "count"} => Counting(work.buffer)
        /\ pc["decode"] \in {"count", "send", "release", "discard", "compare", "forgetIndex",
                             "references"} => Reads(work.use, work.number)
    BY DEF Waits, Reads, Counting
  <2>10. \A b \in Filled \ {NoBuffer} : refs[b] > 0
    BY <2>2, <2>3, <2>4, <2>5, <2>7, <2>9 DEF Filled, Inputting
  <2>11. \A b \in Read \ {NoBuffer} : refs[b] > 0
    BY <2>2, <2>4, <2>5, <2>7, <2>8, <2>9 DEF Read, Inputting
  <2> QED
    BY <2>10, <2>11 DEF OwnInv
<1> QED
  BY <1>1, OwnersCorrect, PTL

=============================================================================
