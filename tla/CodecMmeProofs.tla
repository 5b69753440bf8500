--------------------------- MODULE CodecMmeProofs ---------------------------
(***************************************************************************)
(* Theorems about the player's codec, for any number of buffers, pictures, *)
(* markers, drains and failures.                                           *)
(***************************************************************************)
EXTENDS CodecMme, FiniteSetTheorems, SequenceTheorems, TLAPS

Outputs   == {"look", "argument", "output", "forget"}
Releases  == {"discard", "compare", "forgetIndex", "references", "context",
              "forgetContext", "released"}
Tests     == {"test", "take"}
Inputs    == {"obtain", "initialize", "prepare", "use", "count", "send", "finish", "release",
              "marker"}
Labels    == {"idle"} \cup Outputs \cup Releases \cup Tests \cup Inputs

\* The types of the variables, by what they belong to; how high the counts of a
\* buffer go is in LimitsOK.
BufferStates == [out : BOOLEAN, busy : Nat, fields : SUBSET {1, 2}, pinned : Nat]

BuffersType == /\ state \in [Buffers -> BufferStates]
               /\ refs \in [Buffers -> Nat] /\ output \in [Buffers -> Nat]
IndexType == current \in Buffers \cup {NoBuffer} /\ context \in 0..MaxPictures[direct]
CountsType == /\ prepared \in 0..MaxPictures[direct] /\ discardUntil \in 0..prepared
              /\ completed \in Nat /\ completed + Len(mme) <= prepared
CommandsType == mme \in Seq(Contexts)
MarkersType == marker \in Marks /\ passed \subseteq Marks
LockType == /\ lock \in Threads \cup {"nobody"}
            /\ \A t \in Threads : (lock = t) = (pc[t] = "forgetIndex")
InputType == /\ partial \in [Threads -> Buffers \cup {NoBuffer}]
             /\ work \in Contexts /\ picture \in Pictures \cup {NoPicture}
PastType == /\ direct \in Directs /\ markers \in 0..MaxMarkers
            /\ drains \in 0..MaxDrains /\ failed \in 0..MaxFailures
            /\ wild \in {"no", "index", "context", "count", "buffer", "reference"}

Types == /\ BuffersType /\ IndexType /\ CountsType /\ CommandsType
         /\ MarkersType /\ LockType /\ InputType /\ PastType

\* What each thread can be doing, and what it is doing it with.
PlacesOK ==
    /\ pc \in [Threads -> Labels]
    /\ pc["mme"] \in {"idle"} \cup Releases \cup Tests
    /\ pc["drain"] \in {"idle"} \cup Outputs
    /\ \A t \in Threads : pc[t] \in {"output", "forget"} => partial[t] \in Buffers
    /\ pc["mme"] \in Releases => mme # <<>>
    /\ pc["decode"] \in {"obtain", "initialize", "prepare", "use", "count", "send"} =>
           prepared < MaxPictures[direct]
    /\ pc["decode"] \in Outputs /\ picture # NoPicture => prepared < MaxPictures[direct]
    /\ pc["decode"] \in {"idle", "marker"} \cup Tests => picture = NoPicture
    /\ pc["decode"] = "marker" => markers < MaxMarkers
    /\ pc["decode"] \in {"use", "count", "send", "finish", "release", "discard", "compare",
                        "forgetIndex"} =>
           work.buffer \in Buffers
    /\ \A i \in DOMAIN mme : mme[i].buffer \in Buffers
    /\ \A t \in Threads : pc[t] = "references" => Released(t).use # NoBuffer

\* Every picture that was prepared has been decoded, is with the engine, or
\* could not be sent; numbers are given in that order.
OrderOK ==
    /\ \A i \in DOMAIN mme : mme[i].number <= completed + failed + i /\ mme[i].number <= prepared
    /\ \A i, j \in DOMAIN mme : i < j => mme[i].number < mme[j].number
    /\ prepared <= completed + Len(mme) + failed

WorkOK ==
    /\ pc["decode"] \in {"obtain", "initialize", "prepare", "use", "count", "send"} =>
           work.number = prepared + 1
    /\ pc["decode"] \in Outputs /\ picture # NoPicture => work.number = prepared + 1
    /\ pc["decode"] \in {"release"} \cup Releases =>
           \A i \in DOMAIN mme : mme[i].number < work.number

\* How high the counts of a buffer go.
LimitsOK ==
    \A b \in Buffers :
      /\ state[b].busy <= prepared + (IF pc["decode"] = "send" THEN 1 ELSE 0)
      /\ state[b].pinned <= prepared + failed
                            + (IF pc["decode"] \in {"use", "count", "send"} THEN 1 ELSE 0)

\* Whoever is about to take the first marker found it due.
MarkersOK ==
    /\ marker # NoMarker => marker.number \in 1..markers
    /\ \A t \in Threads : pc[t] = "take" => markers > 0
    /\ \A m \in passed : m.number <= markers
    /\ \A t \in Threads : pc[t] = "take" /\ marker.number = 1 => completed >= marker.at
    /\ MarkerBehindDecodes

\* Whenever a marker is due some thread is about to test for it.
HeldOK ==
    /\ marker.at <= prepared
    /\ marker # NoMarker => completed < marker.at \/ \E t \in Threads : pc[t] \in Tests

CountInv == Types /\ PlacesOK /\ OrderOK /\ WorkOK /\ LimitsOK /\ NewFramesKept /\ MarkersOK /\ HeldOK

-----------------------------------------------------------------------------
(* What the steps make of the buffers' states and counts. *)

LEMMA MaxType ==
    ASSUME PastType
    PROVE  MaxPictures[direct] \in Nat
BY BoundsAssumption DEF PastType

LEMMA FreshType ==
    /\ Fresh \in BufferStates
    /\ Fresh.out = FALSE /\ Fresh.busy = 0 /\ Fresh.pinned = 0
BY DEF Fresh, BufferStates

LEMMA UpdateOut ==
    ASSUME state \in [Buffers -> BufferStates], NEW b \in Buffers, NEW x \in BOOLEAN,
           state' = [state EXCEPT ![b].out = x]
    PROVE  /\ state' \in [Buffers -> BufferStates]
           /\ state'[b].out = x
           /\ state'[b].busy = state[b].busy /\ state'[b].pinned = state[b].pinned
           /\ \A c \in Buffers \ {b} : state'[c] = state[c]
BY DEF BufferStates

LEMMA UpdateBusy ==
    ASSUME state \in [Buffers -> BufferStates], NEW b \in Buffers, NEW x \in Nat,
           state' = [state EXCEPT ![b].busy = x]
    PROVE  /\ state' \in [Buffers -> BufferStates]
           /\ state'[b].busy = x
           /\ state'[b].out = state[b].out /\ state'[b].pinned = state[b].pinned
           /\ \A c \in Buffers \ {b} : state'[c] = state[c]
BY DEF BufferStates

LEMMA UpdatePinned ==
    ASSUME state \in [Buffers -> BufferStates], NEW b \in Buffers, NEW x \in Nat,
           state' = [state EXCEPT ![b].pinned = x]
    PROVE  /\ state' \in [Buffers -> BufferStates]
           /\ state'[b].pinned = x
           /\ state'[b].out = state[b].out /\ state'[b].busy = state[b].busy
           /\ \A c \in Buffers \ {b} : state'[c] = state[c]
BY DEF BufferStates

LEMMA UpdateAll ==
    ASSUME state \in [Buffers -> BufferStates], NEW b \in Buffers, NEW x \in Nat,
           NEW o \in BOOLEAN, NEW f \in SUBSET {1, 2},
           state' = [state EXCEPT ![b].busy = x, ![b].out = o, ![b].fields = f]
    PROVE  /\ state' \in [Buffers -> BufferStates]
           /\ state'[b].busy = x /\ state'[b].out = o /\ state'[b].pinned = state[b].pinned
           /\ \A c \in Buffers \ {b} : state'[c] = state[c]
<1>1. PICK r : /\ r = [[[state[b] EXCEPT !.busy = x] EXCEPT !.out = o] EXCEPT !.fields = f]
               /\ state' = [state EXCEPT ![b] = r]
  BY DEF BufferStates
<1>2. r \in BufferStates /\ r.busy = x /\ r.out = o /\ r.pinned = state[b].pinned
  BY <1>1 DEF BufferStates
<1> QED
  BY <1>1, <1>2

\* A step that ends in undefined behaviour changes nothing else.
LEMMA UndefinedEffect ==
    ASSUME NEW what, Undefined(what)
    PROVE  /\ UNCHANGED <<buffers, counts, codec, marks, threads>>
           /\ UNCHANGED <<direct, markers, drains, failed>> /\ wild' = what
BY DEF Undefined

\* A dropped reference, of a buffer that has one.
LEMMA DropEffect ==
    ASSUME BuffersType, NEW b \in Buffers, refs[b] # 0, Drop(b)
    PROVE  /\ state' \in [Buffers -> BufferStates] /\ refs' \in [Buffers -> Nat]
           /\ refs'[b] = refs[b] - 1
           /\ state'[b] = (IF refs[b] = 1 THEN Fresh ELSE state[b])
           /\ \A c \in Buffers \ {b} : refs'[c] = refs[c] /\ state'[c] = state[c]
BY FreshType DEF Drop, BuffersType

LEMMA OutputEffect ==
    ASSUME BuffersType, PlacesOK, NEW t \in Threads, SetOutput(t), wild' = "no"
    PROVE  LET b == partial[t]
           IN  /\ b \in Buffers /\ BuffersType' /\ UNCHANGED refs
               /\ state'[b].out = TRUE
               /\ state'[b].busy = state[b].busy /\ state'[b].pinned = state[b].pinned
               /\ \A c \in Buffers \ {b} : state'[c] = state[c] /\ output'[c] = output[c]
               /\ output'[b] = (IF state[b].busy = 0 THEN output[b] + 1 ELSE output[b])
<1> DEFINE b == partial[t]
<1>1. b \in Buffers
  BY DEF SetOutput, PlacesOK
<1>2. /\ state' = [state EXCEPT ![b].out = TRUE] /\ UNCHANGED refs
      /\ output' = IF state[b].busy = 0 THEN [output EXCEPT ![b] = @ + 1] ELSE output
  BY Zenon DEF SetOutput, OutputsNow, Undefined
<1>3. /\ output' \in [Buffers -> Nat]
      /\ \A c \in Buffers \ {b} : output'[c] = output[c]
      /\ output'[b] = (IF state[b].busy = 0 THEN output[b] + 1 ELSE output[b])
  BY <1>1, <1>2 DEF BuffersType
<1>4. UNCHANGED refs
  BY <1>2
<1>5. state \in [Buffers -> BufferStates]
  BY DEF BuffersType
<1> HIDE DEF b
<1>6. /\ state' \in [Buffers -> BufferStates]
      /\ state'[b].out = TRUE
      /\ state'[b].busy = state[b].busy /\ state'[b].pinned = state[b].pinned
      /\ \A c \in Buffers \ {b} : state'[c] = state[c]
  BY <1>1, <1>2, <1>5, UpdateOut
<1> QED
  BY <1>1, <1>3, <1>4, <1>6 DEF BuffersType, b

LEMMA ReleaseEffect ==
    ASSUME BuffersType, NEW t \in Threads, Release(t), wild' = "no", Released(t).buffer \in Buffers
    PROVE  LET b == Released(t).buffer
           IN  /\ BuffersType' /\ UNCHANGED refs
               /\ state[b].busy # 0 /\ state'[b].busy = state[b].busy - 1
               /\ state'[b].out = state[b].out /\ state'[b].pinned = state[b].pinned
               /\ \A c \in Buffers \ {b} : state'[c] = state[c] /\ output'[c] = output[c]
               /\ output'[b] = (IF state[b].out /\ state[b].busy = 1 /\ ~Discarding
                                THEN output[b] + 1 ELSE output[b])
<1> DEFINE b == Released(t).buffer
<1>1. /\ state[b].busy # 0 /\ state' = [state EXCEPT ![b].busy = state[b].busy - 1] /\ UNCHANGED refs
      /\ output' = IF state[b].out /\ state[b].busy = 1 /\ ~Discarding
                    THEN [output EXCEPT ![b] = @ + 1] ELSE output
  BY Zenon DEF Release, Undefined
<1>2. /\ output' \in [Buffers -> Nat]
      /\ \A c \in Buffers \ {b} : output'[c] = output[c]
      /\ output'[b] = (IF state[b].out /\ state[b].busy = 1 /\ ~Discarding
                       THEN output[b] + 1 ELSE output[b])
  BY <1>1 DEF BuffersType
<1>3. state \in [Buffers -> BufferStates]
  BY DEF BuffersType
<1> HIDE DEF b
<1>4. state[b].busy \in Nat
  BY <1>3 DEF BufferStates, b
<1>5. state[b].busy - 1 \in Nat
  BY <1>1, <1>4
<1>6. /\ state' \in [Buffers -> BufferStates]
      /\ state'[b].out = state[b].out
      /\ state'[b].busy = state[b].busy - 1 /\ state'[b].pinned = state[b].pinned
      /\ \A c \in Buffers \ {b} : state'[c] = state[c]
  BY <1>1, <1>3, <1>5, UpdateBusy DEF b
<1> QED
  BY <1>1, <1>2, <1>6 DEF BuffersType, b

LEMMA ReadableType ==
    ASSUME IndexType
    PROVE  Readable \subseteq Buffers \cup {NoBuffer}
BY DEF IndexType, Readable

LEMMA InitializeEffect ==
    ASSUME Types, InitializeBuffer, wild' = "no"
    PROVE  /\ pc["decode"] = "initialize" /\ current \in Buffers
           /\ UNCHANGED <<refs, output, counts, codec, marks, lock, partial, work, picture,
                          direct, markers, drains>>
           /\ state' \in [Buffers -> BufferStates] /\ state'[current] = Fresh
           /\ \A c \in Buffers \ {current} : state'[c] = state[c]
           /\ \/ pc' = [pc EXCEPT !["decode"] = "prepare"] /\ UNCHANGED failed
              \/ /\ pc' = [pc EXCEPT !["decode"] = "context"]
                 /\ failed < MaxFailures /\ failed' = failed + 1
<1>1. /\ pc["decode"] = "initialize" /\ current # NoBuffer
      /\ UNCHANGED <<refs, output, counts, codec, marks, lock, partial, work, picture,
                     direct, markers, drains>>
      /\ state' = [state EXCEPT ![current] = Fresh]
      /\ \/ pc' = [pc EXCEPT !["decode"] = "prepare"] /\ UNCHANGED failed
         \/ /\ pc' = [pc EXCEPT !["decode"] = "context"]
            /\ failed < MaxFailures /\ failed' = failed + 1
  BY Zenon DEF InitializeBuffer, Initialized, Undefined, Goto, Fails
<1>2. current \in Buffers
  BY <1>1 DEF Types, IndexType
<1> QED
  BY <1>1, <1>2, FreshType DEF Types, BuffersType

LEMMA PrepareEffect ==
    ASSUME Types, Prepare, wild' = "no"
    PROVE  /\ pc["decode"] = "prepare" /\ current \in Buffers
           /\ UNCHANGED <<output, counts, codec, marks, past, lock, partial, picture>>
           /\ state' \in [Buffers -> BufferStates] /\ refs' \in [Buffers -> Nat]
           /\ state'[current].out = state[current].out
           /\ state'[current].busy = state[current].busy
           /\ state'[current].pinned =
                  (IF picture.reference THEN state[current].pinned + 1 ELSE state[current].pinned)
           /\ refs'[current] =
                  (IF picture.reference THEN refs[current] + 1 ELSE refs[current])
           /\ \A c \in Buffers \ {current} : state'[c] = state[c] /\ refs'[c] = refs[c]
           /\ work' \in Contexts /\ work'.number = work.number /\ work'.buffer = current
           /\ pc' = [pc EXCEPT !["decode"] = "use"]
<1>1. /\ pc["decode"] = "prepare" /\ current \in Buffers /\ current # NoBuffer
      /\ UNCHANGED <<output, counts, codec, marks, past, lock, partial, picture>>
  BY DEF Prepare, Undefined, Types, IndexType
<1>2. PICK use \in Readable :
        /\ work' = [work EXCEPT !.buffer = current, !.use = use]
        /\ IF picture.reference
           THEN /\ refs' = [refs EXCEPT ![current] = @ + 1]
                /\ state' = [state EXCEPT ![current].pinned = state[current].pinned + 1]
           ELSE UNCHANGED <<refs, state>>
        /\ pc' = [pc EXCEPT !["decode"] = "use"]
  BY Zenon, <1>1 DEF Prepare, Undefined, Goto
<1>3. use \in Buffers \cup {NoBuffer}
  BY ReadableType DEF Types
<1>4. /\ work' \in Contexts
      /\ work'.number = work.number /\ work'.buffer = current
  BY <1>1, <1>2, <1>3 DEF Types, InputType, Contexts
<1>5. state \in [Buffers -> BufferStates] /\ refs \in [Buffers -> Nat]
  BY DEF Types, BuffersType
<1> DEFINE x == state[current].pinned + 1
<1>6. x \in Nat
  BY <1>1, <1>5 DEF BufferStates
<1>7. CASE picture.reference
  <2>1. state' = [state EXCEPT ![current].pinned = x] /\ refs' = [refs EXCEPT ![current] = @ + 1]
    BY <1>2, <1>7
  <2>2. refs' \in [Buffers -> Nat] /\ refs'[current] = refs[current] + 1
        /\ \A c \in Buffers \ {current} : refs'[c] = refs[c]
    BY <1>1, <1>5, <2>1
  <2> HIDE DEF x
  <2>3. /\ state' \in [Buffers -> BufferStates]
        /\ state'[current].pinned = x
        /\ state'[current].out = state[current].out /\ state'[current].busy = state[current].busy
        /\ \A c \in Buffers \ {current} : state'[c] = state[c]
    BY <1>1, <1>5, <1>6, <2>1, UpdatePinned
  <2> QED
    BY <1>1, <1>2, <1>4, <1>7, <2>2, <2>3 DEF x
<1>8. CASE ~picture.reference
  BY <1>1, <1>2, <1>4, <1>5, <1>8
<1> QED
  BY <1>7, <1>8

LEMMA UseEffect ==
    ASSUME Types, UseReference, wild' = "no"
    PROVE  /\ pc["decode"] = "use"
           /\ UNCHANGED <<state, output, counts, codec, marks, lock, partial, work, picture,
                          direct, markers, drains>>
           /\ refs' \in [Buffers -> Nat]
           /\ \A b \in Buffers : refs'[b] = (IF b = work.use THEN refs[b] + 1 ELSE refs[b])
           /\ \/ pc' = [pc EXCEPT !["decode"] = "count"] /\ UNCHANGED failed
              \/ /\ pc' = [pc EXCEPT !["decode"] = IF work.use = NoBuffer THEN "context"
                                                   ELSE "references"]
                 /\ failed < MaxFailures /\ failed' = failed + 1
<1>1. /\ pc["decode"] = "use"
      /\ UNCHANGED <<state, output, counts, codec, marks, lock, partial, work, picture,
                     direct, markers, drains>>
      /\ refs' = [b \in Buffers |-> IF b \in Readers THEN refs[b] + 1 ELSE refs[b]]
      /\ \/ pc' = [pc EXCEPT !["decode"] = "count"] /\ UNCHANGED failed
         \/ /\ pc' = [pc EXCEPT !["decode"] = IF work.use = NoBuffer THEN "context"
                                              ELSE "references"]
            /\ failed < MaxFailures /\ failed' = failed + 1
  BY Zenon DEF UseReference, Undefined, Goto, Fails
<1>2. refs \in [Buffers -> Nat]
  BY DEF Types, BuffersType
<1>3. \A b \in Buffers : (b \in Readers) <=> (b = work.use)
  BY BuffersAssumption DEF Readers
<1> QED
  BY <1>1, <1>2, <1>3

LEMMA CountEffect ==
    ASSUME Types, CountDecode, wild' = "no"
    PROVE  /\ pc["decode"] = "count" /\ current \in Buffers
           /\ pc' = [pc EXCEPT !["decode"] = "send"]
           /\ UNCHANGED <<refs, output, counts, codec, marks, past, lock, partial, picture>>
           /\ state' \in [Buffers -> BufferStates]
           /\ state'[current].out = work'.last
           /\ state'[current].busy = state[current].busy + 1
           /\ state'[current].pinned = state[current].pinned
           /\ \A c \in Buffers \ {current} : state'[c] = state[c]
           /\ work' \in Contexts /\ work'.number = work.number
           /\ work'.buffer = work.buffer /\ work'.use = work.use
<1> DEFINE fields == state[current].fields \cup picture.fields
           last == fields = {1, 2}
           x == state[current].busy + 1
<1>1. /\ pc["decode"] = "count" /\ current \in Buffers
      /\ pc' = [pc EXCEPT !["decode"] = "send"]
      /\ UNCHANGED <<refs, output, counts, codec, marks, past, lock, partial, picture>>
  BY DEF CountDecode, Undefined, Types, IndexType, Goto
<1>2. /\ state' = [state EXCEPT ![current].busy = x, ![current].out = last,
                                ![current].fields = fields]
      /\ work' = [work EXCEPT !.counted = TRUE, !.last = last]
  BY Zenon DEF CountDecode, Undefined
<1>3. state \in [Buffers -> BufferStates]
  BY DEF Types, BuffersType
<1>4. x \in Nat /\ state[current].fields \in SUBSET {1, 2}
  BY <1>1, <1>3 DEF BufferStates
<1>5. picture.fields \in SUBSET {1, 2}
  BY PicturesAssumption DEF Types, InputType, NoPicture
<1>6. fields \in SUBSET {1, 2} /\ last \in BOOLEAN
  BY <1>4, <1>5
<1> HIDE DEF fields, last, x
<1>7. /\ state' \in [Buffers -> BufferStates]
      /\ state'[current].busy = x /\ state'[current].out = last
      /\ state'[current].pinned = state[current].pinned
      /\ \A c \in Buffers \ {current} : state'[c] = state[c]
  BY <1>1, <1>2, <1>3, <1>4, <1>6, UpdateAll
<1>8. /\ work' \in Contexts /\ work'.number = work.number /\ work'.last = last
      /\ work'.buffer = work.buffer /\ work'.use = work.use
  BY <1>2, <1>6 DEF Types, InputType, Contexts
<1> QED
  BY <1>1, <1>7, <1>8 DEF x

LEMMA ReferenceEffect ==
    ASSUME BuffersType, NEW b \in Buffers, ReleaseReferenceFrame(b), wild' = "no"
    PROVE  /\ refs[b] # 0 /\ state[b].pinned > 0
           /\ state' \in [Buffers -> BufferStates] /\ refs' \in [Buffers -> Nat]
           /\ refs'[b] = refs[b] - 1
           /\ refs[b] = 1 => state'[b] = Fresh
           /\ refs[b] # 1 => /\ state'[b].out = state[b].out /\ state'[b].busy = state[b].busy
                             /\ state'[b].pinned = state[b].pinned - 1
           /\ \A c \in Buffers \ {b} : refs'[c] = refs[c] /\ state'[c] = state[c]
<1> DEFINE x == state[b].pinned - 1
<1>1. /\ refs[b] # 0 /\ state[b].pinned > 0
      /\ refs' = [refs EXCEPT ![b] = @ - 1]
      /\ state' = IF refs[b] = 1 THEN [state EXCEPT ![b] = Fresh]
                  ELSE [state EXCEPT ![b].pinned = x]
  BY Zenon DEF ReleaseReferenceFrame, Undefined
<1>2. state \in [Buffers -> BufferStates] /\ refs \in [Buffers -> Nat]
  BY DEF BuffersType
<1>3. /\ refs' \in [Buffers -> Nat] /\ refs'[b] = refs[b] - 1
      /\ \A c \in Buffers \ {b} : refs'[c] = refs[c]
  BY <1>1, <1>2
<1>4. x \in Nat
  BY <1>1, <1>2 DEF BufferStates
<1> HIDE DEF x
<1>5. CASE refs[b] = 1
  BY <1>1, <1>2, <1>3, <1>5, FreshType
<1>6. CASE refs[b] # 1
  <2>1. /\ state' \in [Buffers -> BufferStates]
        /\ state'[b].pinned = x
        /\ state'[b].out = state[b].out /\ state'[b].busy = state[b].busy
        /\ \A c \in Buffers \ {b} : state'[c] = state[c]
    BY <1>1, <1>2, <1>4, <1>6, UpdatePinned
  <2> QED
    BY <1>1, <1>3, <1>6, <2>1 DEF x
<1> QED
  BY <1>5, <1>6


-----------------------------------------------------------------------------
(* Types and places. *)

\* What is undefined changes nothing but the record of it.
LEMMA WildStep ==
    ASSUME Next, wild' # "no"
    PROVE  \E what \in {"index", "context", "count", "buffer", "reference"} : Undefined(what)
<1>1. wild = "no"
  BY DEF Next
<1> USE DEF past, threads
<1>2. CASE DecodeStep
  BY Zenon, <1>1, <1>2 DEF DecodeStep, GetFails, InitializeBuffer, Initialized,
     KeepDecodeBuffer, KeepFails, Prepare, UseReference, CountDecode, MarkerFails, HoldMarker,
     SendMMEDecodeCommand, Finish, Failed, GetDecodeBuffer, ReleaseDecodeContext, Release,
     Discard, Compare, ForgetIndex, References, Context, ForgetContext,
     OutputPartialDecodeBuffers, Look, Argument, SetOutput, Forget, TestMarkerFramePassOn, Test,
     TakeMarkerBuffer
<1>3. CASE Input \/ InSequence
  BY <1>1, <1>3 DEF Input, InSequence, InputMarker, InputPicture, OutputInSequence,
     ReleaseReferenceFrame
<1>4. CASE CallbackFromMME
  BY Zenon, <1>1, <1>4 DEF CallbackFromMME, Completed, ReleaseDecodeContext, Release, Discard, Compare,
     ForgetIndex, References, Context, ForgetContext, TestMarkerFramePassOn, Test,
     TakeMarkerBuffer
<1>5. CASE DrainStep \/ DiscardQueuedDecodes \/ GiveBack
  BY <1>1, <1>5 DEF DrainStep, DiscardQueuedDecodes, GiveBack, ReleaseDecodeBuffer,
     OutputPartialDecodeBuffers, Look, Argument, SetOutput, Forget
<1> QED
  BY <1>2, <1>3, <1>4, <1>5 DEF Next

\* What a step is.
LEMMA NextCases ==
    ASSUME Next
    PROVE  /\ wild = "no"
           /\ \/ GetFails \/ InitializeBuffer \/ KeepDecodeBuffer \/ KeepFails
              \/ Prepare \/ UseReference \/ CountDecode \/ MarkerFails \/ HoldMarker
              \/ SendMMEDecodeCommand \/ Finish \/ Failed \/ InputMarker \/ InputPicture
              \/ OutputInSequence \/ Completed \/ DiscardQueuedDecodes
              \/ \E b \in Buffers :
                   GetDecodeBuffer(b) \/ ReleaseReferenceFrame(b) \/ ReleaseDecodeBuffer(b)
              \/ \E t \in Threads :
                   \/ Look(t) \/ Argument(t) \/ SetOutput(t) \/ Forget(t)
                   \/ Release(t) \/ Discard(t) \/ Compare(t) \/ ForgetIndex(t)
                   \/ References(t) \/ Context(t) \/ ForgetContext(t)
                   \/ Test(t) \/ TakeMarkerBuffer(t)
BY DEF Next, DecodeStep, Input, InSequence, CallbackFromMME, DrainStep, GiveBack,
   ReleaseDecodeContext, OutputPartialDecodeBuffers, TestMarkerFramePassOn, Threads

\* The context a thread releases is that of a command that was sent.
LEMMA ReleasedType ==
    ASSUME Types, PlacesOK, NEW t \in Threads,
           \/ t = "mme" /\ mme # <<>>
           \/ pc[t] \in Releases \cup {"release"}
    PROVE  /\ Released(t) \in Contexts
           /\ t = "mme" => 1 \in DOMAIN mme /\ Released(t) = mme[1]
           /\ t # "mme" => t = "decode" /\ Released(t) = work
           /\ Released(t).use \in Buffers \cup {NoBuffer}
           /\ \/ t = "mme"
              \/ pc[t] \in {"release", "discard", "compare", "forgetIndex"} => Released(t).buffer \in Buffers
           /\ t = "mme" => Released(t).buffer \in Buffers
           /\ pc[t] = "references" => Released(t).use \in Buffers
<1>1. CASE t = "mme"
  <2>1. mme \in Seq(Contexts) /\ mme # <<>>
    BY <1>1 DEF Types, CommandsType, PlacesOK, Releases, Tests
  <2>2. 1 \in DOMAIN mme /\ Head(mme) = mme[1] /\ mme[1] \in Contexts
    BY <2>1
  <2>3. Released(t) = mme[1]
    BY <1>1, <2>2 DEF Released
  <2> QED
    BY <1>1, <2>2, <2>3 DEF PlacesOK, Contexts, Threads
<1>2. CASE t # "mme"
  <2>1. t = "decode"
    BY <1>2 DEF Threads, PlacesOK, Releases, Outputs
  <2> QED
    BY <2>1 DEF Released, Types, InputType, Contexts, PlacesOK, Threads
<1> QED
  BY <1>1, <1>2


\* Where Release goes, if it is defined.
LEMMA ReleaseMoves ==
    ASSUME NEW t \in Threads, Release(t), wild' = "no"
    PROVE  LET b == Released(t).buffer
               discard == state[b].out /\ state[b].busy = 1 /\ Discarding
           IN  \/ discard /\ pc' = [pc EXCEPT ![t] = "discard"] /\ lock' = lock
               \/ /\ ~discard /\ state[b].out /\ b = current
                  /\ pc' = [pc EXCEPT ![t] = "forgetIndex"] /\ lock' = t
               \/ /\ state[b].out => ~discard /\ b # current
                  /\ pc' = [pc EXCEPT ![t] = AfterIndex(t)] /\ lock' = lock
<1> DEFINE b == Released(t).buffer
           complete == state[b].out /\ state[b].busy = 1
           discard == complete /\ Discarding
<1>1. /\ lock = "nobody"
      /\ CASE discard -> Goto(t, "discard") /\ UNCHANGED lock
           [] ~discard /\ state[b].out -> CompareIndex(t)
           [] ~state[b].out -> Goto(t, AfterIndex(t)) /\ UNCHANGED lock
  BY DEF Release, Undefined
<1> HIDE DEF discard
<1>2. CASE discard
  <2>1. state[b].out
    BY <1>2 DEF discard
  <2> QED
    BY <1>1, <1>2, <2>1 DEF Goto, discard
<1>3. CASE ~discard /\ state[b].out
  BY <1>1, <1>3 DEF Goto, CompareIndex, discard
<1>4. CASE ~discard /\ ~state[b].out
  BY <1>1, <1>4 DEF Goto, discard
<1> QED
  BY <1>2, <1>3, <1>4

LEMMA AfterIndexType ==
    ASSUME NEW t \in Threads
    PROVE  /\ AfterIndex(t) \in {"context", "references"}
           /\ AfterIndex(t) = "references" => Released(t).use # NoBuffer
           /\ AfterIndex(t) = "context" => Released(t).use = NoBuffer
BY DEF AfterIndex

\* A command is appended to those with the engine, or the first is done.
LEMMA SendEffect ==
    ASSUME CommandsType, mme' = Append(mme, work), work \in Contexts
    PROVE  /\ mme' \in Seq(Contexts) /\ Len(mme') = Len(mme) + 1 /\ Len(mme) \in Nat
           /\ DOMAIN mme = 1 .. Len(mme) /\ DOMAIN mme' = 1 .. Len(mme) + 1
           /\ mme' # <<>>
           /\ \A i \in DOMAIN mme : mme'[i] = mme[i]
           /\ mme'[Len(mme) + 1] = work
BY DEF CommandsType

LEMMA CompletedEffect ==
    ASSUME CommandsType, mme # <<>>, mme' = Tail(mme)
    PROVE  /\ mme' \in Seq(Contexts) /\ Len(mme) \in Nat \ {0} /\ Len(mme') = Len(mme) - 1
           /\ DOMAIN mme = 1 .. Len(mme) /\ DOMAIN mme' = 1 .. Len(mme) - 1
           /\ \A i \in DOMAIN mme' : i + 1 \in DOMAIN mme /\ mme'[i] = mme[i + 1]
BY DEF CommandsType


LEMMA GetFailsType ==
    ASSUME Types, PlacesOK, wild = "no", wild' = "no", GetFails
    PROVE  Types' /\ PlacesOK'
<1> USE BoundsAssumption, PicturesAssumption, MaxType DEF Types
<1>1. BuffersType' /\ IndexType' /\ CountsType' /\ CommandsType' /\ MarkersType' /\
   InputType'
  BY DEF BuffersType, IndexType, CountsType, CommandsType, Contexts, MarkersType, Marks,
     InputType, Contexts, GetFails, Undefined, Fails, buffers, counts, codec, marks, past,
     threads
<1>2. LockType'
  BY DEF LockType, Threads, PlacesOK, GetFails, Undefined, Fails, Goto, buffers, counts,
     codec, marks, past, threads
<1>3. PastType'
  BY DEF PastType, GetFails, Undefined, Fails, Goto, buffers, counts, codec, marks, past,
     threads
<1>4. PlacesOK'
  BY DEF PlacesOK, Inputs, Outputs, Releases, Tests, Threads, Labels, NoPicture, Released,
     GetFails, Undefined, Fails, Goto, buffers, counts, codec, marks, past, threads
<1> QED
  BY <1>1, <1>2, <1>3, <1>4

LEMMA KeepDecodeBufferType ==
    ASSUME Types, PlacesOK, wild = "no", wild' = "no", KeepDecodeBuffer
    PROVE  Types' /\ PlacesOK'
<1> USE BoundsAssumption, PicturesAssumption, MaxType DEF Types
<1>1. BuffersType' /\ IndexType' /\ CountsType' /\ CommandsType' /\ MarkersType' /\
   InputType' /\ PastType'
  BY DEF BuffersType, IndexType, CountsType, CommandsType, Contexts, MarkersType, Marks,
     InputType, Contexts, PastType, KeepDecodeBuffer, buffers, counts, codec, marks, past,
     threads
<1>2. LockType'
  BY DEF LockType, Threads, PlacesOK, KeepDecodeBuffer, Goto, buffers, counts, codec, marks,
     past, threads
<1>3. PlacesOK'
  BY DEF PlacesOK, Inputs, Outputs, Releases, Tests, Threads, Labels, NoPicture, Released,
     KeepDecodeBuffer, Goto, buffers, counts, codec, marks, past, threads
<1> QED
  BY <1>1, <1>2, <1>3

LEMMA InitializeBufferType ==
    ASSUME Types, PlacesOK, wild = "no", wild' = "no", InitializeBuffer
    PROVE  Types' /\ PlacesOK'
<1> USE BoundsAssumption, MaxType, InitializeEffect DEF Types, counts, codec, marks
<1>1. BuffersType' /\ IndexType' /\ CountsType' /\ CommandsType' /\ MarkersType'
  BY DEF BuffersType, IndexType, CountsType, CommandsType, Contexts, MarkersType, Marks
<1>2. LockType'
  BY DEF LockType, PlacesOK, Threads
<1>3. InputType' /\ PastType'
  BY DEF InputType, PastType, Contexts
<1>4. PlacesOK'
  BY DEF PlacesOK, Inputs, Outputs, Releases, Tests, Threads, Labels, NoPicture, Released
<1> QED
  BY <1>1, <1>2, <1>3, <1>4

LEMMA KeepFailsType ==
    ASSUME Types, PlacesOK, wild = "no", wild' = "no", KeepFails
    PROVE  Types' /\ PlacesOK'
<1> USE BoundsAssumption, PicturesAssumption, MaxType DEF Types
<1>1. BuffersType' /\ IndexType' /\ CountsType' /\ CommandsType' /\ MarkersType'
  BY DEF BuffersType, IndexType, CountsType, CommandsType, Contexts, MarkersType, Marks,
     KeepFails, Fails, buffers, counts, codec, marks
<1>2. LockType'
  BY DEF LockType, Threads, PlacesOK, KeepFails, Goto
<1>3. InputType' /\ PastType'
  BY DEF InputType, Contexts, PastType, KeepFails, Fails, NoContext, NoPicture
<1>4. PlacesOK'
  BY DEF PlacesOK, Inputs, Outputs, Releases, Tests, Threads, Labels, NoPicture, Released,
     KeepFails, Fails, NoContext, Goto, counts
<1> QED
  BY <1>1, <1>2, <1>3, <1>4

LEMMA PrepareType ==
    ASSUME Types, PlacesOK, wild = "no", wild' = "no", Prepare
    PROVE  Types' /\ PlacesOK'
<1> USE BoundsAssumption, MaxType, PrepareEffect DEF Types, counts, codec, marks, past
<1>1. BuffersType' /\ IndexType' /\ CountsType' /\ CommandsType' /\ MarkersType'
  BY DEF BuffersType, IndexType, CountsType, CommandsType, Contexts, MarkersType, Marks
<1>2. LockType'
  BY DEF LockType, PlacesOK, Threads
<1>3. InputType' /\ PastType'
  BY DEF InputType, PastType, Contexts
<1>4. PlacesOK'
  BY DEF PlacesOK, Inputs, Outputs, Releases, Tests, Threads, Labels, NoPicture, Released
<1> QED
  BY <1>1, <1>2, <1>3, <1>4

LEMMA UseReferenceType ==
    ASSUME Types, PlacesOK, wild = "no", wild' = "no", UseReference
    PROVE  Types' /\ PlacesOK'
<1> USE BoundsAssumption, MaxType, UseEffect DEF Types, counts, codec, marks
<1>1. BuffersType' /\ IndexType' /\ CountsType' /\ CommandsType' /\ MarkersType'
  BY DEF BuffersType, IndexType, CountsType, CommandsType, Contexts, MarkersType, Marks
<1>2. LockType'
  BY DEF LockType, PlacesOK, Threads
<1>3. InputType' /\ PastType'
  BY DEF InputType, PastType, Contexts
<1>4. PlacesOK'
  BY DEF PlacesOK, Inputs, Outputs, Releases, Tests, Threads, Labels, NoPicture, Released
<1> QED
  BY <1>1, <1>2, <1>3, <1>4

LEMMA CountDecodeType ==
    ASSUME Types, PlacesOK, wild = "no", wild' = "no", CountDecode
    PROVE  Types' /\ PlacesOK'
<1> USE BoundsAssumption, PicturesAssumption, MaxType DEF Types
<1>1. IndexType' /\ CountsType' /\ CommandsType' /\ MarkersType'
  BY DEF IndexType, CountsType, CommandsType, Contexts, MarkersType, Marks, CountDecode,
     Undefined, buffers, counts, codec, marks, past, threads
<1>2. BuffersType'
  BY CountEffect DEF BuffersType, CountDecode, Undefined
<1>3. LockType'
  BY DEF LockType, Threads, PlacesOK, CountDecode, Undefined, Goto, buffers, counts, codec,
     marks, past, threads
<1>4. InputType'
  BY CountEffect DEF InputType, Contexts, past
<1>5. PastType'
  BY DEF PastType, CountDecode, Undefined, Goto, buffers, counts, codec, marks, past,
     threads
<1>6. PlacesOK'
  BY CountEffect DEF counts, past, PlacesOK, Inputs, Outputs, Releases, Tests, Threads,
     Labels, NoPicture, Released
<1> QED
  BY <1>1, <1>2, <1>3, <1>4, <1>5, <1>6

LEMMA SendMMEDecodeCommandType ==
    ASSUME Types, PlacesOK, wild = "no", wild' = "no", SendMMEDecodeCommand
    PROVE  Types' /\ PlacesOK'
<1> USE BoundsAssumption, PicturesAssumption, MaxType DEF Types
<1>1. work \in Contexts
  BY DEF InputType
<1>2. BuffersType' /\ IndexType' /\ MarkersType' /\ InputType'
  BY DEF BuffersType, IndexType, MarkersType, Marks, InputType, Contexts,
     SendMMEDecodeCommand, Undefined, Fails, buffers, counts, codec, marks, past, threads
<1>3. CountsType'
  BY <1>1, SendEffect DEF CountsType, SendMMEDecodeCommand, Undefined, Fails, PlacesOK
<1>4. CommandsType'
  BY <1>1, SendEffect DEF CommandsType, SendMMEDecodeCommand, Undefined, Contexts
<1>5. LockType'
  BY DEF LockType, Threads, PlacesOK, SendMMEDecodeCommand, Undefined, Fails, Goto, buffers,
     counts, codec, marks, past, threads
<1>6. PastType'
  BY DEF PastType, SendMMEDecodeCommand, Undefined, Fails, Goto, buffers, counts, codec,
     marks, past, threads
<1>7. PlacesOK'
  BY SMTT(30), <1>1, SendEffect DEF SendMMEDecodeCommand, Undefined, Fails, Goto, PlacesOK, Inputs,
     Outputs, Releases, Tests, Threads, Labels, NoPicture, Released
<1> QED
  BY <1>2, <1>3, <1>4, <1>5, <1>6, <1>7

LEMMA FinishType ==
    ASSUME Types, PlacesOK, wild = "no", wild' = "no", Finish
    PROVE  Types' /\ PlacesOK'
<1> USE BoundsAssumption, PicturesAssumption, MaxType DEF Types
<1>1. BuffersType' /\ CountsType' /\ CommandsType' /\ MarkersType' /\ PastType'
  BY DEF BuffersType, CountsType, CommandsType, Contexts, MarkersType, Marks, PastType,
     Finish, NoContext, NoPicture, buffers, counts, codec, marks, past, threads
<1>2. IndexType'
  BY DEF IndexType, Finish, NoContext, NoPicture, Goto, buffers, counts, codec, marks, past,
     threads
<1>3. LockType'
  BY DEF LockType, Threads, PlacesOK, Finish, NoContext, NoPicture, Goto, buffers, counts,
     codec, marks, past, threads
<1>4. InputType'
  BY DEF InputType, Contexts, Finish, NoContext, NoPicture, Goto, buffers, counts, codec,
     marks, past, threads
<1>5. PlacesOK'
  BY DEF PlacesOK, Inputs, Outputs, Releases, Tests, Threads, Labels, NoPicture, Released,
     Finish, NoContext, NoPicture, Goto, buffers, counts, codec, marks, past, threads
<1> QED
  BY <1>1, <1>2, <1>3, <1>4, <1>5

LEMMA FailedType ==
    ASSUME Types, PlacesOK, wild = "no", wild' = "no", Failed
    PROVE  Types' /\ PlacesOK'
<1> USE BoundsAssumption, PicturesAssumption, MaxType DEF Types
<1>1. BuffersType' /\ IndexType' /\ CountsType' /\ CommandsType' /\ MarkersType' /\
   PastType'
  BY DEF BuffersType, IndexType, CountsType, CommandsType, Contexts, MarkersType, Marks,
     PastType, Failed, NoContext, NoPicture, buffers, counts, codec, marks, past, threads
<1>2. LockType'
  BY DEF LockType, Threads, PlacesOK, Failed, NoContext, NoPicture, Goto, buffers, counts,
     codec, marks, past, threads
<1>3. InputType'
  BY DEF InputType, Contexts, Failed, NoContext, NoPicture, Goto, buffers, counts, codec,
     marks, past, threads
<1>4. PlacesOK'
  BY DEF PlacesOK, Inputs, Outputs, Releases, Tests, Threads, Labels, NoPicture, Released,
     Failed, NoContext, NoPicture, Goto, buffers, counts, codec, marks, past, threads
<1> QED
  BY <1>1, <1>2, <1>3, <1>4

LEMMA InputMarkerType ==
    ASSUME Types, PlacesOK, wild = "no", wild' = "no", InputMarker
    PROVE  Types' /\ PlacesOK'
<1> USE BoundsAssumption, PicturesAssumption, MaxType DEF Types
<1>1. BuffersType' /\ IndexType' /\ CountsType' /\ CommandsType' /\ InputType'
  BY DEF BuffersType, IndexType, CountsType, CommandsType, Contexts, InputType, Contexts,
     InputMarker, buffers, counts, codec, marks, past, threads
<1>2. MarkersType'
  BY DEF InputMarker, NoMarker, MarkersType, Marks, CountsType, PastType, past
<1>3. LockType'
  BY DEF LockType, Threads, PlacesOK, InputMarker, Goto, buffers, counts, codec, marks,
     past, threads
<1>4. PastType'
  BY DEF PastType, InputMarker, Goto, buffers, counts, codec, marks, past, threads
<1>5. PlacesOK'
  BY DEF PlacesOK, Inputs, Outputs, Releases, Tests, Threads, Labels, NoPicture, Released,
     InputMarker, Goto, buffers, counts, codec, marks, past, threads
<1> QED
  BY <1>1, <1>2, <1>3, <1>4, <1>5

LEMMA MarkerFailsType ==
    ASSUME Types, PlacesOK, wild = "no", wild' = "no", MarkerFails
    PROVE  Types' /\ PlacesOK'
<1> USE BoundsAssumption, MaxType DEF Types
<1>1. BuffersType' /\ IndexType' /\ CountsType' /\ CommandsType' /\ MarkersType'
  BY DEF BuffersType, IndexType, CountsType, CommandsType, Contexts, MarkersType, Marks,
     MarkerFails, Fails, buffers, counts, codec, marks
<1>2. LockType'
  BY DEF LockType, Threads, PlacesOK, MarkerFails, Goto
<1>3. InputType' /\ PastType'
  BY DEF InputType, Contexts, PastType, MarkerFails, Fails
<1>4. PlacesOK'
  BY DEF PlacesOK, Inputs, Outputs, Releases, Tests, Threads, Labels, NoPicture, Released,
     MarkerFails, Fails, Goto, counts
<1> QED
  BY <1>1, <1>2, <1>3, <1>4

LEMMA HoldMarkerType ==
    ASSUME Types, PlacesOK, wild = "no", wild' = "no", HoldMarker
    PROVE  Types' /\ PlacesOK'
<1> USE BoundsAssumption, PicturesAssumption, MaxType DEF Types
<1>1. BuffersType' /\ IndexType' /\ CountsType' /\ CommandsType' /\ InputType'
  BY DEF BuffersType, IndexType, CountsType, CommandsType, Contexts, InputType, Contexts,
     HoldMarker, buffers, counts, codec, marks, past, threads
<1>2. MarkersType'
  BY DEF HoldMarker, MarkersType, Marks, CountsType, PastType, PlacesOK
<1>3. LockType'
  BY DEF LockType, Threads, PlacesOK, HoldMarker, Goto, buffers, counts, codec, marks,
     past, threads
<1>4. PastType'
  BY DEF PastType, PlacesOK, HoldMarker, Goto, buffers, counts, codec, marks, past, threads
<1>5. PlacesOK'
  BY DEF PlacesOK, Inputs, Outputs, Releases, Tests, Threads, Labels, NoPicture, Released,
     HoldMarker, Goto, buffers, counts, codec, marks, past, threads
<1> QED
  BY <1>1, <1>2, <1>3, <1>4, <1>5

LEMMA InputPictureType ==
    ASSUME Types, PlacesOK, wild = "no", wild' = "no", InputPicture
    PROVE  Types' /\ PlacesOK'
<1> USE BoundsAssumption, PicturesAssumption, MaxType DEF Types
<1>1. BuffersType' /\ CountsType' /\ CommandsType' /\ MarkersType' /\ PastType'
  BY DEF BuffersType, CountsType, CommandsType, Contexts, MarkersType, Marks, PastType,
     InputPicture, NoContext, buffers, counts, codec, marks, past, threads
<1>2. IndexType'
  BY DEF InputPicture, IndexType, CountsType, past, counts
<1>3. LockType'
  BY DEF LockType, Threads, PlacesOK, InputPicture, NoContext, Goto, buffers, counts, codec,
     marks, past, threads
<1>4. InputType'
  <2>1. work' = [number |-> prepared + 1, buffer |-> NoBuffer, use |-> NoBuffer,
                 counted |-> FALSE, last |-> FALSE]
    BY DEF InputPicture, NoContext
  <2>2. prepared + 1 \in 0..MaxPictures[direct] /\ direct' = direct
    BY DEF InputPicture, CountsType, past
  <2>3. work' \in Contexts'
    BY <2>1, <2>2 DEF Contexts
  <2>4. partial' = partial /\ picture' \in Pictures
    BY DEF InputPicture
  <2> QED
    BY <2>3, <2>4 DEF InputType
<1>5. PlacesOK'
  BY DEF PlacesOK, Inputs, Outputs, Releases, Tests, Threads, Labels, NoPicture, Released,
     InputPicture, NoContext, Goto, buffers, counts, codec, marks, past, threads
<1> QED
  BY <1>1, <1>2, <1>3, <1>4, <1>5

LEMMA OutputInSequenceType ==
    ASSUME Types, PlacesOK, wild = "no", wild' = "no", OutputInSequence
    PROVE  Types' /\ PlacesOK'
<1> USE BoundsAssumption, PicturesAssumption, MaxType DEF Types
<1>1. BuffersType' /\ IndexType' /\ CountsType' /\ CommandsType' /\ MarkersType' /\
   InputType' /\ PastType'
  BY DEF BuffersType, IndexType, CountsType, CommandsType, Contexts, MarkersType, Marks,
     InputType, Contexts, PastType, OutputInSequence, buffers, counts, codec, marks, past,
     threads
<1>2. LockType'
  BY DEF LockType, Threads, PlacesOK, OutputInSequence, Goto, buffers, counts, codec, marks,
     past, threads
<1>3. PlacesOK'
  BY DEF PlacesOK, Inputs, Outputs, Releases, Tests, Threads, Labels, NoPicture, Released,
     OutputInSequence, Goto, buffers, counts, codec, marks, past, threads
<1> QED
  BY <1>1, <1>2, <1>3

LEMMA CompletedType ==
    ASSUME Types, PlacesOK, wild = "no", wild' = "no", Completed
    PROVE  Types' /\ PlacesOK'
<1> USE BoundsAssumption, PicturesAssumption, MaxType DEF Types
<1>1. mme # <<>>
  BY DEF Completed, PlacesOK, Releases
<1>2. BuffersType' /\ IndexType' /\ MarkersType' /\ InputType' /\ PastType'
  BY DEF BuffersType, IndexType, MarkersType, Marks, InputType, Contexts, PastType,
     Completed, buffers, counts, codec, marks, past, threads
<1>3. CountsType'
  BY <1>1, CompletedEffect DEF CountsType, Completed, past
<1>4. CommandsType'
  BY <1>1, CompletedEffect DEF CommandsType, Completed, Contexts, past
<1>5. LockType'
  BY DEF LockType, Threads, PlacesOK, Completed, Goto, buffers, counts, codec, marks, past,
     threads
<1>6. PlacesOK'
  BY <1>1, CompletedEffect DEF Completed, threads, past, Goto, PlacesOK, Inputs, Outputs,
     Releases, Tests, Threads, Labels, NoPicture, Released
<1> QED
  BY <1>2, <1>3, <1>4, <1>5, <1>6

LEMMA DiscardQueuedDecodesType ==
    ASSUME Types, PlacesOK, wild = "no", wild' = "no", DiscardQueuedDecodes
    PROVE  Types' /\ PlacesOK'
<1> USE BoundsAssumption, PicturesAssumption, MaxType DEF Types
<1>1. BuffersType' /\ IndexType' /\ CommandsType' /\ MarkersType' /\ InputType'
  BY DEF BuffersType, IndexType, CommandsType, Contexts, MarkersType, Marks, InputType,
     Contexts, DiscardQueuedDecodes, Drainer, buffers, counts, codec, marks, past, threads
<1>2. CountsType'
  BY DEF CountsType, DiscardQueuedDecodes, Drainer, Goto, buffers, counts, codec, marks,
     past, threads
<1>3. LockType'
  BY DEF LockType, Threads, PlacesOK, DiscardQueuedDecodes, Drainer, Goto, buffers, counts,
     codec, marks, past, threads
<1>4. PastType'
  BY DEF PastType, DiscardQueuedDecodes, Drainer, Goto, buffers, counts, codec, marks, past,
     threads
<1>5. PlacesOK'
  BY DEF PlacesOK, Inputs, Outputs, Releases, Tests, Threads, Labels, NoPicture, Released,
     DiscardQueuedDecodes, Drainer, Goto, buffers, counts, codec, marks, past, threads
<1> QED
  BY <1>1, <1>2, <1>3, <1>4, <1>5

LEMMA GetDecodeBufferType ==
    ASSUME NEW b \in Buffers, Types, PlacesOK, wild = "no", wild' = "no", GetDecodeBuffer(b)
    PROVE  Types' /\ PlacesOK'
<1> USE BoundsAssumption, PicturesAssumption, MaxType DEF Types
<1>1. CountsType' /\ CommandsType' /\ MarkersType' /\ InputType' /\ PastType'
  BY DEF CountsType, CommandsType, Contexts, MarkersType, Marks, InputType, Contexts,
     PastType, GetDecodeBuffer, Fresh, buffers, counts, codec, marks, past, threads
<1>2. BuffersType'
  BY FreshType DEF GetDecodeBuffer, BuffersType
<1>3. IndexType'
  BY DEF IndexType, GetDecodeBuffer, Fresh, Goto, buffers, counts, codec, marks, past,
     threads
<1>4. LockType'
  BY DEF LockType, Threads, PlacesOK, GetDecodeBuffer, Fresh, Goto, buffers, counts, codec,
     marks, past, threads
<1>5. PlacesOK'
  BY DEF PlacesOK, Inputs, Outputs, Releases, Tests, Threads, Labels, NoPicture, Released,
     GetDecodeBuffer, Fresh, Goto, buffers, counts, codec, marks, past, threads
<1> QED
  BY <1>1, <1>2, <1>3, <1>4, <1>5

LEMMA ReleaseReferenceFrameType ==
    ASSUME NEW b \in Buffers, Types, PlacesOK, wild = "no", wild' = "no",
       ReleaseReferenceFrame(b)
    PROVE  Types' /\ PlacesOK'
<1> USE BoundsAssumption, PicturesAssumption, MaxType DEF Types
<1>1. IndexType' /\ CountsType' /\ CommandsType' /\ MarkersType' /\ LockType' /\ InputType'
   /\ PlacesOK'
  BY DEF IndexType, CountsType, CommandsType, Contexts, MarkersType, Marks, LockType,
     Threads, PlacesOK, InputType, Contexts, PlacesOK, Inputs, Outputs, Releases, Tests,
     Threads, Labels, NoPicture, Released, ReleaseReferenceFrame, Fresh, Undefined, buffers,
     counts, codec, marks, past, threads
<1>2. BuffersType'
  BY ReferenceEffect DEF ReleaseReferenceFrame, Undefined, BuffersType
<1>3. PastType'
  BY DEF PastType, ReleaseReferenceFrame, Fresh, Undefined, Goto, buffers, counts, codec,
     marks, past, threads
<1> QED
  BY <1>1, <1>2, <1>3

LEMMA ReleaseDecodeBufferType ==
    ASSUME NEW b \in Buffers, Types, PlacesOK, wild = "no", wild' = "no",
       ReleaseDecodeBuffer(b)
    PROVE  Types' /\ PlacesOK'
<1> USE BoundsAssumption, PicturesAssumption, MaxType DEF Types
<1>1. UNCHANGED <<counts, codec, marks, past, threads>>
  BY DEF ReleaseDecodeBuffer, Undefined
<1>2. IndexType' /\ CountsType' /\ CommandsType' /\ MarkersType' /\ LockType' /\ InputType'
  BY <1>1 DEF IndexType, CountsType, CommandsType, Contexts, MarkersType, Marks, LockType,
     Threads, InputType, counts, codec, marks, past, threads
<1>3. PlacesOK'
  BY <1>1 DEF PlacesOK, Inputs, Outputs, Releases, Tests, Threads, Labels, NoPicture, Released,
     counts, codec, marks, past, threads
<1>4. BuffersType'
  BY DropEffect DEF ReleaseDecodeBuffer, Undefined, BuffersType
<1>5. PastType'
  BY DEF PastType, ReleaseDecodeBuffer, Undefined, Drop, Fresh, Goto, buffers, counts,
     codec, marks, past, threads
<1> QED
  BY <1>2, <1>3, <1>4, <1>5

LEMMA LookType ==
    ASSUME NEW t \in Threads, Types, PlacesOK, wild = "no", wild' = "no", Look(t)
    PROVE  Types' /\ PlacesOK'
<1> USE BoundsAssumption, PicturesAssumption, MaxType DEF Types
<1>1. BuffersType' /\ IndexType' /\ CountsType' /\ CommandsType' /\ MarkersType' /\
   PastType'
  BY DEF BuffersType, IndexType, CountsType, CommandsType, Contexts, MarkersType, Marks,
     PastType, Look, Return, buffers, counts, codec, marks, past, threads
<1>2. LockType'
  BY DEF LockType, Threads, PlacesOK, Look, Return, Goto, buffers, counts, codec, marks,
     past, threads
<1>3. InputType'
  BY DEF Look, InputType, Contexts, past
<1>4. PlacesOK'
  BY DEF Look, IndexType, InputType, Return, Goto, counts, past, PlacesOK, Inputs, Outputs,
     Releases, Tests, Threads, Labels, NoPicture, Released
<1> QED
  BY <1>1, <1>2, <1>3, <1>4

LEMMA ArgumentType ==
    ASSUME NEW t \in Threads, Types, PlacesOK, wild = "no", wild' = "no", Argument(t)
    PROVE  Types' /\ PlacesOK'
<1> USE BoundsAssumption, PicturesAssumption, MaxType DEF Types
<1>1. /\ pc[t] = "argument" /\ current # NoBuffer
      /\ partial' = [partial EXCEPT ![t] = current] /\ pc' = [pc EXCEPT ![t] = "output"]
      /\ UNCHANGED <<buffers, counts, codec, marks, past, lock, work, picture>>
  BY Zenon DEF Argument, Undefined, Goto
<1>2. BuffersType' /\ IndexType' /\ CountsType' /\ CommandsType' /\ MarkersType' /\
   PastType'
  BY <1>1 DEF BuffersType, IndexType, CountsType, CommandsType, Contexts, MarkersType, Marks,
     PastType, buffers, counts, codec, marks, past
<1>3. LockType'
  BY <1>1 DEF LockType, Threads, PlacesOK
<1>4. InputType'
  BY <1>1 DEF InputType, Contexts, IndexType, Threads, past
<1>5. PlacesOK'
  BY <1>1 DEF IndexType, InputType, counts, past, PlacesOK, Inputs, Outputs,
     Releases, Tests, Threads, Labels, NoPicture, Released
<1> QED
  BY <1>2, <1>3, <1>4, <1>5

LEMMA SetOutputType ==
    ASSUME NEW t \in Threads, Types, PlacesOK, wild = "no", wild' = "no", SetOutput(t)
    PROVE  Types' /\ PlacesOK'
<1> USE BoundsAssumption, PicturesAssumption, MaxType DEF Types
<1>1. IndexType' /\ CountsType' /\ CommandsType' /\ MarkersType' /\ InputType' /\ PastType'
  BY DEF IndexType, CountsType, CommandsType, Contexts, MarkersType, Marks, InputType,
     Contexts, PastType, SetOutput, Undefined, buffers, counts, codec, marks, past, threads
<1>2. BuffersType'
  BY OutputEffect
<1>3. LockType'
  BY DEF LockType, Threads, PlacesOK, SetOutput, Undefined, Goto, buffers, counts, codec, marks, past,
     threads
<1>4. PlacesOK'
  BY DEF PlacesOK, Inputs, Outputs, Releases, Tests, Threads, Labels, NoPicture, Released,
     SetOutput, Undefined, Goto, buffers, counts, codec, marks, past, threads
<1> QED
  BY <1>1, <1>2, <1>3, <1>4

LEMMA ForgetType ==
    ASSUME NEW t \in Threads, Types, PlacesOK, wild = "no", wild' = "no", Forget(t)
    PROVE  Types' /\ PlacesOK'
<1> USE BoundsAssumption, PicturesAssumption, MaxType DEF Types
<1>1. BuffersType' /\ CountsType' /\ CommandsType' /\ MarkersType' /\ PastType'
  BY DEF BuffersType, CountsType, CommandsType, Contexts, MarkersType, Marks, PastType,
     Forget, Return, buffers, counts, codec, marks, past, threads
<1>2. IndexType'
  BY DEF IndexType, Forget, Return, Goto, buffers, counts, codec, marks, past, threads
<1>3. LockType'
  BY DEF LockType, Threads, PlacesOK, Forget, Return, Goto, buffers, counts, codec, marks,
     past, threads
<1>4. InputType'
  BY DEF InputType, Contexts, Forget, Return, Goto, buffers, counts, codec, marks, past,
     threads
<1>5. PlacesOK'
  BY DEF PlacesOK, Inputs, Outputs, Releases, Tests, Threads, Labels, NoPicture, Released,
     Forget, Return, Goto, buffers, counts, codec, marks, past, threads
<1> QED
  BY <1>1, <1>2, <1>3, <1>4, <1>5

LEMMA ReleaseType ==
    ASSUME NEW t \in Threads, Types, PlacesOK, wild = "no", wild' = "no", Release(t)
    PROVE  Types' /\ PlacesOK'
<1> USE BoundsAssumption, PicturesAssumption, MaxType DEF Types
<1>1. IndexType' /\ CountsType' /\ CommandsType' /\ MarkersType' /\ InputType'
  BY DEF IndexType, CountsType, CommandsType, Contexts, MarkersType, Marks, InputType,
     Contexts, Release, Undefined, CompareIndex, AfterIndex, Released, buffers, counts,
     codec, marks, past, threads
<1>2. BuffersType'
  BY ReleaseEffect, ReleasedType DEF Release, Undefined, Releases
<1>3. LockType'
  <2>1. pc \in [Threads -> Labels]
    BY DEF PlacesOK
  <2>2. AfterIndex(t) # "forgetIndex"
    BY AfterIndexType
  <2>3. lock = "nobody"
    BY DEF Release, Undefined
  <2> QED
    BY <2>1, <2>2, <2>3, ReleaseMoves DEF LockType, Threads
<1>4. PastType'
  BY DEF PastType, Release, Undefined, CompareIndex, AfterIndex, Released, Goto, buffers,
     counts, codec, marks, past, threads
<1>5. PlacesOK'
  <2>1. /\ UNCHANGED <<mme, prepared, direct, markers, partial, work, picture>>
        /\ \/ t = "mme" /\ pc[t] = "idle" /\ mme # <<>>
           \/ t # "mme" /\ pc[t] = "release"
    BY DEF Release, Undefined, counts, past
  <2>2. t # "mme" => t = "decode"
    BY <2>1 DEF PlacesOK, Outputs, Threads
  <2>3. \E l \in {"discard", "forgetIndex", "context", "references"} :
           pc' = [pc EXCEPT ![t] = l] /\ (l = "references" => Released(t).use # NoBuffer)
    BY ReleaseMoves, AfterIndexType
  <2> QED
    BY <2>1, <2>2, <2>3 DEF PlacesOK, Inputs, Outputs, Releases, Tests, Threads, Labels,
       NoPicture, Released
<1> QED
  BY <1>1, <1>2, <1>3, <1>4, <1>5

LEMMA DiscardType ==
    ASSUME NEW t \in Threads, Types, PlacesOK, wild = "no", wild' = "no", Discard(t)
    PROVE  Types' /\ PlacesOK'
<1> USE BoundsAssumption, PicturesAssumption, MaxType DEF Types
<1>1. IndexType' /\ CountsType' /\ CommandsType' /\ MarkersType' /\ InputType'
  BY DEF IndexType, CountsType, CommandsType, Contexts, MarkersType, Marks, InputType,
     Contexts, Discard, Undefined, Drop, Fresh, Released, buffers, counts, codec, marks,
     past, threads
<1>2. BuffersType'
  BY DropEffect, ReleasedType DEF Discard, Undefined, BuffersType, Releases
<1>3. LockType'
  BY DEF LockType, Threads, PlacesOK, Discard, Undefined, Drop, Fresh, Released, Goto,
     buffers, counts, codec, marks, past, threads
<1>4. PastType'
  BY DEF PastType, Discard, Undefined, Drop, Fresh, Released, Goto, buffers, counts, codec,
     marks, past, threads
<1>5. PlacesOK'
  BY DEF PlacesOK, Inputs, Outputs, Releases, Tests, Threads, Labels, NoPicture, Released,
     Discard, Undefined, Drop, Fresh, Released, Goto, buffers, counts, codec, marks, past,
     threads
<1> QED
  BY <1>1, <1>2, <1>3, <1>4, <1>5

LEMMA CompareType ==
    ASSUME NEW t \in Threads, Types, PlacesOK, wild = "no", wild' = "no", Compare(t)
    PROVE  Types' /\ PlacesOK'
<1> USE BoundsAssumption, PicturesAssumption, MaxType DEF Types
<1>1. BuffersType' /\ IndexType' /\ CountsType' /\ CommandsType' /\ MarkersType' /\
   InputType' /\ PastType'
  BY DEF BuffersType, IndexType, CountsType, CommandsType, Contexts, MarkersType, Marks,
     InputType, Contexts, PastType, Compare, CompareIndex, AfterIndex, Released, buffers,
     counts, codec, marks, past, threads
<1>2. LockType'
  BY DEF LockType, Threads, PlacesOK, Compare, CompareIndex, AfterIndex, Released, Goto,
     buffers, counts, codec, marks, past, threads
<1>3. PlacesOK'
  BY DEF PlacesOK, Inputs, Outputs, Releases, Tests, Threads, Labels, NoPicture, Released,
     Compare, CompareIndex, AfterIndex, Released, Goto, buffers, counts, codec, marks, past,
     threads
<1> QED
  BY <1>1, <1>2, <1>3

LEMMA ForgetIndexType ==
    ASSUME NEW t \in Threads, Types, PlacesOK, wild = "no", wild' = "no", ForgetIndex(t)
    PROVE  Types' /\ PlacesOK'
<1> USE BoundsAssumption, PicturesAssumption, MaxType DEF Types
<1>1. BuffersType' /\ CountsType' /\ CommandsType' /\ MarkersType' /\ InputType' /\
   PastType'
  BY DEF BuffersType, CountsType, CommandsType, Contexts, MarkersType, Marks, InputType,
     Contexts, PastType, ForgetIndex, AfterIndex, Released, buffers, counts, codec, marks,
     past, threads
<1>2. IndexType'
  BY DEF IndexType, ForgetIndex, AfterIndex, Released, Goto, buffers, counts, codec, marks,
     past, threads
<1>3. LockType'
  BY DEF LockType, Threads, PlacesOK, ForgetIndex, AfterIndex, Released, Goto, buffers,
     counts, codec, marks, past, threads
<1>4. PlacesOK'
  BY DEF PlacesOK, Inputs, Outputs, Releases, Tests, Threads, Labels, NoPicture, Released,
     ForgetIndex, AfterIndex, Released, Goto, buffers, counts, codec, marks, past, threads
<1> QED
  BY <1>1, <1>2, <1>3, <1>4

LEMMA ReferencesType ==
    ASSUME NEW t \in Threads, Types, PlacesOK, wild = "no", wild' = "no", References(t)
    PROVE  Types' /\ PlacesOK'
<1> USE BoundsAssumption, PicturesAssumption, MaxType DEF Types
<1>1. IndexType' /\ CountsType' /\ CommandsType' /\ MarkersType' /\ InputType'
  BY DEF IndexType, CountsType, CommandsType, Contexts, MarkersType, Marks, InputType,
     Contexts, References, Undefined, Drop, Fresh, Released, buffers, counts, codec, marks,
     past, threads
<1>2. BuffersType'
  BY DropEffect, ReleasedType DEF References, Undefined, BuffersType, Releases
<1>3. LockType'
  BY DEF LockType, Threads, PlacesOK, References, Undefined, Drop, Fresh, Released, Goto,
     buffers, counts, codec, marks, past, threads
<1>4. PastType'
  BY DEF PastType, References, Undefined, Drop, Fresh, Released, Goto, buffers, counts,
     codec, marks, past, threads
<1>5. PlacesOK'
  BY DEF PlacesOK, Inputs, Outputs, Releases, Tests, Threads, Labels, NoPicture, Released,
     References, Undefined, Drop, Fresh, Released, Goto, buffers, counts, codec, marks,
     past, threads
<1> QED
  BY <1>1, <1>2, <1>3, <1>4, <1>5

LEMMA ContextType ==
    ASSUME NEW t \in Threads, Types, PlacesOK, wild = "no", wild' = "no", Context(t)
    PROVE  Types' /\ PlacesOK'
<1> USE BoundsAssumption, PicturesAssumption, MaxType DEF Types
<1>1. BuffersType' /\ IndexType' /\ CountsType' /\ CommandsType' /\ MarkersType' /\
   InputType' /\ PastType'
  BY DEF BuffersType, IndexType, CountsType, CommandsType, Contexts, MarkersType, Marks,
     InputType, Contexts, PastType, Context, Released, buffers, counts, codec, marks, past,
     threads
<1>2. LockType'
  BY DEF LockType, Threads, PlacesOK, Context, Released, Goto, buffers, counts, codec,
     marks, past, threads
<1>3. PlacesOK'
  BY DEF PlacesOK, Inputs, Outputs, Releases, Tests, Threads, Labels, NoPicture, Released,
     Context, Released, Goto, buffers, counts, codec, marks, past, threads
<1> QED
  BY <1>1, <1>2, <1>3

LEMMA ForgetContextType ==
    ASSUME NEW t \in Threads, Types, PlacesOK, wild = "no", wild' = "no", ForgetContext(t)
    PROVE  Types' /\ PlacesOK'
<1> USE BoundsAssumption, PicturesAssumption, MaxType DEF Types
<1>1. BuffersType' /\ CountsType' /\ CommandsType' /\ MarkersType' /\ InputType' /\
   PastType'
  BY DEF BuffersType, CountsType, CommandsType, Contexts, MarkersType, Marks, InputType,
     Contexts, PastType, ForgetContext, buffers, counts, codec, marks, past, threads
<1>2. IndexType'
  BY DEF IndexType, ForgetContext, Goto, buffers, counts, codec, marks, past, threads
<1>3. LockType'
  BY DEF LockType, Threads, PlacesOK, ForgetContext, Goto, buffers, counts, codec, marks,
     past, threads
<1>4. PlacesOK'
  BY DEF PlacesOK, Inputs, Outputs, Releases, Tests, Threads, Labels, NoPicture, Released,
     ForgetContext, Goto, buffers, counts, codec, marks, past, threads
<1> QED
  BY <1>1, <1>2, <1>3, <1>4

LEMMA TestType ==
    ASSUME NEW t \in Threads, Types, PlacesOK, wild = "no", wild' = "no", Test(t)
    PROVE  Types' /\ PlacesOK'
<1> USE BoundsAssumption, PicturesAssumption, MaxType DEF Types
<1>1. BuffersType' /\ IndexType' /\ CountsType' /\ CommandsType' /\ MarkersType' /\
   InputType' /\ PastType'
  BY DEF BuffersType, IndexType, CountsType, CommandsType, Contexts, MarkersType, Marks,
     InputType, Contexts, PastType, Test, buffers, counts, codec, marks, past, threads
<1>2. LockType'
  BY DEF LockType, Threads, PlacesOK, Test, Goto, buffers, counts, codec, marks, past,
     threads
<1>3. PlacesOK'
  BY DEF PlacesOK, Inputs, Outputs, Releases, Tests, Threads, Labels, NoPicture, Released,
     Test, Goto, buffers, counts, codec, marks, past, threads
<1> QED
  BY <1>1, <1>2, <1>3

LEMMA TakeMarkerBufferType ==
    ASSUME NEW t \in Threads, Types, PlacesOK, wild = "no", wild' = "no",
       TakeMarkerBuffer(t)
    PROVE  Types' /\ PlacesOK'
<1> USE BoundsAssumption, PicturesAssumption, MaxType DEF Types
<1>1. BuffersType' /\ IndexType' /\ CountsType' /\ CommandsType' /\ InputType' /\ PastType'
  BY DEF BuffersType, IndexType, CountsType, CommandsType, Contexts, InputType, Contexts,
     PastType, TakeMarkerBuffer, NoMarker, buffers, counts, codec, marks, past, threads
<1>2. MarkersType'
  BY DEF MarkersType, Marks, TakeMarkerBuffer, NoMarker, Goto, buffers, counts, codec,
     marks, past, threads
<1>3. LockType'
  BY DEF LockType, Threads, PlacesOK, TakeMarkerBuffer, NoMarker, Goto, buffers, counts,
     codec, marks, past, threads
<1>4. PlacesOK'
  BY DEF PlacesOK, Inputs, Outputs, Releases, Tests, Threads, Labels, NoPicture, Released,
     TakeMarkerBuffer, NoMarker, Goto, buffers, counts, codec, marks, past, threads
<1> QED
  BY <1>1, <1>2, <1>3, <1>4


LEMMA InitType == Init => Types /\ PlacesOK
<1> USE BoundsAssumption, FreshType
    DEF Init, NoContext, NoMarker, NoPicture, Threads
<1> SUFFICES ASSUME Init PROVE Types /\ PlacesOK
  OBVIOUS
<1>1. PastType
  BY DEF PastType
<1>2. BuffersType /\ IndexType
  BY <1>1, MaxType DEF BuffersType, IndexType
<1>3. CountsType /\ CommandsType
  BY <1>1, MaxType DEF CountsType, CommandsType
<1>4. MarkersType /\ LockType
  BY <1>1, MaxType DEF MarkersType, LockType, Marks
<1>5. InputType
  BY <1>1, MaxType DEF InputType, Contexts
<1>6. PlacesOK
  BY DEF PlacesOK, Labels, Outputs, Releases, Tests, Inputs
<1> QED
  BY <1>1, <1>2, <1>3, <1>4, <1>5, <1>6 DEF Types

LEMMA UndefinedType ==
    ASSUME Types, PlacesOK, NEW what \in {"index", "context", "count", "buffer", "reference"}, Undefined(what)
    PROVE  Types' /\ PlacesOK'
<1>1. /\ UNCHANGED <<buffers, counts, codec, marks, threads>>
      /\ UNCHANGED <<direct, markers, drains, failed>> /\ wild' = what
  BY UndefinedEffect
<1>2. BuffersType' /\ IndexType' /\ CountsType' /\ CommandsType' /\ MarkersType'
  BY <1>1 DEF Types, buffers, counts, codec, marks, BuffersType, IndexType, CountsType,
     CommandsType, Contexts, MarkersType, Marks
<1>3. LockType' /\ InputType' /\ PastType'
  BY <1>1 DEF Types, threads, LockType, InputType, PastType, Contexts
<1>4. PlacesOK'
  BY <1>1 DEF PlacesOK, counts, threads, Released
<1> QED
  BY <1>2, <1>3, <1>4 DEF Types

LEMMA NextType ==
    ASSUME Types, PlacesOK, Next
    PROVE  Types' /\ PlacesOK'
<1>1. CASE wild' # "no"
  BY <1>1, WildStep, UndefinedType
<1>2. CASE wild' = "no"
  BY <1>2, NextCases, GetFailsType, InitializeBufferType, KeepDecodeBufferType, KeepFailsType,
     PrepareType, UseReferenceType, CountDecodeType, MarkerFailsType, HoldMarkerType, ArgumentType,
     SendMMEDecodeCommandType, FinishType, FailedType, InputMarkerType, InputPictureType,
     OutputInSequenceType, CompletedType, DiscardQueuedDecodesType, GetDecodeBufferType,
     ReleaseReferenceFrameType, ReleaseDecodeBufferType, LookType, SetOutputType,
     ForgetType, ReleaseType, DiscardType, CompareType, ForgetIndexType, ReferencesType,
     ContextType, ForgetContextType, TestType, TakeMarkerBufferType
<1> QED
  BY <1>1, <1>2

LEMMA StutterType ==
    ASSUME Types, PlacesOK, UNCHANGED vars
    PROVE  Types' /\ PlacesOK'
<1> USE DEF vars, buffers, counts, codec, marks, threads, past
<1>1. BuffersType' /\ IndexType' /\ CountsType' /\ CommandsType' /\ MarkersType'
  BY DEF Types, BuffersType, IndexType, CountsType, CommandsType, Contexts, MarkersType, Marks
<1>2. LockType' /\ InputType' /\ PastType'
  BY DEF Types, LockType, InputType, PastType, Contexts
<1>3. PlacesOK'
  BY DEF PlacesOK, Released
<1> QED
  BY <1>1, <1>2, <1>3 DEF Types

LEMMA TypesCorrect == Spec => [](Types /\ PlacesOK)
<1>1. Types /\ PlacesOK /\ [Next]_vars => (Types /\ PlacesOK)'
  BY NextType, StutterType
<1> QED
  BY <1>1, InitType, PTL DEF Spec


-----------------------------------------------------------------------------
(* The order of pictures, and markers. *)

LEMMA NumberTypes ==
    ASSUME Types
    PROVE  /\ completed \in Nat /\ prepared \in Nat /\ failed \in Nat /\ discardUntil \in Nat
           /\ work.number \in Nat /\ markers \in Nat
           /\ Len(mme) \in Nat /\ DOMAIN mme = 1 .. Len(mme)
           /\ \A i \in DOMAIN mme : mme[i] \in Contexts /\ mme[i].number \in Nat
           /\ mme # <<>> => Head(mme) = mme[1] /\ Len(mme) > 0
           /\ marker.number \in Nat /\ marker.at \in Nat
           /\ \A m \in passed : m.number \in Nat /\ m.at \in Nat
           /\ \A b \in Buffers : state[b].busy \in Nat /\ state[b].pinned \in Nat
           /\ refs \in [Buffers -> Nat] /\ output \in [Buffers -> Nat]
<1>1. MaxPictures[direct] \in Nat
  BY MaxType DEF Types
<1>2. completed \in Nat /\ prepared \in Nat /\ failed \in Nat /\ discardUntil \in Nat
      /\ work.number \in Nat /\ markers \in Nat
  BY <1>1, BoundsAssumption DEF Types, CountsType, PastType, InputType, Contexts
<1>3. mme \in Seq(Contexts)
  BY DEF Types, CommandsType
<1>4. /\ Len(mme) \in Nat /\ DOMAIN mme = 1 .. Len(mme)
      /\ \A i \in DOMAIN mme : mme[i] \in Contexts
      /\ mme # <<>> => Head(mme) = mme[1] /\ Len(mme) > 0
  BY <1>3
<1>5. \A c \in Contexts : c.number \in Nat
  BY <1>1 DEF Contexts
<1>6. /\ marker.number \in Nat /\ marker.at \in Nat
      /\ \A m \in passed : m.number \in Nat /\ m.at \in Nat
  BY <1>1, BoundsAssumption DEF Types, MarkersType, Marks
<1>7. /\ \A b \in Buffers : state[b].busy \in Nat /\ state[b].pinned \in Nat
      /\ refs \in [Buffers -> Nat] /\ output \in [Buffers -> Nat]
  BY DEF Types, BuffersType, BufferStates
<1> QED
  BY <1>2, <1>4, <1>5, <1>6, <1>7

LEMMA CountTypes ==
    ASSUME Types, NEW b \in Buffers
    PROVE  /\ state[b] \in BufferStates
           /\ state[b].busy \in Nat /\ state[b].pinned \in Nat /\ state[b].out \in BOOLEAN
BY DEF Types, BuffersType, BufferStates

\* Counts that do not grow stay within their limits.
LEMMA LimitsKept ==
    ASSUME Types, Types', LimitsOK, prepared' = prepared, failed' \in {failed, failed + 1},
           \A b \in Buffers : state'[b].busy <= state[b].busy /\ state'[b].pinned <= state[b].pinned,
           pc["decode"] = "send" => pc'["decode"] = "send",
           pc["decode"] \in {"use", "count"} => pc'["decode"] \in {"use", "count", "send"}
    PROVE  LimitsOK'
<1> SUFFICES ASSUME NEW b \in Buffers
             PROVE  /\ state'[b].busy <= prepared' + (IF pc'["decode"] = "send" THEN 1 ELSE 0)
                    /\ state'[b].pinned <= prepared' + failed'
                           + (IF pc'["decode"] \in {"use", "count", "send"} THEN 1 ELSE 0)
  BY DEF LimitsOK
<1>1. /\ state[b].busy \in Nat /\ state[b].pinned \in Nat
      /\ state'[b].busy \in Nat /\ state'[b].pinned \in Nat
  BY CountTypes DEF Types, BuffersType, BufferStates
<1>2. /\ state[b].busy <= prepared + (IF pc["decode"] = "send" THEN 1 ELSE 0)
      /\ state[b].pinned <= prepared + failed
                            + (IF pc["decode"] \in {"use", "count", "send"} THEN 1 ELSE 0)
  BY DEF LimitsOK
<1>3. prepared \in Nat /\ failed \in Nat
  BY NumberTypes
<1> QED
  BY <1>1, <1>2, <1>3

LEMMA DropShrinks ==
    ASSUME Types, NEW b \in Buffers, refs[b] # 0, Drop(b)
    PROVE  \A c \in Buffers : state'[c].busy <= state[c].busy /\ state'[c].pinned <= state[c].pinned
<1> SUFFICES ASSUME NEW c \in Buffers
             PROVE  state'[c].busy <= state[c].busy /\ state'[c].pinned <= state[c].pinned
  OBVIOUS
<1>1. state'[c] = state[c] \/ state'[c] = Fresh
  BY DropEffect DEF Types
<1> QED
  BY <1>1, CountTypes, FreshType

CountsKept == OrderOK' /\ WorkOK' /\ LimitsOK' /\ NewFramesKept' /\ MarkersOK' /\ HeldOK'

LEMMA GetFailsCounts ==
    ASSUME CountInv, Types', PlacesOK', wild = "no", wild' = "no", GetFails
    PROVE  CountsKept
<1> USE NumberTypes DEF CountInv
<1>1. pc \in [Threads -> Labels]
  BY DEF PlacesOK
<1>2. OrderOK'
  <2>1. UNCHANGED <<mme, completed, prepared>> /\ failed' = failed + 1
    BY DEF GetFails, Undefined, Fails, counts
  <2> QED
    BY SMTT(30), <2>1 DEF OrderOK
<1>3. WorkOK'
  <2>1. /\ UNCHANGED <<mme, prepared, work, picture>> /\ pc["decode"] = "obtain"
        /\ pc' = [pc EXCEPT !["decode"] = "context"]
    BY DEF GetFails, Undefined, Goto, counts
  <2> QED
    BY SMTT(30), <1>1, <2>1 DEF WorkOK, OrderOK, Outputs, Releases, Threads
<1>4. LimitsOK'
  BY SMTT(30), <1>1 DEF LimitsOK, GetFails, Undefined, Fails, Goto, buffers, counts, codec, marks,
     past, threads
<1>5. NewFramesKept'
  <2>1. /\ UNCHANGED <<mme, discardUntil>> /\ failed' = failed + 1
        /\ pc' = [pc EXCEPT !["decode"] = "context"]
    BY DEF GetFails, Undefined, Fails, Goto, counts
  <2>2. pc["mme"] = "discard" => Head(mme).number \in Nat
    BY DEF PlacesOK, Releases
  <2> QED
    BY <1>1, <2>1, <2>2 DEF NewFramesKept, Threads
<1>6. MarkersOK'
  BY <1>1 DEF MarkersOK, MarkerBehindDecodes, Threads, NoMarker, GetFails, Undefined, Fails,
     Goto, buffers, counts, codec, marks, past, threads
<1>7. HeldOK'
  BY <1>1 DEF HeldOK, Tests, Threads, NoMarker, GetFails, Undefined, Fails, Goto, buffers,
     counts, codec, marks, past, threads
<1> QED
  BY <1>2, <1>3, <1>4, <1>5, <1>6, <1>7 DEF CountsKept

LEMMA KeepDecodeBufferCounts ==
    ASSUME CountInv, Types', PlacesOK', wild = "no", wild' = "no", KeepDecodeBuffer
    PROVE  CountsKept
<1> USE NumberTypes DEF CountInv
<1>1. pc \in [Threads -> Labels]
  BY DEF PlacesOK
<1>2. OrderOK'
  BY DEF OrderOK, KeepDecodeBuffer, buffers, counts, codec, marks, past, threads
<1>3. WorkOK'
  BY <1>1 DEF WorkOK, OrderOK, Outputs, Releases, KeepDecodeBuffer, Goto, buffers, counts,
     codec, marks, past, threads
<1>4. LimitsOK'
  BY <1>1 DEF LimitsOK, KeepDecodeBuffer, Goto, buffers, counts, codec, marks, past, threads
<1>5. NewFramesKept'
  BY <1>1 DEF NewFramesKept, Outputs, Releases, Tests, KeepDecodeBuffer, Goto, buffers,
     counts, codec, marks, past, threads
<1>6. MarkersOK'
  BY <1>1 DEF MarkersOK, MarkerBehindDecodes, Threads, NoMarker, KeepDecodeBuffer, Goto,
     buffers, counts, codec, marks, past, threads
<1>7. HeldOK'
  BY <1>1 DEF HeldOK, Tests, Threads, NoMarker, KeepDecodeBuffer, Goto, buffers, counts,
     codec, marks, past, threads
<1> QED
  BY <1>2, <1>3, <1>4, <1>5, <1>6, <1>7 DEF CountsKept

LEMMA InitializeBufferCounts ==
    ASSUME CountInv, Types', PlacesOK', wild = "no", wild' = "no", InitializeBuffer
    PROVE  CountsKept
<1> USE NumberTypes DEF CountInv
<1>1. pc \in [Threads -> Labels]
  BY DEF PlacesOK
<1>2. OrderOK'
  <2>1. UNCHANGED <<mme, completed, prepared>> /\ (failed' = failed \/ failed' = failed + 1)
    BY InitializeEffect DEF counts, marks
  <2> QED
    BY SMTT(30), <2>1 DEF OrderOK
<1>3. WorkOK'
  <2>1. /\ UNCHANGED <<mme, prepared, picture>> /\ pc["decode"] = "initialize"
        /\ work'.number = work.number
        /\ \E l \in {"prepare", "context"} : pc' = [pc EXCEPT !["decode"] = l]
    BY InitializeEffect DEF counts, marks
  <2> QED
    BY <1>1, <2>1 DEF WorkOK, OrderOK, Outputs, Releases, Threads
<1>4. LimitsOK'
  <2>1. UNCHANGED prepared /\ failed' \in {failed, failed + 1}
    BY InitializeEffect DEF counts, marks
  <2>2. /\ pc["decode"] = "send" => pc'["decode"] = "send"
        /\ pc["decode"] \in {"use", "count"} => pc'["decode"] \in {"use", "count", "send"}
    BY <1>1, InitializeEffect DEF Threads
  <2>3. \A c \in Buffers : state'[c].busy <= state[c].busy /\ state'[c].pinned <= state[c].pinned
    <3>1. \A c \in Buffers : state'[c] = state[c] \/ state'[c] = Fresh
      BY InitializeEffect
    <3> QED
      BY SMTT(30), <3>1, CountTypes, FreshType
  <2> QED
    BY <2>1, <2>2, <2>3, LimitsKept
<1>5. NewFramesKept'
  <2>1. /\ UNCHANGED <<mme, discardUntil>> /\ (failed' = failed \/ failed' = failed + 1)
        /\ \E l \in {"prepare", "context"} : pc' = [pc EXCEPT !["decode"] = l]
    BY InitializeEffect DEF counts, marks
  <2>2. pc["mme"] = "discard" => Head(mme).number \in Nat
    BY DEF PlacesOK, Releases
  <2> QED
    BY <1>1, <2>1, <2>2 DEF NewFramesKept, Threads
<1>6. MarkersOK'
  <2>1. /\ UNCHANGED <<marker, markers, completed, passed>>
        /\ \E l \in {"prepare", "context"} : pc' = [pc EXCEPT !["decode"] = l]
    BY InitializeEffect DEF counts, marks
  <2> QED
    BY <1>1, <2>1 DEF MarkersOK, MarkerBehindDecodes, Threads
<1>7. HeldOK'
  <2>1. /\ UNCHANGED <<marker, prepared, completed>> /\ pc["decode"] = "initialize"
        /\ \E l \in {"prepare", "context"} : pc' = [pc EXCEPT !["decode"] = l]
    BY InitializeEffect DEF counts, marks
  <2> QED
    BY <1>1, <2>1 DEF HeldOK, Tests, Threads
<1> QED
  BY <1>2, <1>3, <1>4, <1>5, <1>6, <1>7 DEF CountsKept

LEMMA KeepFailsCounts ==
    ASSUME CountInv, Types', PlacesOK', wild = "no", wild' = "no", KeepFails
    PROVE  CountsKept
<1> USE NumberTypes DEF CountInv
<1>1. pc \in [Threads -> Labels]
  BY DEF PlacesOK
<1>2. OrderOK'
  <2>1. UNCHANGED <<mme, completed, prepared>> /\ (failed' = failed \/ failed' = failed + 1)
    BY DEF KeepFails, Fails, Goto, buffers, counts, marks
  <2> QED
    BY SMTT(30), <2>1 DEF OrderOK
<1>3. WorkOK'
  <2>1. /\ UNCHANGED <<mme, prepared>> /\ picture' = NoPicture
        /\ pc' = [pc EXCEPT !["decode"] = "look"]
    BY DEF KeepFails, Fails, Goto, buffers, counts, marks
  <2> QED
    BY <1>1, <2>1 DEF WorkOK, Outputs, Releases, Threads
<1>4. LimitsOK'
  <2>1. UNCHANGED <<state, prepared>> /\ failed' \in {failed, failed + 1}
    BY DEF KeepFails, Fails, Goto, buffers, counts, marks
  <2>2. pc["decode"] = "obtain" /\ pc' = [pc EXCEPT !["decode"] = "look"]
    BY DEF KeepFails, Fails, Goto, buffers, counts, marks
  <2>3. \A c \in Buffers : state'[c].busy <= state[c].busy /\ state'[c].pinned <= state[c].pinned
    BY <2>1
  <2> QED
    BY <1>1, <2>1, <2>2, <2>3, LimitsKept DEF Threads
<1>5. NewFramesKept'
  <2>1. /\ UNCHANGED <<mme, discardUntil>> /\ (failed' = failed \/ failed' = failed + 1)
        /\ \E l \in {"look"} : pc' = [pc EXCEPT !["decode"] = l]
    BY DEF KeepFails, Fails, Goto, buffers, counts, marks
  <2>2. pc["mme"] = "discard" => Head(mme).number \in Nat
    BY DEF PlacesOK, Releases
  <2> QED
    BY <1>1, <2>1, <2>2 DEF NewFramesKept, Threads
<1>6. MarkersOK'
  <2>1. /\ UNCHANGED <<marker, markers, completed, passed>>
        /\ \E l \in {"look"} : pc' = [pc EXCEPT !["decode"] = l]
    BY DEF KeepFails, Fails, Goto, buffers, counts, marks
  <2> QED
    BY <1>1, <2>1 DEF MarkersOK, MarkerBehindDecodes, Threads
<1>7. HeldOK'
  <2>1. /\ UNCHANGED <<marker, prepared, completed>> /\ pc["decode"] = "obtain"
        /\ \E l \in {"look"} : pc' = [pc EXCEPT !["decode"] = l]
    BY DEF KeepFails, Fails, Goto, buffers, counts, marks
  <2> QED
    BY <1>1, <2>1 DEF HeldOK, Tests, Threads
<1> QED
  BY <1>2, <1>3, <1>4, <1>5, <1>6, <1>7 DEF CountsKept

LEMMA PrepareCounts ==
    ASSUME CountInv, Types', PlacesOK', wild = "no", wild' = "no", Prepare
    PROVE  CountsKept
<1> USE NumberTypes DEF CountInv
<1>1. pc \in [Threads -> Labels]
  BY DEF PlacesOK
<1>2. OrderOK'
  <2>1. UNCHANGED <<mme, completed, prepared>> /\ (failed' = failed \/ failed' = failed + 1)
    BY PrepareEffect DEF counts, marks, past
  <2> QED
    BY SMTT(30), <2>1 DEF OrderOK
<1>3. WorkOK'
  <2>1. /\ UNCHANGED <<mme, prepared, picture>> /\ pc["decode"] = "prepare"
        /\ work'.number = work.number
        /\ \E l \in {"use"} : pc' = [pc EXCEPT !["decode"] = l]
    BY PrepareEffect DEF counts, marks, past
  <2> QED
    BY <1>1, <2>1 DEF WorkOK, OrderOK, Outputs, Releases, Threads
<1>4. LimitsOK'
  <2>1. /\ UNCHANGED <<prepared, failed>> /\ pc["decode"] = "prepare" /\ pc'["decode"] = "use"
    BY <1>1, PrepareEffect DEF counts, past, Threads
  <2> SUFFICES ASSUME NEW b \in Buffers
               PROVE  /\ state'[b].busy <= prepared'
                      /\ state'[b].pinned <= prepared' + failed' + 1
    BY <2>1 DEF LimitsOK
  <2>2. state[b].busy <= prepared /\ state[b].pinned <= prepared + failed
    BY <2>1 DEF LimitsOK
  <2>3. state'[b].busy = state[b].busy
    BY PrepareEffect
  <2>4. state'[b].pinned \in {state[b].pinned, state[b].pinned + 1}
    BY PrepareEffect
  <2>5. state[b].busy \in Nat /\ state[b].pinned \in Nat
    BY CountTypes
  <2>6. prepared \in Nat /\ failed \in Nat
    BY NumberTypes
  <2> HIDE NumberTypes
  <2> QED
    BY <2>1, <2>2, <2>3, <2>4, <2>5, <2>6
<1>5. NewFramesKept'
  <2>1. /\ UNCHANGED <<mme, discardUntil>> /\ (failed' = failed \/ failed' = failed + 1)
        /\ \E l \in {"use"} : pc' = [pc EXCEPT !["decode"] = l]
    BY PrepareEffect DEF counts, marks, past
  <2>2. pc["mme"] = "discard" => Head(mme).number \in Nat
    BY DEF PlacesOK, Releases
  <2> QED
    BY <1>1, <2>1, <2>2 DEF NewFramesKept, Threads
<1>6. MarkersOK'
  <2>1. /\ UNCHANGED <<marker, markers, completed, passed>>
        /\ \E l \in {"use"} : pc' = [pc EXCEPT !["decode"] = l]
    BY PrepareEffect DEF counts, marks, past
  <2> QED
    BY <1>1, <2>1 DEF MarkersOK, MarkerBehindDecodes, Threads
<1>7. HeldOK'
  <2>1. /\ UNCHANGED <<marker, prepared, completed>> /\ pc["decode"] = "prepare"
        /\ \E l \in {"use"} : pc' = [pc EXCEPT !["decode"] = l]
    BY PrepareEffect DEF counts, marks, past
  <2> QED
    BY <1>1, <2>1 DEF HeldOK, Tests, Threads
<1> QED
  BY <1>2, <1>3, <1>4, <1>5, <1>6, <1>7 DEF CountsKept

LEMMA UseReferenceCounts ==
    ASSUME CountInv, Types', PlacesOK', wild = "no", wild' = "no", UseReference
    PROVE  CountsKept
<1> USE NumberTypes DEF CountInv
<1>1. pc \in [Threads -> Labels]
  BY DEF PlacesOK
<1>2. OrderOK'
  <2>1. UNCHANGED <<mme, completed, prepared>> /\ (failed' = failed \/ failed' = failed + 1)
    BY UseEffect DEF counts, marks
  <2> QED
    BY SMTT(30), <2>1 DEF OrderOK
<1>3. WorkOK'
  <2>1. /\ UNCHANGED <<mme, prepared, picture>> /\ pc["decode"] = "use"
        /\ work'.number = work.number
        /\ \E l \in {"count", "context", "references"} : pc' = [pc EXCEPT !["decode"] = l]
    BY UseEffect DEF counts, marks
  <2> QED
    BY <1>1, <2>1 DEF WorkOK, OrderOK, Outputs, Releases, Threads
<1>4. LimitsOK'
  <2>1. /\ UNCHANGED <<state, prepared>> /\ pc["decode"] = "use"
        /\ \/ failed' = failed /\ pc'["decode"] = "count"
           \/ failed' = failed + 1
    BY <1>1, UseEffect DEF counts, Threads
  <2> SUFFICES ASSUME NEW b \in Buffers
               PROVE  /\ state'[b].busy <= prepared' + (IF pc'["decode"] = "send" THEN 1 ELSE 0)
                      /\ state'[b].pinned <= prepared' + failed'
                             + (IF pc'["decode"] \in {"use", "count", "send"} THEN 1 ELSE 0)
    BY DEF LimitsOK
  <2>2. state[b].busy <= prepared /\ state[b].pinned <= prepared + failed + 1
    BY <2>1 DEF LimitsOK
  <2>3. state[b].busy \in Nat /\ state[b].pinned \in Nat
    BY CountTypes
  <2>4. prepared \in Nat /\ failed \in Nat
    BY NumberTypes
  <2> HIDE NumberTypes
  <2> QED
    BY <2>1, <2>2, <2>3, <2>4
<1>5. NewFramesKept'
  <2>1. /\ UNCHANGED <<mme, discardUntil>> /\ (failed' = failed \/ failed' = failed + 1)
        /\ \E l \in {"count", "context", "references"} : pc' = [pc EXCEPT !["decode"] = l]
    BY UseEffect DEF counts, marks
  <2>2. pc["mme"] = "discard" => Head(mme).number \in Nat
    BY DEF PlacesOK, Releases
  <2> QED
    BY <1>1, <2>1, <2>2 DEF NewFramesKept, Threads
<1>6. MarkersOK'
  <2>1. /\ UNCHANGED <<marker, markers, completed, passed>>
        /\ \E l \in {"count", "context", "references"} : pc' = [pc EXCEPT !["decode"] = l]
    BY UseEffect DEF counts, marks
  <2> QED
    BY <1>1, <2>1 DEF MarkersOK, MarkerBehindDecodes, Threads
<1>7. HeldOK'
  <2>1. /\ UNCHANGED <<marker, prepared, completed>> /\ pc["decode"] = "use"
        /\ \E l \in {"count", "context", "references"} : pc' = [pc EXCEPT !["decode"] = l]
    BY UseEffect DEF counts, marks
  <2> QED
    BY <1>1, <2>1 DEF HeldOK, Tests, Threads
<1> QED
  BY <1>2, <1>3, <1>4, <1>5, <1>6, <1>7 DEF CountsKept

LEMMA CountDecodeCounts ==
    ASSUME CountInv, Types', PlacesOK', wild = "no", wild' = "no", CountDecode
    PROVE  CountsKept
<1> USE NumberTypes DEF CountInv
<1>1. pc \in [Threads -> Labels]
  BY DEF PlacesOK
<1>2. OrderOK'
  BY DEF OrderOK, CountDecode, Undefined, buffers, counts, codec, marks, past, threads
<1>3. WorkOK'
  BY <1>1, CountEffect DEF WorkOK, counts, Outputs, Releases, Threads
<1>4. LimitsOK'
  <2>1. UNCHANGED <<prepared, failed>> /\ pc["decode"] = "count" /\ pc'["decode"] = "send"
    BY <1>1, CountEffect DEF counts, past, Threads
  <2> SUFFICES ASSUME NEW b \in Buffers
               PROVE  /\ state'[b].busy <= prepared' + 1
                      /\ state'[b].pinned <= prepared' + failed' + 1
    BY <2>1 DEF LimitsOK
  <2>2. /\ state[b].busy <= prepared /\ state[b].pinned <= prepared + failed + 1
    BY <2>1 DEF LimitsOK
  <2>3. state'[b].busy \in {state[b].busy, state[b].busy + 1} /\ state'[b].pinned = state[b].pinned
    BY CountEffect
  <2>4. state[b].busy \in Nat /\ state[b].pinned \in Nat
    BY CountTypes
  <2>5. prepared \in Nat /\ failed \in Nat
    BY NumberTypes
  <2> HIDE NumberTypes
  <2> QED
    BY <2>1, <2>2, <2>3, <2>4, <2>5
<1>5. NewFramesKept'
  BY <1>1, CountEffect DEF NewFramesKept, counts, past, Threads
<1>6. MarkersOK'
  BY <1>1 DEF MarkersOK, MarkerBehindDecodes, Threads, NoMarker, CountDecode, Undefined,
     Goto, buffers, counts, codec, marks, past, threads
<1>7. HeldOK'
  BY <1>1 DEF HeldOK, Tests, Threads, NoMarker, CountDecode, Undefined, Goto, buffers,
     counts, codec, marks, past, threads
<1> QED
  BY <1>2, <1>3, <1>4, <1>5, <1>6, <1>7 DEF CountsKept

LEMMA SendMMEDecodeCommandCounts ==
    ASSUME CountInv, Types', PlacesOK', wild = "no", wild' = "no", SendMMEDecodeCommand
    PROVE  CountsKept
<1> USE NumberTypes DEF CountInv
<1>1. pc \in [Threads -> Labels]
  BY DEF PlacesOK
<1>2. OrderOK'
  <2>1. UNCHANGED completed /\ prepared' = prepared + 1 /\ work.number = prepared + 1
    BY DEF SendMMEDecodeCommand, Undefined, WorkOK
  <2>2. CASE mme' = Append(mme, work) /\ UNCHANGED failed
    <3>1. /\ Len(mme') = Len(mme) + 1 /\ DOMAIN mme' = 1 .. Len(mme) + 1
          /\ \A i \in DOMAIN mme : mme'[i] = mme[i]
          /\ mme'[Len(mme) + 1] = work
      BY <2>2, SendEffect DEF Types, InputType
    <3>2. \A i \in DOMAIN mme' : /\ mme'[i].number <= completed' + failed' + i
                               /\ mme'[i].number <= prepared'
      BY SMTT(30), <2>1, <2>2, <3>1 DEF OrderOK
    <3>3. \A i, j \in DOMAIN mme' : i < j => mme'[i].number < mme'[j].number
      <4> SUFFICES ASSUME NEW i \in DOMAIN mme', NEW j \in DOMAIN mme', i < j
                   PROVE  mme'[i].number < mme'[j].number
        OBVIOUS
      <4>1. i \in DOMAIN mme /\ mme'[i] = mme[i] /\ mme[i].number < prepared + 1
        BY SMTT(30), <3>1 DEF OrderOK
      <4>2. CASE j = Len(mme) + 1
        BY <2>1, <3>1, <4>1, <4>2
      <4>3. CASE j # Len(mme) + 1
        <5>1. j \in DOMAIN mme /\ mme'[j] = mme[j]
          BY <3>1, <4>3
        <5> QED
          BY <4>1, <5>1 DEF OrderOK
      <4> QED
        BY <4>2, <4>3
    <3>4. prepared' <= completed' + Len(mme') + failed'
      BY <2>1, <2>2, <3>1 DEF OrderOK
    <3> QED
      BY <3>2, <3>3, <3>4 DEF OrderOK
  <2>3. CASE UNCHANGED mme /\ failed' = failed + 1
    <3>1. \A i \in DOMAIN mme : /\ mme[i].number <= completed + failed + i
                              /\ mme[i].number <= prepared /\ i \in Nat
      BY DEF OrderOK
    <3>2. \A i \in DOMAIN mme : /\ mme[i].number <= completed + (failed + 1) + i
                              /\ mme[i].number <= prepared + 1
      BY SMTT(30), <3>1
    <3>3. prepared + 1 <= completed + Len(mme) + (failed + 1)
      BY DEF OrderOK
    <3> QED
      BY <2>1, <2>3, <3>2, <3>3 DEF OrderOK
  <2>4. \/ mme' = Append(mme, work) /\ UNCHANGED failed
        \/ UNCHANGED mme /\ failed' = failed + 1
    BY Zenon DEF SendMMEDecodeCommand, Undefined, Fails
  <2> QED
    BY <2>2, <2>3, <2>4
<1>3. WorkOK'
  <2>1. /\ prepared' = prepared + 1 /\ work.number = prepared + 1 /\ UNCHANGED work
        /\ \/ pc' = [pc EXCEPT !["decode"] = "finish"]
           \/ pc' = [pc EXCEPT !["decode"] = "release"] /\ UNCHANGED mme
    BY DEF SendMMEDecodeCommand, Undefined, WorkOK, Goto
  <2>2. CASE pc' = [pc EXCEPT !["decode"] = "finish"]
    BY <1>1, <2>2 DEF WorkOK, Outputs, Releases, Threads
  <2>3. CASE pc' = [pc EXCEPT !["decode"] = "release"] /\ UNCHANGED mme
    <3>1. \A i \in DOMAIN mme : mme[i].number < work.number
      BY SMTT(30), <2>1 DEF OrderOK
    <3> QED
      BY <1>1, <2>1, <2>3, <3>1 DEF WorkOK, Outputs, Releases, Threads
  <2> QED
    BY <2>1, <2>2, <2>3
<1>4. LimitsOK'
  <2>1. /\ prepared' = prepared + 1 /\ failed' \in {failed, failed + 1} /\ UNCHANGED state
        /\ pc["decode"] = "send" /\ pc'["decode"] \in {"finish", "release"}
    BY <1>1 DEF SendMMEDecodeCommand, Undefined, Fails, Goto, Threads, buffers
  <2> SUFFICES ASSUME NEW b \in Buffers
               PROVE  state'[b].busy <= prepared' + 0 /\ state'[b].pinned <= prepared' + failed' + 0
    BY <2>1 DEF LimitsOK
  <2>2. state[b].busy <= prepared + 1 /\ state[b].pinned <= prepared + failed + 1
    BY <2>1 DEF LimitsOK
  <2>3. /\ state[b].busy \in Nat /\ state[b].pinned \in Nat
        /\ prepared \in Nat /\ failed \in Nat
    BY CountTypes, NumberTypes
  <2> HIDE NumberTypes
  <2> QED
    BY <2>1, <2>2, <2>3
<1>5. NewFramesKept'
  <2>1. UNCHANGED discardUntil /\ failed' >= failed /\ pc'["mme"] = pc["mme"]
    BY <1>1 DEF SendMMEDecodeCommand, Undefined, Goto, Fails, Threads
  <2>2. pc["mme"] = "discard" => mme # <<>>
    BY DEF PlacesOK, Releases
  <2>3. mme # <<>> => Head(mme') = Head(mme)
    <3>1. mme' = mme \/ mme' = Append(mme, work)
      BY DEF SendMMEDecodeCommand, Undefined
    <3> QED
      BY SMTT(30), <3>1 DEF Types, CommandsType, InputType
  <2>4. failed' \in Nat
    BY DEF SendMMEDecodeCommand, Undefined, Fails
  <2>5. mme # <<>> => Head(mme).number \in Nat
    OBVIOUS
  <2> QED
    BY <2>1, <2>2, <2>3, <2>4, <2>5 DEF NewFramesKept
<1>6. MarkersOK'
  BY <1>1 DEF MarkersOK, MarkerBehindDecodes, Threads, NoMarker, SendMMEDecodeCommand,
     Undefined, Fails, Goto, buffers, counts, codec, marks, past, threads
<1>7. HeldOK'
  <2>1. /\ prepared' = prepared + 1 /\ UNCHANGED <<marker, completed>>
        /\ pc["decode"] = "send" /\ \E l \in {"finish", "release"} : pc' = [pc EXCEPT !["decode"] = l]
    BY DEF SendMMEDecodeCommand, Undefined, Goto, marks
  <2> QED
    BY <1>1, <2>1 DEF HeldOK, Tests, Threads
<1> QED
  BY <1>2, <1>3, <1>4, <1>5, <1>6, <1>7 DEF CountsKept

LEMMA FinishCounts ==
    ASSUME CountInv, Types', PlacesOK', wild = "no", wild' = "no", Finish
    PROVE  CountsKept
<1> USE NumberTypes DEF CountInv
<1>1. pc \in [Threads -> Labels]
  BY DEF PlacesOK
<1>2. OrderOK'
  BY DEF OrderOK, Finish, NoContext, NoPicture, buffers, counts, codec, marks, past, threads
<1>3. WorkOK'
  BY <1>1 DEF WorkOK, OrderOK, Outputs, Releases, Finish, NoContext, NoPicture, Goto,
     buffers, counts, codec, marks, past, threads
<1>4. LimitsOK'
  BY <1>1 DEF LimitsOK, Finish, NoContext, NoPicture, Goto, buffers, counts, codec, marks,
     past, threads
<1>5. NewFramesKept'
  BY <1>1 DEF NewFramesKept, Outputs, Releases, Tests, Finish, NoContext, NoPicture, Goto,
     buffers, counts, codec, marks, past, threads
<1>6. MarkersOK'
  BY <1>1 DEF MarkersOK, MarkerBehindDecodes, Threads, NoMarker, Finish, NoContext,
     NoPicture, Goto, buffers, counts, codec, marks, past, threads
<1>7. HeldOK'
  BY <1>1 DEF HeldOK, Tests, Threads, NoMarker, Finish, NoContext, NoPicture, Goto, buffers,
     counts, codec, marks, past, threads
<1> QED
  BY <1>2, <1>3, <1>4, <1>5, <1>6, <1>7 DEF CountsKept

LEMMA FailedCounts ==
    ASSUME CountInv, Types', PlacesOK', wild = "no", wild' = "no", Failed
    PROVE  CountsKept
<1> USE NumberTypes DEF CountInv
<1>1. pc \in [Threads -> Labels]
  BY DEF PlacesOK
<1>2. OrderOK'
  BY DEF OrderOK, Failed, NoContext, NoPicture, buffers, counts, codec, marks, past, threads
<1>3. WorkOK'
  <2>1. picture' = NoPicture /\ pc' = [pc EXCEPT !["decode"] = IF picture.first THEN "look" ELSE "idle"]
    BY DEF Failed, Goto
  <2> QED
    BY <1>1, <2>1 DEF WorkOK, Outputs, Releases, Threads
<1>4. LimitsOK'
  BY <1>1 DEF LimitsOK, Failed, NoContext, NoPicture, Goto, buffers, counts, codec, marks,
     past, threads
<1>5. NewFramesKept'
  BY <1>1 DEF NewFramesKept, Outputs, Releases, Tests, Failed, NoContext, NoPicture, Goto,
     buffers, counts, codec, marks, past, threads
<1>6. MarkersOK'
  BY <1>1 DEF MarkersOK, MarkerBehindDecodes, Threads, NoMarker, Failed, NoContext,
     NoPicture, Goto, buffers, counts, codec, marks, past, threads
<1>7. HeldOK'
  BY <1>1 DEF HeldOK, Tests, Threads, NoMarker, Failed, NoContext, NoPicture, Goto, buffers,
     counts, codec, marks, past, threads
<1> QED
  BY <1>2, <1>3, <1>4, <1>5, <1>6, <1>7 DEF CountsKept

LEMMA InputMarkerCounts ==
    ASSUME CountInv, Types', PlacesOK', wild = "no", wild' = "no", InputMarker
    PROVE  CountsKept
<1> USE NumberTypes DEF CountInv
<1>1. pc \in [Threads -> Labels]
  BY DEF PlacesOK
<1>2. OrderOK'
  BY DEF OrderOK, InputMarker, buffers, counts, codec, marks, past, threads
<1>3. WorkOK'
  BY <1>1 DEF WorkOK, OrderOK, Outputs, Releases, InputMarker, Goto, buffers, counts, codec,
     marks, past, threads
<1>4. LimitsOK'
  BY <1>1 DEF LimitsOK, InputMarker, Goto, buffers, counts, codec, marks, past, threads
<1>5. NewFramesKept'
  BY <1>1 DEF NewFramesKept, Outputs, Releases, Tests, InputMarker, Goto, buffers, counts,
     codec, marks, past, threads
<1>6. MarkersOK'
  BY <1>1 DEF MarkersOK, MarkerBehindDecodes, Threads, NoMarker, InputMarker, Goto, buffers,
     counts, codec, marks, past, threads
<1>7. HeldOK'
  BY <1>1 DEF HeldOK, Tests, Threads, NoMarker, InputMarker, Goto, buffers, counts, codec,
     marks, past, threads
<1> QED
  BY <1>2, <1>3, <1>4, <1>5, <1>6, <1>7 DEF CountsKept

LEMMA MarkerFailsCounts ==
    ASSUME CountInv, Types', PlacesOK', wild = "no", wild' = "no", MarkerFails
    PROVE  CountsKept
<1> USE NumberTypes DEF CountInv
<1>1. pc \in [Threads -> Labels]
  BY DEF PlacesOK
<1>2. OrderOK'
  <2>1. UNCHANGED <<mme, completed, prepared>> /\ (failed' = failed \/ failed' = failed + 1)
    BY DEF MarkerFails, Fails, Goto, buffers, counts, marks
  <2> QED
    BY SMTT(30), <2>1 DEF OrderOK
<1>3. WorkOK'
  <2>1. pc' = [pc EXCEPT !["decode"] = "idle"]
    BY DEF MarkerFails, Fails, Goto, buffers, counts, marks
  <2> QED
    BY <1>1, <2>1 DEF WorkOK, Outputs, Releases, Threads
<1>4. LimitsOK'
  <2>1. UNCHANGED <<state, prepared>> /\ failed' \in {failed, failed + 1}
    BY DEF MarkerFails, Fails, Goto, buffers, counts, marks
  <2>2. pc["decode"] = "marker" /\ pc' = [pc EXCEPT !["decode"] = "idle"]
    BY DEF MarkerFails, Fails, Goto, buffers, counts, marks
  <2>3. \A c \in Buffers : state'[c].busy <= state[c].busy /\ state'[c].pinned <= state[c].pinned
    BY <2>1
  <2> QED
    BY <1>1, <2>1, <2>2, <2>3, LimitsKept DEF Threads
<1>5. NewFramesKept'
  <2>1. /\ UNCHANGED <<mme, discardUntil>> /\ (failed' = failed \/ failed' = failed + 1)
        /\ \E l \in {"idle"} : pc' = [pc EXCEPT !["decode"] = l]
    BY DEF MarkerFails, Fails, Goto, buffers, counts, marks
  <2>2. pc["mme"] = "discard" => Head(mme).number \in Nat
    BY DEF PlacesOK, Releases
  <2> QED
    BY <1>1, <2>1, <2>2 DEF NewFramesKept, Threads
<1>6. MarkersOK'
  <2>1. /\ UNCHANGED <<marker, markers, completed, passed>>
        /\ \E l \in {"idle"} : pc' = [pc EXCEPT !["decode"] = l]
    BY DEF MarkerFails, Fails, Goto, buffers, counts, marks
  <2> QED
    BY <1>1, <2>1 DEF MarkersOK, MarkerBehindDecodes, Threads
<1>7. HeldOK'
  <2>1. /\ UNCHANGED <<marker, prepared, completed>> /\ pc["decode"] = "marker"
        /\ \E l \in {"idle"} : pc' = [pc EXCEPT !["decode"] = l]
    BY DEF MarkerFails, Fails, Goto, buffers, counts, marks
  <2> QED
    BY <1>1, <2>1 DEF HeldOK, Tests, Threads
<1> QED
  BY <1>2, <1>3, <1>4, <1>5, <1>6, <1>7 DEF CountsKept

LEMMA HoldMarkerCounts ==
    ASSUME CountInv, Types', PlacesOK', wild = "no", wild' = "no", HoldMarker
    PROVE  CountsKept
<1> USE NumberTypes DEF CountInv
<1>1. pc \in [Threads -> Labels]
  BY DEF PlacesOK
<1>2. OrderOK'
  BY DEF OrderOK, HoldMarker, buffers, counts, codec, marks, past, threads
<1>3. WorkOK'
  BY <1>1 DEF WorkOK, OrderOK, Outputs, Releases, HoldMarker, Goto, buffers, counts, codec,
     marks, past, threads
<1>4. LimitsOK'
  BY <1>1 DEF LimitsOK, HoldMarker, Goto, buffers, counts, codec, marks, past, threads
<1>5. NewFramesKept'
  BY <1>1 DEF NewFramesKept, Outputs, Releases, Tests, HoldMarker, Goto, buffers, counts,
     codec, marks, past, threads
<1>6. MarkersOK'
  BY <1>1 DEF MarkersOK, MarkerBehindDecodes, Threads, NoMarker, HoldMarker, Goto, buffers,
     counts, codec, marks, past, threads
<1>7. HeldOK'
  BY <1>1 DEF HeldOK, Tests, Threads, NoMarker, HoldMarker, Goto, buffers, counts, codec,
     marks, past, threads
<1> QED
  BY <1>2, <1>3, <1>4, <1>5, <1>6, <1>7 DEF CountsKept

LEMMA InputPictureCounts ==
    ASSUME CountInv, Types', PlacesOK', wild = "no", wild' = "no", InputPicture
    PROVE  CountsKept
<1> USE NumberTypes DEF CountInv
<1>1. pc \in [Threads -> Labels]
  BY DEF PlacesOK
<1>2. OrderOK'
  BY DEF OrderOK, InputPicture, NoContext, buffers, counts, codec, marks, past, threads
<1>3. WorkOK'
  BY <1>1 DEF WorkOK, OrderOK, Outputs, Releases, InputPicture, NoContext, Goto, buffers,
     counts, codec, marks, past, threads
<1>4. LimitsOK'
  BY <1>1 DEF LimitsOK, InputPicture, NoContext, Goto, buffers, counts, codec, marks, past,
     threads
<1>5. NewFramesKept'
  BY <1>1 DEF NewFramesKept, Outputs, Releases, Tests, InputPicture, NoContext, Goto,
     buffers, counts, codec, marks, past, threads
<1>6. MarkersOK'
  BY <1>1 DEF MarkersOK, MarkerBehindDecodes, Threads, NoMarker, InputPicture, NoContext,
     Goto, buffers, counts, codec, marks, past, threads
<1>7. HeldOK'
  BY <1>1 DEF HeldOK, Tests, Threads, NoMarker, InputPicture, NoContext, Goto, buffers,
     counts, codec, marks, past, threads
<1> QED
  BY <1>2, <1>3, <1>4, <1>5, <1>6, <1>7 DEF CountsKept

LEMMA OutputInSequenceCounts ==
    ASSUME CountInv, Types', PlacesOK', wild = "no", wild' = "no", OutputInSequence
    PROVE  CountsKept
<1> USE NumberTypes DEF CountInv
<1>1. pc \in [Threads -> Labels]
  BY DEF PlacesOK
<1>2. OrderOK'
  BY DEF OrderOK, OutputInSequence, buffers, counts, codec, marks, past, threads
<1>3. WorkOK'
  <2>1. /\ UNCHANGED <<mme, prepared, work, picture>> /\ picture = NoPicture
        /\ pc' = [pc EXCEPT !["decode"] = "look"]
    BY DEF OutputInSequence, Goto, counts, PlacesOK
  <2> QED
    BY <1>1, <2>1 DEF WorkOK, Outputs, Releases, Threads
<1>4. LimitsOK'
  BY <1>1 DEF LimitsOK, OutputInSequence, Goto, buffers, counts, codec, marks, past, threads
<1>5. NewFramesKept'
  BY <1>1 DEF NewFramesKept, Outputs, Releases, Tests, OutputInSequence, Goto, buffers,
     counts, codec, marks, past, threads
<1>6. MarkersOK'
  BY <1>1 DEF MarkersOK, MarkerBehindDecodes, Threads, NoMarker, OutputInSequence, Goto,
     buffers, counts, codec, marks, past, threads
<1>7. HeldOK'
  BY <1>1 DEF HeldOK, Tests, Threads, NoMarker, OutputInSequence, Goto, buffers, counts,
     codec, marks, past, threads
<1> QED
  BY <1>2, <1>3, <1>4, <1>5, <1>6, <1>7 DEF CountsKept

LEMMA CompletedCounts ==
    ASSUME CountInv, Types', PlacesOK', wild = "no", wild' = "no", Completed
    PROVE  CountsKept
<1> USE NumberTypes DEF CountInv
<1>1. pc \in [Threads -> Labels]
  BY DEF PlacesOK
<1>2. OrderOK'
  <2>1. mme # <<>> /\ completed' = completed + 1 /\ UNCHANGED <<prepared, failed>>
    BY DEF Completed, PlacesOK, Releases, past
  <2>2. mme' = Tail(mme)
    BY DEF Completed
  <2>3. /\ Len(mme') = Len(mme) - 1 /\ DOMAIN mme' = 1 .. Len(mme) - 1
        /\ \A i \in DOMAIN mme' : i + 1 \in DOMAIN mme /\ mme'[i] = mme[i + 1]
    BY <2>1, <2>2, CompletedEffect DEF Types
  <2>4. \A i \in DOMAIN mme' : /\ mme'[i].number <= completed' + failed' + i
                             /\ mme'[i].number <= prepared'
    <3> SUFFICES ASSUME NEW i \in DOMAIN mme'
                 PROVE  /\ mme'[i].number <= completed' + failed' + i
                        /\ mme'[i].number <= prepared'
      OBVIOUS
    <3>1. i \in Nat /\ i + 1 \in DOMAIN mme /\ mme'[i] = mme[i + 1]
      BY <2>3
    <3>2. mme[i + 1].number <= completed + failed + (i + 1) /\ mme[i + 1].number <= prepared
      BY <3>1 DEF OrderOK
    <3> QED
      BY <2>1, <3>1, <3>2
  <2>5. \A i, j \in DOMAIN mme' : i < j => mme'[i].number < mme'[j].number
    <3> SUFFICES ASSUME NEW i \in DOMAIN mme', NEW j \in DOMAIN mme', i < j
                 PROVE  mme'[i].number < mme'[j].number
      OBVIOUS
    <3>1. i \in Nat /\ i + 1 \in DOMAIN mme /\ mme'[i] = mme[i + 1]
      BY <2>3
    <3>2. j \in Nat /\ j + 1 \in DOMAIN mme /\ mme'[j] = mme[j + 1]
      BY <2>3
    <3>3. i + 1 < j + 1
      BY <3>1, <3>2
    <3>4. \A k, l \in DOMAIN mme : k < l => mme[k].number < mme[l].number
      BY DEF OrderOK
    <3> HIDE NumberTypes
    <3> QED
      BY <3>1, <3>2, <3>3, <3>4
  <2>6. prepared' <= completed' + Len(mme') + failed'
    BY <2>1, <2>3 DEF OrderOK
  <2> QED
    BY <2>4, <2>5, <2>6 DEF OrderOK
<1>3. WorkOK'
  <2>1. mme # <<>> /\ UNCHANGED <<prepared, work, picture>> /\ pc'["decode"] = pc["decode"]
    BY <1>1 DEF Completed, PlacesOK, Releases, Threads, Goto
  <2>2. \A i \in DOMAIN mme' : i + 1 \in DOMAIN mme /\ mme'[i] = mme[i + 1]
    BY <2>1, CompletedEffect DEF Types, Completed
  <2> QED
    BY <2>1, <2>2 DEF WorkOK
<1>4. LimitsOK'
  BY <1>1 DEF LimitsOK, Completed, Goto, buffers, counts, codec, marks, past, threads
<1>5. NewFramesKept'
  BY <1>1 DEF NewFramesKept, Outputs, Releases, Tests, Completed, Goto, buffers, counts,
     codec, marks, past, threads
<1>6. MarkersOK'
  BY <1>1 DEF MarkersOK, MarkerBehindDecodes, Threads, NoMarker, Completed, Goto, buffers,
     counts, codec, marks, past, threads
<1>7. HeldOK'
  BY <1>1 DEF HeldOK, Tests, Threads, NoMarker, Completed, Goto, buffers, counts, codec,
     marks, past, threads
<1> QED
  BY <1>2, <1>3, <1>4, <1>5, <1>6, <1>7 DEF CountsKept

LEMMA DiscardQueuedDecodesCounts ==
    ASSUME CountInv, Types', PlacesOK', wild = "no", wild' = "no", DiscardQueuedDecodes
    PROVE  CountsKept
<1> USE NumberTypes DEF CountInv
<1>1. pc \in [Threads -> Labels]
  BY DEF PlacesOK
<1>2. OrderOK'
  BY DEF OrderOK, DiscardQueuedDecodes, Drainer, buffers, counts, codec, marks, past,
     threads
<1>3. WorkOK'
  <2>1. /\ UNCHANGED <<mme, prepared, work, picture>> /\ pc[Drainer] = "idle"
        /\ pc' = [pc EXCEPT ![Drainer] = "look"] /\ Drainer \in {"drain", "decode"}
    BY DEF DiscardQueuedDecodes, Drainer, Goto
  <2>2. pc["decode"] = "idle" => picture = NoPicture
    BY DEF PlacesOK
  <2> QED
    BY <1>1, <2>1, <2>2 DEF WorkOK, Outputs, Releases, Threads
<1>4. LimitsOK'
  BY <1>1 DEF LimitsOK, DiscardQueuedDecodes, Drainer, Goto, buffers, counts, codec, marks,
     past, threads
<1>5. NewFramesKept'
  <2>1. /\ UNCHANGED <<mme, failed>> /\ discardUntil' = prepared
        /\ pc' = [pc EXCEPT ![Drainer] = "look"] /\ Drainer \in {"drain", "decode"}
    BY DEF DiscardQueuedDecodes, Drainer, Goto
  <2>2. discardUntil <= prepared
    BY DEF Types, CountsType
  <2>3. pc["mme"] = "discard" => Head(mme).number \in Nat
    BY DEF PlacesOK, Releases
  <2> QED
    BY <1>1, <2>1, <2>2, <2>3 DEF NewFramesKept, Threads
<1>6. MarkersOK'
  BY <1>1 DEF MarkersOK, MarkerBehindDecodes, Threads, NoMarker, DiscardQueuedDecodes,
     Drainer, Goto, buffers, counts, codec, marks, past, threads
<1>7. HeldOK'
  BY <1>1 DEF HeldOK, Tests, Threads, NoMarker, DiscardQueuedDecodes, Drainer, Goto,
     buffers, counts, codec, marks, past, threads
<1> QED
  BY <1>2, <1>3, <1>4, <1>5, <1>6, <1>7 DEF CountsKept

LEMMA GetDecodeBufferCounts ==
    ASSUME NEW b \in Buffers, CountInv, Types', PlacesOK', wild = "no", wild' = "no",
           GetDecodeBuffer(b)
    PROVE  CountsKept
<1> USE NumberTypes DEF CountInv
<1>1. pc \in [Threads -> Labels]
  BY DEF PlacesOK
<1>2. OrderOK'
  BY DEF OrderOK, GetDecodeBuffer, Fresh, buffers, counts, codec, marks, past, threads
<1>3. WorkOK'
  BY <1>1 DEF WorkOK, OrderOK, Outputs, Releases, GetDecodeBuffer, Fresh, Goto, buffers,
     counts, codec, marks, past, threads
<1>4. LimitsOK'
  <2>1. UNCHANGED <<prepared, failed>>
    BY DEF GetDecodeBuffer, Undefined, counts, past
  <2>2. /\ pc["decode"] = "send" => pc'["decode"] = "send"
        /\ pc["decode"] \in {"use", "count"} => pc'["decode"] \in {"use", "count", "send"}
    BY <1>1 DEF GetDecodeBuffer, Undefined, Goto, Threads, threads
  <2>3. \A c \in Buffers : state'[c].busy <= state[c].busy /\ state'[c].pinned <= state[c].pinned
    <3>1. state' = state
      BY DEF GetDecodeBuffer
    <3> QED
      BY SMTT(30), <3>1, CountTypes, FreshType
  <2> QED
    BY <2>1, <2>2, <2>3, LimitsKept
<1>5. NewFramesKept'
  BY <1>1 DEF NewFramesKept, Outputs, Releases, Tests, GetDecodeBuffer, Fresh, Goto,
     buffers, counts, codec, marks, past, threads
<1>6. MarkersOK'
  BY <1>1 DEF MarkersOK, MarkerBehindDecodes, Threads, NoMarker, GetDecodeBuffer, Fresh,
     Goto, buffers, counts, codec, marks, past, threads
<1>7. HeldOK'
  BY <1>1 DEF HeldOK, Tests, Threads, NoMarker, GetDecodeBuffer, Fresh, Goto, buffers,
     counts, codec, marks, past, threads
<1> QED
  BY <1>2, <1>3, <1>4, <1>5, <1>6, <1>7 DEF CountsKept

LEMMA ReleaseReferenceFrameCounts ==
    ASSUME NEW b \in Buffers, CountInv, Types', PlacesOK', wild = "no", wild' = "no",
           ReleaseReferenceFrame(b)
    PROVE  CountsKept
<1> USE NumberTypes DEF CountInv
<1>1. pc \in [Threads -> Labels]
  BY DEF PlacesOK
<1>2. OrderOK' /\ WorkOK' /\ NewFramesKept' /\ MarkersOK' /\ HeldOK'
  BY DEF OrderOK, WorkOK, OrderOK, Outputs, Releases, NewFramesKept, Outputs, Releases,
     Tests, MarkersOK, MarkerBehindDecodes, Threads, NoMarker, HeldOK, Tests, Threads,
     NoMarker, ReleaseReferenceFrame, Fresh, Undefined, buffers, counts, codec, marks, past,
     threads
<1>3. LimitsOK'
  <2>1. UNCHANGED <<prepared, failed>>
    BY DEF ReleaseReferenceFrame, Undefined, counts, past
  <2>2. /\ pc["decode"] = "send" => pc'["decode"] = "send"
        /\ pc["decode"] \in {"use", "count"} => pc'["decode"] \in {"use", "count", "send"}
    BY <1>1 DEF ReleaseReferenceFrame, Undefined, Goto, Threads, threads
  <2>3. \A c \in Buffers : state'[c].busy <= state[c].busy /\ state'[c].pinned <= state[c].pinned
    <3> SUFFICES ASSUME NEW c \in Buffers
                 PROVE  state'[c].busy <= state[c].busy /\ state'[c].pinned <= state[c].pinned
      OBVIOUS
    <3>1. \/ state'[c] = state[c] \/ state'[c] = Fresh
          \/ state'[c].busy = state[c].busy /\ state'[c].pinned = state[c].pinned - 1
      BY ReferenceEffect DEF Types
    <3> QED
      BY SMTT(30), <3>1, CountTypes, FreshType
  <2> QED
    BY <2>1, <2>2, <2>3, LimitsKept
<1> QED
  BY <1>2, <1>3 DEF CountsKept

LEMMA ReleaseDecodeBufferCounts ==
    ASSUME NEW b \in Buffers, CountInv, Types', PlacesOK', wild = "no", wild' = "no",
           ReleaseDecodeBuffer(b)
    PROVE  CountsKept
<1> USE NumberTypes DEF CountInv
<1>1. pc \in [Threads -> Labels]
  BY DEF PlacesOK
<1>2. OrderOK' /\ WorkOK' /\ NewFramesKept' /\ MarkersOK' /\ HeldOK'
  BY DEF OrderOK, WorkOK, OrderOK, Outputs, Releases, NewFramesKept, Outputs, Releases,
     Tests, MarkersOK, MarkerBehindDecodes, Threads, NoMarker, HeldOK, Tests, Threads,
     NoMarker, ReleaseDecodeBuffer, Undefined, Drop, Fresh, buffers, counts, codec, marks,
     past, threads
<1>3. LimitsOK'
  <2>1. UNCHANGED <<prepared, failed>>
    BY DEF ReleaseDecodeBuffer, Undefined, counts, past
  <2>2. /\ pc["decode"] = "send" => pc'["decode"] = "send"
        /\ pc["decode"] \in {"use", "count"} => pc'["decode"] \in {"use", "count", "send"}
    BY <1>1 DEF ReleaseDecodeBuffer, Undefined, Goto, Threads, threads
  <2>3. \A c \in Buffers : state'[c].busy <= state[c].busy /\ state'[c].pinned <= state[c].pinned
    BY DropShrinks DEF ReleaseDecodeBuffer, Undefined
  <2> QED
    BY <2>1, <2>2, <2>3, LimitsKept
<1> QED
  BY <1>2, <1>3 DEF CountsKept

LEMMA LookCounts ==
    ASSUME NEW t \in Threads, CountInv, Types', PlacesOK', wild = "no", wild' = "no",
           Look(t)
    PROVE  CountsKept
<1> USE NumberTypes DEF CountInv
<1>1. pc \in [Threads -> Labels]
  BY DEF PlacesOK
<1>2. OrderOK'
  BY DEF OrderOK, Look, Return, buffers, counts, codec, marks, past, threads
<1>3. WorkOK'
  BY <1>1 DEF WorkOK, OrderOK, Outputs, Releases, Look, Return, Goto, buffers, counts,
     codec, marks, past, threads
<1>4. LimitsOK'
  BY <1>1 DEF LimitsOK, Look, Return, Goto, buffers, counts, codec, marks, past, threads
<1>5. NewFramesKept'
  BY <1>1 DEF NewFramesKept, Outputs, Releases, Tests, Look, Return, Goto, buffers, counts,
     codec, marks, past, threads
<1>6. MarkersOK'
  BY <1>1 DEF MarkersOK, MarkerBehindDecodes, Threads, NoMarker, Look, Return, Goto,
     buffers, counts, codec, marks, past, threads
<1>7. HeldOK'
  BY <1>1 DEF HeldOK, Tests, Threads, NoMarker, Look, Return, Goto, buffers, counts, codec,
     marks, past, threads
<1> QED
  BY <1>2, <1>3, <1>4, <1>5, <1>6, <1>7 DEF CountsKept

LEMMA ArgumentCounts ==
    ASSUME NEW t \in Threads, CountInv, Types', PlacesOK', wild = "no", wild' = "no",
           Argument(t)
    PROVE  CountsKept
<1> USE NumberTypes DEF CountInv
<1>1. pc \in [Threads -> Labels]
  BY DEF PlacesOK
<1>2. /\ pc[t] = "argument" /\ pc' = [pc EXCEPT ![t] = "output"]
      /\ UNCHANGED <<mme, completed, prepared, discardUntil, failed, work, picture, state,
                     marker, markers, passed>>
  BY Zenon DEF Argument, Undefined, Goto, buffers, counts, marks, past
<1>3. OrderOK' /\ LimitsOK'
  BY <1>1, <1>2 DEF OrderOK, LimitsOK
<1>4. WorkOK'
  BY <1>1, <1>2 DEF WorkOK, Outputs, Releases
<1>5. NewFramesKept'
  BY <1>1, <1>2 DEF NewFramesKept
<1>6. MarkersOK' /\ HeldOK'
  BY <1>1, <1>2 DEF MarkersOK, MarkerBehindDecodes, HeldOK, Tests
<1> QED
  BY <1>3, <1>4, <1>5, <1>6 DEF CountsKept

LEMMA SetOutputCounts ==
    ASSUME NEW t \in Threads, CountInv, Types', PlacesOK', wild = "no", wild' = "no",
           SetOutput(t)
    PROVE  CountsKept
<1> USE NumberTypes DEF CountInv
<1>1. pc \in [Threads -> Labels]
  BY DEF PlacesOK
<1>2. /\ pc[t] = "output" /\ pc' = [pc EXCEPT ![t] = "forget"]
      /\ UNCHANGED <<mme, completed, prepared, discardUntil, failed, work, picture,
                     marker, markers, passed>>
  BY Zenon DEF SetOutput, Undefined, Goto, counts, marks, past
<1>3. OrderOK'
  BY <1>2 DEF OrderOK
<1>4. LimitsOK'
  <2>1. \A c \in Buffers : state'[c].busy = state[c].busy /\ state'[c].pinned = state[c].pinned
    BY OutputEffect DEF Types
  <2> QED
    BY <1>1, <1>2, <2>1 DEF LimitsOK
<1>5. WorkOK'
  BY <1>1, <1>2 DEF WorkOK, Outputs, Releases
<1>6. NewFramesKept'
  BY <1>1, <1>2 DEF NewFramesKept
<1>7. MarkersOK' /\ HeldOK'
  BY <1>1, <1>2 DEF MarkersOK, MarkerBehindDecodes, HeldOK, Tests
<1> QED
  BY <1>3, <1>4, <1>5, <1>6, <1>7 DEF CountsKept

LEMMA ForgetCounts ==
    ASSUME NEW t \in Threads, CountInv, Types', PlacesOK', wild = "no", wild' = "no",
           Forget(t)
    PROVE  CountsKept
<1> USE NumberTypes DEF CountInv
<1>1. pc \in [Threads -> Labels]
  BY DEF PlacesOK
<1>2. OrderOK'
  BY DEF OrderOK, Forget, Return, buffers, counts, codec, marks, past, threads
<1>3. WorkOK'
  BY <1>1 DEF WorkOK, OrderOK, Outputs, Releases, Forget, Return, Goto, buffers, counts,
     codec, marks, past, threads
<1>4. LimitsOK'
  BY <1>1 DEF LimitsOK, Forget, Return, Goto, buffers, counts, codec, marks, past, threads
<1>5. NewFramesKept'
  BY <1>1 DEF NewFramesKept, Outputs, Releases, Tests, Forget, Return, Goto, buffers,
     counts, codec, marks, past, threads
<1>6. MarkersOK'
  BY <1>1 DEF MarkersOK, MarkerBehindDecodes, Threads, NoMarker, Forget, Return, Goto,
     buffers, counts, codec, marks, past, threads
<1>7. HeldOK'
  BY <1>1 DEF HeldOK, Tests, Threads, NoMarker, Forget, Return, Goto, buffers, counts,
     codec, marks, past, threads
<1> QED
  BY <1>2, <1>3, <1>4, <1>5, <1>6, <1>7 DEF CountsKept

LEMMA ReleaseCounts ==
    ASSUME NEW t \in Threads, CountInv, Types', PlacesOK', wild = "no", wild' = "no",
           Release(t)
    PROVE  CountsKept
<1> USE NumberTypes DEF CountInv
<1>1. pc \in [Threads -> Labels]
  BY DEF PlacesOK
<1>2. OrderOK'
  BY DEF OrderOK, Release, Undefined, CompareIndex, AfterIndex, Released, buffers, counts,
     codec, marks, past, threads
<1>3. WorkOK'
  <2>1. UNCHANGED <<mme, prepared, work, picture>>
    BY DEF Release, Undefined, counts
  <2>2. /\ t = "mme" \/ pc[t] = "release"
        /\ \E l \in {"discard", "forgetIndex", "context", "references"} : pc' = [pc EXCEPT ![t] = l]
    BY ReleaseMoves, AfterIndexType DEF Release, Undefined
  <2> QED
    BY <1>1, <2>1, <2>2 DEF WorkOK, Outputs, Releases, Threads
<1>4. LimitsOK'
  <2>1. UNCHANGED <<prepared, failed>>
    BY DEF Release, Undefined, counts, past
  <2>2. /\ pc["decode"] = "send" => pc'["decode"] = "send"
        /\ pc["decode"] \in {"use", "count"} => pc'["decode"] \in {"use", "count", "send"}
    <3>1. \E l \in Labels : pc' = [pc EXCEPT ![t] = l]
      BY ReleaseMoves, AfterIndexType DEF Labels, Releases
    <3>2. t = "mme" \/ pc[t] = "release"
      BY DEF Release, Undefined
    <3> QED
      BY <1>1, <3>1, <3>2 DEF Threads
  <2>3. \A c \in Buffers : state'[c].busy <= state[c].busy /\ state'[c].pinned <= state[c].pinned
    <3>1. Released(t).buffer \in Buffers
      BY ReleasedType DEF Release, Undefined
    <3>2. \A c \in Buffers : \/ state'[c] = state[c]
                           \/ /\ state'[c].busy = state[c].busy - 1
                              /\ state'[c].pinned = state[c].pinned
      BY <3>1, ReleaseEffect DEF Types
    <3> QED
      BY <3>2, CountTypes
  <2> QED
    BY <2>1, <2>2, <2>3, LimitsKept
<1>5. NewFramesKept'
  <2>1. UNCHANGED <<mme, discardUntil, failed, completed>>
    BY DEF Release, Undefined, counts, past
  <2>2. CASE t # "mme"
    <3>1. \E l \in Labels : pc' = [pc EXCEPT ![t] = l]
      BY ReleaseMoves, AfterIndexType DEF Labels, Releases
    <3> QED
      BY <1>1, <2>1, <2>2, <3>1 DEF NewFramesKept, Threads
  <2>3. CASE t = "mme" /\ ~Discarding
    <3>1. \E l \in Labels \ {"discard"} : pc' = [pc EXCEPT ![t] = l]
      BY <2>3, ReleaseMoves, AfterIndexType DEF Labels, Releases
    <3> QED
      BY <1>1, <2>1, <2>3, <3>1 DEF NewFramesKept, Threads
  <2>4. CASE t = "mme" /\ Discarding
    <3>1. mme # <<>> /\ 1 \in DOMAIN mme /\ Head(mme) = mme[1] /\ mme[1].number \in Nat
      BY <2>4 DEF Release, Undefined
    <3>2. mme[1].number <= completed + failed + 1
      BY <3>1 DEF OrderOK
    <3> QED
      BY <2>1, <2>4, <3>1, <3>2 DEF NewFramesKept, Discarding
  <2> QED
    BY <2>2, <2>3, <2>4
<1>6. MarkersOK'
  BY <1>1 DEF MarkersOK, MarkerBehindDecodes, Threads, NoMarker, Release, Undefined,
     CompareIndex, AfterIndex, Released, Goto, buffers, counts, codec, marks, past, threads
<1>7. HeldOK'
  BY <1>1 DEF HeldOK, Tests, Threads, NoMarker, Release, Undefined, CompareIndex,
     AfterIndex, Released, Goto, buffers, counts, codec, marks, past, threads
<1> QED
  BY <1>2, <1>3, <1>4, <1>5, <1>6, <1>7 DEF CountsKept

LEMMA DiscardCounts ==
    ASSUME NEW t \in Threads, CountInv, Types', PlacesOK', wild = "no", wild' = "no",
           Discard(t)
    PROVE  CountsKept
<1> USE NumberTypes DEF CountInv
<1>1. pc \in [Threads -> Labels]
  BY DEF PlacesOK
<1>2. OrderOK'
  BY DEF OrderOK, Discard, Undefined, Drop, Fresh, Released, buffers, counts, codec, marks,
     past, threads
<1>3. WorkOK'
  <2>1. /\ UNCHANGED <<mme, prepared, work, picture>> /\ pc[t] = "discard"
        /\ pc' = [pc EXCEPT ![t] = "compare"]
    BY DEF Discard, Undefined, Goto, counts
  <2> QED
    BY <1>1, <2>1 DEF WorkOK, Outputs, Releases, Threads
<1>4. LimitsOK'
  <2>1. UNCHANGED <<prepared, failed>>
    BY DEF Discard, Undefined, counts, past
  <2>2. /\ pc["decode"] = "send" => pc'["decode"] = "send"
        /\ pc["decode"] \in {"use", "count"} => pc'["decode"] \in {"use", "count", "send"}
    BY <1>1 DEF Discard, Undefined, Goto, Threads, threads
  <2>3. \A c \in Buffers : state'[c].busy <= state[c].busy /\ state'[c].pinned <= state[c].pinned
    BY DropShrinks, ReleasedType DEF Discard, Undefined, Releases
  <2> QED
    BY <2>1, <2>2, <2>3, LimitsKept
<1>5. NewFramesKept'
  <2>1. UNCHANGED <<mme, discardUntil, failed>> /\ pc' = [pc EXCEPT ![t] = "compare"]
    BY DEF Discard, Undefined, Goto, counts, past
  <2> QED
    BY <1>1, <2>1 DEF NewFramesKept, Threads
<1>6. MarkersOK'
  BY <1>1 DEF MarkersOK, MarkerBehindDecodes, Threads, NoMarker, Discard, Undefined, Drop,
     Fresh, Released, Goto, buffers, counts, codec, marks, past, threads
<1>7. HeldOK'
  BY <1>1 DEF HeldOK, Tests, Threads, NoMarker, Discard, Undefined, Drop, Fresh, Released,
     Goto, buffers, counts, codec, marks, past, threads
<1> QED
  BY <1>2, <1>3, <1>4, <1>5, <1>6, <1>7 DEF CountsKept

LEMMA CompareCounts ==
    ASSUME NEW t \in Threads, CountInv, Types', PlacesOK', wild = "no", wild' = "no",
           Compare(t)
    PROVE  CountsKept
<1> USE NumberTypes DEF CountInv
<1>1. pc \in [Threads -> Labels]
  BY DEF PlacesOK
<1>2. OrderOK'
  BY DEF OrderOK, Compare, CompareIndex, AfterIndex, Released, buffers, counts, codec,
     marks, past, threads
<1>3. WorkOK'
  BY <1>1 DEF WorkOK, OrderOK, Outputs, Releases, Compare, CompareIndex, AfterIndex,
     Released, Goto, buffers, counts, codec, marks, past, threads
<1>4. LimitsOK'
  BY <1>1 DEF LimitsOK, Compare, CompareIndex, AfterIndex, Released, Goto, buffers, counts,
     codec, marks, past, threads
<1>5. NewFramesKept'
  BY <1>1 DEF NewFramesKept, Outputs, Releases, Tests, Compare, CompareIndex, AfterIndex,
     Released, Goto, buffers, counts, codec, marks, past, threads
<1>6. MarkersOK'
  BY <1>1 DEF MarkersOK, MarkerBehindDecodes, Threads, NoMarker, Compare, CompareIndex,
     AfterIndex, Released, Goto, buffers, counts, codec, marks, past, threads
<1>7. HeldOK'
  BY <1>1 DEF HeldOK, Tests, Threads, NoMarker, Compare, CompareIndex, AfterIndex, Released,
     Goto, buffers, counts, codec, marks, past, threads
<1> QED
  BY <1>2, <1>3, <1>4, <1>5, <1>6, <1>7 DEF CountsKept

LEMMA ForgetIndexCounts ==
    ASSUME NEW t \in Threads, CountInv, Types', PlacesOK', wild = "no", wild' = "no",
           ForgetIndex(t)
    PROVE  CountsKept
<1> USE NumberTypes DEF CountInv
<1>1. pc \in [Threads -> Labels]
  BY DEF PlacesOK
<1>2. OrderOK'
  BY DEF OrderOK, ForgetIndex, AfterIndex, Released, buffers, counts, codec, marks, past,
     threads
<1>3. WorkOK'
  BY <1>1 DEF WorkOK, OrderOK, Outputs, Releases, ForgetIndex, AfterIndex, Released, Goto,
     buffers, counts, codec, marks, past, threads
<1>4. LimitsOK'
  BY <1>1 DEF LimitsOK, ForgetIndex, AfterIndex, Released, Goto, buffers, counts, codec,
     marks, past, threads
<1>5. NewFramesKept'
  BY <1>1 DEF NewFramesKept, Outputs, Releases, Tests, ForgetIndex, AfterIndex, Released,
     Goto, buffers, counts, codec, marks, past, threads
<1>6. MarkersOK'
  BY <1>1 DEF MarkersOK, MarkerBehindDecodes, Threads, NoMarker, ForgetIndex, AfterIndex,
     Released, Goto, buffers, counts, codec, marks, past, threads
<1>7. HeldOK'
  BY <1>1 DEF HeldOK, Tests, Threads, NoMarker, ForgetIndex, AfterIndex, Released, Goto,
     buffers, counts, codec, marks, past, threads
<1> QED
  BY <1>2, <1>3, <1>4, <1>5, <1>6, <1>7 DEF CountsKept

LEMMA ReferencesCounts ==
    ASSUME NEW t \in Threads, CountInv, Types', PlacesOK', wild = "no", wild' = "no",
           References(t)
    PROVE  CountsKept
<1> USE NumberTypes DEF CountInv
<1>1. pc \in [Threads -> Labels]
  BY DEF PlacesOK
<1>2. OrderOK'
  BY DEF OrderOK, References, Undefined, Drop, Fresh, Released, buffers, counts, codec,
     marks, past, threads
<1>3. WorkOK'
  <2>1. /\ UNCHANGED <<mme, prepared, work, picture>> /\ pc[t] = "references"
        /\ pc' = [pc EXCEPT ![t] = "context"]
    BY DEF References, Undefined, Goto, counts
  <2> QED
    BY <1>1, <2>1 DEF WorkOK, Outputs, Releases, Threads
<1>4. LimitsOK'
  <2>1. UNCHANGED <<prepared, failed>>
    BY DEF References, Undefined, counts, past
  <2>2. /\ pc["decode"] = "send" => pc'["decode"] = "send"
        /\ pc["decode"] \in {"use", "count"} => pc'["decode"] \in {"use", "count", "send"}
    BY <1>1 DEF References, Undefined, Goto, Threads, threads
  <2>3. \A c \in Buffers : state'[c].busy <= state[c].busy /\ state'[c].pinned <= state[c].pinned
    BY DropShrinks, ReleasedType DEF References, Undefined, Releases
  <2> QED
    BY <2>1, <2>2, <2>3, LimitsKept
<1>5. NewFramesKept'
  <2>1. UNCHANGED <<mme, discardUntil, failed>> /\ pc' = [pc EXCEPT ![t] = "context"]
    BY DEF References, Undefined, Goto, counts, past
  <2> QED
    BY <1>1, <2>1 DEF NewFramesKept, Threads
<1>6. MarkersOK'
  BY <1>1 DEF MarkersOK, MarkerBehindDecodes, Threads, NoMarker, References, Undefined,
     Drop, Fresh, Released, Goto, buffers, counts, codec, marks, past, threads
<1>7. HeldOK'
  BY <1>1 DEF HeldOK, Tests, Threads, NoMarker, References, Undefined, Drop, Fresh,
     Released, Goto, buffers, counts, codec, marks, past, threads
<1> QED
  BY <1>2, <1>3, <1>4, <1>5, <1>6, <1>7 DEF CountsKept

LEMMA ContextCounts ==
    ASSUME NEW t \in Threads, CountInv, Types', PlacesOK', wild = "no", wild' = "no",
           Context(t)
    PROVE  CountsKept
<1> USE NumberTypes DEF CountInv
<1>1. pc \in [Threads -> Labels]
  BY DEF PlacesOK
<1>2. OrderOK'
  BY DEF OrderOK, Context, Released, buffers, counts, codec, marks, past, threads
<1>3. WorkOK'
  BY <1>1 DEF WorkOK, OrderOK, Outputs, Releases, Context, Released, Goto, buffers, counts,
     codec, marks, past, threads
<1>4. LimitsOK'
  BY <1>1 DEF LimitsOK, Context, Released, Goto, buffers, counts, codec, marks, past,
     threads
<1>5. NewFramesKept'
  BY <1>1 DEF NewFramesKept, Outputs, Releases, Tests, Context, Released, Goto, buffers,
     counts, codec, marks, past, threads
<1>6. MarkersOK'
  BY <1>1 DEF MarkersOK, MarkerBehindDecodes, Threads, NoMarker, Context, Released, Goto,
     buffers, counts, codec, marks, past, threads
<1>7. HeldOK'
  BY <1>1 DEF HeldOK, Tests, Threads, NoMarker, Context, Released, Goto, buffers, counts,
     codec, marks, past, threads
<1> QED
  BY <1>2, <1>3, <1>4, <1>5, <1>6, <1>7 DEF CountsKept

LEMMA ForgetContextCounts ==
    ASSUME NEW t \in Threads, CountInv, Types', PlacesOK', wild = "no", wild' = "no",
           ForgetContext(t)
    PROVE  CountsKept
<1> USE NumberTypes DEF CountInv
<1>1. pc \in [Threads -> Labels]
  BY DEF PlacesOK
<1>2. OrderOK'
  BY DEF OrderOK, ForgetContext, buffers, counts, codec, marks, past, threads
<1>3. WorkOK'
  BY <1>1 DEF WorkOK, OrderOK, Outputs, Releases, ForgetContext, Goto, buffers, counts,
     codec, marks, past, threads
<1>4. LimitsOK'
  BY <1>1 DEF LimitsOK, ForgetContext, Goto, buffers, counts, codec, marks, past, threads
<1>5. NewFramesKept'
  BY <1>1 DEF NewFramesKept, Outputs, Releases, Tests, ForgetContext, Goto, buffers, counts,
     codec, marks, past, threads
<1>6. MarkersOK'
  BY <1>1 DEF MarkersOK, MarkerBehindDecodes, Threads, NoMarker, ForgetContext, Goto,
     buffers, counts, codec, marks, past, threads
<1>7. HeldOK'
  BY <1>1 DEF HeldOK, Tests, Threads, NoMarker, ForgetContext, Goto, buffers, counts, codec,
     marks, past, threads
<1> QED
  BY <1>2, <1>3, <1>4, <1>5, <1>6, <1>7 DEF CountsKept

LEMMA TestCounts ==
    ASSUME NEW t \in Threads, CountInv, Types', PlacesOK', wild = "no", wild' = "no",
           Test(t)
    PROVE  CountsKept
<1> USE NumberTypes DEF CountInv
<1>1. pc \in [Threads -> Labels]
  BY DEF PlacesOK
<1>2. OrderOK'
  BY DEF OrderOK, Test, buffers, counts, codec, marks, past, threads
<1>3. WorkOK'
  BY <1>1 DEF WorkOK, OrderOK, Outputs, Releases, Test, Goto, buffers, counts, codec, marks,
     past, threads
<1>4. LimitsOK'
  BY <1>1 DEF LimitsOK, Test, Goto, buffers, counts, codec, marks, past, threads
<1>5. NewFramesKept'
  BY <1>1 DEF NewFramesKept, Outputs, Releases, Tests, Test, Goto, buffers, counts, codec,
     marks, past, threads
<1>6. MarkersOK'
  <2>1. /\ UNCHANGED <<marker, markers, completed, passed>>
        /\ pc' = [pc EXCEPT ![t] = IF Due THEN "take" ELSE "idle"]
    BY DEF Test, Goto, counts, marks, past
  <2> QED
    BY <1>1, <2>1 DEF MarkersOK, MarkerBehindDecodes, Due, Threads
<1>7. HeldOK'
  <2>1. /\ UNCHANGED <<marker, prepared, completed>> /\ pc[t] = "test"
        /\ pc' = [pc EXCEPT ![t] = IF Due THEN "take" ELSE "idle"]
    BY DEF Test, Goto, counts, marks
  <2>2. CASE Due
    BY <1>1, <2>1, <2>2 DEF HeldOK, Tests
  <2>3. CASE ~Due
    BY <1>1, <2>1, <2>3 DEF HeldOK, Due
  <2> QED
    BY <2>2, <2>3
<1> QED
  BY <1>2, <1>3, <1>4, <1>5, <1>6, <1>7 DEF CountsKept

LEMMA TakeMarkerBufferCounts ==
    ASSUME NEW t \in Threads, CountInv, Types', PlacesOK', wild = "no", wild' = "no",
           TakeMarkerBuffer(t)
    PROVE  CountsKept
<1> USE NumberTypes DEF CountInv
<1>1. pc \in [Threads -> Labels]
  BY DEF PlacesOK
<1>2. OrderOK'
  BY DEF OrderOK, TakeMarkerBuffer, NoMarker, buffers, counts, codec, marks, past, threads
<1>3. WorkOK'
  BY <1>1 DEF WorkOK, OrderOK, Outputs, Releases, TakeMarkerBuffer, NoMarker, Goto, buffers,
     counts, codec, marks, past, threads
<1>4. LimitsOK'
  BY <1>1 DEF LimitsOK, TakeMarkerBuffer, NoMarker, Goto, buffers, counts, codec, marks,
     past, threads
<1>5. NewFramesKept'
  BY <1>1 DEF NewFramesKept, Outputs, Releases, Tests, TakeMarkerBuffer, NoMarker, Goto,
     buffers, counts, codec, marks, past, threads
<1>6. MarkersOK'
  BY <1>1 DEF MarkersOK, MarkerBehindDecodes, Threads, NoMarker, TakeMarkerBuffer, NoMarker,
     Goto, buffers, counts, codec, marks, past, threads
<1>7. HeldOK'
  BY <1>1 DEF HeldOK, Tests, Threads, NoMarker, TakeMarkerBuffer, NoMarker, Goto, buffers,
     counts, codec, marks, past, threads
<1> QED
  BY <1>2, <1>3, <1>4, <1>5, <1>6, <1>7 DEF CountsKept

LEMMA InitCounts == Init => CountInv
<1> SUFFICES ASSUME Init PROVE CountInv
  OBVIOUS
<1> USE BoundsAssumption, FreshType DEF Init
<1>1. Types /\ PlacesOK
  BY InitType
<1>2. OrderOK /\ WorkOK /\ NewFramesKept
  BY DEF OrderOK, WorkOK, NewFramesKept, Outputs, Releases, Threads
<1>3. LimitsOK
  BY DEF LimitsOK, Threads
<1>4. MarkersOK /\ HeldOK
  BY DEF MarkersOK, MarkerBehindDecodes, HeldOK, NoMarker, Threads
<1> QED
  BY <1>1, <1>2, <1>3, <1>4 DEF CountInv

LEMMA UnchangedCounts ==
    ASSUME CountInv, UNCHANGED <<buffers, counts, marks, threads>>, UNCHANGED <<markers, failed>>
    PROVE  CountsKept
<1> USE DEF CountInv, CountsKept, buffers, counts, marks, threads
<1>1. OrderOK' /\ WorkOK' /\ NewFramesKept'
  BY DEF OrderOK, WorkOK, NewFramesKept
<1>2. LimitsOK'
  BY DEF LimitsOK
<1>3. MarkersOK' /\ HeldOK'
  BY DEF MarkersOK, MarkerBehindDecodes, HeldOK
<1> QED
  BY <1>1, <1>2, <1>3

LEMMA NextCounts ==
    ASSUME CountInv, Next
    PROVE  CountInv'
<1>1. Types' /\ PlacesOK'
  BY NextType DEF CountInv
<1>2. CountsKept
  <2>1. CASE wild' # "no"
    BY <2>1, WildStep, UndefinedEffect, UnchangedCounts
  <2>2. CASE wild' = "no"
    BY <1>1, <2>2, NextCases, GetFailsCounts, InitializeBufferCounts, KeepDecodeBufferCounts,
       KeepFailsCounts, PrepareCounts, UseReferenceCounts, MarkerFailsCounts, HoldMarkerCounts,
       ArgumentCounts,
       CountDecodeCounts, SendMMEDecodeCommandCounts, FinishCounts, FailedCounts,
       InputMarkerCounts, InputPictureCounts, OutputInSequenceCounts, CompletedCounts,
       DiscardQueuedDecodesCounts, GetDecodeBufferCounts, ReleaseReferenceFrameCounts,
       ReleaseDecodeBufferCounts, LookCounts, SetOutputCounts, ForgetCounts, ReleaseCounts,
       DiscardCounts, CompareCounts, ForgetIndexCounts, ReferencesCounts, ContextCounts,
       ForgetContextCounts, TestCounts, TakeMarkerBufferCounts
  <2> QED
    BY <2>1, <2>2
<1> QED
  BY <1>1, <1>2 DEF CountInv, CountsKept

LEMMA StutterCounts ==
    ASSUME CountInv, UNCHANGED vars
    PROVE  CountInv'
<1>1. Types' /\ PlacesOK'
  BY StutterType DEF CountInv
<1>2. CountsKept
  BY UnchangedCounts DEF vars, past
<1> QED
  BY <1>1, <1>2 DEF CountInv, CountsKept

LEMMA CountsCorrect == Spec => []CountInv
<1>1. CountInv /\ [Next]_vars => CountInv'
  BY NextCounts, StutterCounts
<1> QED
  BY <1>1, InitCounts, PTL DEF Spec

\* TypeOK bounds the counts of a buffer by the pictures there are.
LEMMA CountsImplyType == CountInv => TypeOK
<1> SUFFICES ASSUME CountInv PROVE TypeOK
  OBVIOUS
<1> USE DEF CountInv, Types
<1>1. MaxPictures[direct] \in Nat /\ MaxFailures \in Nat
  BY MaxType, BoundsAssumption
<1>2. \A b \in Buffers : /\ state[b].busy \in 0..MaxPictures[direct]
                        /\ state[b].pinned \in 0..(MaxPictures[direct] + MaxFailures)
  <2> SUFFICES ASSUME NEW b \in Buffers
               PROVE  /\ state[b].busy \in 0..MaxPictures[direct]
                      /\ state[b].pinned \in 0..(MaxPictures[direct] + MaxFailures)
    OBVIOUS
  <2>1. state[b].busy \in Nat /\ state[b].pinned \in Nat
    BY CountTypes
  <2>2. prepared \in 0..MaxPictures[direct] /\ failed \in 0..MaxFailures
    BY DEF CountsType, PastType
  <2>3. pc["decode"] \in {"use", "count", "send"} => prepared < MaxPictures[direct]
    BY DEF PlacesOK
  <2> QED
    BY <1>1, <2>1, <2>2, <2>3 DEF LimitsOK
<1>3. state \in [Buffers -> [out : BOOLEAN, busy : 0..MaxPictures[direct],
                            fields : SUBSET {1, 2},
                            pinned : 0..(MaxPictures[direct] + MaxFailures)]]
  BY <1>2 DEF BuffersType, BufferStates
<1> QED
  BY <1>3 DEF TypeOK, BuffersType, IndexType, CountsType, CommandsType, MarkersType, LockType,
     InputType, PastType

\* The variables have their types and no more commands are completed than were
\* sent, whatever the interleaving and whatever fails.
THEOREM TypeCorrect == Spec => []TypeOK
BY CountsCorrect, CountsImplyType, PTL

\* A drain never discards a picture that is input after it, but for the commands
\* that could not be sent and shifted the counts.
THEOREM DiscardsOnlyOld == Spec => []NewFramesKept
<1>1. CountInv => NewFramesKept
  BY DEF CountInv
<1> QED
  BY <1>1, CountsCorrect, PTL

\* The first marker is passed on only when all pictures before it are decoded.
THEOREM MarkerWaits == Spec => []MarkerBehindDecodes
<1>1. CountInv => MarkerBehindDecodes
  BY DEF CountInv, MarkersOK
<1> QED
  BY <1>1, CountsCorrect, PTL

\* When nothing is left to do no marker is held back, although two threads test
\* for it without a common lock, unless a command could not be sent.
THEOREM MarkersPassedOn == Spec => []NoMarkerLeft
<1>1. CountInv => NoMarkerLeft
  <2> SUFFICES ASSUME CountInv, \A t \in Threads : pc[t] = "idle", mme = <<>>, failed = 0,
                      marker # NoMarker
               PROVE  FALSE
    BY DEF NoMarkerLeft
  <2>1. completed < marker.at /\ marker.at <= prepared
    BY DEF CountInv, HeldOK, Tests
  <2>2. prepared <= completed
    BY NumberTypes DEF CountInv, OrderOK
  <2>3. completed \in Nat /\ prepared \in Nat /\ marker.at \in Nat
    BY NumberTypes DEF CountInv
  <2> QED
    BY <2>1, <2>2, <2>3
<1> QED
  BY <1>1, CountsCorrect, PTL

=============================================================================
