------------------------------ MODULE CodecMme ------------------------------
(* The codec of the player (codec_mme_base.cpp, codec_mme_video.cpp): pictures *)
(* and markers are input by the parse-to-decode thread, decoded by the         *)
(* multimedia engine, whose callback runs in a thread of its own, and passed   *)
(* on through the output ring to threads that give the buffers back.  A fourth *)
(* thread drains the stream.  Tests, uses and resets of what they share are    *)
(* steps of their own; a section under Lock is one step, and so are reads and  *)
(* writes in a row of which all but one are of what nobody else can tell.      *)
(*                                                                             *)
(* direct tells the two kinds of codecs apart: most let the draining thread    *)
(* itself discard and output, that of H264 queues both for its own thread.     *)
(* When the code uses a reset index or pointer, or drops a reference nobody    *)
(* has, what it does is undefined: wild names it, and the model stops there.   *)
EXTENDS Naturals, Sequences, FiniteSets

CONSTANTS Buffers,       \* the decode buffers of the manifestor
          NoBuffer,      \* INVALID_INDEX
          Pictures,      \* what is input: [fields, first, reference, reads]
          MaxPictures,   \* for each kind of codec: a function of some Booleans
          MaxMarkers, MaxDrains, MaxFailures

Directs == DOMAIN MaxPictures
ASSUME BuffersAssumption == IsFiniteSet(Buffers) /\ NoBuffer \notin Buffers
ASSUME PicturesAssumption ==
    Pictures \subseteq [fields : SUBSET {1, 2}, first : BOOLEAN,
                        reference : BOOLEAN, reads : BOOLEAN]
ASSUME BoundsAssumption ==
    /\ Directs \subseteq BOOLEAN /\ MaxPictures \in [Directs -> Nat]
    /\ {MaxMarkers, MaxDrains, MaxFailures} \subseteq Nat

VARIABLES direct,        \* the kind of codec
          state,         \* BufferState of each decode buffer
          refs,          \* its owner count: 0 while it is in the pool
          output,        \* how often it was passed on and not yet given back
          current,       \* CurrentDecodeBufferIndex
          context,       \* DecodeContext: the number of the decode, 0 for NULL
          prepared,      \* MMECommandPreparedCount
          completed,     \* MMECommandCompletedCount
          discardUntil,  \* DiscardDecodesUntil
          mme,           \* the commands whose callback has not ended
          marker,        \* MarkerBuffer and PassOnMarkerBufferAt
          passed,        \* the markers passed on
          lock,          \* who holds Lock
          pc,            \* what each thread does next
          partial,       \* the partial buffer a thread outputs
          work,          \* the decode context that Input fills
          picture,       \* the picture that is input
          markers, drains, failed, wild

buffers == <<state, refs, output>>
counts == <<prepared, completed, discardUntil, mme>>
codec == <<current, context>>
marks == <<marker, passed>>
threads == <<lock, pc, partial, work, picture>>
past == <<direct, markers, drains, failed, wild>>
vars == <<buffers, counts, codec, marks, threads, past>>

Threads == {"decode", "mme", "drain"}
NoMarker == [number |-> 0, at |-> 0]
NoContext == [number |-> 0, buffer |-> NoBuffer, use |-> NoBuffer,
              counted |-> FALSE, last |-> FALSE]
NoPicture == [fields |-> {}, first |-> FALSE, reference |-> FALSE, reads |-> FALSE]
Fresh == [out |-> FALSE, busy |-> 0, fields |-> {}, pinned |-> 0]

Init ==
    /\ direct \in Directs
    /\ state = [b \in Buffers |-> Fresh]
    /\ refs = [b \in Buffers |-> 0] /\ output = [b \in Buffers |-> 0]
    /\ current = NoBuffer /\ context = 0
    /\ prepared = 0 /\ completed = 0 /\ discardUntil = 0 /\ mme = <<>>
    /\ marker = NoMarker /\ passed = {}
    /\ lock = "nobody"
    /\ pc = [t \in Threads |-> "idle"]
    /\ partial = [t \in Threads |-> NoBuffer]
    /\ work = NoContext
    /\ picture = NoPicture
    /\ markers = 0 /\ drains = 0 /\ failed = 0 /\ wild = "no"

Goto(t, label) == pc' = [pc EXCEPT ![t] = label]
Undefined(what) == /\ wild' = what
                   /\ UNCHANGED <<buffers, counts, codec, marks, threads,
                                  direct, markers, drains, failed>>
Fails == failed < MaxFailures /\ failed' = failed + 1

(* DecrementReferenceCount: the last owner clears the state of the buffer,     *)
(* which goes back to the pool.                                                *)
Drop(b) == /\ refs' = [refs EXCEPT ![b] = @ - 1]
           /\ state' = IF refs[b] = 1 THEN [state EXCEPT ![b] = Fresh] ELSE state

-----------------------------------------------------------------------------
(* OutputPartialDecodeBuffers, in whichever thread it is called.               *)

Return(t) == IF t = "decode" /\ picture # NoPicture THEN "obtain" ELSE "idle"

(* The index is tested, and read again to be passed on.                        *)
Look(t) ==
    /\ pc[t] = "look"
    /\ Goto(t, IF current = NoBuffer THEN Return(t) ELSE "argument")
    /\ UNCHANGED <<buffers, counts, codec, marks, past, lock, partial, work, picture>>

Argument(t) ==
    /\ pc[t] = "argument"
    /\ IF current = NoBuffer THEN Undefined("index")
       ELSE /\ partial' = [partial EXCEPT ![t] = current]
            /\ Goto(t, "output")
            /\ UNCHANGED <<buffers, counts, codec, marks, past, lock, work, picture>>

\* Mutant: nobody asks whether decodes are in progress.
OutputsNowAlways(b) == TRUE
OutputsNow(b) == state[b].busy = 0

(* What the state of a buffer names: nothing, while it is in the pool and      *)
(* until it is initialized.                                                    *)
Nameless(b) == refs[b] = 0 \/ (pc["decode"] = "initialize" /\ current = b)

SetOutput(t) ==
    LET b == partial[t] IN
      /\ pc[t] = "output" /\ lock = "nobody"
      /\ IF OutputsNow(b) /\ Nameless(b) THEN Undefined("buffer")
         ELSE /\ state' = [state EXCEPT ![b].out = TRUE]
              /\ output' = IF OutputsNow(b) THEN [output EXCEPT ![b] = @ + 1] ELSE output
              /\ Goto(t, "forget")
              /\ UNCHANGED <<refs, counts, codec, marks, past, lock, partial, work, picture>>

Forget(t) ==
    /\ pc[t] = "forget"
    /\ current' = NoBuffer
    /\ partial' = [partial EXCEPT ![t] = NoBuffer]
    /\ Goto(t, Return(t))
    /\ UNCHANGED <<buffers, counts, context, marks, past, lock, work, picture>>

-----------------------------------------------------------------------------
(* ReleaseDecodeContext, in the callback or, after a failure, in Input.        *)

(* The engine finishes its commands in their order.                            *)
Released(t) == IF t = "mme" THEN Head(mme) ELSE work

(* The end of its section under Lock: the current index is reset if it is that *)
(* of the context, in the next step.                                           *)
AfterIndex(t) == IF Released(t).use = NoBuffer THEN "context" ELSE "references"
CompareIndex(t) ==
    LET same == Released(t).buffer = current IN
      /\ lock' = IF same THEN t ELSE "nobody"
      /\ Goto(t, IF same THEN "forgetIndex" ELSE AfterIndex(t))

\* Mutant: one decode too many is discarded.
DiscardingOneMore == completed <= discardUntil
Discarding == completed < discardUntil

Release(t) ==
    LET b == Released(t).buffer
        complete == state[b].out /\ state[b].busy = 1
        discard == complete /\ Discarding
    IN  /\ IF t = "mme" THEN pc[t] = "idle" /\ mme # <<>> ELSE pc[t] = "release"
        /\ lock = "nobody"
        /\ IF t = "decode" /\ context = 0 THEN Undefined("context")
           ELSE IF state[b].busy = 0 THEN Undefined("count")
           ELSE /\ state' = [state EXCEPT ![b].busy = @ - 1]
                /\ output' = IF complete /\ ~discard THEN [output EXCEPT ![b] = @ + 1]
                             ELSE output
                /\ CASE discard -> Goto(t, "discard") /\ UNCHANGED lock
                     [] ~discard /\ state[b].out -> CompareIndex(t)
                     [] ~state[b].out -> Goto(t, AfterIndex(t)) /\ UNCHANGED lock
                /\ UNCHANGED <<refs, counts, codec, marks, past, partial, work, picture>>

Discard(t) ==
    /\ pc[t] = "discard" /\ lock = "nobody"
    /\ IF refs[Released(t).buffer] = 0 THEN Undefined("count")
       ELSE /\ Drop(Released(t).buffer)
            /\ Goto(t, "compare")
            /\ UNCHANGED <<output, counts, codec, marks, past, lock, partial, work, picture>>

Compare(t) ==
    /\ pc[t] = "compare" /\ lock = "nobody"
    /\ CompareIndex(t)
    /\ UNCHANGED <<buffers, counts, codec, marks, past, partial, work, picture>>

ForgetIndex(t) ==
    /\ pc[t] = "forgetIndex"
    /\ current' = NoBuffer
    /\ lock' = "nobody"
    /\ Goto(t, AfterIndex(t))
    /\ UNCHANGED <<buffers, counts, context, marks, past, partial, work, picture>>

References(t) ==
    /\ pc[t] = "references" /\ lock = "nobody"
    /\ IF refs[Released(t).use] = 0 THEN Undefined("count")
       ELSE /\ Drop(Released(t).use)
            /\ Goto(t, "context")
            /\ UNCHANGED <<output, counts, codec, marks, past, lock, partial, work, picture>>

(* The decoder's context pointer is compared, and reset in the next step.      *)
Context(t) ==
    /\ pc[t] = "context"
    /\ Goto(t, IF Released(t).number = context THEN "forgetContext" ELSE "released")
    /\ UNCHANGED <<buffers, counts, codec, marks, past, lock, partial, work, picture>>

ForgetContext(t) ==
    /\ pc[t] = "forgetContext"
    /\ context' = 0
    /\ Goto(t, "released")
    /\ UNCHANGED <<buffers, counts, current, marks, past, lock, partial, work, picture>>

ReleaseDecodeContext(t) ==
    \/ Release(t) \/ Discard(t) \/ Compare(t) \/ ForgetIndex(t)
    \/ References(t) \/ Context(t) \/ ForgetContext(t)
OutputPartialDecodeBuffers(t) == Look(t) \/ Argument(t) \/ SetOutput(t) \/ Forget(t)

-----------------------------------------------------------------------------
(* TestMarkerFramePassOn: the test, then the marker taken under Lock and       *)
(* inserted; nobody can tell that this is after the unlock.                    *)

\* Mutant: a marker does not wait for the last decode before it.
DueOneEarly == marker # NoMarker /\ completed + 1 >= marker.at
Due == marker # NoMarker /\ completed >= marker.at

Test(t) ==
    /\ pc[t] = "test"
    /\ Goto(t, IF Due THEN "take" ELSE "idle")
    /\ UNCHANGED <<buffers, counts, codec, marks, past, lock, partial, work, picture>>

TakeMarkerBuffer(t) ==
    /\ pc[t] = "take" /\ lock = "nobody"
    /\ passed' = passed \cup ({marker} \ {NoMarker})
    /\ marker' = NoMarker
    /\ Goto(t, "idle")
    /\ UNCHANGED <<buffers, counts, codec, past, lock, partial, work, picture>>

TestMarkerFramePassOn(t) == Test(t) \/ TakeMarkerBuffer(t)

-----------------------------------------------------------------------------
(* Input, in the thread that takes parsed frames to the decoder.               *)

(* A marker that is still held is taken and given back, then the new one gets  *)
(* a buffer; there may be none.                                                *)
InputMarker ==
    /\ pc["decode"] = "idle" /\ markers < MaxMarkers /\ lock = "nobody"
    /\ marker' = NoMarker
    /\ Goto("decode", "marker")
    /\ UNCHANGED <<buffers, counts, codec, passed, past, lock, partial, work, picture>>

MarkerFails ==
    /\ pc["decode"] = "marker"
    /\ Fails
    /\ Goto("decode", "idle")
    /\ UNCHANGED <<buffers, counts, codec, marks, lock, partial, work, picture,
                   direct, markers, drains, wild>>

\* Mutant: only the callback tests for a marker to be passed on.
HoldMarkerUntested ==
    /\ pc["decode"] = "marker"
    /\ markers' = markers + 1
    /\ marker' = [number |-> markers + 1, at |-> prepared]
    /\ Goto("decode", "idle")
    /\ UNCHANGED <<buffers, counts, codec, passed, lock, partial, work, picture,
                   direct, drains, failed, wild>>

HoldMarker ==
    /\ pc["decode"] = "marker"
    /\ markers' = markers + 1
    /\ marker' = [number |-> markers + 1, at |-> prepared]
    /\ Goto("decode", "test")
    /\ UNCHANGED <<buffers, counts, codec, passed, lock, partial, work, picture,
                   direct, drains, failed, wild>>

(* A picture gets a context; if there is a half buffer before the first of a   *)
(* frame it is output.                                                         *)
InputPicture ==
    /\ pc["decode"] = "idle" /\ prepared < MaxPictures[direct]
    /\ picture' \in Pictures
    /\ context' = prepared + 1
    /\ work' = [NoContext EXCEPT !.number = prepared + 1]
    /\ Goto("decode", IF picture'.first /\ current # NoBuffer THEN "look" ELSE "obtain")
    /\ UNCHANGED <<buffers, counts, current, marks, past, lock, partial>>

(* A buffer is obtained and its index stored, then its state is initialized    *)
(* by way of that index; in what follows the call may still fail.              *)
GetDecodeBuffer(b) ==
    /\ pc["decode"] = "obtain" /\ current = NoBuffer
    /\ refs[b] = 0
    /\ refs' = [refs EXCEPT ![b] = 1]
    /\ current' = b
    /\ Goto("decode", "initialize")
    /\ UNCHANGED <<state, output, counts, context, marks, past, lock, partial, work, picture>>

Initialized ==
    /\ state' = [state EXCEPT ![current] = Fresh]
    /\ UNCHANGED <<refs, output, counts, codec, marks, lock, partial, work, picture,
                   direct, markers, drains, wild>>

InitializeBuffer ==
    /\ pc["decode"] = "initialize"
    /\ IF current = NoBuffer THEN Undefined("index")
       ELSE \/ Initialized /\ Goto("decode", "prepare") /\ UNCHANGED failed
            \/ /\ failed < MaxFailures
               /\ IF context = 0 THEN Undefined("context")
                  ELSE Initialized /\ Goto("decode", "context") /\ Fails

GetFails ==
    /\ pc["decode"] = "obtain" /\ current = NoBuffer
    /\ failed < MaxFailures
    /\ IF context = 0 THEN Undefined("context")
       ELSE /\ Fails
            /\ Goto("decode", "context")
            /\ UNCHANGED <<buffers, counts, codec, marks, lock, partial, work, picture,
                           direct, markers, drains, wild>>

KeepDecodeBuffer ==
    /\ pc["decode"] = "obtain" /\ current # NoBuffer
    /\ Goto("decode", "prepare")
    /\ UNCHANGED <<buffers, counts, codec, marks, past, lock, partial, work, picture>>

(* A second field that does not fit its first: the partial buffer is output,   *)
(* the context kept for the next picture.                                      *)
KeepFails ==
    /\ pc["decode"] = "obtain" /\ current # NoBuffer
    /\ Fails
    /\ work' = NoContext /\ picture' = NoPicture
    /\ Goto("decode", "look")
    /\ UNCHANGED <<buffers, counts, codec, marks, lock, partial, direct, markers, drains,
                   wild>>

(* TranslateReferenceFrameLists: a reference keeps its own buffer, the decode  *)
(* those it reads; one that is not found is replaced by the buffer itself.     *)
Readable == IF ~picture.reads THEN {NoBuffer}
            ELSE {b \in Buffers : refs[b] > 0} \cup {current}

Prepare ==
    /\ pc["decode"] = "prepare"
    /\ IF current = NoBuffer THEN Undefined("index")
       ELSE IF context = 0 THEN Undefined("context")
       ELSE \E use \in Readable :
              /\ work' = [work EXCEPT !.buffer = current, !.use = use]
              /\ IF picture.reference
                 THEN /\ refs' = [refs EXCEPT ![current] = @ + 1]
                      /\ state' = [state EXCEPT ![current].pinned = @ + 1]
                 ELSE UNCHANGED <<refs, state>>
              /\ Goto("decode", "use")
              /\ UNCHANGED <<output, counts, codec, marks, past, lock, partial, picture>>

\* Mutant: the buffers that are read are not counted.
ReadersNone == {}
Readers == {work.use} \ {NoBuffer}

(* The buffer found may since have gone back to the pool.                      *)
UseReference ==
    /\ pc["decode"] = "use"
    /\ IF context = 0 THEN Undefined("context")
       ELSE IF \E b \in Readers : refs[b] = 0 THEN Undefined("reference")
       ELSE /\ refs' = [b \in Buffers |-> IF b \in Readers THEN refs[b] + 1 ELSE refs[b]]
            /\ \/ Goto("decode", "count") /\ UNCHANGED failed
               \/ Fails  \* FillOutDecodeCommand
                  /\ Goto("decode", IF work.use = NoBuffer THEN "context" ELSE "references")
            /\ UNCHANGED <<state, output, counts, codec, marks, lock, partial, work, picture,
                           direct, markers, drains, wild>>

CountDecode ==
    /\ pc["decode"] = "count" /\ lock = "nobody"
    /\ IF current = NoBuffer THEN Undefined("index")
       ELSE IF context = 0 THEN Undefined("context")
       ELSE LET fields == state[current].fields \cup picture.fields
                last == fields = {1, 2}
            IN  /\ state' = [state EXCEPT ![current].busy = @ + 1, ![current].out = last,
                                          ![current].fields = fields]
                /\ work' = [work EXCEPT !.counted = TRUE, !.last = last]
                /\ Goto("decode", "send")
                /\ UNCHANGED <<refs, output, counts, codec, marks, past, lock, partial,
                               picture>>

(* A command that cannot be sent is prepared but will never complete.          *)
SendMMEDecodeCommand ==
    /\ pc["decode"] = "send"
    /\ IF context = 0 THEN Undefined("context")
       ELSE /\ prepared' = prepared + 1
            /\ \/ mme' = Append(mme, work) /\ Goto("decode", "finish") /\ UNCHANGED failed
               \/ Fails /\ Goto("decode", "release") /\ UNCHANGED mme
            /\ UNCHANGED <<buffers, completed, discardUntil, codec, marks, lock, partial,
                           work, picture, direct, markers, drains, wild>>

Finish ==
    /\ pc["decode"] = "finish"
    /\ context' = 0
    /\ current' = IF work.last THEN NoBuffer ELSE current
    /\ work' = NoContext /\ picture' = NoPicture
    /\ Goto("decode", "idle")
    /\ UNCHANGED <<buffers, counts, marks, past, lock, partial>>

(* ProcessParseToDecode: after a failure the partial buffer is output, if the  *)
(* picture was the first of its frame.                                         *)
Failed ==
    /\ pc["decode"] = "released"
    /\ work' = NoContext /\ picture' = NoPicture
    /\ Goto("decode", IF picture.first THEN "look" ELSE "idle")
    /\ UNCHANGED <<buffers, counts, codec, marks, past, lock, partial>>

(* Calls in sequence: the parser asks to output a partial buffer, or releases  *)
(* a reference frame.                                                          *)
OutputInSequence ==
    /\ pc["decode"] = "idle" /\ current # NoBuffer
    /\ Goto("decode", "look")
    /\ UNCHANGED <<buffers, counts, codec, marks, past, lock, partial, work, picture>>

ReleaseReferenceFrame(b) ==
    /\ pc["decode"] = "idle" /\ lock = "nobody"
    /\ state[b].pinned > 0
    /\ IF refs[b] = 0 THEN Undefined("count")
       ELSE /\ refs' = [refs EXCEPT ![b] = @ - 1]
            /\ state' = IF refs[b] = 1 THEN [state EXCEPT ![b] = Fresh]
                        ELSE [state EXCEPT ![b].pinned = @ - 1]
            /\ UNCHANGED <<output, counts, codec, marks, past, threads>>

-----------------------------------------------------------------------------
(* CallbackFromMME: the context is released, then the command counted.         *)

\* Mutant: the command is counted although its context was just counted.
CompletedTwice ==
    /\ pc["mme"] = "released"
    /\ completed' = completed + 2
    /\ mme' = Tail(mme)
    /\ Goto("mme", "test")
    /\ UNCHANGED <<buffers, prepared, discardUntil, codec, marks, past, lock, partial, work,
                   picture>>

Completed ==
    /\ pc["mme"] = "released"
    /\ completed' = completed + 1
    /\ mme' = Tail(mme)
    /\ Goto("mme", "test")
    /\ UNCHANGED <<buffers, prepared, discardUntil, codec, marks, past, lock, partial, work,
                   picture>>
CallbackFromMME == Completed \/ ReleaseDecodeContext("mme") \/ TestMarkerFramePassOn("mme")

(* A drain that discards: DiscardQueuedDecodes, then the partial buffer.       *)
Drainer == IF direct THEN "drain" ELSE "decode"
DiscardQueuedDecodes ==
    /\ pc[Drainer] = "idle" /\ drains < MaxDrains
    /\ drains' = drains + 1
    /\ discardUntil' = prepared
    /\ Goto(Drainer, "look")
    /\ UNCHANGED <<buffers, prepared, completed, mme, codec, marks, lock, partial, work,
                   picture, direct, markers, failed, wild>>

(* A buffer that was passed on is given back: ReleaseDecodeBuffer.             *)
ReleaseDecodeBuffer(b) ==
    /\ output[b] > 0 /\ lock = "nobody"
    /\ IF refs[b] = 0 THEN Undefined("count")
       ELSE /\ output' = [output EXCEPT ![b] = @ - 1]
            /\ Drop(b)
            /\ UNCHANGED <<counts, codec, marks, past, threads>>

-----------------------------------------------------------------------------
DecodeStep ==
    \/ GetFails \/ InitializeBuffer \/ KeepDecodeBuffer \/ KeepFails
    \/ Prepare \/ UseReference \/ CountDecode \/ MarkerFails \/ HoldMarker
    \/ SendMMEDecodeCommand \/ Finish \/ Failed
    \/ \E b \in Buffers : GetDecodeBuffer(b)
    \/ ReleaseDecodeContext("decode") \/ OutputPartialDecodeBuffers("decode")
    \/ TestMarkerFramePassOn("decode")
Input == InputMarker \/ InputPicture
InSequence == OutputInSequence \/ \E b \in Buffers : ReleaseReferenceFrame(b)
DrainStep == OutputPartialDecodeBuffers("drain")
GiveBack == \E b \in Buffers : ReleaseDecodeBuffer(b)

Next == /\ wild = "no"
        /\ DecodeStep \/ Input \/ InSequence \/ CallbackFromMME \/ DrainStep
           \/ DiscardQueuedDecodes \/ GiveBack

Spec == Init /\ [][Next]_vars

-----------------------------------------------------------------------------
Contexts == [number : 0..MaxPictures[direct], buffer : Buffers \cup {NoBuffer},
             use : Buffers \cup {NoBuffer}, counted : BOOLEAN, last : BOOLEAN]
Marks == [number : 0..MaxMarkers, at : 0..MaxPictures[direct]]

(* The variables have their types: at most as many commands are completed as   *)
(* were sent, and the lock is held only by a thread about to reset the index   *)
(* (codec_mme_base.h:300-360).                                                 *)
TypeOK ==
    /\ direct \in Directs
    /\ state \in [Buffers -> [out : BOOLEAN, busy : 0..MaxPictures[direct], fields : SUBSET {1, 2},
                              pinned : 0..(MaxPictures[direct] + MaxFailures)]]
    /\ refs \in [Buffers -> Nat] /\ output \in [Buffers -> Nat]
    /\ current \in Buffers \cup {NoBuffer} /\ context \in 0..MaxPictures[direct]
    /\ prepared \in 0..MaxPictures[direct] /\ discardUntil \in 0..prepared
    /\ completed \in Nat /\ completed + Len(mme) <= prepared
    /\ mme \in Seq(Contexts)
    /\ marker \in Marks /\ passed \subseteq Marks
    /\ lock \in Threads \cup {"nobody"}
    /\ \A t \in Threads : (lock = t) = (pc[t] = "forgetIndex")
    /\ partial \in [Threads -> Buffers \cup {NoBuffer}]
    /\ work \in Contexts
    /\ picture \in Pictures \cup {NoPicture}
    /\ markers \in 0..MaxMarkers /\ drains \in 0..MaxDrains /\ failed \in 0..MaxFailures
    /\ wild \in {"no", "index", "context", "count", "buffer", "reference"}

(* The buffers that are decoded into, and those that a decode reads.           *)
Sent == {mme[i] : i \in DOMAIN mme}
Inputting(labels) == IF pc["decode"] \in labels THEN {work} ELSE {}
Releasing == IF pc["mme"] \in {"idle", "test", "take"} THEN {} ELSE {Head(mme)}
Filled == {c.buffer : c \in (Sent \ Releasing) \cup Inputting({"use", "count", "send", "release"})}
Read == {c.use : c \in (Sent \ Releasing)
                   \cup {d \in Releasing : pc["mme"] \notin {"context", "forgetContext", "released"}}
                   \cup Inputting({"count", "send", "release", "discard", "compare", "forgetIndex",
                                  "references"})}
Undecoded(b) == \/ state[b].busy > 0
                \/ /\ pc["decode"] \in {"initialize", "prepare", "use", "count"}
                   /\ current = b

(* Nothing is decoded any more into a buffer that was passed on: no decode     *)
(* into it is under way or about to start, and it is passed on once            *)
(* (codec_mme_base.h:204, "Copy to output ring when decodes in progress        *)
(* reaches zero").  Where the draining thread outputs partial buffers itself   *)
(* it holds until there is a drain.                                            *)
DecodedBeforeOutput ==
    (direct => drains = 0) =>
      \A b \in Buffers : output[b] > 0 => output[b] = 1 /\ ~Undecoded(b)

(* A buffer that is decoded into or read by a decode is not in the pool, where *)
(* the next picture could be given it, and no reference is dropped twice       *)
(* (codec_mme_base.cpp:1268, 1317, 1850-1879).                                 *)
InUseNotFree ==
    (direct => drains = 0) =>
      /\ wild # "count"
      /\ \A b \in (Filled \cup Read) \ {NoBuffer} : refs[b] > 0

(* A drain discards nothing that is input after it: what the callback discards *)
(* was prepared before, as far as no command that could not be sent shifted    *)
(* the counts (codec_mme_base.cpp:1129).                                       *)
NewFramesKept == pc["mme"] = "discard" => Head(mme).number <= discardUntil + failed

(* The first marker is passed on only when all pictures before it are decoded  *)
(* (codec_mme_base.cpp:801).                                                   *)
MarkerBehindDecodes == \A m \in passed : m.number = 1 => completed >= m.at

(* No marker is left behind: when all threads are at rest and the engine has   *)
(* nothing to do, none is held, unless a command could not be sent; the drain  *)
(* that sent it waits for it (codec_mme_base.cpp:1836).                        *)
NoMarkerLeft ==
    (\A t \in Threads : pc[t] = "idle") /\ mme = <<>> /\ failed = 0 => marker = NoMarker

(* The index of the buffer that is being filled is reset under the hands of    *)
(* Input only after a failure (codec_mme_base.cpp:1174-1177, "if we are        *)
(* releasing a decode context due to a failure, then it is possible this can   *)
(* result in invalidation of the current decode index").                       *)
IndexPulledByFailure == wild = "index" => failed > 0
=============================================================================
