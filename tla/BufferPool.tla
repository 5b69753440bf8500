----------------------------- MODULE BufferPool -----------------------------
(***************************************************************************)
(* The buffers of the player (BufferPool_Generic_c with a fixed number of  *)
(* buffers, Buffer_Generic_c): they are got from a pool, shared by counting*)
(* references, attached to one another and returned to their pool by the   *)
(* thread that drops the last reference, which drops the references of the *)
(* buffer to others in turn.                                               *)
(*                                                                         *)
(* The counts of a pool and of a buffer are changed under two mutexes, one *)
(* after the other; each locked section is a step.  The mutex a release    *)
(* holds while it detaches is left out: nobody else works on a buffer      *)
(* without references.                                                     *)
(***************************************************************************)
EXTENDS Integers, FiniteSets, Functions

CONSTANTS
    Procs,         \* the threads
    Buffers, Pools,
    PoolOf,        \* the pool a buffer belongs to
    Attachable,    \* which buffer may be attached to which: <<host, guest>>
    MaxAttached,   \* MAX_ATTACHED_BUFFERS
    MaxRefs,       \* bound: references of one thread to one buffer
    MemoryFails,   \* may the memory of a buffer fail to be allocated?
    NoBuffer, NoPool

ASSUME PoolAssumption == PoolOf \in [Buffers -> Pools]
ASSUME NoneAssumption == NoBuffer \notin Buffers /\ NoPool \notin Pools
ASSUME RefsAssumption == MaxRefs \in Nat \ {0} /\ MemoryFails \in BOOLEAN
ASSUME SlotsAssumption == MaxAttached \in Nat
\* A coded frame carries its parameters, a decode buffer its coded frame.
ASSUME AttachAssumption ==
    /\ Attachable \subseteq Buffers \X Buffers
    /\ \A a, b \in Buffers : <<a, b>> \in Attachable => a # b

VARIABLES
    free,        \* FreeBuffer: the buffers in the ring of a pool
    poolRefs,    \* BufferPool_Generic_c::ReferenceCount
    referenced,  \* CountOfReferencedBuffers
    abort,       \* AbortGetBuffer
    signal,      \* BufferReleaseSignal
    refCount,    \* Buffer_Generic_c::ReferenceCount
    attached,    \* AttachedBuffers
    at,          \* where a thread is in GetBuffer, IncrementReferenceCount or AttachBuffer
    pool, buf, host,  \* what it is working on there
    stage,       \* how far its call of DecrementReferenceCount for a buffer is
    holds,       \* history: the references its code holds
    leaked       \* history: the buffers whose memory could not be allocated

poolVars   == <<free, poolRefs, referenced, abort, signal>>
bufferVars == <<refCount, attached>>
callVars   == <<at, pool, buf, host>>
vars == <<poolVars, bufferVars, callVars, stage, holds, leaked>>

Init ==
    /\ free = [q \in Pools |-> {b \in Buffers : PoolOf[b] = q}]
    /\ poolRefs = [q \in Pools |-> 0] /\ referenced = [q \in Pools |-> 0]
    /\ abort = [q \in Pools |-> FALSE] /\ signal = [q \in Pools |-> FALSE]
    /\ refCount = [b \in Buffers |-> 0] /\ attached = [b \in Buffers |-> {}]
    /\ at = [p \in Procs |-> "idle"]
    /\ pool = [p \in Procs |-> NoPool]
    /\ buf = [p \in Procs |-> NoBuffer] /\ host = [p \in Procs |-> NoBuffer]
    /\ stage = [p \in Procs |-> [b \in Buffers |-> "none"]]
    /\ holds = [p \in Procs |-> [b \in Buffers |-> 0]]
    /\ leaked = {}

Idle(p)      == at[p] = "idle" /\ \A b \in Buffers : stage[p][b] = "none"
Goto(p, l)   == at' = [at EXCEPT ![p] = l]
Return(p)    == /\ Goto(p, "idle")
                /\ pool' = [pool EXCEPT ![p] = NoPool]
                /\ buf' = [buf EXCEPT ![p] = NoBuffer]
                /\ host' = [host EXCEPT ![p] = NoBuffer]
Gain(p, b)   == holds' = [holds EXCEPT ![p][b] = @ + 1]
Give(p, b)   == holds' = [holds EXCEPT ![p][b] = @ - 1]
Add(f, x, n) == f' = [f EXCEPT ![x] = @ + n]

---------------------------------------------------------------------------
(* GetBuffer *)

\* Entering clears the abort flag, whoever it was meant for.
GetEnter(p) ==
    /\ Idle(p)
    /\ \E q \in Pools :
        /\ abort' = [abort EXCEPT ![q] = FALSE]
        /\ pool' = [pool EXCEPT ![p] = q]
    /\ Goto(p, "try") \/ Goto(p, "tryOnce")
    /\ UNCHANGED <<free, poolRefs, referenced, signal, bufferVars, buf, host, stage, holds, leaked>>

\* A round of the loop, under the mutex of the pool.
GetTry(p) ==
    /\ at[p] \in {"try", "tryOnce"}
    /\ signal' = [signal EXCEPT ![pool[p]] = FALSE]
    /\ \/ \E b \in free[pool[p]] :
            /\ free' = [free EXCEPT ![pool[p]] = @ \ {b}]
            /\ buf' = [buf EXCEPT ![p] = b]
            /\ Goto(p, "memory")
            /\ UNCHANGED <<pool, host>>
       \/ /\ free[pool[p]] = {}
          /\ at[p] = "tryOnce" \/ abort[pool[p]]
          /\ Return(p) /\ UNCHANGED free
       \/ /\ free[pool[p]] = {}
          /\ at[p] = "try" /\ ~abort[pool[p]]
          /\ Goto(p, "wait") /\ UNCHANGED <<free, pool, buf, host>>
    /\ UNCHANGED <<poolRefs, referenced, abort, bufferVars, stage, holds, leaked>>

\* An abort met after the wait ends the call without another look at the ring.
GetResume(p) ==
    \/ abort[pool[p]] /\ Return(p)
    \/ ~abort[pool[p]] /\ Goto(p, "try") /\ UNCHANGED <<pool, buf, host>>

GetWoken(p) ==
    /\ at[p] = "wait" /\ signal[pool[p]]
    /\ GetResume(p)
    /\ UNCHANGED <<poolVars, bufferVars, stage, holds, leaked>>

GetTimeout(p) ==
    /\ at[p] = "wait" /\ ~signal[pool[p]]
    /\ GetResume(p)
    /\ UNCHANGED <<poolVars, bufferVars, stage, holds, leaked>>

\* When the memory cannot be allocated GetBuffer returns, and with it the
\* only pointer to the buffer is gone.
GetMemory(p) ==
    /\ at[p] = "memory"
    /\ \/ Goto(p, "fresh") /\ UNCHANGED <<pool, buf, host, leaked>>
       \/ MemoryFails /\ leaked' = leaked \cup {buf[p]} /\ Return(p)
    /\ UNCHANGED <<poolVars, bufferVars, stage, holds>>

\* The buffer is initialised, without a mutex.
GetFresh(p) ==
    /\ at[p] = "fresh"
    /\ refCount' = [refCount EXCEPT ![buf[p]] = 1]
    /\ attached' = [attached EXCEPT ![buf[p]] = {}]
    /\ Goto(p, "pooled")
    /\ UNCHANGED <<poolVars, pool, buf, host, stage, holds, leaked>>

GetPooled(p) ==
    /\ at[p] = "pooled"
    /\ Add(poolRefs, pool[p], 1) /\ Add(referenced, pool[p], 1)
    /\ Gain(p, buf[p]) /\ Return(p)
    /\ UNCHANGED <<free, abort, signal, bufferVars, stage, leaked>>

\* AbortBlockingGetBuffer
Abort(q) ==
    /\ abort' = [abort EXCEPT ![q] = TRUE]
    /\ signal' = [signal EXCEPT ![q] = TRUE]
    /\ UNCHANGED <<free, poolRefs, referenced, bufferVars, callVars, stage, holds, leaked>>

---------------------------------------------------------------------------
(* IncrementReferenceCount and AttachBuffer, by a thread that holds what it *)
(* works on.                                                               *)

IncrementCall(p) ==
    /\ Idle(p)
    /\ \E b \in Buffers : /\ holds[p][b] \in 1 .. MaxRefs - 1
                          /\ buf' = [buf EXCEPT ![p] = b]
    /\ Goto(p, "incPool")
    /\ UNCHANGED <<poolVars, bufferVars, pool, host, stage, holds, leaked>>

\* Mutant: a guest is attached without a reference of its own.
AttachCallUncounted(p) ==
    /\ Idle(p)
    /\ \E a, b \in Buffers :
        /\ <<a, b>> \in Attachable /\ holds[p][a] > 0 /\ holds[p][b] > 0
        /\ b \notin attached[a] /\ Cardinality(attached[a]) < MaxAttached
        /\ attached' = [attached EXCEPT ![a] = @ \cup {b}]
    /\ UNCHANGED <<poolVars, refCount, callVars, stage, holds, leaked>>

\* The slot is taken first, under the mutex of the host.  A host whose slots are
\* all taken refuses (BufferTooManyAttachments), and nothing changes.  No caller
\* attaches to a host what is attached to it: guests are looked up by their type.
AttachCall(p) ==
    /\ Idle(p)
    /\ \E a, b \in Buffers :
        /\ <<a, b>> \in Attachable /\ holds[p][a] > 0 /\ holds[p][b] > 0
        /\ b \notin attached[a] /\ Cardinality(attached[a]) < MaxAttached
        /\ attached' = [attached EXCEPT ![a] = @ \cup {b}]
        /\ buf' = [buf EXCEPT ![p] = b] /\ host' = [host EXCEPT ![p] = a]
    /\ Goto(p, "incPool")
    /\ UNCHANGED <<poolVars, refCount, pool, stage, holds, leaked>>

IncrementPool(p) ==
    /\ at[p] = "incPool"
    /\ Add(poolRefs, PoolOf[buf[p]], 1)
    /\ Goto(p, "inc")
    /\ UNCHANGED <<free, referenced, abort, signal, bufferVars, pool, buf, host, stage, holds, leaked>>

IncrementCount(p) ==
    /\ at[p] = "inc"
    /\ Add(refCount, buf[p], 1)
    /\ IF host[p] = NoBuffer THEN Gain(p, buf[p]) ELSE UNCHANGED holds
    /\ Return(p)
    /\ UNCHANGED <<poolVars, attached, stage, leaked>>

---------------------------------------------------------------------------
(* DecrementReferenceCount, ReleaseBuffer and DetachBuffer *)

Step(p, b, l) == stage' = [stage EXCEPT ![p][b] = l]

DecrementCall(p) ==
    /\ Idle(p)
    /\ \E b \in Buffers : holds[p][b] > 0 /\ Give(p, b) /\ Step(p, b, "pool")
    /\ UNCHANGED <<poolVars, bufferVars, callVars, leaked>>

Attaching(a, b) == \E p \in Procs : host[p] = a /\ buf[p] = b

DetachCall(p) ==
    /\ Idle(p)
    /\ \E a, b \in Buffers :
        /\ b \in attached[a] /\ holds[p][a] > 0 /\ ~Attaching(a, b)
        /\ attached' = [attached EXCEPT ![a] = @ \ {b}]
        /\ Step(p, b, "pool")
    /\ UNCHANGED <<poolVars, refCount, callVars, holds, leaked>>

DecrementPool(p, b) ==
    /\ stage[p][b] = "pool"
    /\ Add(poolRefs, PoolOf[b], -1)
    /\ Step(p, b, "count")
    /\ UNCHANGED <<free, referenced, abort, signal, bufferVars, callVars, holds, leaked>>

\* Mutant: the count is read again after the mutex was given back.
DecrementCountUncopied(p, b) ==
    /\ stage[p][b] = "count"
    /\ Add(refCount, b, -1)
    /\ IF \/ refCount[b] = 1
          \/ refCount[b] = 2 /\ \E r \in Procs \ {p} : stage[r][b] = "count"
       THEN Step(p, b, "detach") ELSE Step(p, b, "none")
    /\ UNCHANGED <<poolVars, attached, callVars, holds, leaked>>

\* The thread whose own decrement reached zero does the release.
DecrementCount(p, b) ==
    /\ stage[p][b] = "count"
    /\ Add(refCount, b, -1)
    /\ IF refCount[b] = 1 THEN Step(p, b, "detach") ELSE Step(p, b, "none")
    /\ UNCHANGED <<poolVars, attached, callVars, holds, leaked>>

\* Mutant: the guests are forgotten without being released.
ReleaseAttachedNot(p, a) ==
    /\ stage[p][a] = "detach"
    /\ Step(p, a, "free")
    /\ attached' = [attached EXCEPT ![a] = {}]
    /\ UNCHANGED <<poolVars, refCount, callVars, holds, leaked>>

\* ReleaseBuffer drops the guests one after the other, each in a nested call.
ReleaseAttached(p, a) ==
    /\ stage[p][a] = "detach"
    /\ \A b \in Buffers : <<a, b>> \in Attachable => stage[p][b] = "none"
    /\ \/ \E b \in attached[a] : /\ attached' = [attached EXCEPT ![a] = @ \ {b}]
                                 /\ Step(p, b, "pool")
       \/ attached[a] = {} /\ Step(p, a, "free") /\ UNCHANGED attached
    /\ UNCHANGED <<poolVars, refCount, callVars, holds, leaked>>

ReleaseInsert(p, b) ==
    /\ stage[p][b] = "free"
    /\ free' = [free EXCEPT ![PoolOf[b]] = @ \cup {b}]
    /\ signal' = [signal EXCEPT ![PoolOf[b]] = TRUE]
    /\ Add(referenced, PoolOf[b], -1)
    /\ Step(p, b, "none")
    /\ UNCHANGED <<poolRefs, abort, bufferVars, callVars, holds, leaked>>

---------------------------------------------------------------------------
\* A thread hands a reference to another that is waiting for one, over a ring.
Pass(p) ==
    /\ Idle(p)
    /\ \E b \in Buffers, r \in Procs \ {p} :
        /\ Idle(r) /\ holds[p][b] > 0 /\ holds[r][b] < MaxRefs
        /\ holds' = [holds EXCEPT ![p][b] = @ - 1, ![r][b] = @ + 1]
    /\ UNCHANGED <<poolVars, bufferVars, callVars, stage, leaked>>

Get(p)  == \/ GetTry(p) \/ GetWoken(p) \/ GetTimeout(p) \/ GetMemory(p)
           \/ GetFresh(p) \/ GetPooled(p)
Inc(p)  == IncrementPool(p) \/ IncrementCount(p)
Drop(p) == \E b \in Buffers : \/ DecrementPool(p, b) \/ DecrementCount(p, b)
                              \/ ReleaseAttached(p, b) \/ ReleaseInsert(p, b)
Use(p)  == \/ GetEnter(p) \/ IncrementCall(p) \/ AttachCall(p) \/ DecrementCall(p)
           \/ DetachCall(p) \/ Pass(p)

Next == (\E p \in Procs : Use(p) \/ Get(p) \/ Inc(p) \/ Drop(p)) \/ (\E q \in Pools : Abort(q))

Spec == Init /\ [][Next]_vars

---------------------------------------------------------------------------
(* Properties. *)

\* A thread has a buffer in hand that is in no ring and nobody else's yet, or
\* no longer.
Getting(p, b)   == at[p] \in {"memory", "fresh", "pooled"} /\ buf[p] = b
Releasing(p, b) == stage[p][b] \in {"detach", "free"}

\* At any time a buffer is in the ring, or in the hand of one thread, or in
\* use, or was leaked by GetBuffer: no two threads release it, although two may
\* drop the last two references at once (DecrementReferenceCount: "only one
\* will do the actual release").
InUse(b) == refCount[b] > 0 /\ \A p \in Procs : ~Getting(p, b)

Places(b) ==
    {x \in {<<"ring">>, <<"use">>, <<"leak">>} :
        \/ x = <<"ring">> /\ b \in free[PoolOf[b]]
        \/ x = <<"use">>  /\ InUse(b)
        \/ x = <<"leak">> /\ b \in leaked}
    \cup {<<"hand", p>> : p \in {p \in Procs : Getting(p, b) \/ Releasing(p, b)}}

InOnePlace == \A b \in Buffers : \E x \in Places(b) : Places(b) = {x}

\* The references there are to a buffer: held by a thread, by a host, just got,
\* and being dropped.
Owner == [kind : {"held"}, who : Procs, n : 1 .. MaxRefs]
         \cup [kind : {"host"}, who : Buffers, n : {0}]
         \cup [kind : {"got", "drop"}, who : Procs, n : {0}]

Owns(o, b) ==
    \/ o.kind = "held" /\ o.n <= holds[o.who][b]
    \/ o.kind = "host" /\ b \in attached[o.who] /\ ~Attaching(o.who, b)
    \/ o.kind = "got"  /\ at[o.who] = "pooled" /\ buf[o.who] = b
    \/ o.kind = "drop" /\ stage[o.who][b] \in {"pool", "count"}

Owners(b) == {o \in Owner : Owns(o, b)}

\* A buffer's count is the number of references there are to it, in the middle
\* of all calls too (IncrementReferenceCount, DecrementReferenceCount).
CountsOwners == \A b \in Buffers : refCount[b] = Cardinality(Owners(b))

\* No call is made on a buffer that has no reference left
\* (AssertNonZeroReferenceCount), and a buffer whose release has ended has no
\* guests.
NeverDead ==
    /\ \A p \in Procs :
        /\ at[p] \in {"incPool", "inc"} => refCount[buf[p]] > 0
        /\ \A b \in Buffers : stage[p][b] \in {"pool", "count"} => refCount[b] > 0
    /\ \A a \in Buffers : attached[a] # {} =>
        refCount[a] > 0 \/ \E p \in Procs : Releasing(p, a)

TypeOK ==
    /\ free \in [Pools -> SUBSET Buffers]
    /\ poolRefs \in [Pools -> Int] /\ referenced \in [Pools -> Int]
    /\ abort \in [Pools -> BOOLEAN] /\ signal \in [Pools -> BOOLEAN]
    /\ refCount \in [Buffers -> Nat] /\ attached \in [Buffers -> SUBSET Buffers]
    /\ at \in [Procs -> {"idle", "try", "tryOnce", "wait", "memory", "fresh", "pooled",
                         "incPool", "inc"}]
    /\ pool \in [Procs -> Pools \cup {NoPool}]
    /\ buf \in [Procs -> Buffers \cup {NoBuffer}]
    /\ host \in [Procs -> Buffers \cup {NoBuffer}]
    /\ stage \in [Procs -> [Buffers -> {"none", "pool", "count", "detach", "free"}]]
    /\ holds \in [Procs -> [Buffers -> 0 .. MaxRefs]]
    /\ leaked \subseteq Buffers
=============================================================================
