--------------------------- MODULE AllocatorSimple ---------------------------
(***************************************************************************)
(* The allocator of the memory of a buffer pool of the player (class       *)
(* AllocatorSimple_c): a table of free blocks under a mutex, an event that *)
(* says memory was given back, and the calls the pool makes.  The pool     *)
(* calls Free without its own lock, so several threads free at once.       *)
(*                                                                         *)
(* A call runs under the mutex in one step, except for what the code has   *)
(* outside: Free reads HighestUsedBlockIndex before it takes the mutex,    *)
(* Allocate waits for the event after it left it; and Free, which looks at *)
(* one entry of the table in a step.  The pool makes an allocator of       *)
(* segments of one byte, so its rounding of sizes is none; the pool itself *)
(* asks for multiples of its allocation unit.                              *)
(***************************************************************************)
EXTENDS Integers, FiniteSetsExt

CONSTANTS
    Threads,            \* that release, shrink and extend blocks
    Allocator,          \* the one that also allocates (each pool has one)
    BufferSize,         \* bytes of the pool
    PhysicalAddress,    \* of its first byte
    Boundary,           \* 64 MB: no block contains a multiple of it inside
    AllocationUnitSize, \* of the pool
    MaxBlocks,          \* ALLOCATOR_SIMPLE_MAX_BLOCKS
    Requests,           \* sizes asked for
    Unused,             \* an entry of the table that is not InUse
    Nobody              \* holds the mutex

ASSUME SizeAssumption ==
    /\ BufferSize \in Nat \ {0} /\ PhysicalAddress \in Nat
    /\ Boundary \in Nat \ {0} /\ AllocationUnitSize \in Nat \ {0}
    /\ Requests \subseteq Nat \ {0}
    /\ MaxBlocks \in Nat
    /\ BufferSize + (PhysicalAddress % Boundary) <= MaxBlocks * Boundary
ASSUME UnusedAssumption == Unused \notin [Base : Nat, Size : Nat]
ASSUME ThreadAssumption == Allocator \in Threads /\ Nobody \notin Threads

VARIABLES
    Blocks,                \* the table: Unused or a free block
    HighestUsedBlockIndex, \* no entry above it is InUse
    EntryFreed,            \* the event is set
    Lock,                  \* who keeps the mutex across steps
    BeingDeleted, InAllocate,
    deletion,              \* where the destructor is
    held,                  \* the blocks of the pool's buffers
    pc,                    \* where a thread is within its call
    want,                  \* what the Allocate in progress asks for
    giving,                \* per thread: the local variables of its Free, and
                           \* what its buffer keeps
    lost,                  \* history: blocks that Free reported it cannot enter
    overtaken              \* history: a Free worked with an index read too early

vars == <<Blocks, HighestUsedBlockIndex, EntryFreed, Lock, BeingDeleted, InAllocate,
          deletion, held, pc, want, giving, lost, overtaken>>

Index == 0 .. MaxBlocks - 1
Block(base, size) == [Base |-> base, Size |-> size]
End(b) == b.Base + b.Size

On64MBBoundary(offset) == (offset + PhysicalAddress) % Boundary = 0

RoundUp(size) ==
    ((size + AllocationUnitSize - 1) \div AllocationUnitSize) * AllocationUnitSize

\* The entries a scan of the table finds InUse.
Entries == {i \in 0 .. HighestUsedBlockIndex : Blocks[i] # Unused}

\* Bound: no call starts on a table that an overtaken Free has left.
MayCall(t) == pc[t] = "idle" /\ ~BeingDeleted /\ ~overtaken

Nothing == [keep |-> {}, give |-> Block(0, 0), lowest |-> 0, highest |-> 0, next |-> 0]

Goto(t, l) == pc' = [pc EXCEPT ![t] = l]

---------------------------------------------------------------------------
(* Free(): the whole buffer, cut where it crosses a boundary. *)

Whole ==
    LET first == Boundary - (PhysicalAddress % Boundary)
        Cut(i) == IF i = 0 THEN 0 ELSE Min({first + (i - 1) * Boundary, BufferSize})
    IN [i \in Index |-> IF Cut(i) = BufferSize THEN Unused
                        ELSE Block(Cut(i), Cut(i + 1) - Cut(i))]

Init ==
    /\ Blocks = Whole
    /\ HighestUsedBlockIndex = Max({i \in Index : Whole[i] # Unused})
    /\ EntryFreed = TRUE
    /\ Lock = Nobody /\ BeingDeleted = FALSE /\ InAllocate = FALSE
    /\ deletion = "none"
    /\ held = {}
    /\ pc = [t \in Threads |-> "idle"]
    /\ want = [size |-> 0, largest |-> FALSE]
    /\ giving = [t \in Threads |-> Nothing]
    /\ lost = {}
    /\ overtaken = FALSE

---------------------------------------------------------------------------
(* Allocate and AllocateLargest *)

FirstFit(size) ==
    {i \in Entries : /\ Blocks[i].Size >= size
                     /\ \A j \in Entries : Blocks[j].Size >= size => i <= j}

LargestFreeBlock ==
    {i \in Entries : \A j \in Entries : \/ Blocks[j].Size < Blocks[i].Size
                                        \/ Blocks[j].Size = Blocks[i].Size /\ i <= j}

\* The entry the call takes from, if there is one.
Fitting ==
    IF want.largest THEN {i \in LargestFreeBlock : Blocks[i].Size >= want.size}
    ELSE FirstFit(want.size)

\* Mutant: an entry stays InUse when nothing is left of it.
RestOfEmpty(i, size) == Block(Blocks[i].Base + size, Blocks[i].Size - size)

RestOf(i, size) ==
    IF Blocks[i].Size = size THEN Unused
    ELSE Block(Blocks[i].Base + size, Blocks[i].Size - size)

AllocateEnter(t) ==
    /\ t = Allocator /\ MayCall(t)
    /\ \E r \in Requests, l \in BOOLEAN : want' = [size |-> RoundUp(r), largest |-> l]
    /\ InAllocate' = TRUE
    /\ Goto(t, "allocate")
    /\ UNCHANGED <<Blocks, HighestUsedBlockIndex, EntryFreed, Lock, BeingDeleted,
                   deletion, held, giving, lost, overtaken>>

\* One turn of the loop.  The break of an allocator that is being deleted
\* leaves the mutex locked.
AllocateTurn(t) ==
    /\ pc[t] = "allocate" /\ Lock = Nobody
    /\ EntryFreed' = FALSE
    /\ \/ /\ BeingDeleted
          /\ Lock' = t /\ InAllocate' = FALSE /\ Goto(t, "idle")
          /\ UNCHANGED <<Blocks, held>>
       \/ /\ ~BeingDeleted
          /\ \E i \in Fitting :
               LET size == IF want.largest THEN Blocks[i].Size ELSE want.size
               IN /\ held' = held \cup {Block(Blocks[i].Base, size)}
                  /\ Blocks' = [Blocks EXCEPT ![i] = RestOf(i, size)]
          /\ InAllocate' = FALSE /\ Goto(t, "idle")
          /\ UNCHANGED Lock
       \/ /\ ~BeingDeleted /\ Fitting = {}
          /\ Goto(t, "wait")
          /\ UNCHANGED <<Blocks, held, Lock, InAllocate>>
    /\ UNCHANGED <<HighestUsedBlockIndex, BeingDeleted, deletion, want, giving, lost,
                   overtaken>>

\* The wait has no time-out.
AllocateWoken(t) ==
    /\ pc[t] = "wait" /\ EntryFreed
    /\ \/ /\ BeingDeleted
          /\ InAllocate' = FALSE /\ Goto(t, "idle")
       \/ /\ ~BeingDeleted
          /\ UNCHANGED InAllocate /\ Goto(t, "allocate")
    /\ UNCHANGED <<Blocks, HighestUsedBlockIndex, EntryFreed, Lock, BeingDeleted,
                   deletion, held, want, giving, lost, overtaken>>

---------------------------------------------------------------------------
(* ExtendToLargest: a free block next to one end of the block b is added to it. *)

Extend(t) ==
    /\ MayCall(t) /\ Lock = Nobody
    /\ \E b \in held, i \in Entries :
         /\ \/ /\ Blocks[i].Base = End(b) /\ ~On64MBBoundary(End(b))
               /\ held' = (held \ {b}) \cup {Block(b.Base, b.Size + Blocks[i].Size)}
            \/ /\ End(Blocks[i]) = b.Base /\ ~On64MBBoundary(b.Base)
               /\ held' = (held \ {b}) \cup {Block(Blocks[i].Base, b.Size + Blocks[i].Size)}
         /\ Blocks' = [Blocks EXCEPT ![i] = Unused]
    /\ UNCHANGED <<HighestUsedBlockIndex, EntryFreed, Lock, BeingDeleted, InAllocate,
                   deletion, pc, want, giving, lost, overtaken>>

---------------------------------------------------------------------------
(* Free of a range: a block, or what a buffer that shrinks no longer needs. *)

\* What the buffer keeps of its block: nothing, or the rounded size it shrinks to.
Kept(b) == {0} \cup {k \in {RoundUp(r) : r \in Requests} : k < b.Size}

\* LowestFreeBlock is preset from HighestUsedBlockIndex before the mutex is taken.
FreeEnter(t) ==
    /\ MayCall(t)
    /\ \E b \in held : \E keep \in Kept(b) :
         /\ held' = held \ {b}
         /\ giving' = [giving EXCEPT ![t] =
              [keep |-> IF keep = 0 THEN {} ELSE {Block(b.Base, keep)},
               give |-> Block(b.Base + keep, b.Size - keep),
               lowest |-> HighestUsedBlockIndex + 1, highest |-> 0, next |-> 0]]
    /\ Goto(t, "free")
    /\ UNCHANGED <<Blocks, HighestUsedBlockIndex, EntryFreed, Lock, BeingDeleted,
                   InAllocate, deletion, want, lost, overtaken>>

FreeLock(t) ==
    /\ pc[t] = "free" /\ Lock = Nobody
    /\ Lock' = t
    /\ overtaken' = (overtaken \/ giving[t].lowest # HighestUsedBlockIndex + 1)
    /\ Goto(t, "scan")
    /\ UNCHANGED <<Blocks, HighestUsedBlockIndex, EntryFreed, BeingDeleted, InAllocate,
                   deletion, held, want, giving, lost>>

Above(give, b) == End(give) = b.Base /\ ~On64MBBoundary(b.Base)
Below(give, b) == End(b) = give.Base /\ ~On64MBBoundary(give.Base)

\* Mutant: the block is only joined with the one above it.
AdjacentAbove(give, b) == Above(give, b)
\* Mutant: the boundaries are forgotten.
AdjacentAcross(give, b) == End(give) = b.Base \/ End(b) = give.Base

Adjacent(give, b) == Above(give, b) \/ Below(give, b)
Join(give, b) == Block(IF End(give) = b.Base THEN give.Base ELSE b.Base, give.Size + b.Size)

\* One turn of the scan of the table.  An entry next to the block is absorbed and
\* becomes unused; the lowest unused entry and the highest one that stays are kept.
FreeScan(t) ==
    LET i == giving[t].next
        lowest == Min({giving[t].lowest, i})
    IN  /\ pc[t] = "scan" /\ i <= HighestUsedBlockIndex
        /\ \/ /\ Blocks[i] = Unused
              /\ giving' = [giving EXCEPT ![t].lowest = lowest, ![t].next = i + 1]
              /\ UNCHANGED Blocks
           \/ /\ Blocks[i] # Unused /\ Adjacent(giving[t].give, Blocks[i])
              /\ giving' = [giving EXCEPT ![t].give = Join(@, Blocks[i]),
                                         ![t].lowest = lowest, ![t].next = i + 1]
              /\ Blocks' = [Blocks EXCEPT ![i] = Unused]
           \/ /\ Blocks[i] # Unused /\ ~Adjacent(giving[t].give, Blocks[i])
              /\ giving' = [giving EXCEPT ![t].highest = i, ![t].next = i + 1]
              /\ UNCHANGED Blocks
        /\ UNCHANGED <<HighestUsedBlockIndex, EntryFreed, Lock, BeingDeleted, InAllocate,
                       deletion, held, pc, want, lost, overtaken>>

\* Mutant: the entries above the new one are forgotten.
RecordLowest(g) ==
    /\ Blocks' = [Blocks EXCEPT ![g.lowest] = g.give]
    /\ HighestUsedBlockIndex' = g.lowest

Record(g) ==
    /\ Blocks' = [Blocks EXCEPT ![g.lowest] = g.give]
    /\ HighestUsedBlockIndex' = Max({g.lowest, g.highest})

\* The end of the scan, the event aside.
GiveBack(t) ==
    LET g == giving[t]
    IN  /\ pc[t] = "scan" /\ g.next > HighestUsedBlockIndex
        /\ \/ /\ g.lowest = MaxBlocks
              /\ lost' = lost \cup {g.give}
              /\ UNCHANGED <<Blocks, HighestUsedBlockIndex>>
           \/ /\ g.lowest # MaxBlocks
              /\ Record(g) /\ UNCHANGED lost
        /\ held' = held \cup g.keep
        /\ giving' = [giving EXCEPT ![t] = Nothing]
        /\ Lock' = Nobody
        /\ Goto(t, "idle")
        /\ UNCHANGED <<BeingDeleted, InAllocate, deletion, want, overtaken>>

\* Mutant: nobody is told.
FreeRunSilent(t) == GiveBack(t) /\ UNCHANGED EntryFreed

FreeRun(t) == GiveBack(t) /\ EntryFreed' = TRUE

---------------------------------------------------------------------------
(* The destructor.  The pool runs it when its buffers are no longer used;  *)
(* an Allocate may still be in progress.                                   *)

DeleteFlag ==
    /\ deletion = "none" /\ \A t \in Threads : pc[t] \notin {"free", "scan"}
    /\ BeingDeleted' = TRUE
    /\ deletion' = "flagged"
    /\ UNCHANGED <<Blocks, HighestUsedBlockIndex, EntryFreed, Lock, InAllocate, held, pc,
                   want, giving, lost, overtaken>>

\* Mutant: an Allocate that sleeps is left to sleep.
DeleteSignalNot ==
    /\ deletion = "flagged"
    /\ deletion' = "waiting"
    /\ UNCHANGED <<Blocks, HighestUsedBlockIndex, EntryFreed, Lock, BeingDeleted, InAllocate,
                   held, pc, want, giving, lost, overtaken>>

DeleteSignal ==
    /\ deletion = "flagged"
    /\ EntryFreed' = TRUE
    /\ deletion' = "waiting"
    /\ UNCHANGED <<Blocks, HighestUsedBlockIndex, Lock, BeingDeleted, InAllocate, held, pc,
                   want, giving, lost, overtaken>>

DeleteEnd ==
    /\ deletion = "waiting" /\ ~InAllocate
    /\ deletion' = "done"
    /\ UNCHANGED <<Blocks, HighestUsedBlockIndex, EntryFreed, Lock, BeingDeleted, InAllocate,
                   held, pc, want, giving, lost, overtaken>>

---------------------------------------------------------------------------
Call(t) == \/ AllocateEnter(t) \/ AllocateTurn(t) \/ AllocateWoken(t)
           \/ Extend(t) \/ FreeEnter(t) \/ FreeLock(t) \/ FreeScan(t) \/ FreeRun(t)

Next == (\E t \in Threads : Call(t)) \/ DeleteFlag \/ DeleteSignal \/ DeleteEnd

Spec == Init /\ [][Next]_vars

\* A call that is not asleep comes to its end, and so does the destructor.
\* Nothing makes a thread call.
Fairness ==
    /\ \A t \in Threads :
         /\ WF_vars(AllocateTurn(t)) /\ WF_vars(AllocateWoken(t))
         /\ WF_vars(FreeLock(t)) /\ WF_vars(FreeScan(t)) /\ WF_vars(FreeRun(t))
    /\ WF_vars(DeleteSignal) /\ WF_vars(DeleteEnd)

FairSpec == Spec /\ Fairness

---------------------------------------------------------------------------
(* Properties. *)

Free == {Blocks[i] : i \in Entries}
Givers == {t \in Threads : pc[t] \in {"free", "scan"}}
InHand == UNION {giving[t].keep \cup {giving[t].give} : t \in Givers}
Bytes(b) == b.Base .. End(b) - 1

\* A block of the pool's memory.
Ranges == {b \in [Base : 0 .. BufferSize, Size : 1 .. BufferSize] : End(b) <= BufferSize}

TypeOK ==
    /\ Blocks \in [Index -> Ranges \cup {Unused}]
    /\ HighestUsedBlockIndex \in Index
    /\ {EntryFreed, BeingDeleted, InAllocate, overtaken} \subseteq BOOLEAN
    /\ Lock \in Threads \cup {Nobody}
    /\ deletion \in {"none", "flagged", "waiting", "done"}
    /\ held \cup InHand \cup lost \subseteq Ranges
    /\ pc \in [Threads -> {"idle", "allocate", "wait", "free", "scan"}]
    /\ \A t \in Threads : /\ pc[t] = "scan" => Lock = t
                          /\ t \notin Givers => giving[t] = Nothing

\* Every byte of the pool's memory is in one place: in one entry of the table
\* that a scan finds, in one block of a buffer, in the hands of one thread
\* that is giving it back, or in a block that Free reported as lost.
Conserved ==
    \A x \in 0 .. BufferSize - 1 :
        Cardinality({i \in Entries : x \in Bytes(Blocks[i])})
        + Cardinality({b \in held \cup InHand \cup lost : x \in Bytes(b)}) = 1

\* Memory is conserved as long as no Free overtook another between the reading
\* of the index and the mutex (AllocatorSimple_c::Free, Allocate, ExtendToLargest).
ConservedInTurn == overtaken \/ Conserved

\* Free memory never lies in two entries that could be one, so an allocation
\* fails only when no run of free bytes is long enough.
Coalesced ==
    overtaken \/ \A b, c \in Free : End(b) = c.Base => On64MBBoundary(c.Base)

\* No buffer gets memory across a boundary, not even by being extended: "Note
\* this implementation will not return a block of memory that crosses a 64Mb
\* physical address boundary" (allocator_simple.h).
WithinBoundary ==
    \A b \in held : \A x \in Bytes(b) \ {b.Base} : ~On64MBBoundary(x)

\* The thread in Allocate does not sleep beside memory that would serve it.
WakesAllocator == pc[Allocator] = "wait" /\ Fitting # {} => EntryFreed

\* The destructor comes to its end whatever Allocate is doing.
DeletionEnds == deletion = "flagged" ~> deletion = "done"
=============================================================================
