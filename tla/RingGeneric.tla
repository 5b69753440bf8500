---------------------------- MODULE RingGeneric ----------------------------
(***************************************************************************)
(* The ring that connects the threads of the player (class RingGeneric_c)  *)
(* and holds the free buffers of a pool: an array of one slot more than it *)
(* may hold, two indexes, a mutex and an event.                            *)
(*                                                                         *)
(* The test for emptiness in Extract, the reset and the setting of the     *)
(* event are outside the mutex, so each is a step of its own.  So is the   *)
(* advance of NextInsert in Insert, which is taken back if it met          *)
(* NextExtract: in between a full ring looks empty.                        *)
(***************************************************************************)
EXTENDS Naturals, Sequences

CONSTANTS
    Producers,   \* the threads that insert (and flush)
    Consumers,   \* the threads that extract
    Values,      \* what is put into the ring
    MaxEntries,  \* the argument of the constructor
    NoThread     \* the owner of a free mutex

Threads == Producers \cup Consumers
Limit   == MaxEntries + 1
Slots   == 0 .. MaxEntries
Answers == {"none", "accepted", "full", "nothing"} \cup Values

ASSUME CapacityAssumption == MaxEntries \in Nat \ {0}
ASSUME ThreadAssumption == Producers \cap Consumers = {} /\ NoThread \notin Threads
ASSUME ValueAssumption == {"none", "accepted", "full", "nothing"} \cap Values = {}

VARIABLES
    Storage, NextExtract, NextInsert,
    OldNextInsert,   \* the local variable of the Insert that holds the mutex
    Lock,            \* who holds the mutex across steps
    Signal,          \* the event is set
    pc,              \* where a thread is within its call
    answer           \* history: what its last call returned

vars == <<Storage, NextExtract, NextInsert, OldNextInsert, Lock, Signal, pc, answer>>

Init ==
    /\ Storage \in [Slots -> Values]
    /\ NextExtract = 0 /\ NextInsert = 0 /\ OldNextInsert = 0
    /\ Lock = NoThread /\ Signal = FALSE
    /\ pc = [t \in Threads |-> "idle"]
    /\ answer = [t \in Threads |-> "none"]

Goto(t, l)   == pc' = [pc EXCEPT ![t] = l]
Answer(t, a) == answer' = [answer EXCEPT ![t] = a]

\* Mutant: the index is not wrapped.
FollowingUnwrapped(slot) == slot + 1

Following(slot) == IF slot + 1 = Limit THEN 0 ELSE slot + 1

---------------------------------------------------------------------------
(* Insert *)

InsertAdvance(p) ==
    /\ pc[p] = "idle" /\ Lock = NoThread
    /\ \E v \in Values : Storage' = [Storage EXCEPT ![NextInsert] = v]
    /\ OldNextInsert' = NextInsert
    /\ NextInsert' = Following(NextInsert)
    /\ Lock' = p
    /\ Goto(p, "advanced")
    /\ UNCHANGED <<NextExtract, Signal, answer>>

\* Mutant: the ring overruns its oldest entry.
InsertCommitAlways(p) ==
    /\ pc[p] = "advanced"
    /\ Lock' = NoThread
    /\ UNCHANGED NextInsert /\ Goto(p, "signal") /\ Answer(p, "accepted")
    /\ UNCHANGED <<Storage, NextExtract, OldNextInsert, Signal>>

InsertCommit(p) ==
    /\ pc[p] = "advanced"
    /\ Lock' = NoThread
    /\ \/ /\ NextInsert = NextExtract
          /\ NextInsert' = OldNextInsert
          /\ Goto(p, "idle") /\ Answer(p, "full")
       \/ /\ NextInsert # NextExtract
          /\ UNCHANGED NextInsert
          /\ Goto(p, "signal") /\ Answer(p, "accepted")
    /\ UNCHANGED <<Storage, NextExtract, OldNextInsert, Signal>>

InsertSignal(p) ==
    /\ pc[p] = "signal"
    /\ Signal' = TRUE
    /\ Goto(p, "idle")
    /\ UNCHANGED <<Storage, NextExtract, NextInsert, OldNextInsert, Lock, answer>>

Flush(p) ==
    /\ pc[p] = "idle" /\ Lock = NoThread
    /\ NextExtract' = 0 /\ NextInsert' = 0
    /\ UNCHANGED <<Storage, OldNextInsert, Lock, Signal, pc, answer>>

---------------------------------------------------------------------------
(* Extract *)

\* Mutant: the event is reset after the test, on the way into the wait.
ExtractResetLate(c) ==
    /\ \/ pc[c] = "idle" /\ Goto(c, "look") /\ UNCHANGED Signal
       \/ pc[c] = "wait" /\ Signal' = FALSE /\ UNCHANGED pc
    /\ UNCHANGED <<Storage, NextExtract, NextInsert, OldNextInsert, Lock, answer>>

ExtractReset(c) ==
    /\ pc[c] = "idle"
    /\ Signal' = FALSE
    /\ Goto(c, "look")
    /\ UNCHANGED <<Storage, NextExtract, NextInsert, OldNextInsert, Lock, answer>>

\* A caller that does not block goes on whatever it sees.
ExtractLook(c) ==
    /\ pc[c] = "look"
    /\ \/ NextExtract = NextInsert /\ Goto(c, "wait")
       \/ Goto(c, "take")
    /\ UNCHANGED <<Storage, NextExtract, NextInsert, OldNextInsert, Lock, Signal, answer>>

ExtractWoken(c) ==
    /\ pc[c] = "wait" /\ Signal
    /\ Goto(c, "take")
    /\ UNCHANGED <<Storage, NextExtract, NextInsert, OldNextInsert, Lock, Signal, answer>>

\* Mutant: the wait has no end.
ExtractTimeoutNever(c) == FALSE

ExtractTimeout(c) ==
    /\ pc[c] = "wait" /\ ~Signal
    /\ Goto(c, "take")
    /\ UNCHANGED <<Storage, NextExtract, NextInsert, OldNextInsert, Lock, Signal, answer>>

ExtractTake(c) ==
    /\ pc[c] = "take" /\ Lock = NoThread
    /\ \/ /\ NextExtract # NextInsert
          /\ Answer(c, Storage[NextExtract])
          /\ NextExtract' = Following(NextExtract)
       \/ /\ NextExtract = NextInsert
          /\ Answer(c, "nothing")
          /\ UNCHANGED NextExtract
    /\ Goto(c, "idle")
    /\ UNCHANGED <<Storage, NextInsert, OldNextInsert, Lock, Signal>>

---------------------------------------------------------------------------
Producer(p) == InsertAdvance(p) \/ InsertCommit(p) \/ InsertSignal(p) \/ Flush(p)

Consumer(c) == \/ ExtractReset(c) \/ ExtractLook(c) \/ ExtractWoken(c)
               \/ ExtractTimeout(c) \/ ExtractTake(c)

Next == (\E p \in Producers : Producer(p)) \/ (\E c \in Consumers : Consumer(c))

Spec == Init /\ [][Next]_vars

\* The consumers of the player extract in a loop, all calls come to their end
\* and every wait has a time-out; nothing makes a producer insert.  A consumer
\* that wants the mutex gets it.
Fairness ==
    /\ \A p \in Producers : WF_vars(InsertCommit(p)) /\ WF_vars(InsertSignal(p))
    /\ \A c \in Consumers : /\ WF_vars(Consumer(c))
                            /\ SF_vars(ExtractTake(c))

FairSpec == Spec /\ Fairness

---------------------------------------------------------------------------
(* The queue it implements. *)

\* The index up to which values are inserted: an Insert that has not been
\* decided yet does not count.
LastInsert == IF Lock = NoThread THEN NextInsert ELSE OldNextInsert

Count == IF LastInsert >= NextExtract THEN LastInsert - NextExtract
         ELSE LastInsert + Limit - NextExtract

\* The i-th slot, counted from NextExtract.
SlotOf(i) == IF NextExtract + i < Limit THEN NextExtract + i
             ELSE NextExtract + i - Limit

Contents == [i \in 1 .. Count |-> Storage[SlotOf(i - 1)]]

Queue == INSTANCE BoundedQueue WITH Capacity <- MaxEntries, queue <- Contents

\* Every call of the ring has the effect and the answer of a call of a bounded
\* queue, taken at one instant (RingGeneric_c::Insert, Extract, Flush).
ImplementsQueue == Queue!Spec

---------------------------------------------------------------------------
(* Properties. *)

TypeOK ==
    /\ Storage \in [Slots -> Values]
    /\ NextExtract \in Slots /\ NextInsert \in Slots /\ OldNextInsert \in Slots
    /\ Lock \in Producers \cup {NoThread}
    /\ Signal \in BOOLEAN
    /\ pc \in [Threads -> {"idle", "advanced", "signal", "look", "wait", "take"}]
    /\ answer \in [Threads -> Answers]

\* The thread that extracts (each ring of the player has one) never sleeps
\* beside entries that nobody will wake it for.  A full ring is the exception:
\* it may have looked empty during an Insert that was then refused.
NoLostWakeup ==
    \A c \in Consumers :
        pc[c] = "wait" /\ Contents # <<>> =>
            Signal \/ (\E p \in Producers : pc[p] = "signal") \/ Count = MaxEntries

\* A full ring does not stay full: the time-out ends the sleep of the thread
\* that saw it empty, although no refused Insert ever sets the event.
FullRingDrains == Count = MaxEntries ~> Count < MaxEntries
=============================================================================
