---------------------------- MODULE BPAMemProofs ----------------------------
(***************************************************************************)
(* The invariants of module BPAMem, for any number of devices, processes   *)
(* and ranges.  Their conjunction is inductive: StepOK says which device   *)
(* the step a process is at speaks of, Exclusive that nobody else changes  *)
(* it, and LentOnce and NothingLost each need the other, for the pages a   *)
(* device takes and gives back.                                            *)
(***************************************************************************)
EXTENDS BPAMem, TLAPS

Inv == /\ TypeOK /\ Exclusive /\ LentOnce /\ NothingLost /\ MappedIsLent /\ StepOK

LEMMA ReserveStep ==
    ASSUME Inv, NEW c \in Clients, Reserve(c)
    PROVE  Inv'
<1> USE DEF Inv, Backed, Held, Has, Addrs
<1> USE DevAssumption, AddrAssumption DEF Reserve, At, Goto, table, procs
<1>1. TypeOK'
  BY DEF TypeOK, StepOK, Devs
<1>2. Exclusive'
  BY DEF TypeOK, StepOK, Exclusive, NothingLost
<1>3. LentOnce'
  BY DEF TypeOK, StepOK, Exclusive, LentOnce, NothingLost
<1>4. NothingLost'
  BY DEF TypeOK, StepOK, Exclusive, LentOnce, NothingLost
<1>5. MappedIsLent'
  BY DEF TypeOK, StepOK, Exclusive, MappedIsLent
<1>6. StepOK'
  BY DEF TypeOK, StepOK, Exclusive
<1>. QED BY <1>1, <1>2, <1>3, <1>4, <1>5, <1>6

LEMMA CopyInStep ==
    ASSUME Inv, NEW c \in Clients, CopyIn(c)
    PROVE  Inv'
<1> USE DEF Inv, Backed, Held, Has, Addrs
<1> USE DevAssumption, AddrAssumption DEF CopyIn, At, Goto, table, procs, GiveUp
<1>1. TypeOK'
  BY ZenonT(30) DEF TypeOK, StepOK, Devs
<1>2. Exclusive'
  BY DEF TypeOK, StepOK, Exclusive, NothingLost
<1>3. LentOnce'
  BY DEF TypeOK, StepOK, Exclusive, LentOnce, NothingLost
<1>4. NothingLost'
  BY DEF TypeOK, StepOK, Exclusive, LentOnce, NothingLost
<1>5. MappedIsLent'
  BY DEF TypeOK, StepOK, Exclusive, MappedIsLent
<1>6. StepOK'
  BY DEF TypeOK, StepOK, Exclusive
<1>. QED BY <1>1, <1>2, <1>3, <1>4, <1>5, <1>6

LEMMA FillStep ==
    ASSUME Inv, NEW c \in Clients, Fill(c)
    PROVE  Inv'
<1> USE DEF Inv, Backed, Held, Has, Addrs
<1> USE DevAssumption, AddrAssumption DEF Fill, At, Goto, table, procs, GiveUp
<1>1. TypeOK'
  <2>1. CASE GiveUp(c) /\ UNCHANGED <<phys, free>>
    BY <2>1 DEF TypeOK
  <2>2. CASE op[c] = "alloc" /\ phys' = [phys EXCEPT ![dev[c]] = NoAddr] /\ GiveUp(c)
             /\ UNCHANGED free
    BY <2>2 DEF TypeOK
  <2>3. CASE Goto(c, "copyOut") /\ UNCHANGED <<used, procs>>
             /\ \E a \in IF op[c] = "alloc" THEN free ELSE Foreign :
                  phys' = [phys EXCEPT ![dev[c]] = a] /\ free' = free \ {a}
    <3>1. PICK a \in Addrs : phys' = [phys EXCEPT ![dev[c]] = a] /\ free' = free \ {a}
      BY <2>3 DEF TypeOK
    <3>2. phys' \in [Devs -> Addrs \cup {NoAddr}]
      BY <3>1 DEF TypeOK
    <3>3. free' \subseteq Addrs
      BY <3>1 DEF TypeOK
    <3>. QED BY <2>3, <3>2, <3>3 DEF TypeOK
  <2>. QED BY <2>1, <2>2, <2>3
<1>2. Exclusive'
  BY DEF TypeOK, StepOK, Exclusive, NothingLost
<1>3. LentOnce'
  BY DEF TypeOK, StepOK, Exclusive, LentOnce, NothingLost
<1>4. NothingLost'
  BY DEF TypeOK, StepOK, Exclusive, LentOnce, NothingLost
<1>5. MappedIsLent'
  BY DEF TypeOK, StepOK, Exclusive, MappedIsLent
<1>6. StepOK'
  BY DEF TypeOK, StepOK, Exclusive
<1>. QED BY <1>1, <1>2, <1>3, <1>4, <1>5, <1>6

LEMMA CopyOutStep ==
    ASSUME Inv, NEW c \in Clients, CopyOut(c)
    PROVE  Inv'
<1> USE DEF Inv, Backed, Held, Has, Addrs
<1> USE DevAssumption, AddrAssumption DEF CopyOut, At, Goto, table, procs
<1>1. TypeOK'
  BY DEF TypeOK, StepOK, Devs
<1>2. Exclusive'
  BY DEF TypeOK, StepOK, Exclusive, NothingLost
<1>3. LentOnce'
  BY DEF TypeOK, StepOK, Exclusive, LentOnce, NothingLost
<1>4. NothingLost'
  BY DEF TypeOK, StepOK, Exclusive, LentOnce, NothingLost
<1>5. MappedIsLent'
  BY DEF TypeOK, StepOK, Exclusive, MappedIsLent
<1>6. StepOK'
  BY DEF TypeOK, StepOK, Exclusive
<1>. QED BY <1>1, <1>2, <1>3, <1>4, <1>5, <1>6

LEMMA FreePagesStep ==
    ASSUME Inv, NEW c \in Clients, FreePages(c)
    PROVE  Inv'
<1> USE DEF Inv, Backed, Held, Has, Addrs
<1> USE DevAssumption, AddrAssumption DEF FreePages, At, Goto, table, procs
<1>1. TypeOK'
  BY DEF TypeOK, StepOK, Devs
<1>2. Exclusive'
  BY DEF TypeOK, StepOK, Exclusive, NothingLost
<1>3. LentOnce'
  BY DEF TypeOK, StepOK, Exclusive, LentOnce, NothingLost
<1>4. NothingLost'
  BY DEF TypeOK, StepOK, Exclusive, LentOnce, NothingLost
<1>5. MappedIsLent'
  BY DEF TypeOK, StepOK, Exclusive, MappedIsLent
<1>6. StepOK'
  BY DEF TypeOK, StepOK, Exclusive
<1>. QED BY <1>1, <1>2, <1>3, <1>4, <1>5, <1>6

LEMMA ClearPhysStep ==
    ASSUME Inv, NEW c \in Clients, ClearPhys(c)
    PROVE  Inv'
<1> USE DEF Inv, Backed, Held, Has, Addrs
<1> USE DevAssumption, AddrAssumption DEF ClearPhys, At, Goto, table, procs
<1>1. TypeOK'
  BY DEF TypeOK, StepOK, Devs
<1>2. Exclusive'
  BY DEF TypeOK, StepOK, Exclusive, NothingLost
<1>3. LentOnce'
  BY DEF TypeOK, StepOK, Exclusive, LentOnce, NothingLost
<1>4. NothingLost'
  BY DEF TypeOK, StepOK, Exclusive, LentOnce, NothingLost
<1>5. MappedIsLent'
  BY DEF TypeOK, StepOK, Exclusive, MappedIsLent
<1>6. StepOK'
  BY DEF TypeOK, StepOK, Exclusive
<1>. QED BY <1>1, <1>2, <1>3, <1>4, <1>5, <1>6

LEMMA ClearUsedStep ==
    ASSUME Inv, NEW c \in Clients, ClearUsed(c)
    PROVE  Inv'
<1> USE DEF Inv, Backed, Held, Has, Addrs
<1> USE DevAssumption, AddrAssumption DEF ClearUsed, At, Goto, table, procs, GiveUp
<1>1. TypeOK'
  BY DEF TypeOK, StepOK, Devs
<1>2. Exclusive'
  BY DEF TypeOK, StepOK, Exclusive, NothingLost
<1>3. LentOnce'
  BY DEF TypeOK, StepOK, Exclusive, LentOnce, NothingLost
<1>4. NothingLost'
  BY DEF TypeOK, StepOK, Exclusive, LentOnce, NothingLost
<1>5. MappedIsLent'
  BY DEF TypeOK, StepOK, Exclusive, MappedIsLent
<1>6. StepOK'
  BY DEF TypeOK, StepOK, Exclusive
<1>. QED BY <1>1, <1>2, <1>3, <1>4, <1>5, <1>6

LEMMA OpenStep ==
    ASSUME Inv, NEW c \in Clients, Open(c)
    PROVE  Inv'
<1> USE DEF Inv, Backed, Held, Has, Addrs
<1> USE DevAssumption, AddrAssumption DEF Open, At, Goto, table, procs
<1>1. TypeOK'
  BY DEF TypeOK, StepOK, Devs
<1>2. Exclusive'
  BY DEF TypeOK, StepOK, Exclusive, NothingLost
<1>3. LentOnce'
  BY DEF TypeOK, StepOK, Exclusive, LentOnce, NothingLost
<1>4. NothingLost'
  BY DEF TypeOK, StepOK, Exclusive, LentOnce, NothingLost
<1>5. MappedIsLent'
  BY DEF TypeOK, StepOK, Exclusive, MappedIsLent
<1>6. StepOK'
  BY DEF TypeOK, StepOK, Exclusive
<1>. QED BY <1>1, <1>2, <1>3, <1>4, <1>5, <1>6

LEMMA MmapStep ==
    ASSUME Inv, NEW c \in Clients, Mmap(c)
    PROVE  Inv'
<1> USE DEF Inv, Backed, Held, Has, Addrs
<1> USE DevAssumption, AddrAssumption DEF Mmap, At, Goto, table, procs, GiveBack, Mappable
<1>1. TypeOK'
  BY SMTT(30) DEF TypeOK, StepOK, Devs
<1>2. Exclusive'
  BY DEF TypeOK, StepOK, Exclusive, NothingLost
<1>3. LentOnce'
  BY DEF TypeOK, StepOK, Exclusive, LentOnce, NothingLost
<1>4. NothingLost'
  BY DEF TypeOK, StepOK, Exclusive, LentOnce, NothingLost
<1>5. MappedIsLent'
  BY DEF TypeOK, StepOK, Exclusive, MappedIsLent
<1>6. StepOK'
  BY DEF TypeOK, StepOK, Exclusive
<1>. QED BY <1>1, <1>2, <1>3, <1>4, <1>5, <1>6

LEMMA MunmapStep ==
    ASSUME Inv, NEW c \in Clients, Munmap(c)
    PROVE  Inv'
<1> USE DEF Inv, Backed, Held, Has, Addrs
<1> USE DevAssumption, AddrAssumption DEF Munmap, At, Goto, table, procs, GiveBack
<1>1. TypeOK'
  BY DEF TypeOK, StepOK, Devs
<1>2. Exclusive'
  BY DEF TypeOK, StepOK, Exclusive, NothingLost
<1>3. LentOnce'
  BY DEF TypeOK, StepOK, Exclusive, LentOnce, NothingLost
<1>4. NothingLost'
  BY DEF TypeOK, StepOK, Exclusive, LentOnce, NothingLost
<1>5. MappedIsLent'
  BY DEF TypeOK, StepOK, Exclusive, MappedIsLent
<1>6. StepOK'
  BY DEF TypeOK, StepOK, Exclusive
<1>. QED BY <1>1, <1>2, <1>3, <1>4, <1>5, <1>6

LEMMA ExitStep ==
    ASSUME Inv, NEW c \in Clients, Exit(c)
    PROVE  Inv'
<1> USE DEF Inv, Backed, Held, Has, Addrs
<1> USE DevAssumption, AddrAssumption DEF Exit, At, Goto, table, procs
<1>1. TypeOK'
  BY ZenonT(30) DEF TypeOK, StepOK, Devs
<1>2. Exclusive'
  BY DEF TypeOK, StepOK, Exclusive, NothingLost
<1>3. LentOnce'
  BY DEF TypeOK, StepOK, Exclusive, LentOnce, NothingLost
<1>4. NothingLost'
  BY DEF TypeOK, StepOK, Exclusive, LentOnce, NothingLost
<1>5. MappedIsLent'
  BY DEF TypeOK, StepOK, Exclusive, MappedIsLent
<1>6. StepOK'
  BY DEF TypeOK, StepOK, Exclusive
<1>. QED BY <1>1, <1>2, <1>3, <1>4, <1>5, <1>6

LEMMA ReloadStep ==
    ASSUME Inv, Reload
    PROVE  Inv'
<1> USE DEF Inv, Backed, Held, Has, Addrs
<1> USE DevAssumption, AddrAssumption DEF Reload, At, procs
<1>1. TypeOK'
  BY DEF TypeOK
<1>2. Exclusive'
  BY DEF TypeOK, StepOK, Exclusive
<1>3. LentOnce'
  <2>1. Backed' = {}
    OBVIOUS
  <2>. HIDE DEF Backed
  <2>. QED BY <2>1 DEF LentOnce
<1>4. NothingLost'
  BY DEF TypeOK, StepOK, NothingLost
<1>5. MappedIsLent'
  <2>1. \A c \in Clients : mapped'[c] = NoAddr
    BY DEF StepOK
  <2>. QED BY <2>1 DEF MappedIsLent
<1>6. StepOK'
  BY DEF TypeOK, StepOK
<1>. QED BY <1>1, <1>2, <1>3, <1>4, <1>5, <1>6

LEMMA InitInv == Init => Inv
BY DevAssumption, AddrAssumption
DEF Init, Inv, TypeOK, Exclusive, LentOnce, NothingLost, MappedIsLent, StepOK,
    Backed, Held, Has, Addrs

LEMMA StepInv == Inv /\ [Next]_vars => Inv'
<1> SUFFICES ASSUME Inv, [Next]_vars PROVE Inv'
  OBVIOUS
<1>1. CASE Reload
  BY <1>1, ReloadStep
<1>2. ASSUME NEW c \in Clients, Call(c) PROVE Inv'
  <2>1. CASE Refused(c)
    BY <2>1 DEF Refused, vars, table, procs, Inv, TypeOK, Exclusive, LentOnce, NothingLost,
               MappedIsLent, StepOK, Backed, Held, Has
  <2>. QED BY <1>2, <2>1, ReserveStep, CopyInStep, FillStep, CopyOutStep, FreePagesStep,
              ClearPhysStep, ClearUsedStep DEF Call
<1>3. ASSUME NEW c \in Clients, Client(c) PROVE Inv'
  BY <1>3, OpenStep, MmapStep, MunmapStep, ExitStep DEF Client
<1>4. CASE UNCHANGED vars
  BY <1>4 DEF vars, table, procs, Inv, TypeOK, Exclusive, LentOnce, NothingLost,
             MappedIsLent, StepOK, Backed, Held, Has
<1>. QED BY <1>1, <1>2, <1>3, <1>4 DEF Next

LEMMA Invariance == Spec => []Inv
BY InitInv, StepInv, PTL DEF Spec

\* The state of the driver and of its clients keeps its types: addresses and
\* marks of a device are of that device, a process works on a device that exists
\* (the table of bpamem.c and its ioctls).
THEOREM BPATyped == Spec => []TypeOK
<1>1. Inv => TypeOK
  BY DEF Inv
<1>. QED BY <1>1, Invariance, PTL

\* No device is ever held by two processes, whatever the order of their calls:
\* only the search of find_next_device is under the semaphore.
THEOREM DevicesExclusive == Spec => []Exclusive
<1>1. Inv => Exclusive
  BY DEF Inv
<1>. QED BY <1>1, Invariance, PTL

\* The pages behind a device are behind no other and not free, and every
\* device a process was given has memory (ALLOCMEM, FREEMEM).
THEOREM PagesLentOnce == Spec => []LentOnce
<1>1. Inv => LentOnce
  BY DEF Inv
<1>. QED BY <1>1, Invariance, PTL

\* No order of calls, failure or death of a process loses a page range or a
\* device to anything but a device whose process died.
THEOREM PagesAndDevicesKept == Spec => []NothingLost
<1>1. Inv => NothingLost
  BY DEF Inv
<1>. QED BY <1>1, Invariance, PTL

\* A process never keeps a mapping of memory it has given back.
THEOREM MappingsLent == Spec => []MappedIsLent
<1>1. Inv => MappedIsLent
  BY DEF Inv
<1>. QED BY <1>1, Invariance, PTL
=============================================================================
