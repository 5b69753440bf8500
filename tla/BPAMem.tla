------------------------------- MODULE BPAMem -------------------------------
(***************************************************************************)
(* The bpamem driver, which lends user programs memory of a bpa2 partition *)
(* of the box, and the calls its clients make (framebuffer, picture viewer,*)
(* libmmeimage): ALLOCMEM on any device, open the device whose number came *)
(* back, mmap, munmap, FREEMEM.                                            *)
(*                                                                         *)
(* The ioctls run in the context of the calling process.  Only the search  *)
(* for a free device is under a semaphore; everything else interleaves, so *)
(* each store to the device table that another call can read is a step.    *)
(***************************************************************************)
EXTENDS Integers, FiniteSets

CONSTANTS
    MAX_BPA_ALLOCS, \* the number of devices
    Clients,        \* the processes
    Chunks,         \* the page ranges of the partition
    Foreign,        \* memory of others that clients have mapped with MAPMEM
    NoAddr,         \* physical address 0
    NoDev,          \* a client without a device
    Faults,         \* may copy_from_user and copy_to_user fail?
    Exits           \* may a process die, or fail to open its device?

Devs == 0 .. MAX_BPA_ALLOCS - 1
Addrs == Chunks \cup Foreign

ASSUME DevAssumption == MAX_BPA_ALLOCS \in Nat /\ NoDev \notin Devs
ASSUME AddrAssumption == NoAddr \notin Addrs /\ Chunks \cap Foreign = {}
ASSUME FaultAssumption == Faults \in BOOLEAN /\ Exits \in BOOLEAN

VARIABLES
    used,       \* bpamem_dev[].used
    phys,       \* bpamem_dev[].phys_addr
    free,       \* the ranges bpa2 has to give
    pc,         \* where each process is
    op,         \* what it is doing: "alloc" or "map"
    dev,        \* the device it works on
    mapped,     \* the memory it has mapped
    orphans     \* history: devices whose process is gone

table == <<used, phys, free>>
procs == <<op, dev>>
vars  == <<table, pc, procs, mapped, orphans>>

Init ==
    /\ used = [d \in Devs |-> FALSE] /\ phys = [d \in Devs |-> NoAddr]
    /\ free = Chunks
    /\ pc = [c \in Clients |-> "idle"] /\ op = [c \in Clients |-> "alloc"]
    /\ dev = [c \in Clients |-> NoDev]
    /\ mapped = [c \in Clients |-> NoAddr]
    /\ orphans = {}

Goto(c, l) == pc' = [pc EXCEPT ![c] = l]
At(c, l) == pc[c] = l

---------------------------------------------------------------------------
(* ALLOCMEM and MAPMEM. *)

\* Mutant: the device found is not marked before the semaphore is released.
ReserveUnmarked(c) ==
    /\ At(c, "idle") /\ Goto(c, "copyIn")
    /\ \E d \in Devs :
        /\ ~used[d] /\ \A e \in 0 .. d - 1 : used[e]
        /\ dev' = [dev EXCEPT ![c] = d]
    /\ \E o \in {"alloc", "map"} : op' = [op EXCEPT ![c] = o]
    /\ UNCHANGED <<table, mapped, orphans>>

\* Mutant: the result -1 of a search that found none is not checked.
ReserveUnchecked(c) ==
    /\ At(c, "idle") /\ Goto(c, "copyIn")
    /\ \E d \in Devs \cup {-1} :
        /\ IF d = -1 THEN \A e \in Devs : used[e]
                     ELSE ~used[d] /\ \A e \in 0 .. d - 1 : used[e]
        /\ used' = [e \in Devs |-> used[e] \/ e = d]
        /\ dev' = [dev EXCEPT ![c] = d]
    /\ \E o \in {"alloc", "map"} : op' = [op EXCEPT ![c] = o]
    /\ UNCHANGED <<phys, free, mapped, orphans>>

\* find_next_device: the first unused one, found and marked under the semaphore.
Reserve(c) ==
    /\ At(c, "idle") /\ Goto(c, "copyIn")
    /\ \E d \in Devs :
        /\ ~used[d] /\ \A e \in 0 .. d - 1 : used[e]
        /\ used' = [used EXCEPT ![d] = TRUE]
        /\ dev' = [dev EXCEPT ![c] = d]
    /\ \E o \in {"alloc", "map"} : op' = [op EXCEPT ![c] = o]
    /\ UNCHANGED <<phys, free, mapped, orphans>>

\* No device is left: the call fails.
Refused(c) == At(c, "idle") /\ (\A d \in Devs : used[d]) /\ UNCHANGED vars

\* Mutant: an error path forgets the device.
GiveUpKeeping(c) ==
    /\ Goto(c, "idle") /\ dev' = [dev EXCEPT ![c] = NoDev]
    /\ UNCHANGED <<used, op>>

\* An error path: the device is given back.
GiveUp(c) ==
    /\ Goto(c, "idle") /\ dev' = [dev EXCEPT ![c] = NoDev]
    /\ used' = [used EXCEPT ![dev[c]] = FALSE]
    /\ UNCHANGED op

CopyIn(c) ==
    /\ At(c, "copyIn")
    /\ \/ Goto(c, "fill") /\ UNCHANGED <<used, procs>>
       \/ Faults /\ GiveUp(c)
    /\ UNCHANGED <<phys, free, mapped, orphans>>

\* The partition is not found, or has no pages left (then phys_addr is set to
\* 0); or the pages, or for MAPMEM the address given, are stored.
Fill(c) ==
    /\ At(c, "fill")
    /\ \/ GiveUp(c) /\ UNCHANGED <<phys, free>>
       \/ /\ op[c] = "alloc" /\ free = {}
          /\ phys' = [phys EXCEPT ![dev[c]] = NoAddr]
          /\ GiveUp(c) /\ UNCHANGED free
       \/ /\ Goto(c, "copyOut") /\ UNCHANGED <<used, procs>>
          /\ \E a \in IF op[c] = "alloc" THEN free ELSE Foreign :
              /\ phys' = [phys EXCEPT ![dev[c]] = a]
              /\ free' = free \ {a}
    /\ UNCHANGED <<mapped, orphans>>

\* The call returns with the number of the device, or undoes all it did.
CopyOut(c) ==
    /\ At(c, "copyOut")
    /\ \/ Goto(c, "open")
       \/ Faults /\ Goto(c, "free")
    /\ UNCHANGED <<table, procs, mapped, orphans>>

---------------------------------------------------------------------------
(* Giving back, also of a call that failed to tell the client its device. *)

\* Mutant: the device is given up with its pages, its address still set.
FreePagesEarly(c) ==
    /\ At(c, "free") /\ Goto(c, "clearPhys")
    /\ free' = free \cup ({phys[dev[c]]} \ {NoAddr})
    /\ used' = [used EXCEPT ![dev[c]] = FALSE]
    /\ UNCHANGED <<phys, procs, mapped, orphans>>

\* FREEMEM, and a failed ALLOCMEM or MAPMEM: the pages go back to bpa2.
FreePages(c) ==
    /\ At(c, "free") /\ Goto(c, "clearPhys")
    /\ used[dev[c]]
    /\ free' = free \cup ({phys[dev[c]]} \ {NoAddr})
    /\ UNCHANGED <<used, phys, procs, mapped, orphans>>

\* UNMAPMEM starts here.
ClearPhys(c) ==
    /\ At(c, "clearPhys") /\ Goto(c, "clearUsed")
    /\ phys' = [phys EXCEPT ![dev[c]] = NoAddr]
    /\ UNCHANGED <<used, free, procs, mapped, orphans>>

ClearUsed(c) ==
    /\ At(c, "clearUsed") /\ GiveUp(c)
    /\ UNCHANGED <<phys, free, mapped, orphans>>

---------------------------------------------------------------------------
(* The clients. *)

\* bpamem_mmap: refused only if the device is used and has no address yet.
Mappable(d) == ~(used[d] /\ phys[d] = NoAddr)

\* Where a client that gives its device back continues: FREEMEM or UNMAPMEM.
GiveBack(c) == Goto(c, IF op[c] = "map" THEN "clearPhys" ELSE "free")

Open(c) ==
    /\ At(c, "open") /\ Goto(c, "mmap")
    /\ UNCHANGED <<table, procs, mapped, orphans>>

\* mmap succeeds, or the client gives the memory back.
Mmap(c) ==
    /\ At(c, "mmap")
    /\ \/ /\ Mappable(dev[c]) /\ Goto(c, "use")
          /\ mapped' = [mapped EXCEPT ![c] = phys[dev[c]]]
       \/ GiveBack(c) /\ UNCHANGED mapped
    /\ UNCHANGED <<table, procs, orphans>>

\* Mutant: FREEMEM without munmap.
MunmapNot(c) ==
    /\ At(c, "use") /\ GiveBack(c)
    /\ UNCHANGED <<table, procs, mapped, orphans>>

\* The memory is unmapped before it is given back.
Munmap(c) ==
    /\ At(c, "use") /\ GiveBack(c)
    /\ mapped' = [mapped EXCEPT ![c] = NoAddr]
    /\ UNCHANGED <<table, procs, orphans>>

\* The process dies outside of a call, or returns without FREEMEM because it
\* cannot open the device: bpamem_release does nothing.
Exit(c) ==
    /\ Exits /\ pc[c] \in {"open", "mmap", "use"} /\ Goto(c, "idle")
    /\ orphans' = orphans \cup {dev[c]}
    /\ dev' = [dev EXCEPT ![c] = NoDev]
    /\ mapped' = [mapped EXCEPT ![c] = NoAddr]
    /\ UNCHANGED <<table, op>>

\* The module is unloaded and loaded anew, when no process has it open.
Reload ==
    /\ \A c \in Clients : At(c, "idle")
    /\ used' = [d \in Devs |-> FALSE] /\ phys' = [d \in Devs |-> NoAddr]
    /\ free' = free \cup ({phys[d] : d \in {e \in Devs : used[e]}} \ {NoAddr})
    /\ orphans' = {}
    /\ UNCHANGED <<pc, procs, mapped>>

Call(c) == \/ Reserve(c) \/ Refused(c) \/ CopyIn(c) \/ Fill(c) \/ CopyOut(c)
           \/ FreePages(c) \/ ClearPhys(c) \/ ClearUsed(c)
Client(c) == Open(c) \/ Mmap(c) \/ Munmap(c) \/ Exit(c)

Next == Reload \/ \E c \in Clients : Call(c) \/ Client(c)

Spec == Init /\ [][Next]_vars

---------------------------------------------------------------------------
\* The calls after which a device has memory behind it.
Has(c) == pc[c] \in {"copyOut", "open", "mmap", "use", "free"}
Backed == {dev[c] : c \in {x \in Clients : Has(x)}} \cup orphans
Held   == {dev[c] : c \in {x \in Clients : dev[x] # NoDev}} \cup orphans

TypeOK ==
    /\ used \in [Devs -> BOOLEAN] /\ phys \in [Devs -> Addrs \cup {NoAddr}]
    /\ free \subseteq Addrs
    /\ pc \in [Clients -> {"idle", "copyIn", "fill", "copyOut", "open", "mmap", "use",
                          "free", "clearPhys", "clearUsed"}]
    /\ op \in [Clients -> {"alloc", "map"}]
    /\ dev \in [Clients -> Devs \cup {NoDev}]
    /\ mapped \in [Clients -> Addrs \cup {NoAddr}]
    /\ orphans \subseteq Devs

\* No two processes, alive or gone, hold the same device, whatever the order
\* of their calls: only the search is under the semaphore (bpamem.c:42-51).
Exclusive ==
    /\ \A c, d \in Clients : dev[c] # NoDev /\ dev[c] = dev[d] => c = d
    /\ \A c \in Clients : dev[c] \notin orphans

\* There is memory behind every device a process was given, and a range of the
\* partition is behind one device only and not to be had from bpa2 again.
LentOnce ==
    /\ \A d \in Backed : phys[d] \in Addrs
    /\ \A d \in Backed : phys[d] \in Chunks =>
          /\ phys[d] \notin free
          /\ \A e \in Backed : phys[e] = phys[d] => e = d

\* Nothing is lost on any error path: every range of the partition is free or
\* behind a device, and a device is in use only if a process holds it or died
\* with it.
NothingLost ==
    /\ \A p \in Chunks : p \in free \/ \E d \in Backed : phys[d] = p
    /\ \A d \in Devs : used[d] <=> d \in Held

\* A process has nothing mapped but the memory lent to it.
MappedIsLent ==
    \A c \in Clients : mapped[c] # NoAddr =>
        dev[c] \in Backed /\ mapped[c] = phys[dev[c]]

\* The strengthening that makes these inductive: what the step a process is at
\* says of its device.
StepOK ==
    \A c \in Clients :
        /\ dev[c] = NoDev <=> pc[c] = "idle"
        /\ mapped[c] # NoAddr => pc[c] = "use"
        /\ Has(c) /\ op[c] = "map" => phys[dev[c]] \in Foreign
=============================================================================
