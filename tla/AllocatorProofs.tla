--------------------------- MODULE AllocatorProofs ---------------------------
(***************************************************************************)
(* Theorems about the allocator of a buffer pool, for any pool, any number *)
(* of entries and threads and any requests.                                *)
(***************************************************************************)
EXTENDS AllocatorSimple, FiniteSetTheorems, WellFoundedInduction, TLAPS

\* The blocks that no boundary divides.
Proper == {b \in Ranges : \A x \in Bytes(b) \ {b.Base} : ~On64MBBoundary(x)}

Used == {i \in Index : Blocks[i] # Unused}

Givings == [keep : SUBSET Proper, give : [Base : Nat, Size : Nat], lowest : 0 .. MaxBlocks,
            highest : Index, next : 0 .. MaxBlocks]

MemoryType ==
    /\ Blocks \in [Index -> Proper \cup {Unused}] /\ HighestUsedBlockIndex \in Index
    /\ held \subseteq Proper /\ lost \subseteq Proper
    /\ giving \in [Threads -> Givings]
    /\ \A t \in Givers : giving[t].give \in Proper
    /\ \A t \in Givers : \A b, c \in giving[t].keep : b = c

ControlType ==
    /\ {EntryFreed, BeingDeleted, InAllocate, overtaken} \subseteq BOOLEAN
    /\ Lock \in Threads \cup {Nobody}
    /\ deletion \in {"none", "flagged", "waiting", "done"}
    /\ pc \in [Threads -> {"idle", "allocate", "wait", "free", "scan"}]
    /\ want \in [size : Nat, largest : BOOLEAN]
    /\ \A t \in Threads : /\ pc[t] = "scan" => Lock = t
                          /\ t \notin Givers => giving[t] = Nothing
                          /\ pc[t] = "free" => giving[t].next = 0
                          /\ pc[t] \in {"allocate", "wait"} => t = Allocator /\ want.size > 0

\* The places where memory can be, and which bytes are at each.
Places == ({"table"} \X Index) \cup ({"hand", "keep"} \X Threads)
          \cup ({"held", "lost"} \X Ranges)
Region == [p \in Places |->
    CASE p[1] = "table" -> IF Blocks[p[2]] = Unused THEN {} ELSE Bytes(Blocks[p[2]])
      [] p[1] = "hand"  -> IF p[2] \in Givers THEN Bytes(giving[p[2]].give) ELSE {}
      [] p[1] = "keep"  -> UNION {Bytes(b) : b \in giving[p[2]].keep}
      [] p[1] = "held"  -> IF p[2] \in held THEN Bytes(p[2]) ELSE {}
      [] p[1] = "lost"  -> IF p[2] \in lost THEN Bytes(p[2]) ELSE {}]

Disjoint == \A p, q \in Places : p # q => Region[p] \cap Region[q] = {}
Covered == overtaken \/ \A x \in 0 .. BufferSize - 1 : \E p \in Places : x \in Region[p]

\* No entry above the highest is used.
TableOK == \A i \in Used : i <= HighestUsedBlockIndex

\* No two entries could be one.
ApartOK == overtaken \/ \A i, j \in Used : ~Above(Blocks[i], Blocks[j])

\* What a scan has found out about the entries it has seen.
ScanOK ==
    \A t \in Threads : pc[t] = "scan" =>
      LET g == giving[t]
      IN  /\ g.next <= HighestUsedBlockIndex + 1
          /\ \A i \in Used : i < g.next =>
               i <= g.highest /\ (overtaken \/ ~Adjacent(g.give, Blocks[i]))
          /\ overtaken \/ g.lowest \notin Used

\* The allocating thread sleeps only while nothing would serve it.
SleepOK == pc[Allocator] = "wait" => EntryFreed \/ \A i \in Used : Blocks[i].Size < want.size

AInv == MemoryType /\ ControlType /\ Disjoint /\ Covered /\ TableOK /\ ApartOK /\ ScanOK /\ SleepOK
---------------------------------------------------------------------------
(* Blocks, and what is at a place. *)

LEMMA RangeFacts ==
    ASSUME NEW b \in Ranges
    PROVE  /\ b.Base \in Nat /\ b.Size \in Nat \ {0} /\ b.Base + b.Size <= BufferSize
           /\ b.Base < BufferSize /\ End(b) = b.Base + b.Size
           /\ b = Block(b.Base, b.Size) /\ b # Unused
BY SizeAssumption, UnusedAssumption DEF Ranges, End, Block

LEMMA RangeMade ==
    ASSUME NEW base \in Nat, NEW size \in Nat \ {0}, base + size <= BufferSize
    PROVE  /\ Block(base, size) \in Ranges
           /\ Block(base, size).Base = base /\ Block(base, size).Size = size
           /\ End(Block(base, size)) = base + size
           /\ \A x : x \in Bytes(Block(base, size)) <=> x \in Int /\ base <= x /\ x < base + size
BY SizeAssumption DEF Ranges, End, Block, Bytes

LEMMA ByteFacts ==
    ASSUME NEW b \in Ranges
    PROVE  \A x : x \in Bytes(b) <=> x \in Int /\ b.Base <= x /\ x < b.Base + b.Size
BY RangeFacts DEF Bytes, End

\* A part of a block that no boundary divides, and two such blocks made one.
LEMMA ProperPart ==
    ASSUME NEW b \in Proper, NEW base \in Nat, NEW size \in Nat \ {0},
           b.Base <= base, base + size <= b.Base + b.Size
    PROVE  Block(base, size) \in Proper /\ Bytes(Block(base, size)) \subseteq Bytes(b)
<1>1. b \in Ranges /\ \A x \in Bytes(b) \ {b.Base} : ~On64MBBoundary(x)
  BY DEF Proper
<1>2. base + size <= BufferSize
  BY <1>1, RangeFacts, SizeAssumption
<1> DEFINE c == Block(base, size)
<1>3. /\ c \in Ranges /\ c.Base = base
      /\ \A x : x \in Bytes(c) <=> x \in Int /\ base <= x /\ x < base + size
  BY <1>2, RangeMade
<1> HIDE DEF c
<1>4. Bytes(c) \subseteq Bytes(b)
  BY <1>1, <1>3, ByteFacts, RangeFacts
<1>5. \A x \in Bytes(c) \ {c.Base} : x # b.Base
  BY <1>1, <1>3, RangeFacts
<1> QED
  BY <1>1, <1>3, <1>4, <1>5 DEF Proper, c

LEMMA ProperJoin ==
    ASSUME NEW b \in Proper, NEW c \in Proper, Above(b, c)
    PROVE  /\ Block(b.Base, b.Size + c.Size) \in Proper
           /\ Bytes(Block(b.Base, b.Size + c.Size)) = Bytes(b) \cup Bytes(c)
<1>1. /\ b \in Ranges /\ \A x \in Bytes(b) \ {b.Base} : ~On64MBBoundary(x)
      /\ c \in Ranges /\ \A x \in Bytes(c) \ {c.Base} : ~On64MBBoundary(x)
  BY DEF Proper
<1>2. c.Base = b.Base + b.Size /\ ~On64MBBoundary(c.Base)
  BY <1>1, RangeFacts DEF Above
<1> DEFINE d == Block(b.Base, b.Size + c.Size)
<1>3. /\ b.Base \in Nat /\ b.Size \in Nat \ {0} /\ c.Base \in Nat /\ c.Size \in Nat \ {0}
      /\ c.Base + c.Size <= BufferSize
  BY <1>1, RangeFacts
<1>4. b.Size + c.Size \in Nat \ {0} /\ b.Base + (b.Size + c.Size) <= BufferSize
  BY <1>2, <1>3, SizeAssumption
<1>5. /\ d \in Ranges /\ d.Base = b.Base
      /\ \A x : x \in Bytes(d) <=> x \in Int /\ b.Base <= x /\ x < b.Base + (b.Size + c.Size)
  BY <1>3, <1>4, RangeMade
<1> HIDE DEF d
<1>6. Bytes(d) = Bytes(b) \cup Bytes(c)
  BY <1>1, <1>2, <1>3, <1>5, ByteFacts
<1>7. \A x \in Bytes(d) \ {d.Base} : ~On64MBBoundary(x)
  BY <1>1, <1>2, <1>5, <1>6
<1> QED
  BY <1>5, <1>6, <1>7 DEF Proper, d

LEMMA JoinProper ==
    ASSUME NEW b \in Proper, NEW c \in Proper, Adjacent(b, c)
    PROVE  /\ Join(b, c) \in Proper /\ Bytes(Join(b, c)) = Bytes(b) \cup Bytes(c)
           /\ \/ Above(b, c) /\ Join(b, c).Base = b.Base /\ End(Join(b, c)) = End(c)
              \/ Above(c, b) /\ Join(b, c).Base = c.Base /\ End(Join(b, c)) = End(b)
<1>1. /\ b.Base \in Nat /\ b.Size \in Nat \ {0} /\ c.Base \in Nat /\ c.Size \in Nat \ {0}
      /\ End(b) = b.Base + b.Size /\ End(c) = c.Base + c.Size
  BY RangeFacts DEF Proper
<1>2. CASE Above(b, c)
  <2>1. Join(b, c) = Block(b.Base, b.Size + c.Size) /\ End(b) = c.Base
    BY <1>2 DEF Join, Above
  <2>2. Join(b, c).Base = b.Base /\ End(Join(b, c)) = End(c)
    BY <1>1, <2>1 DEF Block, End
  <2> QED
    BY <1>2, <2>1, <2>2, ProperJoin
<1>3. CASE ~Above(b, c)
  <2>1. Above(c, b)
    BY <1>3 DEF Adjacent, Above, Below
  <2>2. End(b) # c.Base
    BY <1>1, <2>1 DEF Above
  <2>3. Join(b, c) = Block(c.Base, c.Size + b.Size) /\ End(c) = b.Base
    BY <1>1, <2>1, <2>2 DEF Join, Above
  <2>4. Join(b, c).Base = c.Base /\ End(Join(b, c)) = End(b)
    BY <1>1, <2>3 DEF Block, End
  <2>5. Bytes(c) \cup Bytes(b) = Bytes(b) \cup Bytes(c)
    OBVIOUS
  <2> QED
    BY <2>1, <2>3, <2>4, <2>5, ProperJoin
<1> QED
  BY <1>2, <1>3

\* What is moved between some places stays apart from what is elsewhere.
LEMMA MovedApart ==
    ASSUME NEW P, NEW T \in SUBSET P, NEW R, NEW S,
           \A p \in P \ T : S[p] = R[p],
           \A p \in T : \A x \in S[p] : \E q \in T : x \in R[q],
           \A p, q \in T : p # q => S[p] \cap S[q] = {},
           \A p, q \in P : p # q => R[p] \cap R[q] = {}
    PROVE  \A p, q \in P : p # q => S[p] \cap S[q] = {}
<1> SUFFICES ASSUME NEW p \in P, NEW q \in P, p # q, NEW x \in S[p], x \in S[q]
             PROVE  FALSE
  OBVIOUS
<1>1. p \in T => \E r \in T : x \in R[r]
  OBVIOUS
<1>2. q \in T => \E r \in T : x \in R[r]
  OBVIOUS
<1> QED
  BY <1>1, <1>2

LEMMA MovedCovers ==
    ASSUME NEW P, NEW T \in SUBSET P, NEW R, NEW S, NEW U,
           \A p \in P \ T : S[p] = R[p],
           \A p \in T : \A x \in R[p] : \E q \in T : x \in S[q],
           \A x \in U : \E p \in P : x \in R[p]
    PROVE  \A x \in U : \E p \in P : x \in S[p]
OBVIOUS

\* What is where.
LEMMA RegionFacts ==
    /\ \A i \in Index : /\ <<"table", i>> \in Places
                        /\ Region[<<"table", i>>] = IF Blocks[i] = Unused THEN {} ELSE Bytes(Blocks[i])
    /\ \A t \in Threads : /\ <<"hand", t>> \in Places /\ <<"keep", t>> \in Places
                          /\ Region[<<"hand", t>>] = IF t \in Givers THEN Bytes(giving[t].give) ELSE {}
                          /\ Region[<<"keep", t>>] = UNION {Bytes(b) : b \in giving[t].keep}
    /\ \A b \in Ranges : /\ <<"held", b>> \in Places /\ <<"lost", b>> \in Places
                         /\ Region[<<"held", b>>] = IF b \in held THEN Bytes(b) ELSE {}
                         /\ Region[<<"lost", b>>] = IF b \in lost THEN Bytes(b) ELSE {}
<1>1. \A i \in Index : /\ <<"table", i>> \in Places
                       /\ Region[<<"table", i>>] = IF Blocks[i] = Unused THEN {} ELSE Bytes(Blocks[i])
  BY DEF Places, Region
<1>2. \A t \in Threads :
        /\ <<"hand", t>> \in Places /\ <<"keep", t>> \in Places
        /\ Region[<<"hand", t>>] = IF t \in Givers THEN Bytes(giving[t].give) ELSE {}
        /\ Region[<<"keep", t>>] = UNION {Bytes(b) : b \in giving[t].keep}
  BY DEF Places, Region
<1>3. \A b \in Ranges : /\ <<"held", b>> \in Places /\ <<"lost", b>> \in Places
                        /\ Region[<<"held", b>>] = IF b \in held THEN Bytes(b) ELSE {}
                        /\ Region[<<"lost", b>>] = IF b \in lost THEN Bytes(b) ELSE {}
  BY DEF Places, Region
<1> QED
  BY <1>1, <1>2, <1>3

LEMMA RegionNext ==
    /\ \A i \in Index :
         Region'[<<"table", i>>] = IF Blocks'[i] = Unused THEN {} ELSE Bytes(Blocks'[i])
    /\ \A t \in Threads :
         /\ Region'[<<"hand", t>>] = IF t \in Givers' THEN Bytes(giving'[t].give) ELSE {}
         /\ Region'[<<"keep", t>>] = UNION {Bytes(b) : b \in giving'[t].keep}
    /\ \A b \in Ranges : /\ Region'[<<"held", b>>] = IF b \in held' THEN Bytes(b) ELSE {}
                         /\ Region'[<<"lost", b>>] = IF b \in lost' THEN Bytes(b) ELSE {}
<1>1. \A i \in Index :
        Region'[<<"table", i>>] = IF Blocks'[i] = Unused THEN {} ELSE Bytes(Blocks'[i])
  BY DEF Places, Region, Bytes, End
<1>2. \A t \in Threads :
        /\ Region'[<<"hand", t>>] = IF t \in Givers' THEN Bytes(giving'[t].give) ELSE {}
        /\ Region'[<<"keep", t>>] = UNION {Bytes(b) : b \in giving'[t].keep}
  BY DEF Places, Region, Bytes, End
<1>3. \A b \in Ranges : /\ Region'[<<"held", b>>] = IF b \in held' THEN Bytes(b) ELSE {}
                        /\ Region'[<<"lost", b>>] = IF b \in lost' THEN Bytes(b) ELSE {}
  BY DEF Places, Region, Bytes, End
<1> QED
  BY <1>1, <1>2, <1>3

\* A place that a step has nothing to do with.
LEMMA Elsewhere ==
    ASSUME NEW p \in Places,
           \A i \in Index : p = <<"table", i>> => Blocks'[i] = Blocks[i],
           \A t \in Threads : p = <<"hand", t>> => /\ t \in Givers' <=> t \in Givers
                                                   /\ giving'[t].give = giving[t].give,
           \A t \in Threads : p = <<"keep", t>> => giving'[t].keep = giving[t].keep,
           \A b \in Ranges : p = <<"held", b>> => (b \in held' <=> b \in held),
           \A b \in Ranges : p = <<"lost", b>> => (b \in lost' <=> b \in lost)
    PROVE  Region'[p] = Region[p]
<1>1. \/ \E i \in Index : p = <<"table", i>>
      \/ \E t \in Threads : p = <<"hand", t>> \/ p = <<"keep", t>>
      \/ \E b \in Ranges : p = <<"held", b>> \/ p = <<"lost", b>>
  BY DEF Places
<1>2. CASE \E i \in Index : p = <<"table", i>>
  <2>1. PICK i \in Index : p = <<"table", i>>
    BY <1>2
  <2> HIDE DEF Region, Places, Givers, Bytes
  <2> QED
    BY <2>1, RegionFacts, RegionNext
<1>3. CASE \E t \in Threads : p = <<"hand", t>>
  <2>1. PICK t \in Threads : p = <<"hand", t>>
    BY <1>3
  <2>2. Region[p] = IF t \in Givers THEN Bytes(giving[t].give) ELSE {}
    BY <2>1, RegionFacts
  <2>3. Region'[p] = IF t \in Givers' THEN Bytes(giving'[t].give) ELSE {}
    BY <2>1, RegionNext
  <2>4. giving'[t].give = giving[t].give
    BY <2>1
  <2> QED
    BY <2>1, <2>2, <2>3, <2>4
<1>4. CASE \E t \in Threads : p = <<"keep", t>>
  <2>1. PICK t \in Threads : p = <<"keep", t>>
    BY <1>4
  <2>2. Region[p] = UNION {Bytes(b) : b \in giving[t].keep}
    BY <2>1, RegionFacts
  <2>3. Region'[p] = UNION {Bytes(b) : b \in giving'[t].keep}
    BY <2>1, RegionNext
  <2>4. giving'[t].keep = giving[t].keep
    BY <2>1
  <2> QED
    BY <2>1, <2>2, <2>3, <2>4
<1>5. CASE \E b \in Ranges : p = <<"held", b>>
  <2>1. PICK b \in Ranges : p = <<"held", b>>
    BY <1>5
  <2> HIDE DEF Region, Places, Givers, Bytes
  <2> QED
    BY ZenonT(30), <2>1, RegionFacts, RegionNext
<1>6. CASE \E b \in Ranges : p = <<"lost", b>>
  <2>1. PICK b \in Ranges : p = <<"lost", b>>
    BY <1>6
  <2> HIDE DEF Region, Places, Givers, Bytes
  <2> QED
    BY ZenonT(30), <2>1, RegionFacts, RegionNext
<1> QED
  BY <1>1, <1>2, <1>3, <1>4, <1>5, <1>6

\* A step that moves memory between the places of T.
LEMMA Moved ==
    ASSUME Disjoint, NEW T \in SUBSET Places,
           \A p \in Places \ T : Region'[p] = Region[p],
           \A p \in T : \A x \in Region'[p] : \E q \in T : x \in Region[q],
           \A p, q \in T : p # q => Region'[p] \cap Region'[q] = {}
    PROVE  Disjoint'
<1>1. \A p, q \in Places : p # q => Region[p] \cap Region[q] = {}
  BY DEF Disjoint
<1>2. \A p, q \in Places : p # q => Region'[p] \cap Region'[q] = {}
  <2> HIDE DEF Region, Places
  <2> QED
    BY <1>1, MovedApart
<1> QED
  BY <1>2 DEF Disjoint

LEMMA MovedAll ==
    ASSUME Covered, overtaken => overtaken', NEW T \in SUBSET Places,
           \A p \in Places \ T : Region'[p] = Region[p],
           overtaken' \/ \A p \in T : \A x \in Region[p] : \E q \in T : x \in Region'[q]
    PROVE  Covered'
<1> SUFFICES ASSUME ~overtaken' PROVE Covered'
  BY DEF Covered
<1>1. \A x \in 0 .. BufferSize - 1 : \E p \in Places : x \in Region[p]
  BY DEF Covered
<1>2. \A x \in 0 .. BufferSize - 1 : \E p \in Places : x \in Region'[p]
  BY <1>1, MovedCovers
<1> QED
  BY <1>2 DEF Covered

LEMMA MovedNowhere ==
    ASSUME Disjoint, Covered, overtaken => overtaken',
           UNCHANGED <<Blocks, held, lost>>, Givers' = Givers,
           \A t \in Threads : giving'[t].give = giving[t].give /\ giving'[t].keep = giving[t].keep
    PROVE  Disjoint' /\ Covered'
<1>1. \A p \in Places : Region'[p] = Region[p]
  BY Elsewhere
<1>2. {} \in SUBSET Places
  OBVIOUS
<1> QED
  BY <1>1, <1>2, Moved, MovedAll


---------------------------------------------------------------------------
(* The steps that leave every block where it is. *)

LEMMA Positive == MaxBlocks \in Nat \ {0} /\ 0 \in Index
<1>1. PhysicalAddress % Boundary \in Nat
  BY SizeAssumption
<1>2. MaxBlocks = 0 => MaxBlocks * Boundary = 0
  BY SizeAssumption
<1>3. MaxBlocks # 0
  BY <1>1, <1>2, SizeAssumption
<1> QED
  BY <1>3, SizeAssumption DEF Index

LEMMA RoundedUp == ASSUME NEW r \in Requests PROVE RoundUp(r) \in Nat \ {0}
<1> DEFINE n == (r + AllocationUnitSize - 1) \div AllocationUnitSize
<1>1. r \in Nat \ {0} /\ AllocationUnitSize \in Nat \ {0}
  BY SizeAssumption
<1>2. n \in Nat \ {0}
  BY <1>1
<1> HIDE DEF n
<1>3. n * AllocationUnitSize \in Nat \ {0}
  BY <1>1, <1>2
<1> QED
  BY <1>3 DEF RoundUp, n

\* The mutex is free: nobody scans the table.
LEMMA NoScan ==
    ASSUME ControlType, Lock = Nobody
    PROVE  \A t \in Threads : pc[t] # "scan"
BY ThreadAssumption DEF ControlType

LEMMA AllocateEnterKeeps == ASSUME AInv, NEW t \in Threads, AllocateEnter(t) PROVE AInv'
<1>1. PICK r \in Requests, l \in BOOLEAN : want' = [size |-> RoundUp(r), largest |-> l]
  BY DEF AllocateEnter
<1>2. want' \in [size : Nat, largest : BOOLEAN] /\ want'.size > 0
  BY <1>1, RoundedUp
<1>3. /\ pc[t] = "idle" /\ pc' = [pc EXCEPT ![t] = "allocate"] /\ t = Allocator
      /\ pc \in [Threads -> {"idle", "allocate", "wait", "free", "scan"}]
  BY DEF AllocateEnter, MayCall, Goto, AInv, ControlType
<1>4. Givers' = Givers
  BY <1>3 DEF Givers
<1>5. MemoryType'
  BY <1>4 DEF AllocateEnter, AInv, MemoryType
<1>6. ControlType'
  BY <1>2, <1>3, <1>4 DEF AllocateEnter, AInv, ControlType
<1>7. Disjoint' /\ Covered'
  <2> HIDE DEF Disjoint, Covered, Givers
  <2> QED
    BY <1>4, MovedNowhere DEF AllocateEnter, AInv
<1>8. TableOK' /\ ApartOK' /\ ScanOK' /\ SleepOK'
  BY <1>3 DEF AllocateEnter, AInv, TableOK, ApartOK, ScanOK, SleepOK, Used
<1> QED
  BY <1>5, <1>6, <1>7, <1>8 DEF AInv

LEMMA AllocateWokenKeeps == ASSUME AInv, NEW t \in Threads, AllocateWoken(t) PROVE AInv'
<1>1. PICK l \in {"idle", "allocate"} : pc' = [pc EXCEPT ![t] = l]
  BY DEF AllocateWoken, Goto
<1>2. /\ pc[t] = "wait" /\ InAllocate' \in BOOLEAN
      /\ pc \in [Threads -> {"idle", "allocate", "wait", "free", "scan"}]
  BY DEF AllocateWoken, AInv, ControlType
<1>3. Givers' = Givers
  BY <1>1, <1>2 DEF Givers
<1>4. MemoryType'
  BY <1>3 DEF AllocateWoken, AInv, MemoryType
<1>5. ControlType'
  BY <1>1, <1>2, <1>3 DEF AllocateWoken, AInv, ControlType
<1>6. Disjoint' /\ Covered'
  BY <1>3, MovedNowhere DEF AllocateWoken, AInv
<1>7. TableOK' /\ ApartOK' /\ ScanOK' /\ SleepOK'
  BY <1>1, <1>2, ThreadAssumption
     DEF AllocateWoken, AInv, TableOK, ApartOK, ScanOK, SleepOK, Used
<1> QED
  BY <1>4, <1>5, <1>6, <1>7 DEF AInv

LEMMA FreeLockKeeps == ASSUME AInv, NEW t \in Threads, FreeLock(t) PROVE AInv'
<1>1. /\ pc[t] = "free" /\ pc' = [pc EXCEPT ![t] = "scan"] /\ Lock = Nobody /\ Lock' = t
      /\ pc \in [Threads -> {"idle", "allocate", "wait", "free", "scan"}]
      /\ giving[t].next = 0
      /\ overtaken' = (overtaken \/ giving[t].lowest # HighestUsedBlockIndex + 1)
      /\ overtaken \in BOOLEAN
  BY DEF FreeLock, Goto, AInv, ControlType
<1>2. Givers' = Givers
  BY <1>1 DEF Givers
<1>3. \A u \in Threads : pc[u] # "scan"
  BY <1>1, NoScan DEF AInv
<1>4. MemoryType'
  BY <1>2 DEF FreeLock, AInv, MemoryType
<1>5. ControlType'
  BY <1>1, <1>2, <1>3 DEF FreeLock, AInv, ControlType
<1>6. Disjoint' /\ Covered'
  BY <1>1, <1>2, MovedNowhere DEF FreeLock, AInv
<1>7. TableOK' /\ ApartOK' /\ SleepOK'
  BY <1>1, ThreadAssumption DEF FreeLock, AInv, TableOK, ApartOK, SleepOK, Used
<1>8. ScanOK'
  <2>1. HighestUsedBlockIndex \in Nat /\ \A i \in Used : i \in Nat /\ i <= HighestUsedBlockIndex
    BY SizeAssumption DEF AInv, MemoryType, TableOK, Used, Index
  <2>2. ASSUME ~overtaken' PROVE giving[t].lowest \notin Used
    <3>1. giving[t].lowest = HighestUsedBlockIndex + 1
      BY <1>1, <2>2
    <3> QED
      BY <2>1, <3>1
  <2>3. Used' = Used
    BY DEF FreeLock, Used
  <2> QED
    BY <1>1, <1>3, <2>1, <2>2, <2>3 DEF FreeLock, ScanOK
<1> QED
  BY <1>4, <1>5, <1>6, <1>7, <1>8 DEF AInv

\* The destructor, and a stutter.
LEMMA DeleteKeeps ==
    ASSUME AInv, DeleteFlag \/ DeleteSignal \/ DeleteEnd \/ UNCHANGED vars
    PROVE  AInv'
<1>1. /\ UNCHANGED <<Blocks, HighestUsedBlockIndex, Lock, InAllocate, held, pc, want, giving,
                     lost, overtaken>>
      /\ EntryFreed' \in {EntryFreed, TRUE} /\ BeingDeleted' \in {BeingDeleted, TRUE}
      /\ deletion' \in {deletion, "flagged", "waiting", "done"}
  BY DEF DeleteFlag, DeleteSignal, DeleteEnd, vars
<1>2. EntryFreed => EntryFreed'
  BY Zenon DEF DeleteFlag, DeleteSignal, DeleteEnd, vars
<1>3. Givers' = Givers
  BY <1>1 DEF Givers
<1>4. MemoryType' /\ ControlType'
  BY <1>1, <1>3 DEF AInv, MemoryType, ControlType
<1>5. Disjoint' /\ Covered'
  BY <1>1, <1>3, MovedNowhere DEF AInv
<1>6. TableOK' /\ ApartOK' /\ ScanOK' /\ SleepOK'
  <2>1. TableOK' /\ ApartOK' /\ ScanOK'
    BY <1>1 DEF AInv, TableOK, ApartOK, ScanOK, Used
  <2>2. Used' = Used
    BY <1>1 DEF Used
  <2>3. SleepOK'
    BY <1>1, <1>2, <2>2, Zenon DEF AInv, SleepOK
  <2> QED
    BY <2>1, <2>3
<1> QED
  BY <1>4, <1>5, <1>6 DEF AInv

---------------------------------------------------------------------------
(* Allocating and extending. *)

\* What is in two entries of the table is apart.
LEMMA EntriesApart ==
    ASSUME MemoryType, Disjoint, NEW i \in Used, NEW j \in Used, i # j
    PROVE  Bytes(Blocks[i]) \cap Bytes(Blocks[j]) = {}
<1>1. /\ i \in Index /\ j \in Index /\ <<"table", i>> # <<"table", j>>
      /\ Blocks[i] # Unused /\ Blocks[j] # Unused
  BY DEF Used
<1>2. /\ <<"table", i>> \in Places /\ Region[<<"table", i>>] = Bytes(Blocks[i])
      /\ <<"table", j>> \in Places /\ Region[<<"table", j>>] = Bytes(Blocks[j])
  BY <1>1, RegionFacts
<1> QED
  BY <1>1, <1>2 DEF Disjoint

LEMMA UsedProper ==
    ASSUME MemoryType
    PROVE  \A i \in Used : i \in Index /\ Blocks[i] # Unused /\ Blocks[i] \in Proper
                           /\ Blocks[i] \in Ranges
BY DEF MemoryType, Used, Proper

LEMMA EntriesUsed == ASSUME MemoryType PROVE \A i \in Entries : i \in Used
BY SizeAssumption DEF MemoryType, Entries, Used, Index

\* Of some entries one has the least index.
LEMMA LeastNat ==
    ASSUME NEW S \in SUBSET Nat, S # {}
    PROVE  \E n \in S : \A m \in S : n <= m
<1> DEFINE R == {r \in Nat \X Nat : r[1] < r[2]}
<1>1. IsWellFoundedOn(R, Nat)
  BY NatLessThanWellFounded DEF OpToRel
<1> HIDE DEF R
<1>2. PICK n \in S : \A m \in S : ~ <<m, n>> \in R
  BY <1>1, WFMin
<1>3. ASSUME NEW m \in S, m < n PROVE FALSE
  <2>1. <<m, n>> \in R
    BY <1>3 DEF R
  <2> QED
    BY <1>2, <2>1
<1>4. \A m \in S : n \in Nat /\ m \in Nat
  OBVIOUS
<1> QED
  BY <1>3, <1>4

\* Nothing fits only if no entry is large enough.
LEMMA FittingFound ==
    ASSUME MemoryType, TableOK, want \in [size : Nat, largest : BOOLEAN],
           NEW i \in Used, Blocks[i].Size >= want.size
    PROVE  Fitting # {}
<1>1. \A j \in Entries : j \in Used /\ j \in Nat /\ Blocks[j].Size \in Nat
                         /\ Blocks[j].Size <= BufferSize
  BY EntriesUsed, UsedProper, SizeAssumption DEF Index, Ranges
<1>2. i \in Entries
  BY SizeAssumption DEF TableOK, Entries, Used, MemoryType, Index
<1>3. CASE ~want.largest
  <2> DEFINE S == {j \in Entries : Blocks[j].Size >= want.size}
  <2>1. S \in SUBSET Nat /\ S # {}
    BY <1>1, <1>2
  <2>2. PICK n \in S : \A m \in S : n <= m
    BY <2>1, LeastNat
  <2> QED
    BY <1>3, <2>2 DEF Fitting, FirstFit
<1>4. CASE want.largest
  <2> DEFINE Rest(j) == BufferSize - Blocks[j].Size
             D == {Rest(j) : j \in Entries}
  <2>1. D \in SUBSET Nat /\ D # {}
    BY <1>1, <1>2, SizeAssumption
  <2>2. PICK d \in D : \A e \in D : d <= e
    BY <2>1, LeastNat
  <2> DEFINE S == {j \in Entries : Rest(j) = d}
  <2>3. S \in SUBSET Nat /\ S # {}
    BY <1>1, <2>2
  <2>4. PICK n \in S : \A m \in S : n <= m
    BY <2>3, LeastNat
  <2>5. n \in Entries /\ Rest(n) = d /\ d \in Nat
    BY <2>1, <2>4
  <2>6. ASSUME NEW j \in Entries
        PROVE  \/ Blocks[j].Size < Blocks[n].Size
               \/ Blocks[j].Size = Blocks[n].Size /\ n <= j
    <3>1. Rest(n) <= Rest(j) /\ (Rest(j) = Rest(n) => n <= j)
      BY <2>2, <2>4, <2>5
    <3> QED
      BY <1>1, <2>5, <3>1, SizeAssumption
  <2>7. n \in LargestFreeBlock
    BY <2>5, <2>6 DEF LargestFreeBlock
  <2>8. Blocks[n].Size >= want.size
    BY <1>1, <1>2, <2>5, <2>6
  <2> QED
    BY <1>4, <2>7, <2>8 DEF Fitting
<1> QED
  BY <1>3, <1>4

\* What is taken from the start of an entry, and what is left of it.
LEMMA Taken ==
    ASSUME NEW b \in Proper, NEW size \in Nat \ {0}, size <= b.Size
    PROVE  /\ Block(b.Base, size) \in Proper
           /\ b.Size # size =>
                LET rest == Block(b.Base + size, b.Size - size)
                IN  /\ rest \in Proper /\ rest.Base = b.Base + size /\ End(rest) = End(b)
                    /\ Bytes(rest) \cap Bytes(Block(b.Base, size)) = {}
                    /\ Bytes(b) = Bytes(Block(b.Base, size)) \cup Bytes(rest)
           /\ b.Size = size => Bytes(b) = Bytes(Block(b.Base, size))
<1>1. /\ b.Base \in Nat /\ b.Size \in Nat \ {0} /\ b.Base + b.Size <= BufferSize
      /\ b \in Ranges /\ End(b) = b.Base + b.Size
  BY RangeFacts DEF Proper
<1>2. Block(b.Base, size) \in Proper
  BY <1>1, ProperPart
<1>3. \A x : x \in Bytes(Block(b.Base, size)) <=> x \in Int /\ b.Base <= x /\ x < b.Base + size
  BY <1>1, RangeMade, SizeAssumption
<1>4. \A x : x \in Bytes(b) <=> x \in Int /\ b.Base <= x /\ x < b.Base + b.Size
  BY <1>1, ByteFacts
<1>5. ASSUME b.Size # size
      PROVE  LET rest == Block(b.Base + size, b.Size - size)
             IN  /\ rest \in Proper /\ rest.Base = b.Base + size /\ End(rest) = End(b)
                 /\ Bytes(rest) \cap Bytes(Block(b.Base, size)) = {}
                 /\ Bytes(b) = Bytes(Block(b.Base, size)) \cup Bytes(rest)
  <2> DEFINE rest == Block(b.Base + size, b.Size - size)
  <2>1. b.Base + size \in Nat /\ b.Size - size \in Nat \ {0}
        /\ (b.Base + size) + (b.Size - size) = b.Base + b.Size
    BY <1>1, <1>5
  <2>2. rest \in Proper
    BY <1>1, <2>1, ProperPart
  <2>3. /\ rest.Base = b.Base + size /\ End(rest) = b.Base + b.Size
        /\ \A x : x \in Bytes(rest) <=> x \in Int /\ b.Base + size <= x /\ x < b.Base + b.Size
    BY <1>1, <2>1, RangeMade
  <2> HIDE DEF rest
  <2>4. Bytes(rest) \cap Bytes(Block(b.Base, size)) = {}
    BY <1>1, <1>3, <2>3
  <2>5. Bytes(b) = Bytes(Block(b.Base, size)) \cup Bytes(rest)
    BY <1>1, <1>3, <1>4, <2>3
  <2> QED
    BY <1>1, <2>2, <2>3, <2>4, <2>5 DEF rest
<1>6. b.Size = size => Bytes(b) = Bytes(Block(b.Base, size))
  BY <1>3, <1>4
<1> QED
  BY <1>2, <1>5, <1>6

\* A block of the allocated memory is a place of its own.
LEMMA BlockPlaces ==
    ASSUME NEW b \in Proper
    PROVE  <<"held", b>> \in Places /\ <<"lost", b>> \in Places /\ b \in Ranges /\ Bytes(b) # {}
<1>1. b \in Ranges
  BY DEF Proper
<1>2. b.Base \in Bytes(b)
  BY <1>1, ByteFacts, RangeFacts
<1> QED
  BY <1>1, <1>2, RegionFacts

\* The turn that takes a block: what it changes.
Takes(t, i, size) ==
    /\ pc[t] = "allocate" /\ t = Allocator /\ Lock = Nobody
    /\ i \in Used /\ size \in Nat \ {0} /\ size <= Blocks[i].Size
    /\ held' = held \cup {Block(Blocks[i].Base, size)}
    /\ Blocks' = [Blocks EXCEPT ![i] = RestOf(i, size)]
    /\ EntryFreed' = FALSE /\ InAllocate' = FALSE /\ pc' = [pc EXCEPT ![t] = "idle"]
    /\ UNCHANGED <<HighestUsedBlockIndex, Lock, BeingDeleted, deletion, want, giving, lost,
                   overtaken>>

LEMMA TakesKeeps ==
    ASSUME AInv, NEW t \in Threads, NEW i \in Index, NEW size \in Nat, Takes(t, i, size)
    PROVE  AInv'
<1> DEFINE old == Blocks[i]
           new == Block(Blocks[i].Base, size)
           rest == RestOf(i, size)
<1>1. MemoryType /\ ControlType /\ Disjoint /\ Covered
  BY DEF AInv
<1>2. /\ i \in Used /\ i \in Index /\ Blocks[i] \in Proper /\ Blocks[i] \in Ranges
      /\ Blocks[i] # Unused /\ size \in Nat \ {0} /\ size <= Blocks[i].Size
      /\ Blocks \in [Index -> Proper \cup {Unused}]
  BY <1>1, UsedProper DEF Takes, MemoryType
<1>3. PICK a : a = old
  OBVIOUS
<1>4. PICK n : n = new
  OBVIOUS
<1>5. PICK r : r = rest
  OBVIOUS
<1>6. /\ a \in Proper /\ n \in Proper
      /\ r # Unused => /\ r \in Proper /\ r.Base = a.Base + size /\ End(r) = End(a)
                       /\ Bytes(r) \cap Bytes(n) = {}
                       /\ Bytes(a) = Bytes(n) \cup Bytes(r)
      /\ r = Unused => Bytes(a) = Bytes(n)
      /\ r \in Proper \cup {Unused}
  <2>1. CASE a.Size = size
    BY <1>2, <1>3, <1>4, <1>5, <2>1, Taken DEF RestOf
  <2>2. CASE a.Size # size
    <3>1. r = Block(a.Base + size, a.Size - size)
      BY <1>3, <1>5, <2>2 DEF RestOf
    <3>2. r \in Proper /\ r # Unused
      BY <1>2, <1>3, <1>4, <2>2, <3>1, Taken, RangeFacts DEF Proper
    <3> QED
      BY <1>2, <1>3, <1>4, <2>2, <3>1, <3>2, Taken
  <2> QED
    BY <2>1, <2>2
<1>7. /\ Blocks' \in [Index -> Proper \cup {Unused}]
      /\ Blocks'[i] = r /\ \A j \in Index \ {i} : Blocks'[j] = Blocks[j]
      /\ held' = held \cup {n}
      /\ pc[t] = "allocate" /\ pc' = [pc EXCEPT ![t] = "idle"]
      /\ pc \in [Threads -> {"idle", "allocate", "wait", "free", "scan"}]
      /\ UNCHANGED <<lost, giving, overtaken, HighestUsedBlockIndex>>
      /\ EntryFreed' = FALSE /\ InAllocate' = FALSE
  BY <1>1, <1>2, <1>4, <1>5, <1>6 DEF Takes, ControlType
<1> HIDE DEF old, new, rest
<1>8. Givers' = Givers
  BY <1>7 DEF Givers
<1>9. \A u \in Threads : pc[u] # "scan"
  BY <1>1, NoScan DEF Takes
<1>10. MemoryType'
  BY <1>1, <1>6, <1>7, <1>8 DEF MemoryType
<1>11. ControlType'
  BY ZenonT(30), <1>1, <1>7, <1>8 DEF Takes, ControlType
<1>12. PICK T : T = {<<"table", i>>, <<"held", n>>}
  OBVIOUS
<1>13. T \in SUBSET Places
  BY ZenonT(30), <1>2, <1>6, <1>12, BlockPlaces, RegionFacts
<1>14. ASSUME NEW p \in Places \ T PROVE Region'[p] = Region[p]
  <2> HIDE DEF Places, Region, Givers
  <2>1. \A j \in Index : p = <<"table", j>> => Blocks'[j] = Blocks[j]
    BY <1>7, <1>12
  <2>2. \A b \in Ranges : p = <<"held", b>> => (b \in held' <=> b \in held)
    BY <1>7, <1>12
  <2> QED
    BY <1>7, <1>8, <2>1, <2>2, Elsewhere
<1>15. /\ Region[<<"table", i>>] = Bytes(a)
       /\ Region'[<<"table", i>>] = IF r = Unused THEN {} ELSE Bytes(r)
  BY <1>2, <1>3, <1>7, RegionFacts, RegionNext DEF old
<1>16. /\ Region[<<"held", n>>] \subseteq Bytes(n)
       /\ Region'[<<"held", n>>] = Bytes(n)
  BY <1>6, <1>7, BlockPlaces, RegionFacts, RegionNext
<1>17. \A p \in T : \A x \in Region'[p] : \E q \in T : x \in Region[q]
  BY <1>6, <1>12, <1>15, <1>16
<1>18. \A p \in T : \A x \in Region[p] : \E q \in T : x \in Region'[q]
  BY <1>6, <1>12, <1>15, <1>16
<1>19. \A p, q \in T : p # q => Region'[p] \cap Region'[q] = {}
  BY <1>6, <1>12, <1>15, <1>16
<1>20. Disjoint' /\ Covered'
  BY <1>1, <1>7, <1>13, <1>14, <1>17, <1>18, <1>19, Moved, MovedAll
<1>21. Used' \subseteq Used
  BY <1>2, <1>7 DEF Used
<1>22. TableOK'
  BY <1>7, <1>21 DEF AInv, TableOK
<1>23. ApartOK'
  <2> SUFFICES ASSUME ~overtaken', NEW j \in Used', NEW k \in Used',
                      Above(Blocks'[j], Blocks'[k])
               PROVE  FALSE
    BY DEF ApartOK
  <2>1. j \in Used /\ k \in Used /\ j \in Index /\ k \in Index
    BY <1>21 DEF Used
  <2>2. \A x, y \in Used : ~Above(Blocks[x], Blocks[y])
    BY <1>7 DEF AInv, ApartOK
  <2>3. CASE k # i
    <3>1. Blocks'[k] = Blocks[k]
      BY <1>7, <2>1, <2>3
    <3>2. CASE j # i
      BY <1>7, <2>1, <2>2, <3>1, <3>2
    <3>3. CASE j = i
      <4>1. r # Unused /\ End(r) = End(a)
        BY <1>6, <1>7, <3>3 DEF Used
      <4>2. Above(a, Blocks[k])
        BY <1>7, <3>1, <3>3, <4>1 DEF Above
      <4> QED
        BY <1>2, <1>3, <2>1, <2>2, <4>2 DEF old
    <3> QED
      BY <3>2, <3>3
  <2>4. CASE k = i
    <3>1. r # Unused /\ r \in Proper /\ r.Base = a.Base + size /\ End(r) = End(a)
      BY <1>6, <1>7, <2>4 DEF Used
    <3>2. r \in Ranges /\ a \in Ranges
      BY <1>6, <3>1 DEF Proper
    <3>3. CASE j = i
      BY <1>7, <2>4, <3>1, <3>2, <3>3, RangeFacts DEF Above
    <3>4. CASE j # i
      <4>1. Blocks'[j] = Blocks[j] /\ Blocks[j] \in Ranges /\ Blocks[j] # Unused
        BY <1>1, <1>7, <2>1, <3>4, UsedProper
      <4>2. PICK c \in Ranges : c = Blocks[j]
        BY <4>1
      <4>3. c.Base + c.Size = a.Base + size
        BY <1>7, <2>4, <3>1, <4>1, <4>2, RangeFacts DEF Above
      <4>4. (c.Base + c.Size) - 1 \in Bytes(c)
        BY <4>2, RangeFacts, ByteFacts
      <4>5. (a.Base + size) - 1 \in Bytes(a)
        BY <1>2, <1>3, <3>2, RangeFacts, ByteFacts DEF old
      <4>6. Bytes(Blocks[j]) \cap Bytes(Blocks[i]) = {}
        BY <1>1, <1>2, <2>1, <3>4, EntriesApart
      <4> QED
        BY <1>3, <4>2, <4>3, <4>4, <4>5, <4>6 DEF old
    <3> QED
      BY <3>3, <3>4
  <2> QED
    BY <2>3, <2>4
<1>24. ScanOK'
  BY <1>7, <1>9 DEF ScanOK
<1>25. SleepOK'
  BY <1>7, ThreadAssumption DEF SleepOK, Takes
<1> QED
  BY <1>10, <1>11, <1>20, <1>22, <1>23, <1>24, <1>25 DEF AInv

LEMMA AllocateTurnKeeps == ASSUME AInv, NEW t \in Threads, AllocateTurn(t) PROVE AInv'
<1>1. /\ MemoryType /\ ControlType /\ Disjoint /\ Covered
      /\ pc \in [Threads -> {"idle", "allocate", "wait", "free", "scan"}]
      /\ want \in [size : Nat, largest : BOOLEAN] /\ want.size > 0
      /\ pc[t] = "allocate" /\ t = Allocator /\ Lock = Nobody /\ EntryFreed' = FALSE
      /\ UNCHANGED <<HighestUsedBlockIndex, BeingDeleted, deletion, want, giving, lost,
                     overtaken>>
  BY DEF AllocateTurn, AInv, ControlType
<1>2. \A u \in Threads : pc[u] # "scan"
  BY <1>1, NoScan
<1>3. CASE \E i \in Fitting :
             LET size == IF want.largest THEN Blocks[i].Size ELSE want.size
             IN  /\ held' = held \cup {Block(Blocks[i].Base, size)}
                 /\ Blocks' = [Blocks EXCEPT ![i] = RestOf(i, size)]
                 /\ InAllocate' = FALSE /\ Goto(t, "idle") /\ UNCHANGED Lock
  <2>1. PICK i \in Fitting :
             LET size == IF want.largest THEN Blocks[i].Size ELSE want.size
             IN  /\ held' = held \cup {Block(Blocks[i].Base, size)}
                 /\ Blocks' = [Blocks EXCEPT ![i] = RestOf(i, size)]
                 /\ InAllocate' = FALSE /\ Goto(t, "idle") /\ UNCHANGED Lock
    BY <1>3
  <2>2. PICK size : size = IF want.largest THEN Blocks[i].Size ELSE want.size
    OBVIOUS
  <2>3. i \in Entries /\ Blocks[i].Size >= want.size
    BY DEF Fitting, FirstFit, LargestFreeBlock
  <2>4. i \in Used /\ i \in Index /\ Blocks[i].Size \in Nat \ {0}
    BY <1>1, <2>3, EntriesUsed, UsedProper, RangeFacts
  <2>5. size \in Nat \ {0} /\ size <= Blocks[i].Size
    BY <1>1, <2>2, <2>3, <2>4
  <2>6. Takes(t, i, size)
    BY <1>1, <2>1, <2>2, <2>4, <2>5 DEF Takes, Goto
  <2> QED
    BY <2>4, <2>5, <2>6, TakesKeeps
<1>4. CASE /\ UNCHANGED <<Blocks, held>> /\ Lock' \in {t, Nobody}
           /\ InAllocate' \in BOOLEAN
           /\ \/ Goto(t, "idle")
              \/ Fitting = {} /\ Goto(t, "wait")
  <2>1. PICK l \in {"idle", "wait"} : /\ pc' = [pc EXCEPT ![t] = l]
                                      /\ l = "wait" => Fitting = {}
    BY <1>4 DEF Goto
  <2>2. Givers' = Givers
    BY <1>1, <2>1 DEF Givers
  <2>3. MemoryType'
    BY <1>1, <1>4, <2>2 DEF MemoryType
  <2>4. ControlType'
    BY <1>1, <1>2, <1>4, <2>1, <2>2 DEF ControlType
  <2>5. Disjoint' /\ Covered'
    BY <1>1, <1>4, <2>2, MovedNowhere
  <2>6. TableOK' /\ ApartOK' /\ ScanOK'
    BY <1>1, <1>2, <1>4, <2>1 DEF AInv, TableOK, ApartOK, ScanOK, Used
  <2>7. SleepOK'
    <3> SUFFICES ASSUME pc'[Allocator] = "wait", NEW i \in Used'
                 PROVE  Blocks'[i].Size < want'.size
      BY DEF SleepOK
    <3>1. Fitting = {} /\ i \in Used /\ UNCHANGED <<Blocks, want>>
      BY <1>1, <1>4, <2>1 DEF Used
    <3>2. ~ Blocks[i].Size >= want.size
      BY <1>1, <3>1, FittingFound DEF AInv
    <3>3. Blocks[i].Size \in Nat
      BY <1>1, <3>1, UsedProper, RangeFacts
    <3> QED
      BY <1>1, <3>1, <3>2, <3>3
  <2> QED
    BY <2>3, <2>4, <2>5, <2>6, <2>7 DEF AInv
<1> QED
  <2>1. Lock' \in {t, Nobody} \/ UNCHANGED Lock
    BY DEF AllocateTurn
  <2>2. InAllocate' \in BOOLEAN
    BY <1>1 DEF AllocateTurn, ControlType
  <2> QED
    BY <1>1, <1>3, <1>4, <2>1, <2>2 DEF AllocateTurn

\* The free entry i becomes part of the block b: n is what the buffer has then.
Extends(t, b, i, n) ==
    /\ pc[t] = "idle" /\ Lock = Nobody
    /\ b \in held /\ i \in Used
    /\ n \in Proper /\ Bytes(n) = Bytes(b) \cup Bytes(Blocks[i]) /\ n # b
    /\ held' = (held \ {b}) \cup {n}
    /\ Blocks' = [Blocks EXCEPT ![i] = Unused]
    /\ UNCHANGED <<HighestUsedBlockIndex, EntryFreed, Lock, BeingDeleted, InAllocate,
                   deletion, pc, want, giving, lost, overtaken>>

LEMMA ExtendsKeeps ==
    ASSUME AInv, NEW t \in Threads, NEW b, NEW i, NEW n, Extends(t, b, i, n)
    PROVE  AInv'
<1>1. MemoryType /\ ControlType /\ Disjoint /\ Covered
  BY DEF AInv
<1>2. /\ i \in Used /\ i \in Index /\ Blocks[i] # Unused /\ b \in held
      /\ Blocks \in [Index -> Proper \cup {Unused}]
      /\ b \in Proper /\ n \in Proper /\ n # b /\ Bytes(n) = Bytes(b) \cup Bytes(Blocks[i])
  BY <1>1, UsedProper DEF Extends, MemoryType
<1>3. /\ Blocks' \in [Index -> Proper \cup {Unused}]
      /\ Blocks'[i] = Unused /\ \A j \in Index \ {i} : Blocks'[j] = Blocks[j]
      /\ held' = (held \ {b}) \cup {n}
      /\ UNCHANGED <<lost, giving, overtaken, HighestUsedBlockIndex, pc, EntryFreed, want, Lock>>
  BY <1>2 DEF Extends
<1>4. Givers' = Givers
  BY <1>3 DEF Givers
<1>5. \A u \in Threads : pc[u] # "scan"
  BY <1>1, NoScan DEF Extends
<1>6. MemoryType'
  BY <1>1, <1>2, <1>3, <1>4 DEF MemoryType
<1>7. ControlType'
  BY <1>1, <1>3, <1>4 DEF Extends, ControlType
<1>8. PICK T : T = {<<"table", i>>, <<"held", n>>, <<"held", b>>}
  OBVIOUS
<1>9. T \in SUBSET Places
  BY ZenonT(30), <1>2, <1>8, BlockPlaces, RegionFacts
<1>10. ASSUME NEW p \in Places \ T PROVE Region'[p] = Region[p]
  <2> HIDE DEF Places, Region, Givers
  <2>1. \A j \in Index : p = <<"table", j>> => Blocks'[j] = Blocks[j]
    BY <1>3, <1>8
  <2>2. \A c \in Ranges : p = <<"held", c>> => (c \in held' <=> c \in held)
    BY <1>3, <1>8
  <2> QED
    BY <1>3, <1>4, <2>1, <2>2, Elsewhere
<1>11. /\ Region[<<"table", i>>] = Bytes(Blocks[i])
       /\ Region'[<<"table", i>>] = {}
  BY <1>2, <1>3, RegionFacts, RegionNext
<1>12. /\ Region[<<"held", n>>] \subseteq Bytes(n) /\ Region'[<<"held", n>>] = Bytes(n)
       /\ Region[<<"held", b>>] = Bytes(b) /\ Region'[<<"held", b>>] = {}
  BY <1>2, <1>3, BlockPlaces, RegionFacts, RegionNext
<1>13. \A p \in T : \A x \in Region'[p] : \E q \in T : x \in Region[q]
  BY <1>2, <1>8, <1>11, <1>12
<1>14. \A p \in T : \A x \in Region[p] : \E q \in T : x \in Region'[q]
  BY <1>2, <1>8, <1>11, <1>12
<1>15. \A p, q \in T : p # q => Region'[p] \cap Region'[q] = {}
  BY <1>8, <1>11, <1>12
<1>16. Disjoint' /\ Covered'
  BY <1>1, <1>3, <1>9, <1>10, <1>13, <1>14, <1>15, Moved, MovedAll
<1>17. \A j \in Used' : j \in Used /\ Blocks'[j] = Blocks[j]
  BY <1>2, <1>3 DEF Used
<1>18. TableOK' /\ ApartOK'
  BY <1>3, <1>17 DEF AInv, TableOK, ApartOK
<1>19. ScanOK'
  BY <1>3, <1>5 DEF ScanOK
<1>20. SleepOK'
  <2> HIDE DEF Used
  <2> QED
    BY <1>3, <1>17, Zenon DEF SleepOK, AInv
<1> QED
  BY <1>6, <1>7, <1>16, <1>18, <1>19, <1>20 DEF AInv

LEMMA ExtendKeeps == ASSUME AInv, NEW t \in Threads, Extend(t) PROVE AInv'
<1>1. PICK b \in held, i \in Entries :
        /\ \/ /\ Blocks[i].Base = End(b) /\ ~On64MBBoundary(End(b))
              /\ held' = (held \ {b}) \cup {Block(b.Base, b.Size + Blocks[i].Size)}
           \/ /\ End(Blocks[i]) = b.Base /\ ~On64MBBoundary(b.Base)
              /\ held' = (held \ {b}) \cup {Block(Blocks[i].Base, b.Size + Blocks[i].Size)}
        /\ Blocks' = [Blocks EXCEPT ![i] = Unused]
  BY DEF Extend
<1>2. i \in Used /\ Blocks[i] \in Proper /\ b \in Proper
  BY EntriesUsed, UsedProper DEF AInv, MemoryType
<1>3. PICK c \in Proper : c = Blocks[i]
  BY <1>2
<1>4. /\ b.Base \in Nat /\ b.Size \in Nat \ {0} /\ End(b) = b.Base + b.Size
      /\ c.Base \in Nat /\ c.Size \in Nat \ {0} /\ End(c) = c.Base + c.Size
  BY <1>2, RangeFacts DEF Proper
<1>5. CASE /\ c.Base = End(b) /\ ~On64MBBoundary(End(b))
           /\ held' = (held \ {b}) \cup {Block(b.Base, b.Size + c.Size)}
  <2> DEFINE n == Block(b.Base, b.Size + c.Size)
  <2>1. Above(b, c)
    BY <1>5 DEF Above
  <2>2. n \in Proper /\ Bytes(n) = Bytes(b) \cup Bytes(c)
    BY <1>2, <2>1, ProperJoin
  <2>3. n # b
    BY <1>4 DEF Block
  <2>4. Extends(t, b, i, n)
    BY <1>1, <1>2, <1>3, <1>5, <2>2, <2>3 DEF Extends, Extend, MayCall
  <2> QED
    BY <2>4, ExtendsKeeps
<1>6. CASE /\ End(c) = b.Base /\ ~On64MBBoundary(b.Base)
           /\ held' = (held \ {b}) \cup {Block(c.Base, b.Size + c.Size)}
  <2> DEFINE n == Block(c.Base, b.Size + c.Size)
  <2>1. Above(c, b) /\ n = Block(c.Base, c.Size + b.Size)
    BY <1>4, <1>6 DEF Above
  <2>2. n \in Proper /\ Bytes(n) = Bytes(b) \cup Bytes(c)
    BY <1>2, <2>1, ProperJoin
  <2>3. n # b
    BY <1>4 DEF Block
  <2>4. Extends(t, b, i, n)
    BY <1>1, <1>2, <1>3, <1>6, <2>2, <2>3 DEF Extends, Extend, MayCall
  <2> QED
    BY <2>4, ExtendsKeeps
<1> QED
  BY <1>1, <1>3, <1>5, <1>6

---------------------------------------------------------------------------
(* Giving back. *)

LEMMA FreeEnterKeeps == ASSUME AInv, NEW t \in Threads, FreeEnter(t) PROVE AInv'
<1>1. PICK b \in held : \E keep \in Kept(b) :
        /\ held' = held \ {b}
        /\ giving' = [giving EXCEPT ![t] =
             [keep |-> IF keep = 0 THEN {} ELSE {Block(b.Base, keep)},
              give |-> Block(b.Base + keep, b.Size - keep),
              lowest |-> HighestUsedBlockIndex + 1, highest |-> 0, next |-> 0]]
  BY DEF FreeEnter
<1>2. /\ MemoryType /\ ControlType /\ Disjoint /\ Covered /\ overtaken = FALSE
      /\ pc \in [Threads -> {"idle", "allocate", "wait", "free", "scan"}]
      /\ pc[t] = "idle" /\ pc' = [pc EXCEPT ![t] = "free"]
      /\ giving \in [Threads -> Givings] /\ giving[t] = Nothing
      /\ UNCHANGED <<Blocks, HighestUsedBlockIndex, EntryFreed, Lock, BeingDeleted, InAllocate,
                     deletion, want, lost, overtaken>>
  BY DEF AInv, FreeEnter, MayCall, Goto, ControlType, MemoryType, Givers
<1>3. b \in Proper /\ b \in Ranges /\ b.Base \in Nat /\ b.Size \in Nat \ {0}
      /\ b = Block(b.Base, b.Size)
  BY <1>2, RangeFacts DEF MemoryType, Proper
<1>4. PICK keep \in Kept(b) :
        /\ held' = held \ {b}
        /\ giving' = [giving EXCEPT ![t] =
             [keep |-> IF keep = 0 THEN {} ELSE {Block(b.Base, keep)},
              give |-> Block(b.Base + keep, b.Size - keep),
              lowest |-> HighestUsedBlockIndex + 1, highest |-> 0, next |-> 0]]
  BY <1>1
<1>5. keep \in Nat /\ keep < b.Size
  BY <1>3, RoundedUp DEF Kept
<1>6. PICK k : k = IF keep = 0 THEN {} ELSE {Block(b.Base, keep)}
  OBVIOUS
<1>7. PICK g : g = Block(b.Base + keep, b.Size - keep)
  OBVIOUS
<1>8. /\ g \in Proper /\ k \in SUBSET Proper /\ \A c, d \in k : c = d
      /\ (UNION {Bytes(c) : c \in k}) \cap Bytes(g) = {}
      /\ (UNION {Bytes(c) : c \in k}) \cup Bytes(g) = Bytes(b)
  <2>1. CASE keep = 0
    <3>1. g = b /\ k = {}
      BY <1>3, <1>5, <1>6, <1>7, <2>1
    <3>2. UNION {Bytes(c) : c \in k} = {}
      BY <3>1
    <3> QED
      BY <1>3, <3>1, <3>2
  <2>2. CASE keep # 0
    <3>1. PICK n : n = Block(b.Base, keep)
      OBVIOUS
    <3>2. k = {n} /\ UNION {Bytes(c) : c \in k} = Bytes(n)
      BY <1>6, <2>2, <3>1
    <3>3. /\ n \in Proper /\ g \in Proper /\ Bytes(g) \cap Bytes(n) = {}
          /\ Bytes(b) = Bytes(n) \cup Bytes(g)
      <4>1. keep \in Nat \ {0} /\ keep <= b.Size /\ b.Size # keep
        BY <1>3, <1>5, <2>2
      <4> QED
        BY <1>3, <1>7, <3>1, <4>1, Taken
    <3> QED
      BY <3>2, <3>3
  <2> QED
    BY <2>1, <2>2
<1>9. HighestUsedBlockIndex + 1 \in 0 .. MaxBlocks /\ 0 \in 0 .. MaxBlocks /\ 0 \in Index
  BY <1>2, Positive DEF MemoryType, Index
<1>10. PICK low \in 0 .. MaxBlocks : low = HighestUsedBlockIndex + 1
  BY <1>9
<1>11. PICK r : r = [keep |-> k, give |-> g, lowest |-> low, highest |-> 0, next |-> 0]
  OBVIOUS
<1>12. /\ r \in Givings /\ r.keep = k /\ r.give = g /\ r.next = 0
  <2>1. g \in [Base : Nat, Size : Nat]
    BY <1>8, SizeAssumption DEF Proper, Ranges
  <2> QED
    BY <1>8, <1>9, <1>11, <2>1 DEF Givings
<1>13. giving' = [giving EXCEPT ![t] = r]
  BY <1>4, <1>6, <1>7, <1>10, <1>11
<1>14. /\ giving' \in [Threads -> Givings] /\ giving'[t] = r
       /\ \A u \in Threads \ {t} : giving'[u] = giving[u]
  BY <1>2, <1>12, <1>13
<1>15. t \in Givers' /\ t \notin Givers /\ Givers' = Givers \cup {t}
  BY <1>2 DEF Givers
<1>16. MemoryType'
  <2>1. \A u \in Givers' : giving'[u].give \in Proper
    BY <1>2, <1>8, <1>12, <1>14, <1>15 DEF MemoryType, Givers
  <2>2. \A u \in Givers' : \A c, d \in giving'[u].keep : c = d
    BY <1>2, <1>8, <1>12, <1>14, <1>15 DEF MemoryType, Givers
  <2> QED
    BY <1>1, <1>2, <1>14, <2>1, <2>2 DEF MemoryType
<1>17. ControlType'
  BY <1>2, <1>12, <1>14, <1>15 DEF ControlType
<1>18. PICK T : T = {<<"hand", t>>, <<"keep", t>>, <<"held", b>>}
  OBVIOUS
<1>19. T \in SUBSET Places
  BY <1>3, <1>18, BlockPlaces, RegionFacts
<1>20. ASSUME NEW p \in Places \ T PROVE Region'[p] = Region[p]
  <2> HIDE DEF Places, Region, Givers
  <2>1. \A u \in Threads : p = <<"hand", u>> => /\ u \in Givers' <=> u \in Givers
                                                /\ giving'[u].give = giving[u].give
    BY <1>14, <1>15, <1>18
  <2>2. \A u \in Threads : p = <<"keep", u>> => giving'[u].keep = giving[u].keep
    BY <1>14, <1>18
  <2>3. \A c \in Ranges : p = <<"held", c>> => (c \in held' <=> c \in held)
    BY <1>1, <1>18
  <2> QED
    BY <1>2, <2>1, <2>2, <2>3, Elsewhere
<1>21. /\ Region[<<"hand", t>>] = {} /\ Region'[<<"hand", t>>] = Bytes(g)
  BY <1>12, <1>14, <1>15, RegionFacts, RegionNext
<1>22. /\ Region[<<"keep", t>>] = {} /\ Region'[<<"keep", t>>] = UNION {Bytes(c) : c \in k}
  <2>1. giving[t].keep = {} /\ giving'[t].keep = k
    BY <1>2, <1>12, <1>14 DEF Nothing
  <2> QED
    BY <2>1, RegionFacts, RegionNext
<1>23. /\ Region[<<"held", b>>] = Bytes(b) /\ Region'[<<"held", b>>] = {}
  BY <1>1, <1>3, BlockPlaces, RegionFacts, RegionNext
<1>24. \A p \in T : \A x \in Region'[p] : \E q \in T : x \in Region[q]
  BY <1>8, <1>18, <1>21, <1>22, <1>23
<1>25. \A p \in T : \A x \in Region[p] : \E q \in T : x \in Region'[q]
  BY <1>8, <1>18, <1>21, <1>22, <1>23
<1>26. \A p, q \in T : p # q => Region'[p] \cap Region'[q] = {}
  BY <1>8, <1>18, <1>21, <1>22, <1>23
<1>27. Disjoint' /\ Covered'
  BY <1>2, <1>19, <1>20, <1>24, <1>25, <1>26, Moved, MovedAll
<1>28. TableOK' /\ ApartOK' /\ Used' = Used
  BY <1>2 DEF AInv, TableOK, ApartOK, Used
<1>29. ScanOK'
  <2> HIDE DEF Used
  <2> SUFFICES ASSUME NEW u \in Threads, pc'[u] = "scan"
               PROVE  (LET g_1 == giving[u]
                       IN  /\ g_1.next <= HighestUsedBlockIndex + 1
                           /\ \A i \in Used : i < g_1.next =>
                                i <= g_1.highest /\ (overtaken \/ ~Adjacent(g_1.give, Blocks[i]))
                           /\ overtaken \/ g_1.lowest \notin Used)'
    BY DEF ScanOK
  <2>1. u # t /\ pc[u] = "scan" /\ giving'[u] = giving[u]
    BY <1>2, <1>14
  <2> QED
    BY <1>2, <1>28, <2>1 DEF AInv, ScanOK, Adjacent, Above, Below, End, On64MBBoundary
<1>30. SleepOK'
  <2>1. pc'[Allocator] = "wait" => pc[Allocator] = "wait"
    BY <1>2, ThreadAssumption
  <2> HIDE DEF Used
  <2> QED
    BY <1>2, <1>28, <2>1, Zenon DEF SleepOK, AInv
<1> QED
  BY <1>16, <1>17, <1>27, <1>28, <1>29, <1>30 DEF AInv

\* What a scan has found out, for the thread that scans.
Seen(g) ==
    /\ g.next <= HighestUsedBlockIndex + 1
    /\ \A i \in Used : i < g.next =>
         i <= g.highest /\ (overtaken \/ ~Adjacent(g.give, Blocks[i]))
    /\ overtaken \/ g.lowest \notin Used

\* A thread that scans is the only one, and its local variables are in range.
LEMMA Scanning ==
    ASSUME AInv, NEW t \in Threads, pc[t] = "scan"
    PROVE  /\ giving[t].lowest \in 0 .. MaxBlocks /\ giving[t].next \in 0 .. MaxBlocks
           /\ giving[t].highest \in Index /\ giving[t].give \in Proper
           /\ giving[t].keep \in SUBSET Proper /\ t \in Givers /\ Lock = t
           /\ \A u \in Threads \ {t} : pc[u] # "scan"
           /\ Seen(giving[t])
<1>1. t \in Givers /\ giving[t] \in Givings
  BY DEF AInv, MemoryType, Givers
<1>2. giving[t].give \in Proper
  BY <1>1 DEF AInv, MemoryType
<1>3. Lock = t /\ \A u \in Threads \ {t} : pc[u] # "scan"
  BY DEF AInv, ControlType
<1>4. Seen(giving[t])
  BY DEF AInv, ScanOK, Seen
<1> QED
  BY <1>1, <1>2, <1>3, <1>4 DEF Givings

LEMMA LowerOf ==
    ASSUME NEW a \in Nat, NEW b \in Nat
    PROVE  Min({a, b}) = IF a <= b THEN a ELSE b
<1>1. \E x \in {a, b} : \A y \in {a, b} : x <= y
  OBVIOUS
<1>2. Min({a, b}) \in {a, b} /\ \A y \in {a, b} : Min({a, b}) <= y
  BY <1>1 DEF Min
<1> QED
  BY <1>2

LEMMA HigherOf ==
    ASSUME NEW a \in Nat, NEW b \in Nat
    PROVE  Max({a, b}) = IF a <= b THEN b ELSE a
<1>1. \E x \in {a, b} : \A y \in {a, b} : x >= y
  OBVIOUS
<1>2. Max({a, b}) \in {a, b} /\ \A y \in {a, b} : Max({a, b}) >= y
  BY <1>1 DEF Max
<1> QED
  BY <1>2

\* One entry looked at, that is not absorbed.
LEMMA LooksKeeps ==
    ASSUME AInv, NEW t \in Threads, pc[t] = "scan",
           NEW g \in Givings, giving' = [giving EXCEPT ![t] = g],
           g.give = giving[t].give, g.keep = giving[t].keep, Seen(g),
           UNCHANGED <<Blocks, HighestUsedBlockIndex, EntryFreed, Lock, BeingDeleted, InAllocate,
                       deletion, held, pc, want, lost, overtaken>>
    PROVE  AInv'
<1>1. /\ giving' \in [Threads -> Givings] /\ giving'[t] = g
      /\ \A u \in Threads \ {t} : giving'[u] = giving[u]
      /\ MemoryType /\ ControlType /\ Disjoint /\ Covered
  BY DEF AInv, MemoryType
<1>2. Givers' = Givers /\ Used' = Used
  BY DEF Givers, Used
<1>3. \A u \in Threads : giving'[u].give = giving[u].give /\ giving'[u].keep = giving[u].keep
  BY <1>1
<1>4. MemoryType'
  BY <1>1, <1>2, <1>3 DEF MemoryType, Givers
<1>5. ControlType'
  BY <1>1, <1>2 DEF ControlType, Givers
<1>6. Disjoint' /\ Covered'
  BY <1>1, <1>2, <1>3, MovedNowhere
<1>7. TableOK' /\ ApartOK'
  BY <1>2 DEF AInv, TableOK, ApartOK
<1>8. ScanOK'
  <2> SUFFICES ASSUME NEW u \in Threads, pc'[u] = "scan"
               PROVE  Seen(giving[u])'
    BY DEF ScanOK, Seen
  <2>1. u = t
    BY Scanning
  <2> QED
    BY <1>1, <1>2, <2>1 DEF Seen, Adjacent, Above, Below, End, On64MBBoundary
<1>9. SleepOK'
  <2> HIDE DEF Used
  <2> QED
    BY <1>2, Zenon DEF SleepOK, AInv
<1> QED
  BY <1>4, <1>5, <1>6, <1>7, <1>8, <1>9 DEF AInv

\* One entry that is absorbed.
LEMMA AbsorbsKeeps ==
    ASSUME AInv, NEW t \in Threads, pc[t] = "scan", NEW i \in Used, i = giving[t].next,
           Adjacent(giving[t].give, Blocks[i]),
           NEW g \in Givings, giving' = [giving EXCEPT ![t] = g],
           g.give = Join(giving[t].give, Blocks[i]), g.keep = giving[t].keep,
           g.next = i + 1, g.highest = giving[t].highest,
           g.lowest \in {giving[t].lowest, i},
           Blocks' = [Blocks EXCEPT ![i] = Unused],
           UNCHANGED <<HighestUsedBlockIndex, EntryFreed, Lock, BeingDeleted, InAllocate,
                       deletion, held, pc, want, lost, overtaken>>
    PROVE  AInv'
<1>1. /\ giving' \in [Threads -> Givings] /\ giving'[t] = g
      /\ \A u \in Threads \ {t} : giving'[u] = giving[u]
      /\ MemoryType /\ ControlType /\ Disjoint /\ Covered
      /\ Blocks \in [Index -> Proper \cup {Unused}]
  BY DEF AInv, MemoryType
<1>2. i \in Index /\ Blocks[i] # Unused /\ Blocks[i] \in Proper
  BY <1>1, UsedProper
<1>3. PICK a : a = giving[t].give
  OBVIOUS
<1>4. PICK c : c = Blocks[i]
  OBVIOUS
<1>5. PICK n : n = g.give
  OBVIOUS
<1>6. a \in Proper /\ c \in Proper /\ t \in Givers /\ Seen(giving[t])
      /\ \A u \in Threads \ {t} : pc[u] # "scan"
  BY <1>2, <1>3, <1>4, Scanning
<1>7. /\ n \in Proper /\ Bytes(n) = Bytes(a) \cup Bytes(c)
      /\ \/ Above(a, c) /\ n.Base = a.Base /\ End(n) = End(c)
         \/ Above(c, a) /\ n.Base = c.Base /\ End(n) = End(a)
  BY <1>3, <1>4, <1>5, <1>6, JoinProper
<1>8. /\ Blocks' \in [Index -> Proper \cup {Unused}] /\ Blocks'[i] = Unused
      /\ \A j \in Index \ {i} : Blocks'[j] = Blocks[j]
  BY <1>1, <1>2
<1>9. Givers' = Givers
  BY DEF Givers
<1>10. \A j \in Used' : j \in Used /\ j # i /\ Blocks'[j] = Blocks[j]
  BY <1>8 DEF Used
<1>11. MemoryType'
  <2>1. \A u \in Givers' : giving'[u].give \in Proper
    BY <1>1, <1>5, <1>7, <1>9 DEF MemoryType, Givers
  <2>2. \A u \in Givers' : \A x, y \in giving'[u].keep : x = y
    BY <1>1, <1>9 DEF MemoryType, Givers
  <2> QED
    BY <1>1, <1>8, <2>1, <2>2 DEF MemoryType
<1>12. ControlType'
  BY <1>1, <1>6, <1>9 DEF ControlType
<1>13. PICK T : T = {<<"table", i>>, <<"hand", t>>}
  OBVIOUS
<1>14. T \in SUBSET Places
  BY <1>2, <1>13, RegionFacts
<1>15. ASSUME NEW p \in Places \ T PROVE Region'[p] = Region[p]
  <2> HIDE DEF Places, Region, Givers
  <2>1. \A j \in Index : p = <<"table", j>> => Blocks'[j] = Blocks[j]
    BY <1>8, <1>13
  <2>2. \A u \in Threads : p = <<"hand", u>> => /\ u \in Givers' <=> u \in Givers
                                                /\ giving'[u].give = giving[u].give
    BY <1>1, <1>9, <1>13
  <2>3. \A u \in Threads : giving'[u].keep = giving[u].keep
    BY <1>1
  <2> QED
    BY <2>1, <2>2, <2>3, Elsewhere
<1>16. Region[<<"table", i>>] = Bytes(c) /\ Region'[<<"table", i>>] = {}
  BY <1>2, <1>4, <1>8, RegionFacts, RegionNext
<1>17. Region[<<"hand", t>>] = Bytes(a) /\ Region'[<<"hand", t>>] = Bytes(n)
  BY <1>1, <1>3, <1>5, <1>6, <1>9, RegionFacts, RegionNext
<1>18. /\ \A p \in T : \A x \in Region'[p] : \E q \in T : x \in Region[q]
       /\ \A p \in T : \A x \in Region[p] : \E q \in T : x \in Region'[q]
       /\ \A p, q \in T : p # q => Region'[p] \cap Region'[q] = {}
  BY <1>7, <1>13, <1>16, <1>17
<1>19. Disjoint' /\ Covered'
  BY <1>1, <1>14, <1>15, <1>18, Moved, MovedAll
<1>20. TableOK' /\ ApartOK'
  BY <1>10 DEF AInv, TableOK, ApartOK
<1>21. ScanOK'
  <2> SUFFICES ASSUME NEW u \in Threads, pc'[u] = "scan"
               PROVE  Seen(giving[u])'
    BY DEF ScanOK, Seen
  <2>1. u = t
    BY <1>6
  <2>2. i \in Nat /\ HighestUsedBlockIndex \in Nat /\ i <= HighestUsedBlockIndex
    BY <1>1, <1>2, SizeAssumption DEF AInv, MemoryType, TableOK, Index
  <2>3. ASSUME NEW j \in Used', j < i + 1
        PROVE  j <= g.highest /\ (overtaken \/ ~Adjacent(n, Blocks[j]))
    <3>1. j \in Used /\ j \in Nat /\ j < i
      <4>1. j \in Used /\ j # i
        BY <1>10, <2>3
      <4>2. j \in Nat
        BY <1>1, <4>1, UsedProper, SizeAssumption DEF Index
      <4> QED
        BY <2>2, <2>3, <4>1, <4>2
    <3>2. j <= giving[t].highest /\ (overtaken \/ ~Adjacent(a, Blocks[j]))
      BY <1>3, <1>6, <3>1 DEF Seen
    <3>3. ASSUME ~overtaken, Adjacent(n, Blocks[j]) PROVE FALSE
      <4>1. ~Above(a, Blocks[j]) /\ ~Above(Blocks[j], a)
        BY <3>2, <3>3 DEF Adjacent, Above, Below
      <4>2. ~Above(c, Blocks[j]) /\ ~Above(Blocks[j], c)
        BY <1>4, <3>1, <3>3 DEF AInv, ApartOK
      <4>3. Above(n, Blocks[j]) \/ Above(Blocks[j], n)
        BY <3>3 DEF Adjacent, Above, Below
      <4> QED
        BY <1>7, <4>1, <4>2, <4>3 DEF Above
    <3> QED
      BY <3>2, <3>3
  <2>4. overtaken \/ g.lowest \notin Used'
    BY <1>6, <1>10 DEF Seen
  <2> QED
    BY <1>1, <1>5, <1>10, <2>1, <2>2, <2>3, <2>4
    DEF Seen, Adjacent, Above, Below, End, On64MBBoundary
<1>22. SleepOK'
  <2> HIDE DEF Used
  <2> QED
    BY <1>10, Zenon DEF SleepOK, AInv
<1> QED
  BY <1>11, <1>12, <1>19, <1>20, <1>21, <1>22 DEF AInv

LEMMA FreeScanKeeps == ASSUME AInv, NEW t \in Threads, FreeScan(t) PROVE AInv'
<1>1. PICK o : o = giving[t]
  OBVIOUS
<1>2. PICK i : i = o.next
  OBVIOUS
<1>3. PICK l : l = Min({o.lowest, i})
  OBVIOUS
<1>4. /\ pc[t] = "scan" /\ i <= HighestUsedBlockIndex
      /\ UNCHANGED <<HighestUsedBlockIndex, EntryFreed, Lock, BeingDeleted, InAllocate,
                     deletion, held, pc, want, lost, overtaken>>
  BY <1>1, <1>2 DEF FreeScan
<1>5. /\ o.lowest \in 0 .. MaxBlocks /\ i \in 0 .. MaxBlocks /\ o.highest \in Index
      /\ o.give \in Proper /\ o \in Givings /\ Seen(o) /\ giving \in [Threads -> Givings]
  BY <1>1, <1>2, <1>4, Scanning DEF AInv, MemoryType
<1>6. l \in {o.lowest, i} /\ l \in 0 .. MaxBlocks
  BY <1>3, <1>5, LowerOf
<1>7. /\ i \in Nat /\ i \in Index /\ i + 1 \in 0 .. MaxBlocks
      /\ i + 1 <= HighestUsedBlockIndex + 1
      /\ HighestUsedBlockIndex \in Nat
      /\ \A j \in Used : j \in Nat
  BY <1>4, <1>5, SizeAssumption DEF AInv, MemoryType, Index, Used
<1>8. \/ /\ Blocks[i] = Unused
         /\ giving' = [giving EXCEPT ![t].lowest = l, ![t].next = i + 1]
         /\ UNCHANGED Blocks
      \/ /\ Blocks[i] # Unused /\ Adjacent(o.give, Blocks[i])
         /\ giving' = [giving EXCEPT ![t].give = Join(@, Blocks[i]),
                                    ![t].lowest = l, ![t].next = i + 1]
         /\ Blocks' = [Blocks EXCEPT ![i] = Unused]
      \/ /\ Blocks[i] # Unused /\ ~Adjacent(o.give, Blocks[i])
         /\ giving' = [giving EXCEPT ![t].highest = i, ![t].next = i + 1]
         /\ UNCHANGED Blocks
  BY <1>1, <1>2, <1>3 DEF FreeScan
<1>9. CASE /\ Blocks[i] = Unused
           /\ giving' = [giving EXCEPT ![t].lowest = l, ![t].next = i + 1]
           /\ UNCHANGED Blocks
  <2>1. PICK g : g = [o EXCEPT !.lowest = l, !.next = i + 1]
    OBVIOUS
  <2>2. /\ g \in Givings /\ g.give = o.give /\ g.keep = o.keep
        /\ g.next = i + 1 /\ g.lowest = l /\ g.highest = o.highest
    BY <1>5, <1>6, <1>7, <2>1 DEF Givings
  <2>3. giving' = [giving EXCEPT ![t] = g]
    BY <1>1, <1>5, <1>9, <2>1 DEF Givings
  <2>4. i \notin Used
    BY <1>9 DEF Used
  <2>5. \A j \in Used : j < i + 1 => j < o.next
    BY <1>2, <1>7, <2>4
  <2>6. Seen(g)
    BY <1>5, <1>6, <1>7, <2>2, <2>4, <2>5 DEF Seen
  <2> QED
    BY <1>1, <1>4, <1>9, <2>2, <2>3, <2>6, LooksKeeps
<1>10. CASE /\ Blocks[i] # Unused /\ Adjacent(o.give, Blocks[i])
            /\ giving' = [giving EXCEPT ![t].give = Join(@, Blocks[i]),
                                       ![t].lowest = l, ![t].next = i + 1]
            /\ Blocks' = [Blocks EXCEPT ![i] = Unused]
  <2>1. PICK n : n = Join(o.give, Blocks[i])
    OBVIOUS
  <2>2. i \in Used
    BY <1>7, <1>10 DEF Used
  <2>3. Blocks[i] \in Proper
    BY <2>2, UsedProper DEF AInv
  <2>4. n \in Proper /\ n \in [Base : Nat, Size : Nat]
    <3>1. n \in Proper
      BY <1>5, <1>10, <2>1, <2>3, JoinProper
    <3> QED
      BY <3>1, SizeAssumption DEF Proper, Ranges
  <2>5. PICK g : g = [o EXCEPT !.give = n, !.lowest = l, !.next = i + 1]
    OBVIOUS
  <2>6. /\ g \in Givings /\ g.give = n /\ g.keep = o.keep
        /\ g.next = i + 1 /\ g.lowest = l /\ g.highest = o.highest
    BY <1>5, <1>6, <1>7, <2>4, <2>5 DEF Givings
  <2>7. giving' = [giving EXCEPT ![t].give = n, ![t].lowest = l, ![t].next = i + 1]
    BY <1>1, <1>5, <1>10, <2>1
  <2>8. giving' = [giving EXCEPT ![t] = g]
    BY <1>1, <1>5, <2>5, <2>7 DEF Givings
  <2>9. /\ i = giving[t].next /\ Adjacent(giving[t].give, Blocks[i])
        /\ g.give = Join(giving[t].give, Blocks[i]) /\ g.keep = giving[t].keep
        /\ g.highest = giving[t].highest /\ g.lowest \in {giving[t].lowest, i}
    BY <1>1, <1>2, <1>6, <1>10, <2>1, <2>6
  <2> HIDE DEF Used
  <2> QED
    BY <1>4, <1>10, <2>2, <2>6, <2>8, <2>9, AbsorbsKeeps
<1>11. CASE /\ Blocks[i] # Unused /\ ~Adjacent(o.give, Blocks[i])
            /\ giving' = [giving EXCEPT ![t].highest = i, ![t].next = i + 1]
            /\ UNCHANGED Blocks
  <2>1. PICK g : g = [o EXCEPT !.highest = i, !.next = i + 1]
    OBVIOUS
  <2>2. /\ g \in Givings /\ g.give = o.give /\ g.keep = o.keep
        /\ g.next = i + 1 /\ g.lowest = o.lowest /\ g.highest = i
    BY <1>5, <1>7, <2>1 DEF Givings
  <2>3. giving' = [giving EXCEPT ![t] = g]
    BY <1>1, <1>5, <1>11, <2>1 DEF Givings
  <2>4. \A j \in Used : j < i + 1 => j <= i /\ (j = i \/ j < o.next)
    BY <1>2, <1>7
  <2>5. Seen(g)
    BY <1>5, <1>7, <1>11, <2>2, <2>4 DEF Seen
  <2> QED
    BY <1>1, <1>4, <1>11, <2>2, <2>3, <2>5, LooksKeeps
<1> QED
  BY <1>8, <1>9, <1>10, <1>11

\* A Free that is at its end: its block goes to the table or is lost, and what
\* the buffer keeps is the buffer's again.
Ends(t) ==
    /\ pc[t] = "scan" /\ giving[t].next > HighestUsedBlockIndex
    /\ held' = held \cup giving[t].keep
    /\ giving' = [giving EXCEPT ![t] = Nothing]
    /\ Lock' = Nobody /\ pc' = [pc EXCEPT ![t] = "idle"] /\ EntryFreed' = TRUE
    /\ UNCHANGED <<BeingDeleted, InAllocate, deletion, want, overtaken>>

LEMMA EndsTypes ==
    ASSUME AInv, NEW t \in Threads, Ends(t)
    PROVE  /\ giving' \in [Threads -> Givings] /\ giving'[t] = Nothing
           /\ \A u \in Threads \ {t} : giving'[u] = giving[u]
           /\ Givers' = Givers \ {t} /\ held' \subseteq Proper
           /\ \A u \in Givers' : giving'[u].give \in Proper
           /\ \A u \in Givers' : \A b, c \in giving'[u].keep : b = c
           /\ ControlType'
           /\ \A u \in Threads : pc'[u] # "scan"
           /\ SleepOK'
<1>1. /\ giving \in [Threads -> Givings] /\ MemoryType /\ ControlType
      /\ pc \in [Threads -> {"idle", "allocate", "wait", "free", "scan"}]
      /\ giving[t].keep \in SUBSET Proper /\ pc[t] = "scan"
      /\ \A u \in Threads \ {t} : pc[u] # "scan"
  BY Scanning DEF Ends, AInv, MemoryType, ControlType
<1>2. Nothing \in Givings
  <2>1. 0 \in 0 .. MaxBlocks /\ 0 \in Index /\ 0 \in Nat
    BY Positive
  <2>2. Block(0, 0) \in [Base : Nat, Size : Nat]
    BY DEF Block
  <2> QED
    BY <2>1, <2>2 DEF Nothing, Givings
<1>3. /\ giving' \in [Threads -> Givings] /\ giving'[t] = Nothing
      /\ \A u \in Threads \ {t} : giving'[u] = giving[u]
  BY <1>1, <1>2 DEF Ends
<1>4. Givers' = Givers \ {t}
  BY <1>1 DEF Ends, Givers
<1>5. held' \subseteq Proper
  BY <1>1 DEF Ends, MemoryType
<1>6. /\ \A u \in Givers' : giving'[u].give \in Proper
      /\ \A u \in Givers' : \A b, c \in giving'[u].keep : b = c
  BY <1>1, <1>3, <1>4 DEF MemoryType, Givers
<1>7. ControlType'
  BY <1>1, <1>3, <1>4, ThreadAssumption DEF Ends, ControlType
<1>8. \A u \in Threads : pc'[u] # "scan"
  BY <1>1 DEF Ends
<1>9. SleepOK'
  BY DEF Ends, SleepOK
<1> QED
  BY <1>3, <1>4, <1>5, <1>6, <1>7, <1>8, <1>9

\* At the end of a Free its block goes to the place P.
LEMMA EndsMoves ==
    ASSUME AInv, NEW t \in Threads, Ends(t), NEW P \in Places,
           \A u \in Threads : P # <<"hand", u>> /\ P # <<"keep", u>>,
           \A b \in Ranges : P # <<"held", b>>,
           \A i \in Index : P # <<"table", i>> => Blocks'[i] = Blocks[i],
           \A b \in Ranges : P # <<"lost", b>> => (b \in lost' <=> b \in lost),
           Region'[P] = Bytes(giving[t].give),
           overtaken \/ Region[P] \subseteq Bytes(giving[t].give)
    PROVE  Disjoint' /\ Covered'
<1> HIDE DEF Places, Region, Givers, Disjoint, Covered
<1>1. /\ Disjoint /\ Covered /\ overtaken' = overtaken /\ t \in Givers
      /\ \A u \in Threads \ {t} : giving'[u] = giving[u]
      /\ giving'[t] = Nothing /\ Givers' = Givers \ {t}
      /\ held' = held \cup giving[t].keep
  BY EndsTypes, Scanning DEF AInv, Ends
<1>2. PICK a : a = giving[t].give
  OBVIOUS
<1>3. PICK k : k = giving[t].keep
  OBVIOUS
<1>4. /\ a \in Proper /\ k \in SUBSET Proper /\ \A b, c \in k : b = c
  BY <1>1, <1>2, <1>3, Scanning DEF Ends, AInv, MemoryType
<1>5. PICK T : T = {<<"hand", t>>, <<"keep", t>>, P} \cup {<<"held", c>> : c \in k}
  OBVIOUS
<1>6. \A c \in k : c \in Ranges /\ <<"held", c>> \in Places
  BY <1>4, BlockPlaces
<1>7. T \in SUBSET Places
  <2>1. <<"hand", t>> \in Places /\ <<"keep", t>> \in Places /\ P \in Places
    BY RegionFacts
  <2> QED
    BY <1>5, <1>6, <2>1
<1>8. ASSUME NEW p \in Places \ T PROVE Region'[p] = Region[p]
  <2>1. p # P /\ p # <<"hand", t>> /\ p # <<"keep", t>> /\ \A c \in k : p # <<"held", c>>
    BY <1>5, <1>8
  <2>2. \A u \in Threads : p = <<"hand", u>> => /\ u \in Givers' <=> u \in Givers
                                                /\ giving'[u].give = giving[u].give
    BY <1>1, <2>1
  <2>3. \A u \in Threads : p = <<"keep", u>> => giving'[u].keep = giving[u].keep
    BY <1>1, <2>1
  <2>4. \A c \in Ranges : p = <<"held", c>> => (c \in held' <=> c \in held)
    BY <1>1, <1>3, <2>1
  <2>5. \A i \in Index : p = <<"table", i>> => Blocks'[i] = Blocks[i]
    BY <2>1
  <2>6. \A c \in Ranges : p = <<"lost", c>> => (c \in lost' <=> c \in lost)
    BY <2>1
  <2> QED
    BY <2>2, <2>3, <2>4, <2>5, <2>6, Elsewhere
<1>9. Region[<<"hand", t>>] = Bytes(a) /\ Region'[<<"hand", t>>] = {}
  BY <1>1, <1>2, RegionFacts, RegionNext
<1>10. PICK B : B = UNION {Bytes(c) : c \in k}
  OBVIOUS
<1>11. Region[<<"keep", t>>] = B /\ Region'[<<"keep", t>>] = {}
  <2>1. giving'[t].keep = {}
    BY <1>1 DEF Nothing
  <2>2. UNION {Bytes(c) : c \in giving'[t].keep} = {}
    BY <2>1
  <2> QED
    BY <1>3, <1>10, <2>2, RegionFacts, RegionNext
<1>12. \A c \in k : /\ Region[<<"held", c>>] \subseteq Bytes(c)
                    /\ Region'[<<"held", c>>] = Bytes(c)
  BY <1>1, <1>3, <1>6, RegionFacts, RegionNext
<1>13. B \cap Bytes(a) = {}
  BY <1>1, <1>9, <1>11, RegionFacts DEF Disjoint
<1>14. \A c \in k : Bytes(c) \subseteq B
  BY <1>10
<1>15. \A x \in B : \E c \in k : x \in Bytes(c)
  BY <1>10
<1>16. Region'[P] = Bytes(a) /\ (overtaken \/ Region[P] \subseteq Bytes(a))
  BY <1>2
<1>17. ASSUME NEW p \in T, NEW x \in Region'[p] PROVE \E q \in T : x \in Region[q]
  <2>1. CASE p = P
    BY <1>5, <1>9, <1>16, <1>17, <2>1
  <2>2. CASE p \in {<<"hand", t>>, <<"keep", t>>}
    BY <1>9, <1>11, <1>17, <2>2
  <2>3. CASE \E c \in k : p = <<"held", c>>
    <3>1. PICK c \in k : p = <<"held", c>>
      BY <2>3
    <3>2. x \in B /\ <<"keep", t>> \in T
      BY <1>5, <1>12, <1>14, <1>17, <3>1
    <3> QED
      BY <1>11, <3>2
  <2> QED
    BY <1>5, <2>1, <2>2, <2>3
<1>18. ASSUME ~overtaken, NEW p \in T, NEW x \in Region[p] PROVE \E q \in T : x \in Region'[q]
  <2>1. CASE p = P \/ p = <<"hand", t>>
    BY <1>5, <1>9, <1>16, <1>18, <2>1
  <2>2. CASE p = <<"keep", t>>
    <3>1. PICK c \in k : x \in Bytes(c)
      BY <1>11, <1>15, <1>18, <2>2
    <3>2. <<"held", c>> \in T /\ x \in Region'[<<"held", c>>]
      BY <1>5, <1>12, <3>1
    <3> QED
      BY <3>2
  <2>3. CASE \E c \in k : p = <<"held", c>>
    <3>1. PICK c \in k : p = <<"held", c>>
      BY <2>3
    <3> QED
      BY <1>12, <1>18, <3>1
  <2> QED
    BY <1>5, <2>1, <2>2, <2>3
<1>19. ASSUME NEW p \in T, NEW q \in T, p # q PROVE Region'[p] \cap Region'[q] = {}
  <2>1. CASE p \in {<<"hand", t>>, <<"keep", t>>} \/ q \in {<<"hand", t>>, <<"keep", t>>}
    BY <1>9, <1>11, <2>1
  <2>2. CASE (\E c \in k : p = <<"held", c>>) /\ (\E c \in k : q = <<"held", c>>)
    BY <1>4, <1>19, <2>2
  <2>3. CASE p = P /\ (\E c \in k : q = <<"held", c>>)
    BY <1>12, <1>13, <1>14, <1>16, <2>3
  <2>4. CASE q = P /\ (\E c \in k : p = <<"held", c>>)
    BY <1>12, <1>13, <1>14, <1>16, <2>4
  <2> QED
    BY <1>5, <1>19, <2>1, <2>2, <2>3, <2>4
<1>20. Disjoint'
  BY <1>1, <1>7, <1>8, <1>17, <1>19, Moved
<1>21. overtaken' \/ \A p \in T : \A x \in Region[p] : \E q \in T : x \in Region'[q]
  BY <1>1, <1>18
<1>22. Covered'
  BY <1>1, <1>7, <1>8, <1>21, MovedAll
<1> QED
  BY <1>20, <1>22

LEMMA FreeRunKeeps == ASSUME AInv, NEW t \in Threads, FreeRun(t) PROVE AInv'
<1>1. Ends(t)
  BY DEF FreeRun, GiveBack, Goto, Ends
<1>2. PICK g : g = giving[t]
  OBVIOUS
<1>3. /\ g.give \in Proper /\ g.lowest \in 0 .. MaxBlocks /\ g.highest \in Index
      /\ g.next = HighestUsedBlockIndex + 1 /\ Seen(g)
      /\ HighestUsedBlockIndex \in Index
  BY <1>1, <1>2, Scanning, SizeAssumption DEF Ends, Seen, AInv, MemoryType, Index
<1>4. \A i \in Used : /\ i \in Nat /\ i <= g.highest
                      /\ overtaken \/ ~Adjacent(g.give, Blocks[i])
  BY <1>3, SizeAssumption DEF Seen, AInv, TableOK, Used, Index
<1>5. /\ giving' \in [Threads -> Givings] /\ Givers' = Givers \ {t} /\ held' \subseteq Proper
      /\ \A u \in Givers' : giving'[u].give \in Proper
      /\ \A u \in Givers' : \A b, c \in giving'[u].keep : b = c
      /\ ControlType' /\ SleepOK'
  BY <1>1, EndsTypes
<1>6. /\ Blocks \in [Index -> Proper \cup {Unused}] /\ lost \subseteq Proper
      /\ overtaken' = overtaken
  BY <1>1 DEF AInv, MemoryType, Ends
<1>7. ScanOK'
  <2>1. \A u \in Threads : pc'[u] # "scan"
    BY <1>1, EndsTypes
  <2> QED
    BY <2>1 DEF ScanOK
<1>8. CASE g.lowest = MaxBlocks
  <2>1. lost' = lost \cup {g.give} /\ UNCHANGED <<Blocks, HighestUsedBlockIndex>>
    BY <1>2, <1>8 DEF FreeRun, GiveBack
  <2>2. MemoryType'
    BY <1>3, <1>5, <1>6, <2>1 DEF MemoryType
  <2>3. Disjoint' /\ Covered'
    <3>1. PICK P : P = <<"lost", g.give>>
      OBVIOUS
    <3>2. /\ P \in Places /\ Region'[P] = Bytes(g.give) /\ Region[P] \subseteq Bytes(g.give)
      BY <1>3, <2>1, <3>1, BlockPlaces, RegionFacts, RegionNext
    <3>3. /\ \A u \in Threads : P # <<"hand", u>> /\ P # <<"keep", u>>
          /\ \A b \in Ranges : P # <<"held", b>>
          /\ \A b \in Ranges : P # <<"lost", b>> => (b \in lost' <=> b \in lost)
      BY <2>1, <3>1
    <3> HIDE DEF Places, Region
    <3> QED
      BY <1>1, <1>2, <2>1, <3>2, <3>3, EndsMoves
  <2>4. TableOK' /\ ApartOK'
    BY <1>6, <2>1 DEF AInv, TableOK, ApartOK, Used
  <2> QED
    BY <1>5, <1>7, <2>2, <2>3, <2>4 DEF AInv
<1>9. CASE g.lowest # MaxBlocks
  <2>1. /\ Blocks' = [Blocks EXCEPT ![g.lowest] = g.give] /\ UNCHANGED lost
        /\ HighestUsedBlockIndex' = Max({g.lowest, g.highest})
    BY <1>2, <1>9 DEF FreeRun, GiveBack, Record
  <2>2. PICK n \in Index : n = g.lowest
    BY <1>3, <1>9, SizeAssumption DEF Index
  <2>3. HighestUsedBlockIndex' = IF n <= g.highest THEN g.highest ELSE n
    <3>1. n \in Nat /\ g.highest \in Nat
      BY <1>3, SizeAssumption DEF Index
    <3> QED
      BY <2>1, <2>2, <3>1, HigherOf
  <2>4. PICK a \in Proper : a = g.give
    BY <1>3
  <2>5. /\ Blocks' \in [Index -> Proper \cup {Unused}] /\ Blocks'[n] = a
        /\ \A i \in Index \ {n} : Blocks'[i] = Blocks[i]
    BY <1>6, <2>1, <2>2, <2>4
  <2>6. a # Unused /\ a \in Ranges
    BY <2>4, RangeFacts DEF Proper
  <2>7. MemoryType'
    BY <1>3, <1>5, <1>6, <2>1, <2>2, <2>3, <2>5 DEF MemoryType
  <2>8. overtaken \/ Blocks[n] = Unused
    BY <1>3, <2>2 DEF Seen, Used
  <2>9. Disjoint' /\ Covered'
    <3>1. PICK P : P = <<"table", n>>
      OBVIOUS
    <3>2. /\ P \in Places /\ Region'[P] = Bytes(a)
          /\ overtaken \/ Region[P] \subseteq Bytes(a)
      BY <2>5, <2>6, <2>8, <3>1, RegionFacts, RegionNext
    <3>3. /\ \A u \in Threads : P # <<"hand", u>> /\ P # <<"keep", u>>
          /\ \A b \in Ranges : P # <<"held", b>>
          /\ \A i \in Index : P # <<"table", i>> => Blocks'[i] = Blocks[i]
          /\ \A b \in Ranges : P # <<"lost", b>> => (b \in lost' <=> b \in lost)
      BY <2>1, <2>5, <3>1
    <3> HIDE DEF Places, Region
    <3> QED
      BY <1>1, <1>2, <2>4, <3>2, <3>3, EndsMoves
  <2>10. \A i \in Used' : i = n \/ (i \in Used /\ i # n /\ Blocks'[i] = Blocks[i])
    BY <2>5 DEF Used
  <2>11. TableOK'
    <3>1. n \in Nat /\ g.highest \in Nat
      BY <1>3, SizeAssumption DEF Index
    <3> HIDE DEF Used
    <3> QED
      BY <1>4, <2>3, <2>10, <3>1 DEF TableOK
  <2>12. ApartOK'
    <3> HIDE DEF Used
    <3> SUFFICES ASSUME ~overtaken, NEW i \in Used', NEW j \in Used',
                        Above(Blocks'[i], Blocks'[j])
                 PROVE  FALSE
      BY <1>6 DEF ApartOK, Above, End, On64MBBoundary
    <3>1. CASE i = n /\ j = n
      BY <2>5, <2>6, <3>1, RangeFacts DEF Above
    <3>2. CASE i = n /\ j # n
      BY <1>4, <2>4, <2>5, <2>10, <3>2 DEF Adjacent
    <3>3. CASE i # n /\ j = n
      BY <1>4, <2>4, <2>5, <2>10, <3>3 DEF Adjacent, Above, Below
    <3>4. CASE i # n /\ j # n
      BY <2>10, <3>4 DEF AInv, ApartOK
    <3> QED
      BY <3>1, <3>2, <3>3, <3>4
  <2> QED
    BY <1>5, <1>7, <2>7, <2>9, <2>11, <2>12 DEF AInv
<1> QED
  BY <1>8, <1>9

---------------------------------------------------------------------------
(* The table at the start: the buffer, cut at the boundaries. *)

LEMMA TimesNext ==
    ASSUME NEW a \in Nat PROVE a * Boundary \in Nat /\ (a + 1) * Boundary = a * Boundary + Boundary
BY SizeAssumption

LEMMA TimesLeq ==
    ASSUME NEW a \in Nat, NEW b \in Nat, a <= b PROVE a * Boundary <= b * Boundary
<1>1. PICK d \in Nat : b = a + d
  <2>1. b - a \in Nat /\ b = a + (b - a)
    OBVIOUS
  <2> QED
    BY <2>1
<1>2. b * Boundary = a * Boundary + d * Boundary
  BY <1>1, SizeAssumption
<1>3. a * Boundary \in Nat /\ d * Boundary \in Nat
  BY SizeAssumption
<1> QED
  BY <1>2, <1>3

LEMMA Divided ==
    ASSUME NEW n \in Nat
    PROVE  \E d, m \in Nat : /\ d = n \div Boundary /\ m = n % Boundary
                            /\ m < Boundary /\ n = d * Boundary + m
<1>1. PICK d : d = n \div Boundary
  OBVIOUS
<1>2. PICK m : m = n % Boundary
  OBVIOUS
<1>3. d \in Nat /\ m \in Nat /\ m < Boundary /\ n = d * Boundary + m
  BY <1>1, <1>2, SizeAssumption
<1> QED
  BY <1>1, <1>2, <1>3

LEMMA DividedOnce ==
    ASSUME NEW n \in Nat, NEW k \in Nat, k * Boundary <= n, n < k * Boundary + Boundary
    PROVE  n \div Boundary = k
<1>1. PICK d, m \in Nat : d = n \div Boundary /\ m < Boundary /\ n = d * Boundary + m
  BY Divided
<1>2. d * Boundary <= n /\ n < d * Boundary + Boundary
  BY <1>1, TimesNext, SizeAssumption
<1>3. CASE d < k
  <2>1. (d + 1) * Boundary <= k * Boundary
    BY <1>3, TimesLeq
  <2> QED
    BY <1>2, <2>1, TimesNext, SizeAssumption
<1>4. CASE k < d
  <2>1. (k + 1) * Boundary <= d * Boundary
    BY <1>4, TimesLeq
  <2> QED
    BY <1>2, <2>1, TimesNext, SizeAssumption
<1> QED
  BY <1>1, <1>3, <1>4

\* Where the entry i begins, and the entry a byte is in.
Start(i) ==
    IF i = 0 THEN 0
    ELSE Min({(Boundary - (PhysicalAddress % Boundary)) + (i - 1) * Boundary, BufferSize})
Segment(x) == (x + PhysicalAddress) \div Boundary - PhysicalAddress \div Boundary

LEMMA SegmentBytes ==
    ASSUME NEW i \in Nat
    PROVE  /\ Start(i) \in 0 .. BufferSize
           /\ Start(i) < BufferSize => Start(i) < Start(i + 1)
           /\ \A x \in 0 .. BufferSize - 1 : Start(i) <= x /\ x < Start(i + 1) <=> Segment(x) = i
           /\ i # 0 /\ Start(i) < BufferSize => On64MBBoundary(Start(i))
<1> DEFINE P == PhysicalAddress
           B == Boundary
<1>1. PICK q, r \in Nat : q = P \div B /\ r = P % B /\ r < B /\ P = q * B + r
  BY Divided, SizeAssumption
<1>2. P \in Nat /\ B \in Nat \ {0} /\ BufferSize \in Nat \ {0}
  BY SizeAssumption
<1>3. ASSUME NEW k \in Nat, NEW m \in Nat, k = m + 1
      PROVE  /\ (B - r) + m * B \in Nat
             /\ ((B - r) + m * B) + P = (q + k) * B
             /\ Start(k) = IF (B - r) + m * B <= BufferSize THEN (B - r) + m * B ELSE BufferSize
  <2>1. m * B \in Nat /\ (q + k) * B = (q * B + m * B) + B
    BY <1>2, <1>3
  <2>2. (B - r) + m * B \in Nat /\ q * B \in Nat
    BY <1>1, <1>2, <2>1
  <2>3. ((B - r) + m * B) + P = (q + k) * B
    BY <1>1, <1>2, <2>1, <2>2
  <2>4. Start(k) = Min({(B - r) + m * B, BufferSize})
    <3>1. k # 0 /\ k - 1 = m
      BY <1>3
    <3> QED
      BY <1>1, <3>1 DEF Start
  <2> QED
    BY <1>2, <2>2, <2>3, <2>4, LowerOf
<1>4. PICK e \in Nat : e = (B - r) + i * B /\ e + P = (q + (i + 1)) * B
                       /\ Start(i + 1) = IF e <= BufferSize THEN e ELSE BufferSize
  BY <1>3
<1>5. PICK s \in Nat : /\ s <= BufferSize => Start(i) = s
                       /\ s >= BufferSize => Start(i) = BufferSize
                       /\ s < e
                       /\ i = 0 => s = 0
                       /\ i # 0 => s + P = (q + i) * B
                       /\ s + P >= (q + i) * B
  <2>1. (q + i) * B \in Nat /\ (q + (i + 1)) * B = (q + i) * B + B
    BY <1>2, TimesNext
  <2>2. CASE i = 0
    <3>1. Start(i) = 0 /\ 0 + P >= (q + i) * B /\ 0 < e
      BY <1>1, <1>2, <1>4, <2>1, <2>2 DEF Start
    <3> QED
      BY <1>2, <2>2, <3>1
  <2>3. CASE i # 0
    <3>1. PICK m \in Nat : i = m + 1
      <4>1. i - 1 \in Nat /\ i = (i - 1) + 1
        BY <2>3
      <4> QED
        BY <4>1
    <3>2. PICK f \in Nat : f = (B - r) + m * B
      BY <1>3, <3>1
    <3>3. f + P = (q + i) * B /\ Start(i) = IF f <= BufferSize THEN f ELSE BufferSize
      BY <1>3, <3>1, <3>2
    <3>4. f < e
      BY <1>2, <1>4, <2>1, <3>3
    <3> QED
      BY <1>2, <2>1, <2>3, <3>3, <3>4
  <2> QED
    BY <2>2, <2>3
<1>6. Start(i) \in 0 .. BufferSize /\ (Start(i) < BufferSize => Start(i) < Start(i + 1))
  BY <1>2, <1>4, <1>5
<1>7. ASSUME NEW x \in 0 .. BufferSize - 1
      PROVE  Start(i) <= x /\ x < Start(i + 1) <=> Segment(x) = i
  <2>1. x \in Nat /\ x + P \in Nat /\ x < BufferSize
    BY <1>2
  <2>2. Start(i) <= x /\ x < Start(i + 1) <=> s <= x /\ x < e
    BY <1>2, <1>4, <1>5, <2>1
  <2>3. (q + i) * B \in Nat /\ (q + (i + 1)) * B = (q + i) * B + B
    BY <1>2, TimesNext
  <2>4. PICK d, w \in Nat : d = (x + P) \div B /\ w < B /\ x + P = d * B + w
    BY <2>1, Divided
  <2>5. Segment(x) = d - q
    BY <1>1, <2>4 DEF Segment
  <2>6. Segment(x) = i <=> d = q + i
    BY <2>4, <2>5
  <2>7. ASSUME s <= x, x < e PROVE d = q + i
    <3>1. (q + i) * B <= x + P /\ x + P < (q + i) * B + B
      BY <1>2, <1>4, <1>5, <2>1, <2>3, <2>7
    <3> QED
      BY <2>1, <2>4, <3>1, DividedOnce
  <2>8. ASSUME d = q + i PROVE s <= x /\ x < e
    <3>1. (q + i) * B <= x + P /\ x + P < (q + i) * B + B
      BY <1>2, <2>1, <2>3, <2>4, <2>8
    <3> QED
      BY <1>2, <1>4, <1>5, <2>1, <2>3, <3>1
  <2> QED
    BY <2>2, <2>6, <2>7, <2>8
<1>8. ASSUME i # 0, Start(i) < BufferSize PROVE On64MBBoundary(Start(i))
  <2>1. Start(i) = s /\ s + P = (q + i) * B
    BY <1>2, <1>5, <1>8
  <2>2. q + i \in Nat /\ s + P \in Nat
    BY <1>2
  <2>3. (s + P) \div B = q + i
    BY <1>2, <2>1, <2>2, DividedOnce
  <2>4. (s + P) % B = 0
    BY <1>2, <2>1, <2>2, <2>3, Divided
  <2> QED
    BY <2>1, <2>4 DEF On64MBBoundary
<1> QED
  BY <1>6, <1>7, <1>8

LEMMA SegmentIndex ==
    ASSUME NEW x \in 0 .. BufferSize - 1
    PROVE  Segment(x) \in Index
<1> DEFINE P == PhysicalAddress
           B == Boundary
           M == MaxBlocks
<1>1. PICK q, r \in Nat : q = P \div B /\ r = P % B /\ r < B /\ P = q * B + r
  BY Divided, SizeAssumption
<1>2. P \in Nat /\ B \in Nat \ {0} /\ M \in Nat /\ BufferSize \in Nat \ {0}
  BY SizeAssumption
<1>3. PICK d, w \in Nat : d = (x + P) \div B /\ w < B /\ x + P = d * B + w
  BY <1>2, Divided
<1>4. Segment(x) = d - q
  BY <1>1, <1>3 DEF Segment
<1>5. x + r < M * B
  <2>1. BufferSize + r <= M * B
    BY <1>1, SizeAssumption
  <2> QED
    BY <1>2, <2>1
<1>6. /\ d * B \in Nat /\ q * B \in Nat /\ M * B \in Nat
      /\ (d + 1) * B = d * B + B
  BY <1>2, TimesNext
<1>7. CASE d < q
  <2>1. (d + 1) * B <= q * B
    BY <1>7, TimesLeq
  <2> QED
    BY <1>1, <1>2, <1>3, <1>6, <2>1
<1>8. CASE q + M <= d
  <2>1. (q + M) * B <= d * B /\ (q + M) * B = q * B + M * B
    BY <1>2, <1>8, TimesLeq
  <2> QED
    BY <1>1, <1>2, <1>3, <1>5, <1>6, <2>1
<1> QED
  BY <1>2, <1>4, <1>7, <1>8 DEF Index

\* An entry at the start, and every byte of it is in the segment of the entry.
LEMMA WholeEntry ==
    ASSUME NEW i \in Index
    PROVE  /\ i \in Nat
           /\ Whole[i] = Unused <=> Start(i) = BufferSize
           /\ Whole[i] # Unused =>
                /\ Whole[i] \in Proper /\ Whole[i].Base = Start(i) /\ Start(i) < BufferSize
                /\ End(Whole[i]) = Start(i + 1) /\ Start(i) < Start(i + 1)
                /\ \A x : x \in Bytes(Whole[i]) <=> x \in 0 .. BufferSize - 1 /\ Segment(x) = i
<1>1. i \in Nat /\ i + 1 \in Nat
  BY SizeAssumption DEF Index
<1>2. /\ Start(i) \in 0 .. BufferSize /\ Start(i + 1) \in 0 .. BufferSize
      /\ Start(i) < BufferSize => Start(i) < Start(i + 1)
      /\ \A x \in 0 .. BufferSize - 1 : Start(i) <= x /\ x < Start(i + 1) <=> Segment(x) = i
  BY <1>1, SegmentBytes
<1>3. Whole[i] = IF Start(i) = BufferSize THEN Unused ELSE Block(Start(i), Start(i + 1) - Start(i))
  BY DEF Whole, Start
<1>4. CASE Start(i) = BufferSize
  BY <1>1, <1>3, <1>4
<1>5. CASE Start(i) # BufferSize
  <2>1. PICK w : w = Whole[i]
    OBVIOUS
  <2>2. PICK s \in Nat : s = Start(i)
    BY <1>2, SizeAssumption
  <2>3. PICK n \in Nat : n = Start(i + 1) - Start(i) /\ n # 0
    BY <1>2, <1>5, SizeAssumption
  <2>4. s + n = Start(i + 1) /\ s + n <= BufferSize /\ s < BufferSize
    BY <1>2, <1>5, <2>2, <2>3, SizeAssumption
  <2>5. w = Block(s, n)
    BY <1>3, <1>5, <2>1, <2>2, <2>3
  <2>6. /\ w \in Ranges /\ w.Base = s /\ End(w) = s + n
        /\ \A x : x \in Bytes(w) <=> x \in Int /\ s <= x /\ x < s + n
    BY <2>3, <2>4, <2>5, RangeMade
  <2>7. \A x : x \in Bytes(w) <=> x \in 0 .. BufferSize - 1 /\ Segment(x) = i
    <3>1. \A x : x \in Bytes(w) => x \in 0 .. BufferSize - 1
      BY <2>4, <2>6, SizeAssumption
    <3> QED
      BY <1>2, <2>2, <2>4, <2>6, <3>1
  <2>8. ASSUME NEW x \in Bytes(w) \ {w.Base}, On64MBBoundary(x) PROVE FALSE
    <3>1. x \in Nat /\ s < x /\ x < s + n /\ x - 1 \in Nat /\ x - 1 \in Bytes(w)
      BY <2>6, <2>8
    <3>2. Segment(x) = i /\ Segment(x - 1) = i
      BY <2>7, <3>1
    <3> DEFINE y == x + PhysicalAddress
               z == (x - 1) + PhysicalAddress
    <3>3. y \in Nat /\ z \in Nat /\ y = z + 1
      BY <3>1, SizeAssumption
    <3>4. PICK d, m \in Nat : /\ d = y \div Boundary /\ m = y % Boundary
                              /\ m < Boundary /\ y = d * Boundary + m
      BY <3>3, Divided
    <3>5. PICK e, k \in Nat : /\ e = z \div Boundary /\ k = z % Boundary
                              /\ k < Boundary /\ z = e * Boundary + k
      BY <3>3, Divided
    <3>6. PICK q \in Nat : q = PhysicalAddress \div Boundary
      <4>1. \E o, r \in Nat : /\ o = PhysicalAddress \div Boundary /\ r = PhysicalAddress % Boundary
                              /\ r < Boundary /\ PhysicalAddress = o * Boundary + r
        BY Divided, SizeAssumption
      <4> QED
        BY <4>1
    <3>7. d = e
      <4>1. d - q = e - q
        BY <3>2, <3>4, <3>5, <3>6 DEF Segment
      <4> QED
        BY <4>1
    <3>8. m = 0
      BY <2>8, <3>4 DEF On64MBBoundary
    <3>9. d * Boundary \in Nat
      BY TimesNext
    <3> HIDE DEF y, z
    <3> QED
      BY <3>3, <3>4, <3>5, <3>7, <3>8, <3>9
  <2>9. w \in Proper
    BY <2>6, <2>8 DEF Proper
  <2>10. w # Unused
    BY <2>6, RangeFacts
  <2> QED
    BY <1>1, <1>2, <1>5, <2>1, <2>2, <2>4, <2>6, <2>7, <2>9, <2>10
<1> QED
  BY <1>4, <1>5

\* Every byte is in the entry of its segment.
LEMMA WholeCovers ==
    ASSUME NEW x \in 0 .. BufferSize - 1
    PROVE  /\ Segment(x) \in Index /\ Whole[Segment(x)] # Unused
           /\ x \in Bytes(Whole[Segment(x)])
<1>1. PICK i \in Index : i = Segment(x)
  BY SegmentIndex
<1>2. i \in Nat /\ Start(i) \in 0 .. BufferSize /\ Start(i) <= x
  BY <1>1, WholeEntry, SegmentBytes
<1>3. Start(i) # BufferSize
  BY <1>2, SizeAssumption
<1> QED
  BY <1>1, <1>3, WholeEntry

\* The last byte is in the highest entry.
LEMMA WholeHighest ==
    /\ Max({i \in Index : Whole[i] # Unused}) \in Index
    /\ \A i \in Index : Whole[i] # Unused => i <= Max({j \in Index : Whole[j] # Unused})
<1> DEFINE S == {i \in Index : Whole[i] # Unused}
           x == BufferSize - 1
<1>1. x \in 0 .. BufferSize - 1
  BY SizeAssumption
<1>2. PICK h : h = Segment(x)
  OBVIOUS
<1>3. h \in S
  BY <1>1, <1>2, WholeCovers
<1>4. ASSUME NEW i \in S, h < i PROVE FALSE
  <2>1. PICK b : b = Start(i)
    OBVIOUS
  <2>2. b \in 0 .. BufferSize - 1 /\ b \in Bytes(Whole[i])
    <3>1. Whole[i] \in Ranges /\ Whole[i].Base = b
      BY <2>1, WholeEntry DEF Proper
    <3> QED
      BY <3>1, RangeFacts, ByteFacts, SizeAssumption
  <2>3. Segment(b) = i /\ i \in Nat /\ h \in Nat
    BY <1>3, <2>2, WholeEntry
  <2>4. PICK d, m \in Nat : d = (b + PhysicalAddress) \div Boundary
                            /\ b + PhysicalAddress = d * Boundary + m
    <3>1. b + PhysicalAddress \in Nat
      BY <2>2, SizeAssumption
    <3> QED
      BY <3>1, Divided
  <2>5. PICK e, k \in Nat : e = (x + PhysicalAddress) \div Boundary /\ k < Boundary
                            /\ x + PhysicalAddress = e * Boundary + k
    <3>1. x + PhysicalAddress \in Nat
      BY SizeAssumption
    <3> QED
      BY <3>1, Divided
  <2>6. PICK q \in Nat : q = PhysicalAddress \div Boundary
    <3>1. \E q, r \in Nat : /\ q = PhysicalAddress \div Boundary /\ r = PhysicalAddress % Boundary
                            /\ r < Boundary /\ PhysicalAddress = q * Boundary + r
      BY Divided, SizeAssumption
    <3> QED
      BY <3>1
  <2>7. d - q = i /\ e - q = h
    BY <1>2, <2>3, <2>4, <2>5, <2>6 DEF Segment
  <2>8. e + 1 <= d
    BY <1>4, <2>3, <2>7
  <2>9. (e + 1) * Boundary <= d * Boundary
    BY <2>8, TimesLeq
  <2>10. /\ (e + 1) * Boundary = e * Boundary + Boundary
         /\ e * Boundary \in Nat /\ d * Boundary \in Nat
    BY TimesNext
  <2>11. b <= x
    BY <2>2, SizeAssumption
  <2> QED
    BY <2>2, <2>4, <2>5, <2>9, <2>10, <2>11, SizeAssumption
<1>5. \A i \in S : i \in Int /\ h \in Int
  BY <1>3, WholeEntry
<1>6. \E n \in S : \A i \in S : n >= i
  BY <1>3, <1>4, <1>5
<1> HIDE DEF S
<1>7. Max(S) \in S /\ \A i \in S : Max(S) >= i
  BY <1>6 DEF Max
<1> QED
  BY <1>5, <1>7 DEF S

LEMMA InitHolds == ASSUME Init PROVE AInv
<1>1. /\ Blocks = Whole /\ HighestUsedBlockIndex = Max({i \in Index : Whole[i] # Unused})
      /\ EntryFreed = TRUE /\ Lock = Nobody /\ BeingDeleted = FALSE /\ InAllocate = FALSE
      /\ deletion = "none" /\ held = {} /\ pc = [t \in Threads |-> "idle"]
      /\ want = [size |-> 0, largest |-> FALSE]
      /\ giving = [t \in Threads |-> Nothing] /\ lost = {} /\ overtaken = FALSE
  BY DEF Init
<1>2. Nothing \in Givings /\ Nothing.keep = {}
  <2>1. 0 \in 0 .. MaxBlocks /\ 0 \in Index /\ 0 \in Nat
    BY Positive
  <2>2. Block(0, 0) \in [Base : Nat, Size : Nat]
    BY DEF Block
  <2> QED
    BY <2>1, <2>2 DEF Nothing, Givings
<1>3. Givers = {}
  BY <1>1 DEF Givers
<1>4. Whole \in [Index -> Proper \cup {Unused}]
  <2>1. \A i \in Index : Whole[i] \in Proper \cup {Unused}
    BY WholeEntry
  <2>2. Whole = [i \in Index |-> Whole[i]]
    BY DEF Whole
  <2> QED
    BY <2>1, <2>2
<1>5. MemoryType
  BY <1>1, <1>2, <1>3, <1>4, WholeHighest DEF MemoryType
<1>6. ControlType
  BY <1>1, <1>3 DEF ControlType
<1>7. ASSUME NEW p \in Places, NEW x \in Region[p]
      PROVE  x \in 0 .. BufferSize - 1 /\ p = <<"table", Segment(x)>>
  <2> HIDE DEF Places, Region
  <2>1. \/ \E i \in Index : p = <<"table", i>>
        \/ \E t \in Threads : p = <<"hand", t>> \/ p = <<"keep", t>>
        \/ \E b \in Ranges : p = <<"held", b>> \/ p = <<"lost", b>>
    BY DEF Places
  <2>2. CASE \E i \in Index : p = <<"table", i>>
    <3>1. PICK i \in Index : p = <<"table", i>>
      BY <2>2
    <3>2. Whole[i] # Unused /\ x \in Bytes(Whole[i])
      BY <1>1, <1>7, <3>1, RegionFacts
    <3> QED
      BY <3>1, <3>2, WholeEntry
  <2>3. CASE \E t \in Threads : p = <<"hand", t>> \/ p = <<"keep", t>>
    <3>1. PICK t \in Threads : p = <<"hand", t>> \/ p = <<"keep", t>>
      BY <2>3
    <3>2. UNION {Bytes(b) : b \in giving[t].keep} = {}
      BY <1>1, <1>2
    <3> QED
      BY <1>3, <1>7, <3>1, <3>2, RegionFacts
  <2>4. CASE \E b \in Ranges : p = <<"held", b>> \/ p = <<"lost", b>>
    BY <1>1, <1>7, <2>4, RegionFacts
  <2> QED
    BY <2>1, <2>2, <2>3, <2>4
<1>8. Disjoint
  BY <1>7 DEF Disjoint
<1>9. Covered
  <2>1. ASSUME NEW x \in 0 .. BufferSize - 1 PROVE \E p \in Places : x \in Region[p]
    BY ZenonT(30), <1>1, WholeCovers, RegionFacts
  <2> QED
    BY <2>1 DEF Covered
<1>10. TableOK
  BY <1>1, WholeHighest DEF TableOK, Used
<1>11. ApartOK
  <2> SUFFICES ASSUME NEW i \in Used, NEW j \in Used, Above(Blocks[i], Blocks[j]) PROVE FALSE
    BY DEF ApartOK
  <2>1. i \in Index /\ j \in Index /\ Whole[i] # Unused /\ Whole[j] # Unused
    BY <1>1 DEF Used
  <2>2. /\ Whole[j].Base = Start(j) /\ Start(j) < BufferSize /\ j \in Nat
        /\ i \in Nat /\ End(Whole[i]) = Start(i + 1) /\ Start(i) < Start(i + 1)
    BY <2>1, WholeEntry
  <2>3. Start(i) \in Nat
    BY <2>2, SegmentBytes, SizeAssumption
  <2>4. j # 0
    <3>1. Start(0) = 0
      BY DEF Start
    <3> QED
      BY <1>1, <2>2, <2>3, <3>1 DEF Above
  <2>5. On64MBBoundary(Start(j))
    BY <2>2, <2>4, SegmentBytes
  <2> QED
    BY <1>1, <2>2, <2>5 DEF Above
<1>12. ScanOK /\ SleepOK
  BY <1>1 DEF ScanOK, SleepOK
<1> QED
  BY <1>5, <1>6, <1>8, <1>9, <1>10, <1>11, <1>12 DEF AInv

LEMMA StepKeeps == ASSUME AInv, [Next]_vars PROVE AInv'
<1>1. CASE \E t \in Threads : Call(t)
  <2>1. PICK t \in Threads : Call(t)
    BY <1>1
  <2> QED
    BY <2>1, AllocateEnterKeeps, AllocateTurnKeeps, AllocateWokenKeeps, ExtendKeeps,
       FreeEnterKeeps, FreeLockKeeps, FreeScanKeeps, FreeRunKeeps DEF Call
<1>2. CASE DeleteFlag \/ DeleteSignal \/ DeleteEnd \/ UNCHANGED vars
  BY <1>2, DeleteKeeps
<1> QED
  BY <1>1, <1>2 DEF Next

LEMMA AlwaysInv == Spec => []AInv
<1>1. Init => AInv
  BY InitHolds
<1>2. AInv /\ [Next]_vars => AInv'
  BY StepKeeps
<1> QED
  BY <1>1, <1>2, PTL DEF Spec

---------------------------------------------------------------------------
(* What follows at every moment. *)

\* The table holds ranges of the pool's memory or Unused and its highest index
\* is one of the table; what buffers have, what is being given back and what was
\* lost are ranges of it; only the thread with the mutex scans (AllocatorSimple_c).
THEOREM TypeCorrect == Spec => []TypeOK
<1>1. AInv => TypeOK
  <2> SUFFICES ASSUME AInv PROVE TypeOK
    OBVIOUS
  <2>1. \A b \in Proper : b \in Ranges
    BY DEF Proper
  <2>2. Blocks \in [Index -> Ranges \cup {Unused}]
    BY <2>1 DEF AInv, MemoryType
  <2>3. \A t \in Givers : giving[t].give \in Ranges /\ giving[t].keep \subseteq Ranges
    BY <2>1 DEF AInv, MemoryType, Givings, Givers
  <2>4. InHand \subseteq Ranges
    BY <2>3 DEF InHand
  <2>5. held \cup InHand \cup lost \subseteq Ranges
    BY <2>1, <2>4 DEF AInv, MemoryType
  <2> QED
    BY <2>2, <2>5 DEF AInv, MemoryType, ControlType, TypeOK
<1> QED
  BY <1>1, AlwaysInv, PTL

\* Free memory never lies in two entries that could be one (the scan of
\* AllocatorSimple_c::Free joins a block with the entries at both of its ends,
\* and Allocate and ExtendToLargest leave nothing that could be joined).
THEOREM FreeMemoryJoined == Spec => []Coalesced
<1>1. AInv => Coalesced
  <2> SUFFICES ASSUME AInv, ~overtaken, NEW b \in Free, NEW c \in Free, End(b) = c.Base
               PROVE  On64MBBoundary(c.Base)
    BY DEF Coalesced
  <2>1. PICK i \in Entries : b = Blocks[i]
    BY DEF Free
  <2>2. PICK j \in Entries : c = Blocks[j]
    BY DEF Free
  <2>3. i \in Used /\ j \in Used
    BY EntriesUsed DEF AInv
  <2> QED
    BY <2>1, <2>2, <2>3 DEF AInv, ApartOK, Above
<1> QED
  BY <1>1, AlwaysInv, PTL

\* No buffer ever has memory across a 64 MB boundary, neither from Allocate nor
\* after ExtendToLargest or a Free that joined blocks (allocator_simple.h: "this
\* implementation will not return a block of memory that crosses" one).
THEOREM NeverAcross == Spec => []WithinBoundary
<1>1. AInv => WithinBoundary
  BY DEF AInv, MemoryType, Proper, WithinBoundary
<1> QED
  BY <1>1, AlwaysInv, PTL

\* The thread in AllocatorSimple_c::Allocate does not sleep on EntryFreed while
\* the table has an entry that would serve it: the reset of the event and the
\* look at the table are under one mutex, and every Free sets the event.
THEOREM NeverAsleepBeside == Spec => []WakesAllocator
<1>1. AInv => WakesAllocator
  <2> SUFFICES ASSUME AInv, pc[Allocator] = "wait", Fitting # {}, ~EntryFreed PROVE FALSE
    BY DEF WakesAllocator
  <2>1. PICK i \in Fitting : TRUE
    OBVIOUS
  <2>2. i \in Entries /\ Blocks[i].Size >= want.size
    BY DEF Fitting, FirstFit, LargestFreeBlock
  <2>3. i \in Used /\ Blocks[i].Size \in Nat /\ want.size \in Nat
    BY <2>2, EntriesUsed, UsedProper, RangeFacts DEF AInv, ControlType
  <2> HIDE DEF Used
  <2>4. Blocks[i].Size < want.size
    BY <2>3, Zenon DEF AInv, SleepOK
  <2> QED
    BY <2>2, <2>3, <2>4
<1> QED
  BY <1>1, AlwaysInv, PTL

\* Where a byte is that an entry or a block has.
LEMMA ByteOf ==
    ASSUME AInv, NEW x, NEW p \in Places, x \in Region[p]
    PROVE  /\ \A i \in Entries : x \in Bytes(Blocks[i]) => p = <<"table", i>>
           /\ \A b \in held \cup InHand \cup lost : x \in Bytes(b) =>
                \/ p \in {<<"held", b>>, <<"lost", b>>}
                \/ \E t \in Givers : \/ p = <<"hand", t>> /\ b = giving[t].give
                                     \/ p = <<"keep", t>> /\ b \in giving[t].keep
<1> HIDE DEF Places, Region
<1>1. MemoryType /\ \A q \in Places : x \in Region[q] => p = q
  BY DEF AInv, Disjoint
<1>2. ASSUME NEW i \in Entries, x \in Bytes(Blocks[i]) PROVE p = <<"table", i>>
  <2>1. i \in Index /\ Blocks[i] # Unused
    BY <1>1, EntriesUsed, UsedProper
  <2> QED
    BY <1>1, <1>2, <2>1, RegionFacts
<1>3. ASSUME NEW b \in held \cup InHand \cup lost, x \in Bytes(b)
      PROVE  \/ p \in {<<"held", b>>, <<"lost", b>>}
             \/ \E t \in Givers : \/ p = <<"hand", t>> /\ b = giving[t].give
                                  \/ p = <<"keep", t>> /\ b \in giving[t].keep
  <2>1. CASE b \in held \cup lost
    <3>1. b \in Ranges
      BY <1>1, <2>1 DEF MemoryType, Proper
    <3> QED
      BY <1>1, <1>3, <2>1, <3>1, RegionFacts
  <2>2. CASE b \in InHand
    <3>1. PICK t \in Givers : b \in giving[t].keep \cup {giving[t].give}
      BY <2>2 DEF InHand
    <3>2. t \in Threads
      BY DEF Givers
    <3>3. CASE b = giving[t].give
      <4>1. p = <<"hand", t>>
        <5>1. <<"hand", t>> \in Places /\ Region[<<"hand", t>>] = Bytes(giving[t].give)
          BY <3>2, RegionFacts
        <5>2. x \in Region[<<"hand", t>>]
          BY <1>3, <3>3, <5>1
        <5> QED
          BY <1>1, <5>1, <5>2
      <4> QED
        BY <3>3, <4>1
    <3>4. CASE b \in giving[t].keep
      <4>1. x \in UNION {Bytes(c) : c \in giving[t].keep}
        BY <1>3, <3>4
      <4>2. p = <<"keep", t>>
        BY <1>1, <3>2, <4>1, RegionFacts
      <4> QED
        BY <3>4, <4>2
    <3> QED
      BY <3>1, <3>3, <3>4
  <2> QED
    BY <2>1, <2>2
<1> QED
  BY <1>2, <1>3

\* What is at a place belongs to an entry or to a block.
LEMMA OwnerOf ==
    ASSUME AInv, NEW x, NEW p \in Places, x \in Region[p]
    PROVE  \/ \E i \in Entries : x \in Bytes(Blocks[i])
           \/ \E b \in held \cup InHand \cup lost : x \in Bytes(b)
<1>1. \/ \E i \in Index : p = <<"table", i>>
      \/ \E t \in Threads : p = <<"hand", t>> \/ p = <<"keep", t>>
      \/ \E b \in Ranges : p = <<"held", b>> \/ p = <<"lost", b>>
  BY DEF Places
<1> HIDE DEF Places, Region
<1>2. CASE \E i \in Index : p = <<"table", i>>
  <2>1. PICK i \in Index : p = <<"table", i>>
    BY <1>2
  <2>2. Blocks[i] # Unused /\ x \in Bytes(Blocks[i])
    BY <2>1, RegionFacts
  <2>3. i \in Entries
    BY <2>2, SizeAssumption DEF AInv, TableOK, MemoryType, Entries, Used, Index
  <2> QED
    BY <2>2, <2>3
<1>3. CASE \E t \in Threads : p = <<"hand", t>>
  <2>1. PICK t \in Threads : p = <<"hand", t>>
    BY <1>3
  <2>2. t \in Givers /\ x \in Bytes(giving[t].give)
    BY <2>1, RegionFacts
  <2>3. giving[t].give \in InHand
    BY <2>2 DEF InHand
  <2> QED
    BY <2>2, <2>3
<1>4. CASE \E t \in Threads : p = <<"keep", t>>
  <2>1. PICK t \in Threads : p = <<"keep", t>>
    BY <1>4
  <2>2. x \in UNION {Bytes(c) : c \in giving[t].keep}
    BY <2>1, RegionFacts
  <2>3. PICK c \in giving[t].keep : x \in Bytes(c)
    BY <2>2
  <2>4. t \in Givers
    BY <2>3 DEF AInv, ControlType, Nothing
  <2> QED
    BY <2>3, <2>4 DEF InHand
<1>5. CASE \E b \in Ranges : p = <<"held", b>> \/ p = <<"lost", b>>
  <2>1. PICK b \in Ranges : p = <<"held", b>> \/ p = <<"lost", b>>
    BY <1>5
  <2>2. b \in held \cup lost /\ x \in Bytes(b)
    BY <2>1, RegionFacts
  <2> QED
    BY <2>2
<1> QED
  BY <1>1, <1>2, <1>3, <1>4, <1>5

\* No byte of the pool's memory is lost or is in two places, as long as no Free
\* read HighestUsedBlockIndex before another one changed it: over any number of
\* AllocatorSimple_c::Allocate, ExtendToLargest and Free, of which several may be
\* waiting for the mutex.
THEOREM MemoryConserved == Spec => []ConservedInTurn
<1>1. AInv => ConservedInTurn
  <2> SUFFICES ASSUME AInv, ~overtaken, NEW x \in 0 .. BufferSize - 1
               PROVE  Cardinality({i \in Entries : x \in Bytes(Blocks[i])})
                      + Cardinality({b \in held \cup InHand \cup lost : x \in Bytes(b)}) = 1
    BY DEF ConservedInTurn, Conserved
  <2> DEFINE E == {i \in Entries : x \in Bytes(Blocks[i])}
             H == {b \in held \cup InHand \cup lost : x \in Bytes(b)}
  <2>1. PICK p \in Places : x \in Region[p]
    BY DEF AInv, Covered
  <2> HIDE DEF Places, Region
  <2>2. /\ \A i \in E : p = <<"table", i>>
        /\ \A b \in H : \/ p \in {<<"held", b>>, <<"lost", b>>}
                        \/ \E t \in Givers : \/ p = <<"hand", t>> /\ b = giving[t].give
                                             \/ p = <<"keep", t>> /\ b \in giving[t].keep
    BY <2>1, ByteOf
  <2>3. (\E i : i \in E) \/ (\E b : b \in H)
    BY <2>1, OwnerOf
  <2>4. \A i, j \in E : i = j
    BY <2>2
  <2>5. \A b, c \in H : b = c
    <3> SUFFICES ASSUME NEW b \in H, NEW c \in H PROVE b = c
      OBVIOUS
    <3>1. CASE p \in {<<"held", b>>, <<"lost", b>>}
      BY <2>2, <3>1
    <3>2. CASE \E t \in Givers : p = <<"hand", t>> /\ b = giving[t].give
      BY <2>2, <3>2
    <3>3. CASE \E t \in Givers : p = <<"keep", t>> /\ b \in giving[t].keep
      <4>1. PICK t \in Givers : p = <<"keep", t>> /\ b \in giving[t].keep
        BY <3>3
      <4>2. c \in giving[t].keep
        BY <2>2, <4>1
      <4> QED
        BY <4>1, <4>2 DEF AInv, MemoryType
    <3> QED
      BY <2>2, <3>1, <3>2, <3>3
  <2>6. E = {} \/ H = {}
    BY <2>2
  <2> HIDE DEF E, H
  <2>7. CASE \E i : i \in E
    <3>1. PICK i : E = {i}
      BY <2>4, <2>7
    <3>2. H = {}
      BY <2>6, <2>7
    <3>3. Cardinality(E) = 1 /\ Cardinality(H) = 0
      BY <3>1, <3>2, FS_EmptySet, FS_Singleton
    <3> QED
      BY <3>3 DEF E, H
  <2>8. CASE \E b : b \in H
    <3>1. PICK b : H = {b}
      BY <2>5, <2>8
    <3>2. E = {}
      BY <2>6, <2>8
    <3>3. Cardinality(E) = 0 /\ Cardinality(H) = 1
      BY <3>1, <3>2, FS_EmptySet, FS_Singleton
    <3> QED
      BY <3>3 DEF E, H
  <2> QED
    BY <2>3, <2>7, <2>8
<1> QED
  BY <1>1, AlwaysInv, PTL
=============================================================================
