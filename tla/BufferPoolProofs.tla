-------------------------- MODULE BufferPoolProofs --------------------------
(***************************************************************************)
(* Theorems about the player's buffers: their counts are the numbers of    *)
(* their owners, and each is in one place.                                 *)
(***************************************************************************)
EXTENDS BufferPool, FiniteSetTheorems, TLAPS

\* What the program counters say of the other variables of a thread.
CallOK(p) ==
    /\ at[p] \in {"try", "tryOnce", "wait", "memory", "fresh", "pooled"} => pool[p] \in Pools
    /\ at[p] \in {"memory", "fresh", "pooled"} =>
           buf[p] \in Buffers /\ pool[p] = PoolOf[buf[p]]
    /\ at[p] \in {"idle", "try", "tryOnce", "wait"} => buf[p] = NoBuffer
    /\ at[p] # "idle" => \A b \in Buffers : stage[p][b] = "none"
    /\ at[p] \in {"incPool", "inc"} => buf[p] \in Buffers /\ holds[p][buf[p]] > 0
    /\ at[p] \in {"incPool", "inc"} /\ host[p] = NoBuffer => holds[p][buf[p]] < MaxRefs
    /\ host[p] # NoBuffer =>
           /\ at[p] \in {"incPool", "inc"}
           /\ holds[p][host[p]] > 0 /\ buf[p] \in attached[host[p]]

CallsOK == \A p \in Procs : CallOK(p)

\* Only attachable buffers are attached, each by one thread at a time.
AttachOK ==
    /\ \A a, b \in Buffers : b \in attached[a] => <<a, b>> \in Attachable
    /\ \A p, r \in Procs : host[p] # NoBuffer /\ host[p] = host[r] /\ buf[p] = buf[r] => p = r

\* A buffer's count is the number of its owners.
CountOK == \A b \in Buffers : IsFiniteSet(Owners(b)) /\ refCount[b] = Cardinality(Owners(b))

\* The places a buffer can be in exclude each other, and there is no other.
InHand(b) == \E p \in Procs : Getting(p, b) \/ Releasing(p, b)

PlaceOK ==
    /\ \A q \in Pools : \A b \in free[q] : PoolOf[b] = q
    /\ \A b \in Buffers :
        /\ b \in free[PoolOf[b]] => b \notin leaked /\ ~InHand(b)
        /\ b \in leaked => ~InHand(b)
        /\ refCount[b] = 0 => b \in free[PoolOf[b]] \/ b \in leaked \/ InHand(b)
    /\ \A p, r \in Procs, b \in Buffers :
        (Getting(p, b) \/ Releasing(p, b)) /\ (Getting(r, b) \/ Releasing(r, b)) => p = r

\* A buffer that is not in use has no references, one that is not in use nor
\* being released no guests.
DeadOK ==
    /\ \A b \in Buffers :
        b \in free[PoolOf[b]] \/ b \in leaked => refCount[b] = 0 /\ attached[b] = {}
    /\ \A p \in Procs, b \in Buffers :
        /\ Getting(p, b) => attached[b] = {}
        /\ Getting(p, b) => refCount[b] = IF at[p] = "pooled" THEN 1 ELSE 0
        /\ Releasing(p, b) => refCount[b] = 0
        /\ stage[p][b] = "free" => attached[b] = {}

PoolInv == TypeOK /\ CallsOK /\ AttachOK /\ CountOK /\ PlaceOK /\ DeadOK

Held(p, k) == [kind |-> "held", who |-> p, n |-> k]
Host(a)    == [kind |-> "host", who |-> a, n |-> 0]
Got(p)     == [kind |-> "got", who |-> p, n |-> 0]
Dropped(p) == [kind |-> "drop", who |-> p, n |-> 0]

---------------------------------------------------------------------------
(* Owners and counts. *)

LEMMA AreOwners ==
    ASSUME NEW b \in Buffers
    PROVE  /\ \A p \in Procs, k \in 1 .. MaxRefs : Held(p, k) \in Owners(b) <=> k <= holds[p][b]
           /\ \A a \in Buffers : Host(a) \in Owners(b) <=> b \in attached[a] /\ ~Attaching(a, b)
           /\ \A p \in Procs : Got(p) \in Owners(b) <=> at[p] = "pooled" /\ buf[p] = b
           /\ \A p \in Procs : Dropped(p) \in Owners(b) <=> stage[p][b] \in {"pool", "count"}
<1>1. ASSUME NEW p \in Procs, NEW k \in 1 .. MaxRefs
      PROVE  Held(p, k) \in Owners(b) <=> k <= holds[p][b]
  <2>1. Held(p, k) \in Owner
    BY DEF Held, Owner
  <2> QED
    BY <2>1 DEF Held, Owners, Owns
<1>2. ASSUME NEW a \in Buffers
      PROVE  Host(a) \in Owners(b) <=> b \in attached[a] /\ ~Attaching(a, b)
  <2>1. Host(a) \in Owner
    BY DEF Host, Owner
  <2> QED
    BY <2>1 DEF Host, Owners, Owns
<1>3. ASSUME NEW p \in Procs
      PROVE  /\ Got(p) \in Owners(b) <=> at[p] = "pooled" /\ buf[p] = b
             /\ Dropped(p) \in Owners(b) <=> stage[p][b] \in {"pool", "count"}
  <2>1. Got(p) \in Owner /\ Dropped(p) \in Owner
    BY DEF Got, Dropped, Owner
  <2> QED
    BY <2>1 DEF Got, Dropped, Owners, Owns
<1> QED
  BY <1>1, <1>2, <1>3

LEMMA AreOwnersNext ==
    ASSUME NEW b \in Buffers
    PROVE  /\ \A p \in Procs, k \in 1 .. MaxRefs : Held(p, k) \in Owners(b)' <=> k <= holds'[p][b]
           /\ \A a \in Buffers : Host(a) \in Owners(b)' <=> b \in attached'[a] /\ ~Attaching(a, b)'
           /\ \A p \in Procs : Got(p) \in Owners(b)' <=> at'[p] = "pooled" /\ buf'[p] = b
           /\ \A p \in Procs : Dropped(p) \in Owners(b)' <=> stage'[p][b] \in {"pool", "count"}
<1>1. ASSUME NEW p \in Procs, NEW k \in 1 .. MaxRefs
      PROVE  Held(p, k) \in Owners(b)' <=> k <= holds'[p][b]
  <2>1. Held(p, k) \in Owner
    BY DEF Held, Owner
  <2> QED
    BY <2>1 DEF Held, Owners, Owns
<1>2. ASSUME NEW a \in Buffers
      PROVE  Host(a) \in Owners(b)' <=> b \in attached'[a] /\ ~Attaching(a, b)'
  <2>1. Host(a) \in Owner
    BY DEF Host, Owner
  <2> QED
    BY <2>1 DEF Host, Owners, Owns
<1>3. ASSUME NEW p \in Procs
      PROVE  /\ Got(p) \in Owners(b)' <=> at'[p] = "pooled" /\ buf'[p] = b
             /\ Dropped(p) \in Owners(b)' <=> stage'[p][b] \in {"pool", "count"}
  <2>1. Got(p) \in Owner /\ Dropped(p) \in Owner
    BY DEF Got, Dropped, Owner
  <2> QED
    BY <2>1 DEF Got, Dropped, Owners, Owns
<1> QED
  BY <1>1, <1>2, <1>3

LEMMA OwnerCases ==
    ASSUME NEW o \in Owner
    PROVE  \/ \E p \in Procs, k \in 1 .. MaxRefs : o = Held(p, k)
           \/ \E a \in Buffers : o = Host(a)
           \/ \E p \in Procs : o = Got(p) \/ o = Dropped(p)
BY DEF Owner, Held, Host, Got, Dropped

LEMMA Counting ==
    ASSUME CountOK, NEW b \in Buffers
    PROVE  /\ refCount[b] \in Nat
           /\ \A o \in Owners(b) : refCount[b] > 0
           /\ \A o1, o2 \in Owners(b) : refCount[b] = 1 => o1 = o2
           /\ refCount[b] = 0 => Owners(b) = {}
<1>1. IsFiniteSet(Owners(b)) /\ refCount[b] = Cardinality(Owners(b))
  BY DEF CountOK
<1>2. refCount[b] \in Nat
  BY <1>1, FS_CardinalityType
<1>3. refCount[b] = 0 => Owners(b) = {}
  BY <1>1, FS_EmptySet
<1>4. refCount[b] = 1 => \E o : Owners(b) = {o}
  BY <1>1, FS_Singleton
<1> QED
  BY <1>2, <1>3, <1>4

\* The count of a buffer follows its owners if one joins, one leaves or one
\* takes the place of another.
LEMMA Joins ==
    ASSUME NEW S, NEW x, x \notin S, IsFiniteSet(S)
    PROVE  IsFiniteSet(S \cup {x}) /\ Cardinality(S \cup {x}) = Cardinality(S) + 1
BY FS_AddElement

LEMMA Leaves ==
    ASSUME NEW S, NEW x \in S, IsFiniteSet(S)
    PROVE  IsFiniteSet(S \ {x}) /\ Cardinality(S \ {x}) = Cardinality(S) - 1
BY FS_RemoveElement

LEMMA Replaces ==
    ASSUME NEW S, NEW x \in S, NEW y, y \notin S, IsFiniteSet(S)
    PROVE  /\ IsFiniteSet((S \ {x}) \cup {y})
           /\ Cardinality((S \ {x}) \cup {y}) = Cardinality(S)
<1>1. IsFiniteSet(S \ {x}) /\ Cardinality(S \ {x}) = Cardinality(S) - 1
  BY Leaves
<1>2. y \notin S \ {x} /\ Cardinality(S) \in Nat
  BY FS_CardinalityType
<1>3. /\ IsFiniteSet((S \ {x}) \cup {y})
      /\ Cardinality((S \ {x}) \cup {y}) = Cardinality(S \ {x}) + 1
  BY <1>1, <1>2, Joins
<1> QED
  BY <1>1, <1>2, <1>3

\* A thread that holds a buffer is one of its owners.
LEMMA HoldersOwn ==
    ASSUME TypeOK, CountOK, NEW p \in Procs, NEW b \in Buffers, holds[p][b] > 0
    PROVE  refCount[b] > 0 /\ Held(p, 1) \in Owners(b)
<1>1. 1 \in 1 .. MaxRefs /\ 1 <= holds[p][b]
  BY RefsAssumption DEF TypeOK
<1> QED
  BY <1>1, AreOwners, Counting

\* A buffer in use is in no hand, ring or leak, unless it was just got.
LEMMA OwnedNotDead ==
    ASSUME PoolInv, NEW b \in Buffers, NEW o \in Owners(b), o.kind # "got"
    PROVE  /\ b \notin free[PoolOf[b]] /\ b \notin leaked /\ ~InHand(b) /\ refCount[b] > 0
<1>1. refCount[b] > 0
  BY Counting DEF PoolInv
<1>2. ASSUME NEW p \in Procs, Getting(p, b) PROVE FALSE
  <2>1. at[p] = "pooled" /\ refCount[b] = 1
    BY <1>1, <1>2 DEF PoolInv, DeadOK
  <2>2. Got(p) \in Owners(b)
    BY <1>2, <2>1, AreOwners DEF PoolInv, Getting
  <2>3. o = Got(p)
    BY <2>1, <2>2, Counting DEF PoolInv
  <2> QED
    BY <2>3 DEF Got
<1> QED
  BY <1>1, <1>2 DEF PoolInv, DeadOK, InHand

---------------------------------------------------------------------------
(* What the updates of the functions of two arguments do. *)

\* One value of a function of two arguments is changed.
LEMMA ChangeOne ==
    ASSUME NEW S, NEW T, NEW V, NEW f \in [S -> [T -> V]],
           NEW x \in S, NEW y \in T, NEW v \in V
    PROVE  /\ [f EXCEPT ![x][y] = v] \in [S -> [T -> V]]
           /\ \A u \in S, w \in T :
                [f EXCEPT ![x][y] = v][u][w] = IF u = x /\ w = y THEN v ELSE f[u][w]
OBVIOUS

StageNames == {"none", "pool", "count", "detach", "free"}

LEMMA Steps ==
    ASSUME TypeOK, NEW p \in Procs, NEW b \in Buffers, NEW l \in StageNames, Step(p, b, l)
    PROVE  /\ stage' \in [Procs -> [Buffers -> StageNames]]
           /\ \A u \in Procs, w \in Buffers :
                stage'[u][w] = IF u = p /\ w = b THEN l ELSE stage[u][w]
<1>1. stage \in [Procs -> [Buffers -> StageNames]]
  BY DEF TypeOK, StageNames
<1> QED
  BY <1>1, ChangeOne, ZenonT(30) DEF Step

LEMMA Holding ==
    ASSUME TypeOK, NEW p \in Procs, NEW b \in Buffers, NEW n \in 0 .. MaxRefs,
           holds' = [holds EXCEPT ![p][b] = n]
    PROVE  /\ holds' \in [Procs -> [Buffers -> 0 .. MaxRefs]]
           /\ \A u \in Procs, w \in Buffers :
                holds'[u][w] = IF u = p /\ w = b THEN n ELSE holds[u][w]
<1>1. holds \in [Procs -> [Buffers -> 0 .. MaxRefs]]
  BY DEF TypeOK
<1> QED
  BY <1>1, ChangeOne, ZenonT(30)

LEMMA Passing ==
    ASSUME TypeOK, NEW p \in Procs, Pass(p)
    PROVE  \E b \in Buffers, r \in Procs :
               /\ p # r /\ Idle(p) /\ Idle(r) /\ holds[p][b] > 0 /\ holds[r][b] < MaxRefs
               /\ holds' \in [Procs -> [Buffers -> 0 .. MaxRefs]]
               /\ \A u \in Procs, w \in Buffers :
                    holds'[u][w] = IF u = p /\ w = b THEN holds[u][w] - 1
                                   ELSE IF u = r /\ w = b THEN holds[u][w] + 1 ELSE holds[u][w]
<1>1. PICK b \in Buffers, r \in Procs :
          /\ p # r /\ Idle(p) /\ Idle(r) /\ holds[p][b] > 0 /\ holds[r][b] < MaxRefs
          /\ holds' = [holds EXCEPT ![p][b] = @ - 1, ![r][b] = @ + 1]
  BY DEF Pass
<1> DEFINE V == 0 .. MaxRefs  m == holds[p][b] - 1  n == holds[r][b] + 1
<1>2. holds \in [Procs -> [Buffers -> V]]
  BY DEF TypeOK
<1>3. m \in V /\ n \in V
  BY <1>1, <1>2, RefsAssumption
<1>4. holds' = [holds EXCEPT ![p][b] = m, ![r][b] = n] /\ p # r
  BY <1>1
<1> HIDE DEF V, m, n
<1>5. /\ holds' \in [Procs -> [Buffers -> V]]
      /\ \A u \in Procs, w \in Buffers :
           holds'[u][w] = IF u = p /\ w = b THEN m ELSE IF u = r /\ w = b THEN n ELSE holds[u][w]
  BY ONLY <1>2, <1>3, <1>4, p \in Procs, r \in Procs, b \in Buffers
<1>6. /\ holds' \in [Procs -> [Buffers -> 0 .. MaxRefs]]
      /\ \A u \in Procs, w \in Buffers :
           holds'[u][w] = IF u = p /\ w = b THEN holds[u][w] - 1
                          ELSE IF u = r /\ w = b THEN holds[u][w] + 1 ELSE holds[u][w]
  BY <1>5 DEF V, m, n
<1> QED
  BY <1>1, <1>6

---------------------------------------------------------------------------
(* Types. *)

LEMMA StepType ==
    ASSUME PoolInv, [Next]_vars
    PROVE  TypeOK'
<1> USE DEF TypeOK, Goto, Return, Add, poolVars, bufferVars, callVars
<1>0. TypeOK /\ CallsOK
  BY DEF PoolInv
<1>1. CASE UNCHANGED vars
  BY <1>0, <1>1 DEF vars
<1>2. ASSUME NEW p \in Procs, GetEnter(p) PROVE TypeOK'
  <2>1. pool' \in [Procs -> Pools \cup {NoPool}] /\ abort' \in [Pools -> BOOLEAN]
    BY <1>0, <1>2 DEF GetEnter
  <2> QED
    BY <1>0, <1>2, <2>1 DEF GetEnter
<1>3. ASSUME NEW p \in Procs, GetTry(p) PROVE TypeOK'
  <2>1. signal' \in [Pools -> BOOLEAN] /\ free' \in [Pools -> SUBSET Buffers]
    <3>1. signal' \in [Pools -> BOOLEAN]
      BY <1>0, <1>3 DEF GetTry
    <3>2. free' = free \/ \E b \in Buffers : free' = [free EXCEPT ![pool[p]] = @ \ {b}]
      <4>1. pool[p] \in Pools
        BY <1>0, <1>3 DEF CallsOK, CallOK, GetTry
      <4> QED
        BY <1>0, <1>3, <4>1 DEF GetTry
    <3> QED
      BY <1>0, <3>1, <3>2, ZenonT(30)
  <2>2. /\ at' \in [Procs -> {"idle", "try", "tryOnce", "wait", "memory", "fresh", "pooled",
                             "incPool", "inc"}]
        /\ pool' \in [Procs -> Pools \cup {NoPool}]
        /\ buf' \in [Procs -> Buffers \cup {NoBuffer}]
        /\ host' \in [Procs -> Buffers \cup {NoBuffer}]
    <3>1. CASE Return(p)
      BY <1>0, <3>1
    <3>2. CASE Goto(p, "memory") /\ UNCHANGED <<pool, host>> /\ \E b \in Buffers : buf' = [buf EXCEPT ![p] = b]
      BY <1>0, <3>2
    <3>3. CASE Goto(p, "wait") /\ UNCHANGED <<pool, buf, host>>
      BY <1>0, <3>3
    <3> QED
      <4>1. CASE CallOK(p)
        BY <1>0, <1>3, <3>1, <3>2, <3>3, <4>1 DEF GetTry, CallOK
      <4> QED
        BY <1>0, <4>1 DEF CallsOK
  <2> QED
    BY <1>0, <1>3, <2>1, <2>2 DEF GetTry
<1>4. ASSUME NEW p \in Procs, GetWoken(p) \/ GetTimeout(p) PROVE TypeOK'
  BY <1>0, <1>4 DEF GetWoken, GetTimeout, GetResume
<1>5. ASSUME NEW p \in Procs, GetMemory(p) PROVE TypeOK'
  <2>1. buf[p] \in Buffers
    BY <1>0, <1>5 DEF CallsOK, CallOK, GetMemory
  <2>2. CASE Goto(p, "fresh") /\ UNCHANGED <<pool, buf, host, leaked>>
    BY <1>0, <1>5, <2>2 DEF GetMemory
  <2>3. CASE leaked' = leaked \cup {buf[p]} /\ Return(p)
    BY <1>0, <1>5, <2>1, <2>3 DEF GetMemory
  <2> QED
    BY <1>5, <2>2, <2>3 DEF GetMemory
<1>6. ASSUME NEW p \in Procs, GetFresh(p) PROVE TypeOK'
  BY <1>0, <1>6 DEF GetFresh
<1>7. ASSUME NEW p \in Procs, GetPooled(p) PROVE TypeOK'
  <2>1. buf[p] \in Buffers /\ refCount[buf[p]] = 1
    BY <1>0, <1>7 DEF GetPooled, CallsOK, CallOK, PoolInv, DeadOK, Getting
  <2>2. holds[p][buf[p]] = 0
    <3>1. Got(p) \in Owners(buf[p])
      BY <1>7, <2>1, AreOwners DEF GetPooled, PoolInv
    <3>2. ASSUME holds[p][buf[p]] > 0 PROVE FALSE
      <4>1. Held(p, 1) \in Owners(buf[p])
        BY <2>1, <3>2, HoldersOwn DEF PoolInv
      <4>2. Got(p) = Held(p, 1)
        BY <2>1, <3>1, <4>1, Counting DEF PoolInv
      <4> QED
        BY <4>2 DEF Got, Held
    <3> QED
      BY <1>0, <2>1, <3>2
  <2>3. 1 \in 0 .. MaxRefs /\ holds' = [holds EXCEPT ![p][buf[p]] = 1]
    BY <1>7, <2>2, RefsAssumption DEF GetPooled, Gain
  <2>4. holds' \in [Procs -> [Buffers -> 0 .. MaxRefs]]
    BY <1>0, <2>1, <2>3, Holding, Zenon
  <2>5. poolRefs' \in [Pools -> Int] /\ referenced' \in [Pools -> Int]
    BY <1>0, <1>7, <2>1, PoolAssumption DEF GetPooled, CallsOK, CallOK
  <2> QED
    BY <1>0, <1>7, <2>4, <2>5 DEF GetPooled
<1>8. ASSUME NEW q \in Pools, Abort(q) PROVE TypeOK'
  BY <1>0, <1>8 DEF Abort
<1>9. ASSUME NEW p \in Procs, IncrementCall(p) PROVE TypeOK'
  BY <1>0, <1>9 DEF IncrementCall
<1>10. ASSUME NEW p \in Procs, AttachCall(p) PROVE TypeOK'
  BY <1>0, <1>10 DEF AttachCall
<1>11. ASSUME NEW p \in Procs, IncrementPool(p) PROVE TypeOK'
  <2>1. poolRefs' \in [Pools -> Int]
    <3>1. PoolOf[buf[p]] \in Pools
      BY <1>0, <1>11, PoolAssumption DEF IncrementPool, CallsOK, CallOK
    <3> QED
      BY <1>0, <1>11, <3>1 DEF IncrementPool
  <2> QED
    BY <1>0, <1>11, <2>1 DEF IncrementPool
<1>12. ASSUME NEW p \in Procs, IncrementCount(p) PROVE TypeOK'
  <2>1. buf[p] \in Buffers /\ (host[p] = NoBuffer => holds[p][buf[p]] < MaxRefs)
    BY <1>0, <1>12 DEF CallsOK, CallOK, IncrementCount
  <2>2. holds' \in [Procs -> [Buffers -> 0 .. MaxRefs]]
    <3>1. CASE host[p] = NoBuffer
      <4>1. PICK n \in 0 .. MaxRefs : n = holds[p][buf[p]] + 1
        BY <1>0, <2>1, <3>1, RefsAssumption
      <4>2. holds' = [holds EXCEPT ![p][buf[p]] = n]
        BY <1>12, <3>1, <4>1 DEF IncrementCount, Gain
      <4> QED
        BY <1>0, <2>1, <4>2, Holding, Zenon
    <3> QED
      BY <1>0, <1>12, <3>1 DEF IncrementCount
  <2>3. refCount' \in [Buffers -> Nat]
    BY <1>0, <1>12, <2>1 DEF IncrementCount
  <2>4. /\ at' \in [Procs -> {"idle", "try", "tryOnce", "wait", "memory", "fresh", "pooled",
                             "incPool", "inc"}]
        /\ pool' \in [Procs -> Pools \cup {NoPool}]
        /\ buf' \in [Procs -> Buffers \cup {NoBuffer}]
        /\ host' \in [Procs -> Buffers \cup {NoBuffer}]
    BY <1>0, <1>12 DEF IncrementCount
  <2> QED
    BY <1>0, <1>12, <2>2, <2>3, <2>4 DEF IncrementCount
<1>13. ASSUME NEW p \in Procs, DecrementCall(p) PROVE TypeOK'
  <2>1. PICK b \in Buffers : holds[p][b] > 0 /\ Give(p, b) /\ Step(p, b, "pool")
    BY <1>13 DEF DecrementCall
  <2>2. PICK n \in 0 .. MaxRefs : n = holds[p][b] - 1
    BY <1>0, <2>1, RefsAssumption
  <2>3. holds' = [holds EXCEPT ![p][b] = n]
    BY <2>1, <2>2 DEF Give
  <2>4. holds' \in [Procs -> [Buffers -> 0 .. MaxRefs]]
    BY <1>0, <2>3, Holding, Zenon
  <2>5. stage' \in [Procs -> [Buffers -> StageNames]]
    BY <1>0, <2>1, Steps DEF StageNames
  <2> QED
    BY <1>0, <1>13, <2>4, <2>5 DEF DecrementCall, StageNames
<1>14. ASSUME NEW p \in Procs, DetachCall(p) PROVE TypeOK'
  <2>1. stage' \in [Procs -> [Buffers -> StageNames]]
    BY <1>0, <1>14, Steps DEF StageNames, DetachCall
  <2> QED
    BY <1>0, <1>14, <2>1 DEF DetachCall, StageNames
<1>15. ASSUME NEW p \in Procs, NEW b \in Buffers, DecrementPool(p, b) PROVE TypeOK'
  <2>1. stage' \in [Procs -> [Buffers -> StageNames]]
    BY <1>0, <1>15, Steps DEF StageNames, DecrementPool
  <2>2. poolRefs' \in [Pools -> Int]
    BY <1>0, <1>15, PoolAssumption DEF DecrementPool
  <2> QED
    BY <1>0, <1>15, <2>1, <2>2 DEF DecrementPool, StageNames
<1>16. ASSUME NEW p \in Procs, NEW b \in Buffers, DecrementCount(p, b) PROVE TypeOK'
  <2>1. stage' \in [Procs -> [Buffers -> StageNames]]
    BY <1>0, <1>16, Steps DEF StageNames, DecrementCount
  <2>2. refCount[b] > 0
    BY <1>0, <1>16, AreOwners, Counting DEF DecrementCount, PoolInv
  <2>3. refCount' \in [Buffers -> Nat]
    BY <1>0, <1>16, <2>2 DEF DecrementCount
  <2> QED
    BY <1>0, <1>16, <2>1, <2>3 DEF DecrementCount, StageNames
<1>17. ASSUME NEW p \in Procs, NEW b \in Buffers, ReleaseAttached(p, b) PROVE TypeOK'
  <2>1. stage' \in [Procs -> [Buffers -> StageNames]]
    BY <1>0, <1>17, Steps DEF StageNames, ReleaseAttached
  <2>2. attached' \in [Buffers -> SUBSET Buffers]
    <3>1. CASE UNCHANGED attached
      BY <1>0, <3>1
    <3>2. CASE \E c \in Buffers : attached' = [attached EXCEPT ![b] = @ \ {c}]
      BY <1>0, <3>2
    <3> QED
      BY <1>0, <1>17, <3>1, <3>2 DEF ReleaseAttached
  <2> QED
    BY <1>0, <1>17, <2>1, <2>2 DEF ReleaseAttached, StageNames
<1>18. ASSUME NEW p \in Procs, NEW b \in Buffers, ReleaseInsert(p, b) PROVE TypeOK'
  <2>1. stage' \in [Procs -> [Buffers -> StageNames]]
    BY <1>0, <1>18, Steps DEF StageNames, ReleaseInsert
  <2>2. referenced' \in [Pools -> Int] /\ free' \in [Pools -> SUBSET Buffers]
    <3>1. referenced' \in [Pools -> Int]
      BY <1>0, <1>18, PoolAssumption DEF ReleaseInsert
    <3>2. free' \in [Pools -> SUBSET Buffers]
      BY <1>0, <1>18 DEF ReleaseInsert
    <3> QED
      BY <3>1, <3>2
  <2> QED
    BY <1>0, <1>18, <2>1, <2>2 DEF ReleaseInsert, StageNames
<1>19. ASSUME NEW p \in Procs, Pass(p) PROVE TypeOK'
  <2>1. holds' \in [Procs -> [Buffers -> 0 .. MaxRefs]]
    BY <1>0, <1>19, Passing
  <2> QED
    BY <1>0, <1>19, <2>1 DEF Pass
<1> QED
  BY <1>1, <1>2, <1>3, <1>4, <1>5, <1>6, <1>7, <1>8, <1>9, <1>10, <1>11, <1>12, <1>13,
     <1>14, <1>15, <1>16, <1>17, <1>18, <1>19 DEF Next, Use, Get, Inc, Drop

---------------------------------------------------------------------------
(* Calls in progress. *)

LEMMA CallKept ==
    ASSUME TypeOK, NEW u \in Procs, CallOK(u),
           at'[u] = at[u], pool'[u] = pool[u], buf'[u] = buf[u], host'[u] = host[u],
           \A b \in Buffers : stage'[u][b] = stage[u][b] /\ holds'[u][b] = holds[u][b],
           host[u] # NoBuffer => buf[u] \in attached'[host[u]]
    PROVE  CallOK(u)'
BY DEF CallOK, TypeOK

LEMMA Resumed ==
    ASSUME TypeOK, NEW p \in Procs, CallOK(p), GetWoken(p) \/ GetTimeout(p)
    PROVE  UNCHANGED <<buf, host, stage, holds, refCount, attached>>
<1>1. at[p] = "wait" /\ buf[p] = NoBuffer /\ host[p] = NoBuffer
  BY DEF GetWoken, GetTimeout, CallOK
<1>2. /\ \/ buf' = buf /\ host' = host
         \/ buf' = [buf EXCEPT ![p] = NoBuffer] /\ host' = [host EXCEPT ![p] = NoBuffer]
      /\ UNCHANGED <<stage, holds, refCount, attached>>
  BY DEF GetWoken, GetTimeout, GetResume, Return, bufferVars
<1>3. buf \in [Procs -> Buffers \cup {NoBuffer}] /\ host \in [Procs -> Buffers \cup {NoBuffer}]
  BY DEF TypeOK
<1> QED
  BY <1>1, <1>2, <1>3

LEMMA StepCalls ==
    ASSUME PoolInv, [Next]_vars
    PROVE  CallsOK'
<1> USE DEF Goto, Return
<1>0. /\ TypeOK /\ \A u \in Procs : CallOK(u)
      /\ \A u \in Procs : host[u] # NoBuffer => buf[u] \in attached[host[u]]
      /\ \A u \in Procs : host[u] \in Buffers \cup {NoBuffer} /\ buf[u] \in Buffers \cup {NoBuffer}
  BY DEF PoolInv, CallsOK, CallOK, TypeOK
<1>a. ASSUME NEW p \in Procs,
             \A u \in Procs \ {p} :
                 /\ at'[u] = at[u] /\ pool'[u] = pool[u] /\ buf'[u] = buf[u] /\ host'[u] = host[u]
                 /\ \A b \in Buffers : stage'[u][b] = stage[u][b] /\ holds'[u][b] = holds[u][b]
                 /\ host[u] # NoBuffer => buf[u] \in attached'[host[u]],
             CallOK(p)'
      PROVE  CallsOK'
  BY <1>0, <1>a, CallKept DEF CallsOK
<1>1. CASE UNCHANGED vars
  BY <1>0, <1>1 DEF vars, CallsOK, CallOK, bufferVars, callVars
<1>2. ASSUME NEW p \in Procs, GetEnter(p) PROVE CallsOK'
  <2>a. \A u \in Procs \ {p} :
           /\ at'[u] = at[u] /\ pool'[u] = pool[u] /\ buf'[u] = buf[u] /\ host'[u] = host[u]
           /\ \A b \in Buffers : stage'[u][b] = stage[u][b] /\ holds'[u][b] = holds[u][b]
           /\ host[u] # NoBuffer => buf[u] \in attached'[host[u]]
    BY <1>0, <1>2 DEF GetEnter, TypeOK, poolVars, bufferVars, callVars
  <2>b. CallOK(p)'
    <3>1. PICK q \in Pools : pool' = [pool EXCEPT ![p] = q]
      BY <1>2 DEF GetEnter
    <3>2. pool'[p] \in Pools /\ buf'[p] = NoBuffer /\ host'[p] = NoBuffer
      <4>1. at[p] = "idle" /\ buf' = buf /\ host' = host
        BY <1>2 DEF GetEnter, Idle
      <4>2. buf[p] = NoBuffer /\ host[p] = NoBuffer
        BY <1>0, <4>1 DEF CallOK
      <4>3. pool'[p] = q
        BY <1>0, <3>1 DEF TypeOK
      <4> QED
        BY <4>1, <4>2, <4>3
    <3>3. \A b \in Buffers : stage'[p][b] = "none"
      BY <1>2 DEF GetEnter, Idle
    <3>4. at'[p] \in {"try", "tryOnce"}
      BY <1>0, <1>2 DEF GetEnter, TypeOK
    <3> QED
      BY <3>2, <3>3, <3>4 DEF CallOK
  <2> QED
    BY <2>a, <2>b, <1>a
<1>3. ASSUME NEW p \in Procs, GetTry(p) PROVE CallsOK'
  <2>1. pool[p] \in Pools /\ \A b \in free[pool[p]] : PoolOf[b] = pool[p]
    BY <1>0, <1>3 DEF GetTry, CallOK, PoolInv, PlaceOK
  <2>a. \A u \in Procs \ {p} :
           /\ at'[u] = at[u] /\ pool'[u] = pool[u] /\ buf'[u] = buf[u] /\ host'[u] = host[u]
           /\ \A b \in Buffers : stage'[u][b] = stage[u][b] /\ holds'[u][b] = holds[u][b]
           /\ host[u] # NoBuffer => buf[u] \in attached'[host[u]]
    BY <1>0, <1>3, <2>1 DEF GetTry, TypeOK, poolVars, bufferVars, callVars
  <2>b. CallOK(p)'
    BY <1>0, <1>3, <2>1, SMTT(30) DEF GetTry, TypeOK, CallOK, Idle, poolVars, bufferVars, callVars
  <2> QED
    BY <2>a, <2>b, <1>a
<1>4. ASSUME NEW p \in Procs, GetWoken(p) \/ GetTimeout(p) PROVE CallsOK'
  <2>a. \A u \in Procs \ {p} :
           /\ at'[u] = at[u] /\ pool'[u] = pool[u] /\ buf'[u] = buf[u] /\ host'[u] = host[u]
           /\ \A b \in Buffers : stage'[u][b] = stage[u][b] /\ holds'[u][b] = holds[u][b]
           /\ host[u] # NoBuffer => buf[u] \in attached'[host[u]]
    BY <1>0, <1>4 DEF GetWoken, GetTimeout, GetResume, TypeOK, poolVars, bufferVars, callVars
  <2>b. CallOK(p)'
    <3>1. UNCHANGED <<buf, host, stage, holds, attached>>
      BY <1>0, <1>4, Resumed
    <3>2. /\ at[p] = "wait" /\ at'[p] \in {"try", "idle"}
          /\ at'[p] = "try" => pool'[p] = pool[p]
      BY <1>0, <1>4 DEF GetWoken, GetTimeout, GetResume, TypeOK
    <3> QED
      BY <1>0, <3>1, <3>2 DEF CallOK
  <2> QED
    BY <2>a, <2>b, <1>a
<1>5. ASSUME NEW p \in Procs, GetMemory(p) PROVE CallsOK'
  <2>a. \A u \in Procs \ {p} :
           /\ at'[u] = at[u] /\ pool'[u] = pool[u] /\ buf'[u] = buf[u] /\ host'[u] = host[u]
           /\ \A b \in Buffers : stage'[u][b] = stage[u][b] /\ holds'[u][b] = holds[u][b]
           /\ host[u] # NoBuffer => buf[u] \in attached'[host[u]]
    BY <1>0, <1>5 DEF GetMemory, TypeOK, poolVars, bufferVars, callVars
  <2>b. CallOK(p)'
    <3>1. at[p] = "memory" /\ UNCHANGED <<stage, holds, attached>>
      BY <1>5 DEF GetMemory, bufferVars
    <3>2. CASE Return(p)
      BY <1>0, <3>1, <3>2 DEF CallOK, TypeOK
    <3>3. CASE Goto(p, "fresh") /\ UNCHANGED <<pool, buf, host>>
      <4>1. at'[p] = "fresh"
        BY <1>0, <3>3 DEF TypeOK
      <4> QED
        BY <1>0, <3>1, <3>3, <4>1 DEF CallOK
    <3> QED
      BY <1>5, <3>2, <3>3 DEF GetMemory
  <2> QED
    BY <2>a, <2>b, <1>a
<1>6. ASSUME NEW p \in Procs, GetFresh(p) PROVE CallsOK'
  <2>1. buf[p] \in Buffers /\ attached[buf[p]] = {}
    BY <1>0, <1>6 DEF GetFresh, CallOK, PoolInv, DeadOK, Getting
  <2>a. \A u \in Procs \ {p} :
           /\ at'[u] = at[u] /\ pool'[u] = pool[u] /\ buf'[u] = buf[u] /\ host'[u] = host[u]
           /\ \A b \in Buffers : stage'[u][b] = stage[u][b] /\ holds'[u][b] = holds[u][b]
           /\ host[u] # NoBuffer => buf[u] \in attached'[host[u]]
    BY <1>0, <1>6, <2>1 DEF GetFresh, TypeOK, poolVars, bufferVars, callVars
  <2>b. CallOK(p)'
    <3>1. at[p] = "fresh" /\ at'[p] = "pooled" /\ UNCHANGED <<pool, buf, host, stage, holds>>
      BY <1>0, <1>6 DEF GetFresh, TypeOK
    <3> QED
      BY <1>0, <2>1, <3>1, NoneAssumption DEF CallOK
  <2> QED
    BY <2>a, <2>b, <1>a
<1>7. ASSUME NEW p \in Procs, GetPooled(p) PROVE CallsOK'
  <2>1. buf[p] \in Buffers
    BY <1>0, <1>7 DEF GetPooled, CallOK
  <2>a. \A u \in Procs \ {p} :
           /\ at'[u] = at[u] /\ pool'[u] = pool[u] /\ buf'[u] = buf[u] /\ host'[u] = host[u]
           /\ \A b \in Buffers : stage'[u][b] = stage[u][b] /\ holds'[u][b] = holds[u][b]
           /\ host[u] # NoBuffer => buf[u] \in attached'[host[u]]
    BY <1>0, <1>7, <2>1 DEF GetPooled, Gain, TypeOK, poolVars, bufferVars, callVars
  <2>b. CallOK(p)'
    BY <1>0, <1>7, <2>1 DEF GetPooled, Gain, TypeOK, CallOK, Idle, poolVars, bufferVars, callVars
  <2> QED
    BY <2>a, <2>b, <1>a
<1>8. ASSUME NEW q \in Pools, Abort(q) PROVE CallsOK'
  BY <1>0, <1>8 DEF Abort, CallsOK, CallOK, bufferVars, callVars
<1>9. ASSUME NEW p \in Procs, IncrementCall(p) PROVE CallsOK'
  <2>1. PICK b \in Buffers : /\ holds[p][b] \in 1 .. MaxRefs - 1
                             /\ buf' = [buf EXCEPT ![p] = b]
    BY <1>9 DEF IncrementCall
  <2>a. \A u \in Procs \ {p} :
           /\ at'[u] = at[u] /\ pool'[u] = pool[u] /\ buf'[u] = buf[u] /\ host'[u] = host[u]
           /\ \A c \in Buffers : stage'[u][c] = stage[u][c] /\ holds'[u][c] = holds[u][c]
           /\ host[u] # NoBuffer => buf[u] \in attached'[host[u]]
    BY <1>0, <1>9, <2>1 DEF IncrementCall, TypeOK, poolVars, bufferVars, callVars
  <2>b. CallOK(p)'
    BY <1>0, <1>9, <2>1, NoneAssumption, RefsAssumption DEF IncrementCall, TypeOK, CallOK, Idle, poolVars, bufferVars, callVars
  <2> QED
    BY <2>a, <2>b, <1>a
<1>10. ASSUME NEW p \in Procs, AttachCall(p) PROVE CallsOK'
  <2>1. PICK a \in Buffers, b \in Buffers :
            /\ holds[p][a] > 0 /\ holds[p][b] > 0
            /\ attached' = [attached EXCEPT ![a] = @ \cup {b}]
            /\ buf' = [buf EXCEPT ![p] = b] /\ host' = [host EXCEPT ![p] = a]
    BY <1>10 DEF AttachCall
  <2>a. \A u \in Procs \ {p} :
           /\ at'[u] = at[u] /\ pool'[u] = pool[u] /\ buf'[u] = buf[u] /\ host'[u] = host[u]
           /\ \A c \in Buffers : stage'[u][c] = stage[u][c] /\ holds'[u][c] = holds[u][c]
           /\ host[u] # NoBuffer => buf[u] \in attached'[host[u]]
    BY <1>0, <1>10, <2>1 DEF AttachCall, TypeOK, poolVars, bufferVars, callVars
  <2>b. CallOK(p)'
    BY <1>0, <1>10, <2>1, NoneAssumption DEF AttachCall, TypeOK, CallOK, Idle, poolVars, bufferVars, callVars
  <2> QED
    BY <2>a, <2>b, <1>a
<1>11. ASSUME NEW p \in Procs, IncrementPool(p) PROVE CallsOK'
  <2>a. \A u \in Procs \ {p} :
           /\ at'[u] = at[u] /\ pool'[u] = pool[u] /\ buf'[u] = buf[u] /\ host'[u] = host[u]
           /\ \A b \in Buffers : stage'[u][b] = stage[u][b] /\ holds'[u][b] = holds[u][b]
           /\ host[u] # NoBuffer => buf[u] \in attached'[host[u]]
    BY <1>0, <1>11 DEF IncrementPool, TypeOK, poolVars, bufferVars, callVars
  <2>b. CallOK(p)'
    <3>1. at[p] = "incPool" /\ at'[p] = "inc" /\ UNCHANGED <<pool, buf, host, stage, holds, attached>>
      BY <1>0, <1>11 DEF IncrementPool, TypeOK, bufferVars
    <3> QED
      BY <1>0, <3>1 DEF CallOK
  <2> QED
    BY <2>a, <2>b, <1>a
<1>12. ASSUME NEW p \in Procs, IncrementCount(p) PROVE CallsOK'
  <2>1. buf[p] \in Buffers
    BY <1>0, <1>12 DEF IncrementCount, CallOK
  <2>a. \A u \in Procs \ {p} :
           /\ at'[u] = at[u] /\ pool'[u] = pool[u] /\ buf'[u] = buf[u] /\ host'[u] = host[u]
           /\ \A b \in Buffers : stage'[u][b] = stage[u][b] /\ holds'[u][b] = holds[u][b]
           /\ host[u] # NoBuffer => buf[u] \in attached'[host[u]]
    BY <1>0, <1>12, <2>1 DEF IncrementCount, Gain, TypeOK, poolVars, bufferVars, callVars
  <2>b. CallOK(p)'
    BY <1>0, <1>12, <2>1 DEF IncrementCount, Gain, TypeOK, CallOK, Idle, poolVars, bufferVars, callVars
  <2> QED
    BY <2>a, <2>b, <1>a
<1>13. ASSUME NEW p \in Procs, DecrementCall(p) PROVE CallsOK'
  <2>1. PICK b \in Buffers : Give(p, b) /\ Step(p, b, "pool")
    BY <1>13 DEF DecrementCall
  <2>a. \A u \in Procs \ {p} :
           /\ at'[u] = at[u] /\ pool'[u] = pool[u] /\ buf'[u] = buf[u] /\ host'[u] = host[u]
           /\ \A c \in Buffers : stage'[u][c] = stage[u][c] /\ holds'[u][c] = holds[u][c]
           /\ host[u] # NoBuffer => buf[u] \in attached'[host[u]]
    BY <1>0, <1>13, <2>1 DEF DecrementCall, Give, Step, TypeOK, poolVars, bufferVars, callVars
  <2>b. CallOK(p)'
    BY <1>0, <1>13, <2>1 DEF DecrementCall, Give, Step, TypeOK, CallOK, Idle, poolVars, bufferVars, callVars
  <2> QED
    BY <2>a, <2>b, <1>a
<1>14. ASSUME NEW p \in Procs, DetachCall(p) PROVE CallsOK'
  <2>1. PICK a \in Buffers, b \in Buffers :
            /\ ~Attaching(a, b) /\ attached' = [attached EXCEPT ![a] = @ \ {b}]
            /\ Step(p, b, "pool")
    BY <1>14 DEF DetachCall
  <2>2. \A u \in Procs : ~(host[u] = a /\ buf[u] = b)
    BY <2>1 DEF Attaching
  <2>a. \A u \in Procs \ {p} :
           /\ at'[u] = at[u] /\ pool'[u] = pool[u] /\ buf'[u] = buf[u] /\ host'[u] = host[u]
           /\ \A c \in Buffers : stage'[u][c] = stage[u][c] /\ holds'[u][c] = holds[u][c]
           /\ host[u] # NoBuffer => buf[u] \in attached'[host[u]]
    BY <1>0, <1>14, <2>1, <2>2 DEF DetachCall, Step, TypeOK, poolVars, bufferVars, callVars
  <2>b. CallOK(p)'
    BY <1>0, <1>14, <2>1, <2>2 DEF DetachCall, Step, TypeOK, CallOK, Idle, poolVars, bufferVars, callVars
  <2> QED
    BY <2>a, <2>b, <1>a
<1>15. ASSUME NEW p \in Procs, NEW b \in Buffers, DecrementPool(p, b) PROVE CallsOK'
  <2>a. \A u \in Procs \ {p} :
           /\ at'[u] = at[u] /\ pool'[u] = pool[u] /\ buf'[u] = buf[u] /\ host'[u] = host[u]
           /\ \A c \in Buffers : stage'[u][c] = stage[u][c] /\ holds'[u][c] = holds[u][c]
           /\ host[u] # NoBuffer => buf[u] \in attached'[host[u]]
    BY <1>0, <1>15 DEF DecrementPool, Step, TypeOK, poolVars, bufferVars, callVars
  <2>b. CallOK(p)'
    BY <1>0, <1>15 DEF DecrementPool, Step, TypeOK, CallOK, Idle, poolVars, bufferVars, callVars
  <2> QED
    BY <2>a, <2>b, <1>a
<1>16. ASSUME NEW p \in Procs, NEW b \in Buffers, DecrementCount(p, b) PROVE CallsOK'
  <2>a. \A u \in Procs \ {p} :
           /\ at'[u] = at[u] /\ pool'[u] = pool[u] /\ buf'[u] = buf[u] /\ host'[u] = host[u]
           /\ \A c \in Buffers : stage'[u][c] = stage[u][c] /\ holds'[u][c] = holds[u][c]
           /\ host[u] # NoBuffer => buf[u] \in attached'[host[u]]
    BY <1>0, <1>16 DEF DecrementCount, Step, TypeOK, poolVars, bufferVars, callVars
  <2>b. CallOK(p)'
    BY <1>0, <1>16 DEF DecrementCount, Step, TypeOK, CallOK, Idle, poolVars, bufferVars, callVars
  <2> QED
    BY <2>a, <2>b, <1>a
<1>17. ASSUME NEW p \in Procs, NEW b \in Buffers, ReleaseAttached(p, b) PROVE CallsOK'
  <2>1. \A r \in Procs : ~(holds[r][b] > 0)
    <3>1. refCount[b] = 0
      BY <1>17 DEF ReleaseAttached, PoolInv, DeadOK, Releasing
    <3> QED
      BY <3>1, HoldersOwn DEF PoolInv
  <2>2. \A u \in Procs : host[u] # b
    BY <1>0, <2>1, NoneAssumption DEF CallOK
  <2>a. \A u \in Procs \ {p} :
           /\ at'[u] = at[u] /\ pool'[u] = pool[u] /\ buf'[u] = buf[u] /\ host'[u] = host[u]
           /\ \A c \in Buffers : stage'[u][c] = stage[u][c] /\ holds'[u][c] = holds[u][c]
           /\ host[u] # NoBuffer => buf[u] \in attached'[host[u]]
    BY <1>0, <1>17, <2>2 DEF ReleaseAttached, Step, TypeOK, poolVars, bufferVars, callVars
  <2>b. CallOK(p)'
    BY <1>0, <1>17, <2>2 DEF ReleaseAttached, Step, TypeOK, CallOK, Idle, poolVars, bufferVars, callVars
  <2> QED
    BY <2>a, <2>b, <1>a
<1>18. ASSUME NEW p \in Procs, NEW b \in Buffers, ReleaseInsert(p, b) PROVE CallsOK'
  <2>a. \A u \in Procs \ {p} :
           /\ at'[u] = at[u] /\ pool'[u] = pool[u] /\ buf'[u] = buf[u] /\ host'[u] = host[u]
           /\ \A c \in Buffers : stage'[u][c] = stage[u][c] /\ holds'[u][c] = holds[u][c]
           /\ host[u] # NoBuffer => buf[u] \in attached'[host[u]]
    BY <1>0, <1>18 DEF ReleaseInsert, Step, TypeOK, poolVars, bufferVars, callVars
  <2>b. CallOK(p)'
    BY <1>0, <1>18 DEF ReleaseInsert, Step, TypeOK, CallOK, Idle, poolVars, bufferVars, callVars
  <2> QED
    BY <2>a, <2>b, <1>a
<1>19. ASSUME NEW p \in Procs, Pass(p) PROVE CallsOK'
  <2>1. PICK b \in Buffers, r \in Procs :
            /\ Idle(p) /\ Idle(r)
            /\ \A u \in Procs, w \in Buffers :
                    holds'[u][w] = IF u = p /\ w = b THEN holds[u][w] - 1
                                   ELSE IF u = r /\ w = b THEN holds[u][w] + 1 ELSE holds[u][w]
    BY <1>0, <1>19, Passing
  <2>2. ASSUME NEW u \in Procs \ {p, r} PROVE CallOK(u)'
    BY <1>0, <1>19, <2>1, <2>2, CallKept DEF Pass, bufferVars, callVars
  <2>3. ASSUME NEW u \in {p, r} PROVE CallOK(u)'
    BY <1>0, <1>19, <2>1, <2>3, SMTT(30) DEF CallOK, Idle, Pass, bufferVars, callVars, TypeOK
  <2> QED
    BY <2>2, <2>3 DEF CallsOK
<1> QED
  BY <1>1, <1>2, <1>3, <1>4, <1>5, <1>6, <1>7, <1>8, <1>9, <1>10, <1>11, <1>12, <1>13,
     <1>14, <1>15, <1>16, <1>17, <1>18, <1>19 DEF Next, Use, Get, Inc, Drop

---------------------------------------------------------------------------
(* Attachments. *)

LEMMA AttachKept ==
    ASSUME AttachOK, NoBuffer \notin Buffers,
           \A a \in Buffers : attached'[a] \subseteq attached[a],
           \A u \in Procs : \/ host'[u] = NoBuffer
                            \/ host'[u] = host[u] /\ buf'[u] = buf[u]
    PROVE  AttachOK'
BY DEF AttachOK

LEMMA StepAttach ==
    ASSUME PoolInv, [Next]_vars
    PROVE  AttachOK'
<1> USE DEF Goto, Return
<1>0. TypeOK /\ AttachOK /\ NoBuffer \notin Buffers /\ \A u \in Procs : CallOK(u)
  BY NoneAssumption DEF PoolInv, CallsOK
<1>1. CASE UNCHANGED vars
  BY <1>0, <1>1, AttachKept DEF vars, bufferVars, callVars
<1>2. ASSUME NEW p \in Procs, GetEnter(p) PROVE AttachOK'
  <2>1. \A a \in Buffers : attached'[a] \subseteq attached[a]
    BY <1>0, <1>2 DEF GetEnter, bufferVars, TypeOK
  <2>2. \A u \in Procs : \/ host'[u] = NoBuffer
                         \/ host'[u] = host[u] /\ buf'[u] = buf[u]
    BY <1>0, <1>2 DEF GetEnter, callVars, TypeOK, CallOK, Idle
  <2> QED
    BY <1>0, <2>1, <2>2, AttachKept
<1>3. ASSUME NEW p \in Procs, GetTry(p) PROVE AttachOK'
  <2>1. \A a \in Buffers : attached'[a] \subseteq attached[a]
    BY <1>0, <1>3 DEF GetTry, bufferVars, TypeOK
  <2>2. \A u \in Procs : \/ host'[u] = NoBuffer
                         \/ host'[u] = host[u] /\ buf'[u] = buf[u]
    BY <1>0, <1>3 DEF GetTry, callVars, TypeOK, CallOK, Idle
  <2> QED
    BY <1>0, <2>1, <2>2, AttachKept
<1>4. ASSUME NEW p \in Procs, GetWoken(p) \/ GetTimeout(p) PROVE AttachOK'
  BY <1>0, <1>4, AttachKept, Resumed
<1>5. ASSUME NEW p \in Procs, GetMemory(p) PROVE AttachOK'
  <2>1. \A a \in Buffers : attached'[a] \subseteq attached[a]
    BY <1>0, <1>5 DEF GetMemory, bufferVars, TypeOK
  <2>2. \A u \in Procs : \/ host'[u] = NoBuffer
                         \/ host'[u] = host[u] /\ buf'[u] = buf[u]
    BY <1>0, <1>5 DEF GetMemory, callVars, TypeOK, CallOK, Idle
  <2> QED
    BY <1>0, <2>1, <2>2, AttachKept
<1>6. ASSUME NEW p \in Procs, GetFresh(p) PROVE AttachOK'
  <2>1. \A a \in Buffers : attached'[a] \subseteq attached[a]
    BY <1>0, <1>6 DEF GetFresh, bufferVars, TypeOK
  <2>2. \A u \in Procs : \/ host'[u] = NoBuffer
                         \/ host'[u] = host[u] /\ buf'[u] = buf[u]
    BY <1>0, <1>6 DEF GetFresh, callVars, TypeOK, CallOK, Idle
  <2> QED
    BY <1>0, <2>1, <2>2, AttachKept
<1>7. ASSUME NEW p \in Procs, GetPooled(p) PROVE AttachOK'
  <2>1. \A a \in Buffers : attached'[a] \subseteq attached[a]
    BY <1>0, <1>7 DEF GetPooled, bufferVars, TypeOK
  <2>2. \A u \in Procs : \/ host'[u] = NoBuffer
                         \/ host'[u] = host[u] /\ buf'[u] = buf[u]
    BY <1>0, <1>7 DEF GetPooled, callVars, TypeOK, CallOK, Idle
  <2> QED
    BY <1>0, <2>1, <2>2, AttachKept
<1>8. ASSUME NEW q \in Pools, Abort(q) PROVE AttachOK'
  BY <1>0, <1>8, AttachKept DEF Abort, bufferVars, callVars
<1>9. ASSUME NEW p \in Procs, IncrementCall(p) PROVE AttachOK'
  <2>1. \A a \in Buffers : attached'[a] \subseteq attached[a]
    BY <1>0, <1>9 DEF IncrementCall, bufferVars, TypeOK
  <2>2. \A u \in Procs : \/ host'[u] = NoBuffer
                         \/ host'[u] = host[u] /\ buf'[u] = buf[u]
    BY <1>0, <1>9 DEF IncrementCall, callVars, TypeOK, CallOK, Idle
  <2> QED
    BY <1>0, <2>1, <2>2, AttachKept
<1>10. ASSUME NEW p \in Procs, AttachCall(p) PROVE AttachOK'
  <2>1. PICK a \in Buffers, b \in Buffers :
            /\ <<a, b>> \in Attachable /\ b \notin attached[a]
            /\ attached' = [attached EXCEPT ![a] = @ \cup {b}]
            /\ buf' = [buf EXCEPT ![p] = b] /\ host' = [host EXCEPT ![p] = a]
    BY <1>10 DEF AttachCall
  <2>2. \A u \in Procs : ~(host[u] = a /\ buf[u] = b)
    BY <1>0, <2>1 DEF CallOK
  <2>3. \A x, y \in Buffers : y \in attached'[x] => <<x, y>> \in Attachable
    BY <1>0, <2>1 DEF AttachOK, TypeOK
  <2>4. \A u \in Procs \ {p} : host'[u] = host[u] /\ buf'[u] = buf[u]
    BY <1>0, <2>1 DEF TypeOK
  <2>5. host'[p] = a /\ buf'[p] = b
    BY <1>0, <2>1 DEF TypeOK
  <2> QED
    BY <1>0, <2>2, <2>3, <2>4, <2>5 DEF AttachOK
<1>11. ASSUME NEW p \in Procs, IncrementPool(p) PROVE AttachOK'
  BY <1>0, <1>11, AttachKept DEF IncrementPool, bufferVars, callVars, Step
<1>12. ASSUME NEW p \in Procs, IncrementCount(p) PROVE AttachOK'
  <2>1. \A a \in Buffers : attached'[a] \subseteq attached[a]
    BY <1>0, <1>12 DEF IncrementCount, bufferVars, TypeOK
  <2>2. \A u \in Procs : \/ host'[u] = NoBuffer
                         \/ host'[u] = host[u] /\ buf'[u] = buf[u]
    BY <1>0, <1>12 DEF IncrementCount, callVars, TypeOK, CallOK, Idle
  <2> QED
    BY <1>0, <2>1, <2>2, AttachKept
<1>13. ASSUME NEW p \in Procs, DecrementCall(p) PROVE AttachOK'
  BY <1>0, <1>13, AttachKept DEF DecrementCall, bufferVars, callVars, Step
<1>14. ASSUME NEW p \in Procs, DetachCall(p) PROVE AttachOK'
  <2>1. \A a \in Buffers : attached'[a] \subseteq attached[a]
    BY <1>0, <1>14 DEF DetachCall, bufferVars, TypeOK
  <2>2. \A u \in Procs : \/ host'[u] = NoBuffer
                         \/ host'[u] = host[u] /\ buf'[u] = buf[u]
    BY <1>0, <1>14 DEF DetachCall, callVars, TypeOK, CallOK, Idle
  <2> QED
    BY <1>0, <2>1, <2>2, AttachKept
<1>15. ASSUME NEW p \in Procs, NEW b \in Buffers, DecrementPool(p, b) PROVE AttachOK'
  BY <1>0, <1>15, AttachKept DEF DecrementPool, bufferVars, callVars, Step
<1>16. ASSUME NEW p \in Procs, NEW b \in Buffers, DecrementCount(p, b) PROVE AttachOK'
  BY <1>0, <1>16, AttachKept DEF DecrementCount, bufferVars, callVars, Step
<1>17. ASSUME NEW p \in Procs, NEW b \in Buffers, ReleaseAttached(p, b) PROVE AttachOK'
  <2>1. \A a \in Buffers : attached'[a] \subseteq attached[a]
    BY <1>0, <1>17, SMTT(30) DEF ReleaseAttached, bufferVars, TypeOK
  <2>2. \A u \in Procs : \/ host'[u] = NoBuffer
                         \/ host'[u] = host[u] /\ buf'[u] = buf[u]
    BY <1>0, <1>17 DEF ReleaseAttached, callVars, TypeOK, CallOK, Idle
  <2> QED
    BY <1>0, <2>1, <2>2, AttachKept
<1>18. ASSUME NEW p \in Procs, NEW b \in Buffers, ReleaseInsert(p, b) PROVE AttachOK'
  BY <1>0, <1>18, AttachKept DEF ReleaseInsert, bufferVars, callVars, Step
<1>19. ASSUME NEW p \in Procs, Pass(p) PROVE AttachOK'
  BY <1>0, <1>19, AttachKept DEF Pass, bufferVars, callVars, Step
<1> QED
  BY <1>1, <1>2, <1>3, <1>4, <1>5, <1>6, <1>7, <1>8, <1>9, <1>10, <1>11, <1>12, <1>13,
     <1>14, <1>15, <1>16, <1>17, <1>18, <1>19 DEF Next, Use, Get, Inc, Drop

---------------------------------------------------------------------------
(* Counts. *)

\* The owners after a step, kind by kind.
LEMMA OwnersBecome ==
    ASSUME NEW b \in Buffers, NEW S \in SUBSET Owner,
           \A p \in Procs, k \in 1 .. MaxRefs : k <= holds'[p][b] <=> Held(p, k) \in S,
           \A a \in Buffers : b \in attached'[a] /\ ~Attaching(a, b)' <=> Host(a) \in S,
           \A p \in Procs : at'[p] = "pooled" /\ buf'[p] = b <=> Got(p) \in S,
           \A p \in Procs : stage'[p][b] \in {"pool", "count"} <=> Dropped(p) \in S
    PROVE  Owners(b)' = S
<1>1. ASSUME NEW o \in Owner PROVE o \in Owners(b)' <=> o \in S
  <2>1. CASE \E p \in Procs, k \in 1 .. MaxRefs : o = Held(p, k)
    BY <2>1, AreOwnersNext
  <2>2. CASE \E a \in Buffers : o = Host(a)
    BY <2>2, AreOwnersNext
  <2>3. CASE \E p \in Procs : o = Got(p) \/ o = Dropped(p)
    BY <2>3, AreOwnersNext
  <2> QED
    BY <2>1, <2>2, <2>3, OwnerCases
<1>2. Owners(b)' \subseteq Owner
  BY DEF Owners
<1> QED
  BY <1>1, <1>2

LEMMA Different ==
    /\ \A p, r, k, n : Held(p, k) = Held(r, n) <=> p = r /\ k = n
    /\ \A a, c : Host(a) = Host(c) <=> a = c
    /\ \A p, r : (Got(p) = Got(r) <=> p = r) /\ (Dropped(p) = Dropped(r) <=> p = r)
    /\ \A p, r, k : Held(p, k) # Host(r) /\ Held(p, k) # Got(r) /\ Held(p, k) # Dropped(r)
    /\ \A p, r : Host(p) # Got(r) /\ Host(p) # Dropped(r) /\ Got(p) # Dropped(r)
BY DEF Held, Host, Got, Dropped

HeldSame(b) == \A p \in Procs : holds'[p][b] = holds[p][b]
HostSame(b) == \A a \in Buffers :
    b \in attached'[a] /\ ~Attaching(a, b)' <=> b \in attached[a] /\ ~Attaching(a, b)
GotSame(b)  == \A p \in Procs : at'[p] = "pooled" /\ buf'[p] = b <=> at[p] = "pooled" /\ buf[p] = b
DropSame(b) == \A p \in Procs :
    stage'[p][b] \in {"pool", "count"} <=> stage[p][b] \in {"pool", "count"}

Counted(b) == IsFiniteSet(Owners(b)) /\ refCount[b] = Cardinality(Owners(b))

LEMMA SameCount ==
    ASSUME PoolInv, NEW b \in Buffers,
           HeldSame(b), HostSame(b), GotSame(b), DropSame(b), refCount'[b] = refCount[b]
    PROVE  Counted(b)'
<1>1. Owners(b) \in SUBSET Owner
  BY DEF Owners
<1>2. /\ \A p \in Procs, k \in 1 .. MaxRefs : k <= holds'[p][b] <=> Held(p, k) \in Owners(b)
      /\ \A a \in Buffers : b \in attached'[a] /\ ~Attaching(a, b)' <=> Host(a) \in Owners(b)
      /\ \A p \in Procs : at'[p] = "pooled" /\ buf'[p] = b <=> Got(p) \in Owners(b)
      /\ \A p \in Procs : stage'[p][b] \in {"pool", "count"} <=> Dropped(p) \in Owners(b)
  BY AreOwners DEF HeldSame, HostSame, GotSame, DropSame
<1>3. Owners(b)' = Owners(b)
  BY <1>1, <1>2, OwnersBecome
<1> QED
  BY <1>3 DEF PoolInv, CountOK, Counted

LEMMA Joined ==
    ASSUME PoolInv, NEW b \in Buffers, NEW x, x \notin Owners(b),
           Owners(b)' = Owners(b) \cup {x}, refCount'[b] = refCount[b] + 1
    PROVE  Counted(b)'
BY Joins DEF PoolInv, CountOK, Counted

LEMMA Left ==
    ASSUME PoolInv, NEW b \in Buffers, NEW x \in Owners(b),
           Owners(b)' = Owners(b) \ {x}, refCount'[b] = refCount[b] - 1
    PROVE  Counted(b)'
BY Leaves DEF PoolInv, CountOK, Counted

LEMMA Moved ==
    ASSUME PoolInv, NEW b \in Buffers, NEW x \in Owners(b), NEW y, y \notin Owners(b),
           Owners(b)' = (Owners(b) \ {x}) \cup {y}, refCount'[b] = refCount[b]
    PROVE  Counted(b)'
BY Replaces DEF PoolInv, CountOK, Counted

LEMMA HostKept ==
    ASSUME NEW b \in Buffers,
           \A a \in Buffers : b \in attached'[a] <=> b \in attached[a],
           \A u \in Procs : \/ host'[u] = host[u] /\ buf'[u] = buf[u]
                            \/ /\ host[u] \notin Buffers \/ buf[u] # b
                               /\ host'[u] \notin Buffers \/ buf'[u] # b
    PROVE  HostSame(b)
BY DEF HostSame, Attaching

\* A guest is taken from its host, to be dropped.
LEMMA Detached ==
    ASSUME PoolInv, NEW p \in Procs, NEW a \in Buffers, NEW b \in Buffers,
           b \in attached[a], ~Attaching(a, b),
           attached' = [attached EXCEPT ![a] = @ \ {b}],
           Step(p, b, "pool"), stage[p][b] = "none",
           UNCHANGED <<at, buf, host, holds, refCount>>
    PROVE  CountOK'
<1>0. TypeOK /\ Owners(b) \in SUBSET Owner
  BY DEF PoolInv, Owners
<1>1. ASSUME NEW c \in Buffers \ {b} PROVE Counted(c)'
  <2>1. HostSame(c)
    BY <1>0, HostKept DEF TypeOK
  <2>2. GotSame(c) /\ HeldSame(c) /\ refCount'[c] = refCount[c]
    BY DEF GotSame, HeldSame
  <2>3. DropSame(c)
    BY <1>0 DEF DropSame, Step, TypeOK
  <2> QED
    BY <2>1, <2>2, <2>3, SameCount
<1>2. \A z \in Buffers : b \in attached'[z] <=> b \in attached[z] /\ z # a
  BY <1>0 DEF TypeOK
<1>3. \A q \in Procs : stage'[q][b] = IF q = p THEN "pool" ELSE stage[q][b]
  BY <1>0 DEF Step, TypeOK
<1>4. Host(a) \in Owners(b) /\ Dropped(p) \notin Owners(b)
  BY AreOwners
<1>5. Owners(b)' = (Owners(b) \ {Host(a)}) \cup {Dropped(p)}
  <2> DEFINE S == (Owners(b) \ {Host(a)}) \cup {Dropped(p)}
  <2>1. S \in SUBSET Owner
    BY <1>0 DEF Dropped, Owner
  <2>2. \A q \in Procs, k \in 1 .. MaxRefs : k <= holds'[q][b] <=> Held(q, k) \in S
    <3>1. \A q, k : Held(q, k) \in S <=> Held(q, k) \in Owners(b)
      BY Different
    <3> HIDE DEF S
    <3>2. \A q \in Procs, k \in 1 .. MaxRefs : k <= holds[q][b] <=> Held(q, k) \in S
      BY <3>1, AreOwners
    <3> QED
      BY <3>2
  <2>3. \A z \in Buffers : b \in attached'[z] /\ ~Attaching(z, b)' <=> Host(z) \in S
    <3>1. \A z \in Buffers : Attaching(z, b)' <=> Attaching(z, b)
      BY DEF Attaching
    <3> QED
      BY <1>2, <3>1, AreOwners, Different
  <2>4. \A q \in Procs : at'[q] = "pooled" /\ buf'[q] = b <=> Got(q) \in S
    <3>1. \A q : Got(q) \in S <=> Got(q) \in Owners(b)
      BY Different
    <3> HIDE DEF S
    <3>2. \A q \in Procs : at[q] = "pooled" /\ buf[q] = b <=> Got(q) \in S
      BY <3>1, AreOwners
    <3> QED
      BY <3>2
  <2>5. \A q \in Procs : stage'[q][b] \in {"pool", "count"} <=> Dropped(q) \in S
    BY <1>3, AreOwners, Different
  <2> HIDE DEF S
  <2>6. Owners(b)' = S
    BY <2>1, <2>2, <2>3, <2>4, <2>5, OwnersBecome
  <2> QED
    BY <2>6 DEF S
<1>6. Counted(b)'
  BY <1>4, <1>5, Moved
<1> QED
  BY <1>1, <1>6 DEF CountOK, Counted

LEMMA StepCount ==
    ASSUME PoolInv, [Next]_vars
    PROVE  CountOK'
<1> USE DEF Goto, Return
<1>0. /\ TypeOK /\ AttachOK /\ NoBuffer \notin Buffers /\ \A u \in Procs : CallOK(u)
      /\ \A b \in Buffers : Counted(b) /\ Owners(b) \in SUBSET Owner
      /\ MaxRefs \in Nat \ {0}
  BY NoneAssumption, RefsAssumption DEF PoolInv, CallsOK, CountOK, Counted, Owners
<1>a. ASSUME \A b \in Buffers : Counted(b)' PROVE CountOK'
  BY <1>a DEF CountOK, Counted
<1>1. CASE UNCHANGED vars
  <2>1. ASSUME NEW b \in Buffers PROVE Counted(b)'
    BY <1>1, <2>1, SameCount DEF vars, poolVars, bufferVars, callVars, HeldSame, HostSame, GotSame, DropSame, Attaching
  <2> QED
    BY <1>a, <2>1
<1>2. ASSUME NEW p \in Procs, GetEnter(p) PROVE CountOK'
  <2>a. ASSUME NEW c \in Buffers PROVE Counted(c)'
    <3>1. HostSame(c)
      BY <1>0, <1>2, HostKept DEF GetEnter, CallOK, Idle, bufferVars, callVars, TypeOK
    <3>2. GotSame(c)
      BY <1>0, <1>2 DEF GetEnter, GotSame, Idle, callVars, TypeOK
    <3>3. HeldSame(c) /\ DropSame(c) /\ refCount'[c] = refCount[c]
      BY <1>0, <1>2 DEF GetEnter, HeldSame, DropSame, Step, bufferVars, TypeOK
    <3> QED
      BY <3>1, <3>2, <3>3, SameCount
  <2> QED
    BY <1>a, <2>a
<1>3. ASSUME NEW p \in Procs, GetTry(p) PROVE CountOK'
  <2>a. ASSUME NEW c \in Buffers PROVE Counted(c)'
    <3>1. HostSame(c)
      BY <1>0, <1>3, HostKept DEF GetTry, CallOK, Idle, bufferVars, callVars, TypeOK
    <3>2. GotSame(c)
      BY <1>0, <1>3 DEF GetTry, GotSame, Idle, callVars, TypeOK
    <3>3. HeldSame(c) /\ DropSame(c) /\ refCount'[c] = refCount[c]
      BY <1>0, <1>3 DEF GetTry, HeldSame, DropSame, Step, bufferVars, TypeOK
    <3> QED
      BY <3>1, <3>2, <3>3, SameCount
  <2> QED
    BY <1>a, <2>a
<1>4. ASSUME NEW p \in Procs, GetWoken(p) \/ GetTimeout(p) PROVE CountOK'
  <2>a. ASSUME NEW c \in Buffers PROVE Counted(c)'
    <3>1. HostSame(c)
      BY <1>0, <1>4, HostKept, Resumed
    <3>2. GotSame(c)
      BY <1>0, <1>4 DEF GetWoken, GetTimeout, GetResume, GotSame, Idle, callVars, TypeOK
    <3>3. HeldSame(c) /\ DropSame(c) /\ refCount'[c] = refCount[c]
      BY <1>0, <1>4 DEF GetWoken, GetTimeout, GetResume, HeldSame, DropSame, Step, bufferVars, TypeOK
    <3> QED
      BY <3>1, <3>2, <3>3, SameCount
  <2> QED
    BY <1>a, <2>a
<1>5. ASSUME NEW p \in Procs, GetMemory(p) PROVE CountOK'
  <2>1. host[p] = NoBuffer
    BY <1>0, <1>5 DEF GetMemory, CallOK
  <2>a. ASSUME NEW c \in Buffers PROVE Counted(c)'
    <3>1. HostSame(c)
      BY <1>0, <1>5, <2>1, HostKept DEF GetMemory, CallOK, Idle, bufferVars, callVars, TypeOK
    <3>2. GotSame(c)
      BY <1>0, <1>5, <2>1 DEF GetMemory, GotSame, Idle, callVars, TypeOK
    <3>3. HeldSame(c) /\ DropSame(c) /\ refCount'[c] = refCount[c]
      BY <1>0, <1>5, <2>1 DEF GetMemory, HeldSame, DropSame, Step, bufferVars, TypeOK
    <3> QED
      BY <3>1, <3>2, <3>3, SameCount
  <2> QED
    BY <1>a, <2>a
<1>6. ASSUME NEW p \in Procs, GetFresh(p) PROVE CountOK'
  <2>1. PICK b \in Buffers : /\ b = buf[p] /\ refCount[b] = 0 /\ attached[b] = {}
                             /\ at[p] = "fresh" /\ host[p] = NoBuffer
    BY <1>0, <1>6 DEF GetFresh, CallOK, PoolInv, DeadOK, Getting
  <2>a. ASSUME NEW c \in Buffers \ {b} PROVE Counted(c)'
    <3>1. HostSame(c)
      BY <1>0, <1>6, <2>1, HostKept DEF GetFresh, CallOK, Idle, bufferVars, callVars, TypeOK
    <3>2. GotSame(c)
      BY <1>0, <1>6, <2>1 DEF GetFresh, GotSame, Idle, callVars, TypeOK
    <3>3. HeldSame(c)
      BY <1>0, <1>6, <2>1 DEF GetFresh, HeldSame, bufferVars, TypeOK
    <3>4. DropSame(c) /\ refCount'[c] = refCount[c]
      BY <1>0, <1>6, <2>1 DEF GetFresh, DropSame, Step, Add, bufferVars, TypeOK
    <3> QED
      BY <3>1, <3>2, <3>3, <3>4, SameCount
  <2>2. Owners(b) = {}
    BY <2>1, Counting DEF PoolInv
  <2>3. Owners(b)' = {Got(p)}
    <3>1. {Got(p)} \in SUBSET Owner
      BY DEF Got, Owner
    <3>2. \A q \in Procs, k \in 1 .. MaxRefs : k <= holds'[q][b] <=> Held(q, k) \in {Got(p)}
      <4>1. \A q \in Procs, k \in 1 .. MaxRefs : ~(k <= holds[q][b])
        BY <2>2, AreOwners
      <4>2. holds' = holds
        BY <1>6 DEF GetFresh
      <4> QED
        BY <4>1, <4>2, Different
    <3>3. \A a \in Buffers : b \in attached'[a] /\ ~Attaching(a, b)' <=> Host(a) \in {Got(p)}
      <4>1. HostSame(b)
        BY <1>0, <1>6, <2>1, HostKept DEF GetFresh, TypeOK
      <4> QED
        BY <2>2, <4>1, AreOwners, Different DEF HostSame
    <3>4. \A q \in Procs : at'[q] = "pooled" /\ buf'[q] = b <=> Got(q) \in {Got(p)}
      BY <1>0, <1>6, <2>1, <2>2, AreOwners, Different DEF GetFresh, TypeOK
    <3>5. \A q \in Procs : stage'[q][b] \in {"pool", "count"} <=> Dropped(q) \in {Got(p)}
      BY <1>6, <2>2, AreOwners, Different DEF GetFresh
    <3> QED
      BY <3>1, <3>2, <3>3, <3>4, <3>5, OwnersBecome
  <2>4. refCount'[b] = 1
    BY <1>0, <1>6, <2>1 DEF GetFresh, TypeOK
  <2>5. Counted(b)'
    BY <2>3, <2>4, FS_Singleton DEF Counted
  <2> QED
    BY <1>a, <2>a, <2>5
<1>7. ASSUME NEW p \in Procs, GetPooled(p) PROVE CountOK'
  <2>1. PICK b \in Buffers : b = buf[p] /\ refCount[b] = 1 /\ at[p] = "pooled" /\ host[p] = NoBuffer
    BY <1>0, <1>7 DEF GetPooled, CallOK, PoolInv, DeadOK, Getting
  <2>a. ASSUME NEW c \in Buffers \ {b} PROVE Counted(c)'
    <3>1. HostSame(c)
      BY <1>0, <1>7, <2>1, HostKept DEF GetPooled, Gain, CallOK, Idle, bufferVars, callVars, TypeOK
    <3>2. GotSame(c)
      BY <1>0, <1>7, <2>1 DEF GetPooled, Gain, GotSame, Idle, callVars, TypeOK
    <3>3. HeldSame(c)
      BY <1>0, <1>7, <2>1 DEF GetPooled, Gain, HeldSame, bufferVars, TypeOK
    <3>4. DropSame(c) /\ refCount'[c] = refCount[c]
      BY <1>0, <1>7, <2>1 DEF GetPooled, Gain, DropSame, Step, Add, bufferVars, TypeOK
    <3> QED
      BY <3>1, <3>2, <3>3, <3>4, SameCount
  <2>2. Got(p) \in Owners(b) /\ \A o \in Owners(b) : o = Got(p)
    BY <2>1, AreOwners, Counting DEF PoolInv
  <2>3. \A q \in Procs : holds[q][b] = 0
    <3>1. 1 \in 1 .. MaxRefs
      BY <1>0
    <3>2. \A q \in Procs : Held(q, 1) \notin Owners(b)
      BY <2>2, Different
    <3>3. \A q \in Procs : ~(1 <= holds[q][b])
      BY <3>1, <3>2, AreOwners
    <3> QED
      BY <1>0, <3>3 DEF TypeOK
  <2>4. \A q \in Procs : holds'[q][b] = IF q = p THEN 1 ELSE 0
    BY <1>0, <1>7, <2>1, <2>3 DEF GetPooled, Gain, TypeOK
  <2>5. Owners(b)' = {Held(p, 1)}
    <3>1. {Held(p, 1)} \in SUBSET Owner
      BY <1>0 DEF Held, Owner
    <3>2. \A q \in Procs, k \in 1 .. MaxRefs : k <= holds'[q][b] <=> Held(q, k) \in {Held(p, 1)}
      BY <2>4, Different
    <3>3. \A a \in Buffers : b \in attached'[a] /\ ~Attaching(a, b)' <=> Host(a) \in {Held(p, 1)}
      <4>1. HostSame(b)
        BY <1>0, <1>7, <2>1, HostKept DEF GetPooled, TypeOK, bufferVars
      <4> QED
        BY <2>2, <4>1, AreOwners, Different DEF HostSame
    <3>4. \A q \in Procs : at'[q] = "pooled" /\ buf'[q] = b <=> Got(q) \in {Held(p, 1)}
      <4>1. \A q \in Procs : at[q] = "pooled" /\ buf[q] = b => q = p
        BY <2>2, AreOwners, Different
      <4>2. \A q \in Procs : ~(at'[q] = "pooled" /\ buf'[q] = b)
        BY <1>0, <1>7, <2>1, <4>1 DEF GetPooled, TypeOK
      <4> QED
        BY <4>2, Different
    <3>5. \A q \in Procs : stage'[q][b] \in {"pool", "count"} <=> Dropped(q) \in {Held(p, 1)}
      <4>1. \A q \in Procs : stage[q][b] \notin {"pool", "count"}
        BY SMTT(30), <2>2, AreOwners, Different
      <4>2. stage' = stage
        BY <1>7 DEF GetPooled
      <4> QED
        BY <4>1, <4>2, Different
    <3> QED
      BY <3>1, <3>2, <3>3, <3>4, <3>5, OwnersBecome
  <2>6. refCount'[b] = 1
    BY <1>7, <2>1 DEF GetPooled, bufferVars
  <2>7. Counted(b)'
    BY <2>5, <2>6, FS_Singleton DEF Counted
  <2> QED
    BY <1>a, <2>a, <2>7
<1>8. ASSUME NEW q \in Pools, Abort(q) PROVE CountOK'
  <2>1. ASSUME NEW b \in Buffers PROVE Counted(b)'
    BY <1>8, <2>1, SameCount DEF Abort, bufferVars, callVars, HeldSame, HostSame, GotSame, DropSame, Attaching
  <2> QED
    BY <1>a, <2>1
<1>9. ASSUME NEW p \in Procs, IncrementCall(p) PROVE CountOK'
  <2>a. ASSUME NEW c \in Buffers PROVE Counted(c)'
    <3>1. HostSame(c)
      BY <1>0, <1>9, HostKept DEF IncrementCall, CallOK, Idle, bufferVars, callVars, TypeOK
    <3>2. GotSame(c)
      BY <1>0, <1>9 DEF IncrementCall, GotSame, Idle, callVars, TypeOK
    <3>3. HeldSame(c) /\ DropSame(c) /\ refCount'[c] = refCount[c]
      BY <1>0, <1>9 DEF IncrementCall, HeldSame, DropSame, Step, bufferVars, TypeOK
    <3> QED
      BY <3>1, <3>2, <3>3, SameCount
  <2> QED
    BY <1>a, <2>a
<1>10. ASSUME NEW p \in Procs, AttachCall(p) PROVE CountOK'
  <2>1. PICK a \in Buffers, b \in Buffers :
            /\ b \notin attached[a]
            /\ attached' = [attached EXCEPT ![a] = @ \cup {b}]
            /\ buf' = [buf EXCEPT ![p] = b] /\ host' = [host EXCEPT ![p] = a]
            /\ host[p] = NoBuffer /\ buf[p] = NoBuffer
    BY <1>0, <1>10 DEF AttachCall, Idle, CallOK
  <2>2. /\ host'[p] = a /\ buf'[p] = b
        /\ \A q \in Procs \ {p} : host'[q] = host[q] /\ buf'[q] = buf[q]
    BY <1>0, <2>1 DEF TypeOK
  <2>3. ASSUME NEW c \in Buffers PROVE Counted(c)'
    <3>1. HostSame(c)
      <4>1. ASSUME NEW x \in Buffers, ~(x = a /\ c = b)
            PROVE  (c \in attached'[x] <=> c \in attached[x]) /\ (Attaching(x, c)' <=> Attaching(x, c))
        <5>1. c \in attached'[x] <=> c \in attached[x]
          BY <1>0, <2>1, <4>1 DEF TypeOK
        <5>2. Attaching(x, c)' <=> Attaching(x, c)
          BY <1>0, <2>1, <2>2, <4>1 DEF Attaching
        <5> QED
          BY <5>1, <5>2
      <4>2. c = b => Attaching(a, c)' /\ c \notin attached[a]
        BY <2>1, <2>2 DEF Attaching
      <4> QED
        BY <4>1, <4>2 DEF HostSame
    <3>2. GotSame(c)
      BY <1>0, <1>10, <2>1, <2>2 DEF AttachCall, GotSame, Idle, TypeOK
    <3>3. HeldSame(c) /\ DropSame(c) /\ refCount'[c] = refCount[c]
      BY <1>10 DEF AttachCall, HeldSame, DropSame
    <3> QED
      BY <3>1, <3>2, <3>3, SameCount
  <2> QED
    BY <1>a, <2>3
<1>11. ASSUME NEW p \in Procs, IncrementPool(p) PROVE CountOK'
  <2>a. ASSUME NEW c \in Buffers PROVE Counted(c)'
    <3>1. HostSame(c)
      BY <1>0, <1>11, HostKept DEF IncrementPool, CallOK, Idle, bufferVars, callVars, TypeOK
    <3>2. GotSame(c)
      BY <1>0, <1>11 DEF IncrementPool, GotSame, Idle, callVars, TypeOK
    <3>3. HeldSame(c) /\ DropSame(c) /\ refCount'[c] = refCount[c]
      BY <1>0, <1>11 DEF IncrementPool, HeldSame, DropSame, Step, bufferVars, TypeOK
    <3> QED
      BY <3>1, <3>2, <3>3, SameCount
  <2> QED
    BY <1>a, <2>a
<1>12. ASSUME NEW p \in Procs, IncrementCount(p) PROVE CountOK'
  <2>1. PICK b \in Buffers : b = buf[p] /\ at[p] = "inc"
    BY <1>0, <1>12 DEF IncrementCount, CallOK
  <2>a. ASSUME NEW c \in Buffers \ {b} PROVE Counted(c)'
    <3>1. HostSame(c)
      BY <1>0, <1>12, <2>1, HostKept DEF IncrementCount, Gain, CallOK, Idle, bufferVars, callVars, TypeOK
    <3>2. GotSame(c)
      BY <1>0, <1>12, <2>1 DEF IncrementCount, Gain, GotSame, Idle, callVars, TypeOK
    <3>3. HeldSame(c)
      <4>1. holds' = holds \/ holds' = [holds EXCEPT ![p][b] = @ + 1]
        BY <1>12, <2>1 DEF IncrementCount, Gain
      <4>2. CASE holds' = [holds EXCEPT ![p][b] = @ + 1]
        BY <1>0, <4>2 DEF HeldSame, TypeOK
      <4> QED
        BY <4>1, <4>2 DEF HeldSame
    <3>4. DropSame(c) /\ refCount'[c] = refCount[c]
      BY <1>0, <1>12, <2>1 DEF IncrementCount, Gain, DropSame, Step, Add, bufferVars, TypeOK
    <3> QED
      BY <3>1, <3>2, <3>3, <3>4, SameCount
  <2>2. refCount'[b] = refCount[b] + 1
    BY <1>0, <1>12, <2>1 DEF IncrementCount, Add, TypeOK
  <2>3. GotSame(b) /\ DropSame(b)
    BY <1>0, <1>12, <2>1 DEF IncrementCount, GotSame, DropSame, TypeOK
  <2>4. attached' = attached /\ host'[p] = NoBuffer
        /\ \A q \in Procs \ {p} : host'[q] = host[q] /\ buf'[q] = buf[q]
    BY <1>0, <1>12 DEF IncrementCount, TypeOK
  <2>5. CASE host[p] = NoBuffer
    <3>1. PICK n \in 1 .. MaxRefs : n = holds[p][b] + 1
      BY <1>0, <2>1, <2>5 DEF CallOK, TypeOK
    <3>2. \A q \in Procs : holds'[q][b] = IF q = p THEN n ELSE holds[q][b]
      BY <1>0, <1>12, <2>1, <2>5, <3>1 DEF IncrementCount, Gain, TypeOK
    <3>3. Held(p, n) \notin Owners(b)
      <4>1. ~(n <= holds[p][b])
        BY <1>0, <3>1 DEF TypeOK
      <4> QED
        BY <4>1, AreOwners
    <3>4. Owners(b)' = Owners(b) \cup {Held(p, n)}
      <4> DEFINE S == Owners(b) \cup {Held(p, n)}
      <4>1. S \in SUBSET Owner
        BY <1>0, <3>1 DEF Held, Owner
      <4>2. ASSUME NEW q \in Procs, NEW k \in 1 .. MaxRefs PROVE k <= holds'[q][b] <=> Held(q, k) \in S
        <5>1. k <= holds'[q][b] <=> k <= holds[q][b] \/ (q = p /\ k = n)
          <6>1. holds[q][b] \in Nat /\ k \in Nat /\ n \in Nat
            BY <1>0 DEF TypeOK
          <6> QED
            BY <3>1, <3>2, <6>1
        <5> QED
          BY <5>1, AreOwners, Different
      <4>3. \A a \in Buffers : b \in attached'[a] /\ ~Attaching(a, b)' <=> Host(a) \in S
        <5>1. HostSame(b)
          BY <1>0, <2>4, <2>5, HostKept
        <5> QED
          BY <5>1, AreOwners, Different DEF HostSame
      <4>4. \A q \in Procs : at'[q] = "pooled" /\ buf'[q] = b <=> Got(q) \in S
        BY <2>3, AreOwners, Different DEF GotSame
      <4>5. \A q \in Procs : stage'[q][b] \in {"pool", "count"} <=> Dropped(q) \in S
        BY <2>3, AreOwners, Different DEF DropSame
      <4> HIDE DEF S
      <4>6. Owners(b)' = S
        BY <4>1, <4>2, <4>3, <4>4, <4>5, OwnersBecome
      <4> QED
        BY <4>6 DEF S
    <3>5. Counted(b)'
      BY <2>2, <3>3, <3>4, Joined
    <3> QED
      BY <1>a, <2>a, <3>5
  <2>6. CASE host[p] # NoBuffer
    <3>1. PICK a \in Buffers : a = host[p] /\ b \in attached[a]
      BY <1>0, <2>1, <2>6 DEF CallOK, TypeOK
    <3>2. Attaching(a, b) /\ ~Attaching(a, b)'
      BY <1>0, <2>1, <2>4, <3>1 DEF Attaching, AttachOK
    <3>3. \A x \in Buffers \ {a} : Attaching(x, b)' <=> Attaching(x, b)
      BY <1>0, <2>4, <3>1 DEF Attaching
    <3>4. Host(a) \notin Owners(b)
      BY <3>2, AreOwners
    <3>5. Owners(b)' = Owners(b) \cup {Host(a)}
      <4> DEFINE S == Owners(b) \cup {Host(a)}
      <4>1. S \in SUBSET Owner
        BY <1>0 DEF Host, Owner
      <4>2. \A q \in Procs, k \in 1 .. MaxRefs : k <= holds'[q][b] <=> Held(q, k) \in S
        <5>1. holds' = holds
          BY <1>12, <2>6 DEF IncrementCount
        <5> QED
          BY <5>1, AreOwners, Different
      <4>3. \A x \in Buffers : b \in attached'[x] /\ ~Attaching(x, b)' <=> Host(x) \in S
        BY <2>4, <3>1, <3>2, <3>3, AreOwners, Different
      <4>4. \A q \in Procs : at'[q] = "pooled" /\ buf'[q] = b <=> Got(q) \in S
        BY <2>3, AreOwners, Different DEF GotSame
      <4>5. \A q \in Procs : stage'[q][b] \in {"pool", "count"} <=> Dropped(q) \in S
        BY <2>3, AreOwners, Different DEF DropSame
      <4> HIDE DEF S
      <4>6. Owners(b)' = S
        BY <4>1, <4>2, <4>3, <4>4, <4>5, OwnersBecome
      <4> QED
        BY <4>6 DEF S
    <3>6. Counted(b)'
      BY <2>2, <3>4, <3>5, Joined
    <3> QED
      BY <1>a, <2>a, <3>6
  <2> QED
    BY <2>5, <2>6
<1>13. ASSUME NEW p \in Procs, DecrementCall(p) PROVE CountOK'
  <2>1. PICK b \in Buffers : holds[p][b] > 0 /\ Give(p, b) /\ Step(p, b, "pool") /\ stage[p][b] = "none"
    BY <1>13 DEF DecrementCall, Idle
  <2>a. ASSUME NEW c \in Buffers \ {b} PROVE Counted(c)'
    <3>1. HostSame(c)
      BY <1>0, <1>13, <2>1, HostKept DEF DecrementCall, Give, Step, CallOK, Idle, bufferVars, callVars, TypeOK
    <3>2. GotSame(c)
      BY <1>0, <1>13, <2>1 DEF DecrementCall, Give, Step, GotSame, Idle, callVars, TypeOK
    <3>3. HeldSame(c)
      BY <1>0, <1>13, <2>1 DEF DecrementCall, Give, Step, HeldSame, bufferVars, TypeOK
    <3>4. DropSame(c) /\ refCount'[c] = refCount[c]
      BY <1>0, <1>13, <2>1 DEF DecrementCall, Give, Step, DropSame, Step, Add, bufferVars, TypeOK
    <3> QED
      BY <3>1, <3>2, <3>3, <3>4, SameCount
  <2>2. PICK n \in 1 .. MaxRefs : n = holds[p][b]
    BY <1>0, <2>1 DEF TypeOK
  <2>3. \A q \in Procs : holds'[q][b] = IF q = p THEN n - 1 ELSE holds[q][b]
    BY <1>0, <2>1, <2>2 DEF Give, TypeOK
  <2>4. \A q \in Procs : stage'[q][b] = IF q = p THEN "pool" ELSE stage[q][b]
    BY <1>0, <2>1 DEF Step, TypeOK
  <2>5. /\ at' = at /\ buf' = buf /\ HostSame(b) /\ refCount'[b] = refCount[b]
        /\ Held(p, n) \in Owners(b) /\ Dropped(p) \notin Owners(b)
    BY <1>0, <1>13, <2>1, <2>2, HostKept, AreOwners DEF DecrementCall, bufferVars, callVars
  <2>6. Owners(b)' = (Owners(b) \ {Held(p, n)}) \cup {Dropped(p)}
    <3> DEFINE S == (Owners(b) \ {Held(p, n)}) \cup {Dropped(p)}
    <3>1. S \in SUBSET Owner
      BY <1>0 DEF Dropped, Owner
    <3>2. ASSUME NEW q \in Procs, NEW k \in 1 .. MaxRefs PROVE k <= holds'[q][b] <=> Held(q, k) \in S
      <4>1. holds[q][b] \in Nat /\ k \in Nat /\ n \in Nat
        BY <1>0 DEF TypeOK
      <4>2. k <= holds'[q][b] <=> k <= holds[q][b] /\ ~(q = p /\ k = n)
        BY <2>2, <2>3, <4>1
      <4>3. Held(q, k) \in S <=> Held(q, k) \in Owners(b) /\ ~(q = p /\ k = n)
        BY Different
      <4> QED
        BY <4>2, <4>3, AreOwners
    <3>3. \A z \in Buffers : b \in attached'[z] /\ ~Attaching(z, b)' <=> Host(z) \in S
      BY <2>5, AreOwners, Different DEF HostSame
    <3>4. \A q \in Procs : at'[q] = "pooled" /\ buf'[q] = b <=> Got(q) \in S
      BY <2>5, AreOwners, Different
    <3>5. \A q \in Procs : stage'[q][b] \in {"pool", "count"} <=> Dropped(q) \in S
      BY <2>4, AreOwners, Different
    <3> HIDE DEF S
    <3>6. Owners(b)' = S
      BY <3>1, <3>2, <3>3, <3>4, <3>5, OwnersBecome
    <3> QED
      BY <3>6 DEF S
  <2>7. Counted(b)'
    BY <2>5, <2>6, Moved
  <2> QED
    BY <1>a, <2>a, <2>7
<1>14. ASSUME NEW p \in Procs, DetachCall(p) PROVE CountOK'
  <2>1. PICK a \in Buffers, b \in Buffers :
            /\ b \in attached[a] /\ ~Attaching(a, b)
            /\ attached' = [attached EXCEPT ![a] = @ \ {b}]
            /\ Step(p, b, "pool") /\ stage[p][b] = "none"
    BY <1>14 DEF DetachCall, Idle
  <2> QED
    BY <1>14, <2>1, Detached DEF DetachCall, callVars
<1>15. ASSUME NEW p \in Procs, NEW b \in Buffers, DecrementPool(p, b) PROVE CountOK'
  <2>a. ASSUME NEW c \in Buffers PROVE Counted(c)'
    <3>1. HostSame(c)
      BY <1>0, <1>15, HostKept DEF DecrementPool, CallOK, Idle, bufferVars, callVars, TypeOK
    <3>2. GotSame(c)
      BY <1>0, <1>15 DEF DecrementPool, GotSame, Idle, callVars, TypeOK
    <3>3. HeldSame(c) /\ DropSame(c) /\ refCount'[c] = refCount[c]
      BY <1>0, <1>15 DEF DecrementPool, HeldSame, DropSame, Step, bufferVars, TypeOK
    <3> QED
      BY <3>1, <3>2, <3>3, SameCount
  <2> QED
    BY <1>a, <2>a
<1>16. ASSUME NEW p \in Procs, NEW b \in Buffers, DecrementCount(p, b) PROVE CountOK'
  <2>a. ASSUME NEW c \in Buffers \ {b} PROVE Counted(c)'
    <3>1. HostSame(c)
      BY <1>0, <1>16, HostKept DEF DecrementCount, CallOK, Idle, bufferVars, callVars, TypeOK
    <3>2. GotSame(c)
      BY <1>0, <1>16 DEF DecrementCount, GotSame, Idle, callVars, TypeOK
    <3>3. HeldSame(c)
      BY <1>0, <1>16 DEF DecrementCount, HeldSame, bufferVars, TypeOK
    <3>4. DropSame(c) /\ refCount'[c] = refCount[c]
      BY <1>0, <1>16, SMTT(30) DEF DecrementCount, DropSame, Step, Add, bufferVars, TypeOK
    <3> QED
      BY <3>1, <3>2, <3>3, <3>4, SameCount
  <2>1. /\ Dropped(p) \in Owners(b) /\ refCount'[b] = refCount[b] - 1
        /\ at' = at /\ buf' = buf /\ host' = host /\ holds' = holds /\ attached' = attached
    <3>1. refCount'[b] = refCount[b] - 1
      BY <1>0, <1>16 DEF DecrementCount, Add, TypeOK
    <3> QED
      BY <1>16, <3>1, AreOwners DEF DecrementCount, callVars
  <2>2. \A q \in Procs : /\ q # p => stage'[q][b] = stage[q][b]
                         /\ q = p => stage'[q][b] \in {"detach", "none"}
    BY <1>0, <1>16 DEF DecrementCount, Step, TypeOK
  <2>3. Owners(b)' = Owners(b) \ {Dropped(p)}
    <3> DEFINE S == Owners(b) \ {Dropped(p)}
    <3>1. S \in SUBSET Owner
      BY <1>0
    <3>2. \A q \in Procs, k \in 1 .. MaxRefs : k <= holds'[q][b] <=> Held(q, k) \in S
      <4>1. \A q \in Procs, k \in 1 .. MaxRefs : k <= holds[q][b] <=> Held(q, k) \in S
        BY AreOwners, Different
      <4> QED
        BY <2>1, <4>1
    <3>3. \A z \in Buffers : b \in attached'[z] /\ ~Attaching(z, b)' <=> Host(z) \in S
      BY <2>1, AreOwners, Different DEF Attaching
    <3>4. \A q \in Procs : at'[q] = "pooled" /\ buf'[q] = b <=> Got(q) \in S
      BY <2>1, AreOwners, Different
    <3>5. \A q \in Procs : stage'[q][b] \in {"pool", "count"} <=> Dropped(q) \in S
      BY <2>2, AreOwners, Different
    <3> HIDE DEF S
    <3>6. Owners(b)' = S
      BY <3>1, <3>2, <3>3, <3>4, <3>5, OwnersBecome
    <3> QED
      BY <3>6 DEF S
  <2>4. Counted(b)'
    BY <2>1, <2>3, Left
  <2> QED
    BY <1>a, <2>a, <2>4
<1>17. ASSUME NEW p \in Procs, NEW a \in Buffers, ReleaseAttached(p, a) PROVE CountOK'
  <2>1. CASE attached[a] = {} /\ Step(p, a, "free") /\ UNCHANGED attached
    <3>1. ASSUME NEW c \in Buffers PROVE Counted(c)'
      <4>1. HostSame(c) /\ GotSame(c) /\ HeldSame(c) /\ refCount'[c] = refCount[c]
        BY <1>17, <2>1, HostKept DEF ReleaseAttached, GotSame, HeldSame, callVars
      <4>2. DropSame(c)
        BY <1>0, <1>17, <2>1 DEF ReleaseAttached, DropSame, Step, TypeOK
      <4> QED
        BY <4>1, <4>2, SameCount
    <3> QED
      BY <1>a, <3>1
  <2>2. CASE \E b \in attached[a] : attached' = [attached EXCEPT ![a] = @ \ {b}] /\ Step(p, b, "pool")
    <3>1. PICK b \in Buffers : /\ b \in attached[a] /\ attached' = [attached EXCEPT ![a] = @ \ {b}]
                               /\ Step(p, b, "pool")
      BY <1>0, <2>2 DEF TypeOK
    <3>2. stage[p][b] = "none"
      BY <1>0, <1>17, <3>1 DEF ReleaseAttached, AttachOK
    <3>3. refCount[a] = 0
      BY <1>17 DEF ReleaseAttached, PoolInv, DeadOK, Releasing
    <3>4. ~Attaching(a, b)
      <4>1. \A u \in Procs : ~(holds[u][a] > 0)
        BY <3>3, HoldersOwn DEF PoolInv
      <4> QED
        BY <1>0, <4>1 DEF Attaching, CallOK
    <3> QED
      BY <1>17, <3>1, <3>2, <3>4, Detached DEF ReleaseAttached, callVars
  <2> QED
    BY <1>17, <2>1, <2>2 DEF ReleaseAttached
<1>18. ASSUME NEW p \in Procs, NEW b \in Buffers, ReleaseInsert(p, b) PROVE CountOK'
  <2>a. ASSUME NEW c \in Buffers PROVE Counted(c)'
    <3>1. HostSame(c)
      BY <1>0, <1>18, HostKept DEF ReleaseInsert, CallOK, Idle, bufferVars, callVars, TypeOK
    <3>2. GotSame(c)
      BY <1>0, <1>18 DEF ReleaseInsert, GotSame, Idle, callVars, TypeOK
    <3>3. HeldSame(c) /\ DropSame(c) /\ refCount'[c] = refCount[c]
      BY <1>0, <1>18 DEF ReleaseInsert, HeldSame, DropSame, Step, bufferVars, TypeOK
    <3> QED
      BY <3>1, <3>2, <3>3, SameCount
  <2> QED
    BY <1>a, <2>a
<1>19. ASSUME NEW p \in Procs, Pass(p) PROVE CountOK'
  <2>1. PICK b \in Buffers, r \in Procs :
            /\ p # r /\ holds[p][b] > 0 /\ holds[r][b] < MaxRefs
            /\ \A u \in Procs, w \in Buffers :
                    holds'[u][w] = IF u = p /\ w = b THEN holds[u][w] - 1
                                   ELSE IF u = r /\ w = b THEN holds[u][w] + 1 ELSE holds[u][w]
    BY <1>0, <1>19, Passing
  <2>2. p # r /\ r \in Procs
    BY <2>1
  <2>3. \A u \in Procs, w \in Buffers :
            holds'[u][w] = IF u = p /\ w = b THEN holds[u][w] - 1
                           ELSE IF u = r /\ w = b THEN holds[u][w] + 1 ELSE holds[u][w]
    BY <2>1
  <2>4. /\ at' = at /\ buf' = buf /\ host' = host /\ stage' = stage
        /\ attached' = attached /\ refCount' = refCount
    BY <1>19 DEF Pass, bufferVars, callVars
  <2>5. ASSUME NEW c \in Buffers \ {b} PROVE Counted(c)'
    <3>1. HeldSame(c) /\ HostSame(c) /\ GotSame(c) /\ DropSame(c)
      BY <2>3, <2>4, HostKept DEF HeldSame, GotSame, DropSame
    <3> QED
      BY <2>4, <3>1, SameCount
  <2>6. PICK n \in 1 .. MaxRefs, m \in 1 .. MaxRefs : n = holds[p][b] /\ m = holds[r][b] + 1
    <3>1. holds[p][b] \in 0 .. MaxRefs /\ holds[r][b] \in 0 .. MaxRefs
      BY <1>0, <2>2 DEF TypeOK
    <3>2. holds[p][b] \in 1 .. MaxRefs /\ holds[r][b] + 1 \in 1 .. MaxRefs
      BY <1>0, <2>1, <3>1
    <3> QED
      BY <3>2
  <2>7. Held(p, n) \in Owners(b) /\ Held(r, m) \notin Owners(b)
    <3>1. n <= holds[p][b] /\ ~(m <= holds[r][b])
      BY <1>0, <2>2, <2>6 DEF TypeOK
    <3> QED
      BY <2>2, <3>1, AreOwners
  <2>8. Owners(b)' = (Owners(b) \ {Held(p, n)}) \cup {Held(r, m)}
    <3> DEFINE S == (Owners(b) \ {Held(p, n)}) \cup {Held(r, m)}
    <3>1. S \in SUBSET Owner
      BY <1>0, <2>2 DEF Held, Owner
    <3>2. ASSUME NEW q \in Procs, NEW k \in 1 .. MaxRefs PROVE k <= holds'[q][b] <=> Held(q, k) \in S
      <4>1. holds[q][b] \in Nat /\ k \in Nat /\ n \in Nat /\ m \in Nat
        BY <1>0 DEF TypeOK
      <4>2. holds'[q][b] = IF q = p THEN n - 1 ELSE IF q = r THEN m ELSE holds[q][b]
        BY <2>3, <2>6
      <4>3. k <= holds'[q][b] <=> (k <= holds[q][b] /\ ~(q = p /\ k = n)) \/ (q = r /\ k = m)
        BY <2>2, <2>6, <4>1, <4>2
      <4> QED
        BY <4>3, AreOwners, Different
    <3>3. \A z \in Buffers : b \in attached'[z] /\ ~Attaching(z, b)' <=> Host(z) \in S
      BY <2>4, AreOwners, Different DEF Attaching
    <3>4. \A q \in Procs : at'[q] = "pooled" /\ buf'[q] = b <=> Got(q) \in S
      BY <2>4, AreOwners, Different
    <3>5. \A q \in Procs : stage'[q][b] \in {"pool", "count"} <=> Dropped(q) \in S
      BY <2>4, AreOwners, Different
    <3> HIDE DEF S
    <3>6. Owners(b)' = S
      BY <3>1, <3>2, <3>3, <3>4, <3>5, OwnersBecome
    <3> QED
      BY <3>6 DEF S
  <2>9. Counted(b)'
    BY <2>4, <2>7, <2>8, Moved
  <2> QED
    BY <1>a, <2>5, <2>9
<1> QED
  BY <1>1, <1>2, <1>3, <1>4, <1>5, <1>6, <1>7, <1>8, <1>9, <1>10, <1>11, <1>12, <1>13,
     <1>14, <1>15, <1>16, <1>17, <1>18, <1>19 DEF Next, Use, Get, Inc, Drop

---------------------------------------------------------------------------
(* Places. *)

\* What PlaceOK and DeadOK say of one buffer.
Hand(p, b) == Getting(p, b) \/ Releasing(p, b)

Sound(b) ==
    /\ b \in free[PoolOf[b]] => b \notin leaked /\ ~InHand(b) /\ refCount[b] = 0 /\ attached[b] = {}
    /\ b \in leaked => ~InHand(b) /\ refCount[b] = 0 /\ attached[b] = {}
    /\ refCount[b] = 0 => b \in free[PoolOf[b]] \/ b \in leaked \/ InHand(b)
    /\ \A p, r \in Procs : Hand(p, b) /\ Hand(r, b) => p = r
    /\ \A p \in Procs :
        /\ Getting(p, b) => attached[b] = {} /\ refCount[b] = IF at[p] = "pooled" THEN 1 ELSE 0
        /\ Releasing(p, b) => refCount[b] = 0
        /\ stage[p][b] = "free" => attached[b] = {}

InOwnRing == \A q \in Pools : \A b \in free[q] : PoolOf[b] = q

LEMMA SoundBuffers ==
    PlaceOK /\ DeadOK => InOwnRing /\ \A b \in Buffers : Sound(b)
BY DEF PlaceOK, DeadOK, InOwnRing, Sound, Hand

LEMMA SoundBuffersNext ==
    ASSUME InOwnRing', \A b \in Buffers : Sound(b)'
    PROVE  PlaceOK' /\ DeadOK'
<1>1. PlaceOK'
  BY DEF PlaceOK, InOwnRing, Sound, Hand
<1>2. DeadOK'
  BY DEF DeadOK, Sound
<1> QED
  BY <1>1, <1>2

GettingSame(b) == \A p \in Procs : Getting(p, b)' <=> Getting(p, b)
ReleasingSame(b) == \A p \in Procs : \A l \in {"detach", "free"} : stage'[p][b] = l <=> stage[p][b] = l

LEMMA SoundKept ==
    ASSUME NEW b \in Buffers, Sound(b),
           b \in free'[PoolOf[b]] <=> b \in free[PoolOf[b]], b \in leaked' <=> b \in leaked,
           refCount'[b] = refCount[b], attached[b] = {} => attached'[b] = {},
           GettingSame(b), GotSame(b), ReleasingSame(b)
    PROVE  Sound(b)'
<1>1. /\ \A p \in Procs : Releasing(p, b)' <=> Releasing(p, b)
      /\ \A p \in Procs : stage'[p][b] = "free" <=> stage[p][b] = "free"
  BY DEF ReleasingSame, Releasing
<1>2. /\ InHand(b)' <=> InHand(b)
      /\ \A p \in Procs : Hand(p, b)' <=> Hand(p, b)
  BY <1>1 DEF GettingSame, InHand, Hand
<1>3. \A p \in Procs : Getting(p, b)' => Getting(p, b) /\ (at'[p] = "pooled" <=> at[p] = "pooled")
  BY DEF GettingSame, GotSame, Getting
<1> QED
  BY <1>1, <1>2, <1>3 DEF Sound

\* A buffer with an owner that did not just get it is in use.
LEMMA UsedSound ==
    ASSUME NEW b \in Buffers, b \notin free'[PoolOf[b]], b \notin leaked', ~InHand(b)', refCount'[b] # 0
    PROVE  Sound(b)'
<1>1. \A p \in Procs : ~Hand(p, b)' /\ ~Getting(p, b)' /\ ~Releasing(p, b)'
  BY DEF InHand, Hand
<1>2. \A p \in Procs : stage'[p][b] # "free"
  BY <1>1 DEF Releasing
<1> QED
  BY <1>1, <1>2 DEF Sound

LEMMA StepPlace ==
    ASSUME PoolInv, [Next]_vars
    PROVE  PlaceOK' /\ DeadOK'
<1> USE DEF Goto, Return
<1>0. /\ TypeOK /\ InOwnRing /\ \A b \in Buffers : Sound(b)
      /\ \A u \in Procs : CallOK(u)
      /\ NoBuffer \notin Buffers /\ \A b \in Buffers : PoolOf[b] \in Pools
  BY SoundBuffers, NoneAssumption, PoolAssumption DEF PoolInv, CallsOK
<1>a. ASSUME InOwnRing', \A b \in Buffers : Sound(b)' PROVE PlaceOK' /\ DeadOK'
  BY <1>a, SoundBuffersNext
<1>1. CASE UNCHANGED vars
  <2>1. InOwnRing'
    BY <1>0, <1>1 DEF InOwnRing, vars, poolVars
  <2>2. ASSUME NEW c \in Buffers PROVE Sound(c)'
    <3>1. GettingSame(c) /\ GotSame(c) /\ ReleasingSame(c)
      BY <1>1 DEF GettingSame, GotSame, ReleasingSame, Getting, vars, callVars
    <3>2. UNCHANGED <<free, leaked, refCount, attached>>
      BY <1>1 DEF vars, poolVars, bufferVars
    <3> QED
      BY <1>0, <3>1, <3>2, SoundKept
  <2> QED
    BY <1>a, <2>1, <2>2
<1>2. ASSUME NEW p \in Procs, GetEnter(p) PROVE PlaceOK' /\ DeadOK'
  <2>1. InOwnRing'
    BY <1>0, <1>2 DEF GetEnter, InOwnRing, poolVars
  <2>2. ASSUME NEW c \in Buffers PROVE Sound(c)'
    <3>1. GettingSame(c)
      BY <1>0, <1>2 DEF GetEnter, GettingSame, Getting, Idle, callVars, TypeOK
    <3>2. GotSame(c)
      BY <1>0, <1>2 DEF GetEnter, GotSame, Idle, callVars, TypeOK
    <3>3. ReleasingSame(c)
      BY <1>0, <1>2 DEF GetEnter, ReleasingSame, Step, TypeOK
    <3>4. /\ c \in free'[PoolOf[c]] <=> c \in free[PoolOf[c]]
          /\ c \in leaked' <=> c \in leaked
          /\ refCount'[c] = refCount[c] /\ (attached[c] = {} => attached'[c] = {})
      BY <1>0, <1>2 DEF GetEnter, Add, poolVars, bufferVars, TypeOK
    <3> QED
      BY <1>0, <3>1, <3>2, <3>3, <3>4, SoundKept
  <2> QED
    BY <1>a, <2>1, <2>2
<1>3. ASSUME NEW p \in Procs, GetTry(p) PROVE PlaceOK' /\ DeadOK'
  <2>1. CASE free[pool[p]] # {}
    <3>1. PICK b \in free[pool[p]] : /\ free' = [free EXCEPT ![pool[p]] = @ \ {b}]
                                    /\ buf' = [buf EXCEPT ![p] = b] /\ at' = [at EXCEPT ![p] = "memory"]
      BY <1>3, <2>1 DEF GetTry
    <3>2. /\ pool[p] \in Pools /\ b \in Buffers /\ PoolOf[b] = pool[p]
          /\ UNCHANGED <<refCount, attached, leaked, stage>> /\ at[p] \in {"try", "tryOnce"}
      BY <1>0, <1>3, <3>1 DEF GetTry, bufferVars, CallOK, InOwnRing, TypeOK
    <3>3. /\ at'[p] = "memory" /\ buf'[p] = b
          /\ \A u \in Procs \ {p} : at'[u] = at[u] /\ buf'[u] = buf[u]
      BY <1>0, <3>1 DEF TypeOK
    <3>4. \A q \in Pools : free'[q] = IF q = pool[p] THEN free[q] \ {b} ELSE free[q]
      BY <1>0, <3>1 DEF TypeOK
    <3>5. InOwnRing'
      BY <1>0, <3>4 DEF InOwnRing
    <3>6. ASSUME NEW c \in Buffers \ {b} PROVE Sound(c)'
      <4>1. GettingSame(c) /\ GotSame(c) /\ ReleasingSame(c)
        BY <3>2, <3>3 DEF GettingSame, GotSame, ReleasingSame, Getting
      <4>2. c \in free'[PoolOf[c]] <=> c \in free[PoolOf[c]]
        BY <1>0, <3>4
      <4> QED
        BY <1>0, <3>2, <4>1, <4>2, SoundKept
    <3>7. Sound(b)'
      <4>1. /\ b \notin leaked /\ refCount[b] = 0 /\ attached[b] = {}
            /\ \A u \in Procs : ~Getting(u, b) /\ ~Releasing(u, b)
        BY <1>0, <3>2 DEF Sound, InHand
      <4>2. b \notin free'[PoolOf[b]]
        BY <3>2, <3>4
      <4>3. /\ Getting(p, b)' /\ \A u \in Procs \ {p} : ~Getting(u, b)'
            /\ \A u \in Procs : ~Releasing(u, b)' /\ stage'[u][b] # "free"
        BY <3>2, <3>3, <4>1 DEF Getting, Releasing
      <4>4. InHand(b)' /\ \A u \in Procs : Hand(u, b)' => u = p
        BY <4>3 DEF InHand, Hand
      <4> QED
        BY <3>2, <3>3, <4>1, <4>2, <4>3, <4>4 DEF Sound
    <3> QED
      BY <1>a, <3>5, <3>6, <3>7
  <2>2. CASE free[pool[p]] = {}
    <3>1. free' = free /\ UNCHANGED <<refCount, attached, leaked, stage>>
      BY <1>3, <2>2 DEF GetTry, bufferVars
    <3>2. /\ \A u \in Procs \ {p} : at'[u] = at[u] /\ buf'[u] = buf[u]
          /\ at[p] \in {"try", "tryOnce"} /\ at'[p] \in {"idle", "wait"}
      <4>1. CASE Return(p)
        BY <1>0, <1>3, <4>1 DEF GetTry, TypeOK
      <4>2. CASE Goto(p, "wait") /\ UNCHANGED <<free, pool, buf, host>>
        BY <1>0, <1>3, <4>2 DEF GetTry, TypeOK
      <4> QED
        BY <1>3, <2>2, <4>1, <4>2 DEF GetTry
    <3>3. InOwnRing'
      BY <1>0, <3>1 DEF InOwnRing
    <3>4. ASSUME NEW c \in Buffers PROVE Sound(c)'
      <4>1. GettingSame(c) /\ GotSame(c) /\ ReleasingSame(c)
        BY <3>1, <3>2 DEF GettingSame, GotSame, ReleasingSame, Getting
      <4> QED
        BY <1>0, <3>1, <4>1, SoundKept
    <3> QED
      BY <1>a, <3>3, <3>4
  <2> QED
    BY <2>1, <2>2
<1>4. ASSUME NEW p \in Procs, GetWoken(p) \/ GetTimeout(p) PROVE PlaceOK' /\ DeadOK'
  <2>1. InOwnRing'
    BY <1>0, <1>4 DEF GetWoken, GetTimeout, GetResume, InOwnRing, poolVars
  <2>2. ASSUME NEW c \in Buffers PROVE Sound(c)'
    <3>1. GettingSame(c)
      BY <1>0, <1>4 DEF GetWoken, GetTimeout, GetResume, GettingSame, Getting, Idle, callVars, TypeOK
    <3>2. GotSame(c)
      BY <1>0, <1>4 DEF GetWoken, GetTimeout, GetResume, GotSame, Idle, callVars, TypeOK
    <3>3. ReleasingSame(c)
      BY <1>0, <1>4 DEF GetWoken, GetTimeout, GetResume, ReleasingSame, Step, TypeOK
    <3>4. /\ c \in free'[PoolOf[c]] <=> c \in free[PoolOf[c]]
          /\ c \in leaked' <=> c \in leaked
          /\ refCount'[c] = refCount[c] /\ (attached[c] = {} => attached'[c] = {})
      BY <1>0, <1>4 DEF GetWoken, GetTimeout, GetResume, Add, poolVars, bufferVars, TypeOK
    <3> QED
      BY <1>0, <3>1, <3>2, <3>3, <3>4, SoundKept
  <2> QED
    BY <1>a, <2>1, <2>2
<1>5. ASSUME NEW p \in Procs, GetMemory(p) PROVE PlaceOK' /\ DeadOK'
  <2>1. PICK b \in Buffers : b = buf[p] /\ at[p] = "memory"
    BY <1>0, <1>5 DEF GetMemory, CallOK
  <2>2. InOwnRing'
    BY <1>0, <1>5 DEF GetMemory, InOwnRing, poolVars
  <2>3. UNCHANGED <<free, refCount, attached, stage>>
    BY <1>5 DEF GetMemory, poolVars, bufferVars
  <2>4. CASE Goto(p, "fresh") /\ UNCHANGED <<pool, buf, host, leaked>>
    <3>1. ASSUME NEW c \in Buffers PROVE Sound(c)'
      <4>1. GettingSame(c) /\ GotSame(c) /\ ReleasingSame(c)
        BY <1>0, <2>1, <2>3, <2>4 DEF GettingSame, GotSame, ReleasingSame, Getting, TypeOK
      <4> QED
        BY <1>0, <2>3, <2>4, <4>1, SoundKept
    <3> QED
      BY <1>a, <2>2, <3>1
  <2>5. CASE leaked' = leaked \cup {b} /\ Return(p)
    <3>1. /\ at'[p] = "idle" /\ \A u \in Procs \ {p} : at'[u] = at[u] /\ buf'[u] = buf[u]
      BY <1>0, <2>5 DEF TypeOK
    <3>2. ASSUME NEW c \in Buffers \ {b} PROVE Sound(c)'
      <4>1. GettingSame(c) /\ GotSame(c) /\ ReleasingSame(c)
        BY <2>1, <2>3, <3>1 DEF GettingSame, GotSame, ReleasingSame, Getting
      <4> QED
        BY <1>0, <2>3, <2>5, <4>1, SoundKept
    <3>3. Sound(b)'
      <4>1. Hand(p, b) /\ refCount[b] = 0 /\ attached[b] = {} /\ b \notin free[PoolOf[b]]
        BY <1>0, <2>1 DEF Sound, Getting, Hand, InHand
      <4>2. \A u \in Procs \ {p} : ~Hand(u, b)
        BY <1>0, <4>1 DEF Sound
      <4>3. ~Releasing(p, b) /\ stage[p][b] # "free"
        BY <1>0, <2>1 DEF CallOK, Releasing
      <4>4. /\ \A u \in Procs : ~Getting(u, b)' /\ ~Releasing(u, b)' /\ stage'[u][b] # "free"
        BY <2>3, <3>1, <4>2, <4>3 DEF Getting, Releasing, Hand
      <4>5. ~InHand(b)' /\ \A u \in Procs : ~Hand(u, b)'
        BY <4>4 DEF InHand, Hand
      <4> QED
        BY <2>3, <2>5, <4>1, <4>4, <4>5 DEF Sound
    <3> QED
      BY <1>a, <2>2, <3>2, <3>3
  <2> QED
    BY <1>5, <2>1, <2>4, <2>5 DEF GetMemory
<1>6. ASSUME NEW p \in Procs, GetFresh(p) PROVE PlaceOK' /\ DeadOK'
  <2>1. PICK b \in Buffers : b = buf[p] /\ at[p] = "fresh"
    BY <1>0, <1>6 DEF GetFresh, CallOK
  <2>2. InOwnRing'
    BY <1>0, <1>6 DEF GetFresh, InOwnRing, poolVars
  <2>3. ASSUME NEW c \in Buffers \ {b} PROVE Sound(c)'
    <3>1. GettingSame(c)
      BY <1>0, <1>6, <2>1 DEF GetFresh, GettingSame, Getting, Idle, callVars, TypeOK
    <3>2. GotSame(c)
      BY <1>0, <1>6, <2>1 DEF GetFresh, GotSame, Idle, callVars, TypeOK
    <3>3. ReleasingSame(c)
      BY <1>0, <1>6, <2>1 DEF GetFresh, ReleasingSame, Step, TypeOK
    <3>4. /\ c \in free'[PoolOf[c]] <=> c \in free[PoolOf[c]]
          /\ c \in leaked' <=> c \in leaked
          /\ refCount'[c] = refCount[c] /\ (attached[c] = {} => attached'[c] = {})
      BY <1>0, <1>6, <2>1 DEF GetFresh, Add, poolVars, bufferVars, TypeOK
    <3> QED
      BY <1>0, <3>1, <3>2, <3>3, <3>4, SoundKept
  <2>4. Sound(b)'
    <3>1. /\ UNCHANGED <<free, leaked, stage, buf>> /\ refCount'[b] = 1 /\ attached'[b] = {}
          /\ at'[p] = "pooled" /\ \A u \in Procs \ {p} : at'[u] = at[u]
      BY <1>0, <1>6, <2>1 DEF GetFresh, poolVars, TypeOK
    <3>2. Hand(p, b) /\ b \notin free[PoolOf[b]] /\ b \notin leaked
      BY <1>0, <2>1 DEF Sound, Getting, Hand, InHand
    <3>3. \A u \in Procs \ {p} : ~Hand(u, b)
      BY <1>0, <3>2 DEF Sound
    <3>4. ~Releasing(p, b) /\ stage[p][b] # "free"
      BY <1>0, <2>1 DEF CallOK, Releasing
    <3>5. /\ \A u \in Procs \ {p} : ~Getting(u, b)' /\ ~Hand(u, b)'
          /\ \A u \in Procs : ~Releasing(u, b)' /\ stage'[u][b] # "free"
      BY <3>1, <3>3, <3>4 DEF Getting, Releasing, Hand
    <3> QED
      BY <3>1, <3>2, <3>5 DEF Sound
  <2> QED
    BY <1>a, <2>2, <2>3, <2>4
<1>7. ASSUME NEW p \in Procs, GetPooled(p) PROVE PlaceOK' /\ DeadOK'
  <2>1. PICK b \in Buffers : b = buf[p] /\ at[p] = "pooled"
    BY <1>0, <1>7 DEF GetPooled, CallOK
  <2>2. InOwnRing'
    BY <1>0, <1>7 DEF GetPooled, InOwnRing, poolVars
  <2>3. ASSUME NEW c \in Buffers \ {b} PROVE Sound(c)'
    <3>1. GettingSame(c)
      BY <1>0, <1>7, <2>1 DEF GetPooled, GettingSame, Getting, Idle, callVars, TypeOK
    <3>2. GotSame(c)
      BY <1>0, <1>7, <2>1 DEF GetPooled, GotSame, Idle, callVars, TypeOK
    <3>3. ReleasingSame(c)
      BY <1>0, <1>7, <2>1 DEF GetPooled, ReleasingSame, Step, TypeOK
    <3>4. /\ c \in free'[PoolOf[c]] <=> c \in free[PoolOf[c]]
          /\ c \in leaked' <=> c \in leaked
          /\ refCount'[c] = refCount[c] /\ (attached[c] = {} => attached'[c] = {})
      BY <1>0, <1>7, <2>1 DEF GetPooled, Add, poolVars, bufferVars, TypeOK
    <3> QED
      BY <1>0, <3>1, <3>2, <3>3, <3>4, SoundKept
  <2>4. Sound(b)'
    <3>1. /\ UNCHANGED <<free, leaked, stage, refCount>>
          /\ at'[p] = "idle" /\ \A u \in Procs \ {p} : at'[u] = at[u] /\ buf'[u] = buf[u]
      BY <1>0, <1>7 DEF GetPooled, bufferVars, TypeOK
    <3>2. Hand(p, b) /\ b \notin free[PoolOf[b]] /\ b \notin leaked /\ refCount[b] = 1
      BY <1>0, <2>1 DEF Sound, Getting, Hand, InHand
    <3>3. \A u \in Procs \ {p} : ~Hand(u, b)
      BY <1>0, <3>2 DEF Sound
    <3>4. \A u \in Procs : ~Getting(u, b)' /\ ~Releasing(u, b)'
      BY <1>0, <2>1, <3>1, <3>3 DEF Getting, Releasing, Hand, CallOK
    <3> QED
      BY <3>1, <3>2, <3>4, UsedSound DEF InHand
  <2> QED
    BY <1>a, <2>2, <2>3, <2>4
<1>8. ASSUME NEW q \in Pools, Abort(q) PROVE PlaceOK' /\ DeadOK'
  <2>1. InOwnRing'
    BY <1>0, <1>8 DEF Abort, InOwnRing
  <2>2. ASSUME NEW c \in Buffers PROVE Sound(c)'
    <3>1. GettingSame(c) /\ GotSame(c) /\ ReleasingSame(c)
      BY <1>8 DEF Abort, GettingSame, GotSame, ReleasingSame, Getting, callVars
    <3>2. UNCHANGED <<free, leaked, refCount, attached>>
      BY <1>8 DEF Abort, bufferVars
    <3> QED
      BY <1>0, <3>1, <3>2, SoundKept
  <2> QED
    BY <1>a, <2>1, <2>2
<1>9. ASSUME NEW p \in Procs, IncrementCall(p) PROVE PlaceOK' /\ DeadOK'
  <2>1. InOwnRing'
    BY <1>0, <1>9 DEF IncrementCall, InOwnRing, poolVars
  <2>2. ASSUME NEW c \in Buffers PROVE Sound(c)'
    <3>1. GettingSame(c)
      BY <1>0, <1>9 DEF IncrementCall, GettingSame, Getting, Idle, callVars, TypeOK
    <3>2. GotSame(c)
      BY <1>0, <1>9 DEF IncrementCall, GotSame, Idle, callVars, TypeOK
    <3>3. ReleasingSame(c)
      BY <1>0, <1>9 DEF IncrementCall, ReleasingSame, Step, TypeOK
    <3>4. /\ c \in free'[PoolOf[c]] <=> c \in free[PoolOf[c]]
          /\ c \in leaked' <=> c \in leaked
          /\ refCount'[c] = refCount[c] /\ (attached[c] = {} => attached'[c] = {})
      BY <1>0, <1>9 DEF IncrementCall, Add, poolVars, bufferVars, TypeOK
    <3> QED
      BY <1>0, <3>1, <3>2, <3>3, <3>4, SoundKept
  <2> QED
    BY <1>a, <2>1, <2>2
<1>10. ASSUME NEW p \in Procs, AttachCall(p) PROVE PlaceOK' /\ DeadOK'
  <2>1. PICK a \in Buffers, b \in Buffers :
            /\ holds[p][a] > 0 /\ attached' = [attached EXCEPT ![a] = @ \cup {b}]
            /\ buf' = [buf EXCEPT ![p] = b]
    BY <1>10 DEF AttachCall
  <2>2. InOwnRing'
    BY <1>0, <1>10 DEF AttachCall, InOwnRing, poolVars
  <2>3. UNCHANGED <<free, leaked, refCount, stage>> /\ at[p] = "idle" /\ at'[p] = "incPool"
        /\ \A u \in Procs \ {p} : at'[u] = at[u] /\ buf'[u] = buf[u]
    BY <1>0, <1>10, <2>1 DEF AttachCall, poolVars, Idle, TypeOK
  <2>4. \A c \in Buffers : GettingSame(c) /\ GotSame(c) /\ ReleasingSame(c)
    BY <2>3 DEF GettingSame, GotSame, ReleasingSame, Getting
  <2>5. ASSUME NEW c \in Buffers \ {a} PROVE Sound(c)'
    <3>1. attached'[c] = attached[c]
      BY <1>0, <2>1 DEF TypeOK
    <3> QED
      BY <1>0, <2>3, <2>4, <3>1, SoundKept
  <2>6. Sound(a)'
    <3>1. Held(p, 1) \in Owners(a) /\ Held(p, 1).kind # "got"
      BY <2>1, HoldersOwn DEF PoolInv, Held
    <3>2. a \notin free[PoolOf[a]] /\ a \notin leaked /\ ~InHand(a) /\ refCount[a] > 0
      BY <3>1, OwnedNotDead
    <3>3. ~InHand(a)'
      BY <2>3, <2>4, <3>2 DEF InHand, GettingSame, Releasing
    <3> QED
      BY <2>3, <3>2, <3>3, UsedSound
  <2> QED
    BY <1>a, <2>2, <2>5, <2>6
<1>11. ASSUME NEW p \in Procs, IncrementPool(p) PROVE PlaceOK' /\ DeadOK'
  <2>1. InOwnRing'
    BY <1>0, <1>11 DEF IncrementPool, InOwnRing, poolVars
  <2>2. ASSUME NEW c \in Buffers PROVE Sound(c)'
    <3>1. GettingSame(c)
      BY <1>0, <1>11 DEF IncrementPool, GettingSame, Getting, Idle, callVars, TypeOK
    <3>2. GotSame(c)
      BY <1>0, <1>11 DEF IncrementPool, GotSame, Idle, callVars, TypeOK
    <3>3. ReleasingSame(c)
      BY <1>0, <1>11 DEF IncrementPool, ReleasingSame, Step, TypeOK
    <3>4. /\ c \in free'[PoolOf[c]] <=> c \in free[PoolOf[c]]
          /\ c \in leaked' <=> c \in leaked
          /\ refCount'[c] = refCount[c] /\ (attached[c] = {} => attached'[c] = {})
      BY <1>0, <1>11 DEF IncrementPool, Add, poolVars, bufferVars, TypeOK
    <3> QED
      BY <1>0, <3>1, <3>2, <3>3, <3>4, SoundKept
  <2> QED
    BY <1>a, <2>1, <2>2
<1>12. ASSUME NEW p \in Procs, IncrementCount(p) PROVE PlaceOK' /\ DeadOK'
  <2>1. PICK b \in Buffers : b = buf[p] /\ holds[p][b] > 0 /\ at[p] = "inc"
    BY <1>0, <1>12 DEF IncrementCount, CallOK
  <2>2. InOwnRing'
    BY <1>0, <1>12 DEF IncrementCount, InOwnRing, poolVars
  <2>3. /\ UNCHANGED <<free, leaked, stage, attached>> /\ at'[p] = "idle"
        /\ \A u \in Procs \ {p} : at'[u] = at[u] /\ buf'[u] = buf[u]
        /\ \A c \in Buffers : refCount'[c] = IF c = b THEN refCount[c] + 1 ELSE refCount[c]
    BY <1>0, <1>12, <2>1 DEF IncrementCount, poolVars, Add, TypeOK
  <2>4. \A c \in Buffers : GettingSame(c) /\ GotSame(c) /\ ReleasingSame(c)
    BY <2>1, <2>3 DEF GettingSame, GotSame, ReleasingSame, Getting
  <2>5. ASSUME NEW c \in Buffers \ {b} PROVE Sound(c)'
    BY <1>0, <2>3, <2>4, SoundKept
  <2>6. Sound(b)'
    <3>1. Held(p, 1) \in Owners(b) /\ Held(p, 1).kind # "got"
      BY <2>1, HoldersOwn DEF PoolInv, Held
    <3>2. b \notin free[PoolOf[b]] /\ b \notin leaked /\ ~InHand(b) /\ refCount[b] > 0
      BY <3>1, OwnedNotDead
    <3>3. ~InHand(b)'
      BY <2>3, <2>4, <3>2 DEF InHand, GettingSame, Releasing
    <3>4. refCount[b] \in Nat /\ refCount'[b] # 0
      BY <1>0, <2>3, <3>2 DEF TypeOK
    <3> QED
      BY <2>3, <3>2, <3>3, <3>4, UsedSound
  <2> QED
    BY <1>a, <2>2, <2>5, <2>6
<1>13. ASSUME NEW p \in Procs, DecrementCall(p) PROVE PlaceOK' /\ DeadOK'
  <2>1. PICK b \in Buffers : Step(p, b, "pool") /\ stage[p][b] = "none"
    BY <1>13 DEF DecrementCall, Idle
  <2>2. InOwnRing'
    BY <1>0, <1>13 DEF DecrementCall, InOwnRing, poolVars
  <2>3. ASSUME NEW c \in Buffers PROVE Sound(c)'
    <3>1. GettingSame(c)
      BY <1>0, <1>13, <2>1 DEF DecrementCall, GettingSame, Getting, Idle, callVars, TypeOK
    <3>2. GotSame(c)
      BY <1>0, <1>13, <2>1 DEF DecrementCall, GotSame, Idle, callVars, TypeOK
    <3>3. ReleasingSame(c)
      BY <1>0, <1>13, <2>1 DEF DecrementCall, ReleasingSame, Step, TypeOK
    <3>4. /\ c \in free'[PoolOf[c]] <=> c \in free[PoolOf[c]]
          /\ c \in leaked' <=> c \in leaked
          /\ refCount'[c] = refCount[c] /\ (attached[c] = {} => attached'[c] = {})
      BY <1>0, <1>13, <2>1 DEF DecrementCall, Add, poolVars, bufferVars, TypeOK
    <3> QED
      BY <1>0, <3>1, <3>2, <3>3, <3>4, SoundKept
  <2> QED
    BY <1>a, <2>2, <2>3
<1>14. ASSUME NEW p \in Procs, DetachCall(p) PROVE PlaceOK' /\ DeadOK'
  <2>1. PICK a \in Buffers, b \in Buffers : /\ Step(p, b, "pool") /\ stage[p][b] = "none"
                                          /\ attached' = [attached EXCEPT ![a] = @ \ {b}]
    BY <1>14 DEF DetachCall, Idle
  <2>2. InOwnRing'
    BY <1>0, <1>14 DEF DetachCall, InOwnRing, poolVars
  <2>3. ASSUME NEW c \in Buffers PROVE Sound(c)'
    <3>1. GettingSame(c)
      BY <1>0, <1>14, <2>1 DEF DetachCall, GettingSame, Getting, Idle, callVars, TypeOK
    <3>2. GotSame(c)
      BY <1>0, <1>14, <2>1 DEF DetachCall, GotSame, Idle, callVars, TypeOK
    <3>3. ReleasingSame(c)
      BY <1>0, <1>14, <2>1 DEF DetachCall, ReleasingSame, Step, TypeOK
    <3>4. /\ c \in free'[PoolOf[c]] <=> c \in free[PoolOf[c]]
          /\ c \in leaked' <=> c \in leaked
          /\ refCount'[c] = refCount[c] /\ (attached[c] = {} => attached'[c] = {})
      BY <1>0, <1>14, <2>1 DEF DetachCall, Add, poolVars, bufferVars, TypeOK
    <3> QED
      BY <1>0, <3>1, <3>2, <3>3, <3>4, SoundKept
  <2> QED
    BY <1>a, <2>2, <2>3
<1>15. ASSUME NEW p \in Procs, NEW b \in Buffers, DecrementPool(p, b) PROVE PlaceOK' /\ DeadOK'
  <2>1. InOwnRing'
    BY <1>0, <1>15 DEF DecrementPool, InOwnRing, poolVars
  <2>2. ASSUME NEW c \in Buffers PROVE Sound(c)'
    <3>1. GettingSame(c)
      BY <1>0, <1>15 DEF DecrementPool, GettingSame, Getting, Idle, callVars, TypeOK
    <3>2. GotSame(c)
      BY <1>0, <1>15 DEF DecrementPool, GotSame, Idle, callVars, TypeOK
    <3>3. ReleasingSame(c)
      BY <1>0, <1>15 DEF DecrementPool, ReleasingSame, Step, TypeOK
    <3>4. /\ c \in free'[PoolOf[c]] <=> c \in free[PoolOf[c]]
          /\ c \in leaked' <=> c \in leaked
          /\ refCount'[c] = refCount[c] /\ (attached[c] = {} => attached'[c] = {})
      BY <1>0, <1>15 DEF DecrementPool, Add, poolVars, bufferVars, TypeOK
    <3> QED
      BY <1>0, <3>1, <3>2, <3>3, <3>4, SoundKept
  <2> QED
    BY <1>a, <2>1, <2>2
<1>16. ASSUME NEW p \in Procs, NEW b \in Buffers, DecrementCount(p, b) PROVE PlaceOK' /\ DeadOK'
  <2>1. InOwnRing'
    BY <1>0, <1>16 DEF DecrementCount, InOwnRing, poolVars
  <2>2. ASSUME NEW c \in Buffers \ {b} PROVE Sound(c)'
    <3>1. GettingSame(c)
      BY <1>0, <1>16 DEF DecrementCount, GettingSame, Getting, Idle, callVars, TypeOK
    <3>2. GotSame(c)
      BY <1>0, <1>16 DEF DecrementCount, GotSame, Idle, callVars, TypeOK
    <3>3. ReleasingSame(c)
      <4>1. CASE Step(p, b, "detach")
        BY <1>0, <4>1 DEF ReleasingSame, Step, TypeOK
      <4>2. CASE Step(p, b, "none")
        BY <1>0, <4>2 DEF ReleasingSame, Step, TypeOK
      <4> QED
        BY <1>16, <4>1, <4>2 DEF DecrementCount
    <3>4. /\ c \in free'[PoolOf[c]] <=> c \in free[PoolOf[c]]
          /\ c \in leaked' <=> c \in leaked
          /\ refCount'[c] = refCount[c] /\ (attached[c] = {} => attached'[c] = {})
      BY <1>0, <1>16 DEF DecrementCount, Add, poolVars, bufferVars, TypeOK
    <3> QED
      BY <1>0, <3>1, <3>2, <3>3, <3>4, SoundKept
  <2>3. /\ UNCHANGED <<free, leaked, attached, at, buf>> /\ refCount'[b] = refCount[b] - 1
        /\ \A u \in Procs \ {p} : stage'[u][b] = stage[u][b]
        /\ stage'[p][b] = IF refCount[b] = 1 THEN "detach" ELSE "none"
    <3>1. UNCHANGED <<free, leaked, attached, at, buf>> /\ refCount'[b] = refCount[b] - 1
      BY <1>0, <1>16 DEF DecrementCount, poolVars, callVars, Add, TypeOK
    <3>2. /\ \A u \in Procs \ {p} : stage'[u][b] = stage[u][b]
          /\ stage'[p][b] = IF refCount[b] = 1 THEN "detach" ELSE "none"
      BY <1>0, <1>16 DEF DecrementCount, Step, TypeOK
    <3> QED
      BY <3>1, <3>2
  <2>4. b \notin free[PoolOf[b]] /\ b \notin leaked /\ ~InHand(b) /\ refCount[b] > 0
    <3>1. Dropped(p) \in Owners(b) /\ Dropped(p).kind # "got"
      BY <1>16, AreOwners DEF DecrementCount, Dropped
    <3> QED
      BY <3>1, OwnedNotDead
  <2>5. \A u \in Procs : ~Getting(u, b)' /\ (u # p => ~Releasing(u, b)')
    BY <2>3, <2>4 DEF InHand, Getting, Releasing
  <2>6. Sound(b)'
    <3>1. CASE refCount[b] = 1
      <4>1. refCount'[b] = 0 /\ Releasing(p, b)'
        BY <2>3, <3>1 DEF Releasing
      <4>2. InHand(b)' /\ \A u \in Procs : (Hand(u, b)' => u = p) /\ stage'[u][b] # "free"
        BY <2>3, <2>5, <3>1, <4>1 DEF InHand, Hand, Releasing
      <4> QED
        BY <2>3, <2>4, <2>5, <4>1, <4>2 DEF Sound
    <3>2. CASE refCount[b] # 1
      <4>1. ~Releasing(p, b)'
        BY <2>3, <3>2 DEF Releasing
      <4>2. ~InHand(b)'
        BY <2>5, <4>1 DEF InHand
      <4>3. refCount[b] \in Nat /\ refCount'[b] # 0
        BY <1>0, <2>3, <3>2 DEF TypeOK
      <4> QED
        BY <2>3, <2>4, <4>2, <4>3, UsedSound
    <3> QED
      BY <3>1, <3>2
  <2> QED
    BY <1>a, <2>1, <2>2, <2>6
<1>17. ASSUME NEW p \in Procs, NEW a \in Buffers, ReleaseAttached(p, a) PROVE PlaceOK' /\ DeadOK'
  <2>1. InOwnRing'
    BY <1>0, <1>17 DEF ReleaseAttached, InOwnRing, poolVars
  <2>2. UNCHANGED <<free, leaked, refCount, at, buf>> /\ stage[p][a] = "detach"
    BY <1>17 DEF ReleaseAttached, poolVars, callVars
  <2>3. \A c \in Buffers : GettingSame(c) /\ GotSame(c)
    BY <2>2 DEF GettingSame, GotSame, Getting
  <2>4. CASE attached[a] = {} /\ Step(p, a, "free") /\ UNCHANGED attached
    <3>1. \A u \in Procs, c \in Buffers :
            stage'[u][c] = IF u = p /\ c = a THEN "free" ELSE stage[u][c]
      BY <1>0, <2>4 DEF Step, TypeOK
    <3>2. ASSUME NEW c \in Buffers \ {a} PROVE Sound(c)'
      <4>1. ReleasingSame(c)
        BY <3>1 DEF ReleasingSame
      <4> QED
        BY <1>0, <2>2, <2>3, <2>4, <4>1, SoundKept
    <3>3. Sound(a)'
      <4>1. \A u \in Procs : Releasing(u, a)' <=> Releasing(u, a)
        BY <2>2, <3>1 DEF Releasing
      <4>2. /\ InHand(a)' <=> InHand(a)
            /\ \A u \in Procs : (Hand(u, a)' <=> Hand(u, a)) /\ (Getting(u, a)' <=> Getting(u, a))
        BY <2>3, <4>1 DEF InHand, Hand, GettingSame
      <4> QED
        BY <1>0, <2>2, <2>4, <4>1, <4>2 DEF Sound
    <3> QED
      BY <1>a, <2>1, <3>2, <3>3
  <2>5. CASE \E b \in attached[a] : attached' = [attached EXCEPT ![a] = @ \ {b}] /\ Step(p, b, "pool")
    <3>1. PICK b \in Buffers : /\ b \in attached[a] /\ attached' = [attached EXCEPT ![a] = @ \ {b}]
                              /\ Step(p, b, "pool")
      BY <1>0, <2>5 DEF TypeOK
    <3>2. stage[p][b] = "none"
      BY <1>0, <1>17, <3>1 DEF ReleaseAttached, PoolInv, AttachOK
    <3>3. \A u \in Procs, c \in Buffers :
            stage'[u][c] = IF u = p /\ c = b THEN "pool" ELSE stage[u][c]
      BY <1>0, <3>1 DEF Step, TypeOK
    <3>4. ASSUME NEW c \in Buffers PROVE Sound(c)'
      <4>1. ReleasingSame(c)
        BY <3>2, <3>3 DEF ReleasingSame
      <4>2. attached[c] = {} => attached'[c] = {}
        BY <1>0, <3>1 DEF TypeOK
      <4> QED
        BY <1>0, <2>2, <2>3, <4>1, <4>2, SoundKept
    <3> QED
      BY <1>a, <2>1, <3>4
  <2> QED
    BY <1>17, <2>4, <2>5 DEF ReleaseAttached
<1>18. ASSUME NEW p \in Procs, NEW b \in Buffers, ReleaseInsert(p, b) PROVE PlaceOK' /\ DeadOK'
  <2>1. /\ UNCHANGED <<leaked, refCount, attached, at, buf>> /\ stage[p][b] = "free"
        /\ \A q \in Pools : free'[q] = IF q = PoolOf[b] THEN free[q] \cup {b} ELSE free[q]
    BY <1>0, <1>18 DEF ReleaseInsert, bufferVars, callVars, TypeOK
  <2>2. \A u \in Procs, c \in Buffers :
            stage'[u][c] = IF u = p /\ c = b THEN "none" ELSE stage[u][c]
    BY <1>0, <1>18 DEF ReleaseInsert, Step, TypeOK
  <2>3. InOwnRing'
    BY <1>0, <2>1, ZenonT(30) DEF InOwnRing
  <2>4. ASSUME NEW c \in Buffers \ {b} PROVE Sound(c)'
    <3>1. GettingSame(c) /\ GotSame(c) /\ ReleasingSame(c)
      BY <2>1, <2>2 DEF GettingSame, GotSame, ReleasingSame, Getting
    <3>2. c \in free'[PoolOf[c]] <=> c \in free[PoolOf[c]]
      BY <1>0, <2>1
    <3> QED
      BY <1>0, <2>1, <3>1, <3>2, SoundKept
  <2>5. Sound(b)'
    <3>1. Releasing(p, b) /\ Hand(p, b) /\ InHand(b)
      BY <2>1 DEF Releasing, Hand, InHand
    <3>2. refCount[b] = 0 /\ attached[b] = {} /\ b \notin leaked
      BY <1>0, <2>1, <3>1 DEF Sound
    <3>3. \A u \in Procs \ {p} : ~Hand(u, b)
      BY <1>0, <3>1 DEF Sound
    <3>4. ~Getting(p, b)
      BY <1>0, <2>1 DEF Getting, CallOK
    <3>5. \A u \in Procs : ~Getting(u, b)' /\ ~Releasing(u, b)'
      BY <2>1, <2>2, <3>3, <3>4 DEF Hand, Getting, Releasing
    <3>6. ~InHand(b)' /\ \A u \in Procs : ~Hand(u, b)' /\ stage'[u][b] # "free"
      BY <3>5 DEF InHand, Hand, Releasing
    <3>7. b \in free'[PoolOf[b]]
      BY <1>0, <2>1
    <3> QED
      BY <2>1, <3>2, <3>5, <3>6, <3>7 DEF Sound
  <2> QED
    BY <1>a, <2>3, <2>4, <2>5
<1>19. ASSUME NEW p \in Procs, Pass(p) PROVE PlaceOK' /\ DeadOK'
  <2>1. InOwnRing'
    BY <1>0, <1>19 DEF Pass, InOwnRing, poolVars
  <2>2. ASSUME NEW c \in Buffers PROVE Sound(c)'
    <3>1. GettingSame(c)
      BY <1>0, <1>19 DEF Pass, GettingSame, Getting, Idle, callVars, TypeOK
    <3>2. GotSame(c)
      BY <1>0, <1>19 DEF Pass, GotSame, Idle, callVars, TypeOK
    <3>3. ReleasingSame(c)
      BY <1>0, <1>19 DEF Pass, ReleasingSame, Step, TypeOK
    <3>4. /\ c \in free'[PoolOf[c]] <=> c \in free[PoolOf[c]]
          /\ c \in leaked' <=> c \in leaked
          /\ refCount'[c] = refCount[c] /\ (attached[c] = {} => attached'[c] = {})
      BY <1>0, <1>19 DEF Pass, Add, poolVars, bufferVars, TypeOK
    <3> QED
      BY <1>0, <3>1, <3>2, <3>3, <3>4, SoundKept
  <2> QED
    BY <1>a, <2>1, <2>2
<1> QED
  BY <1>1, <1>2, <1>3, <1>4, <1>5, <1>6, <1>7, <1>8, <1>9, <1>10, <1>11, <1>12, <1>13,
     <1>14, <1>15, <1>16, <1>17, <1>18, <1>19 DEF Next, Use, Get, Inc, Drop

---------------------------------------------------------------------------
(* The theorems. *)

LEMMA PoolInit == Init => PoolInv
<1> SUFFICES ASSUME Init PROVE PoolInv
  OBVIOUS
<1>1. TypeOK
  BY PoolAssumption, RefsAssumption DEF Init, TypeOK
<1>2. CallsOK
  BY DEF Init, CallsOK, CallOK
<1>3. AttachOK
  BY DEF Init, AttachOK
<1>4. CountOK
  <2>1. ASSUME NEW b \in Buffers PROVE Owners(b) = {}
    <3>1. ASSUME NEW o \in Owner PROVE ~Owns(o, b)
      <4>1. CASE \E p \in Procs, k \in 1 .. MaxRefs : o = Held(p, k)
        BY <4>1, RefsAssumption DEF Init, Owns, Held
      <4>2. CASE \E a \in Buffers : o = Host(a)
        BY <4>2 DEF Init, Owns, Host
      <4>3. CASE \E p \in Procs : o = Got(p) \/ o = Dropped(p)
        BY <4>3 DEF Init, Owns, Got, Dropped
      <4> QED
        BY <4>1, <4>2, <4>3, OwnerCases
    <3> QED
      BY <3>1 DEF Owners
  <2> QED
    BY <2>1, FS_EmptySet DEF Init, CountOK
<1>5. PlaceOK /\ DeadOK
  BY PoolAssumption DEF Init, PlaceOK, DeadOK, InHand, Getting, Releasing
<1> QED
  BY <1>1, <1>2, <1>3, <1>4, <1>5 DEF PoolInv

LEMMA PoolStep == PoolInv /\ [Next]_vars => PoolInv'
BY StepType, StepCalls, StepAttach, StepCount, StepPlace DEF PoolInv

LEMMA PoolInvariant == Spec => []PoolInv
BY PoolInit, PoolStep, PTL DEF Spec

\* The variables keep their types; in particular no reference count becomes
\* negative (TypeOK), whatever the number of threads, buffers and pools.
THEOREM PoolTyped == Spec => []TypeOK
<1>1. PoolInv => TypeOK
  BY DEF PoolInv
<1> QED
  BY <1>1, PoolInvariant, PTL

\* A buffer's reference count is the number of those who refer to it, at every
\* step of the calls that change it (IncrementReferenceCount,
\* DecrementReferenceCount, AttachBuffer, DetachBuffer, ReleaseBuffer).
THEOREM PoolCounts == Spec => []CountsOwners
<1>1. PoolInv => CountsOwners
  BY DEF PoolInv, CountOK, CountsOwners
<1> QED
  BY <1>1, PoolInvariant, PTL

\* A buffer is never in two places: two threads that drop the last two
\* references at once do not both release it (DecrementReferenceCount), and one
\* in the ring of its pool is in nobody's hand (ReleaseBuffer, GetBuffer).
THEOREM PoolPlaces == Spec => []InOnePlace
<1>1. ASSUME PoolInv, NEW b \in Buffers PROVE \E x \in Places(b) : Places(b) = {x}
  <2>0. Sound(b) /\ TypeOK
    BY <1>1, SoundBuffers DEF PoolInv
  <2> DEFINE ring == b \in free[PoolOf[b]]
             leak == b \in leaked
  <2>1. CASE InHand(b)
    <3>1. PICK p \in Procs : Hand(p, b) /\ \A r \in Procs : Hand(r, b) => r = p
      BY <2>0, <2>1 DEF InHand, Hand, Sound
    <3>2. ~ring /\ ~leak /\ ~InUse(b)
      BY <2>0, <2>1, <3>1 DEF Sound, Hand, InUse
    <3>3. Places(b) = {<<"hand", p>>}
      BY <3>1, <3>2 DEF Places, Hand
    <3> QED
      BY <3>3
  <2>2. CASE ~InHand(b)
    <3>1. \A p \in Procs : ~(Getting(p, b) \/ Releasing(p, b))
      BY <2>2 DEF InHand
    <3>2. \/ ring /\ ~leak /\ ~InUse(b)
          \/ ~ring /\ leak /\ ~InUse(b)
          \/ ~ring /\ ~leak /\ InUse(b)
      BY <2>0, <2>2, <3>1 DEF Sound, InUse, TypeOK
    <3> QED
      BY <3>1, <3>2 DEF Places
  <2> QED
    BY <2>1, <2>2
<1>2. PoolInv => InOnePlace
  BY <1>1 DEF InOnePlace
<1> QED
  BY <1>2, PoolInvariant, PTL

\* No call works on a buffer whose last reference is gone, and no guest is left
\* behind when its host is released (AssertNonZeroReferenceCount,
\* ReleaseBuffer).
THEOREM PoolAlive == Spec => []NeverDead
<1>1. ASSUME PoolInv, NEW p \in Procs, at[p] \in {"incPool", "inc"} PROVE refCount[buf[p]] > 0
  <2>1. buf[p] \in Buffers /\ holds[p][buf[p]] > 0
    BY <1>1 DEF PoolInv, CallsOK, CallOK
  <2> QED
    BY <1>1, <2>1, HoldersOwn DEF PoolInv
<1>2. ASSUME PoolInv, NEW p \in Procs, NEW b \in Buffers, stage[p][b] \in {"pool", "count"}
      PROVE  refCount[b] > 0
  <2>1. Dropped(p) \in Owners(b)
    BY <1>2, AreOwners
  <2> QED
    BY <1>2, <2>1, Counting DEF PoolInv
<1>3. ASSUME PoolInv, NEW a \in Buffers, attached[a] # {}
      PROVE  refCount[a] > 0 \/ \E p \in Procs : Releasing(p, a)
  <2>1. Sound(a) /\ refCount[a] \in Nat
    BY <1>3, SoundBuffers DEF PoolInv, TypeOK
  <2> QED
    BY <1>3, <2>1 DEF Sound, InHand
<1>4. PoolInv => NeverDead
  BY <1>1, <1>2, <1>3 DEF NeverDead
<1> QED
  BY <1>4, PoolInvariant, PTL
=============================================================================
