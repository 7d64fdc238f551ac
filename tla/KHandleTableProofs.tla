------------------------- MODULE KHandleTableProofs -------------------------
(***************************************************************************)
(* The structure of KHandleTable, proved for every table size, number of   *)
(* linear ids, set of callers and set of objects: the free list stays      *)
(* whole, a handle resolves exactly while it is live, a handle value comes *)
(* back late, and the reference count of an object counts the entries and  *)
(* the callers that hold it.                                               *)
(***************************************************************************)
EXTENDS KHandleTable, FiniteSetTheorems, TLAPS

\* Leaves are given to the SMT solver, then to Zenon, unless they name their prover.
USE SizeAssumption, ObjectAssumption, WatchedAssumption, SMTT(60), SMTT(61), ZenonT(60)

(***************************************************************************)
(* What the two operations on the free list do to it.                      *)
(***************************************************************************)

\* AllocateEntry: the rest of the list is the list of the other free entries,
\* whatever is written to the cells of entries that are not free.
LEMMA PopFree ==
    ASSUME NEW n \in Nat \ {0}, NEW s \in [1..n -> Index],
           NEW head, NEW next, NEW free, NEW next2, NEW free2,
           IsFreeList(s, n, head, next, free),
           free2 = free \ {head},
           \A i \in free2 : next2[i] = next[i]
    PROVE  /\ head \in Index /\ head \in free
           /\ \E t \in [1..(n - 1) -> Index] :
                 IsFreeList(t, n - 1, next[head], next2, free2)
<1> DEFINE t == [j \in 1..(n - 1) |-> s[j + 1]]
<1>1. head = s[1] /\ head \in Index /\ head \in free
  BY DEF IsFreeList
<1>2. t \in [1..(n - 1) -> Index]
  OBVIOUS
<1>3. next[head] = IF n - 1 = 0 THEN -1 ELSE t[1]
  BY <1>1 DEF IsFreeList
<1>4. \A j \in 1..(n - 1) : t[j] \in free2
  <2> SUFFICES ASSUME NEW j \in 1..(n - 1) PROVE t[j] \in free2
    OBVIOUS
  <2>1. j + 1 \in 1..n /\ 1 \in 1..n /\ t[j] = s[j + 1]
    OBVIOUS
  <2>2. s[j + 1] # s[1]
    BY <2>1 DEF IsFreeList
  <2> QED BY <1>1, <2>1, <2>2 DEF IsFreeList
<1>5. \A j \in 1..(n - 1) : next2[t[j]] = IF j = n - 1 THEN -1 ELSE t[j + 1]
  <2> SUFFICES ASSUME NEW j \in 1..(n - 1)
               PROVE next2[t[j]] = IF j = n - 1 THEN -1 ELSE t[j + 1]
    BY ZenonT(60)
  <2>1. next2[t[j]] = next[s[j + 1]]
    BY <1>4
  <2>2. next[s[j + 1]] = IF j + 1 = n THEN -1 ELSE s[j + 2]
    BY DEF IsFreeList
  <2> QED BY <2>1, <2>2
<1>6. \A j, k \in 1..(n - 1) : t[j] = t[k] => j = k
  BY DEF IsFreeList
<1>7. ASSUME NEW i \in free2 PROVE \E j \in 1..(n - 1) : t[j] = i
  <2>1. PICK k \in 1..n : s[k] = i
    BY DEF IsFreeList
  <2>2. k # 1
    BY <1>1, <2>1
  <2>3. k - 1 \in 1..(n - 1) /\ t[k - 1] = s[k]
    BY <2>2
  <2> QED BY <2>1, <2>3
<1> HIDE DEF t
<1>8. IsFreeList(t, n - 1, next[head], next2, free2)
  BY <1>3, <1>4, <1>5, <1>6, <1>7 DEF IsFreeList
<1> QED BY <1>1, <1>2, <1>8

\* The free list is no longer than the table.
LEMMA FreeListBound ==
    ASSUME NEW n \in Nat, NEW s \in [1..n -> Index],
           \A j, k \in 1..n : s[j] = s[k] => j = k
    PROVE  n <= TableSize
<1>1. IsFiniteSet(Index) /\ Cardinality(Index) = TableSize
  BY FS_Interval DEF Index
<1>2. IsFiniteSet(1..n) /\ Cardinality(1..n) = n
  BY FS_Interval
<1>3. s \in Injection(1..n, Index)
  BY DEF Injection, IsInjective
<1> QED BY <1>1, <1>2, <1>3, FS_Injection

(***************************************************************************)
(* The inductive invariant.                                                *)
(***************************************************************************)

\* The invariant holds in the initial states.
LEMMA InitIInv == Init => IInv
<1> SUFFICES ASSUME Init PROVE IInv
  OBVIOUS
<1>1. TypeOK
  BY DEF Init, TypeOK, Index, LinearId, NoHandle, EncodeHandle
<1>2. FreeListIntact
  <2> DEFINE s == [j \in 1..TableSize |-> TableSize - j]
  <2>1. s \in [1..(TableSize - count) -> Index] /\ TableSize - count = TableSize
    BY DEF Init, Index
  <2>2. FreeIndex = Index
    BY DEF Init, FreeIndex, Reserved
  <2>3. IsFreeList(s, TableSize, freeHead, info, Index)
    <3>1. \A i \in Index : \E j \in 1..TableSize : s[j] = i
      <4> SUFFICES ASSUME NEW i \in Index PROVE s[TableSize - i] = i /\ TableSize - i \in 1..TableSize
        BY ZenonT(60)
      <4> QED BY DEF Index
    <3>2. freeHead = IF TableSize = 0 THEN -1 ELSE s[1]
      BY DEF Init
    <3>3. \A j \in 1..TableSize : s[j] \in Index /\ s[j] = TableSize - j
      BY DEF Index
    <3>4. \A j \in 1..TableSize : info[s[j]] = IF j = TableSize THEN -1 ELSE s[j + 1]
      BY <3>3 DEF Init
    <3>5. \A j, k \in 1..TableSize : s[j] = s[k] => j = k
      BY <3>3
    <3> HIDE DEF s
    <3> QED BY <3>1, <3>2, <3>3, <3>4, <3>5 DEF IsFreeList
  <2> HIDE DEF s
  <2> QED BY <2>1, <2>2, <2>3 DEF FreeListIntact
<1>3. ReservedStayEmpty
  BY DEF Init, ReservedStayEmpty
<1>4. LiveExact
  BY DEF Init, LiveExact, Index
<1>5. SinceExact /\ ReservationNumbered
  BY DEF Init, SinceExact, ReservationNumbered
<1> QED BY <1>1, <1>2, <1>3, <1>4, <1>5 DEF IInv

\* AllocateEntry takes a free entry, and its cell holds a free index.
LEMMA HeadIsFree ==
    ASSUME IInv, count < tableSize
    PROVE  freeHead \in FreeIndex /\ info[freeHead] \in -1..(TableSize - 1)
<1> DEFINE n == TableSize - count
<1>1. n \in Nat \ {0} /\ tableSize # 0
  BY DEF IInv, TypeOK
<1>2. PICK s \in [1..n -> Index] : IsFreeList(s, n, freeHead, info, FreeIndex)
  BY <1>1 DEF IInv, FreeListIntact
<1>3. 1 \in 1..n /\ freeHead = s[1]
  BY <1>1, <1>2 DEF IsFreeList
<1>4. info[freeHead] = IF 1 = n THEN -1 ELSE s[2]
  BY <1>2, <1>3 DEF IsFreeList
<1>5. n # 1 => s[2] \in Index
  BY <1>1
<1>6. freeHead \in FreeIndex
  BY <1>2, <1>3 DEF IsFreeList
<1> QED BY <1>4, <1>5, <1>6 DEF Index

\* AllocateEntry keeps the free list.
LEMMA AllocateKeepsList ==
    ASSUME IInv, Allocate,
           FreeIndex' = FreeIndex \ {freeHead},
           \A i \in FreeIndex \ {freeHead} : info'[i] = info[i]
    PROVE  FreeListIntact'
<1> DEFINE n == TableSize - count
<1>1. n \in Nat \ {0} /\ tableSize # 0
  BY DEF IInv, TypeOK, Allocate
<1>2. PICK s \in [1..n -> Index] : IsFreeList(s, n, freeHead, info, FreeIndex)
  BY <1>1 DEF IInv, FreeListIntact
<1>3. PICK t \in [1..(n - 1) -> Index] :
         IsFreeList(t, n - 1, info[freeHead], info', FreeIndex')
  BY ZenonT(60), <1>1, <1>2, PopFree
<1>4. n - 1 = TableSize - count' /\ freeHead' = info[freeHead]
  BY DEF Allocate, IInv, TypeOK
<1> QED BY <1>3, <1>4 DEF FreeListIntact

\* FreeEntry keeps the free list when it frees an entry that was not free, and
\* such an entry was counted.
LEMMA FreeEntryKeepsList ==
    ASSUME IInv, tableSize # 0,
           NEW e \in Index \ FreeIndex, FreeEntry(e),
           FreeIndex' = FreeIndex \cup {e}
    PROVE  FreeListIntact' /\ count > 0
<1>1. PICK n \in Nat : n = TableSize - count
  BY DEF IInv, TypeOK
<1>2. PICK s \in [1..n -> Index] : IsFreeList(s, n, freeHead, info, FreeIndex)
  BY <1>1 DEF IInv, FreeListIntact
<1>3. /\ e \in Index /\ e \notin FreeIndex
      /\ info'[e] = freeHead
      /\ \A i \in FreeIndex : info'[i] = info[i]
  BY DEF FreeEntry, IInv, TypeOK, FreeIndex
<1>4. PICK t \in [1..(n + 1) -> Index] : IsFreeList(t, n + 1, e, info', FreeIndex')
  <2> DEFINE t == [j \in 1..(n + 1) |-> IF j = 1 THEN e ELSE s[j - 1]]
  <2>1. t \in [1..(n + 1) -> Index]
    OBVIOUS
  <2>2. t[1] = e /\ \A j \in 2..(n + 1) : t[j] = s[j - 1] /\ j - 1 \in 1..n
    OBVIOUS
  <2>3. \A j \in 2..(n + 1) : t[j] \in FreeIndex
    BY <1>2, <2>2 DEF IsFreeList
  <2> HIDE DEF t
  <2>4. info'[t[1]] = IF 1 = n + 1 THEN -1 ELSE t[2]
    BY <1>2, <1>3, <2>2 DEF IsFreeList
  <2>5. ASSUME NEW j \in 2..(n + 1)
        PROVE info'[t[j]] = IF j = n + 1 THEN -1 ELSE t[j + 1]
    <3>1. info'[t[j]] = info[s[j - 1]]
      BY <1>3, <2>2, <2>3
    <3>2. info[s[j - 1]] = IF j - 1 = n THEN -1 ELSE s[j]
      BY <1>2, <2>2 DEF IsFreeList
    <3>3. j # n + 1 => t[j + 1] = s[j]
      BY <2>2
    <3> QED BY <3>1, <3>2, <3>3
  <2>6. \A j, k \in 1..(n + 1) : t[j] = t[k] => j = k
    <3> SUFFICES ASSUME NEW j \in 1..(n + 1), NEW k \in 1..(n + 1), t[j] = t[k] PROVE j = k
      OBVIOUS
    <3>1. CASE j = 1 \/ k = 1
      BY <3>1, <2>2, <2>3
    <3>2. CASE j # 1 /\ k # 1
      <4>1. s[j - 1] = s[k - 1] /\ j - 1 \in 1..n /\ k - 1 \in 1..n
        BY <3>2, <2>2
      <4>2. j - 1 = k - 1
        BY <1>2, <4>1 DEF IsFreeList
      <4> QED BY <4>2
    <3> QED BY <3>1, <3>2
  <2>7. \A j \in 1..(n + 1) : t[j] \in FreeIndex'
    BY <2>2, <2>3
  <2>8. ASSUME NEW i \in FreeIndex' PROVE \E j \in 1..(n + 1) : t[j] = i
    <3>1. CASE i = e
      BY <3>1, <2>2
    <3>2. CASE i \in FreeIndex
      <4>1. PICK k \in 1..n : s[k] = i
        BY <1>2, <3>2 DEF IsFreeList
      <4>2. k + 1 \in 2..(n + 1) /\ (k + 1) - 1 = k
        OBVIOUS
      <4>3. t[k + 1] = i
        BY <4>1, <4>2, <2>2
      <4> QED BY <4>2, <4>3
    <3> QED BY <3>1, <3>2
  <2>9. \A j \in 1..(n + 1) : info'[t[j]] = IF j = n + 1 THEN -1 ELSE t[j + 1]
    BY <2>4, <2>5
  <2>10. IsFreeList(t, n + 1, e, info', FreeIndex')
    BY <2>2, <2>6, <2>7, <2>8, <2>9 DEF IsFreeList
  <2> QED BY <2>1, <2>10
<1>5. n + 1 = TableSize - count' /\ freeHead' = e
  BY <1>1 DEF FreeEntry, IInv, TypeOK
<1>6. n + 1 <= TableSize
  <2>1. \A j, k \in 1..(n + 1) : t[j] = t[k] => j = k
    BY <1>4 DEF IsFreeList
  <2>2. PICK m \in Nat : m = n + 1
    OBVIOUS
  <2>3. t \in [1..m -> Index] /\ \A j, k \in 1..m : t[j] = t[k] => j = k
    BY <2>1, <2>2
  <2>4. m <= TableSize
    BY <2>3, FreeListBound
  <2> QED BY <2>2, <2>4
<1>7. count > 0
  BY <1>1, <1>6 DEF IInv, TypeOK
<1> QED BY <1>4, <1>5, <1>7 DEF FreeListIntact

\* The list does not change when neither the free entries nor their cells do.
LEMMA QuietKeepsList ==
    ASSUME FreeListIntact, FreeIndex' = FreeIndex,
           UNCHANGED <<freeHead, count, tableSize>>,
           \A i \in FreeIndex : info'[i] = info[i]
    PROVE  FreeListIntact'
<1> SUFFICES ASSUME tableSize # 0 PROVE FreeListIntact'
  BY DEF FreeListIntact
<1> DEFINE n == TableSize - count
<1>1. PICK s \in [1..n -> Index] : IsFreeList(s, n, freeHead, info, FreeIndex)
  BY DEF FreeListIntact
<1>2. IsFreeList(s, n, freeHead', info', FreeIndex')
  BY <1>1 DEF IsFreeList
<1>3. n = TableSize - count'
  OBVIOUS
<1> QED BY <1>1, <1>2, <1>3 DEF FreeListIntact

\* AllocateLinearId moves one id on, as the count of allocations does.
LEMMA AllocateKeepsSince ==
    ASSUME IInv, Allocate
    PROVE  SinceExact' /\ since' \in 0..MaxLinearId /\ nextLinearId' \in LinearId
<1>1. /\ nextLinearId \in 1..MaxLinearId
      /\ since \in 0..MaxLinearId
      /\ Watched.linearId \in 1..MaxLinearId
  BY DEF IInv, TypeOK, LinearId
<1>2. nextLinearId' = IF nextLinearId + 1 > MaxLinearId THEN 1 ELSE nextLinearId + 1
  BY DEF Allocate, AllocateLinearId
<1>3. CASE EncodeHandle(freeHead, nextLinearId) = Watched
  <2>1. since' = 0 /\ Watched.linearId = nextLinearId
    BY <1>3 DEF Allocate, EncodeHandle
  <2> QED BY <1>1, <1>2, <2>1 DEF SinceExact, LinearId
<1>4. CASE EncodeHandle(freeHead, nextLinearId) # Watched
  <2>1. since' = IF since < MaxLinearId THEN since + 1 ELSE since
    BY <1>4 DEF Allocate
  <2> QED BY <1>1, <1>2, <2>1 DEF SinceExact, IInv, LinearId
<1> QED BY <1>3, <1>4

\* ReferenceCount::Open keeps the type of the counts.
LEMMA OpenedType ==
    ASSUME NEW counts \in [Object -> Int], NEW o \in Object
    PROVE  Opened(counts, o) \in [Object -> Int]
  BY DEF Opened, PlusOne

\* Add keeps the invariant.
LEMMA AddStep ==
    ASSUME IInv, NEW c \in Caller, NEW o \in Object, Add(c, o)
    PROVE  IInv'
<1>1. freeHead \in FreeIndex /\ info[freeHead] \in -1..(TableSize - 1)
  BY HeadIsFree DEF Add, Allocate
<1>2. freeHead \in Index /\ objects[freeHead] = NoObject /\ freeHead \notin Reserved
  BY <1>1 DEF FreeIndex
<1>3. SinceExact' /\ since' \in 0..MaxLinearId /\ nextLinearId' \in LinearId
  BY AllocateKeepsSince DEF Add
<1>4. TypeOK'
  <2>1. objects' \in [Index -> Object \cup {NoObject}] /\ refCount' \in [Object -> Int]
    <3>1. /\ objects' = [objects EXCEPT ![freeHead] = o]
          /\ Open(o)
      BY DEF Add
    <3>2. objects' \in [Index -> Object \cup {NoObject}]
      BY <1>2, <3>1 DEF IInv, TypeOK
    <3>3. refCount' \in [Object -> Int]
      BY <3>1, OpenedType DEF Open, IInv, TypeOK
    <3> QED BY <3>2, <3>3
  <2>2. info' \in [Index -> -1..(TableSize + MaxLinearId)]
    <3>1. info' = [info EXCEPT ![freeHead] = nextLinearId]
      BY DEF Add
    <3>2. nextLinearId \in -1..(TableSize + MaxLinearId)
      BY DEF IInv, TypeOK, LinearId
    <3> QED BY ZenonT(60), <3>1, <3>2 DEF IInv, TypeOK
  <2>3. freeHead' \in -1..(TableSize - 1) /\ tableSize' \in {0, TableSize}
    <3>1. freeHead' = info[freeHead] /\ tableSize' = tableSize
      BY DEF Add, Allocate
    <3> QED BY <1>1, <3>1 DEF IInv, TypeOK
  <2>4. count' \in 0..TableSize /\ maxCount' \in count'..TableSize
    BY DEF Add, Allocate, IInv, TypeOK
  <2> QED BY <1>3, <2>1, <2>2, <2>3, <2>4 DEF Add, IInv, TypeOK
<1>5. Reserved' = Reserved
  BY DEF Add, Reserved
<1>6. FreeIndex' = FreeIndex \ {freeHead}
  BY <1>2, <1>5 DEF FreeIndex, Add, IInv, TypeOK
<1>7. \A i \in FreeIndex \ {freeHead} : info'[i] = info[i]
  BY DEF FreeIndex, Add, IInv, TypeOK
<1>8. FreeListIntact'
  BY <1>6, <1>7, AllocateKeepsList DEF Add
<1>9. ReservedStayEmpty'
  BY <1>2 DEF Add, ReservedStayEmpty, Reserved, IInv, TypeOK
<1>10. LiveExact'
  <2> SUFFICES ASSUME NEW h \in Handle, NEW p \in Object
               PROVE  <<h, p>> \in live' <=> /\ h.reserved = 0
                                            /\ h.linearId # 0
                                            /\ h.index \in Index
                                            /\ objects'[h.index] = p
                                            /\ info'[h.index] = h.linearId
    BY ZenonT(60) DEF LiveExact
  <2>1. <<h, p>> \in live' <=>
           <<h, p>> \in live \/ (h = EncodeHandle(freeHead, nextLinearId) /\ p = o)
    BY DEF Add
  <2>2. nextLinearId # 0 /\ h.index \in 0..TableSize
    BY DEF IInv, TypeOK, LinearId, Handle
  <2>3. h = EncodeHandle(freeHead, nextLinearId) <=>
           h.index = freeHead /\ h.linearId = nextLinearId /\ h.reserved = 0
    BY DEF EncodeHandle, Handle
  <2>4. CASE h.index = freeHead
    <3>1. objects'[h.index] = o /\ info'[h.index] = nextLinearId
      BY <1>2, <2>4 DEF Add, IInv, TypeOK
    <3>2. <<h, p>> \notin live
      BY <1>2, <2>4 DEF IInv, LiveExact
    <3> QED BY <1>2, <2>1, <2>2, <2>3, <2>4, <3>1, <3>2
  <2>5. CASE h.index # freeHead
    <3>1. h.index \in Index => objects'[h.index] = objects[h.index] /\ info'[h.index] = info[h.index]
      BY <2>5 DEF Add, IInv, TypeOK
    <3> QED BY <2>1, <2>3, <2>5, <3>1 DEF IInv, LiveExact
  <2> QED BY <2>4, <2>5
<1>11. ReservationNumbered'
  BY DEF Add, ReservationNumbered, IInv
<1> QED BY <1>3, <1>4, <1>8, <1>9, <1>10, <1>11 DEF IInv

\* Reserve keeps the invariant.
LEMMA ReserveStep ==
    ASSUME IInv, NEW c \in Caller, Reserve(c)
    PROVE  IInv'
<1>1. freeHead \in FreeIndex /\ info[freeHead] \in -1..(TableSize - 1)
  BY HeadIsFree DEF Reserve, Allocate
<1>2. freeHead \in Index /\ objects[freeHead] = NoObject /\ freeHead \notin Reserved
  BY <1>1 DEF FreeIndex
<1>3. SinceExact' /\ since' \in 0..MaxLinearId /\ nextLinearId' \in LinearId
  BY AllocateKeepsSince DEF Reserve
<1>4. TypeOK'
  <2>1. reservation' \in [Caller -> [index : Index, linearId : 0..MaxLinearId, reserved : {0}]]
    BY <1>2 DEF Reserve, IInv, TypeOK, EncodeHandle, LinearId
  <2>2. freeHead' \in -1..(TableSize - 1) /\ tableSize' \in {0, TableSize}
    BY <1>1 DEF Reserve, Allocate, IInv, TypeOK
  <2>3. count' \in 0..TableSize /\ maxCount' \in count'..TableSize
    BY DEF Reserve, Allocate, IInv, TypeOK
  <2> QED BY <1>3, <2>1, <2>2, <2>3 DEF Reserve, objectVars, IInv, TypeOK
<1>5. /\ reservation[c] = NoHandle
      /\ reservation'[c] # NoHandle /\ reservation'[c].index = freeHead
      /\ \A d \in Caller \ {c} : reservation'[d] = reservation[d]
  BY DEF Reserve, EncodeHandle, NoHandle, IInv, TypeOK, LinearId
<1>6. Reserved' = Reserved \cup {freeHead}
  BY <1>5 DEF Reserved
<1>7. FreeIndex' = FreeIndex \ {freeHead}
  BY <1>6 DEF FreeIndex, Reserve
<1>8. FreeListIntact'
  BY <1>7, AllocateKeepsList DEF Reserve
<1>9. ReservedStayEmpty'
  BY <1>2, <1>5 DEF Reserve, ReservedStayEmpty, Reserved, IInv
<1>10. LiveExact'
  BY ZenonT(60) DEF Reserve, LiveExact, IInv
<1>11. ReservationNumbered'
  BY DEF Reserve, ReservationNumbered, EncodeHandle, IInv, TypeOK, LinearId
<1> QED BY <1>3, <1>4, <1>8, <1>9, <1>10, <1>11 DEF IInv

\* Unreserve keeps the invariant.
LEMMA UnreserveStep ==
    ASSUME IInv, NEW c \in Caller, Unreserve(c)
    PROVE  IInv'
<1> DEFINE e == reservation[c].index
<1>1. /\ reservation[c] # NoHandle /\ e \in Index /\ objects[e] = NoObject
      /\ \A d \in Caller \ {c} : reservation[d] # NoHandle => reservation[d].index # e
      /\ \A d \in Caller \ {c} : reservation'[d] = reservation[d]
      /\ reservation'[c] = NoHandle
  BY DEF Unreserve, IInv, ReservedStayEmpty, TypeOK
<1>2. reservation' \in [Caller -> [index : Index, linearId : 0..MaxLinearId, reserved : {0}]]
  BY DEF Unreserve, NoHandle, EncodeHandle, IInv, TypeOK, Index
<1>3. e \in Reserved /\ Reserved' = Reserved \ {e}
  BY <1>1 DEF Reserved
<1>4. objects' = objects
  <2>1. CASE e < tableSize
    BY ZenonT(60), <1>1, <2>1 DEF Unreserve, FreeEntry, IInv, TypeOK
  <2>2. CASE ~(e < tableSize)
    BY <2>2 DEF Unreserve, tableVars
  <2> QED BY <2>1, <2>2
<1>5. e \notin FreeIndex /\ FreeIndex' = FreeIndex \cup {e}
  BY <1>1, <1>3, <1>4 DEF FreeIndex
<1>6. ReservedStayEmpty' /\ ReservationNumbered'
  BY <1>1, <1>4 DEF ReservedStayEmpty, ReservationNumbered, IInv
<1>7. ASSUME e < tableSize PROVE IInv'
  <2>1. FreeEntry(e) /\ tableSize # 0
    BY <1>7, <1>1 DEF Unreserve, IInv, TypeOK, Index
  <2>2. PICK f \in Index \ FreeIndex : f = e
    BY <1>1, <1>5
  <2>3. FreeListIntact' /\ count > 0
    BY <2>1, <2>2, <1>5, FreeEntryKeepsList
  <2>4. TypeOK'
    <3>1. count' \in 0..TableSize /\ maxCount' \in count'..TableSize
      BY <2>1, <2>3 DEF FreeEntry, IInv, TypeOK
    <3>2. info' \in [Index -> -1..(TableSize + MaxLinearId)] /\ freeHead' \in -1..(TableSize - 1)
      <4>1. info' = [info EXCEPT ![e] = freeHead] /\ freeHead' = e
        BY <2>1 DEF FreeEntry
      <4>2. freeHead \in -1..(TableSize + MaxLinearId) /\ e \in -1..(TableSize - 1)
        BY <1>1 DEF IInv, TypeOK, Index
      <4> QED BY <1>1, <4>1, <4>2 DEF IInv, TypeOK
    <3> QED BY <1>2, <1>4, <2>1, <3>1, <3>2 DEF FreeEntry, Unreserve, objectVars, IInv, TypeOK
  <2>5. LiveExact'
    <3>1. live' = live /\ \A i \in Index \ {e} : info'[i] = info[i]
      BY <2>1 DEF FreeEntry, Unreserve, IInv, TypeOK
    <3> SUFFICES ASSUME NEW h \in Handle, NEW p \in Object
                 PROVE  <<h, p>> \in live' <=> /\ h.reserved = 0
                                              /\ h.linearId # 0
                                              /\ h.index \in Index
                                              /\ objects'[h.index] = p
                                              /\ info'[h.index] = h.linearId
      BY ZenonT(60) DEF LiveExact
    <3>2. CASE h.index = e
      BY <1>1, <1>4, <3>1, <3>2 DEF LiveExact, IInv
    <3>3. CASE h.index # e
      BY <1>4, <3>1, <3>3 DEF LiveExact, IInv
    <3> QED BY <3>2, <3>3
  <2>6. SinceExact'
    BY <2>1 DEF FreeEntry, SinceExact, IInv
  <2> QED BY <2>3, <2>4, <2>5, <2>6, <1>6 DEF IInv
<1>8. ASSUME ~(e < tableSize) PROVE IInv'
  <2>1. UNCHANGED <<tableVars, objectVars, closing, live, since>>
    BY <1>8 DEF Unreserve
  <2>2. tableSize = 0
    BY <1>8, <1>1 DEF IInv, TypeOK, Index
  <2>3. TypeOK'
    BY <1>2, <2>1 DEF tableVars, objectVars, IInv, TypeOK
  <2>4. LiveExact' /\ SinceExact'
    BY <2>1 DEF tableVars, LiveExact, SinceExact, IInv
  <2>5. FreeListIntact'
    BY <2>1, <2>2 DEF tableVars, FreeListIntact
  <2> QED BY <2>3, <2>4, <2>5, <1>6 DEF IInv
<1> QED BY <1>7, <1>8

\* Register keeps the invariant.
LEMMA RegisterStep ==
    ASSUME IInv, NEW c \in Caller, NEW o \in Object, Register(c, o)
    PROVE  IInv'
<1> DEFINE r == reservation[c]
<1>1. /\ r # NoHandle /\ r.index \in Index /\ objects[r.index] = NoObject
      /\ \A d \in Caller \ {c} : reservation[d] # NoHandle => reservation[d].index # r.index
      /\ \A d \in Caller \ {c} : reservation'[d] = reservation[d]
      /\ reservation'[c] = NoHandle
  BY DEF Register, IInv, ReservedStayEmpty, TypeOK
<1>2. reservation' \in [Caller -> [index : Index, linearId : 0..MaxLinearId, reserved : {0}]]
  BY DEF Register, NoHandle, EncodeHandle, IInv, TypeOK, Index
<1>3. r.index \in Reserved /\ Reserved' = Reserved \ {r.index}
  BY <1>1 DEF Reserved
<1>4. SinceExact' /\ ReservationNumbered'
  BY <1>1 DEF Register, SinceExact, ReservationNumbered, IInv
<1>5. ASSUME r.index < tableSize PROVE IInv'
  <2>1. /\ info' = [info EXCEPT ![r.index] = r.linearId]
        /\ objects' = [objects EXCEPT ![r.index] = o]
        /\ Open(o)
        /\ live' = live \cup {<<r, o>>}
    BY <1>5 DEF Register
  <2>2. TypeOK'
    <3>1. info' \in [Index -> -1..(TableSize + MaxLinearId)]
      <4>1. r.linearId \in -1..(TableSize + MaxLinearId)
        BY DEF IInv, TypeOK
      <4> QED BY ZenonT(60), <2>1, <4>1 DEF IInv, TypeOK
    <3>2. objects' \in [Index -> Object \cup {NoObject}]
      BY <2>1 DEF IInv, TypeOK
    <3>3. refCount' \in [Object -> Int]
      BY <2>1, OpenedType DEF Open, IInv, TypeOK
    <3> QED BY <1>2, <3>1, <3>2, <3>3 DEF Register, IInv, TypeOK
  <2>3. /\ objects'[r.index] = o /\ info'[r.index] = r.linearId
        /\ \A i \in Index \ {r.index} : objects'[i] = objects[i] /\ info'[i] = info[i]
    BY <1>1, <2>1 DEF IInv, TypeOK
  <2>4. FreeIndex' = FreeIndex /\ r.index \notin FreeIndex
    <3>1. o # NoObject /\ r.index \in Index
      BY <1>1
    <3>2. \A i \in Index : objects'[i] = NoObject /\ i \notin Reserved' <=> objects[i] = NoObject /\ i \notin Reserved
      BY ZenonT(60), <1>3, <2>3, <3>1
    <3> QED BY ZenonT(60), <1>3, <3>2 DEF FreeIndex
  <2>5. FreeListIntact'
    <3>1. \A i \in FreeIndex : info'[i] = info[i]
      BY <2>3, <2>4 DEF FreeIndex
    <3>2. FreeListIntact /\ UNCHANGED <<freeHead, count, tableSize>>
      BY DEF Register, IInv
    <3> QED BY <3>1, <3>2, <2>4, QuietKeepsList
  <2>6. ReservedStayEmpty'
    <3> SUFFICES ASSUME NEW a \in Caller, NEW b \in Caller, reservation'[a] # NoHandle
                 PROVE  /\ objects'[reservation'[a].index] = NoObject
                        /\ (a # b /\ reservation'[b] # NoHandle)
                              => reservation'[a].index # reservation'[b].index
      BY DEF ReservedStayEmpty
    <3>1. a # c /\ reservation'[a] = reservation[a] /\ reservation[a].index \in Index
      BY <1>1 DEF IInv, TypeOK
    <3>2. reservation[a].index # r.index /\ objects[reservation[a].index] = NoObject
      BY <1>1, <3>1 DEF IInv, ReservedStayEmpty
    <3>3. objects'[reservation'[a].index] = NoObject
      BY <2>3, <3>1, <3>2
    <3> QED BY <1>1, <3>1, <3>3 DEF IInv, ReservedStayEmpty
  <2>7. LiveExact'
    <3> SUFFICES ASSUME NEW h \in Handle, NEW p \in Object
                 PROVE  <<h, p>> \in live' <=> /\ h.reserved = 0
                                              /\ h.linearId # 0
                                              /\ h.index \in Index
                                              /\ objects'[h.index] = p
                                              /\ info'[h.index] = h.linearId
      BY ZenonT(60) DEF LiveExact
    <3>1. <<h, p>> \in live' <=> <<h, p>> \in live \/ (h = r /\ p = o)
      BY <2>1
    <3>2. h = r <=> h.index = r.index /\ h.linearId = r.linearId /\ h.reserved = 0
      <4>1. r \in [index : Index, linearId : 0..MaxLinearId, reserved : {0}]
        BY ZenonT(60) DEF IInv, TypeOK
      <4> QED BY <4>1 DEF Handle
    <3>3. CASE h.index = r.index
      <4>1. <<h, p>> \notin live
        BY <1>1, <3>3 DEF IInv, LiveExact
      <4> QED BY <1>1, <2>3, <3>1, <3>2, <3>3, <4>1 DEF IInv, ReservationNumbered
    <3>4. CASE h.index # r.index
      BY <2>3, <3>1, <3>2, <3>4 DEF IInv, LiveExact
    <3> QED BY <3>3, <3>4
  <2> QED BY <1>4, <2>2, <2>5, <2>6, <2>7 DEF IInv
<1>6. ASSUME ~(r.index < tableSize) PROVE IInv'
  <2>1. UNCHANGED <<info, objects, refCount, live, freeHead, tableSize, nextLinearId,
                    count, maxCount, since, borrowed, closed, closing>>
    BY <1>6 DEF Register
  <2>2. tableSize = 0
    <3>1. tableSize \in {0, TableSize} /\ r.index \in 0..(TableSize - 1)
      BY ZenonT(60), <1>1 DEF IInv, TypeOK, Index
    <3> QED BY <1>6, <3>1
  <2>3. TypeOK'
    BY ZenonT(60), <1>2, <2>1 DEF IInv, TypeOK
  <2>4. LiveExact'
    BY ZenonT(60), <2>1 DEF LiveExact, IInv
  <2>5. FreeListIntact'
    BY ZenonT(60), <2>1, <2>2 DEF FreeListIntact
  <2>6. ReservedStayEmpty'
    BY <1>1, <2>1 DEF ReservedStayEmpty, IInv
  <2> QED BY ZenonT(60), <1>4, <2>3, <2>4, <2>5, <2>6 DEF IInv
<1> QED BY <1>5, <1>6

\* A borrowed reference is counted.
LEMMA BorrowType ==
    ASSUME borrowed \in [Caller -> [Object -> Nat]],
           NEW c \in Caller, NEW o \in Object, Borrow(c, o)
    PROVE  borrowed' \in [Caller -> [Object -> Nat]]
<1>1. PlusOne(borrowed[c], o) \in [Object -> Nat]
  BY DEF PlusOne
<1> QED BY <1>1 DEF Borrow

\* Remove keeps the invariant.
LEMMA RemoveStep ==
    ASSUME IInv, NEW c \in Caller, NEW h \in Handle, Remove(c, h)
    PROVE  IInv'
<1> DEFINE e == h.index
           o == objects[h.index]
<1>1. /\ e \in Index /\ o \in Object /\ tableSize # 0
      /\ h.reserved = 0 /\ h.linearId # 0 /\ info[e] = h.linearId
  <2>1. /\ h.reserved = 0 /\ h.linearId # 0 /\ info[e] = h.linearId
        /\ e < tableSize /\ objects[e] # NoObject
    BY DEF Remove, IsValidHandle
  <2>2. e \in Index /\ tableSize # 0
    BY <2>1 DEF Handle, Index, IInv, TypeOK
  <2>3. objects \in [Index -> Object \cup {NoObject}]
    BY DEF IInv, TypeOK
  <2> QED BY <2>1, <2>2, <2>3
<1>f. FreeEntry(e) /\ UNCHANGED reservation
  BY ZenonT(60) DEF Remove
<1>2. /\ objects'[e] = NoObject
      /\ \A i \in Index \ {e} : objects'[i] = objects[i] /\ info'[i] = info[i]
  BY <1>1, <1>f DEF FreeEntry, IInv, TypeOK
<1>3. e \notin Reserved /\ Reserved' = Reserved
  <2>1. \A d \in Caller : reservation[d] # NoHandle => objects[reservation[d].index] = NoObject
    BY ZenonT(60) DEF IInv, ReservedStayEmpty
  <2>2. \A d \in Caller : reservation[d] # NoHandle => reservation[d].index # e
    BY <1>1, <2>1
  <2> QED BY ZenonT(60), <1>f, <2>2 DEF Reserved
<1>4. e \notin FreeIndex /\ FreeIndex' = FreeIndex \cup {e}
  <2>1. objects[e] # NoObject /\ e \in Index
    BY <1>1
  <2> QED BY <1>2, <1>3, <2>1 DEF FreeIndex
<1>5. FreeListIntact' /\ count > 0
  <2>1. PICK f \in Index \ FreeIndex : f = e
    BY ZenonT(60), <1>1, <1>4
  <2>2. FreeEntry(f) /\ FreeIndex' = FreeIndex \cup {f} /\ tableSize # 0
    BY ZenonT(60), <1>1, <1>f, <1>4, <2>1
  <2> QED BY ZenonT(60), <2>2, FreeEntryKeepsList
<1>6. TypeOK'
  <2>1. count' \in 0..TableSize /\ maxCount' \in count'..TableSize
    <3>1. count' = count - 1 /\ maxCount' = maxCount
      BY <1>f DEF FreeEntry
    <3> QED BY <1>5, <3>1 DEF IInv, TypeOK
  <2>2. info' \in [Index -> -1..(TableSize + MaxLinearId)] /\ freeHead' \in -1..(TableSize - 1)
    <3>1. info' = [info EXCEPT ![e] = freeHead] /\ freeHead' = e
      BY DEF Remove, FreeEntry
    <3>2. freeHead \in -1..(TableSize + MaxLinearId) /\ e \in -1..(TableSize - 1)
      BY <1>1 DEF IInv, TypeOK, Index
    <3>3. info \in [Index -> -1..(TableSize + MaxLinearId)]
      BY DEF IInv, TypeOK
    <3>4. info' \in [Index -> -1..(TableSize + MaxLinearId)]
      BY ZenonT(60), <3>1, <3>2, <3>3
    <3> QED BY <3>1, <3>2, <3>4
  <2>3. objects' \in [Index -> Object \cup {NoObject}]
    BY ZenonT(60), <1>f DEF FreeEntry, IInv, TypeOK
  <2>4. borrowed' \in [Caller -> [Object -> Nat]]
    BY <1>1, BorrowType DEF Remove, IInv, TypeOK
  <2> QED BY <2>1, <2>2, <2>3, <2>4 DEF Remove, FreeEntry, IInv, TypeOK
<1>7. ReservedStayEmpty' /\ ReservationNumbered'
  <2>1. \A d \in Caller : reservation[d] # NoHandle => objects'[reservation[d].index] = NoObject
    <3>1. \A d \in Caller : reservation[d].index \in Index
      BY DEF IInv, TypeOK
    <3> QED BY ZenonT(60), <1>2, <3>1 DEF IInv, ReservedStayEmpty
  <2>2. ReservedStayEmpty'
    BY ZenonT(60), <1>f, <2>1 DEF IInv, ReservedStayEmpty
  <2> QED BY <1>f, <2>2 DEF ReservationNumbered, IInv
<1>8. LiveExact'
  <2> SUFFICES ASSUME NEW k \in Handle, NEW p \in Object
               PROVE  <<k, p>> \in live' <=> /\ k.reserved = 0
                                            /\ k.linearId # 0
                                            /\ k.index \in Index
                                            /\ objects'[k.index] = p
                                            /\ info'[k.index] = k.linearId
    BY ZenonT(60) DEF LiveExact
  <2>1. <<k, p>> \in live' <=> <<k, p>> \in live /\ ~(k = h /\ p = o)
    BY DEF Remove
  <2>2. k = h <=> k.index = e /\ k.linearId = h.linearId /\ k.reserved = h.reserved
    BY DEF Handle
  <2>3. CASE k.index = e
    BY <1>1, <1>2, <2>1, <2>2, <2>3 DEF IInv, LiveExact
  <2>4. CASE k.index # e
    BY <1>2, <2>1, <2>2, <2>4 DEF IInv, LiveExact
  <2> QED BY <2>3, <2>4
<1>9. SinceExact'
  BY DEF Remove, FreeEntry, SinceExact, IInv
<1> QED BY <1>5, <1>6, <1>7, <1>8, <1>9 DEF IInv

\* The steps that open, close and destroy objects leave the table as it is.
LEMMA ObjectStep ==
    ASSUME IInv, UNCHANGED <<tableVars, reservation, live, since>>,
           refCount' \in [Object -> Int],
           borrowed' \in [Caller -> [Object -> Nat]],
           closed' \in [Caller -> SUBSET Object],
           closing' \in [Caller -> 0..TableSize]
    PROVE  IInv'
<1>1. TypeOK'
  BY DEF tableVars, IInv, TypeOK
<1>2. FreeIndex' = FreeIndex
  BY DEF FreeIndex, Reserved, tableVars
<1>3. FreeListIntact'
  BY <1>2, QuietKeepsList DEF tableVars, IInv
<1>4. ReservedStayEmpty' /\ LiveExact' /\ SinceExact' /\ ReservationNumbered'
  BY DEF ReservedStayEmpty, LiveExact, SinceExact, ReservationNumbered, tableVars, IInv
<1> QED BY <1>1, <1>3, <1>4 DEF IInv

\* Close keeps the types of what it changes.
LEMMA CloseType ==
    ASSUME TypeOK, NEW c \in Caller, NEW o \in Object, CloseBy(c, o)
    PROVE  refCount' \in [Object -> Int] /\ closed' \in [Caller -> SUBSET Object]
<1>1. refCount' \in [Object -> Int]
  BY DEF CloseBy, TypeOK
<1>2. closed' \in [Caller -> SUBSET Object]
  BY DEF CloseBy, TypeOK
<1> QED BY <1>1, <1>2

\* What a handle resolves to is an object of the table.
LEMMA LookupObject ==
    ASSUME TypeOK, NEW h \in Handle, Lookup(h) # NoObject
    PROVE  Lookup(h) \in Object
<1>1. IsValidHandle(h) /\ Lookup(h) = objects[h.index]
  BY DEF Lookup
<1>2. h.index \in Index
  BY <1>1 DEF IsValidHandle, Handle, Index, TypeOK
<1> QED BY <1>1, <1>2 DEF TypeOK

\* Every step keeps the invariant.
LEMMA NextIInv == IInv /\ [Next]_vars => IInv'
<1> SUFFICES ASSUME IInv, [Next]_vars PROVE IInv'
  OBVIOUS
<1>0. TypeOK
  BY DEF IInv
<1>1. ASSUME NEW c \in Caller, NEW o \in Object, Create(c, o) PROVE IInv'
  <2>1. borrowed' \in [Caller -> [Object -> Nat]]
    BY <1>0, <1>1, BorrowType DEF Create, TypeOK
  <2>2. refCount' \in [Object -> Int]
    BY <1>0, <1>1 DEF Create, TypeOK
  <2> QED BY <1>0, <1>1, <2>1, <2>2, ObjectStep DEF Create, TypeOK
<1>2. ASSUME NEW c \in Caller, NEW o \in Object, Close(c, o) PROVE IInv'
  <2>1. borrowed' \in [Caller -> [Object -> Nat]]
    BY <1>0, <1>2 DEF Close, TypeOK
  <2>2. refCount' \in [Object -> Int] /\ closed' \in [Caller -> SUBSET Object]
    BY <1>0, <1>2, CloseType DEF Close
  <2> QED BY <1>0, <1>2, <2>1, <2>2, ObjectStep DEF Close, TypeOK
<1>3. ASSUME NEW c \in Caller, DestroyClosedObjects(c) PROVE IInv'
  <2>1. closed' \in [Caller -> SUBSET Object]
    BY <1>0, <1>3 DEF DestroyClosedObjects, TypeOK
  <2> QED BY <1>0, <1>3, <2>1, ObjectStep DEF DestroyClosedObjects, TypeOK
<1>4. ASSUME NEW c \in Caller, NEW h \in Handle, GetObject(c, h) PROVE IInv'
  <2>1. PICK o \in Object : o = Lookup(h)
    BY <1>0, <1>4, LookupObject DEF GetObject
  <2>2. Open(o) /\ Borrow(c, o)
    BY <1>4, <2>1 DEF GetObject
  <2>3. borrowed' \in [Caller -> [Object -> Nat]]
    BY <1>0, <2>2, BorrowType DEF TypeOK
  <2>4. refCount' \in [Object -> Int]
    BY <1>0, <2>2, OpenedType DEF Open, TypeOK
  <2> QED BY <1>0, <1>4, <2>3, <2>4, ObjectStep DEF GetObject, TypeOK
<1>5. ASSUME NEW c \in Caller, NEW h \in Handle, NEW k \in Handle, GetMultipleObjects(c, h, k)
      PROVE IInv'
  <2>1. PICK o \in Object : o = Lookup(h)
    BY <1>5 DEF GetMultipleObjects
  <2>2. CASE Lookup(k) \in Synchronization
    <3>1. PICK p \in Object : p = Lookup(k)
      BY <2>2
    <3>2. /\ refCount' = Opened(Opened(refCount, o), p)
          /\ borrowed' = [borrowed EXCEPT ![c] = PlusOne(PlusOne(@, o), p)]
      BY <1>5, <2>1, <2>2, <3>1 DEF GetMultipleObjects
    <3>3. borrowed' \in [Caller -> [Object -> Nat]]
      <4>1. PlusOne(borrowed[c], o) \in [Object -> Nat]
        BY <1>0 DEF PlusOne, TypeOK
      <4>2. PlusOne(PlusOne(borrowed[c], o), p) \in [Object -> Nat]
        BY <4>1 DEF PlusOne
      <4> QED BY <1>0, <3>2, <4>2 DEF TypeOK
    <3>4. refCount' \in [Object -> Int]
      <4>1. Opened(refCount, o) \in [Object -> Int]
        BY <1>0, OpenedType DEF TypeOK
      <4> QED BY <3>2, <4>1, OpenedType
    <3>5. UNCHANGED <<tableVars, reservation, live, since, closed, closing>>
      BY <1>5 DEF GetMultipleObjects
    <3> QED BY <1>0, <3>3, <3>4, <3>5, ObjectStep DEF TypeOK
  <2>3. CASE Lookup(k) \notin Synchronization
    <3>1. Open(o) /\ Borrow(c, o)
      BY <1>5, <2>1, <2>3 DEF GetMultipleObjects
    <3>2. borrowed' \in [Caller -> [Object -> Nat]]
      BY <1>0, <3>1, BorrowType DEF TypeOK
    <3>3. refCount' \in [Object -> Int]
      BY <1>0, <3>1, OpenedType DEF Open, TypeOK
    <3> QED BY <1>0, <1>5, <3>2, <3>3, ObjectStep DEF GetMultipleObjects, TypeOK
  <2> QED BY <2>2, <2>3
<1>6. ASSUME NEW c \in Caller, FinalizeBegin(c) PROVE IInv'
  <2>1. tableSize' = 0 /\ closing' \in [Caller -> 0..TableSize]
    BY <1>0, <1>6 DEF FinalizeBegin, TypeOK, Index
  <2>2. TypeOK'
    BY <1>0, <1>6, <2>1 DEF FinalizeBegin, objectVars, TypeOK
  <2>3. FreeListIntact'
    BY <2>1 DEF FreeListIntact
  <2>4. ReservedStayEmpty' /\ LiveExact' /\ SinceExact' /\ ReservationNumbered'
    BY <1>6 DEF FinalizeBegin, ReservedStayEmpty, LiveExact, SinceExact, ReservationNumbered, IInv
  <2> QED BY <2>2, <2>3, <2>4 DEF IInv
<1>7. ASSUME NEW c \in Caller, FinalizeClose(c) PROVE IInv'
  <2>1. closing[c] \in Index
    BY <1>0, <1>7 DEF FinalizeClose, Idle, TypeOK, Index
  <2>2. closing' \in [Caller -> 0..TableSize]
    BY <1>0, <1>7, <2>1 DEF FinalizeClose, TypeOK, Index
  <2>3. refCount' \in [Object -> Int] /\ closed' \in [Caller -> SUBSET Object]
    <3>1. CASE objects[closing[c]] = NoObject
      BY <1>0, <1>7, <3>1 DEF FinalizeClose, TypeOK
    <3>2. CASE objects[closing[c]] # NoObject
      <4>1. PICK o \in Object : o = objects[closing[c]]
        BY <1>0, <2>1, <3>2 DEF TypeOK
      <4>2. CloseBy(c, o)
        BY <1>7, <3>2, <4>1 DEF FinalizeClose
      <4> QED BY <1>0, <4>2, CloseType
    <3> QED BY <3>1, <3>2
  <2> QED BY <1>0, <1>7, <2>2, <2>3, ObjectStep DEF FinalizeClose, TypeOK
<1>8. CASE UNCHANGED vars
  BY <1>0, <1>8, ObjectStep DEF vars, tableVars, TypeOK
<1>9. CASE Next
  BY <1>1, <1>2, <1>3, <1>4, <1>5, <1>6, <1>7, <1>9,
     AddStep, ReserveStep, UnreserveStep, RegisterStep, RemoveStep DEF Next
<1> QED BY <1>8, <1>9

\* The invariant holds in every reachable state.
LEMMA SpecIInv == Spec => []IInv
<1> QED BY InitIInv, NextIInv, PTL DEF Spec

(***************************************************************************)
(* The references to an object and their number.                           *)
(***************************************************************************)

\* RefCountExact and HeldFinite, of any counts, entries, table and callers.
Exact(counts, entries, table, b) ==
    \A o \in Object : /\ IsFiniteSet(Held(b, o))
                      /\ counts[o] = Cardinality(InTable(table, entries, o)) + Cardinality(Held(b, o))

\* What a reference of a caller is.
IsHeld(b, o, r) == \E c \in Caller : \E k \in 1..b[c][o] : r = <<c, k>>

LEMMA HeldMember ==
    ASSUME NEW b, NEW o, NEW r PROVE r \in Held(b, o) <=> IsHeld(b, o, r)
  BY DEF Held, IsHeld

\* One more element.
LEMMA OneMore ==
    ASSUME NEW S, IsFiniteSet(S), NEW e, e \notin S, NEW S2, S2 = S \cup {e}
    PROVE  IsFiniteSet(S2) /\ Cardinality(S2) = Cardinality(S) + 1
  BY ZenonT(60), FS_AddElement

\* Caller c has one more reference to x in b2 than in b.
RefMore(b, b2, c, x) ==
    /\ b2[c][x] = b[c][x] + 1
    /\ \A d \in Caller, o \in Object : d # c \/ o # x => b2[d][o] = b[d][o]

HeldMore(b, b2, x) ==
    /\ \A o \in Object : o # x => Held(b2, o) = Held(b, o)
    /\ \E e : e \notin Held(b, x) /\ Held(b2, x) = Held(b, x) \cup {e}

LEMMA HeldDiffers ==
    ASSUME NEW b \in [Caller -> [Object -> Nat]], NEW b2 \in [Caller -> [Object -> Nat]],
           NEW c \in Caller, NEW x \in Object, RefMore(b, b2, c, x)
    PROVE  HeldMore(b, b2, x)
<1>0. /\ b2[c][x] = b[c][x] + 1
      /\ \A d \in Caller, o \in Object : d # c \/ o # x => b2[d][o] = b[d][o]
  BY Zenon DEF RefMore
<1>1. ASSUME NEW o \in Object, o # x PROVE Held(b2, o) = Held(b, o)
  <2>1. \A d \in Caller : b2[d][o] = b[d][o]
    BY ZenonT(60), <1>0, <1>1
  <2>2. \A r : IsHeld(b2, o, r) <=> IsHeld(b, o, r)
    BY ZenonT(60), <2>1 DEF IsHeld
  <2>3. \A r : r \in Held(b2, o) <=> r \in Held(b, o)
    BY ZenonT(60), <2>2, HeldMember
  <2> QED BY Zenon, <2>3
<1>2. PICK n \in Nat : n = b[c][x]
  OBVIOUS
<1>3. PICK e : e = <<c, n + 1>>
  BY Zenon
<1>4. ASSUME NEW r PROVE IsHeld(b2, x, r) <=> IsHeld(b, x, r) \/ r = e
  <2>1. ASSUME NEW d \in Caller, NEW k \in 1..b2[d][x], r = <<d, k>> PROVE IsHeld(b, x, r) \/ r = e
    <3>1. k \in 1..b[d][x] \/ (d = c /\ k = n + 1)
      <4>1. CASE d = c
        BY <1>0, <1>2, <2>1, <4>1
      <4>2. CASE d # c
        BY ZenonT(60), <1>0, <2>1, <4>2
      <4> QED BY Zenon, <4>1, <4>2
    <3> QED BY ZenonT(60), <1>3, <2>1, <3>1 DEF IsHeld
  <2>2. ASSUME NEW d \in Caller, NEW k \in 1..b[d][x], r = <<d, k>> PROVE IsHeld(b2, x, r)
    <3>1. k \in 1..b2[d][x]
      <4>1. CASE d = c
        BY <1>0, <1>2, <2>2, <4>1
      <4>2. CASE d # c
        BY ZenonT(60), <1>0, <2>2, <4>2
      <4> QED BY Zenon, <4>1, <4>2
    <3> QED BY ZenonT(60), <2>2, <3>1 DEF IsHeld
  <2>3. IsHeld(b2, x, e)
    <3>1. n + 1 \in 1..b2[c][x]
      BY <1>0, <1>2
    <3> QED BY ZenonT(60), <1>3, <3>1 DEF IsHeld
  <2>4. IsHeld(b2, x, r) => IsHeld(b, x, r) \/ r = e
    BY ZenonT(60), <2>1 DEF IsHeld
  <2>5. IsHeld(b, x, r) => IsHeld(b2, x, r)
    BY ZenonT(60), <2>2 DEF IsHeld
  <2> QED BY Zenon, <2>3, <2>4, <2>5
<1>5. ~IsHeld(b, x, e)
  <2> SUFFICES ASSUME NEW d \in Caller, NEW k \in 1..b[d][x], e = <<d, k>> PROVE FALSE
    BY ZenonT(60) DEF IsHeld
  <2>1. d = c /\ k = n + 1
    BY <1>3
  <2> QED BY <1>2, <2>1
<1>6. e \notin Held(b, x)
  BY Zenon, <1>5, HeldMember
<1>7. \A r : r \in Held(b2, x) <=> r \in Held(b, x) \/ r = e
  BY ZenonT(60), <1>4, HeldMember
<1>8. Held(b2, x) = Held(b, x) \cup {e}
  BY ZenonT(60), <1>7
<1> QED BY ZenonT(60), <1>1, <1>6, <1>8 DEF HeldMore

\* ... and so Held has one element more, if it is finite.
HeldPlus(b, b2, x) ==
    /\ \A o \in Object : o # x => Held(b2, o) = Held(b, o)
    /\ IsFiniteSet(Held(b, x)) <=> IsFiniteSet(Held(b2, x))
    /\ IsFiniteSet(Held(b, x)) => Cardinality(Held(b2, x)) = Cardinality(Held(b, x)) + 1

LEMMA HeldCounts ==
    ASSUME NEW b, NEW b2, NEW x, HeldMore(b, b2, x) PROVE HeldPlus(b, b2, x)
<1>1. PICK e : e \notin Held(b, x) /\ Held(b2, x) = Held(b, x) \cup {e}
  BY Zenon DEF HeldMore
<1>2. Held(b, x) \subseteq Held(b2, x)
  BY ZenonT(60), <1>1
<1>3. IsFiniteSet(Held(b2, x)) => IsFiniteSet(Held(b, x))
  BY ZenonT(60), <1>2, FS_Subset
<1>4. IsFiniteSet(Held(b, x)) => IsFiniteSet(Held(b2, x)) /\ Cardinality(Held(b2, x)) = Cardinality(Held(b, x)) + 1
  BY ZenonT(60), <1>1, OneMore
<1> QED BY ZenonT(60), <1>3, <1>4 DEF HeldPlus, HeldMore

\* A caller opens a reference to x.
LEMMA HeldGains ==
    ASSUME NEW b \in [Caller -> [Object -> Nat]], NEW c \in Caller, NEW x \in Object, NEW b2,
           b2 = [b EXCEPT ![c] = PlusOne(@, x)]
    PROVE  b2 \in [Caller -> [Object -> Nat]] /\ HeldPlus(b, b2, x)
<1>1. b[c] \in [Object -> Nat]
  OBVIOUS
<1>2. PICK f : f = PlusOne(b[c], x)
  BY Zenon
<1>3. f \in [Object -> Nat] /\ f[x] = b[c][x] + 1 /\ \A o \in Object : o # x => f[o] = b[c][o]
  BY <1>1, <1>2 DEF PlusOne
<1>4. b2 = [b EXCEPT ![c] = f]
  BY Zenon, <1>2
<1>5. b2 \in [Caller -> [Object -> Nat]] /\ b2[c] = f /\ \A d \in Caller : d # c => b2[d] = b[d]
  BY <1>3, <1>4
<1>6. RefMore(b, b2, c, x)
  BY ZenonT(60), <1>3, <1>5 DEF RefMore
<1>7. b2 \in [Caller -> [Object -> Nat]]
  BY Zenon, <1>5
<1>8. HeldMore(b, b2, x)
  BY ZenonT(60), <1>6, <1>7, HeldDiffers
<1> QED BY ZenonT(60), <1>7, <1>8, HeldCounts

\* A caller has closed a reference to x.
LEMMA HeldLoses ==
    ASSUME NEW b \in [Caller -> [Object -> Nat]], NEW c \in Caller, NEW x \in Object, b[c][x] > 0, NEW b2,
           b2 = [b EXCEPT ![c][x] = @ - 1]
    PROVE  b2 \in [Caller -> [Object -> Nat]] /\ HeldPlus(b2, b, x)
<1>1. b[c] \in [Object -> Nat] /\ b[c][x] \in Nat \ {0}
  OBVIOUS
<1>2. PICK f : f = [b[c] EXCEPT ![x] = b[c][x] - 1]
  BY Zenon
<1>3. f \in [Object -> Nat] /\ b[c][x] = f[x] + 1 /\ \A o \in Object : o # x => f[o] = b[c][o]
  BY <1>1, <1>2
<1>4. b2 = [b EXCEPT ![c] = f]
  BY ZenonT(60), <1>2
<1>5. b2 \in [Caller -> [Object -> Nat]] /\ b2[c] = f /\ \A d \in Caller : d # c => b2[d] = b[d]
  BY <1>3, <1>4
<1>6. RefMore(b2, b, c, x)
  BY ZenonT(60), <1>3, <1>5 DEF RefMore
<1>7. b2 \in [Caller -> [Object -> Nat]]
  BY Zenon, <1>5
<1>8. HeldMore(b2, b, x)
  BY ZenonT(60), <1>6, <1>7, HeldDiffers
<1> QED BY ZenonT(60), <1>7, <1>8, HeldCounts

\* The entries of a table that hold o are finitely many.
LEMMA InTableFinite ==
    ASSUME NEW entries \in SUBSET Index, NEW table, NEW o
    PROVE  IsFiniteSet(InTable(table, entries, o)) /\ Cardinality(InTable(table, entries, o)) \in Nat
<1>1. 0 \in Int /\ TableSize - 1 \in Int
  BY SizeAssumption
<1>2. IsFiniteSet(Index)
  BY ZenonT(60), <1>1, FS_Interval DEF Index
<1>3. InTable(table, entries, o) \subseteq Index
  BY DEF InTable
<1>4. IsFiniteSet(InTable(table, entries, o))
  BY ZenonT(60), <1>2, <1>3, FS_Subset
<1> QED BY ZenonT(60), <1>4, FS_CardinalityType

\* The parts of a count, as numbers.
Parts(r, L, table, b, o) ==
    /\ IsFiniteSet(Held(b, o)) /\ Cardinality(Held(b, o)) \in Nat
    /\ Cardinality(InTable(table, L, o)) \in Nat
    /\ r[o] = Cardinality(InTable(table, L, o)) + Cardinality(Held(b, o))

LEMMA ExactAt ==
    ASSUME NEW r, NEW L \in SUBSET Index, NEW table, NEW b, Exact(r, L, table, b), NEW o \in Object
    PROVE  Parts(r, L, table, b, o)
<1>1. /\ IsFiniteSet(Held(b, o))
      /\ r[o] = Cardinality(InTable(table, L, o)) + Cardinality(Held(b, o))
  BY ZenonT(60) DEF Exact
<1>2. Cardinality(Held(b, o)) \in Nat
  BY ZenonT(60), <1>1, FS_CardinalityType
<1>3. Cardinality(InTable(table, L, o)) \in Nat
  BY ZenonT(60), InTableFinite
<1> QED BY ZenonT(60), <1>1, <1>2, <1>3 DEF Parts

\* An object in the table is referenced.
LEMMA ListedIsReferenced ==
    ASSUME NEW r, NEW L \in SUBSET Index, NEW table, NEW b, Exact(r, L, table, b), NEW o \in Object,
           NEW e \in L, table[e] = o
    PROVE  r[o] > 0
<1>1. e \in InTable(table, L, o)
  BY DEF InTable
<1>2. IsFiniteSet(InTable(table, L, o))
  BY Zenon, InTableFinite
<1>3. Cardinality(InTable(table, L, o)) # 0
  BY ZenonT(60), <1>1, <1>2, FS_EmptySet
<1>4. Parts(r, L, table, b, o)
  BY Zenon, ExactAt
<1> QED BY <1>3, <1>4 DEF Parts

\* An object that a caller holds is referenced.
LEMMA HeldIsReferenced ==
    ASSUME NEW r, NEW L \in SUBSET Index, NEW table, NEW b \in [Caller -> [Object -> Nat]],
           Exact(r, L, table, b), NEW o \in Object, NEW c \in Caller, b[c][o] > 0
    PROVE  r[o] > 0
<1>1. 1 \in 1..b[c][o]
  OBVIOUS
<1>2. IsHeld(b, o, <<c, 1>>)
  BY ZenonT(60), <1>1 DEF IsHeld
<1>3. <<c, 1>> \in Held(b, o)
  BY ZenonT(60), <1>2, HeldMember
<1>4. Parts(r, L, table, b, o)
  BY Zenon, ExactAt
<1>5. Cardinality(Held(b, o)) # 0
  BY ZenonT(60), <1>3, <1>4, FS_EmptySet DEF Parts
<1> QED BY <1>4, <1>5 DEF Parts

\* KAutoObject::Open by a caller, and the creation of an object.
LEMMA ExactBorrow ==
    ASSUME NEW r \in [Object -> Int], NEW L \in SUBSET Index, NEW table, NEW b \in [Caller -> [Object -> Nat]],
           Exact(r, L, table, b), NEW c \in Caller, NEW x \in Object, NEW r2, NEW b2,
           r2 = PlusOne(r, x), b2 = [b EXCEPT ![c] = PlusOne(@, x)]
    PROVE  Exact(r2, L, table, b2)
<1>1. HeldPlus(b, b2, x)
  BY ZenonT(60), HeldGains
<1>2. r2[x] = r[x] + 1 /\ \A o \in Object : o # x => r2[o] = r[o]
  BY DEF PlusOne
<1>3. ASSUME NEW o \in Object
      PROVE  IsFiniteSet(Held(b2, o)) /\ r2[o] = Cardinality(InTable(table, L, o)) + Cardinality(Held(b2, o))
  <2>1. Parts(r, L, table, b, o)
    BY Zenon, ExactAt
  <2>2. CASE o = x
    <3>1. IsFiniteSet(Held(b2, o)) /\ Cardinality(Held(b2, o)) = Cardinality(Held(b, o)) + 1 /\ r2[o] = r[o] + 1
      BY ZenonT(60), <1>1, <1>2, <2>1, <2>2, FS_CardinalityType DEF Parts, HeldPlus
    <3> QED BY <2>1, <3>1 DEF Parts
  <2>3. CASE o # x
    BY ZenonT(60), <1>1, <1>2, <2>1, <2>3 DEF Parts, HeldPlus
  <2> QED BY Zenon, <2>2, <2>3
<1> QED BY ZenonT(60), <1>3 DEF Exact

\* KAutoObject::Close by a caller.
LEMMA ExactReturn ==
    ASSUME NEW r \in [Object -> Int], NEW L \in SUBSET Index, NEW table, NEW b \in [Caller -> [Object -> Nat]],
           Exact(r, L, table, b), NEW c \in Caller, NEW x \in Object, b[c][x] > 0, NEW r2, NEW b2,
           r2 = [r EXCEPT ![x] = @ - 1], b2 = [b EXCEPT ![c][x] = @ - 1]
    PROVE  Exact(r2, L, table, b2)
<1>1. HeldPlus(b2, b, x)
  BY ZenonT(60), HeldLoses
<1>2. r2[x] = r[x] - 1 /\ \A o \in Object : o # x => r2[o] = r[o]
  OBVIOUS
<1>3. ASSUME NEW o \in Object
      PROVE  IsFiniteSet(Held(b2, o)) /\ r2[o] = Cardinality(InTable(table, L, o)) + Cardinality(Held(b2, o))
  <2>1. Parts(r, L, table, b, o)
    BY Zenon, ExactAt
  <2>2. CASE o = x
    <3>1. /\ IsFiniteSet(Held(b2, o)) /\ Cardinality(Held(b2, o)) \in Nat
          /\ Cardinality(Held(b, o)) = Cardinality(Held(b2, o)) + 1 /\ r2[o] = r[o] - 1
      BY ZenonT(60), <1>1, <1>2, <2>1, <2>2, FS_CardinalityType DEF Parts, HeldPlus
    <3> QED BY <2>1, <3>1 DEF Parts
  <2>3. CASE o # x
    BY ZenonT(60), <1>1, <1>2, <2>1, <2>3 DEF Parts, HeldPlus
  <2> QED BY Zenon, <2>2, <2>3
<1> QED BY ZenonT(60), <1>3 DEF Exact

\* The table in table2 and L2 is the one in table and L, and one more entry that holds x.
TableMore(table, L, table2, L2, x) ==
    /\ \A o \in Object : o # x => InTable(table2, L2, o) = InTable(table, L, o)
    /\ Cardinality(InTable(table2, L2, x)) = Cardinality(InTable(table, L, x)) + 1

\* An entry is filled: the count is one more.
LEMMA ExactFill ==
    ASSUME NEW r \in [Object -> Int], NEW L \in SUBSET Index, NEW table, NEW b, Exact(r, L, table, b),
           NEW x \in Object, NEW L2, NEW table2, TableMore(table, L, table2, L2, x), NEW r2, r2 = PlusOne(r, x)
    PROVE  Exact(r2, L2, table2, b)
<1>1. r2[x] = r[x] + 1 /\ \A o \in Object : o # x => r2[o] = r[o]
  BY DEF PlusOne
<1>2. ASSUME NEW o \in Object
      PROVE  IsFiniteSet(Held(b, o)) /\ r2[o] = Cardinality(InTable(table2, L2, o)) + Cardinality(Held(b, o))
  <2>1. Parts(r, L, table, b, o)
    BY Zenon, ExactAt
  <2>2. CASE o = x
    <3>1. r2[o] = r[o] + 1 /\ Cardinality(InTable(table2, L2, o)) = Cardinality(InTable(table, L, o)) + 1
      BY ZenonT(60), <1>1, <2>2 DEF TableMore
    <3> QED BY <2>1, <3>1 DEF Parts
  <2>3. CASE o # x
    BY ZenonT(60), <1>1, <2>1, <2>3 DEF TableMore, Parts
  <2> QED BY Zenon, <2>2, <2>3
<1> QED BY ZenonT(60), <1>2 DEF Exact

\* An entry is emptied, or closed: the count is one less.
LEMMA ExactEmpty ==
    ASSUME NEW r \in [Object -> Int], NEW L \in SUBSET Index, NEW table, NEW b, Exact(r, L, table, b),
           NEW x \in Object, NEW L2 \in SUBSET Index, NEW table2, TableMore(table2, L2, table, L, x),
           NEW r2, r2 = [r EXCEPT ![x] = @ - 1]
    PROVE  Exact(r2, L2, table2, b)
<1>1. r2[x] = r[x] - 1 /\ \A o \in Object : o # x => r2[o] = r[o]
  OBVIOUS
<1>2. ASSUME NEW o \in Object
      PROVE  IsFiniteSet(Held(b, o)) /\ r2[o] = Cardinality(InTable(table2, L2, o)) + Cardinality(Held(b, o))
  <2>1. Parts(r, L, table, b, o)
    BY Zenon, ExactAt
  <2>4. Cardinality(InTable(table2, L2, o)) \in Nat
    BY Zenon, InTableFinite
  <2>2. CASE o = x
    <3>1. r2[o] = r[o] - 1 /\ Cardinality(InTable(table, L, o)) = Cardinality(InTable(table2, L2, o)) + 1
      BY ZenonT(60), <1>1, <2>2 DEF TableMore
    <3> QED BY <2>1, <2>4, <3>1 DEF Parts
  <2>3. CASE o # x
    BY ZenonT(60), <1>1, <2>1, <2>3 DEF TableMore, Parts
  <2> QED BY Zenon, <2>2, <2>3
<1> QED BY ZenonT(60), <1>2 DEF Exact

\* The reference of an entry becomes a caller's.
LEMMA ExactMove ==
    ASSUME NEW r \in [Object -> Int], NEW L \in SUBSET Index, NEW table, NEW b, Exact(r, L, table, b),
           NEW x \in Object, NEW table2, TableMore(table2, L, table, L, x), NEW b2, HeldPlus(b, b2, x)
    PROVE  Exact(r, L, table2, b2)
<1>1. ASSUME NEW o \in Object
      PROVE  IsFiniteSet(Held(b2, o)) /\ r[o] = Cardinality(InTable(table2, L, o)) + Cardinality(Held(b2, o))
  <2>1. Parts(r, L, table, b, o)
    BY Zenon, ExactAt
  <2>2. Cardinality(InTable(table2, L, o)) \in Nat
    BY Zenon, InTableFinite
  <2>3. CASE o = x
    <3>1. /\ IsFiniteSet(Held(b2, o)) /\ Cardinality(Held(b2, o)) = Cardinality(Held(b, o)) + 1
          /\ Cardinality(InTable(table, L, o)) = Cardinality(InTable(table2, L, o)) + 1
      BY ZenonT(60), <2>1, <2>3 DEF TableMore, HeldPlus, Parts
    <3> QED BY <2>1, <2>2, <3>1 DEF Parts
  <2>4. CASE o # x
    BY ZenonT(60), <2>1, <2>4 DEF TableMore, HeldPlus, Parts
  <2> QED BY Zenon, <2>3, <2>4
<1> QED BY ZenonT(60), <1>1 DEF Exact

\* The same objects are listed.
LEMMA ExactSame ==
    ASSUME NEW r, NEW L, NEW table, NEW b, Exact(r, L, table, b), NEW L2, NEW table2,
           \A o \in Object : InTable(table2, L2, o) = InTable(table, L, o)
    PROVE  Exact(r, L2, table2, b)
  BY ZenonT(60) DEF Exact

\* Writing x to an entry that holds none.
LEMMA TableFilled ==
    ASSUME NEW table \in [Index -> Object \cup {NoObject}], NEW L \in SUBSET Index, NEW e \in L,
           table[e] = NoObject, NEW x \in Object, NEW table2, table2 = [table EXCEPT ![e] = x]
    PROVE  TableMore(table, L, table2, L, x)
<1>1. table2[e] = x /\ \A i \in L : i # e => table2[i] = table[i]
  OBVIOUS
<1>2. ASSUME NEW o \in Object, o # x PROVE InTable(table2, L, o) = InTable(table, L, o)
  BY ZenonT(60), <1>1, <1>2, ObjectAssumption DEF InTable
<1>3. e \notin InTable(table, L, x) /\ InTable(table2, L, x) = InTable(table, L, x) \cup {e}
  BY ZenonT(60), <1>1, ObjectAssumption DEF InTable
<1>4. Cardinality(InTable(table2, L, x)) = Cardinality(InTable(table, L, x)) + 1
  <2>1. IsFiniteSet(InTable(table, L, x))
    BY Zenon, InTableFinite
  <2> QED BY ZenonT(60), <1>3, <2>1, OneMore
<1> QED BY ZenonT(60), <1>2, <1>4 DEF TableMore

\* Taking the object of an entry away.
LEMMA TableEmptied ==
    ASSUME NEW table \in [Index -> Object \cup {NoObject}], NEW L \in SUBSET Index, NEW e \in L,
           NEW x \in Object, table[e] = x, NEW table2, table2 = [table EXCEPT ![e] = NoObject]
    PROVE  TableMore(table2, L, table, L, x)
<1>1. table2[e] = NoObject /\ \A i \in L : i # e => table2[i] = table[i]
  OBVIOUS
<1>2. ASSUME NEW o \in Object, o # x PROVE InTable(table, L, o) = InTable(table2, L, o)
  BY ZenonT(60), <1>1, <1>2, ObjectAssumption DEF InTable
<1>3. e \notin InTable(table2, L, x) /\ InTable(table, L, x) = InTable(table2, L, x) \cup {e}
  BY ZenonT(60), <1>1, ObjectAssumption DEF InTable
<1>4. Cardinality(InTable(table, L, x)) = Cardinality(InTable(table2, L, x)) + 1
  <2>1. IsFiniteSet(InTable(table2, L, x))
    BY Zenon, InTableFinite
  <2> QED BY ZenonT(60), <1>3, <2>1, OneMore
<1> QED BY ZenonT(60), <1>2, <1>4 DEF TableMore

\* An entry that is closed is listed no more.
LEMMA TableShortened ==
    ASSUME NEW L \in SUBSET Index, NEW e \in L, NEW table, NEW x \in Object, table[e] = x
    PROVE  TableMore(table, L \ {e}, table, L, x)
<1>1. ASSUME NEW o \in Object, o # x PROVE InTable(table, L, o) = InTable(table, L \ {e}, o)
  BY ZenonT(60), <1>1 DEF InTable
<1>2. e \notin InTable(table, L \ {e}, x) /\ InTable(table, L, x) = InTable(table, L \ {e}, x) \cup {e}
  BY ZenonT(60) DEF InTable
<1>3. L \ {e} \in SUBSET Index
  BY ZenonT(60)
<1>4. Cardinality(InTable(table, L, x)) = Cardinality(InTable(table, L \ {e}, x)) + 1
  <2>1. IsFiniteSet(InTable(table, L \ {e}, x))
    BY Zenon, <1>3, InTableFinite
  <2> QED BY ZenonT(60), <1>2, <2>1, OneMore
<1> QED BY ZenonT(60), <1>1, <1>4 DEF TableMore

(***************************************************************************)
(* Every step keeps the counts exact.                                      *)
(***************************************************************************)

Counts == Exact(refCount, Listed, objects, borrowed)

LEMMA LifeIs == LifetimeInv <=> OneFinalizer /\ Counts /\ DestroyedOnce
  BY ZenonT(60) DEF LifetimeInv, HeldFinite, LifetimesExact, RefCountExact, Counts, Exact

LEMMA LifeIsNext ==
    ASSUME OneFinalizer', DestroyedOnce', Exact(refCount', Listed', objects', borrowed') PROVE LifetimeInv'
  BY ZenonT(60) DEF LifetimeInv, HeldFinite, LifetimesExact, RefCountExact, Exact

LEMMA ListedIn == ASSUME TypeOK PROVE Listed \in SUBSET Index
  BY DEF Listed, Index, TypeOK

\* What a step knows of the state it starts in.
LEMMA LifeParts ==
    ASSUME IInv, LifetimeInv
    PROVE  /\ OneFinalizer /\ DestroyedOnce /\ TypeOK
           /\ Exact(refCount, Listed, objects, borrowed) /\ Listed \in SUBSET Index
           /\ refCount \in [Object -> Int] /\ borrowed \in [Caller -> [Object -> Nat]]
           /\ objects \in [Index -> Object \cup {NoObject}]
<1>1. OneFinalizer /\ DestroyedOnce /\ TypeOK /\ Exact(refCount, Listed, objects, borrowed)
  BY ZenonT(60), LifeIs DEF Counts, IInv
<1>2. Listed \in SUBSET Index
  BY Zenon, <1>1, ListedIn
<1> QED BY ZenonT(60), <1>1, <1>2 DEF TypeOK

\* No table is taken away, and none that was is closed further.
LEMMA SameTable ==
    ASSUME LifetimeInv, closing' = closing, tableSize' = tableSize
    PROVE  OneFinalizer' /\ Listed' = Listed
  BY ZenonT(60) DEF LifetimeInv, OneFinalizer, Idle, Listed

\* References that are opened belong to objects that are not to be destroyed.
LEMMA OnceOpened ==
    ASSUME DestroyedOnce, closed' = closed, TypeOK,
           \A o \in Object : refCount'[o] = refCount[o] \/ refCount[o] # 0 \/ \A d \in Caller : o \notin closed[d]
    PROVE  DestroyedOnce'
<1> SUFFICES ASSUME NEW c \in Caller, NEW o \in closed[c]
             PROVE  refCount'[o] = 0 /\ \A d \in Caller \ {c} : o \notin closed[d]
  BY ZenonT(60) DEF DestroyedOnce
<1>1. refCount[o] = 0 /\ \A d \in Caller \ {c} : o \notin closed[d]
  BY ZenonT(60) DEF DestroyedOnce
<1>2. o \in Object
  BY DEF TypeOK
<1> QED BY ZenonT(60), <1>1, <1>2

\* The last reference is closed by one caller.
LEMMA OnceClosed ==
    ASSUME DestroyedOnce, TypeOK, NEW c \in Caller, NEW x \in Object, refCount[x] > 0, CloseBy(c, x)
    PROVE  DestroyedOnce'
<1>1. \A d \in Caller : x \notin closed[d]
  <2> SUFFICES ASSUME NEW d \in Caller, x \in closed[d] PROVE FALSE
    BY Zenon
  <2>1. refCount[x] = 0
    BY ZenonT(60) DEF DestroyedOnce
  <2> QED BY <2>1
<1>2. /\ refCount'[x] = refCount[x] - 1 /\ \A o \in Object : o # x => refCount'[o] = refCount[o]
  BY DEF CloseBy, TypeOK
<1>3. CASE refCount[x] = 1
  <2>1. closed'[c] = closed[c] \cup {x} /\ \A d \in Caller : d # c => closed'[d] = closed[d]
    BY <1>3 DEF CloseBy, TypeOK
  <2>2. refCount'[x] = 0
    BY <1>2, <1>3
  <2> SUFFICES ASSUME NEW d \in Caller, NEW o \in closed'[d]
               PROVE  refCount'[o] = 0 /\ \A f \in Caller \ {d} : o \notin closed'[f]
    BY ZenonT(60) DEF DestroyedOnce
  <2>3. CASE o = x
    <3>1. d = c
      BY ZenonT(60), <1>1, <2>1, <2>3
    <3> QED BY ZenonT(60), <1>1, <2>1, <2>2, <2>3, <3>1
  <2>4. CASE o # x
    <3>1. o \in closed[d]
      BY ZenonT(60), <2>1, <2>4
    <3>2. o \in Object
      BY <3>1 DEF TypeOK
    <3>3. refCount[o] = 0 /\ \A f \in Caller \ {d} : o \notin closed[f]
      BY ZenonT(60), <3>1 DEF DestroyedOnce
    <3> QED BY ZenonT(60), <1>2, <2>1, <2>4, <3>2, <3>3
  <2> QED BY Zenon, <2>3, <2>4
<1>4. CASE refCount[x] # 1
  <2>1. closed' = closed
    BY Zenon, <1>4 DEF CloseBy
  <2> QED BY ZenonT(60), <1>1, <1>2, <2>1, OnceOpened
<1> QED BY Zenon, <1>3, <1>4

\* KAutoObject::Open of a referenced object.
Raised(r, o, r2) ==
    /\ r2 = PlusOne(r, o) /\ r2 \in [Object -> Int]
    /\ \A x \in Object : r2[x] = r[x] \/ r[x] # 0
    /\ \A x \in Object : r[x] > 0 => r2[x] > 0

LEMMA OpenedIs ==
    ASSUME NEW r \in [Object -> Int], NEW o \in Object, r[o] > 0
    PROVE  Raised(r, o, Opened(r, o))
<1>1. Opened(r, o) = PlusOne(r, o)
  BY DEF Opened
<1>2. PICK r2 : r2 = PlusOne(r, o)
  BY Zenon
<1>3. r2 \in [Object -> Int] /\ r2[o] = r[o] + 1 /\ \A x \in Object : x # o => r2[x] = r[x]
  BY <1>2 DEF PlusOne
<1>4. \A x \in Object : (r2[x] = r[x] \/ r[x] # 0) /\ (r[x] > 0 => r2[x] > 0)
  BY <1>3
<1> QED BY ZenonT(60), <1>1, <1>2, <1>3, <1>4 DEF Raised

LEMMA ExceptTwice ==
    ASSUME NEW S, NEW T, NEW f \in [S -> T], NEW c \in S, NEW u, NEW v
    PROVE  [f EXCEPT ![c] = u][c] = u /\ [[f EXCEPT ![c] = u] EXCEPT ![c] = v] = [f EXCEPT ![c] = v]
<1>1. [f EXCEPT ![c] = u][c] = u
  BY Zenon
<1>2. [[f EXCEPT ![c] = u] EXCEPT ![c] = v] = [f EXCEPT ![c] = v]
  BY ZenonT(30)
<1> QED BY Zenon, <1>1, <1>2

LEMMA LifeCreate ==
    ASSUME IInv, LifetimeInv, NEW c \in Caller, NEW o \in Object, Create(c, o) PROVE LifetimeInv'
<1>1. /\ OneFinalizer /\ DestroyedOnce /\ TypeOK
      /\ Exact(refCount, Listed, objects, borrowed) /\ Listed \in SUBSET Index
      /\ refCount \in [Object -> Int] /\ borrowed \in [Caller -> [Object -> Nat]]
  BY Zenon, LifeParts
<1>2. /\ refCount[o] = 0 /\ \A d \in Caller : o \notin closed[d]
      /\ refCount' = [refCount EXCEPT ![o] = 1] /\ borrowed' = [borrowed EXCEPT ![c] = PlusOne(@, o)]
      /\ closed' = closed /\ closing' = closing /\ tableSize' = tableSize /\ objects' = objects
  BY ZenonT(60) DEF Create, Borrow, tableVars
<1>3. refCount' = PlusOne(refCount, o)
  BY <1>1, <1>2 DEF PlusOne
<1>4. OneFinalizer' /\ Listed' = Listed
  BY ZenonT(60), <1>2, SameTable
<1>5. Exact(refCount', Listed, objects, borrowed')
  BY ZenonT(60), <1>1, <1>2, <1>3, ExactBorrow
<1>6. \A x \in Object : refCount'[x] = refCount[x] \/ \A d \in Caller : x \notin closed[d]
  <2>1. \A x \in Object : x = o \/ refCount'[x] = refCount[x]
    BY <1>1, <1>2
  <2> QED BY ZenonT(60), <1>2, <2>1
<1>7. DestroyedOnce'
  BY ZenonT(60), <1>1, <1>2, <1>6, OnceOpened
<1>8. Exact(refCount', Listed', objects', borrowed')
  BY Zenon, <1>2, <1>4, <1>5
<1> QED BY Zenon, <1>4, <1>7, <1>8, LifeIsNext

LEMMA LifeClose ==
    ASSUME IInv, LifetimeInv, NEW c \in Caller, NEW o \in Object, Close(c, o) PROVE LifetimeInv'
<1>1. /\ OneFinalizer /\ DestroyedOnce /\ TypeOK
      /\ Exact(refCount, Listed, objects, borrowed) /\ Listed \in SUBSET Index
      /\ refCount \in [Object -> Int] /\ borrowed \in [Caller -> [Object -> Nat]]
  BY Zenon, LifeParts
<1>2. /\ borrowed[c][o] > 0 /\ CloseBy(c, o) /\ borrowed' = [borrowed EXCEPT ![c][o] = @ - 1]
      /\ closing' = closing /\ tableSize' = tableSize /\ objects' = objects
  BY ZenonT(60) DEF Close, tableVars
<1>3. refCount' = [refCount EXCEPT ![o] = @ - 1]
  BY Zenon, <1>2 DEF CloseBy
<1>4. OneFinalizer' /\ Listed' = Listed
  BY ZenonT(60), <1>2, SameTable
<1>5. Exact(refCount', Listed, objects, borrowed')
  BY ZenonT(60), <1>1, <1>2, <1>3, ExactReturn
<1>6. refCount[o] > 0
  BY ZenonT(60), <1>1, <1>2, HeldIsReferenced
<1>7. DestroyedOnce'
  BY ZenonT(60), <1>1, <1>2, <1>6, OnceClosed
<1>8. Exact(refCount', Listed', objects', borrowed')
  BY Zenon, <1>2, <1>4, <1>5
<1> QED BY Zenon, <1>4, <1>7, <1>8, LifeIsNext

LEMMA LifeDestroy ==
    ASSUME IInv, LifetimeInv, NEW c \in Caller, DestroyClosedObjects(c) PROVE LifetimeInv'
<1>1. /\ DestroyedOnce /\ TypeOK /\ Exact(refCount, Listed, objects, borrowed)
  BY Zenon, LifeParts
<1>2. /\ closed' = [closed EXCEPT ![c] = {}] /\ refCount' = refCount /\ borrowed' = borrowed
      /\ closing' = closing /\ tableSize' = tableSize /\ objects' = objects
  BY ZenonT(60) DEF DestroyClosedObjects, tableVars
<1>3. OneFinalizer' /\ Listed' = Listed
  BY ZenonT(60), <1>2, SameTable
<1>4. \A d \in Caller : closed'[d] \subseteq closed[d]
  BY <1>1, <1>2 DEF TypeOK
<1>5. DestroyedOnce'
  BY ZenonT(60), <1>1, <1>2, <1>4 DEF DestroyedOnce
<1>6. Exact(refCount', Listed', objects', borrowed')
  BY Zenon, <1>1, <1>2, <1>3
<1> QED BY Zenon, <1>3, <1>5, <1>6, LifeIsNext

\* Add and Register: an empty entry of the table takes a reference of its own.
LEMMA LifeFill ==
    ASSUME IInv, LifetimeInv, NEW c \in Caller, NEW o \in Object, borrowed[c][o] > 0, tableSize # 0,
           NEW e \in Index, objects[e] = NoObject, objects' = [objects EXCEPT ![e] = o], Open(o),
           borrowed' = borrowed, closed' = closed, closing' = closing, tableSize' = tableSize
    PROVE  LifetimeInv'
<1>1. /\ OneFinalizer /\ DestroyedOnce /\ TypeOK
      /\ Exact(refCount, Listed, objects, borrowed) /\ Listed \in SUBSET Index
      /\ refCount \in [Object -> Int] /\ borrowed \in [Caller -> [Object -> Nat]]
      /\ objects \in [Index -> Object \cup {NoObject}]
  BY Zenon, LifeParts
<1>2. Listed = Index
  BY Zenon DEF Listed
<1>3. OneFinalizer' /\ Listed' = Listed
  BY ZenonT(60), SameTable
<1>4. refCount[o] > 0
  BY ZenonT(60), <1>1, HeldIsReferenced
<1>5. refCount' = PlusOne(refCount, o) /\ \A x \in Object : refCount'[x] = refCount[x] \/ refCount[x] # 0
  BY ZenonT(60), <1>1, <1>4, OpenedIs DEF Open, Raised
<1>6. TableMore(objects, Listed, objects', Listed, o)
  BY ZenonT(60), <1>1, <1>2, TableFilled
<1>7. Exact(refCount', Listed, objects', borrowed)
  BY ZenonT(60), <1>1, <1>5, <1>6, ExactFill
<1>8. DestroyedOnce'
  BY ZenonT(60), <1>1, <1>5, OnceOpened
<1>9. Exact(refCount', Listed', objects', borrowed')
  BY Zenon, <1>3, <1>7
<1> QED BY Zenon, <1>3, <1>8, <1>9, LifeIsNext

\* No object, reference or entry in use is touched.
LEMMA LifeQuiet ==
    ASSUME IInv, LifetimeInv, objects' = objects, refCount' = refCount, borrowed' = borrowed, closed' = closed,
           closing' = closing, tableSize' = tableSize
    PROVE  LifetimeInv'
<1>1. DestroyedOnce /\ Exact(refCount, Listed, objects, borrowed)
  BY Zenon, LifeParts
<1>2. OneFinalizer' /\ Listed' = Listed
  BY ZenonT(60), SameTable
<1>3. DestroyedOnce'
  BY ZenonT(60), <1>1 DEF DestroyedOnce
<1>4. Exact(refCount', Listed', objects', borrowed')
  BY Zenon, <1>1, <1>2
<1> QED BY Zenon, <1>2, <1>3, <1>4, LifeIsNext

LEMMA LifeAdd ==
    ASSUME IInv, LifetimeInv, NEW c \in Caller, NEW o \in Object, Add(c, o) PROVE LifetimeInv'
<1>1. freeHead \in FreeIndex
  BY ZenonT(60), HeadIsFree DEF Add, Allocate
<1>2. freeHead \in Index /\ objects[freeHead] = NoObject
  BY ZenonT(60), <1>1 DEF FreeIndex
<1>3. tableSize # 0
  BY DEF Add, Allocate, IInv, TypeOK
<1>4. /\ borrowed[c][o] > 0 /\ objects' = [objects EXCEPT ![freeHead] = o] /\ Open(o)
      /\ borrowed' = borrowed /\ closed' = closed /\ closing' = closing /\ tableSize' = tableSize
  BY ZenonT(60) DEF Add, Allocate
<1> QED BY ZenonT(60), <1>2, <1>3, <1>4, LifeFill

LEMMA LifeRegister ==
    ASSUME IInv, LifetimeInv, NEW c \in Caller, NEW o \in Object, Register(c, o) PROVE LifetimeInv'
<1>1. /\ reservation[c] # NoHandle /\ borrowed[c][o] > 0
      /\ borrowed' = borrowed /\ closed' = closed /\ closing' = closing /\ tableSize' = tableSize
  BY ZenonT(60) DEF Register
<1>2. PICK e : e = reservation[c].index
  BY Zenon
<1>3. e \in Index /\ objects[e] = NoObject
  BY <1>1, <1>2 DEF IInv, TypeOK, ReservedStayEmpty
<1>4. CASE e < tableSize
  <2>1. tableSize # 0
    BY <1>3, <1>4 DEF Index
  <2>2. objects' = [objects EXCEPT ![e] = o] /\ Open(o)
    BY ZenonT(60), <1>2, <1>4 DEF Register
  <2> QED BY ZenonT(60), <1>1, <1>3, <2>1, <2>2, LifeFill
<1>5. CASE ~(e < tableSize)
  <2>1. objects' = objects /\ refCount' = refCount
    BY ZenonT(60), <1>2, <1>5 DEF Register
  <2> QED BY ZenonT(60), <1>1, <2>1, LifeQuiet
<1> QED BY Zenon, <1>4, <1>5

LEMMA LifeReserve ==
    ASSUME IInv, LifetimeInv, NEW c \in Caller, Reserve(c) \/ Unreserve(c) PROVE LifetimeInv'
<1>1. CASE Reserve(c)
  BY ZenonT(60), <1>1, LifeQuiet DEF Reserve, Allocate, objectVars
<1>2. CASE Unreserve(c)
  <2>1. /\ reservation[c] # NoHandle /\ refCount' = refCount /\ borrowed' = borrowed /\ closed' = closed
        /\ closing' = closing
    BY ZenonT(60), <1>2 DEF Unreserve, objectVars
  <2>2. PICK e : e = reservation[c].index
    BY Zenon
  <2>3. e \in Index /\ objects[e] = NoObject /\ objects \in [Index -> Object \cup {NoObject}]
    BY <2>1, <2>2 DEF IInv, TypeOK, ReservedStayEmpty
  <2>4. tableSize' = tableSize /\ (objects' = objects \/ objects' = [objects EXCEPT ![e] = NoObject])
    BY ZenonT(60), <1>2, <2>2 DEF Unreserve, FreeEntry, tableVars
  <2>5. objects' = objects
    BY <2>3, <2>4
  <2> QED BY ZenonT(60), <2>1, <2>4, <2>5, LifeQuiet
<1> QED BY Zenon, <1>1, <1>2

\* Remove: the reference of the entry becomes the caller's.
LEMMA LifeRemove ==
    ASSUME IInv, LifetimeInv, NEW c \in Caller, NEW h \in Handle, Remove(c, h) PROVE LifetimeInv'
<1>1. /\ OneFinalizer /\ DestroyedOnce /\ TypeOK
      /\ Exact(refCount, Listed, objects, borrowed) /\ Listed \in SUBSET Index
      /\ refCount \in [Object -> Int] /\ borrowed \in [Caller -> [Object -> Nat]]
      /\ objects \in [Index -> Object \cup {NoObject}]
  BY Zenon, LifeParts
<1>2. PICK e, o : e = h.index /\ o = objects[h.index]
  BY Zenon
<1>3. /\ e < tableSize /\ o # NoObject /\ o = objects[e]
      /\ objects' = [objects EXCEPT ![e] = NoObject] /\ borrowed' = [borrowed EXCEPT ![c] = PlusOne(@, o)]
      /\ refCount' = refCount /\ closed' = closed /\ closing' = closing /\ tableSize' = tableSize
  BY ZenonT(60), <1>2 DEF Remove, IsValidHandle, FreeEntry, Borrow
<1>4. e \in Index /\ tableSize # 0
  BY <1>1, <1>2, <1>3 DEF Handle, Index, TypeOK
<1>5. o \in Object
  BY <1>1, <1>3, <1>4
<1>6. Listed = Index
  BY Zenon, <1>4 DEF Listed
<1>7. OneFinalizer' /\ Listed' = Listed
  BY ZenonT(60), <1>3, SameTable
<1>8. HeldPlus(borrowed, borrowed', o)
  BY ZenonT(60), <1>1, <1>3, <1>5, HeldGains
<1>10. TableMore(objects', Listed, objects, Listed, o)
  BY ZenonT(60), <1>1, <1>3, <1>4, <1>5, <1>6, TableEmptied
<1>12. Exact(refCount, Listed, objects', borrowed')
  BY ZenonT(60), <1>1, <1>5, <1>8, <1>10, ExactMove
<1>13. DestroyedOnce'
  BY ZenonT(60), <1>1, <1>3 DEF DestroyedOnce
<1>14. Exact(refCount', Listed', objects', borrowed')
  BY Zenon, <1>3, <1>7, <1>12
<1> QED BY Zenon, <1>7, <1>13, <1>14, LifeIsNext

\* A handle that resolves names an object that the table references.
LEMMA LookupReferenced ==
    ASSUME IInv, LifetimeInv, NEW h \in Handle, Lookup(h) # NoObject
    PROVE  Lookup(h) \in Object /\ refCount[Lookup(h)] > 0
<1>1. TypeOK /\ Exact(refCount, Listed, objects, borrowed) /\ Listed \in SUBSET Index
  BY Zenon, LifeParts
<1>2. IsValidHandle(h) /\ Lookup(h) = objects[h.index]
  BY ZenonT(60) DEF Lookup
<1>3. h.index \in Index /\ tableSize # 0
  BY <1>1, <1>2 DEF IsValidHandle, Handle, Index, TypeOK
<1>4. Listed = Index
  BY Zenon, <1>3 DEF Listed
<1>5. Lookup(h) \in Object
  BY ZenonT(60), <1>1, LookupObject
<1> QED BY ZenonT(60), <1>1, <1>2, <1>3, <1>4, <1>5, ListedIsReferenced

\* GetObject and GetMultipleObjects open references, of one caller.
LEMMA LifeOpened ==
    ASSUME IInv, LifetimeInv, objects' = objects, closed' = closed, closing' = closing, tableSize' = tableSize,
           Exact(refCount', Listed, objects, borrowed'),
           \A o \in Object : refCount'[o] = refCount[o] \/ refCount[o] # 0
    PROVE  LifetimeInv'
<1>1. DestroyedOnce /\ TypeOK
  BY Zenon, LifeParts
<1>2. OneFinalizer' /\ Listed' = Listed
  BY ZenonT(60), SameTable
<1>3. DestroyedOnce'
  BY ZenonT(60), <1>1, OnceOpened
<1>4. Exact(refCount', Listed', objects', borrowed')
  BY Zenon, <1>2
<1> QED BY Zenon, <1>2, <1>3, <1>4, LifeIsNext

LEMMA LifeGet ==
    ASSUME IInv, LifetimeInv, NEW c \in Caller, NEW o \in Object, refCount[o] > 0, Open(o), Borrow(c, o),
           objects' = objects, closed' = closed, closing' = closing, tableSize' = tableSize
    PROVE  LifetimeInv'
<1>1. /\ Exact(refCount, Listed, objects, borrowed) /\ Listed \in SUBSET Index
      /\ refCount \in [Object -> Int] /\ borrowed \in [Caller -> [Object -> Nat]]
  BY Zenon, LifeParts
<1>2. refCount' = PlusOne(refCount, o) /\ \A x \in Object : refCount'[x] = refCount[x] \/ refCount[x] # 0
  BY ZenonT(60), <1>1, OpenedIs DEF Open, Raised
<1>3. borrowed' = [borrowed EXCEPT ![c] = PlusOne(@, o)]
  BY Zenon DEF Borrow
<1>4. Exact(refCount', Listed, objects, borrowed')
  BY ZenonT(60), <1>1, <1>2, <1>3, ExactBorrow
<1> QED BY ZenonT(60), <1>2, <1>4, LifeOpened

LEMMA LifeGetMultiple ==
    ASSUME IInv, LifetimeInv, NEW c \in Caller, NEW h \in Handle, NEW k \in Handle, GetMultipleObjects(c, h, k)
    PROVE  LifetimeInv'
<1>1. /\ Exact(refCount, Listed, objects, borrowed) /\ Listed \in SUBSET Index
      /\ refCount \in [Object -> Int] /\ borrowed \in [Caller -> [Object -> Nat]]
  BY Zenon, LifeParts
<1>2. objects' = objects /\ closed' = closed /\ closing' = closing /\ tableSize' = tableSize
  BY ZenonT(60) DEF GetMultipleObjects, tableVars
<1>3. \A x \in Synchronization : x \in Object /\ x # NoObject
  BY ZenonT(60), ObjectAssumption
<1>4. PICK o : o = Lookup(h)
  BY Zenon
<1>5. o \in Object /\ refCount[o] > 0
  BY ZenonT(60), <1>3, <1>4, LookupReferenced DEF GetMultipleObjects
<1>6. CASE Lookup(k) \notin Synchronization
  <2>1. Open(o) /\ Borrow(c, o)
    BY ZenonT(60), <1>4, <1>6 DEF GetMultipleObjects
  <2> QED BY ZenonT(60), <1>2, <1>5, <2>1, LifeGet
<1>7. CASE Lookup(k) \in Synchronization
  <2>1. PICK p : p = Lookup(k)
    BY Zenon
  <2>2. p \in Object /\ refCount[p] > 0
    BY ZenonT(60), <1>3, <1>7, <2>1, LookupReferenced
  <2>3. /\ refCount' = Opened(Opened(refCount, o), p)
        /\ borrowed' = [borrowed EXCEPT ![c] = PlusOne(PlusOne(borrowed[c], o), p)]
    BY ZenonT(60), <1>4, <1>7, <2>1 DEF GetMultipleObjects
  <2>4. PICK r : r = Opened(refCount, o)
    BY Zenon
  <2>5. Raised(refCount, o, r)
    BY ZenonT(60), <1>1, <1>5, <2>4, OpenedIs
  <2>6. r \in [Object -> Int] /\ r = PlusOne(refCount, o) /\ r[p] > 0
    BY ZenonT(60), <2>2, <2>5 DEF Raised
  <2>a. Raised(r, p, refCount')
    BY ZenonT(60), <2>2, <2>3, <2>4, <2>6, OpenedIs
  <2>7. PICK b : b = [borrowed EXCEPT ![c] = PlusOne(@, o)]
    BY Zenon
  <2>8. b \in [Caller -> [Object -> Nat]]
    BY ZenonT(60), <1>1, <1>5, <2>7, HeldGains
  <2>9. borrowed' = [b EXCEPT ![c] = PlusOne(@, p)]
    <3>1. PICK f, g : f = PlusOne(borrowed[c], o) /\ g = PlusOne(f, p)
      BY Zenon
    <3>2. b = [borrowed EXCEPT ![c] = f] /\ borrowed' = [borrowed EXCEPT ![c] = g]
      BY Zenon, <2>3, <2>7, <3>1
    <3>3. b[c] = f /\ borrowed' = [b EXCEPT ![c] = g]
      BY ZenonT(60), <1>1, <3>2, ExceptTwice
    <3> QED BY Zenon, <3>1, <3>3
  <2>10. Exact(r, Listed, objects, b)
    BY ZenonT(60), <1>1, <1>5, <2>6, <2>7, ExactBorrow
  <2>11. Exact(refCount', Listed, objects, borrowed')
    <3>1. refCount' = PlusOne(r, p)
      BY Zenon, <2>a DEF Raised
    <3> QED BY ZenonT(60), <1>1, <2>2, <2>6, <2>8, <2>9, <2>10, <3>1, ExactBorrow
  <2>12. \A x \in Object : refCount'[x] = refCount[x] \/ refCount[x] # 0
    BY ZenonT(60), <2>5, <2>a DEF Raised
  <2> QED BY ZenonT(60), <1>2, <2>11, <2>12, LifeOpened
<1> QED BY Zenon, <1>6, <1>7

\* Finalize takes the table away: its entries are those to close.
LEMMA LifeBegin ==
    ASSUME IInv, LifetimeInv, NEW c \in Caller, FinalizeBegin(c) PROVE LifetimeInv'
<1>1. OneFinalizer /\ DestroyedOnce /\ TypeOK /\ Exact(refCount, Listed, objects, borrowed)
  BY Zenon, LifeParts
<1>2. /\ closing[c] = TableSize /\ tableSize' = 0 /\ closing' = [closing EXCEPT ![c] = TableSize - tableSize]
      /\ objects' = objects /\ refCount' = refCount /\ borrowed' = borrowed /\ closed' = closed
  BY ZenonT(60) DEF FinalizeBegin, Idle, objectVars
<1>3. /\ closing \in [Caller -> 0..TableSize] /\ tableSize \in {0, TableSize} /\ TableSize \in Nat
      /\ \A d \in Caller : closing[d] # TableSize => tableSize = 0 /\ \A f \in Caller \ {d} : closing[f] = TableSize
  BY ZenonT(60), <1>1, SizeAssumption DEF TypeOK, OneFinalizer, Idle
<1>4. closing' \in [Caller -> 0..TableSize] /\ closing'[c] = TableSize - tableSize
      /\ \A d \in Caller : d # c => closing'[d] = closing[d]
  BY <1>2, <1>3
<1>5. CASE tableSize = 0
  <2>1. closing'[c] = closing[c]
    BY <1>2, <1>4, <1>5, SizeAssumption
  <2>2. closing' = closing
    BY <1>2, <1>3, <1>4, <2>1
  <2> QED BY ZenonT(60), <1>2, <1>5, <2>2, LifeQuiet
<1>6. CASE tableSize # 0
  <2>1. closing'[c] = 0 /\ \A d \in Caller : d # c => closing'[d] = TableSize
    BY <1>3, <1>4, <1>6
  <2>2. OneFinalizer'
    BY ZenonT(60), <1>2, <2>1 DEF OneFinalizer, Idle
  <2>3. Listed = Index
    BY Zenon, <1>6 DEF Listed
  <2>4. Listed' = UNION {closing'[d]..(TableSize - 1) : d \in Caller}
    BY ZenonT(60), <1>2 DEF Listed
  <2>5. UNION {closing'[d]..(TableSize - 1) : d \in Caller} = Index
    BY <1>4, <2>1 DEF Index
  <2>6. DestroyedOnce'
    BY ZenonT(60), <1>1, <1>2 DEF DestroyedOnce
  <2>7. Exact(refCount', Listed', objects', borrowed')
    BY Zenon, <1>1, <1>2, <2>3, <2>4, <2>5
  <2> QED BY Zenon, <2>2, <2>6, <2>7, LifeIsNext
<1> QED BY Zenon, <1>5, <1>6

\* ... one after the other, and each once.
LEMMA LifeFinal ==
    ASSUME IInv, LifetimeInv, NEW c \in Caller, FinalizeClose(c) PROVE LifetimeInv'
<1>1. /\ OneFinalizer /\ DestroyedOnce /\ TypeOK
      /\ Exact(refCount, Listed, objects, borrowed) /\ Listed \in SUBSET Index
      /\ refCount \in [Object -> Int] /\ objects \in [Index -> Object \cup {NoObject}]
  BY Zenon, LifeParts
<1>2. PICK e : e = closing[c]
  BY Zenon
<1>3. /\ e # TableSize /\ closing' = [closing EXCEPT ![c] = e + 1] /\ tableSize' = tableSize
      /\ objects' = objects /\ borrowed' = borrowed
      /\ objects[e] # NoObject => CloseBy(c, objects[e])
      /\ objects[e] = NoObject => refCount' = refCount /\ closed' = closed
  BY ZenonT(60), <1>2 DEF FinalizeClose, Idle, tableVars
<1>4. /\ closing \in [Caller -> 0..TableSize] /\ tableSize = 0 /\ TableSize \in Nat
      /\ \A d \in Caller : d # c => closing[d] = TableSize
  BY ZenonT(60), <1>1, <1>2, <1>3, SizeAssumption DEF TypeOK, OneFinalizer, Idle
<1>5. e \in 0..(TableSize - 1)
  BY <1>2, <1>3, <1>4
<1>6. closing'[c] = e + 1 /\ \A d \in Caller : d # c => closing'[d] = TableSize
  BY <1>3, <1>4
<1>7. Listed = e..(TableSize - 1)
  <2>1. Listed = UNION {closing[d]..(TableSize - 1) : d \in Caller}
    BY ZenonT(60), <1>4 DEF Listed
  <2> QED BY <1>2, <1>4, <1>5, <2>1
<1>8. Listed' = (e + 1)..(TableSize - 1)
  <2>1. Listed' = UNION {closing'[d]..(TableSize - 1) : d \in Caller}
    BY ZenonT(60), <1>3, <1>4 DEF Listed
  <2> QED BY <1>4, <1>5, <1>6, <2>1
<1>9. e \in Listed /\ Listed' = Listed \ {e} /\ e \in Index /\ Listed' \in SUBSET Index
  BY <1>4, <1>5, <1>7, <1>8 DEF Index
<1>10. OneFinalizer'
  BY ZenonT(60), <1>3, <1>4, <1>6 DEF OneFinalizer, Idle
<1>11. CASE objects[e] = NoObject
  <2>1. \A o \in Object : InTable(objects, Listed', o) = InTable(objects, Listed, o)
    BY ZenonT(60), <1>9, <1>11, ObjectAssumption DEF InTable
  <2>2. Exact(refCount, Listed', objects, borrowed)
    BY ZenonT(60), <1>1, <2>1, ExactSame
  <2>3. DestroyedOnce'
    BY ZenonT(60), <1>1, <1>3, <1>11 DEF DestroyedOnce
  <2>4. Exact(refCount', Listed', objects', borrowed')
    BY Zenon, <1>3, <1>11, <2>2
  <2> QED BY Zenon, <1>10, <2>3, <2>4, LifeIsNext
<1>12. CASE objects[e] # NoObject
  <2>1. PICK o \in Object : o = objects[e]
    BY <1>1, <1>9, <1>12
  <2>2. CloseBy(c, o)
    BY Zenon, <1>3, <1>12, <2>1
  <2>3. refCount' = [refCount EXCEPT ![o] = @ - 1]
    BY Zenon, <2>2 DEF CloseBy
  <2>4. refCount[o] > 0
    BY ZenonT(60), <1>1, <1>9, <2>1, ListedIsReferenced
  <2>5. DestroyedOnce'
    BY ZenonT(60), <1>1, <2>2, <2>4, OnceClosed
  <2>6. TableMore(objects, Listed \ {e}, objects, Listed, o)
    BY ZenonT(60), <1>1, <1>9, <2>1, TableShortened
  <2>7. TableMore(objects, Listed', objects, Listed, o)
    BY Zenon, <1>9, <2>6
  <2>8. Exact(refCount', Listed', objects, borrowed)
    BY ZenonT(60), <1>1, <1>9, <2>3, <2>7, ExactEmpty
  <2>9. Exact(refCount', Listed', objects', borrowed')
    BY Zenon, <1>3, <2>8
  <2> QED BY Zenon, <1>10, <2>5, <2>9, LifeIsNext
<1> QED BY Zenon, <1>11, <1>12

LEMMA NextLifetime ==
    ASSUME IInv, LifetimeInv, [Next]_vars PROVE LifetimeInv'
<1>1. ASSUME NEW c \in Caller, NEW h \in Handle, GetObject(c, h) PROVE LifetimeInv'
  <2>1. PICK o : o = Lookup(h)
    BY Zenon
  <2>2. /\ o # NoObject /\ Open(o) /\ Borrow(c, o)
        /\ objects' = objects /\ closed' = closed /\ closing' = closing /\ tableSize' = tableSize
    BY ZenonT(60), <1>1, <2>1 DEF GetObject, tableVars
  <2>3. o \in Object /\ refCount[o] > 0
    BY ZenonT(60), <2>1, <2>2, LookupReferenced
  <2> QED BY ZenonT(60), <2>2, <2>3, LifeGet
<1>2. CASE UNCHANGED vars
  <2>1. /\ objects' = objects /\ refCount' = refCount /\ borrowed' = borrowed /\ closed' = closed
        /\ closing' = closing /\ tableSize' = tableSize
    BY ZenonT(60), <1>2 DEF vars
  <2> QED BY ZenonT(60), <2>1, LifeQuiet
<1>3. CASE Next
  <2>1. PICK c \in Caller :
          \/ \E o \in Object : Create(c, o) \/ Close(c, o) \/ Add(c, o) \/ Register(c, o)
          \/ DestroyClosedObjects(c)
          \/ Reserve(c)
          \/ Unreserve(c)
          \/ \E h \in Handle : Remove(c, h)
          \/ \E h \in Handle : GetObject(c, h)
          \/ \E h, k \in Handle : GetMultipleObjects(c, h, k)
          \/ FinalizeBegin(c)
          \/ FinalizeClose(c)
    BY Zenon, <1>3 DEF Next
  <2>2. CASE \E o \in Object : Create(c, o) \/ Close(c, o) \/ Add(c, o) \/ Register(c, o)
    BY ZenonT(60), <2>2, LifeCreate, LifeClose, LifeAdd, LifeRegister
  <2>3. CASE \E h \in Handle : Remove(c, h)
    BY ZenonT(60), <2>3, LifeRemove
  <2>4. CASE \E h, k \in Handle : GetMultipleObjects(c, h, k)
    BY ZenonT(60), <2>4, LifeGetMultiple
  <2>5. CASE DestroyClosedObjects(c) \/ Reserve(c) \/ Unreserve(c) \/ FinalizeBegin(c) \/ FinalizeClose(c)
    BY ZenonT(60), <2>5, LifeDestroy, LifeReserve, LifeBegin, LifeFinal
  <2> QED BY ZenonT(60), <1>1, <2>1, <2>2, <2>3, <2>4, <2>5
<1> QED BY Zenon, <1>2, <1>3

LEMMA InitLifetime == Init => LifetimeInv
<1> SUFFICES ASSUME Init PROVE LifetimeInv
  OBVIOUS
<1>1. /\ objects = [i \in Index |-> NoObject] /\ tableSize = TableSize /\ refCount = [o \in Object |-> 0]
      /\ borrowed = [c \in Caller |-> [o \in Object |-> 0]] /\ closed = [c \in Caller |-> {}]
      /\ closing = [c \in Caller |-> TableSize]
  BY ZenonT(60) DEF Init
<1>2. OneFinalizer
  BY ZenonT(60), <1>1 DEF OneFinalizer, Idle
<1>3. DestroyedOnce
  BY ZenonT(60), <1>1 DEF DestroyedOnce
<1>4. Listed = Index
  BY <1>1, SizeAssumption DEF Listed
<1>5. ASSUME NEW o \in Object
      PROVE  /\ IsFiniteSet(Held(borrowed, o))
             /\ refCount[o] = Cardinality(InTable(objects, Listed, o)) + Cardinality(Held(borrowed, o))
  <2>1. InTable(objects, Listed, o) = {}
    BY ZenonT(60), <1>1, <1>4, ObjectAssumption DEF InTable
  <2>2. \A c \in Caller : 1..borrowed[c][o] = {}
    BY <1>1
  <2>3. \A r : ~IsHeld(borrowed, o, r)
    BY ZenonT(60), <2>2 DEF IsHeld
  <2>4. Held(borrowed, o) = {}
    BY ZenonT(60), <2>3, HeldMember
  <2>5. IsFiniteSet({}) /\ Cardinality({}) = 0
    BY ZenonT(60), FS_EmptySet
  <2>6. refCount[o] = 0
    BY Zenon, <1>1
  <2> QED BY <2>1, <2>4, <2>5, <2>6
<1>6. Counts
  BY Zenon, <1>5 DEF Counts, Exact
<1> QED BY Zenon, <1>2, <1>3, <1>6, LifeIs

(***************************************************************************)
(* The theorems.                                                           *)
(***************************************************************************)

\* Every variable of the table, its callers and its objects keeps its type.
THEOREM TypeCorrect == Spec => []TypeOK
<1>1. IInv => TypeOK
  BY DEF IInv
<1> QED BY <1>1, SpecIInv, PTL

\* AllocateEntry and FreeEntry keep the free list whole: it links exactly the
\* entries that are neither used nor reserved, and m_count counts the others.
THEOREM FreeListWhole == Spec => []FreeListIntact
<1>1. IInv => FreeListIntact
  BY DEF IInv
<1> QED BY <1>1, SpecIInv, PTL

\* No two callers hold a reservation of the same entry, and no one fills an
\* entry that is reserved, as Unreserve and Register assert.
THEOREM ReservationsExclusive == Spec => []ReservedStayEmpty
<1>1. IInv => ReservedStayEmpty
  BY DEF IInv
<1> QED BY <1>1, SpecIInv, PTL

\* Every entry is free, reserved or used, and on the free list only if it is free.
THEOREM Partition == Spec => []EntriesPartitioned
  BY FreeListWhole, ReservationsExclusive, PTL DEF EntriesPartitioned

\* GetObject resolves a handle exactly if Add or Register gave it out and Remove
\* has not taken it back, and to the object it was given out for.
THEOREM HandlesResolve == Spec => []ResolvesIffLive
<1>1. ASSUME IInv PROVE ResolvesIffLive
  <2> SUFFICES ASSUME NEW h \in Handle, NEW o \in Object
               PROVE Lookup(h) = o <=> tableSize # 0 /\ <<h, o>> \in live
    BY ZenonT(60) DEF ResolvesIffLive
  <2>1. <<h, o>> \in live <=> /\ h.reserved = 0
                             /\ h.linearId # 0
                             /\ h.index \in Index
                             /\ objects[h.index] = o
                             /\ info[h.index] = h.linearId
    BY <1>1 DEF IInv, LiveExact
  <2>2. h.index < tableSize <=> tableSize # 0 /\ h.index \in Index
    BY <1>1 DEF IInv, TypeOK, Handle, Index
  <2> QED BY <2>1, <2>2 DEF Lookup, IsValidHandle
<1> QED BY <1>1, SpecIInv, PTL

\* AllocateLinearId gives a handle value out again only when MaxLinearId - 1
\* other handles have been given out since.
THEOREM LateReuse == Spec => ReuseIsLate
<1>1. ASSUME IInv, [Next]_vars
      PROVE  [(since' = 0 /\ since # 0) => since >= MaxLinearId - 1]_vars
  <2> SUFFICES ASSUME since' = 0, since # 0 PROVE since >= MaxLinearId - 1
    OBVIOUS
  <2>1. Next
    BY <1>1 DEF vars
  <2>2. Allocate
    BY ZenonT(60), <2>1 DEF Next, Create, Close, Add, Register, DestroyClosedObjects, Reserve,
                Unreserve, Remove, GetObject, GetMultipleObjects, FinalizeBegin,
                FinalizeClose, FreeEntry
  <2>3. /\ nextLinearId \in 1..MaxLinearId
        /\ since \in 0..MaxLinearId
        /\ Watched.linearId \in 1..MaxLinearId
    BY <1>1 DEF IInv, TypeOK, LinearId
  <2>4. EncodeHandle(freeHead, nextLinearId) = Watched
    BY <2>2, <2>3 DEF Allocate
  <2>5. nextLinearId = Watched.linearId
    BY <2>4 DEF EncodeHandle
  <2> QED BY <1>1, <2>3, <2>5 DEF IInv, SinceExact
<1> QED BY <1>1, SpecIInv, PTL DEF Spec, ReuseIsLate

\* A reference count is exactly the number of references to its object, and an object
\* is scheduled for destruction once, by the caller that closes its last reference:
\* for any callers, objects and table, though Remove, look-ups and Finalize close
\* references after they have left the lock.
THEOREM Lifetimes == Spec => []LifetimesExact
<1>1. IInv /\ LifetimeInv /\ [Next]_vars => IInv' /\ LifetimeInv'
  BY Zenon, NextIInv, NextLifetime
<1>2. Init => IInv /\ LifetimeInv
  BY Zenon, InitIInv, InitLifetime
<1>3. LifetimeInv => LifetimesExact
  BY Zenon DEF LifetimeInv
<1> QED BY <1>1, <1>2, <1>3, PTL DEF Spec

\* One caller at most closes the entries of a finalized table, so that Finalize needs
\* no lock for it, and it does so once the table is out of reach.
THEOREM OneCloses == Spec => []OneFinalizer
<1>1. IInv /\ LifetimeInv /\ [Next]_vars => IInv' /\ LifetimeInv'
  BY Zenon, NextIInv, NextLifetime
<1>2. Init => IInv /\ LifetimeInv
  BY Zenon, InitIInv, InitLifetime
<1>3. LifetimeInv => OneFinalizer
  BY Zenon DEF LifetimeInv
<1> QED BY <1>1, <1>2, <1>3, PTL DEF Spec

=============================================================================
