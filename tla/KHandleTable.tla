---------------------------- MODULE KHandleTable ----------------------------
(***************************************************************************)
(* A process's handle table (KHandleTable) and the reference counts of the *)
(* objects in it (KAutoObject).                                            *)
(*                                                                         *)
(* The table is used by the system calls of the process's threads, by      *)
(* other processes that send it handles, and by the thread that finalizes  *)
(* it.  Its spin lock makes every method one action, except that Remove    *)
(* and GetMultipleObjects close objects after they have released it and    *)
(* that Finalize closes the entries without holding it.                    *)
(***************************************************************************)
EXTENDS Integers, FiniteSets, FiniteSetsExt

CONSTANTS
    Caller,          \* threads that use the table
    Object,          \* slab slots of kernel objects
    NoObject,        \* nullptr
    Synchronization, \* the objects that are KSynchronizationObjects
    TableSize,       \* m_table_size after Initialize
    MaxLinearId,     \* 2^15 - 1 in the code
    MaxBorrowed,     \* bound: references a caller has opened at a time
    Watched          \* the handle whose reuse is watched

ASSUME ObjectAssumption == NoObject \notin Object /\ Synchronization \subseteq Object
ASSUME SizeAssumption == TableSize \in Nat \ {0} /\ MaxLinearId \in Nat \ {0, 1}

Index == 0..(TableSize - 1)
LinearId == 1..MaxLinearId

\* The three fields packed in a handle.  Zero and pseudo handles are among
\* them: the first has linear id 0, the others have reserved bits.
Handle == [index : 0..TableSize, linearId : 0..MaxLinearId, reserved : {0, 1}]
EncodeHandle(i, l) == [index |-> i, linearId |-> l, reserved |-> 0]
NoHandle == EncodeHandle(0, 0)

ASSUME WatchedAssumption == Watched \in [index : Index, linearId : LinearId, reserved : {0}]

VARIABLES
    objects,      \* m_objects
    info,         \* m_entry_infos: a linear id or the next free index, in one cell
    freeHead,     \* m_free_head_index
    tableSize,    \* m_table_size
    nextLinearId, \* m_next_linear_id
    count,        \* m_count
    maxCount,     \* m_max_count
    reservation,  \* the handle a caller has reserved, or NoHandle
    refCount,     \* m_ref_count of every object
    borrowed,     \* how many references to each object a caller has to close
    closed,       \* the objects whose destruction a caller has scheduled
    closing,      \* the index a caller's Finalize closes next, TableSize outside it
    live,         \* history: the <<handle, object>> pairs given out
    since         \* history: allocations since Watched was, at most MaxLinearId

tableVars == <<objects, info, freeHead, tableSize, nextLinearId, count, maxCount>>
objectVars == <<refCount, borrowed, closed>>
vars == <<objects, info, freeHead, tableSize, nextLinearId, count, maxCount,
          reservation, refCount, borrowed, closed, closing, live, since>>

-----------------------------------------------------------------------------
(* KAutoObject.                                                            *)

\* A caller is executing Finalize until it has closed every entry.
Idle(c) == closing[c] = TableSize

\* A caller opens no more than MaxBorrowed references at a time.
MayBorrow(c, n) ==
    Idle(c) /\ MapThenSumSet(LAMBDA o : borrowed[c][o], Object) + n <= MaxBorrowed

PlusOne(f, o) == [f EXCEPT ![o] = @ + 1]

Borrow(c, o) == borrowed' = [borrowed EXCEPT ![c] = PlusOne(@, o)]

\* ReferenceCount::Open: a count that is zero stays zero.
Opened(counts, o) == IF counts[o] = 0 THEN counts ELSE PlusOne(counts, o)

Open(o) == refCount' = Opened(refCount, o)

\* Close, and ScheduleDestruction when it was the last reference.
CloseBy(c, o) ==
    /\ refCount' = [refCount EXCEPT ![o] = @ - 1]
    /\ closed' = IF refCount[o] = 1 THEN [closed EXCEPT ![c] = @ \cup {o}] ELSE closed

\* An object is created in an unused slot, with one reference.
Create(c, o) ==
    /\ MayBorrow(c, 1)
    /\ refCount[o] = 0
    /\ \A d \in Caller : o \notin closed[d]
    /\ refCount' = [refCount EXCEPT ![o] = 1]
    /\ Borrow(c, o)
    /\ UNCHANGED <<tableVars, reservation, closed, closing, live, since>>

\* The end of a scope that held a reference.
Close(c, o) ==
    /\ Idle(c)
    /\ borrowed[c][o] > 0
    /\ CloseBy(c, o)
    /\ borrowed' = [borrowed EXCEPT ![c][o] = @ - 1]
    /\ UNCHANGED <<tableVars, reservation, closing, live, since>>

DestroyClosedObjects(c) ==
    /\ Idle(c)
    /\ closed[c] # {}
    /\ closed' = [closed EXCEPT ![c] = {}]
    /\ UNCHANGED <<tableVars, reservation, refCount, borrowed, closing, live, since>>

-----------------------------------------------------------------------------
(* The entries of the table.                                               *)

\* Mutant: the wrap comes one id early.
LinearIdEarlyWrap == IF nextLinearId + 1 >= MaxLinearId THEN 1 ELSE nextLinearId + 1

\* AllocateLinearId: the ids in turn, never 0.
AllocateLinearId == IF nextLinearId + 1 > MaxLinearId THEN 1 ELSE nextLinearId + 1

\* AllocateEntry, the head of the free list, with a linear id for it.
Allocate ==
    /\ count < tableSize
    /\ freeHead' = info[freeHead]
    /\ count' = count + 1
    /\ maxCount' = IF count + 1 > maxCount THEN count + 1 ELSE maxCount
    /\ nextLinearId' = AllocateLinearId
    /\ since' = IF EncodeHandle(freeHead, nextLinearId) = Watched THEN 0
                ELSE IF since < MaxLinearId THEN since + 1 ELSE since
    /\ UNCHANGED tableSize

\* Mutant: the entry is not linked to the rest of the free list.
FreeEntryUnlinked(i) ==
    /\ objects' = [objects EXCEPT ![i] = NoObject]
    /\ freeHead' = i
    /\ count' = count - 1
    /\ UNCHANGED <<info, tableSize, nextLinearId, maxCount, since>>

FreeEntry(i) ==
    /\ objects' = [objects EXCEPT ![i] = NoObject]
    /\ info' = [info EXCEPT ![i] = freeHead]
    /\ freeHead' = i
    /\ count' = count - 1
    /\ UNCHANGED <<tableSize, nextLinearId, maxCount, since>>

\* Mutant: the linear id is not compared.
IsValidIndex(h) ==
    /\ h.reserved = 0
    /\ h.linearId # 0
    /\ h.index < tableSize
    /\ objects[h.index] # NoObject

\* IsValidHandle, after the callers' check of the reserved bits.
IsValidHandle(h) ==
    /\ h.reserved = 0
    /\ h.linearId # 0
    /\ h.index < tableSize
    /\ objects[h.index] # NoObject
    /\ info[h.index] = h.linearId

\* GetObjectImpl
Lookup(h) == IF IsValidHandle(h) THEN objects[h.index] ELSE NoObject

-----------------------------------------------------------------------------
Init ==
    /\ objects = [i \in Index |-> NoObject]
    /\ info = [i \in Index |-> i - 1]
    /\ freeHead = TableSize - 1
    /\ tableSize = TableSize
    /\ nextLinearId = 1
    /\ count = 0
    /\ maxCount = 0
    /\ reservation = [c \in Caller |-> NoHandle]
    /\ refCount = [o \in Object |-> 0]
    /\ borrowed = [c \in Caller |-> [o \in Object |-> 0]]
    /\ closed = [c \in Caller |-> {}]
    /\ closing = [c \in Caller |-> TableSize]
    /\ live = {}
    /\ since = MaxLinearId

\* Add an object the caller holds a reference to.
Add(c, o) ==
    /\ Idle(c)
    /\ borrowed[c][o] > 0
    /\ Allocate
    /\ info' = [info EXCEPT ![freeHead] = nextLinearId]
    /\ objects' = [objects EXCEPT ![freeHead] = o]
    /\ Open(o)
    /\ live' = live \cup {<<EncodeHandle(freeHead, nextLinearId), o>>}
    /\ UNCHANGED <<reservation, borrowed, closed, closing>>

\* Reserve an entry to fill, or to give back, later.
Reserve(c) ==
    /\ Idle(c)
    /\ reservation[c] = NoHandle
    /\ Allocate
    /\ reservation' = [reservation EXCEPT ![c] = EncodeHandle(freeHead, nextLinearId)]
    /\ UNCHANGED <<objects, info, objectVars, closing, live>>

\* Unreserve frees the entry without a look at the linear id.
Unreserve(c) ==
    /\ Idle(c)
    /\ reservation[c] # NoHandle
    /\ reservation' = [reservation EXCEPT ![c] = NoHandle]
    /\ IF reservation[c].index < tableSize
       THEN FreeEntry(reservation[c].index)
       ELSE UNCHANGED <<tableVars, since>>
    /\ UNCHANGED <<objectVars, closing, live>>

\* Register fills the reserved entry, if the table is still there.
Register(c, o) ==
    /\ Idle(c)
    /\ reservation[c] # NoHandle
    /\ borrowed[c][o] > 0
    /\ reservation' = [reservation EXCEPT ![c] = NoHandle]
    /\ LET h == reservation[c]
       IN  IF h.index < tableSize
           THEN /\ info' = [info EXCEPT ![h.index] = h.linearId]
                /\ objects' = [objects EXCEPT ![h.index] = o]
                /\ Open(o)
                /\ live' = live \cup {<<h, o>>}
           ELSE UNCHANGED <<info, objects, refCount, live>>
    /\ UNCHANGED <<freeHead, tableSize, nextLinearId, count, maxCount, since,
                   borrowed, closed, closing>>

\* Remove: the caller closes the table's reference once it has left the lock.
Remove(c, h) ==
    /\ IsValidHandle(h)
    /\ MayBorrow(c, 1)
    /\ FreeEntry(h.index)
    /\ Borrow(c, objects[h.index])
    /\ live' = live \ {<<h, objects[h.index]>>}
    /\ UNCHANGED <<reservation, refCount, closed, closing>>

\* Mutant: the reference is not opened.
GetObjectUnopened(c, h) ==
    /\ Lookup(h) # NoObject
    /\ MayBorrow(c, 1)
    /\ Borrow(c, Lookup(h))
    /\ UNCHANGED <<tableVars, reservation, refCount, closed, closing, live, since>>

\* GetObject: a scoped reference.
GetObject(c, h) ==
    /\ Lookup(h) # NoObject
    /\ MayBorrow(c, 1)
    /\ Open(Lookup(h))
    /\ Borrow(c, Lookup(h))
    /\ UNCHANGED <<tableVars, reservation, closed, closing, live, since>>

\* GetMultipleObjects of two handles: opened while the handles are good, and
\* closed again by the caller whether all of them were or not.
GetMultipleObjects(c, h, k) ==
    /\ Lookup(h) \in Synchronization
    /\ MayBorrow(c, 2)
    /\ IF Lookup(k) \in Synchronization
       THEN /\ refCount' = Opened(Opened(refCount, Lookup(h)), Lookup(k))
            /\ borrowed' = [borrowed EXCEPT ![c] = PlusOne(PlusOne(@, Lookup(h)), Lookup(k))]
       ELSE /\ Open(Lookup(h))
            /\ Borrow(c, Lookup(h))
    /\ UNCHANGED <<tableVars, reservation, closed, closing, live, since>>

\* Finalize: take the table away under the lock ...
FinalizeBegin(c) ==
    /\ Idle(c)
    /\ tableSize' = 0
    /\ closing' = [closing EXCEPT ![c] = TableSize - tableSize]
    /\ UNCHANGED <<objects, info, freeHead, nextLinearId, count, maxCount,
                   reservation, objectVars, live, since>>

\* ... and close every object that was in it, in index order, without the lock.
FinalizeClose(c) ==
    /\ ~Idle(c)
    /\ IF objects[closing[c]] # NoObject
       THEN CloseBy(c, objects[closing[c]])
       ELSE UNCHANGED <<refCount, closed>>
    /\ closing' = [closing EXCEPT ![c] = @ + 1]
    /\ UNCHANGED <<tableVars, reservation, borrowed, live, since>>

Next ==
    \E c \in Caller :
        \/ \E o \in Object : Create(c, o) \/ Close(c, o) \/ Add(c, o) \/ Register(c, o)
        \/ DestroyClosedObjects(c)
        \/ Reserve(c)
        \/ Unreserve(c)
        \/ \E h \in Handle : Remove(c, h)
        \/ \E h \in Handle : GetObject(c, h)
        \/ \E h, k \in Handle : GetMultipleObjects(c, h, k)
        \/ FinalizeBegin(c)
        \/ FinalizeClose(c)

Spec == Init /\ [][Next]_vars

-----------------------------------------------------------------------------
(* Properties.                                                             *)

Reserved == {reservation[c].index : c \in {d \in Caller : reservation[d] # NoHandle}}
FreeIndex == {i \in Index : objects[i] = NoObject /\ i \notin Reserved}

\* Every variable keeps its type.
TypeOK ==
    /\ objects \in [Index -> Object \cup {NoObject}]
    /\ info \in [Index -> -1..(TableSize + MaxLinearId)]
    /\ freeHead \in -1..(TableSize - 1)
    /\ tableSize \in {0, TableSize}
    /\ nextLinearId \in LinearId
    /\ count \in 0..TableSize
    /\ maxCount \in count..TableSize
    /\ reservation \in [Caller -> [index : Index, linearId : 0..MaxLinearId, reserved : {0}]]
    /\ refCount \in [Object -> Int]
    /\ borrowed \in [Caller -> [Object -> Nat]]
    /\ closed \in [Caller -> SUBSET Object]
    /\ closing \in [Caller -> 0..TableSize]
    /\ since \in 0..MaxLinearId

\* s is the list of n indices that starts at head, links through next and ends
\* in -1, and holds the set free without repetition.
IsFreeList(s, n, head, next, free) ==
    /\ head = IF n = 0 THEN -1 ELSE s[1]
    /\ \A j \in 1..n : next[s[j]] = IF j = n THEN -1 ELSE s[j + 1]
    /\ \A j, k \in 1..n : s[j] = s[k] => j = k
    /\ \A j \in 1..n : s[j] \in free
    /\ \A i \in free : \E j \in 1..n : s[j] = i

\* From m_free_head_index, the cells of the free entries link all of them and
\* nothing else, and m_count counts the rest, although a cell is shared with the
\* linear id of a used entry and Unreserve does not check what it frees.
FreeListIntact ==
    tableSize # 0 =>
        \E s \in [1..(TableSize - count) -> Index] :
            IsFreeList(s, TableSize - count, freeHead, info, FreeIndex)

\* A reserved entry is empty and is reserved by one caller: what the assertions
\* in Unreserve and Register say.
ReservedStayEmpty ==
    \A c, d \in Caller :
        reservation[c] # NoHandle =>
            /\ objects[reservation[c].index] = NoObject
            /\ (c # d /\ reservation[d] # NoHandle)
                  => reservation[c].index # reservation[d].index

\* Every entry of the table is free and on the free list once, or reserved by
\* one caller, or in use, whatever the order of Add, Reserve, Unreserve, Register
\* and Remove.
EntriesPartitioned == FreeListIntact /\ ReservedStayEmpty

\* A handle resolves exactly if it was given out and not removed since, and then
\* to the object it was given out for.  Stale, guessed, reserved and malformed
\* handles resolve to nothing, and nothing resolves in a finalized table.
ResolvesIffLive ==
    \A h \in Handle, o \in Object :
        Lookup(h) = o <=> tableSize # 0 /\ <<h, o>> \in live

\* The entries whose references are the table's: in a finalized table, those
\* that are not closed yet.
Listed == IF tableSize # 0 THEN Index ELSE UNION {closing[c]..(TableSize - 1) : c \in Caller}
InTable(table, entries, o) == {i \in entries : table[i] = o}

\* The references to o that callers have still to close, b[c][o] of them for caller c.
Held(b, o) == UNION {{c} \X (1..b[c][o]) : c \in Caller}

\* A reference count is the number of references: one for each entry of the
\* table and one for each that a caller has still to close.
RefCountExact ==
    \A o \in Object :
        refCount[o] = Cardinality(InTable(objects, Listed, o)) + Cardinality(Held(borrowed, o))

\* An object is scheduled for destruction once, after its last reference is gone.
DestroyedOnce ==
    \A c \in Caller : \A o \in closed[c] :
        /\ refCount[o] = 0
        /\ \A d \in Caller \ {c} : o \notin closed[d]

\* No object loses or keeps a reference, or is destroyed twice, while Remove,
\* look-ups and Finalize close references outside the lock.
LifetimesExact == RefCountExact /\ DestroyedOnce

\* A handle value that was given out comes back only after all the other linear
\* ids have been used.
ReuseIsLate ==
    [][(since' = 0 /\ since # 0) => since >= MaxLinearId - 1]_vars

-----------------------------------------------------------------------------
(* The inductive invariant of the proofs.                                  *)

\* The live handles are those of the entries that hold an object, in a
\* finalized table too.
LiveExact ==
    \A h \in Handle, o \in Object :
        <<h, o>> \in live <=> /\ h.reserved = 0
                             /\ h.linearId # 0
                             /\ h.index \in Index
                             /\ objects[h.index] = o
                             /\ info[h.index] = h.linearId

\* The next linear id tells how many were allocated since Watched was.
SinceExact ==
    since < MaxLinearId =>
        LET n == Watched.linearId + 1 + since
        IN  nextLinearId = IF n > MaxLinearId THEN n - MaxLinearId ELSE n

\* A reservation has a linear id.
ReservationNumbered ==
    \A c \in Caller : reservation[c] # NoHandle => reservation[c].linearId # 0

IInv ==
    /\ TypeOK
    /\ FreeListIntact
    /\ ReservedStayEmpty
    /\ LiveExact
    /\ SinceExact
    /\ ReservationNumbered

\* One caller closes the entries, of a table that was taken away.
OneFinalizer ==
    \A c \in Caller : ~Idle(c) => tableSize = 0 /\ \A d \in Caller \ {c} : Idle(d)

\* The references to close are finitely many, so that they can be counted.
HeldFinite == \A o \in Object : IsFiniteSet(Held(borrowed, o))

LifetimeInv == OneFinalizer /\ HeldFinite /\ LifetimesExact

=============================================================================
