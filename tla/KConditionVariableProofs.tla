---------------------- MODULE KConditionVariableProofs ----------------------
(***************************************************************************)
(* KConditionVariable's mutexes and condition variables, proved for every  *)
(* finite set of threads and every set of locks.                           *)
(***************************************************************************)
EXTENDS KConditionVariable, FiniteSetTheorems, TLAPS

\* Leaves are given to the SMT solver, then to Zenon, unless they name their prover.
USE ThreadAssumption, LockAssumption, SMTT(60), SMTT(61), ZenonT(60)

\* The invariant holds in the initial states.
LEMMA InitIInv == Init => IInv
  BY DEF Init, IInv, TypeOK, Located, Owned, Flagged, WaitersLinked, Places, NoLock

\* EnterBegin keeps the invariant.
LEMMA EnterBeginStep ==
    ASSUME IInv, NEW t \in Thread, NEW l \in Lock, EnterBegin(t, l)
    PROVE  IInv'
<1> USE DEF EnterBegin, At, Go, Done, userVars, kernelVars, NoLock
<1>1. TypeOK'
  BY DEF IInv, TypeOK, Places
<1>2. Located'
  BY DEF IInv, TypeOK, Located
<1>3. Owned'
  BY DEF IInv, TypeOK, Owned, Located
<1>4. Flagged'
  BY DEF IInv, TypeOK, Flagged, Located
<1>5. WaitersLinked'
  BY DEF IInv, TypeOK, WaitersLinked, Located, Owned
<1> QED BY <1>1, <1>2, <1>3, <1>4, <1>5 DEF IInv

\* EnterFree keeps the invariant.
LEMMA EnterFreeStep ==
    ASSUME IInv, NEW t \in Thread, EnterFree(t)
    PROVE  IInv'
<1> USE DEF EnterFree, At, Go, Done, userVars, kernelVars, NoLock
<1>1. TypeOK'
  BY ZenonT(60) DEF IInv, TypeOK, Places
<1>2. Located'
  BY DEF IInv, TypeOK, Located
<1>3. Owned'
  BY DEF IInv, TypeOK, Owned, Located
<1>4. Flagged'
  BY DEF IInv, TypeOK, Flagged, Located
<1>5. WaitersLinked'
  BY DEF IInv, TypeOK, WaitersLinked, Located, Owned
<1> QED BY <1>1, <1>2, <1>3, <1>4, <1>5 DEF IInv

\* EnterHeld keeps the invariant.
LEMMA EnterHeldStep ==
    ASSUME IInv, NEW t \in Thread, EnterHeld(t)
    PROVE  IInv'
<1> USE DEF EnterHeld, At, Go, Done, userVars, kernelVars, NoLock
<1>1. TypeOK'
  BY ZenonT(60) DEF IInv, TypeOK, Located, Places
<1>2. Located'
  BY DEF IInv, TypeOK, Located
<1>3. Owned'
  BY DEF IInv, TypeOK, Owned, Located
<1>4. Flagged'
  BY DEF IInv, TypeOK, Flagged, Located
<1>5. WaitersLinked'
  BY DEF IInv, TypeOK, WaitersLinked, Located, Owned
<1> QED BY <1>1, <1>2, <1>3, <1>4, <1>5 DEF IInv

\* EnterReturn keeps the invariant.
LEMMA EnterReturnStep ==
    ASSUME IInv, NEW t \in Thread, EnterReturn(t)
    PROVE  IInv'
<1> USE DEF EnterReturn, At, Go, Done, userVars, kernelVars, NoLock
<1>1. TypeOK'
  BY DEF IInv, TypeOK, Places
<1>2. Located'
  BY DEF IInv, TypeOK, Located
<1>3. Owned'
  <2>1. CASE owner[key[t]] = t
    <3>1. /\ inside' = [inside EXCEPT ![key[t]] = inside[key[t]] \cup {t}] /\ UNCHANGED owner
          /\ key[t] \in Lock
      BY <2>1 DEF IInv, Located
    <3>2. \A l \in Lock : \A u \in inside'[l] : owner'[l] = u
      BY <2>1, <3>1 DEF IInv, TypeOK, Owned
    <3>3. \A u \in Thread \ {t} : \A l \in Lock : u \in inside'[l] <=> u \in inside[l]
      BY <3>1 DEF IInv, TypeOK
    <3>4. /\ pc'[t] = "user"
          /\ \A u \in Thread \ {t} : pc'[u] = pc[u] /\ key'[u] = key[u]
      BY <2>1 DEF IInv, TypeOK
    <3> QED BY <3>1, <3>2, <3>3, <3>4 DEF IInv, Owned, Located
  <2>2. CASE ~(owner[key[t]] = t)
    BY <2>2 DEF IInv, TypeOK, Owned, Located
  <2> QED BY <2>1, <2>2
<1>4. Flagged'
  BY DEF IInv, TypeOK, Flagged, Located
<1>5. WaitersLinked'
  BY DEF IInv, TypeOK, WaitersLinked, Located, Owned
<1> QED BY <1>1, <1>2, <1>3, <1>4, <1>5 DEF IInv

\* LeaveLock keeps the invariant.
LEMMA LeaveLockStep ==
    ASSUME IInv, NEW t \in Thread, NEW l \in Lock, LeaveLock(t, l)
    PROVE  IInv'
<1> USE DEF LeaveLock, At, Go, Done, userVars, kernelVars, NoLock
<1>1. TypeOK'
  BY DEF IInv, TypeOK, Places
<1>2. Located'
  BY DEF IInv, TypeOK, Located
<1>3. Owned'
  <2>1. CASE waitMask[l]
    BY <2>1 DEF IInv, TypeOK, Owned, Located
  <2>2. CASE ~(waitMask[l])
    <3>1. /\ inside' = [inside EXCEPT ![l] = inside[l] \ {t}] /\ UNCHANGED <<pc, key>>
          /\ owner' = [owner EXCEPT ![l] = NoThread] /\ owner[l] = t
      BY <2>2 DEF IInv, Owned
    <3>2. \A k \in Lock : \A u \in inside'[k] : owner'[k] = u
      BY <3>1 DEF IInv, TypeOK, Owned
    <3>3. \A u \in Thread : pc[u] \in {"unlock", "cvReturn", "cvRelease"} => key[u] # l
      BY <3>1 DEF IInv, Owned
    <3>4. \A u \in Thread : pc[u] \in {"unlock", "cvReturn", "cvRelease"} => owner'[key[u]] = u
      BY <3>1, <3>3 DEF IInv, TypeOK, Owned, Located
    <3>5. \A u \in Thread : pc[u] = "cvRelease" => u \in inside'[key[u]]
      BY <3>1, <3>3 DEF IInv, TypeOK, Owned, Located
    <3>6. \A u \in Thread : \A k \in Lock : u \in inside'[k] => u \in inside[k]
      BY <3>1 DEF IInv, TypeOK
    <3> QED BY <3>1, <3>2, <3>4, <3>5, <3>6 DEF IInv, Owned, Located
  <2> QED BY <2>1, <2>2
<1>4. Flagged'
  BY DEF IInv, TypeOK, Flagged, Located
<1>5. WaitersLinked'
  <2>1. CASE waitMask[l]
    BY <2>1 DEF IInv, TypeOK, WaitersLinked, Located, Owned
  <2>2. CASE ~(waitMask[l])
    <3>1. owner' = [owner EXCEPT ![l] = NoThread] /\ UNCHANGED <<pc, key, waitMask, lockOwner>>
      BY <2>2
    <3>2. \A u \in Thread : pc[u] \in {"lockWait", "cvLockWait"} => key[u] # l /\ key[u] \in Lock
      BY <2>2 DEF IInv, WaitersLinked, Located
    <3> QED BY <3>1, <3>2 DEF IInv, TypeOK, WaitersLinked
  <2> QED BY <2>1, <2>2
<1> QED BY <1>1, <1>2, <1>3, <1>4, <1>5 DEF IInv

\* WaitForAddress keeps the invariant.
LEMMA WaitForAddressStep ==
    ASSUME IInv, NEW t \in Thread, WaitForAddress(t)
    PROVE  IInv'
<1> USE DEF WaitForAddress, At, Go, Done, userVars, kernelVars, NoLock
<1>1. TypeOK'
  BY DEF IInv, TypeOK, Places
<1>2. Located'
  <2>1. CASE owner[key[t]] = seen[t] /\ waitMask[key[t]]
    BY <2>1 DEF IInv, TypeOK, Located
  <2>2. CASE ~(owner[key[t]] = seen[t] /\ waitMask[key[t]])
    BY <2>2 DEF IInv, TypeOK, Located
  <2> QED BY <2>1, <2>2
<1>3. Owned'
  BY DEF IInv, TypeOK, Owned, Located
<1>4. Flagged'
  BY DEF IInv, TypeOK, Flagged, Located
<1>5. WaitersLinked'
  <2>1. CASE owner[key[t]] = seen[t] /\ waitMask[key[t]]
    BY <2>1 DEF IInv, TypeOK, WaitersLinked, Located, Owned
  <2>2. CASE ~(owner[key[t]] = seen[t] /\ waitMask[key[t]])
    BY <2>2 DEF IInv, TypeOK, WaitersLinked, Located, Owned
  <2> QED BY <2>1, <2>2
<1> QED BY <1>1, <1>2, <1>3, <1>4, <1>5 DEF IInv

\* WaitBegin keeps the invariant.
LEMMA WaitBeginStep ==
    ASSUME IInv, NEW t \in Thread, NEW l \in Lock, WaitBegin(t, l)
    PROVE  IInv'
<1> USE DEF WaitBegin, At, Go, Done, userVars, kernelVars, NoLock
<1>1. TypeOK'
  BY DEF IInv, TypeOK, Places
<1>2. Located'
  BY DEF IInv, TypeOK, Located
<1>3. Owned'
  BY DEF IInv, TypeOK, Owned, Located
<1>4. Flagged'
  BY DEF IInv, TypeOK, Flagged, Located
<1>5. WaitersLinked'
  BY DEF IInv, TypeOK, WaitersLinked, Located, Owned
<1> QED BY <1>1, <1>2, <1>3, <1>4, <1>5 DEF IInv

\* WaitReturn keeps the invariant.
LEMMA WaitReturnStep ==
    ASSUME IInv, NEW t \in Thread, WaitReturn(t)
    PROVE  IInv'
<1> USE DEF WaitReturn, At, Go, Done, userVars, kernelVars, NoLock
<1>1. TypeOK'
  BY ZenonT(60) DEF IInv, TypeOK, Places
<1>2. Located'
  BY DEF IInv, TypeOK, Located
<1>3. Owned'
  BY DEF IInv, TypeOK, Owned, Located
<1>4. Flagged'
  BY DEF IInv, TypeOK, Flagged, Located
<1>5. WaitersLinked'
  BY DEF IInv, TypeOK, WaitersLinked, Located, Owned
<1> QED BY <1>1, <1>2, <1>3, <1>4, <1>5 DEF IInv

\* SignalBegin keeps the invariant.
LEMMA SignalBeginStep ==
    ASSUME IInv, NEW t \in Thread, NEW l \in Lock, NEW n \in {1, -1}, SignalBegin(t, l, n)
    PROVE  IInv'
<1> USE DEF SignalBegin, At, Go, Done, userVars, kernelVars, NoLock
<1>1. TypeOK'
  BY DEF IInv, TypeOK, Places
<1>2. Located'
  BY DEF IInv, TypeOK, Located
<1>3. Owned'
  BY DEF IInv, TypeOK, Owned, Located
<1>4. Flagged'
  BY DEF IInv, TypeOK, Flagged, Located
<1>5. WaitersLinked'
  BY DEF IInv, TypeOK, WaitersLinked, Located, Owned
<1> QED BY <1>1, <1>2, <1>3, <1>4, <1>5 DEF IInv

\* SignalEnd keeps the invariant.
LEMMA SignalEndStep ==
    ASSUME IInv, NEW t \in Thread, SignalEnd(t)
    PROVE  IInv'
<1> USE DEF SignalEnd, At, Go, Done, userVars, kernelVars, Sleepers, NoLock
<1>1. TypeOK'
  BY ZenonT(60) DEF IInv, TypeOK, Places
<1>2. Located'
  BY DEF IInv, TypeOK, Located
<1>3. Owned'
  BY DEF IInv, TypeOK, Owned, Located
<1>4. Flagged'
  BY DEF IInv, TypeOK, Flagged, Located
<1>5. WaitersLinked'
  BY DEF IInv, TypeOK, WaitersLinked, Located, Owned
<1> QED BY <1>1, <1>2, <1>3, <1>4, <1>5 DEF IInv

\* TimeOut keeps the invariant.
LEMMA TimeOutStep ==
    ASSUME IInv, NEW t \in Thread, TimeOut(t)
    PROVE  IInv'
<1> USE DEF TimeOut, At, Go, Done, userVars, kernelVars, CancelWait, NoLock
<1>1. TypeOK'
  BY DEF IInv, TypeOK, Places
<1>2. Located'
  BY DEF IInv, TypeOK, Located
<1>3. Owned'
  BY DEF IInv, TypeOK, Owned, Located
<1>4. Flagged'
  BY DEF IInv, TypeOK, Flagged, Located
<1>5. WaitersLinked'
  BY DEF IInv, TypeOK, WaitersLinked, Located, Owned
<1> QED BY <1>1, <1>2, <1>3, <1>4, <1>5 DEF IInv

\* RequestTerminate keeps the invariant.
LEMMA RequestTerminateStep ==
    ASSUME IInv, NEW t \in Thread, RequestTerminate(t)
    PROVE  IInv'
<1> USE DEF RequestTerminate, At, Go, Done, userVars, kernelVars, CancelWait, NoLock
<1>1. TypeOK'
  BY DEF IInv, TypeOK, Places
<1>2. Located'
  BY DEF IInv, TypeOK, Located
<1>3. Owned'
  BY DEF IInv, TypeOK, Owned, Located
<1>4. Flagged'
  BY DEF IInv, TypeOK, Flagged, Located
<1>5. WaitersLinked'
  BY DEF IInv, TypeOK, WaitersLinked, Located, Owned
<1> QED BY <1>1, <1>2, <1>3, <1>4, <1>5 DEF IInv

\* Exit keeps the invariant.
LEMMA ExitStep ==
    ASSUME IInv, NEW t \in Thread, Exit(t)
    PROVE  IInv'
<1> USE DEF Exit, At, Go, Done, userVars, kernelVars, NoLock
<1>1. TypeOK'
  BY DEF IInv, TypeOK, Places
<1>2. Located'
  BY DEF IInv, TypeOK, Located
<1>3. Owned'
  BY DEF IInv, TypeOK, Owned, Located
<1>4. Flagged'
  BY DEF IInv, TypeOK, Flagged, Located
<1>5. WaitersLinked'
  BY DEF IInv, TypeOK, WaitersLinked, Located, Owned
<1> QED BY <1>1, <1>2, <1>3, <1>4, <1>5 DEF IInv

\* Two waiters make the mark.
LEMMA MoreThanOne ==
    ASSUME NEW t, NEW l, NEW n \in Waiters(t, l), NEW u \in Waiters(t, l), u # n
    PROVE  Cardinality(Waiters(t, l)) > 1
<1> DEFINE W == Waiters(t, l)
<1>1. IsFiniteSet(W)
  BY FS_Subset DEF Waiters
<1>2. /\ IsFiniteSet(W \ {n}) /\ Cardinality(W \ {n}) = Cardinality(W) - 1
      /\ W \ {n} # {}
  BY <1>1, FS_RemoveElement
<1>3. Cardinality(W \ {n}) # 0 /\ Cardinality(W \ {n}) \in Nat /\ Cardinality(W) \in Nat
  BY ZenonT(60), <1>1, <1>2, FS_EmptySet, FS_CardinalityType
<1> HIDE DEF W
<1>4. Cardinality(W) > 1
  BY <1>2, <1>3
<1> QED BY <1>4 DEF W

\* What RemoveWaiterByKey, the write of the word and EndWait do together: the next
\* owner, if there is one, is the only other thread that moves, and every waiter that
\* is left is linked to it.
PassedOn(t, l, where) ==
    /\ pc' \in [Thread -> Places] /\ pc'[t] = where
    /\ owner' \in [Lock -> Thread \cup {NoThread}] /\ owner'[l] # t
    /\ waitMask' \in [Lock -> BOOLEAN]
    /\ lockOwner' \in [Thread -> Thread \cup {NoThread}]
    /\ \A k \in Lock \ {l} : owner'[k] = owner[k] /\ waitMask'[k] = waitMask[k]
    /\ \A u \in Thread \ {t} :
          \/ pc'[u] = pc[u]
          \/ /\ pc[u] \in {"lockWait", "cvLockWait"} /\ pc'[u] \in {"lockReturn", "cvReturn"}
             /\ key[u] = l /\ owner'[l] = u
    /\ \A u \in Thread : lockOwner'[u] # NoThread <=> pc'[u] \in {"lockWait", "cvLockWait"}
    /\ \A u \in Thread :
          pc'[u] \in {"lockWait", "cvLockWait"} =>
              owner'[key[u]] = lockOwner'[u] /\ waitMask'[key[u]]

\* PassOn has this effect.
LEMMA PassOnFacts ==
    ASSUME IInv, NEW t \in Thread, NEW l \in Lock, NEW where \in {"user", "lock", "cvWait"},
           pc[t] \in {"unlock", "cvRelease"}, key[t] = l, PassOn(t, l, where)
    PROVE  PassedOn(t, l, where)
<1>0. /\ owner[l] = t /\ pc \in [Thread -> Places] /\ owner \in [Lock -> Thread \cup {NoThread}]
      /\ waitMask \in [Lock -> BOOLEAN] /\ lockOwner \in [Thread -> Thread \cup {NoThread}]
      /\ t # NoThread
  BY DEF IInv, TypeOK, Owned
<1>1. \A u \in Thread :
         pc[u] \in {"lockWait", "cvLockWait"} =>
             /\ lockOwner[u] # NoThread /\ key[u] \in Lock
             /\ owner[key[u]] = lockOwner[u] /\ waitMask[key[u]]
  BY DEF IInv, Located, WaitersLinked
<1>2. \A u \in Thread : lockOwner[u] # NoThread <=> pc[u] \in {"lockWait", "cvLockWait"}
  BY DEF IInv, Located
<1>3. \A u \in Thread : u \in Waiters(t, l) <=> pc[u] \in {"lockWait", "cvLockWait"} /\ key[u] = l
  BY <1>0, <1>1, <1>2 DEF Waiters
<1>4. where \in Places /\ "lockReturn" \in Places /\ "cvReturn" \in Places
  BY DEF Places
<1>5. CASE Free(t, l, where)
  <2>1. /\ pc' = [pc EXCEPT ![t] = where] /\ owner' = [owner EXCEPT ![l] = NoThread]
        /\ waitMask' = [waitMask EXCEPT ![l] = FALSE] /\ UNCHANGED lockOwner
    BY <1>5 DEF Free, Go
  <2>2. \A u \in Thread : pc[u] \in {"lockWait", "cvLockWait"} => key[u] # l
    BY <1>3, <1>5 DEF Free
  <2>3. /\ pc' \in [Thread -> Places] /\ pc'[t] = where
        /\ \A u \in Thread \ {t} : pc'[u] = pc[u]
    BY <1>0, <1>4, <2>1
  <2>4. /\ owner' \in [Lock -> Thread \cup {NoThread}] /\ waitMask' \in [Lock -> BOOLEAN]
        /\ owner'[l] = NoThread
        /\ \A k \in Lock \ {l} : owner'[k] = owner[k] /\ waitMask'[k] = waitMask[k]
    BY <1>0, <2>1
  <2>5. \A u \in Thread : lockOwner'[u] # NoThread <=> pc'[u] \in {"lockWait", "cvLockWait"}
    <3>1. pc'[t] \notin {"lockWait", "cvLockWait"} /\ pc[t] \notin {"lockWait", "cvLockWait"}
      BY <2>3
    <3> QED BY <1>2, <2>1, <2>3, <3>1
  <2>6. ASSUME NEW u \in Thread, pc'[u] \in {"lockWait", "cvLockWait"}
        PROVE  owner'[key[u]] = lockOwner'[u] /\ waitMask'[key[u]]
    <3>1. pc[u] \in {"lockWait", "cvLockWait"}
      BY <2>3, <2>6
    <3>2. key[u] \in Lock \ {l}
      BY ZenonT(60), <1>1, <2>2, <3>1
    <3> QED BY ZenonT(60), <1>1, <2>1, <2>4, <3>1, <3>2
  <2> QED BY <1>0, <2>1, <2>3, <2>4, <2>5, <2>6 DEF PassedOn
<1>6. ASSUME NEW n \in Waiters(t, l), HandOver(t, l, n, where)
      PROVE  PassedOn(t, l, where)
  <2>0. /\ n \in Thread /\ n # t /\ n # NoThread /\ key[n] = l
        /\ pc[n] \in {"lockWait", "cvLockWait"}
        /\ Resumed(n) \in {"lockReturn", "cvReturn"}
    BY <1>3 DEF Waiters, Resumed
  <2>1. pc' = [pc EXCEPT ![t] = where, ![n] = Resumed(n)]
    BY <1>6 DEF HandOver
  <2>2. /\ pc' \in [Thread -> Places] /\ pc'[t] = where /\ pc'[n] = Resumed(n)
        /\ \A u \in Thread \ {t, n} : pc'[u] = pc[u]
    BY <1>0, <1>4, <2>0, <2>1
  <2>3. /\ owner' = [owner EXCEPT ![l] = n]
        /\ waitMask' = [waitMask EXCEPT ![l] = Cardinality(Waiters(t, l)) > 1]
        /\ lockOwner' = [u \in Thread |-> IF u = n THEN NoThread
                                          ELSE IF u \in Waiters(t, l) THEN n ELSE lockOwner[u]]
    BY <1>6 DEF HandOver
  <2>4. /\ owner' \in [Lock -> Thread \cup {NoThread}] /\ waitMask' \in [Lock -> BOOLEAN]
        /\ lockOwner' \in [Thread -> Thread \cup {NoThread}]
        /\ owner'[l] = n
        /\ \A k \in Lock \ {l} : owner'[k] = owner[k] /\ waitMask'[k] = waitMask[k]
    BY <1>0, <2>0, <2>3
  <2>5. \A u \in Thread : lockOwner'[u] # NoThread <=> pc'[u] \in {"lockWait", "cvLockWait"}
    BY <1>2, <1>3, <2>0, <2>2, <2>3
  <2>6. ASSUME NEW u \in Thread, pc'[u] \in {"lockWait", "cvLockWait"}
        PROVE  owner'[key[u]] = lockOwner'[u] /\ waitMask'[key[u]]
    <3>0. u # t /\ u # n /\ pc[u] \in {"lockWait", "cvLockWait"}
      BY <2>0, <2>2, <2>6
    <3>1. CASE key[u] = l
      <4>1. u \in Waiters(t, l)
        BY <1>3, <3>0, <3>1
      <4>2. Cardinality(Waiters(t, l)) > 1
        BY <3>0, <4>1, MoreThanOne
      <4>3. waitMask'[l]
        BY ZenonT(60), <1>0, <2>3, <4>2
      <4>4. lockOwner'[u] = n
        BY ZenonT(60), <2>3, <3>0, <4>1
      <4> QED BY ZenonT(60), <2>4, <3>1, <4>3, <4>4
    <3>2. CASE key[u] # l
      <4>1. lockOwner'[u] = lockOwner[u]
        BY <1>3, <2>3, <3>0, <3>2
      <4> QED BY ZenonT(60), <1>1, <2>4, <3>0, <3>2, <4>1
    <3> QED BY <3>1, <3>2
  <2> QED BY <2>0, <2>2, <2>4, <2>5, <2>6 DEF PassedOn
<1> QED BY <1>5, <1>6 DEF PassOn

\* SignalToAddress keeps the invariant.
LEMMA SignalToAddressStep ==
    ASSUME IInv, NEW t \in Thread, SignalToAddress(t)
    PROVE  IInv'
<1>l. PICK l \in Lock : l = key[t]
  BY ZenonT(60) DEF SignalToAddress, At, IInv, Located
<1>0. /\ l \in Lock /\ pc[t] = "unlock" /\ PassOn(t, l, "user") /\ t \notin inside[l]
      /\ key' = [key EXCEPT ![t] = 0]
      /\ UNCHANGED <<seen, inside, hasWaiter, tree, schedLock, count, terminating>>
  BY <1>l DEF SignalToAddress, At, Done, NoLock, IInv, Located, Owned
<1>p. PassedOn(t, l, "user")
  <2>1. "user" \in {"user", "lock", "cvWait"} /\ pc[t] \in {"unlock", "cvRelease"} /\ key[t] = l
    BY <1>l, <1>0
  <2> QED BY ZenonT(60), <1>0, <2>1, PassOnFacts
<1>1. /\ pc' \in [Thread -> Places] /\ pc'[t] = "user"
      /\ owner' \in [Lock -> Thread \cup {NoThread}] /\ owner'[l] # t
      /\ waitMask' \in [Lock -> BOOLEAN]
      /\ lockOwner' \in [Thread -> Thread \cup {NoThread}]
      /\ \A k \in Lock \ {l} : owner'[k] = owner[k] /\ waitMask'[k] = waitMask[k]
  BY <1>p DEF PassedOn
<1>2. \A u \in Thread \ {t} :
         \/ pc'[u] = pc[u]
         \/ /\ pc[u] \in {"lockWait", "cvLockWait"} /\ pc'[u] \in {"lockReturn", "cvReturn"}
            /\ key[u] = l /\ owner'[l] = u
  BY <1>p DEF PassedOn
<1>3. /\ \A u \in Thread : lockOwner'[u] # NoThread <=> pc'[u] \in {"lockWait", "cvLockWait"}
      /\ \A u \in Thread :
            pc'[u] \in {"lockWait", "cvLockWait"} =>
                owner'[key[u]] = lockOwner'[u] /\ waitMask'[key[u]]
  BY <1>p DEF PassedOn
<1>4. key' \in [Thread -> Lock \cup {0}] /\ \A u \in Thread \ {t} : key'[u] = key[u]
  BY <1>0 DEF IInv, TypeOK, NoLock
<1>k. pc[t] = "unlock" /\ pc'[t] = "user"
  BY <1>0, <1>1
<1>5. TypeOK'
  BY <1>0, <1>1, <1>4 DEF IInv, TypeOK, NoLock
<1>6. Located'
  <2>1. UNCHANGED <<seen, tree, schedLock>>
    BY <1>0
  <2>2. \A u \in Thread : pc'[u] \notin {"user", "dead"} => key'[u] \in Lock
    BY <1>k, <1>2, <1>4 DEF IInv, Located
  <2>3. tree' = {u \in Thread : pc'[u] = "cvWait"}
    <3>1. \A u \in Thread : pc'[u] = "cvWait" <=> pc[u] = "cvWait"
      BY <1>k, <1>2
    <3> QED BY <2>1, <3>1 DEF IInv, Located
  <2>4. \A u \in Thread : pc'[u] \in {"cvRelease", "signal"} <=> schedLock' = u
    <3>1. \A u \in Thread : pc'[u] \in {"cvRelease", "signal"} <=> pc[u] \in {"cvRelease", "signal"}
      BY <1>k, <1>2
    <3> QED BY <2>1, <3>1 DEF IInv, Located
  <2>5. \A u \in Thread : pc'[u] = "arbitrate" => seen'[u] # NoThread
    BY <1>k, <1>2, <2>1 DEF IInv, Located
  <2> QED BY ZenonT(60), <1>3, <2>2, <2>3, <2>4, <2>5 DEF Located
<1>7. Owned'
  <2>0. t \notin inside[l] /\ UNCHANGED inside
    BY <1>0
  <2>1. owner[l] = t /\ inside[l] = {}
    <3>1. inside \in [Lock -> SUBSET Thread] /\ owner[l] = t /\ \A u \in inside[l] : owner[l] = u
      BY <1>l, <1>k DEF IInv, TypeOK, Owned
    <3> QED BY <2>0, <3>1
  <2>2. \A u \in Thread \ {t} : pc[u] \in {"unlock", "cvReturn", "cvRelease"} => key[u] # l /\ key[u] \in Lock
    BY <2>1 DEF IInv, Owned, Located
  <2>3. ASSUME NEW u \in Thread, pc'[u] \in {"unlock", "cvReturn", "cvRelease"}
        PROVE  owner'[key'[u]] = u
    <3>1. u # t /\ key'[u] = key[u]
      BY <1>1, <1>4, <2>3
    <3>2. CASE pc'[u] = pc[u]
      <4>1. key[u] # l /\ key[u] \in Lock /\ owner[key[u]] = u
        BY <2>2, <2>3, <3>1, <3>2 DEF IInv, Owned
      <4> QED BY ZenonT(60), <1>1, <3>1, <4>1
    <3>3. CASE pc'[u] # pc[u]
      BY <1>2, <3>1, <3>3
    <3> QED BY <3>2, <3>3
  <2>4. \A k \in Lock : \A u \in inside'[k] : owner'[k] = u
    <3> SUFFICES ASSUME NEW k \in Lock, NEW u \in inside[k] PROVE owner'[k] = u
      BY ZenonT(60), <2>0
    <3>1. k # l
      BY <2>1
    <3>2. owner'[k] = owner[k]
      BY ZenonT(60), <1>1, <3>1
    <3> QED BY ZenonT(60), <3>2 DEF IInv, Owned
  <2>5. \A u \in Thread : pc'[u] = "cvRelease" => u \in inside'[key'[u]]
    BY <1>k, <1>2, <1>4, <2>0 DEF IInv, Owned
  <2>6. \A u \in Thread :
           pc'[u] \in {"lock", "arbitrate", "lockWait", "lockReturn", "unlock", "cvWait", "cvLockWait", "cvReturn"}
           => u \notin inside'[key'[u]]
    <3> SUFFICES ASSUME NEW u \in Thread,
                        pc'[u] \in {"lock", "arbitrate", "lockWait", "lockReturn", "unlock",
                                    "cvWait", "cvLockWait", "cvReturn"}
                 PROVE  u \notin inside[key'[u]]
      BY ZenonT(60), <2>0
    <3>1. u # t /\ key'[u] = key[u]
      BY <1>k, <1>4
    <3>2. CASE pc'[u] = pc[u]
      BY <3>1, <3>2 DEF IInv, Owned
    <3>3. CASE pc'[u] # pc[u]
      BY <1>2, <2>1, <3>1, <3>3
    <3> QED BY <3>2, <3>3
  <2> QED BY ZenonT(60), <2>3, <2>4, <2>5, <2>6 DEF Owned
<1>8. Flagged'
  <2>1. UNCHANGED hasWaiter
    BY <1>0
  <2> QED BY <1>k, <1>2, <1>4, <2>1 DEF IInv, Flagged
<1>9. WaitersLinked'
  BY <1>k, <1>3, <1>4 DEF WaitersLinked
<1> QED BY <1>5, <1>6, <1>7, <1>8, <1>9 DEF IInv

\* Both ends of Wait, asleep in the tree or with a timeout of zero, keep the invariant.
LEMMA WaitEndStep ==
    ASSUME IInv, NEW t \in Thread, WaitSleep(t) \/ WaitPoll(t)
    PROVE  IInv'
<1>l. PICK l \in Lock : l = key[t]
  BY ZenonT(60) DEF WaitSleep, WaitPoll, At, IInv, Located
<1>0. /\ l \in Lock /\ pc[t] = "cvRelease" /\ owner[l] = t /\ hasWaiter[l]
      /\ inside' = [inside EXCEPT ![l] = inside[l] \ {t}] /\ schedLock = t /\ schedLock' = NoThread
      /\ UNCHANGED <<key, seen, hasWaiter, count, terminating>>
  BY <1>l DEF WaitSleep, WaitPoll, At, IInv, Located, Owned, Flagged
<1>a. PICK w \in {"lock", "cvWait"} :
         /\ PassOn(t, l, w)
         /\ tree' = IF w = "cvWait" THEN tree \cup {t} ELSE tree
  BY <1>l DEF WaitSleep, WaitPoll
<1>p. PassedOn(t, l, w)
  <2>1. w \in {"user", "lock", "cvWait"} /\ pc[t] \in {"unlock", "cvRelease"} /\ key[t] = l
    BY <1>l, <1>0
  <2> QED BY ZenonT(60), <1>a, <2>1, PassOnFacts
<1>k. UNCHANGED key /\ pc[t] = "cvRelease" /\ pc'[t] = w /\ (w = "lock" \/ w = "cvWait")
  BY <1>0, <1>p DEF PassedOn
<1>1. /\ pc' \in [Thread -> Places] /\ pc'[t] = w
      /\ owner' \in [Lock -> Thread \cup {NoThread}] /\ owner'[l] # t
      /\ waitMask' \in [Lock -> BOOLEAN]
      /\ lockOwner' \in [Thread -> Thread \cup {NoThread}]
      /\ \A k \in Lock \ {l} : owner'[k] = owner[k] /\ waitMask'[k] = waitMask[k]
  BY <1>p DEF PassedOn
<1>2. \A u \in Thread \ {t} :
         \/ pc'[u] = pc[u]
         \/ /\ pc[u] \in {"lockWait", "cvLockWait"} /\ pc'[u] \in {"lockReturn", "cvReturn"}
            /\ key[u] = l /\ owner'[l] = u
  BY <1>p DEF PassedOn
<1>3. /\ \A u \in Thread : lockOwner'[u] # NoThread <=> pc'[u] \in {"lockWait", "cvLockWait"}
      /\ \A u \in Thread :
            pc'[u] \in {"lockWait", "cvLockWait"} =>
                owner'[key[u]] = lockOwner'[u] /\ waitMask'[key[u]]
  BY <1>p DEF PassedOn
<1>4. inside[l] = {t} /\ inside'[l] = {} /\ \A k \in Lock \ {l} : inside'[k] = inside[k]
  <2>1. inside \in [Lock -> SUBSET Thread] /\ t \in inside[l] /\ \A u \in inside[l] : owner[l] = u
    BY <1>l, <1>k DEF IInv, TypeOK, Owned
  <2> QED BY <1>0, <2>1
<1>5. TypeOK'
  <2>1. inside' \in [Lock -> SUBSET Thread] /\ tree' \subseteq Thread
    BY <1>0, <1>a DEF IInv, TypeOK
  <2> QED BY <1>0, <1>1, <2>1 DEF IInv, TypeOK
<1>6. Located'
  <2>1. tree' = {u \in Thread : pc'[u] = "cvWait"}
    <3>1. tree = {u \in Thread : pc[u] = "cvWait"}
      BY DEF IInv, Located
    <3>2. \A u \in Thread \ {t} : pc'[u] = "cvWait" <=> pc[u] = "cvWait"
      BY ZenonT(60), <1>2
    <3>3. "cvRelease" # "cvWait" /\ "lock" # "cvWait"
      OBVIOUS
    <3> QED BY ZenonT(60), <1>a, <1>k, <3>1, <3>2, <3>3
  <2>2. \A u \in Thread : pc'[u] \in {"cvRelease", "signal"} <=> schedLock' = u
    <3>1. \A u \in Thread \ {t} : pc[u] \notin {"cvRelease", "signal"}
      BY <1>0 DEF IInv, Located
    <3>2. schedLock' = NoThread
      BY <1>0
    <3> QED BY <1>2, <1>k, <3>1, <3>2
  <2>3. \A u \in Thread : pc'[u] \notin {"user", "dead"} => key'[u] \in Lock
    BY <1>l, <1>k, <1>2 DEF IInv, Located
  <2>4. \A u \in Thread : pc'[u] = "arbitrate" => seen'[u] # NoThread
    <3>1. UNCHANGED seen
      BY <1>0
    <3> QED BY <1>k, <1>2, <3>1 DEF IInv, Located
  <2> QED BY ZenonT(60), <1>3, <2>1, <2>2, <2>3, <2>4 DEF Located
<1>7. Owned'
  <2>1. \A u \in Thread \ {t} : pc[u] \in {"unlock", "cvReturn", "cvRelease"} => key[u] # l /\ key[u] \in Lock
    <3>1. owner[l] = t
      BY <1>0
    <3> QED BY <3>1 DEF IInv, Owned, Located
  <2>2. \A u \in Thread : pc'[u] \in {"unlock", "cvReturn", "cvRelease"} => owner'[key'[u]] = u
    <3> SUFFICES ASSUME NEW u \in Thread, pc'[u] \in {"unlock", "cvReturn", "cvRelease"}
                 PROVE  owner'[key'[u]] = u
      BY ZenonT(60)
    <3>1. u # t /\ key'[u] = key[u]
      BY <1>k
    <3>2. CASE pc'[u] = pc[u]
      <4>1. key[u] # l /\ key[u] \in Lock /\ owner[key[u]] = u
        BY <2>1, <3>1, <3>2 DEF IInv, Owned
      <4>2. owner'[key[u]] = owner[key[u]]
        BY ZenonT(60), <1>1, <4>1
      <4> QED BY <3>1, <4>1, <4>2
    <3>3. CASE pc'[u] # pc[u]
      BY <1>2, <3>1, <3>3
    <3> QED BY <3>2, <3>3
  <2>3. \A k \in Lock : \A u \in inside'[k] : owner'[k] = u
    <3>1. \A k \in Lock \ {l} : owner'[k] = owner[k]
      BY <1>1
    <3> QED BY <1>4, <3>1 DEF IInv, Owned
  <2>4. \A u \in Thread : pc'[u] = "cvRelease" => u \in inside'[key'[u]]
    <3>1. \A u \in Thread \ {t} : pc[u] # "cvRelease"
      BY <1>0 DEF IInv, Located
    <3> QED BY <1>k, <1>2, <3>1
  <2>5. \A u \in Thread : \A k \in Lock : u \in inside'[k] => u \in inside[k]
    BY <1>4
  <2>6. \A u \in Thread :
           pc'[u] \in {"lock", "arbitrate", "lockWait", "lockReturn", "unlock", "cvWait", "cvLockWait", "cvReturn"}
           => u \notin inside'[key'[u]]
    <3> SUFFICES ASSUME NEW u \in Thread,
                        pc'[u] \in {"lock", "arbitrate", "lockWait", "lockReturn", "unlock",
                                    "cvWait", "cvLockWait", "cvReturn"}
                 PROVE  u \notin inside'[key[u]]
      BY <1>k
    <3>1. CASE u = t
      BY <1>l, <1>4, <3>1
    <3>2. CASE u # t /\ pc'[u] = pc[u]
      <4>1. key[u] \in Lock
        BY <3>2 DEF IInv, Located
      <4>2. u \notin inside[key[u]]
        BY <3>2 DEF IInv, Owned
      <4> QED BY ZenonT(60), <2>5, <4>1, <4>2
    <3>3. CASE u # t /\ pc'[u] # pc[u]
      BY <1>2, <1>4, <3>3
    <3> QED BY <3>1, <3>2, <3>3
  <2> QED BY ZenonT(60), <2>2, <2>3, <2>4, <2>6 DEF Owned
<1>8. Flagged'
  <2>1. UNCHANGED hasWaiter /\ hasWaiter[l]
    BY <1>0
  <2> QED BY <1>l, <1>k, <1>2, <2>1 DEF IInv, Flagged
<1>9. WaitersLinked'
  BY <1>k, <1>3 DEF WaitersLinked
<1> QED BY <1>5, <1>6, <1>7, <1>8, <1>9 DEF IInv

\* One turn of Signal keeps the invariant.
LEMMA SignalNextStep ==
    ASSUME IInv, NEW t \in Thread, SignalNext(t)
    PROVE  IInv'
<1>l. PICK l \in Lock : l = key[t]
  BY ZenonT(60) DEF SignalNext, At, IInv, Located
<1>0. /\ l \in Lock /\ pc[t] = "signal" /\ schedLock = t
      /\ UNCHANGED <<key, seen, inside, hasWaiter, schedLock, terminating>>
      /\ count' \in {-1, 0, 1}
  BY <1>l DEF SignalNext, At, CountDown, IInv, TypeOK, Located
<1>1. PICK u \in tree : key[u] = l /\ SignalImpl(u, l) /\ tree' = tree \ {u}
  BY <1>l DEF SignalNext, Sleepers
<1>2. /\ u \in Thread /\ pc[u] = "cvWait" /\ lockOwner[u] = NoThread /\ u \notin inside[l]
      /\ u # NoThread
  BY <1>1 DEF IInv, TypeOK, Located, Owned
<1>t. /\ pc \in [Thread -> Places] /\ owner \in [Lock -> Thread \cup {NoThread}]
      /\ waitMask \in [Lock -> BOOLEAN] /\ lockOwner \in [Thread -> Thread \cup {NoThread}]
      /\ inside \in [Lock -> SUBSET Thread]
  BY DEF IInv, TypeOK
<1>u. UNCHANGED <<key, seen, inside, hasWaiter, schedLock>>
  BY <1>0
<1>3. CASE owner[l] = NoThread
  <2>1. /\ owner' = [owner EXCEPT ![l] = u] /\ pc' = [pc EXCEPT ![u] = "cvReturn"]
        /\ UNCHANGED <<waitMask, lockOwner>>
    BY <1>1, <1>3 DEF SignalImpl, Go
  <2>p. pc'[u] = "cvReturn" /\ \A v \in Thread \ {u} : pc'[v] = pc[v]
    BY <1>t, <1>2, <2>1
  <2>o. owner'[l] = u /\ \A k \in Lock \ {l} : owner'[k] = owner[k]
    BY <1>t, <2>1
  <2>2. TypeOK'
    <3>1. "cvReturn" \in Places
      BY DEF Places
    <3>2. pc' \in [Thread -> Places]
      BY ZenonT(60), <1>t, <2>1, <3>1
    <3>3. owner' \in [Lock -> Thread \cup {NoThread}]
      BY <1>t, <1>2, <2>1
    <3>4. tree' \subseteq Thread
      BY <1>1 DEF IInv, TypeOK
    <3> QED BY <1>0, <2>1, <3>2, <3>3, <3>4 DEF IInv, TypeOK
  <2>3. Located'
    BY <1>u, <1>2, <1>1, <2>1, <2>p DEF IInv, Located
  <2>4. Owned'
    <3>1. inside[l] = {} /\ \A v \in Thread : pc[v] \in {"unlock", "cvReturn", "cvRelease"} => key[v] # l
      BY <1>t, <1>3 DEF IInv, Owned
    <3>2. \A k \in Lock : \A v \in inside[k] : owner'[k] = v
      <4>1. \A k \in Lock \ {l} : \A v \in inside[k] : owner'[k] = v
        BY ZenonT(60), <2>o DEF IInv, Owned
      <4> QED BY <3>1, <4>1
    <3>3. \A v \in Thread : pc'[v] \in {"unlock", "cvReturn", "cvRelease"} => owner'[key[v]] = v
      <4> SUFFICES ASSUME NEW v \in Thread \ {u}, pc[v] \in {"unlock", "cvReturn", "cvRelease"}
                   PROVE  owner'[key[v]] = v
        BY <1>1, <2>p, <2>o
      <4>1. key[v] \in Lock \ {l}
        BY <3>1 DEF IInv, Located
      <4> QED BY ZenonT(60), <2>o, <4>1 DEF IInv, Owned
    <3>4. \A v \in Thread : pc'[v] = "cvRelease" => v \in inside[key[v]]
      BY <2>p DEF IInv, Owned
    <3>5. \A v \in Thread :
             pc'[v] \in {"lock", "arbitrate", "lockWait", "lockReturn", "unlock", "cvWait", "cvLockWait", "cvReturn"}
             => v \notin inside[key[v]]
      BY <1>1, <1>2, <2>p DEF IInv, Owned
    <3> QED BY ZenonT(60), <1>u, <3>2, <3>3, <3>4, <3>5 DEF Owned
  <2>5. Flagged'
    BY <1>u, <2>p DEF IInv, Flagged
  <2>6. WaitersLinked'
    <3>1. \A v \in Thread : pc[v] \in {"lockWait", "cvLockWait"} => key[v] # l /\ key[v] \in Lock
      BY <1>3 DEF IInv, WaitersLinked, Located
    <3> QED BY <1>u, <2>1, <2>p, <2>o, <3>1 DEF IInv, WaitersLinked
  <2> QED BY <2>2, <2>3, <2>4, <2>5, <2>6 DEF IInv
<1>4. CASE owner[l] # NoThread
  <2>1. /\ waitMask' = [waitMask EXCEPT ![l] = TRUE]
        /\ lockOwner' = [lockOwner EXCEPT ![u] = owner[l]]
        /\ pc' = [pc EXCEPT ![u] = "cvLockWait"] /\ UNCHANGED owner
    BY <1>1, <1>4 DEF SignalImpl, Go
  <2>p. pc'[u] = "cvLockWait" /\ \A v \in Thread \ {u} : pc'[v] = pc[v]
    BY <1>t, <1>2, <2>1
  <2>o. /\ waitMask'[l] /\ \A k \in Lock \ {l} : waitMask'[k] = waitMask[k]
        /\ lockOwner'[u] = owner[l] /\ \A v \in Thread \ {u} : lockOwner'[v] = lockOwner[v]
    BY <1>t, <1>2, <2>1
  <2>2. TypeOK'
    <3>1. /\ pc' \in [Thread -> Places] /\ waitMask' \in [Lock -> BOOLEAN]
          /\ lockOwner' \in [Thread -> Thread \cup {NoThread}]
      <4>1. "cvLockWait" \in Places
        BY DEF Places
      <4>2. pc' \in [Thread -> Places]
        BY ZenonT(60), <1>t, <2>1, <4>1
      <4>3. waitMask' \in [Lock -> BOOLEAN]
        BY ZenonT(60), <1>t, <2>1
      <4>4. owner[l] \in Thread \cup {NoThread}
        BY <1>t
      <4>5. lockOwner' \in [Thread -> Thread \cup {NoThread}]
        BY ZenonT(60), <1>t, <2>1, <4>4
      <4> QED BY <4>2, <4>3, <4>5
    <3>2. tree' \subseteq Thread
      BY <1>1 DEF IInv, TypeOK
    <3> QED BY <1>0, <2>1, <3>1, <3>2 DEF IInv, TypeOK
  <2>3. Located'
    BY <1>u, <1>1, <1>2, <1>4, <2>p, <2>o DEF IInv, Located
  <2>4. Owned'
    <3>1. \A v \in Thread : pc'[v] \in {"unlock", "cvReturn", "cvRelease"} => owner[key[v]] = v
      BY <2>p DEF IInv, Owned
    <3>2. \A v \in Thread : pc'[v] = "cvRelease" => v \in inside[key[v]]
      BY <2>p DEF IInv, Owned
    <3>3. \A v \in Thread :
             pc'[v] \in {"lock", "arbitrate", "lockWait", "lockReturn", "unlock", "cvWait", "cvLockWait", "cvReturn"}
             => v \notin inside[key[v]]
      BY <1>1, <1>2, <2>p DEF IInv, Owned
    <3> QED BY ZenonT(60), <1>u, <2>1, <3>1, <3>2, <3>3 DEF IInv, Owned
  <2>5. Flagged'
    BY <1>u, <2>p DEF IInv, Flagged
  <2>6. WaitersLinked'
    <3> SUFFICES ASSUME NEW v \in Thread, pc'[v] \in {"lockWait", "cvLockWait"}
                 PROVE  lockOwner'[v] # NoThread /\ owner[key[v]] = lockOwner'[v] /\ waitMask'[key[v]]
      BY ZenonT(60), <1>u, <2>1 DEF WaitersLinked
    <3>1. CASE v = u
      BY <1>1, <1>4, <2>o, <3>1
    <3>2. CASE v # u
      <4>1. key[v] \in Lock
        BY <2>p, <3>2 DEF IInv, Located
      <4>2. /\ lockOwner'[v] = lockOwner[v] /\ lockOwner[v] # NoThread
            /\ owner[key[v]] = lockOwner[v] /\ waitMask[key[v]]
        BY ZenonT(60), <2>p, <2>o, <3>2 DEF IInv, WaitersLinked
      <4>3. waitMask'[key[v]]
        BY ZenonT(60), <2>o, <4>1, <4>2
      <4> QED BY ZenonT(60), <4>2, <4>3
    <3> QED BY <3>1, <3>2
  <2> QED BY <2>2, <2>3, <2>4, <2>5, <2>6 DEF IInv
<1> QED BY <1>3, <1>4

\* Every step keeps the invariant.
LEMMA NextIInv == IInv /\ [Next]_vars => IInv'
<1> SUFFICES ASSUME IInv, [Next]_vars PROVE IInv'
  OBVIOUS
<1>1. ASSUME NEW t \in Thread, NEW l \in Lock,
             EnterBegin(t, l) \/ LeaveLock(t, l) \/ WaitBegin(t, l)
      PROVE  IInv'
  BY <1>1, EnterBeginStep, LeaveLockStep, WaitBeginStep
<1>2. ASSUME NEW t \in Thread,
             EnterFree(t) \/ EnterHeld(t) \/ EnterReturn(t) \/ WaitForAddress(t) \/ SignalToAddress(t)
      PROVE  IInv'
  BY <1>2, EnterFreeStep, EnterHeldStep, EnterReturnStep, WaitForAddressStep, SignalToAddressStep
<1>3. ASSUME NEW t \in Thread, WaitSleep(t) \/ WaitPoll(t) \/ WaitReturn(t)
      PROVE  IInv'
  BY <1>3, WaitEndStep, WaitReturnStep
<1>4. ASSUME NEW t \in Thread, NEW l \in Lock, NEW n \in {1, -1}, SignalBegin(t, l, n)
      PROVE  IInv'
  BY <1>4, SignalBeginStep
<1>5. ASSUME NEW t \in Thread, SignalNext(t) \/ SignalEnd(t)
      PROVE  IInv'
  BY <1>5, SignalNextStep, SignalEndStep
<1>6. ASSUME NEW t \in Thread, TimeOut(t) \/ RequestTerminate(t) \/ Exit(t)
      PROVE  IInv'
  BY ZenonT(60), <1>6, TimeOutStep, RequestTerminateStep, ExitStep
<1>7. CASE UNCHANGED vars
  BY <1>7 DEF vars, IInv, TypeOK, Located, Owned, Flagged, WaitersLinked
<1> QED BY <1>1, <1>2, <1>3, <1>4, <1>5, <1>6, <1>7 DEF Next

\* The invariant holds in every reachable state.
LEMMA SpecIInv == Spec => []IInv
  BY InitIInv, NextIInv, PTL DEF Spec

\* The words, lists and program counters keep their types.
THEOREM TypeCorrect == Spec => []TypeOK
<1>1. IInv => TypeOK
  BY DEF IInv
<1> QED BY <1>1, SpecIInv, PTL

\* One thread is inside a lock, for every number of threads and locks and every
\* order of the exclusive stores and the system calls.
THEOREM LocksExclude == Spec => []MutualExclusion
<1>1. IInv => MutualExclusion
  BY DEF IInv, Owned, MutualExclusion
<1> QED BY <1>1, SpecIInv, PTL

\* ArbitrateLock and SignalImpl leave a waiter only with an owner that will call
\* ArbitrateUnlock.
THEOREM WaitersNotStranded == Spec => []WaitersLinked
<1>1. IInv => WaitersLinked
  BY DEF IInv
<1> QED BY <1>1, SpecIInv, PTL

\* Wait sets the flag before it releases the word, and Signal clears it last.
THEOREM WaitersFlagged == Spec => []WaiterAnnounced
<1>1. IInv => WaiterAnnounced
  BY DEF IInv, Flagged, WaiterAnnounced, At
<1> QED BY <1>1, SpecIInv, PTL

-----------------------------------------------------------------------------
(* The refinement of Monitor.  Each step is seen first as a change of      *)
(* inside, tree and key, and that change then as a step of Monitor.        *)

SameSleepers == tree' = tree /\ \A u \in tree : key'[u] = key[u]

Enters(t, l) ==
    /\ inside[l] = {} /\ t \notin tree
    /\ inside' = [inside EXCEPT ![l] = {t}]
    /\ SameSleepers

Leaves(t, l) ==
    /\ inside[l] = {t}
    /\ inside' = [inside EXCEPT ![l] = {}]
    /\ SameSleepers

FallsAsleep(t, l) ==
    /\ inside[l] = {t}
    /\ inside' = [inside EXCEPT ![l] = {}]
    /\ tree' = tree \cup {t} /\ key[t] = l /\ UNCHANGED key

WakesUp(t, l) ==
    /\ UNCHANGED <<inside, key>>
    /\ t \in tree /\ key[t] = l /\ tree' = tree \ {t}

\* Every step is one of the four, or changes nothing Monitor sees.
LEMMA StepKinds ==
    ASSUME IInv, [Next]_vars
    PROVE  \/ UNCHANGED inside /\ SameSleepers
           \/ \E t \in Thread, l \in Lock :
                 Enters(t, l) \/ Leaves(t, l) \/ FallsAsleep(t, l) \/ WakesUp(t, l)
<1> DEFINE Goal == \/ UNCHANGED inside /\ SameSleepers
                   \/ \E t \in Thread, l \in Lock :
                         Enters(t, l) \/ Leaves(t, l) \/ FallsAsleep(t, l) \/ WakesUp(t, l)
<1>a. \A t \in Thread : pc[t] # "cvWait" => t \notin tree
  BY DEF IInv, Located
<1>b. \A l \in Lock : \A t \in inside[l] : inside[l] = {t}
  BY DEF IInv, Owned
<1>c. \A l \in Lock : \A t \in Thread : owner[l] \in {t, NoThread} /\ t \notin inside[l] => inside[l] = {}
  BY DEF IInv, TypeOK, Owned
<1>d. key \in [Thread -> Lock \cup {NoLock}] /\ tree \subseteq Thread /\ inside \in [Lock -> SUBSET Thread]
  BY DEF IInv, TypeOK
<1>1. ASSUME NEW t \in Thread, NEW l \in Lock,
             EnterBegin(t, l) \/ WaitBegin(t, l) \/ \E n \in {1, -1} : SignalBegin(t, l, n)
      PROVE  Goal
  <2>1. UNCHANGED <<inside, tree>> /\ t \notin tree /\ \A u \in Thread \ {t} : key'[u] = key[u]
    BY <1>1, <1>a, <1>d DEF EnterBegin, WaitBegin, SignalBegin, At, userVars, kernelVars
  <2> QED BY <1>d, <2>1 DEF SameSleepers
<1>2. ASSUME NEW t \in Thread, EnterFree(t) \/ EnterReturn(t) \/ WaitReturn(t)
      PROVE  Goal
  <2>1. PICK l \in Lock : l = key[t]
    BY ZenonT(60), <1>2 DEF EnterFree, EnterReturn, WaitReturn, At, IInv, Located
  <2>2. SameSleepers /\ t \notin tree
    <3>1. UNCHANGED tree /\ t \notin tree
      BY <1>2, <1>a DEF EnterFree, EnterReturn, WaitReturn, At, kernelVars
    <3>2. \A u \in Thread \ {t} : key'[u] = key[u]
      BY <1>2, <1>d DEF EnterFree, EnterReturn, WaitReturn, Done
    <3> QED BY <1>d, <3>1, <3>2 DEF SameSleepers
  <2>3. \/ UNCHANGED inside
        \/ owner[l] \in {t, NoThread} /\ inside' = [inside EXCEPT ![l] = inside[l] \cup {t}]
    BY <1>2, <2>1 DEF EnterFree, EnterReturn, WaitReturn, At, IInv, Owned
  <2>4. t \notin inside[l]
    BY <1>2, <2>1 DEF EnterFree, EnterReturn, WaitReturn, At, IInv, Owned
  <2>5. inside' = [inside EXCEPT ![l] = inside[l] \cup {t}] /\ owner[l] \in {t, NoThread} => Enters(t, l)
    <3>1. owner[l] \in {t, NoThread} => inside[l] = {} /\ inside[l] \cup {t} = {t}
      BY ZenonT(60), <1>c, <2>4
    <3> QED BY ZenonT(60), <2>2, <3>1 DEF Enters
  <2> QED BY <2>2, <2>3, <2>5
<1>3. ASSUME NEW t \in Thread, NEW l \in Lock, LeaveLock(t, l)
      PROVE  Goal
  <2>1. SameSleepers
    BY <1>3, <1>a, <1>d DEF LeaveLock, At, kernelVars, SameSleepers
  <2>2. inside[l] = {t} /\ inside' = [inside EXCEPT ![l] = inside[l] \ {t}] /\ inside[l] \ {t} = {}
    BY <1>3, <1>b DEF LeaveLock
  <2>3. Leaves(t, l)
    BY ZenonT(60), <2>1, <2>2 DEF Leaves
  <2> QED BY <2>3
<1>4. ASSUME NEW t \in Thread, WaitSleep(t) \/ WaitPoll(t)
      PROVE  Goal
  <2>1. PICK l \in Lock : l = key[t]
    BY ZenonT(60), <1>4 DEF WaitSleep, WaitPoll, At, IInv, Located
  <2>2. t \in inside[l]
    BY ZenonT(60), <1>4, <2>1 DEF WaitSleep, WaitPoll, At, IInv, Owned
  <2>3. inside[l] = {t} /\ inside' = [inside EXCEPT ![l] = inside[l] \ {t}] /\ inside[l] \ {t} = {}
    BY <1>4, <1>b, <2>1, <2>2 DEF WaitSleep, WaitPoll
  <2>4. CASE WaitSleep(t)
    <3>1. FallsAsleep(t, l)
      BY ZenonT(60), <2>1, <2>3, <2>4 DEF WaitSleep, FallsAsleep
    <3> QED BY <3>1
  <2>5. CASE WaitPoll(t)
    <3>1. Leaves(t, l)
      BY ZenonT(60), <2>3, <2>5 DEF WaitPoll, Leaves, SameSleepers
    <3> QED BY <3>1
  <2> QED BY <1>4, <2>4, <2>5
<1>5. ASSUME NEW t \in Thread, SignalNext(t)
      PROVE  Goal
  <2>1. PICK u \in tree : key[u] = key[t] /\ tree' = tree \ {u}
    BY <1>5 DEF SignalNext, Sleepers
  <2>2. PICK l \in Lock : l = key[t]
    BY ZenonT(60), <1>5 DEF SignalNext, At, IInv, Located
  <2>3. WakesUp(u, l)
    BY <1>5, <2>1, <2>2 DEF SignalNext, WakesUp
  <2> QED BY <1>d, <2>3
<1>6. ASSUME NEW t \in Thread, EnterHeld(t) \/ WaitForAddress(t) \/ Exit(t)
      PROVE  Goal
  BY ZenonT(60), <1>6 DEF EnterHeld, WaitForAddress, Exit, userVars, kernelVars, SameSleepers
<1>7. ASSUME NEW t \in Thread, SignalToAddress(t) \/ SignalEnd(t)
      PROVE  Goal
  BY <1>7, <1>a, <1>d DEF SignalToAddress, SignalEnd, At, Done, SameSleepers
<1>8. ASSUME NEW t \in Thread, TimeOut(t) \/ RequestTerminate(t)
      PROVE  Goal
  <2>1. UNCHANGED <<inside, key>> /\ (tree' = tree \/ tree' = tree \ {t})
    BY <1>8 DEF TimeOut, RequestTerminate, CancelWait, userVars
  <2>2. CASE t \in tree
    <3>1. PICK l \in Lock : l = key[t]
      BY ZenonT(60), <2>2 DEF IInv, Located
    <3>2. tree' = tree \ {t} => WakesUp(t, l)
      BY <2>1, <2>2, <3>1 DEF WakesUp
    <3> QED BY <2>1, <3>2 DEF SameSleepers
  <2>3. CASE t \notin tree
    BY <2>1, <2>3 DEF SameSleepers
  <2> QED BY <2>2, <2>3
<1>9. CASE UNCHANGED vars
  BY <1>9 DEF vars, SameSleepers
<1> QED BY <1>1, <1>2, <1>3, <1>4, <1>5, <1>6, <1>7, <1>8, <1>9 DEF Next

\* The thread in a critical section, if there is one.
LEMMA AnyOfOne == AnyOf({}) = NoThread /\ \A t \in Thread : AnyOf({t}) = t
  BY DEF AnyOf

\* The user locks and condition variables, the exclusive stores and the system calls
\* together, are a Monitor for every number of threads and locks.
THEOREM Refinement == Spec => ImplementsMonitor
<1> DEFINE H == [l \in Lock |-> AnyOf(inside[l])]
           W == [l \in Lock |-> Sleepers(l)]
<1>1. Init => M!MonitorInit
  BY AnyOfOne DEF Init, M!MonitorInit, Sleepers
<1>2. ASSUME IInv, [Next]_vars PROVE [M!MonitorNext]_(M!monitorVars)
  <2> SUFFICES (H' = H /\ W' = W) \/ M!MonitorNext
    BY DEF M!monitorVars
  <2>0. inside \in [Lock -> SUBSET Thread] /\ tree \subseteq Thread
    BY <1>2 DEF IInv, TypeOK
  <2>1. CASE UNCHANGED inside /\ SameSleepers
    BY <2>1 DEF SameSleepers, Sleepers
  <2>2. ASSUME NEW t \in Thread, NEW l \in Lock, Enters(t, l) PROVE M!Enter(t, l)
    <3>1. H[l] = NoThread /\ \A k \in Lock : t \notin W[k]
      BY <2>2, AnyOfOne DEF Enters, Sleepers
    <3>2. H' = [H EXCEPT ![l] = t]
      <4>1. inside'[l] = {t} /\ \A k \in Lock \ {l} : inside'[k] = inside[k]
        BY <2>0, <2>2 DEF Enters
      <4> QED BY ZenonT(60), <4>1, AnyOfOne
    <3>3. W' = W
      BY <2>2 DEF Enters, SameSleepers, Sleepers
    <3> QED BY <3>1, <3>2, <3>3 DEF M!Enter
  <2>3. ASSUME NEW t \in Thread, NEW l \in Lock, inside[l] = {t}, inside' = [inside EXCEPT ![l] = {}]
        PROVE  H[l] = t /\ H' = [H EXCEPT ![l] = NoThread]
    <3>1. inside'[l] = {} /\ \A k \in Lock \ {l} : inside'[k] = inside[k]
      BY <2>0, <2>3
    <3>2. H[l] = t
      BY <2>3, AnyOfOne
    <3>3. H' = [H EXCEPT ![l] = NoThread]
      BY ZenonT(60), <3>1, AnyOfOne
    <3> QED BY <3>2, <3>3
  <2>4. ASSUME NEW t \in Thread, NEW l \in Lock, Leaves(t, l) PROVE M!Leave(t, l)
    <3>1. H[l] = t /\ H' = [H EXCEPT ![l] = NoThread]
      BY ZenonT(60), <2>3, <2>4 DEF Leaves
    <3>2. W' = W
      BY <2>4 DEF Leaves, SameSleepers, Sleepers
    <3> QED BY <3>1, <3>2 DEF M!Leave
  <2>5. ASSUME NEW t \in Thread, NEW l \in Lock, FallsAsleep(t, l) PROVE M!Wait(t, l)
    <3>1. H[l] = t /\ H' = [H EXCEPT ![l] = NoThread]
      BY ZenonT(60), <2>3, <2>5 DEF FallsAsleep
    <3>2. W' = [W EXCEPT ![l] = W[l] \cup {t}]
      <4>1. Sleepers(l)' = Sleepers(l) \cup {t} /\ \A k \in Lock \ {l} : Sleepers(k)' = Sleepers(k)
        BY <2>5 DEF FallsAsleep, Sleepers
      <4> QED BY ZenonT(60), <4>1
    <3> QED BY <3>1, <3>2 DEF M!Wait
  <2>6. ASSUME NEW t \in Thread, NEW l \in Lock, WakesUp(t, l) PROVE M!Wake(t, l)
    <3>1. H' = H
      BY <2>6 DEF WakesUp
    <3>2. t \in W[l] /\ W' = [W EXCEPT ![l] = W[l] \ {t}]
      <4>1. /\ t \in Sleepers(l) /\ Sleepers(l)' = Sleepers(l) \ {t}
            /\ \A k \in Lock \ {l} : Sleepers(k)' = Sleepers(k)
        BY <2>6 DEF WakesUp, Sleepers
      <4> QED BY ZenonT(60), <4>1
    <3> QED BY <3>1, <3>2 DEF M!Wake
  <2> QED BY <1>2, <2>1, <2>2, <2>4, <2>5, <2>6, StepKinds DEF M!MonitorNext
<1>3. IInv /\ [Next]_vars => [M!MonitorNext]_(M!monitorVars)
  BY <1>2
<1> QED BY <1>1, <1>3, SpecIInv, PTL DEF Spec, ImplementsMonitor, M!MonitorSpec

=============================================================================
