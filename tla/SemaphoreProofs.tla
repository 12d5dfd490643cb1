-------------------------- MODULE SemaphoreProofs ---------------------------
(***************************************************************************)
(* Proofs about Semaphore for every set of threads, every N and both wait  *)
(* strategies: types, conservation of permits, mutual exclusion, and the   *)
(* refinement of the abstract lock RwLockSpec.                             *)
(***************************************************************************)
EXTENDS Semaphore, FiniteSetTheorems, SequenceTheorems, TLAPS

\* Steps are proved by SMT unless they name another prover.
USE SMTT(30)

\* A thread that is acquiring holds no guard and wants one; a thread in its
\* critical section holds one.
LabelInv == \A t \in Threads :
    /\ pc[t] \in {"idle", "down", "wait", "block", "yield"} => mode[t] = "none"
    /\ pc[t] \in {"down", "wait", "block", "yield"} =>
           want[t] \in {"shared", "exclusive"} /\ left[t] > 0
    /\ pc[t] = "held" => mode[t] # "none"

\* Where the N permits are: all with one writer, or spread over the readers
\* and the counter.
PermitInv ==
    \/ /\ Holders("exclusive") = {}
       /\ counter + Cardinality(Holders("shared")) = N
    \/ /\ \E w \in Threads : Holders("exclusive") = {w}
       /\ Holders("shared") = {}
       /\ counter = 0

IInv == TypeOK /\ LabelInv /\ PermitInv

-----------------------------------------------------------------------------
(* How the sets of guard holders change when one thread's guard changes.   *)

\* Holders("shared") and Holders("exclusive") are finite, so they have a size.
LEMMA HoldersFinite ==
    ASSUME NEW k
    PROVE  IsFiniteSet(Holders(k)) /\ Cardinality(Holders(k)) \in Nat
  <1>1. Holders(k) \in SUBSET Threads
    BY Zenon DEF Holders
  <1>2. IsFiniteSet(Threads)
    BY LockAssumption, Zenon
  <1>. QED  BY <1>1, <1>2, FS_Subset, FS_CardinalityType, Zenon

\* A guard of kind k given to a thread without one adds it to Holders(k) only.
LEMMA HoldersTake ==
    ASSUME TypeOK, NEW t \in Threads, NEW k \in {"shared", "exclusive"},
           mode[t] = "none", mode' = [mode EXCEPT ![t] = k]
    PROVE  /\ Holders(k)' = Holders(k) \cup {t}
           /\ t \notin Holders(k)
           /\ \A j \in {"shared", "exclusive"} \ {k} : Holders(j)' = Holders(j)
  BY Zenon DEF Holders, TypeOK

\* A guard that is dropped leaves its set and no other.
LEMMA HoldersDrop ==
    ASSUME TypeOK, NEW t \in Threads, mode' = [mode EXCEPT ![t] = "none"]
    PROVE  \A j \in {"shared", "exclusive"} : Holders(j)' = Holders(j) \ {t}
  BY Zenon DEF Holders, TypeOK

-----------------------------------------------------------------------------
(* Preservation of the inductive invariant.                                *)

\* The invariant holds when the lock is new.
LEMMA InitIInv == Init => IInv
  <1>. SUFFICES ASSUME Init PROVE IInv
    BY Zenon
  <1>1. TypeOK
    BY LockAssumption DEF Init, TypeOK, Modes, Labels
  <1>2. LabelInv
    BY Zenon DEF Init, LabelInv
  <1>3. \A k \in {"shared", "exclusive"} : Holders(k) = {}
    BY Zenon DEF Init, Holders
  <1>4. Cardinality(Holders("shared")) = 0 /\ Holders("exclusive") = {}
    BY <1>3, FS_EmptySet, Zenon
  <1>5. counter + Cardinality(Holders("shared")) = N
    BY <1>4, LockAssumption DEF Init
  <1>6. PermitInv
    BY <1>4, <1>5, Zenon DEF PermitInv
  <1>. QED  BY <1>1, <1>2, <1>6, Zenon DEF IInv

\* fetch_update(checked_sub): the permits move from the counter to a guard.
LEMMA TakePermits ==
    ASSUME IInv, NEW t \in Threads, NEW k \in {"shared", "exclusive"},
           mode[t] = "none", Take(t, k)
    PROVE  PermitInv'
  <1>. USE DEF IInv
  <1>1. mode' = [mode EXCEPT ![t] = k] /\ counter >= Weight(k) /\ counter' = counter - Weight(k)
    BY Zenon DEF Take
  <1>2. /\ Holders(k)' = Holders(k) \cup {t}
        /\ t \notin Holders(k)
        /\ \A j \in {"shared", "exclusive"} \ {k} : Holders(j)' = Holders(j)
    BY <1>1, HoldersTake, Zenon
  <1>3. counter \in Nat /\ N \in Nat \ {0}
    BY LockAssumption, Zenon DEF TypeOK
  <1>4. Weight(k) > 0
    BY <1>3 DEF Weight
  <1>5. Holders("exclusive") = {} /\ counter + Cardinality(Holders("shared")) = N
    BY <1>1, <1>3, <1>4 DEF PermitInv, Weight
  <1>6. Cardinality(Holders("shared")) \in Nat /\ IsFiniteSet(Holders("shared"))
    BY HoldersFinite, Zenon
  <1>7. CASE k = "shared"
    <2>1. Holders("shared")' = Holders("shared") \cup {t} /\ t \notin Holders("shared")
      BY <1>2, <1>7, Zenon
    <2>2. Holders("exclusive")' = {}
      BY <1>2, <1>5, <1>7, Zenon
    <2>3. Cardinality(Holders("shared") \cup {t}) = Cardinality(Holders("shared")) + 1
      BY <2>1, <1>6, FS_AddElement, Zenon
    <2>4. Cardinality(Holders("shared"))' = Cardinality(Holders("shared")) + 1
      BY <2>1, <2>3, Zenon
    <2>5. counter' = counter - 1
      BY <1>1, <1>7, Zenon DEF Weight
    <2>6. (counter + Cardinality(Holders("shared")) = N)'
      BY <1>3, <1>5, <1>6, <2>4, <2>5
    <2>. QED  BY <2>2, <2>6, Zenon DEF PermitInv
  <1>8. CASE k = "exclusive"
    <2>1. counter = N /\ Cardinality(Holders("shared")) = 0
      BY <1>1, <1>3, <1>5, <1>6, <1>8 DEF Weight
    <2>2. Holders("shared") = {}
      BY <2>1, <1>6, FS_EmptySet, Zenon
    <2>3. Holders("exclusive")' = {t} /\ Holders("shared")' = {}
      BY <1>2, <1>5, <1>8, <2>2, Zenon
    <2>4. counter' = 0
      BY <1>1, <1>3, <1>8, <2>1 DEF Weight
    <2>. QED  BY <2>3, <2>4, Zenon DEF PermitInv
  <1>. QED  BY <1>7, <1>8, Zenon

\* up_n's fetch_add: the permits of a guard move back to the counter.
LEMMA UnlockPermits ==
    ASSUME IInv, NEW t \in Threads, Unlock(t)
    PROVE  PermitInv'
  <1>. USE DEF IInv
  <1>1. /\ mode' = [mode EXCEPT ![t] = "none"] /\ counter' = counter + Weight(mode[t])
        /\ mode[t] \in {"shared", "exclusive"}
    BY Zenon DEF Unlock, LabelInv, TypeOK, Modes
  <1>2. /\ Holders("shared")' = Holders("shared") \ {t}
        /\ Holders("exclusive")' = Holders("exclusive") \ {t}
    BY <1>1, HoldersDrop, Zenon
  <1>3. counter \in Nat /\ N \in Nat \ {0}
    BY LockAssumption, Zenon DEF TypeOK
  <1>4. Cardinality(Holders("shared")) \in Nat /\ IsFiniteSet(Holders("shared"))
    BY HoldersFinite, Zenon
  <1>5. CASE mode[t] = "shared"
    <2>1. t \in Holders("shared")
      BY <1>5, Zenon DEF Holders
    <2>2. Holders("exclusive") = {} /\ counter + Cardinality(Holders("shared")) = N
      BY <2>1, Zenon DEF PermitInv
    <2>3. Cardinality(Holders("shared") \ {t}) = Cardinality(Holders("shared")) - 1
      BY <2>1, <1>4, FS_RemoveElement, Zenon
    <2>4. Cardinality(Holders("shared"))' = Cardinality(Holders("shared")) - 1
      BY <1>2, <2>3, Zenon
    <2>5. counter' = counter + 1
      BY <1>1, <1>5, Zenon DEF Weight
    <2>6. (counter + Cardinality(Holders("shared")) = N)'
      BY <1>3, <1>4, <2>2, <2>4, <2>5
    <2>. QED  BY <1>2, <2>2, <2>6, Zenon DEF PermitInv
  <1>6. CASE mode[t] = "exclusive"
    <2>1. t \in Holders("exclusive")
      BY <1>6, Zenon DEF Holders
    <2>2. Holders("exclusive") = {t} /\ Holders("shared") = {} /\ counter = 0
      BY <2>1, Zenon DEF PermitInv
    <2>3. Holders("exclusive")' = {} /\ Holders("shared")' = {}
      BY <1>2, <2>2, Zenon
    <2>4. counter' = N
      BY <1>1, <1>3, <1>6, <2>2 DEF Weight
    <2>5. Cardinality(Holders("shared"))' = 0
      BY <2>3, FS_EmptySet, Zenon
    <2>6. (counter + Cardinality(Holders("shared")) = N)'
      BY <1>3, <2>4, <2>5
    <2>. QED  BY <2>3, <2>6, Zenon DEF PermitInv
  <1>. QED  BY <1>1, <1>5, <1>6, Zenon

\* downgrade: all permits but the reader's own move back to the counter.
LEMMA DowngradePermits ==
    ASSUME IInv, NEW t \in Threads, Downgrade(t)
    PROVE  /\ PermitInv'
           /\ Holders("exclusive") = {t} /\ Holders("shared") = {}
           /\ Holders("exclusive")' = {} /\ Holders("shared")' = {t}
  <1>. USE DEF IInv
  <1>1. t \in Holders("exclusive")
    BY Zenon DEF Holders, Downgrade
  <1>2. Holders("exclusive") = {t} /\ Holders("shared") = {} /\ counter = 0
    BY <1>1 DEF PermitInv
  <1>3. Holders("exclusive")' = {} /\ Holders("shared")' = {t}
    BY <1>2, Zenon DEF Holders, Downgrade, TypeOK
  <1>4. counter' = N - 1 /\ N \in Nat \ {0}
    BY <1>2, LockAssumption DEF Downgrade
  <1>5. Cardinality(Holders("shared"))' = 1
    BY <1>3, FS_Singleton, Zenon
  <1>6. (counter + Cardinality(Holders("shared")) = N)'
    BY <1>4, <1>5
  <1>7. PermitInv'
    BY <1>3, <1>6, Zenon DEF PermitInv
  <1>. QED  BY <1>2, <1>3, <1>7, Zenon

\* The guards and the counter are what PermitInv is about.
LEMMA SamePermits ==
    ASSUME PermitInv, UNCHANGED <<mode, counter>>
    PROVE  PermitInv'
  BY Zenon DEF PermitInv, Holders

\* Every step of a thread keeps the types.
LEMMA StepTypeOK ==
    ASSUME TypeOK, LabelInv, NEW t \in Threads, Step(t)
    PROVE  TypeOK'
  <1>0. strategy' = strategy
    BY Zenon DEF Step
  <1>. USE <1>0, LockAssumption DEF TypeOK, Modes, Labels, Goto
  <1>1. ASSUME NEW k \in Kinds, Lock(t, k) PROVE TypeOK'
    BY <1>1, Zenon DEF Lock
  <1>2. ASSUME NEW k \in Kinds, TryLock(t, k) PROVE TypeOK'
    BY <1>2 DEF TryLock, Take, Weight
  <1>3. CASE DownTake(t)
    <2>1. want[t] \in {"shared", "exclusive"} /\ left[t] > 0
      BY <1>3, Zenon DEF DownTake, LabelInv
    <2>2. counter' \in Nat
      BY <1>3, <2>1 DEF DownTake, Take, Weight
    <2>3. mode' \in [Threads -> Modes] /\ left' \in [Threads -> Nat]
      BY <1>3, <2>1, SMTT(30) DEF DownTake, Take
    <2>. QED  BY <1>3, <2>2, <2>3, Zenon DEF DownTake
  <1>4. CASE DownContended(t)
    BY <1>4, Zenon DEF DownContended
  <1>5. CASE WaitYield(t)
    BY <1>5, Zenon DEF WaitYield
  <1>6. CASE WaitPush(t)
    BY <1>6, AppendProperties, Zenon DEF WaitPush
  <1>7. CASE WaitBlock(t)
    BY <1>7, Zenon DEF WaitBlock
  <1>8. CASE WaitResume(t)
    BY <1>8, Zenon DEF WaitResume
  <1>9. CASE Unlock(t)
    BY <1>9 DEF Unlock, Weight
  <1>10. CASE Downgrade(t)
    BY <1>10 DEF Downgrade
  <1>11. CASE Signal(t)
    <2>1. CASE waiters = <<>>
      BY <1>11, <2>1, Zenon DEF Signal
    <2>2. CASE waiters # <<>>
      <3>1. Head(waiters) \in Threads /\ Tail(waiters) \in Seq(Threads)
        BY <2>2, HeadTailProperties, Zenon
      <3>2. /\ popped' = [popped EXCEPT ![t] = {Head(waiters)}]
            /\ waiters' = Tail(waiters)
            /\ pc' = [pc EXCEPT ![t] = "wake"]
            /\ UNCHANGED <<counter, mode, want, state, left>>
        BY <1>11, <2>2, Zenon DEF Signal
      <3>3. popped' \in [Threads -> SUBSET Threads]
        BY <3>1, <3>2, Zenon
      <3>. QED  BY <3>1, <3>2, <3>3, Zenon
    <2>. QED  BY <2>1, <2>2, Zenon
  <1>12. CASE Wake(t)
    BY <1>12, Zenon DEF Wake
  <1>. QED
    BY <1>1, <1>2, <1>3, <1>4, <1>5, <1>6, <1>7, <1>8, <1>9, <1>10, <1>11, <1>12, ZenonT(40) DEF Step

\* Every step of a thread keeps the relation between label and guard.
LEMMA StepLabelInv ==
    ASSUME TypeOK, LabelInv, NEW t \in Threads, Step(t)
    PROVE  LabelInv'
  <1>. USE LockAssumption DEF TypeOK, LabelInv, Goto
  <1>1. ASSUME NEW k \in Kinds, Lock(t, k) PROVE LabelInv'
    BY <1>1, Zenon DEF Lock
  <1>2. ASSUME NEW k \in Kinds, TryLock(t, k) PROVE LabelInv'
    BY <1>2, Zenon DEF TryLock, Take
  <1>3. CASE DownTake(t)
    BY <1>3, Zenon DEF DownTake, Take
  <1>4. CASE DownContended(t)
    BY <1>4, Zenon DEF DownContended
  <1>5. CASE WaitYield(t)
    BY <1>5, Zenon DEF WaitYield
  <1>6. CASE WaitPush(t)
    BY <1>6, Zenon DEF WaitPush
  <1>7. CASE WaitBlock(t)
    BY <1>7, Zenon DEF WaitBlock
  <1>8. CASE WaitResume(t)
    BY <1>8, Zenon DEF WaitResume
  <1>9. CASE Unlock(t)
    BY <1>9, Zenon DEF Unlock
  <1>10. CASE Downgrade(t)
    BY <1>10, Zenon DEF Downgrade
  <1>11. CASE Signal(t)
    BY <1>11 DEF Signal
  <1>12. CASE Wake(t)
    BY <1>12, Zenon DEF Wake
  <1>. QED
    BY <1>1, <1>2, <1>3, <1>4, <1>5, <1>6, <1>7, <1>8, <1>9, <1>10, <1>11, <1>12, ZenonT(40) DEF Step

\* Only fetch_update and fetch_add move permits.
LEMMA StepPermitInv ==
    ASSUME IInv, NEW t \in Threads, Step(t)
    PROVE  PermitInv'
  <1>. USE DEF IInv
  <1>1. ASSUME NEW k \in Kinds, TryLock(t, k) PROVE PermitInv'
    <2>1. k \in {"shared", "exclusive"} /\ mode[t] = "none" /\ Take(t, k)
      BY <1>1, LockAssumption, Zenon DEF TryLock, LabelInv
    <2>. QED  BY <2>1, TakePermits, Zenon
  <1>2. CASE DownTake(t)
    <2>1. want[t] \in {"shared", "exclusive"} /\ mode[t] = "none" /\ Take(t, want[t])
      BY <1>2, Zenon DEF DownTake, LabelInv
    <2>. QED  BY <2>1, TakePermits, Zenon
  <1>3. CASE Unlock(t)
    BY <1>3, UnlockPermits, Zenon
  <1>4. CASE Downgrade(t)
    BY <1>4, DowngradePermits, Zenon
  <1>5. CASE \/ \E k \in Kinds : Lock(t, k)
             \/ DownContended(t) \/ WaitYield(t) \/ WaitPush(t) \/ WaitBlock(t)
             \/ WaitResume(t) \/ Signal(t) \/ Wake(t)
    <2>1. UNCHANGED <<mode, counter>>
      BY <1>5, Zenon DEF Lock, DownContended, WaitYield, WaitPush, WaitBlock, WaitResume, Signal, Wake
    <2>. QED  BY <2>1, SamePermits, Zenon
  <1>. QED  BY <1>1, <1>2, <1>3, <1>4, <1>5, Zenon DEF Step

\* The inductive step.
LEMMA NextIInv == IInv /\ [Next]_vars => IInv'
  <1>. SUFFICES ASSUME IInv, [Next]_vars PROVE IInv'
    BY Zenon
  <1>1. ASSUME NEW t \in Threads, Step(t) PROVE IInv'
    BY <1>1, StepTypeOK, StepLabelInv, StepPermitInv, Zenon DEF IInv
  <1>2. CASE UNCHANGED vars
    <2>1. TypeOK' /\ LabelInv'
      BY <1>2, Zenon DEF IInv, TypeOK, LabelInv, vars
    <2>2. PermitInv'
      BY <1>2, SamePermits, Zenon DEF IInv, vars
    <2>. QED  BY <2>1, <2>2, Zenon DEF IInv
  <1>. QED  BY <1>1, <1>2, Zenon DEF Next

\* Every step of every thread preserves the invariant, so it holds throughout.
LEMMA InductiveInvariant == Spec => []IInv
  BY InitIInv, NextIInv, PTL DEF Spec

-----------------------------------------------------------------------------
(* The theorems.                                                           *)

\* Type correctness of the semaphore's state, for every instance.
THEOREM TypeCorrect == Spec => []TypeOK
  <1>1. IInv => TypeOK
    BY Zenon DEF IInv
  <1>. QED  BY <1>1, InductiveInvariant, PTL

\* No interleaving of try_down_n, up_n and downgrade creates or loses a
\* permit, for every N (usize::MAX included) and every set of threads.
THEOREM PermitsAlwaysConserved == Spec => []PermitsConserved
  <1>1. IInv => PermitsConserved
    <2>. SUFFICES ASSUME IInv PROVE PermitsConserved
      BY Zenon
    <2>1. counter \in Nat /\ N \in Nat /\ Cardinality(Holders("shared")) \in Nat
      BY LockAssumption, HoldersFinite, Zenon DEF IInv, TypeOK
    <2>2. CASE Holders("exclusive") = {} /\ counter + Cardinality(Holders("shared")) = N
      <3>1. Cardinality(Holders("exclusive")) = 0
        BY <2>2, FS_EmptySet, Zenon
      <3>2. N * Cardinality(Holders("exclusive")) = 0
        BY <3>1, <2>1
      <3>. QED  BY <2>1, <2>2, <3>2 DEF PermitsConserved
    <2>3. ASSUME NEW w \in Threads, Holders("exclusive") = {w}, Holders("shared") = {}, counter = 0
          PROVE  PermitsConserved
      <3>1. Cardinality(Holders("exclusive")) = 1 /\ Cardinality(Holders("shared")) = 0
        BY <2>3, FS_EmptySet, FS_Singleton, Zenon
      <3>2. N * Cardinality(Holders("exclusive")) = N
        BY <3>1, <2>1
      <3>. QED  BY <2>1, <2>3, <3>1, <3>2 DEF PermitsConserved
    <2>. QED  BY <2>2, <2>3, Zenon DEF IInv, PermitInv
  <1>. QED  BY <1>1, InductiveInvariant, PTL

\* A writer (or a mutex holder) excludes every other guard: lock_api's
\* contract for RawMutex and RawRwLock, for every instance.
THEOREM MutualExclusion == Spec => []Exclusion
  <1>1. IInv => Exclusion
    <2>. SUFFICES ASSUME IInv, NEW t \in Threads, NEW u \in Threads,
                         mode[t] = "exclusive", t # u
                  PROVE  mode[u] = "none"
      BY Zenon DEF Exclusion
    <2>1. t \in Holders("exclusive")
      BY Zenon DEF Holders
    <2>2. Holders("exclusive") = {t} /\ Holders("shared") = {}
      BY <2>1, Zenon DEF IInv, PermitInv
    <2>3. mode[u] # "exclusive" /\ mode[u] # "shared"
      BY <2>2, Zenon DEF Holders
    <2>. QED  BY <2>3, Zenon DEF IInv, TypeOK, Modes
  <1>. QED  BY <1>1, InductiveInvariant, PTL

\* One step of a thread is a step of the abstract lock or leaves its guards
\* alone.
LEMMA StepRefines ==
    ASSUME IInv, NEW t \in Threads, Step(t)
    PROVE  Abs!Next \/ UNCHANGED Abs!vars
  <1>. USE DEF IInv
  <1>1. ASSUME NEW k \in {"shared", "exclusive"}, mode[t] = "none", Take(t, k)
        PROVE  Abs!Next
    <2>1. /\ Holders(k)' = Holders(k) \cup {t}
          /\ t \notin Holders(k)
          /\ \A j \in {"shared", "exclusive"} \ {k} : Holders(j)' = Holders(j)
      BY <1>1, HoldersTake, Zenon DEF Take
    <2>2. counter \in Nat /\ N \in Nat \ {0}
      BY LockAssumption, Zenon DEF TypeOK
    <2>3. counter >= Weight(k) /\ Weight(k) > 0
      BY <1>1, <2>2 DEF Take, Weight
    <2>4. Holders("exclusive") = {} /\ counter + Cardinality(Holders("shared")) = N
      BY <2>2, <2>3 DEF PermitInv, Weight
    <2>5. CASE k = "shared"
      <3>1. Abs!AcquireShared(t)
        BY <2>1, <2>4, <2>5, Zenon DEF Abs!AcquireShared
      <3>. QED  BY <3>1, Zenon DEF Abs!Next
    <2>6. CASE k = "exclusive"
      <3>1. Cardinality(Holders("shared")) = 0
        BY <2>2, <2>3, <2>4, <2>6, HoldersFinite DEF Weight
      <3>2. Holders("shared") = {}
        BY <3>1, HoldersFinite, FS_EmptySet, Zenon
      <3>3. Abs!AcquireExclusive(t)
        BY <2>1, <2>4, <2>6, <3>2, Zenon DEF Abs!AcquireExclusive
      <3>. QED  BY <3>3, Zenon DEF Abs!Next
    <2>. QED  BY <2>5, <2>6, Zenon
  <1>2. ASSUME NEW k \in Kinds, TryLock(t, k) PROVE Abs!Next
    <2>1. k \in {"shared", "exclusive"} /\ mode[t] = "none" /\ Take(t, k)
      BY <1>2, LockAssumption DEF TryLock, LabelInv
    <2>. QED  BY <2>1, <1>1, Zenon
  <1>3. CASE DownTake(t)
    <2>1. want[t] \in {"shared", "exclusive"} /\ mode[t] = "none" /\ Take(t, want[t])
      BY <1>3 DEF DownTake, LabelInv
    <2>. QED  BY <2>1, <1>1, Zenon
  <1>4. CASE Unlock(t)
    <2>1. /\ Holders("shared")' = Holders("shared") \ {t}
          /\ Holders("exclusive")' = Holders("exclusive") \ {t}
      BY <1>4, HoldersDrop, Zenon DEF Unlock
    <2>2. t \in Holders("shared") \cup Holders("exclusive")
      BY <1>4, Zenon DEF Unlock, LabelInv, TypeOK, Modes, Holders
    <2>3. Abs!Release(t)
      BY <2>1, <2>2, Zenon DEF Abs!Release
    <2>. QED  BY <2>3, Zenon DEF Abs!Next
  <1>5. CASE Downgrade(t)
    <2>1. Abs!Downgrade(t)
      BY <1>5, DowngradePermits, Zenon DEF Abs!Downgrade
    <2>. QED  BY <2>1, Zenon DEF Abs!Next
  <1>6. CASE \/ \E k \in Kinds : Lock(t, k)
             \/ DownContended(t) \/ WaitYield(t) \/ WaitPush(t) \/ WaitBlock(t)
             \/ WaitResume(t) \/ Signal(t) \/ Wake(t)
    <2>1. UNCHANGED mode
      BY <1>6, Zenon DEF Lock, DownContended, WaitYield, WaitPush, WaitBlock, WaitResume, Signal, Wake
    <2>. QED  BY <2>1, Zenon DEF Abs!vars, Holders
  <1>. QED  BY <1>2, <1>3, <1>4, <1>5, <1>6, Zenon DEF Step

\* StaticSemaphore implements the abstract lock, whatever the wait strategy:
\* waiting, signalling and waking are invisible to the guards.
THEOREM SemaphoreImplementsRwLock == Spec => RefinesRwLock
  <1>1. Init => Abs!Init
    BY Zenon DEF Init, Abs!Init, Holders
  <1>2. IInv /\ [Next]_vars => [Abs!Next]_(Abs!vars)
    <2>. SUFFICES ASSUME IInv, [Next]_vars PROVE Abs!Next \/ UNCHANGED Abs!vars
      BY Zenon
    <2>1. ASSUME NEW t \in Threads, Step(t) PROVE Abs!Next \/ UNCHANGED Abs!vars
      BY <2>1, StepRefines, Zenon
    <2>2. CASE UNCHANGED vars
      BY <2>2, Zenon DEF vars, Abs!vars, Holders
    <2>. QED  BY <2>1, <2>2, Zenon DEF Next
  <1>. QED  BY <1>1, <1>2, InductiveInvariant, PTL DEF Spec, RefinesRwLock, Abs!Spec
=============================================================================
