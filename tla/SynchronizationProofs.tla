------------------------ MODULE SynchronizationProofs ------------------------
(***************************************************************************)
(* Proofs about Synchronization, for every set of threads, cells and       *)
(* objects and every width of the clock's readings: the inductive          *)
(* invariants of the spinlocks and mutexes, of the semaphores and of the   *)
(* clock, and with that of RwLockProofs the properties of the composition. *)
(***************************************************************************)
EXTENDS Synchronization, RwLockProofs

-----------------------------------------------------------------------------
(* Spinlocks and mutexes *)

\* One thread, and no other, was told it has the lock whose object is o.
HasObject(u, o) == Has(u) /\ cell[told[u]] = o

\* LockHeldByOne, without numbers.
Exclusion ==
    ~inverted /\ ~orphaned =>
       /\ \A u \in Users : Has(u) => cell[told[u]] \in taken
       /\ \A o \in taken : \E u \in Users : HasObject(u, o)
       /\ \A u, v \in Users : Has(u) /\ HasObject(v, cell[told[u]]) => u = v

\* Until a lock is freed that is still in use, spinlocks have objects of their
\* own, and the cells of mutexes name forgotten objects.
Separation ==
    ~orphaned =>
       /\ \A l \in granted \cap Spinlocks :
             \/ cell[l] \in objects \ forgotten
             \/ library = "dext" /\ cell[l] = Nothing
       /\ \A m \in granted \cap Mutexes : cell[m] \in forgotten \cup {Nothing}
       /\ \A o \in objects \ forgotten : \E l \in granted \cap Spinlocks : cell[l] = o
       /\ \A k, l \in granted \cap Spinlocks : cell[k] = cell[l] /\ cell[l] # Nothing => k = l

\* ... and os_cond_acquire_mutex does not disturb the exclusion of spinlocks.
SpinlocksHeld ==
    ~orphaned =>
       /\ \A u \in Users : told[u] \in Spinlocks => cell[told[u]] \in taken
       /\ \A u, v \in Users : told[u] \in Spinlocks /\ told[v] = told[u] => u = v

LocksInv ==
    /\ library \in Libraries /\ IsFiniteSet(objects)
    /\ LocksTypeOK /\ Exclusion /\ Separation /\ SpinlocksHeld /\ SpinlockNeverFaults

\* There are no locks at first.
LEMMA LocksInitInv == library \in Libraries /\ LocksInit => LocksInv
<1> SUFFICES ASSUME library \in Libraries, LocksInit PROVE LocksInv
  OBVIOUS
<1>1. IsFiniteSet(objects)
  BY FS_EmptySet DEF LocksInit
<1>2. LocksTypeOK
  BY DEF LocksInit, LocksTypeOK, Cells
<1>3. Exclusion /\ Separation /\ SpinlocksHeld /\ SpinlockNeverFaults
  BY LocksAssumption
     DEF LocksInit, Exclusion, Separation, SpinlocksHeld, SpinlockNeverFaults, Has, HasObject
<1>4. QED
  BY <1>1, <1>2, <1>3 DEF LocksInv

\* A cell that RM was not told about is filled in: nobody has a lock there.
LEMMA CellUnheld ==
    ASSUME LocksTypeOK, NEW l \in Cells, l \notin granted
    PROVE  \A u \in Users : told[u] # l
BY LocksAssumption DEF LocksTypeOK, Cells

\* os_alloc_spinlock, with memory for a new object ...
LEMMA AllocSpinlockInv ==
    ASSUME LocksInv, UNCHANGED library, faulted = Nothing,
           NEW l \in Spinlocks, NEW o \in Objects, AllocSpinlock(l, o)
    PROVE  LocksInv'
<1> USE LocksAssumption
<1>1. /\ l \in Cells /\ l \notin granted /\ o \notin objects /\ o # Nothing
      /\ objects' = objects \cup {o} /\ granted' = granted \cup {l}
      /\ cell' = [cell EXCEPT ![l] = o]
      /\ UNCHANGED <<taken, told, forgotten, inverted, orphaned, faulted>>
  BY DEF AllocSpinlock, NewObject, Cells
<1>2. LocksTypeOK /\ Exclusion /\ Separation /\ SpinlocksHeld /\ IsFiniteSet(objects)
  BY DEF LocksInv
<1>3. \A u \in Users : told[u] # l
  BY <1>1, <1>2, CellUnheld
<1>4. cell'[l] = o /\ \A k \in Cells \ {l} : cell'[k] = cell[k]
  BY <1>1, <1>2 DEF LocksTypeOK
<1>5. \A u \in Users : Has(u) => told[u] \in granted /\ cell'[told[u]] = cell[told[u]]
  BY <1>2, <1>3, <1>4 DEF LocksTypeOK, Has
<1>6. LocksTypeOK' /\ IsFiniteSet(objects')
  BY <1>1, <1>2, FS_AddElement DEF LocksTypeOK
<1>7. Exclusion'
  BY <1>1, <1>2, <1>5 DEF Exclusion, Has, HasObject
<1>8. Separation'
  <2> SUFFICES ASSUME ~orphaned
               PROVE  /\ \A k \in granted' \cap Spinlocks :
                            \/ cell'[k] \in objects' \ forgotten'
                            \/ library' = "dext" /\ cell'[k] = Nothing
                      /\ \A m \in granted' \cap Mutexes : cell'[m] \in forgotten' \cup {Nothing}
                      /\ \A x \in objects' \ forgotten' :
                            \E k \in granted' \cap Spinlocks : cell'[k] = x
                      /\ \A j, k \in granted' \cap Spinlocks :
                            cell'[j] = cell'[k] /\ cell'[k] # Nothing => j = k
    BY <1>1 DEF Separation
  <2>1. \A k \in granted \cap Spinlocks : k # l /\ cell'[k] = cell[k] /\ cell[k] # o
    BY <1>1, <1>2, <1>4 DEF Separation, Cells
  <2>2. \A m \in granted \cap Mutexes : m # l /\ cell'[m] = cell[m]
    BY <1>1, <1>4 DEF Cells
  <2>3. o \notin forgotten
    BY <1>1, <1>2 DEF LocksTypeOK
  <2>4. \A k \in granted' \cap Spinlocks :
           \/ cell'[k] \in objects' \ forgotten'
           \/ library' = "dext" /\ cell'[k] = Nothing
    BY <1>1, <1>2, <1>4, <2>1, <2>3 DEF Separation
  <2>5. \A m \in granted' \cap Mutexes : cell'[m] \in forgotten' \cup {Nothing}
    BY <1>1, <1>2, <2>2 DEF Separation
  <2>6. \A x \in objects' \ forgotten' : \E k \in granted' \cap Spinlocks : cell'[k] = x
    BY <1>1, <1>2, <1>4, <2>1 DEF Separation
  <2>7. \A j, k \in granted' \cap Spinlocks :
           cell'[j] = cell'[k] /\ cell'[k] # Nothing => j = k
    BY <1>1, <1>2, <1>4, <2>1 DEF Separation
  <2>8. QED
    BY <2>4, <2>5, <2>6, <2>7
<1>9. SpinlocksHeld'
  BY <1>1, <1>2, <1>5 DEF SpinlocksHeld, Has
<1>10. SpinlockNeverFaults'
  BY <1>1 DEF SpinlockNeverFaults
<1>11. QED
  BY <1>6, <1>7, <1>8, <1>9, <1>10 DEF LocksInv

\* ... and without.
LEMMA AllocSpinlockFailsInv ==
    ASSUME LocksInv, UNCHANGED library, faulted = Nothing,
           NEW l \in Spinlocks, AllocSpinlockFails(l)
    PROVE  LocksInv'
<1> USE LocksAssumption
<1>1. /\ l \in Cells /\ l \notin granted
      /\ granted' = IF library = "dext" THEN granted \cup {l} ELSE granted
      /\ cell' = [cell EXCEPT ![l] = Nothing]
      /\ UNCHANGED <<objects, taken, told, forgotten, inverted, orphaned, faulted>>
  BY DEF AllocSpinlockFails, Cells
<1>2. LocksTypeOK /\ Exclusion /\ Separation /\ SpinlocksHeld /\ IsFiniteSet(objects)
  BY DEF LocksInv
<1>3. \A u \in Users : told[u] # l
  BY <1>1, <1>2, CellUnheld
<1>4. cell'[l] = Nothing /\ \A k \in Cells \ {l} : cell'[k] = cell[k]
  BY <1>1, <1>2 DEF LocksTypeOK
<1>5. \A u \in Users : Has(u) => told[u] \in granted /\ cell'[told[u]] = cell[told[u]]
  BY <1>2, <1>3, <1>4 DEF LocksTypeOK, Has
<1>6. LocksTypeOK' /\ IsFiniteSet(objects')
  BY <1>1, <1>2 DEF LocksTypeOK
<1>7. Exclusion'
  BY <1>1, <1>2, <1>5 DEF Exclusion, Has, HasObject
<1>8. Separation'
  <2>1. \A k \in granted : k # l /\ cell'[k] = cell[k]
    BY <1>1, <1>2, <1>4 DEF LocksTypeOK
  <2>2. /\ granted \subseteq granted'
        /\ \A k \in granted' : k \in granted \/ (k = l /\ library = "dext")
    <3>1. CASE library = "dext"
      BY <3>1, <1>1
    <3>2. CASE library # "dext"
      BY <3>2, <1>1
    <3>3. QED
      BY <3>1, <3>2
  <2>3. l \notin Mutexes
    OBVIOUS
  <2>4. QED
    BY <1>1, <1>2, <1>4, <2>1, <2>2, <2>3 DEF Separation
<1>9. SpinlocksHeld'
  BY <1>1, <1>2, <1>5 DEF SpinlocksHeld, Has
<1>10. SpinlockNeverFaults'
  BY <1>1 DEF SpinlockNeverFaults
<1>11. QED
  BY <1>6, <1>7, <1>8, <1>9, <1>10 DEF LocksInv

\* os_alloc_mutex: the object joins the forgotten ones, one of which the cell may name.
LEMMA AllocMutexInv ==
    ASSUME LocksInv, UNCHANGED library, faulted = Nothing,
           NEW m \in Mutexes, NEW o \in Objects, AllocMutex(m, o)
    PROVE  LocksInv'
<1> USE LocksAssumption
<1>1. PICK content \in forgotten' \cup {Nothing} : cell' = [cell EXCEPT ![m] = content]
  BY DEF AllocMutex
<1>2. /\ m \in Cells /\ m \notin granted /\ o \notin objects /\ o # Nothing
      /\ objects' = objects \cup {o} /\ granted' = granted \cup {m}
      /\ forgotten' = forgotten \cup {o}
      /\ UNCHANGED <<taken, told, inverted, orphaned, faulted>>
  BY DEF AllocMutex, NewObject, Cells
<1>3. LocksTypeOK /\ Exclusion /\ Separation /\ SpinlocksHeld /\ IsFiniteSet(objects)
  BY DEF LocksInv
<1>4. \A u \in Users : told[u] # m
  BY <1>2, <1>3, CellUnheld
<1>5. cell'[m] = content /\ \A k \in Cells \ {m} : cell'[k] = cell[k]
  BY <1>1, <1>2, <1>3 DEF LocksTypeOK
<1>6. \A u \in Users : Has(u) => told[u] \in granted /\ cell'[told[u]] = cell[told[u]]
  BY <1>3, <1>4, <1>5 DEF LocksTypeOK, Has
<1>7. LocksTypeOK' /\ IsFiniteSet(objects')
  <2>1. forgotten' \subseteq Objects
    BY <1>2, <1>3 DEF LocksTypeOK
  <2>2. QED
    BY <1>1, <1>2, <1>3, <2>1, FS_AddElement DEF LocksTypeOK
<1>8. Exclusion'
  BY <1>2, <1>3, <1>6 DEF Exclusion, Has, HasObject
<1>9. Separation'
  <2>1. \A k \in granted : k # m /\ cell'[k] = cell[k]
    BY <1>2, <1>3, <1>5 DEF LocksTypeOK
  <2>2. m \notin Spinlocks /\ granted' \cap Spinlocks = granted \cap Spinlocks
    BY <1>2
  <2>3. objects' \ forgotten' = objects \ forgotten
    BY <1>2
  <2>4. \A k \in granted' \cap Mutexes : k = m \/ k \in granted \cap Mutexes
    BY <1>2
  <2>5. \A k \in granted' \cap Mutexes : ~orphaned => cell'[k] \in forgotten' \cup {Nothing}
    BY <1>1, <1>2, <1>3, <1>5, <2>1, <2>4 DEF Separation
  <2>6. QED
    BY <1>2, <1>3, <2>1, <2>2, <2>3, <2>5 DEF Separation
<1>10. SpinlocksHeld'
  BY <1>2, <1>3, <1>6 DEF SpinlocksHeld, Has
<1>11. SpinlockNeverFaults'
  BY <1>2 DEF SpinlockNeverFaults
<1>12. QED
  BY <1>7, <1>8, <1>9, <1>10, <1>11 DEF LocksInv

\* os_acquire_spinlock and os_acquire_mutex: nobody had the object.
LEMMA AcquireLockInv ==
    ASSUME LocksInv, UNCHANGED library, faulted = Nothing,
           NEW u \in Users, NEW l \in Cells, AcquireLock(u, l)
    PROVE  LocksInv'
<1> USE LocksAssumption
<1>1. /\ told[u] = Nothing /\ l \in granted /\ cell[l] \in objects /\ cell[l] \notin taken
      /\ taken' = taken \cup {cell[l]} /\ told' = [told EXCEPT ![u] = l]
      /\ UNCHANGED <<objects, cell, granted, forgotten, inverted, orphaned, faulted>>
      /\ l # Nothing
  BY DEF AcquireLock, Has, Usable, Cells
<1>2. LocksTypeOK /\ Exclusion /\ Separation /\ SpinlocksHeld /\ IsFiniteSet(objects)
  BY DEF LocksInv
<1>3. told'[u] = l /\ \A v \in Users \ {u} : told'[v] = told[v]
  BY <1>1, <1>2 DEF LocksTypeOK
<1>4. LocksTypeOK' /\ IsFiniteSet(objects')
  BY <1>1, <1>2 DEF LocksTypeOK
<1>5. Exclusion'
  <2> SUFFICES ASSUME ~inverted, ~orphaned
               PROVE  /\ \A v \in Users : Has(v)' => cell[told'[v]] \in taken'
                      /\ \A x \in taken' : \E v \in Users : HasObject(v, x)'
                      /\ \A v, w \in Users : Has(v)' /\ Has(w)' /\ cell[told'[w]] = cell[told'[v]]
                            => v = w
    BY <1>1 DEF Exclusion, HasObject
  <2>1. \A v \in Users \ {u} : Has(v)' <=> Has(v)
    BY <1>3 DEF Has
  <2>2. Has(u)' /\ ~Has(u)
    BY <1>1, <1>3 DEF Has
  <2>3. \A v \in Users : Has(v)' => cell[told'[v]] \in taken'
    BY <1>1, <1>2, <1>3, <2>1 DEF Exclusion
  <2>4. \A x \in taken' : \E v \in Users : HasObject(v, x)'
    BY <1>1, <1>2, <1>3, <2>1, <2>2 DEF Exclusion, HasObject
  <2>5. \A v, w \in Users : Has(v)' /\ Has(w)' /\ cell[told'[w]] = cell[told'[v]] => v = w
    BY <1>1, <1>2, <1>3, <2>1 DEF Exclusion, HasObject
  <2>6. QED
    BY <2>3, <2>4, <2>5
<1>6. Separation'
  BY <1>1, <1>2 DEF Separation
<1>7. SpinlocksHeld'
  BY <1>1, <1>2, <1>3 DEF SpinlocksHeld
<1>8. SpinlockNeverFaults'
  BY <1>1 DEF SpinlockNeverFaults
<1>9. QED
  BY <1>4, <1>5, <1>6, <1>7, <1>8 DEF LocksInv

\* os_cond_acquire_mutex takes an object that nobody had and does not say so, or says
\* that it did when somebody had it.
LEMMA CondAcquireInv ==
    ASSUME LocksInv, UNCHANGED library, faulted = Nothing,
           NEW u \in Users, NEW m \in Mutexes, CondTakesLock(u, m) \/ CondMissesLock(u, m)
    PROVE  LocksInv'
<1> USE LocksAssumption
<1>1. /\ told[u] = Nothing /\ m \in granted /\ cell[m] \in objects
      /\ taken \subseteq taken' /\ taken' \subseteq taken \cup {cell[m]}
      /\ told' = told \/ told' = [told EXCEPT ![u] = m]
      /\ inverted' = TRUE
      /\ UNCHANGED <<objects, cell, granted, forgotten, orphaned, faulted>>
      /\ m # Nothing /\ m \notin Spinlocks
  BY DEF CondTakesLock, CondMissesLock, Has, Usable
<1>2. LocksTypeOK /\ Separation /\ SpinlocksHeld /\ IsFiniteSet(objects)
  BY DEF LocksInv
<1>3. LocksTypeOK' /\ IsFiniteSet(objects')
  BY <1>1, <1>2 DEF LocksTypeOK
<1>4. Exclusion' /\ Separation'
  BY <1>1, <1>2 DEF Exclusion, Separation
<1>5. \A v \in Users : told'[v] \in Spinlocks => told'[v] = told[v]
  BY <1>1, <1>2 DEF LocksTypeOK
<1>6. SpinlocksHeld'
  BY <1>1, <1>2, <1>5 DEF SpinlocksHeld
<1>7. SpinlockNeverFaults'
  BY <1>1 DEF SpinlockNeverFaults
<1>8. QED
  BY <1>3, <1>4, <1>6, <1>7 DEF LocksInv

\* os_release_spinlock and os_release_mutex.
LEMMA ReleaseLockInv ==
    ASSUME LocksInv, UNCHANGED library, faulted = Nothing,
           NEW u \in Users, ReleaseLock(u)
    PROVE  LocksInv'
<1> USE LocksAssumption
<1>1. /\ told[u] # Nothing /\ cell[told[u]] \in taken
      /\ taken' = taken \ {cell[told[u]]} /\ told' = [told EXCEPT ![u] = Nothing]
      /\ UNCHANGED <<objects, cell, granted, forgotten, inverted, orphaned, faulted>>
      /\ Nothing \notin Spinlocks
  BY DEF ReleaseLock, Has
<1>2. LocksTypeOK /\ Exclusion /\ Separation /\ SpinlocksHeld /\ IsFiniteSet(objects)
  BY DEF LocksInv
<1>3. /\ told'[u] = Nothing /\ \A v \in Users \ {u} : told'[v] = told[v]
      /\ told[u] \in granted
  BY <1>1, <1>2 DEF LocksTypeOK
<1>4. LocksTypeOK' /\ IsFiniteSet(objects')
  BY <1>1, <1>2 DEF LocksTypeOK
<1>5. Exclusion'
  <2> SUFFICES ASSUME ~inverted, ~orphaned
               PROVE  /\ \A v \in Users : Has(v)' => cell[told'[v]] \in taken'
                      /\ \A x \in taken' : \E v \in Users : HasObject(v, x)'
                      /\ \A v, w \in Users : Has(v)' /\ Has(w)' /\ cell[told'[w]] = cell[told'[v]]
                            => v = w
    BY <1>1 DEF Exclusion, HasObject
  <2>1. \A v \in Users : Has(v)' <=> Has(v) /\ v # u
    BY <1>1, <1>3 DEF Has
  <2>2. Has(u)
    BY <1>1 DEF Has
  <2>3. \A v \in Users : Has(v)' => cell[told'[v]] \in taken'
    BY <1>1, <1>2, <1>3, <2>1, <2>2 DEF Exclusion, HasObject
  <2>4. \A x \in taken' : \E v \in Users : HasObject(v, x)'
    BY <1>1, <1>2, <1>3, <2>1 DEF Exclusion, HasObject
  <2>5. \A v, w \in Users : Has(v)' /\ Has(w)' /\ cell[told'[w]] = cell[told'[v]] => v = w
    BY <1>1, <1>2, <1>3, <2>1 DEF Exclusion, HasObject
  <2>6. QED
    BY <2>3, <2>4, <2>5
<1>6. Separation'
  BY <1>1, <1>2 DEF Separation
<1>7. SpinlocksHeld'
  <2> SUFFICES ASSUME ~orphaned, NEW v \in Users, v # u, told[v] \in Spinlocks
               PROVE  cell[told[v]] \in taken /\ cell[told[v]] # cell[told[u]]
    BY <1>1, <1>2, <1>3 DEF SpinlocksHeld
  <2>1. cell[told[v]] \in taken /\ told[v] # told[u] /\ told[v] \in granted
    BY <1>1, <1>2 DEF SpinlocksHeld, LocksTypeOK
  <2>2. cell[told[v]] # Nothing
    BY <2>1, <1>2 DEF LocksTypeOK
  <2>3. CASE told[u] \in Spinlocks
    BY <2>1, <2>2, <2>3, <1>2, <1>3 DEF Separation
  <2>4. CASE told[u] \in Mutexes
    <3>1. cell[told[u]] \in forgotten \cup {Nothing}
      BY <2>4, <1>2, <1>3 DEF Separation
    <3>2. cell[told[v]] \in objects \ forgotten
      BY <2>1, <2>2, <1>2 DEF Separation
    <3>3. QED
      BY <3>1, <3>2, <2>1, <2>2
  <2>5. QED
    BY <2>1, <2>3, <2>4, <1>2, <1>3 DEF LocksTypeOK, Cells
<1>8. SpinlockNeverFaults'
  BY <1>1 DEF SpinlockNeverFaults
<1>9. QED
  BY <1>4, <1>5, <1>6, <1>7, <1>8 DEF LocksInv

\* os_free_spinlock and os_free_mutex.
LEMMA FreeLockInv ==
    ASSUME LocksInv, UNCHANGED library, faulted = Nothing,
           NEW l \in Cells, FreeLock(l)
    PROVE  LocksInv'
<1> USE LocksAssumption
<1>1. /\ l \in granted /\ cell[l] \in objects /\ \A u \in Users : told[u] # l
      /\ granted' = granted \ {l} /\ objects' = objects \ {cell[l]}
      /\ forgotten' = forgotten \ {cell[l]} /\ taken' = taken \ {cell[l]}
      /\ orphaned' = (orphaned \/ cell[l] \in taken
                               \/ \E k \in granted \ {l} : cell[k] = cell[l])
      /\ cell' = [cell EXCEPT ![l] = Nothing]
      /\ UNCHANGED <<told, inverted, faulted>>
  BY DEF FreeLock, Usable
<1>2. LocksTypeOK /\ Exclusion /\ Separation /\ SpinlocksHeld /\ IsFiniteSet(objects)
  BY DEF LocksInv
<1>3. \A k \in Cells \ {l} : cell'[k] = cell[k]
  BY <1>1, <1>2 DEF LocksTypeOK
<1>4. \A u \in Users : Has(u) => told[u] \in granted' /\ cell'[told[u]] = cell[told[u]]
  BY <1>1, <1>2, <1>3 DEF LocksTypeOK, Has
<1>5. LocksTypeOK' /\ IsFiniteSet(objects')
  <2>1. cell' \in [Cells -> Objects \cup {Nothing}] /\ told' \in [Users -> granted' \cup {Nothing}]
    BY <1>1, <1>2 DEF LocksTypeOK
  <2>2. orphaned' \in BOOLEAN
    BY <1>1, <1>2, Zenon DEF LocksTypeOK
  <2>3. QED
    BY <2>1, <2>2, <1>1, <1>2, FS_RemoveElement DEF LocksTypeOK
<1>6. ASSUME ~orphaned'
      PROVE  /\ ~orphaned /\ cell[l] \notin taken /\ taken' = taken
             /\ \A k \in granted' : cell[k] # cell[l] /\ cell'[k] = cell[k]
  BY <1>1, <1>2, <1>3, <1>6 DEF LocksTypeOK
<1>7. Exclusion'
  <2> SUFFICES ASSUME ~inverted, ~orphaned' PROVE Exclusion'
    BY <1>1 DEF Exclusion
  <2>1. \A u \in Users : Has(u)' <=> Has(u)
    BY <1>1 DEF Has
  <2>2. \A u \in Users, x \in taken : HasObject(u, x)' <=> HasObject(u, x)
    BY <1>1, <1>4, <2>1 DEF HasObject
  <2>3. QED
    BY <1>1, <1>2, <1>4, <1>6, <2>1, <2>2 DEF Exclusion, HasObject
<1>8. Separation'
  <2> SUFFICES ASSUME ~orphaned'
               PROVE  /\ \A k \in granted' \cap Spinlocks :
                            \/ cell'[k] \in objects' \ forgotten'
                            \/ library' = "dext" /\ cell'[k] = Nothing
                      /\ \A m \in granted' \cap Mutexes : cell'[m] \in forgotten' \cup {Nothing}
                      /\ \A x \in objects' \ forgotten' :
                            \E k \in granted' \cap Spinlocks : cell'[k] = x
                      /\ \A j, k \in granted' \cap Spinlocks :
                            cell'[j] = cell'[k] /\ cell'[k] # Nothing => j = k
    BY DEF Separation
  <2>1. \A k \in granted' \cap Spinlocks :
           \/ cell'[k] \in objects' \ forgotten'
           \/ library' = "dext" /\ cell'[k] = Nothing
    BY <1>1, <1>2, <1>6 DEF Separation
  <2>2. \A m \in granted' \cap Mutexes : cell'[m] \in forgotten' \cup {Nothing}
    BY <1>1, <1>2, <1>6 DEF Separation
  <2>3. \A x \in objects' \ forgotten' : \E k \in granted' \cap Spinlocks : cell'[k] = x
    <3> SUFFICES ASSUME NEW x \in objects' \ forgotten'
                 PROVE  \E k \in granted' \cap Spinlocks : cell'[k] = x
      OBVIOUS
    <3>1. x \in objects \ forgotten /\ x # cell[l]
      BY <1>1
    <3>2. PICK k \in granted \cap Spinlocks : cell[k] = x
      BY <3>1, <1>2, <1>6 DEF Separation
    <3>3. k \in granted'
      BY <3>1, <3>2, <1>1
    <3>4. QED
      BY <3>2, <3>3, <1>6
  <2>4. \A j, k \in granted' \cap Spinlocks :
           cell'[j] = cell'[k] /\ cell'[k] # Nothing => j = k
    BY <1>1, <1>2, <1>6 DEF Separation
  <2>5. QED
    BY <2>1, <2>2, <2>3, <2>4
<1>9. SpinlocksHeld'
  <2> SUFFICES ASSUME ~orphaned' PROVE SpinlocksHeld'
    BY DEF SpinlocksHeld
  <2>1. \A u \in Users : told[u] \in Spinlocks => Has(u)
    BY DEF Has
  <2>2. QED
    BY <1>1, <1>2, <1>4, <1>6, <2>1 DEF SpinlocksHeld
<1>10. SpinlockNeverFaults'
  BY <1>1 DEF SpinlockNeverFaults
<1>11. QED
  BY <1>5, <1>7, <1>8, <1>9, <1>10 DEF LocksInv

\* A use of what is no lock, which is that of a spinlock only in the dext.
LEMMA LockFaultsInv ==
    ASSUME LocksInv, UNCHANGED library, NEW l \in Cells, LockFaults(l)
    PROVE  LocksInv'
<1> USE LocksAssumption
<1>1. /\ l \in granted /\ faulted' = l
      /\ cell[l] \notin objects \/ (cell[l] \notin taken /\ \E u \in Users : told[u] = l)
      /\ UNCHANGED <<objects, cell, granted, taken, told, forgotten, inverted, orphaned>>
  BY DEF LockFaults, Usable
<1>2. LocksTypeOK /\ Exclusion /\ Separation /\ SpinlocksHeld /\ IsFiniteSet(objects)
  BY DEF LocksInv
<1>3. LocksTypeOK' /\ IsFiniteSet(objects')
  BY <1>1, <1>2 DEF LocksTypeOK
<1>4. Exclusion' /\ Separation' /\ SpinlocksHeld'
  BY <1>1, <1>2 DEF Exclusion, Separation, SpinlocksHeld, Has, HasObject
<1>5. SpinlockNeverFaults'
  <2> SUFFICES ASSUME ~orphaned, l \in Spinlocks
               PROVE  library = "dext" /\ cell[l] = Nothing
    BY <1>1 DEF SpinlockNeverFaults
  <2>1. ~(cell[l] \notin taken /\ \E u \in Users : told[u] = l)
    BY <1>2 DEF SpinlocksHeld
  <2>2. QED
    BY <2>1, <1>1, <1>2 DEF Separation
<1>6. QED
  BY <1>3, <1>4, <1>5 DEF LocksInv

\* Every step of a spinlock or a mutex keeps the invariant.
LEMMA LocksNextInv == ASSUME LocksInv, LocksNext, UNCHANGED library PROVE LocksInv'
BY AllocSpinlockInv, AllocSpinlockFailsInv, AllocMutexInv, AcquireLockInv, CondAcquireInv,
   ReleaseLockInv, FreeLockInv, LockFaultsInv
   DEF LocksNext

\* Steps of the other services keep it.
LEMMA LocksStutterInv == ASSUME LocksInv, UNCHANGED <<library, lockVars>> PROVE LocksInv'
BY DEF LocksInv, LocksTypeOK, Exclusion, Separation, SpinlocksHeld, SpinlockNeverFaults,
       Has, HasObject, lockVars

\* An object that is locked is one thread's.
LEMMA InvLockHeldByOne == LocksInv => LockHeldByOne
<1> SUFFICES ASSUME LocksInv, ~inverted, ~orphaned,
                    NEW o \in taken
             PROVE  Cardinality({u \in Users : Has(u) /\ cell[told[u]] = o}) = 1
  BY DEF LocksInv, Exclusion, LockHeldByOne
<1>1. PICK u \in Users : HasObject(u, o)
  BY DEF LocksInv, Exclusion
<1>2. {v \in Users : Has(v) /\ cell[told[v]] = o} = {u}
  BY <1>1 DEF LocksInv, Exclusion, HasObject
<1>3. QED
  BY <1>2, FS_Singleton

\* The objects that are not forgotten are as many as the spinlocks that name them.
LEMMA InvLocksAccountedFor == LocksInv => LocksAccountedFor
<1> DEFINE spinning == {l \in granted \cap Spinlocks : cell[l] # Nothing}
           visible == objects \ forgotten
<1> SUFFICES ASSUME LocksInv, ~orphaned
             PROVE  /\ objects = forgotten \cup {cell[l] : l \in spinning}
                    /\ Cardinality(objects) = Cardinality(forgotten) + Cardinality(spinning)
  BY DEF LocksAccountedFor
<1>1. /\ forgotten \subseteq objects /\ IsFiniteSet(objects)
      /\ \A l \in spinning : cell[l] \in visible
      /\ \A o \in visible : \E l \in spinning : cell[l] = o
      /\ \A k, l \in spinning : cell[k] = cell[l] => k = l
  BY LocksAssumption DEF LocksInv, LocksTypeOK, Separation
<1>2. visible = {cell[l] : l \in spinning}
  BY <1>1
<1>3. IsFiniteSet(visible) /\ IsFiniteSet(forgotten)
  BY <1>1, FS_Subset
<1>4. Cardinality(spinning) = Cardinality(visible)
  <2> DEFINE f == [l \in spinning |-> cell[l]]
  <2>1. f \in [spinning -> visible]
    BY <1>1
  <2>2. \A k, l \in spinning : f[k] = f[l] => k = l
    BY <1>1
  <2>3. \A o \in visible : \E l \in spinning : f[l] = o
    BY <1>1
  <2>4. f \in Injection(spinning, visible) /\ f \in Surjection(spinning, visible)
    BY <2>1, <2>2, <2>3 DEF Injection, Surjection, IsInjective
  <2>5. QED
    BY <2>4, <1>3, FS_Injection
<1>5. Cardinality(objects) = Cardinality(forgotten) + Cardinality(visible)
  <2>1. objects \cap forgotten = forgotten
    BY <1>1
  <2>2. Cardinality(visible) = Cardinality(objects) - Cardinality(objects \cap forgotten)
    BY <1>1, FS_Difference
  <2>3. Cardinality(objects) \in Nat /\ Cardinality(forgotten) \in Nat
    BY <1>1, <1>3, FS_CardinalityType
  <2>4. QED
    BY <2>1, <2>2, <2>3
<1>6. objects = forgotten \cup visible
  BY <1>1
<1>7. QED
  BY <1>2, <1>4, <1>5, <1>6

-----------------------------------------------------------------------------
(* Semaphores *)

\* At first there is no semaphore and nobody waits.
LEMMA SemInitInv == SemInit => SemTypeOK
BY DEF SemInit, SemTypeOK

\* Every step of a semaphore keeps the types: a cell on which a thread waits is RM's.
LEMMA SemNextInv == ASSUME SemTypeOK, SemNext PROVE SemTypeOK'
<1> USE SemaphoreAssumption
<1>1. ASSUME NEW s \in Semaphores, NEW value \in InitialValues, AllocSemaphore(s, value)
      PROVE  SemTypeOK'
  BY <1>1 DEF SemTypeOK, AllocSemaphore
<1>2. ASSUME NEW s \in Semaphores, FreeSemaphore(s) PROVE SemTypeOK'
  BY <1>2 DEF SemTypeOK, FreeSemaphore
<1>3. ASSUME NEW c \in Callers, WaitReturns(c) PROVE SemTypeOK'
  BY <1>3 DEF SemTypeOK, WaitReturns
<1>4. ASSUME NEW c \in Callers, NEW s \in Semaphores, CallWait(c, s) PROVE SemTypeOK'
  BY <1>4 DEF SemTypeOK, CallWait
<1>5. ASSUME NEW c \in Callers, NEW s \in Semaphores, CondAcquire(c, s) PROVE SemTypeOK'
  <2>1. PICK answer \in Answers : status' = [status EXCEPT ![c] = answer]
    BY <1>5 DEF CondAcquire
  <2>2. answer \in {"NV_OK", "NV_ERR_TIMEOUT_RETRY", "NV_ERR_GENERIC"}
    BY <2>1 DEF Answers
  <2>3. QED
    BY <1>5, <2>1, <2>2 DEF SemTypeOK, CondAcquire
<1>6. QED
  BY <1>1, <1>2, <1>3, <1>4, <1>5 DEF SemNext

\* Steps of the other services keep them.
LEMMA SemStutterInv == ASSUME SemTypeOK, UNCHANGED semVars PROVE SemTypeOK'
BY DEF SemTypeOK, semVars

-----------------------------------------------------------------------------
(* The clock *)

\* A delay began in the past, and lasts as long as was asked for unless it wrapped.
ClockInv ==
    /\ ClockTypeOK
    /\ library \in Libraries
    /\ delay.begun <= uptime
    /\ ~delay.wraps => delay.until >= delay.begun + delay.asked

\* Quotient and remainder.
LEMMA Division ==
    ASSUME NEW n \in Nat, NEW d \in Nat \ {0}
    PROVE  /\ n \div d \in Nat /\ n % d \in 0 .. d - 1
           /\ n = d * (n \div d) + (n % d)
OBVIOUS

\* They are the only numbers of that kind.
LEMMA DivisionUnique ==
    ASSUME NEW n \in Nat, NEW d \in Nat \ {0}, NEW q \in Nat, NEW r \in 0 .. d - 1,
           n = d * q + r
    PROVE  n \div d = q /\ n % d = r
OBVIOUS

\* A larger number has no smaller quotient.
LEMMA QuotientMonotone ==
    ASSUME NEW m \in Nat, NEW n \in Nat, NEW d \in Nat \ {0}, m <= n
    PROVE  m \div d <= n \div d
OBVIOUS

\* Two numbers are not farther apart than their quotients, but for rounding.
LEMMA QuotientsApart ==
    ASSUME NEW m \in Nat, NEW n \in Nat, NEW d \in Nat \ {0}, m <= n
    PROVE  d * ((n \div d) - (m \div d)) < n - m + d
<1> DEFINE a == m \div d
           b == n \div d
<1>1. /\ a \in Nat /\ b \in Nat /\ m < d * a + d /\ n >= d * b
  BY Division
<1>2. d * (b - a) = d * b - d * a
  BY <1>1
<1>3. d * a \in Nat /\ d * b \in Nat
  BY <1>1
<1>4. QED
  BY <1>1, <1>2, <1>3

\* Two readings of a clock that wraps seem no farther apart than they are.
LEMMA ReadingsApart ==
    ASSUME NEW m \in Nat, NEW n \in Nat, NEW w \in Nat \ {0}, m <= n
    PROVE  /\ ((n % w) + w - (m % w)) % w \in Nat
           /\ ((n % w) + w - (m % w)) % w <= n - m
<1> DEFINE a == m \div w
           r == m % w
           b == n \div w
           s == n % w
<1>1. /\ a \in Nat /\ r \in 0 .. w - 1 /\ m = w * a + r
      /\ b \in Nat /\ s \in 0 .. w - 1 /\ n = w * b + s
  BY Division
<1>2. a <= b
  BY QuotientMonotone
<1>3. w * a \in Nat /\ w * b \in Nat /\ w * a <= w * b
  BY <1>1, <1>2
<1>4. CASE s >= r
  <2>1. s - r \in 0 .. w - 1 /\ s + w - r = w * 1 + (s - r) /\ s + w - r \in Nat
    BY <1>1, <1>4
  <2>2. (s + w - r) % w = s - r
    BY <2>1, DivisionUnique
  <2>3. QED
    BY <2>1, <2>2, <1>1, <1>3
<1>5. CASE s < r
  <2>1. s + w - r \in 0 .. w - 1 /\ s + w - r = w * 0 + (s + w - r) /\ s + w - r \in Nat
    BY <1>1, <1>5
  <2>2. (s + w - r) % w = s + w - r
    BY <2>1, DivisionUnique
  <2>3. b # a
    BY <1>1, <1>5
  <2>4. b >= a + 1
    BY <1>1, <1>2, <2>3
  <2>5. w * b >= w * a + w
    BY <1>1, <2>4
  <2>6. QED
    BY <2>1, <2>2, <2>5, <1>1, <1>3
<1>6. QED
  BY <1>1, <1>4, <1>5

\* The constants of the clock.
LEMMA ClockConstants ==
    /\ Word \in Nat \ {0} /\ Thousand \in Nat \ {0} /\ MaxUptime \in Nat
    /\ Numer \in Nat \ {0} /\ Denom \in Nat \ {0} /\ Denom <= Numer
    /\ \A ms \in Delays : ms \in Nat
    /\ \A us \in DelaysUs : us \in Nat
BY ClockAssumption

\* Ticks taken for nanoseconds pass no faster than nanoseconds.
LEMMA UptimesApart ==
    ASSUME library \in Libraries, NEW from \in Nat, NEW to \in Nat, from <= to
    PROVE  /\ CurrentUptime(from) \in Nat /\ CurrentUptime(to) \in Nat
           /\ CurrentUptime(from) <= CurrentUptime(to)
           /\ CurrentUptime(to) - CurrentUptime(from) <= to - from
<1>1. CASE library = "dext"
  BY <1>1 DEF CurrentUptime
<1>2. CASE library # "dext"
  <2> DEFINE a == (from * Denom) \div Numer
             b == (to * Denom) \div Numer
  <2>1. /\ from * Denom \in Nat /\ to * Denom \in Nat
        /\ from * Denom <= to * Denom
        /\ to * Denom - from * Denom = (to - from) * Denom
    BY ClockConstants
  <2>2. a \in Nat /\ b \in Nat /\ a <= b
    BY <2>1, ClockConstants, Division, QuotientMonotone
  <2>3. Numer * (b - a) < (to - from) * Denom + Numer
    BY <2>1, ClockConstants, QuotientsApart
  <2>4. (to - from) * Denom <= (to - from) * Numer
    BY ClockConstants
  <2>5. ASSUME b - a >= (to - from) + 1 PROVE FALSE
    <3>1. Numer * (b - a) >= Numer * ((to - from) + 1)
      BY <2>2, <2>5, ClockConstants
    <3>2. Numer * ((to - from) + 1) = (to - from) * Numer + Numer
      BY ClockConstants
    <3>3. /\ Numer * (b - a) \in Int /\ (to - from) * Denom \in Int
          /\ (to - from) * Numer \in Int
      BY <2>2, ClockConstants
    <3>4. QED
      BY <2>3, <2>4, <3>1, <3>2, <3>3, ClockConstants
  <2>6. CurrentUptime(from) = a /\ CurrentUptime(to) = b
    BY <1>2 DEF CurrentUptime
  <2>7. QED
    BY <2>2, <2>5, <2>6
<1>3. QED
  BY <1>1, <1>2

\* At first nobody has asked for a delay.
LEMMA ClockInitInv == library \in Libraries /\ ClockInit => ClockInv
BY ClockConstants DEF ClockInit, ClockInv, ClockTypeOK, NoDelay, Times

\* A sleep that lasts as long as was asked for, unless it wrapped.
LEMMA SleepInv ==
    ASSUME ClockInv, UNCHANGED library,
           NEW millis \in Nat, NEW asked \in Nat, NEW wraps \in BOOLEAN,
           ~wraps => millis * Thousand * Thousand >= asked, Sleep(millis, asked, wraps)
    PROVE  ClockInv'
<1> DEFINE until == uptime + millis * Thousand * Thousand
<1>1. /\ uptime \in Nat /\ uptime' = uptime /\ uptime <= MaxUptime /\ until <= MaxUptime
      /\ delay' = [asked |-> asked, wraps |-> wraps, begun |-> uptime, until |-> until]
  BY ClockConstants DEF Sleep, ClockInv, ClockTypeOK, Times
<1>2. until \in 0 .. MaxUptime
  BY <1>1, ClockConstants
<1>3. ClockTypeOK'
  BY <1>1, <1>2, ClockConstants DEF ClockTypeOK, Times
<1>4. ~wraps => until >= uptime + asked
  <2>1. millis * Thousand * Thousand \in Nat
    BY ClockConstants
  <2>2. QED
    BY <1>1, <2>1
<1>5. QED
  BY <1>1, <1>3, <1>4 DEF ClockInv

\* Every step of the clock keeps the invariant: what os_delay multiplies a thousand
\* times too often still is as long as was asked for, unless it wraps.
LEMMA ClockNextInv == ASSUME ClockInv, UNCHANGED library, ClockNext PROVE ClockInv'
<1>1. CASE Tick
  BY <1>1, ClockConstants DEF Tick, ClockInv, ClockTypeOK, Times
<1>2. CASE Wake
  BY <1>2, ClockConstants DEF Wake, ClockInv, ClockTypeOK, Times, NoDelay
<1>3. ASSUME NEW ms \in Delays, OsDelay(ms) PROVE ClockInv'
  <2> DEFINE micros == ms * Thousand
             nanos == ms * Thousand * Thousand
  <2>1. micros \in Nat /\ nanos \in Nat /\ micros % Word \in Nat /\ micros * Thousand = nanos
    BY ClockConstants
  <2>2. ASSUME ~(micros >= Word)
        PROVE  (micros % Word) * Thousand * Thousand >= nanos
    <3>1. micros % Word = micros
      BY <2>1, <2>2, ClockConstants
    <3>2. nanos * Thousand >= nanos
      BY <2>1, ClockConstants
    <3>3. QED
      BY <2>1, <3>1, <3>2
  <2>3. (micros >= Word) \in BOOLEAN
    BY <2>1, ClockConstants
  <2>4. QED
    BY <2>1, <2>2, <2>3, <1>3, SleepInv DEF OsDelay
<1>4. ASSUME NEW ms \in Delays, NvlinkSleep(ms) PROVE ClockInv'
  <2>1. /\ ms \in Nat /\ ms * Thousand * Thousand \in Nat
        /\ ms * Thousand * Thousand >= ms * Thousand * Thousand
    BY ClockConstants
  <2>2. Sleep(ms, ms * Thousand * Thousand, FALSE)
    BY <1>4 DEF NvlinkSleep
  <2>3. QED
    BY <2>1, <2>2, SleepInv
<1>5. ASSUME NEW us \in DelaysUs, OsDelayUs(us) PROVE ClockInv'
  <2>1. us \in Nat /\ us * Thousand \in Nat
    BY ClockConstants
  <2>2. us * Thousand * Thousand >= us * Thousand
    <3> HIDE DEF ClockInv
    <3> DEFINE asked == us * Thousand
    <3> HIDE DEF asked
    <3>1. asked * Thousand >= asked
      BY <2>1, ClockConstants DEF asked
    <3>2. QED
      BY <3>1 DEF asked
  <2>3. QED
    BY <2>1, <2>2, <1>5, SleepInv DEF OsDelayUs
<1>6. QED
  BY <1>1, <1>2, <1>3, <1>4, <1>5 DEF ClockNext

\* Steps of the other services keep it.
LEMMA ClockStutterInv ==
    ASSUME ClockInv, UNCHANGED <<library, clockVars>> PROVE ClockInv'
BY DEF ClockInv, ClockTypeOK, clockVars

\* Of two readings RM sees no more than the time between them.
LEMMA InvMeasuredNeverAhead == ClockInv => MeasuredNeverAhead
<1> DEFINE a == CurrentUptime(delay.begun)
           b == CurrentUptime(uptime)
           m == a \div Thousand
           n == b \div Thousand
           measured == ((n % Word) + Word - (m % Word)) % Word
<1> SUFFICES ASSUME ClockInv
             PROVE  Thousand * measured < uptime - delay.begun + Thousand
  BY DEF MeasuredNeverAhead, Measured, Useconds
<1>1. /\ delay.begun \in Nat /\ uptime \in Nat /\ delay.begun <= uptime
      /\ library \in Libraries
  BY ClockConstants DEF ClockInv, ClockTypeOK, Times
<1>2. a \in Nat /\ b \in Nat /\ a <= b /\ b - a <= uptime - delay.begun
  BY <1>1, UptimesApart
<1> HIDE DEF a, b
<1>3. m \in Nat /\ n \in Nat /\ m <= n
  BY <1>2, ClockConstants, Division, QuotientMonotone
<1>4. Thousand * (n - m) < b - a + Thousand
  BY <1>2, ClockConstants, QuotientsApart
<1> HIDE DEF m, n
<1>5. measured \in Nat /\ measured <= n - m
  BY <1>3, ClockConstants, ReadingsApart
<1> HIDE DEF measured
<1>6. Thousand * measured <= Thousand * (n - m)
  BY <1>3, <1>5, ClockConstants
<1>7. Thousand * measured \in Int /\ Thousand * (n - m) \in Int
  BY <1>3, <1>5, ClockConstants
<1>8. QED
  BY <1>1, <1>2, <1>4, <1>6, <1>7, ClockConstants

\* A delay that is over lasted as long as its sleep.
LEMMA InvDelayShortOnlyIfWrapped == ClockInv => DelayShortOnlyIfWrapped
<1> SUFFICES ASSUME ClockInv, MayWake, ~delay.wraps
             PROVE  ~(uptime < delay.begun + delay.asked)
  BY DEF DelayShortOnlyIfWrapped, ClockInv, ClockTypeOK
<1>1. /\ uptime \in Nat /\ delay.begun \in Nat /\ delay.until \in Nat /\ delay.asked \in Nat
      /\ delay.until <= uptime /\ delay.until >= delay.begun + delay.asked
  BY ClockConstants DEF ClockInv, ClockTypeOK, Times, MayWake
<1>2. QED
  BY <1>1

-----------------------------------------------------------------------------
(* The composition *)

IInv == RwInv /\ LocksInv /\ SemTypeOK /\ ClockInv

\* The four services begin with their invariants.
LEMMA InitInv == Init => IInv
BY RwInitInv, LocksInitInv, SemInitInv, ClockInitInv DEF Init, IInv

\* A step of one service keeps its invariant, and leaves the variables of the others.
LEMMA NextInv == IInv /\ [Next]_vars => IInv'
<1> SUFFICES ASSUME IInv, [Next]_vars PROVE IInv'
  OBVIOUS
<1>1. UNCHANGED library
  BY DEF Next, vars
<1>2. RwInv'
  BY <1>1, RwNextInv, RwStutterInv DEF IInv, Next, vars
<1>3. LocksInv'
  BY <1>1, LocksNextInv, LocksStutterInv DEF IInv, Next, vars
<1>4. SemTypeOK'
  BY SemNextInv, SemStutterInv DEF IInv, Next, vars
<1>5. ClockInv'
  BY <1>1, ClockNextInv, ClockStutterInv DEF IInv, Next, vars
<1>6. QED
  BY <1>2, <1>3, <1>4, <1>5 DEF IInv

\* The four invariants hold in every reachable state.
LEMMA SpecIInv == Spec => []IInv
BY InitInv, NextInv, PTL DEF Spec

\* The types of all variables, in every reachable state (libc_driverkit.cpp:10-109,
\* libc_kernel.cpp:13-107, libc.cpp:113-173, os.cpp:120-158).
THEOREM SpecTypeOK == Spec => []TypeOK
<1>1. IInv => TypeOK
  BY InvRwTypeOK DEF IInv, LocksInv, ClockInv, TypeOK
<1>2. QED
  BY SpecIInv, <1>1, PTL

\* However many threads use a reader/writer lock, its object counts those that were
\* told they have it: always in the dext, until a call misleads one in the kext.
THEOREM SpecHoldersCounted == Spec => []HoldersCounted
<1>1. IInv => HoldersCounted
  BY InvHoldersCounted DEF IInv
<1>2. QED
  BY SpecIInv, <1>1, PTL

\* Whatever the conditional calls reported, a lock that no thread believes to have
\* is not locked.
THEOREM SpecNeverLeftLocked == Spec => []NeverLeftLocked
<1>1. IInv => NeverLeftLocked
  BY InvNeverLeftLocked DEF IInv
<1>2. QED
  BY SpecIInv, <1>1, PTL

\* Until a conditional call misleads a thread, the reader/writer lock implements its
\* contract: a writer is alone, and a thread obtains what it asked for.
THEOREM SpecLockSafety == Spec => LockSafety
<1>1. Init => Lock!Init
  BY LockInitContract DEF Init
<1>2. IInv /\ [Next]_vars
         => [misled' \/ Lock!Next]_<<held, [t \in Threads |-> Wants(t)]>>
  <2> SUFFICES ASSUME IInv, [Next]_vars
               PROVE  [misled' \/ Lock!Next]_<<held, [t \in Threads |-> Wants(t)]>>
    OBVIOUS
  <2>1. RwInv /\ (RwNext \/ UNCHANGED rwVars)
    BY DEF IInv, Next, vars
  <2>2. QED
    BY <2>1, LockNextContract
<1>3. QED
  BY SpecIInv, <1>1, <1>2, PTL DEF Spec, LockSafety

\* A spinlock's or a mutex's object is locked for exactly one thread, whichever cells
\* name it, until os_cond_acquire_mutex was called or a lock freed that is in use.
THEOREM SpecLockHeldByOne == Spec => []LockHeldByOne
<1>1. IInv => LockHeldByOne
  BY InvLockHeldByOne DEF IInv
<1>2. QED
  BY SpecIInv, <1>1, PTL

\* Until a lock is freed that is in use, only the dext without memory hands RM a
\* spinlock that it cannot use.
THEOREM SpecSpinlockNeverFaults == Spec => []SpinlockNeverFaults
<1>1. IInv => SpinlockNeverFaults
  BY DEF IInv, LocksInv
<1>2. QED
  BY SpecIInv, <1>1, PTL

\* Until then, the objects are those of the spinlocks, one each, and the ones that
\* os_alloc_mutex forgot.
THEOREM SpecLocksAccountedFor == Spec => []LocksAccountedFor
<1>1. IInv => LocksAccountedFor
  BY InvLocksAccountedFor DEF IInv
<1>2. QED
  BY SpecIInv, <1>1, PTL

\* With readings of any width, and ticks that are not less than a nanosecond, RM
\* measures no more time than has passed (os.cpp:125-140).
THEOREM SpecMeasuredNeverAhead == Spec => []MeasuredNeverAhead
<1>1. IInv => MeasuredNeverAhead
  BY InvMeasuredNeverAhead DEF IInv
<1>2. QED
  BY SpecIInv, <1>1, PTL

\* A delay of any length is short only if os_delay's product wraps (os.cpp:150-158).
THEOREM SpecDelayShortOnlyIfWrapped == Spec => []DelayShortOnlyIfWrapped
<1>1. IInv => DelayShortOnlyIfWrapped
  BY InvDelayShortOnlyIfWrapped DEF IInv
<1>2. QED
  BY SpecIInv, <1>1, PTL
=============================================================================
