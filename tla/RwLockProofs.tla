----------------------------- MODULE RwLockProofs -----------------------------
(***************************************************************************)
(* Proofs about RwLock, for every finite set of threads.                   *)
(*                                                                         *)
(* The object has as many holders as threads were told that they have it,  *)
(* or fewer: only a call that misleads a thread of the kext tells without  *)
(* taking.  That is enough for NeverLeftLocked; until then the two numbers *)
(* are equal, which is HoldersCounted, and the modes agree, which is what  *)
(* the refinement of LockContract needs.                                   *)
(***************************************************************************)
EXTENDS RwLock, FiniteSetTheorems, SequenceTheorems, TLAPS

Holders == {t \in Threads : held[t] # "none"}

\* How many have the object.
Units == IF writer THEN 1 ELSE readers

RwTypes ==
    /\ library \in Libraries
    /\ readers \in Nat /\ writer \in BOOLEAN
    /\ queue \in Seq(Threads \X Modes)
    /\ held \in [Threads -> Modes \cup {"none"}]
    /\ {exists, misled, panicked} \subseteq BOOLEAN

\* A thread waits once, and not for what it has.
Queueing ==
    /\ \A i, j \in DOMAIN queue : i # j => queue[i][1] # queue[j][1]
    /\ \A i \in DOMAIN queue : held[queue[i][1]] = "none"

Counting ==
    /\ writer => readers = 0
    /\ Units <= Cardinality(Holders)
    /\ library = "dext" \/ ~misled => Units = Cardinality(Holders)

\* Before it is allocated, and after it was freed, nobody has or wants the lock.
Unused == ~exists => Holders = {} /\ queue = <<>>

\* Until a call misleads a thread, each has the lock in the mode it was told.
Truthful ==
    ~misled =>
       \A t \in Threads : held[t] # "none" => (writer <=> held[t] = "write")

RwInv == RwTypes /\ Queueing /\ Counting /\ Unused /\ Truthful

-----------------------------------------------------------------------------
(* The holders and the queue *)

\* There is a finite number of holders.
LEMMA HoldersFinite == IsFiniteSet(Holders) /\ Cardinality(Holders) \in Nat
BY ThreadsAssumption, FS_Subset, FS_CardinalityType DEF Holders

\* A thread that is told it has the lock is one holder more.
LEMMA HolderJoins ==
    ASSUME RwTypes, NEW t \in Threads, NEW mode \in Modes, held[t] = "none", Tell(t, mode)
    PROVE  /\ held' \in [Threads -> Modes \cup {"none"}]
           /\ Holders' = Holders \cup {t}
           /\ Cardinality(Holders') = Cardinality(Holders) + 1
<1>1. Holders' = Holders \cup {t} /\ t \notin Holders
  BY DEF Holders, Tell, RwTypes, Modes
<1>2. Cardinality(Holders \cup {t}) = Cardinality(Holders) + 1
  BY <1>1, HoldersFinite, FS_AddElement
<1>3. QED
  BY <1>1, <1>2 DEF RwTypes, Tell

\* A thread that gives the lock back is one holder less.
LEMMA HolderLeaves ==
    ASSUME RwTypes, NEW t \in Threads, held[t] # "none", Tell(t, "none")
    PROVE  /\ held' \in [Threads -> Modes \cup {"none"}]
           /\ Holders' = Holders \ {t}
           /\ Cardinality(Holders') = Cardinality(Holders) - 1
<1>1. Holders' = Holders \ {t} /\ t \in Holders
  BY DEF Holders, Tell, RwTypes
<1>2. Cardinality(Holders \ {t}) = Cardinality(Holders) - 1
  BY <1>1, HoldersFinite, FS_RemoveElement
<1>3. QED
  BY <1>1, <1>2 DEF RwTypes, Tell

\* t waits for the object in a mode.
Queued(t, mode) == \E i \in DOMAIN queue : queue[i] = <<t, mode>>

\* A request is added behind all others.
LEMMA QueueGrows ==
    ASSUME RwTypes, Queueing, NEW t \in Threads, NEW mode \in Modes,
           held[t] = "none", ~Waiting(t), queue' = Append(queue, <<t, mode>>), held' = held
    PROVE  /\ queue' \in Seq(Threads \X Modes)
           /\ Queueing'
           /\ \A u \in Threads, m \in Modes :
                 Queued(u, m)' <=> (Queued(u, m) \/ (u = t /\ m = mode))
<1> DEFINE n == Len(queue)
<1>1. /\ queue \in Seq(Threads \X Modes) /\ n \in Nat /\ DOMAIN queue = 1 .. n
      /\ <<t, mode>> \in Threads \X Modes
  BY DEF RwTypes
<1>2. /\ queue' \in Seq(Threads \X Modes) /\ Len(queue') = n + 1
      /\ \A i \in 1 .. n : queue'[i] = queue[i]
      /\ queue'[n + 1] = <<t, mode>>
  BY <1>1, AppendProperties
<1>3. DOMAIN queue' = 1 .. n + 1
  BY <1>2
<1>4. \A i \in 1 .. n : queue[i] \in Threads \X Modes
  BY <1>1
<1>5. \A i \in 1 .. n : queue[i][1] # t
  <2> SUFFICES ASSUME NEW i \in 1 .. n, queue[i][1] = t PROVE FALSE
    OBVIOUS
  <2>1. queue[i] = <<t, queue[i][2]>> /\ queue[i][2] \in Modes
    BY <1>4
  <2>2. QED
    BY <2>1, <1>1 DEF Waiting
<1>6. \A i \in 1 .. n + 1 : i \in 1 .. n \/ i = n + 1
  BY <1>1
<1>7. Queueing'
  <2>1. \A i, j \in 1 .. n + 1 : i # j => queue'[i][1] # queue'[j][1]
    BY <1>1, <1>2, <1>5, <1>6 DEF Queueing
  <2>2. \A i \in 1 .. n + 1 : held[queue'[i][1]] = "none"
    BY <1>1, <1>2, <1>6 DEF Queueing
  <2>3. QED
    BY <2>1, <2>2, <1>3 DEF Queueing
<1>8. ASSUME NEW u \in Threads, NEW m \in Modes
      PROVE  Queued(u, m)' <=> (Queued(u, m) \/ (u = t /\ m = mode))
  <2>1. Queued(u, m)' <=> \E i \in 1 .. n + 1 : queue'[i] = <<u, m>>
    BY <1>3 DEF Queued
  <2>2. Queued(u, m) <=> \E i \in 1 .. n : queue[i] = <<u, m>>
    BY <1>1 DEF Queued
  <2>3. n + 1 \in 1 .. n + 1 /\ 1 .. n \subseteq 1 .. n + 1
    BY <1>1
  <2>4. (<<t, mode>> = <<u, m>>) <=> (u = t /\ m = mode)
    OBVIOUS
  <2>5. QED
    BY <2>1, <2>2, <2>3, <2>4, <1>2, <1>6
<1>9. QED
  BY <1>2, <1>7, <1>8

\* The first request is taken out, and its thread is told.
LEMMA QueueShrinks ==
    ASSUME RwTypes, Queueing, NEW t \in Threads, NEW mode \in Modes,
           queue # <<>>, Head(queue) = <<t, mode>>, queue' = Tail(queue), Tell(t, mode)
    PROVE  /\ held[t] = "none" /\ Queued(t, mode)
           /\ queue' \in Seq(Threads \X Modes)
           /\ Queueing'
           /\ \A u \in Threads, m \in Modes : Queued(u, m)' <=> (Queued(u, m) /\ u # t)
<1> DEFINE n == Len(queue)
<1>1. queue \in Seq(Threads \X Modes) /\ n \in Nat \ {0} /\ DOMAIN queue = 1 .. n
  BY EmptySeq DEF RwTypes
<1>2. /\ queue' \in Seq(Threads \X Modes) /\ Len(queue') = n - 1
      /\ \A i \in 1 .. n - 1 : queue'[i] = queue[i + 1]
  BY <1>1, HeadTailProperties
<1>3. DOMAIN queue' = 1 .. n - 1
  BY <1>2
<1>4. queue[1] = <<t, mode>>
  BY <1>1
<1>5. \A i \in 1 .. n : queue[i] \in Threads \X Modes
  BY <1>1
<1>6. 1 \in 1 .. n /\ \A i \in 1 .. n - 1 : i + 1 \in 1 .. n /\ i + 1 # 1
  BY <1>1
<1>apart. \A i, j \in 1 .. n : i # j => queue[i][1] # queue[j][1]
  BY <1>1 DEF Queueing
<1>7. \A i \in 1 .. n - 1 : queue'[i][1] # t
  BY <1>2, <1>4, <1>6, <1>apart
<1>8. held[t] = "none"
  BY <1>1, <1>4, <1>6 DEF Queueing
<1>9. Queueing'
  <2>1. \A i, j \in 1 .. n - 1 : i # j => queue'[i][1] # queue'[j][1]
    <3> SUFFICES ASSUME NEW i \in 1 .. n - 1, NEW j \in 1 .. n - 1, i # j
                 PROVE  queue'[i][1] # queue'[j][1]
      OBVIOUS
    <3>1. i + 1 \in 1 .. n /\ j + 1 \in 1 .. n /\ i + 1 # j + 1
      BY <1>1
    <3>2. QED
      BY <3>1, <1>2, <1>apart
  <2>2. \A i \in 1 .. n - 1 : held'[queue'[i][1]] = "none"
    <3> SUFFICES ASSUME NEW i \in 1 .. n - 1 PROVE held'[queue'[i][1]] = "none"
      OBVIOUS
    <3>a. i + 1 \in 1 .. n /\ queue'[i] = queue[i + 1]
      BY <1>2, <1>6
    <3>b. \A k \in 1 .. n : held[queue[k][1]] = "none"
      BY <1>1 DEF Queueing
    <3>1. queue'[i][1] \in Threads /\ held[queue'[i][1]] = "none"
      BY <3>a, <3>b, <1>5
    <3>2. queue'[i][1] # t /\ held' = [held EXCEPT ![t] = mode]
      BY <1>7 DEF Tell
    <3> HIDE DEF n
    <3>3. QED
      BY <3>1, <3>2 DEF RwTypes
  <2>3. QED
    BY <2>1, <2>2, <1>3 DEF Queueing
<1>10. ASSUME NEW u \in Threads, NEW m \in Modes
       PROVE  Queued(u, m)' <=> (Queued(u, m) /\ u # t)
  <2>1. Queued(u, m)' <=> \E i \in 1 .. n - 1 : queue'[i] = <<u, m>>
    BY <1>3 DEF Queued
  <2>2. Queued(u, m) <=> \E i \in 1 .. n : queue[i] = <<u, m>>
    BY <1>1 DEF Queued
  <2>3. ASSUME NEW i \in 1 .. n - 1, queue'[i] = <<u, m>> PROVE Queued(u, m) /\ u # t
    <3>1. queue[i + 1] = <<u, m>> /\ i + 1 \in 1 .. n
      BY <2>3, <1>2, <1>6
    <3>2. u # t
      BY <2>3, <1>7
    <3>3. QED
      BY <3>1, <3>2, <2>2
  <2>4. ASSUME NEW i \in 1 .. n, queue[i] = <<u, m>>, u # t PROVE Queued(u, m)'
    <3>1. i # 1
      BY <2>4, <1>4
    <3>2. i - 1 \in 1 .. n - 1 /\ (i - 1) + 1 = i
      BY <3>1, <1>1
    <3>3. queue'[i - 1] = <<u, m>>
      BY <3>2, <2>4, <1>2
    <3>4. QED
      BY <3>2, <3>3, <2>1
  <2>5. QED
    BY <2>1, <2>2, <2>3, <2>4
<1>11. Queued(t, mode)
  BY <1>1, <1>4, <1>6 DEF Queued
<1>12. QED
  BY <1>2, <1>8, <1>9, <1>10, <1>11

-----------------------------------------------------------------------------
(* The inductive invariant *)

\* A new lock has no holders.
LEMMA RwInitInv == library \in Libraries /\ RwInit => RwInv
<1> SUFFICES ASSUME library \in Libraries, RwInit PROVE RwInv
  OBVIOUS
<1>1. Holders = {} /\ Cardinality(Holders) = 0
  BY FS_EmptySet DEF RwInit, Holders
<1>2. queue \in Seq(Threads \X Modes) /\ DOMAIN queue = {}
  BY DEF RwInit, ObjectInit
<1>3. RwTypes
  BY <1>2 DEF RwInit, ObjectInit, RwTypes
<1>4. Queueing /\ Counting /\ Unused /\ Truthful
  BY <1>1, <1>2 DEF RwInit, ObjectInit, Queueing, Counting, Unused, Truthful, Units
<1>5. QED
  BY <1>3, <1>4 DEF RwInv

\* Allocation and release of the object: nobody has or wants it.
LEMMA AllocInv ==
    ASSUME RwInv, UNCHANGED library, Alloc \/ AllocFails \/ Free PROVE RwInv'
<1>1. CASE Alloc
  <2>1. Holders = {} /\ queue = <<>> /\ Holders' = Holders /\ queue' = <<>>
    BY <1>1 DEF Alloc, RwInv, Unused, Holders
  <2>2. Cardinality(Holders') = 0
    BY <2>1, FS_EmptySet
  <2>3. RwTypes'
    BY <1>1, <2>1 DEF RwInv, RwTypes, Alloc
  <2>4. Queueing' /\ Counting' /\ Unused'
    BY <1>1, <2>1, <2>2 DEF RwInv, Alloc, Queueing, Counting, Unused, Units
  <2>5. Truthful'
    BY <2>1 DEF Truthful, Holders
  <2>6. QED
    BY <2>3, <2>4, <2>5 DEF RwInv
<1>2. CASE AllocFails
  BY <1>2 DEF AllocFails, object, RwInv, RwTypes, Queueing, Counting, Unused, Truthful,
              Holders, Units
<1>3. CASE Free
  <2>1. Holders = {}
    BY <1>3 DEF Free, Idle, Holders
  <2>2. queue = <<>>
    <3> SUFFICES ASSUME queue # <<>> PROVE FALSE
      OBVIOUS
    <3>1. 1 \in DOMAIN queue /\ queue[1] \in Threads \X Modes
      BY EmptySeq DEF RwInv, RwTypes
    <3>2. queue[1] = <<queue[1][1], queue[1][2]>>
      BY <3>1
    <3>3. Waiting(queue[1][1]) /\ queue[1][1] \in Threads
      BY <3>1, <3>2 DEF Waiting
    <3>4. QED
      BY <3>3, <1>3 DEF Free, Idle
  <2>3. Holders' = Holders /\ queue' = queue
    BY <1>3 DEF Free, object, Holders
  <2>4. RwTypes' /\ Queueing' /\ Counting' /\ Truthful'
    BY <1>3, <2>3 DEF Free, object, RwInv, RwTypes, Queueing, Counting, Truthful, Units
  <2>5. Unused'
    BY <2>1, <2>2, <2>3 DEF Unused
  <2>6. QED
    BY <2>4, <2>5 DEF RwInv
<1>4. QED
  BY <1>1, <1>2, <1>3

\* What a thread that takes the object in the mode it is told does to the counts.
LEMMA TakeInv ==
    ASSUME RwInv, NEW t \in Threads, NEW mode \in Modes, held[t] = "none",
           Compatible(mode), Take(mode), Tell(t, mode), UNCHANGED <<misled, library>>
    PROVE  /\ readers' \in Nat /\ writer' \in BOOLEAN
           /\ held' \in [Threads -> Modes \cup {"none"}]
           /\ Counting' /\ Truthful'
<1>1. /\ RwTypes /\ Counting /\ Truthful
      /\ Holders' = Holders \cup {t}
      /\ Cardinality(Holders') = Cardinality(Holders) + 1
      /\ held' \in [Threads -> Modes \cup {"none"}]
      /\ IsFiniteSet(Holders) /\ Cardinality(Holders) \in Nat
  BY HolderJoins, HoldersFinite DEF RwInv
<1>2. readers' \in Nat /\ writer' \in BOOLEAN
  <2>1. readers' \in Nat
    BY <1>1 DEF RwTypes, Take
  <2>2. writer' \in BOOLEAN
    BY <1>1, Zenon DEF RwTypes, Take
  <2>3. QED
    BY <2>1, <2>2
<1>3. Counting'
  <2>1. Units' = Units + 1 /\ Units \in Nat /\ (writer' => readers' = 0)
    BY <1>1 DEF Units, Take, Compatible, RwTypes, Modes
  <2>2. misled' = misled /\ library' = library
    OBVIOUS
  <2>3. QED
    BY <1>1, <2>1, <2>2 DEF Counting
<1>4. Truthful'
  <2> SUFFICES ASSUME ~misled, NEW u \in Threads, held'[u] # "none"
               PROVE  writer' <=> held'[u] = "write"
    BY DEF Truthful
  <2>1. CASE u = t
    BY <2>1, <1>1 DEF Tell, Take, Compatible, RwTypes, Modes
  <2>2. CASE u # t
    <3>1. held'[u] = held[u] /\ u \in Holders
      BY <2>2, <1>1 DEF Tell, RwTypes, Holders
    <3>2. Cardinality(Holders) # 0
      BY <3>1, <1>1, FS_EmptySet
    <3>3. ~writer /\ readers # 0
      BY <3>2, <1>1 DEF Counting, Units, Compatible
    <3>4. mode = "read" /\ writer' = writer
      BY <3>3 DEF Compatible, Take, Modes
    <3>5. QED
      BY <3>1, <3>3, <3>4, <1>1 DEF Truthful, Holders
  <2>3. QED
    BY <2>1, <2>2
<1>5. QED
  BY <1>1, <1>2, <1>3, <1>4

\* A call that need not wait.
LEMMA AcquireInv ==
    ASSUME RwInv, UNCHANGED library, NEW t \in Threads, NEW mode \in Modes, Acquire(t, mode)
    PROVE  RwInv'
<1>1. /\ exists /\ held[t] = "none" /\ ~Waiting(t) /\ Compatible(mode) /\ queue = <<>>
      /\ Take(mode) /\ Tell(t, mode) /\ UNCHANGED <<queue, exists, misled, panicked>>
  BY DEF Acquire, Idle, Available
<1>2. /\ readers' \in Nat /\ writer' \in BOOLEAN
      /\ held' \in [Threads -> Modes \cup {"none"}]
      /\ Counting' /\ Truthful'
  BY <1>1, TakeInv
<1>3. RwTypes'
  BY <1>1, <1>2 DEF RwInv, RwTypes
<1>4. Queueing' /\ Unused'
  BY <1>1 DEF Queueing, Unused
<1>5. QED
  BY <1>2, <1>3, <1>4 DEF RwInv

\* A call that waits.
LEMMA WaitInv ==
    ASSUME RwInv, UNCHANGED library, NEW t \in Threads, NEW mode \in Modes, Wait(t, mode)
    PROVE  RwInv'
<1>1. /\ exists /\ held[t] = "none" /\ ~Waiting(t)
      /\ queue' = Append(queue, <<t, mode>>)
      /\ UNCHANGED <<readers, writer, held, exists, misled, panicked>>
  BY DEF Wait, Idle, Enqueue
<1>2. queue' \in Seq(Threads \X Modes) /\ Queueing'
  BY <1>1, QueueGrows DEF RwInv
<1>3. RwTypes' /\ Counting' /\ Unused' /\ Truthful'
  BY <1>1, <1>2 DEF RwInv, RwTypes, Counting, Unused, Truthful, Holders, Units
<1>4. QED
  BY <1>2, <1>3 DEF RwInv

\* The call that waited first is served.
LEMMA ResumeInv ==
    ASSUME RwInv, UNCHANGED library, NEW t \in Threads, NEW mode \in Modes, Resume(t, mode)
    PROVE  RwInv'
<1>1. /\ queue # <<>> /\ Head(queue) = <<t, mode>> /\ queue' = Tail(queue)
      /\ Compatible(mode) /\ Take(mode) /\ Tell(t, mode)
      /\ UNCHANGED <<exists, misled, panicked>>
  BY DEF Resume, Serve
<1>2. held[t] = "none" /\ queue' \in Seq(Threads \X Modes) /\ Queueing'
  BY <1>1, QueueShrinks DEF RwInv
<1>3. /\ readers' \in Nat /\ writer' \in BOOLEAN
      /\ held' \in [Threads -> Modes \cup {"none"}]
      /\ Counting' /\ Truthful'
  BY <1>1, <1>2, TakeInv
<1>4. RwTypes'
  BY <1>1, <1>2, <1>3 DEF RwInv, RwTypes
<1>5. Unused'
  BY <1>1 DEF RwInv, Unused
<1>6. QED
  BY <1>2, <1>3, <1>4, <1>5 DEF RwInv

\* A conditional call that obtains the object, perhaps in another mode.
LEMMA CondTakesInv ==
    ASSUME RwInv, UNCHANGED library, NEW t \in Threads, NEW mode \in Modes, CondTakes(t, mode)
    PROVE  RwInv'
<1> DEFINE tried == Tried(mode)
<1>1. /\ exists /\ held[t] = "none" /\ tried \in Modes
      /\ Compatible(tried) /\ queue = <<>> /\ Take(tried) /\ Tell(t, mode)
      /\ misled' = (misled \/ tried # mode) /\ UNCHANGED <<queue, exists, panicked>>
  BY DEF CondTakes, Idle, Available, Tried, Modes
<1>2. /\ RwTypes /\ Counting
      /\ Cardinality(Holders') = Cardinality(Holders) + 1
      /\ held' \in [Threads -> Modes \cup {"none"}]
      /\ Cardinality(Holders) \in Nat
  BY <1>1, HolderJoins, HoldersFinite DEF RwInv
<1>3. RwTypes'
  <2>1. readers' \in Nat /\ queue' \in Seq(Threads \X Modes) /\ library' \in Libraries
    BY <1>1, <1>2 DEF RwTypes, Take
  <2>2. writer' \in BOOLEAN /\ {exists, misled, panicked}' \subseteq BOOLEAN
    BY <1>1, <1>2, Zenon DEF RwTypes, Take
  <2>3. QED
    BY <2>1, <2>2, <1>2 DEF RwTypes
<1>4. Counting'
  BY <1>1, <1>2 DEF Counting, Units, Take, Compatible, RwTypes, Modes
<1>5. Queueing' /\ Unused'
  BY <1>1 DEF Queueing, Unused
<1>6. Truthful'
  <2>1. CASE misled'
    BY <2>1 DEF Truthful
  <2>2. CASE ~misled'
    <3>1. tried = mode /\ misled' = misled
      BY <2>2, <1>1, <1>2 DEF RwTypes
    <3>2. QED
      BY <3>1, <1>1, TakeInv
  <2>3. QED
    BY <2>1, <2>2
<1>7. QED
  BY <1>3, <1>4, <1>5, <1>6 DEF RwInv

\* A conditional call of the kext that says it did and did not.
LEMMA CondMissesInv ==
    ASSUME RwInv, UNCHANGED library, NEW t \in Threads, NEW mode \in Modes, CondMisses(t, mode)
    PROVE  RwInv'
<1>1. /\ library = "kext" /\ exists /\ held[t] = "none" /\ ~Waiting(t) /\ Tell(t, mode)
      /\ misled' = TRUE /\ UNCHANGED <<readers, writer, queue, exists, panicked>>
  BY DEF CondMisses, Idle, object
<1>2. /\ Cardinality(Holders') = Cardinality(Holders) + 1
      /\ held' \in [Threads -> Modes \cup {"none"}]
      /\ Cardinality(Holders) \in Nat
  BY <1>1, HolderJoins, HoldersFinite DEF RwInv
<1>3. RwTypes' /\ Unused' /\ Truthful'
  BY <1>1, <1>2 DEF RwInv, RwTypes, Unused, Truthful
<1>4. Counting'
  BY <1>1, <1>2 DEF RwInv, RwTypes, Counting, Units
<1>5. Queueing'
  <2>1. ASSUME NEW i \in DOMAIN queue PROVE queue[i][1] # t /\ queue[i][1] \in Threads
    <3>1. queue[i] \in Threads \X Modes
      BY DEF RwInv, RwTypes
    <3>2. queue[i] = <<queue[i][1], queue[i][2]>> /\ queue[i][2] \in Modes
      BY <3>1
    <3>3. QED
      BY <3>1, <3>2, <1>1 DEF Waiting
  <2>2. QED
    BY <2>1, <1>1 DEF RwInv, RwTypes, Queueing, Tell
<1>6. QED
  BY <1>3, <1>4, <1>5 DEF RwInv

\* A thread gives back what it was told it has.
LEMMA ReleaseInv ==
    ASSUME RwInv, UNCHANGED library, NEW t \in Threads, Release(t) PROVE RwInv'
<1>1. /\ held[t] # "none" /\ Unlock /\ Tell(t, "none")
      /\ UNCHANGED <<queue, exists, misled, panicked>>
  BY DEF Release, Unlock
<1>2. /\ RwTypes /\ Counting /\ Truthful
      /\ Holders' = Holders \ {t}
      /\ Cardinality(Holders') = Cardinality(Holders) - 1
      /\ held' \in [Threads -> Modes \cup {"none"}]
      /\ IsFiniteSet(Holders) /\ Cardinality(Holders) \in Nat /\ t \in Holders
  BY <1>1, HolderLeaves, HoldersFinite DEF RwInv, Holders
<1>3. RwTypes'
  <2>1. readers' \in Nat
    BY <1>1, <1>2 DEF RwTypes, Unlock, Locked
  <2>2. QED
    BY <2>1, <1>1, <1>2 DEF RwTypes, Unlock
<1>4. Counting'
  BY <1>1, <1>2 DEF Counting, Units, Unlock, Locked, RwTypes
<1>5. Unused'
  BY <1>1, <1>2 DEF RwInv, Unused
<1>6. Queueing'
  <2>1. \A i \in DOMAIN queue : queue[i][1] \in Threads
    BY <1>2 DEF RwTypes
  <2>2. QED
    BY <2>1, <1>1 DEF RwInv, RwTypes, Queueing, Tell
<1>7. Truthful'
  <2> SUFFICES ASSUME ~misled, NEW u \in Threads, held'[u] # "none"
               PROVE  writer' <=> held'[u] = "write"
    BY <1>1 DEF Truthful
  <2>1. u # t /\ held'[u] = held[u] /\ u \in Holders'
    BY <1>1, <1>2 DEF Tell, RwTypes, Holders
  <2>2. Cardinality(Holders') # 0
    BY <2>1, <1>2, FS_EmptySet, FS_RemoveElement
  <2>3. ~writer
    BY <2>2, <1>2 DEF Counting, Units
  <2>4. held[u] # "write"
    BY <2>1, <2>3, <1>2 DEF Truthful
  <2>5. QED
    BY <2>1, <2>4, <1>1 DEF Unlock
<1>8. QED
  BY <1>3, <1>4, <1>5, <1>6, <1>7 DEF RwInv

\* Every step of a lock and its threads keeps the invariant.
LEMMA RwNextInv == ASSUME RwInv, RwNext, UNCHANGED library PROVE RwInv'
<1>1. ASSUME NEW t \in Threads, ReleaseFaults(t) PROVE RwInv'
  BY <1>1 DEF ReleaseFaults, object, RwInv, RwTypes, Queueing, Counting, Unused, Truthful,
              Holders, Units
<1>2. ASSUME NEW t \in Threads, RwStep(t) PROVE RwInv'
  BY <1>1, <1>2, AcquireInv, WaitInv, ResumeInv, CondTakesInv, CondMissesInv, ReleaseInv
     DEF RwStep
<1>3. QED
  BY <1>2, AllocInv DEF RwNext

\* Steps of the other services keep it.
LEMMA RwStutterInv == ASSUME RwInv, UNCHANGED <<library, rwVars>> PROVE RwInv'
BY DEF RwInv, RwTypes, Queueing, Counting, Unused, Truthful, Holders, Units, rwVars, object

-----------------------------------------------------------------------------
(* What the invariant implies *)

\* There are no more readers than threads.
LEMMA InvRwTypeOK == RwInv => RwTypeOK
<1> SUFFICES ASSUME RwInv PROVE RwTypeOK
  OBVIOUS
<1>1. RwTypes /\ Queueing /\ Counting
  BY DEF RwInv
<1>2. Cardinality(Holders) <= Cardinality(Threads) /\ Cardinality(Threads) \in Nat
  BY ThreadsAssumption, FS_Subset, FS_CardinalityType DEF Holders
<1>3. readers <= Cardinality(Holders)
  BY <1>1, HoldersFinite DEF RwTypes, Counting, Units
<1>4. readers \in 0 .. Cardinality(Threads)
  BY <1>1, <1>2, <1>3, HoldersFinite DEF RwTypes
<1>5. QED
  BY <1>1, <1>4 DEF RwTypes, Queueing, RwTypeOK

\* Until a thread is misled the object's holders are those that were told.
LEMMA InvHoldersCounted == RwInv => HoldersCounted
BY DEF RwInv, Counting, Units, Holders, HoldersCounted

\* A locked object has a holder, and a holder was told.
LEMMA InvNeverLeftLocked == RwInv => NeverLeftLocked
<1> SUFFICES ASSUME RwInv, \A t \in Threads : held[t] = "none" PROVE ~Locked
  BY DEF NeverLeftLocked
<1>1. Cardinality(Holders) = 0
  BY FS_EmptySet DEF Holders
<1>2. QED
  BY <1>1 DEF RwInv, RwTypes, Counting, Units, Locked

-----------------------------------------------------------------------------
(* The contract *)

\* In a lock about which nobody was misled, what the object finds compatible is
\* compatible with what the threads were told.
LEMMA CompatibleAgrees ==
    ASSUME RwInv, ~misled, NEW t \in Threads, NEW mode \in Modes, Compatible(mode)
    PROVE  Lock!Compatible(t, mode)
<1> SUFFICES ASSUME NEW u \in Threads, held[u] # "none"
             PROVE  mode = "read" /\ held[u] = "read"
  BY DEF Lock!Compatible
<1>1. Cardinality(Holders) # 0
  BY HoldersFinite, FS_EmptySet DEF Holders
<1>2. ~writer /\ readers # 0
  BY <1>1 DEF RwInv, Counting, Units, Compatible
<1>3. held[u] \in Modes /\ held[u] # "write"
  BY <1>2 DEF RwInv, RwTypes, Truthful
<1>4. QED
  BY <1>2, <1>3 DEF Compatible, Modes

\* A thread waits if it is in the queue, and wants the mode it is there with.
LEMMA WantsQueued ==
    ASSUME NEW t \in Threads
    PROVE  /\ Waiting(t) <=> Queued(t, "read") \/ Queued(t, "write")
           /\ Wants(t) = IF Queued(t, "read") THEN "read"
                         ELSE IF Queued(t, "write") THEN "write" ELSE "none"
           /\ Wants(t)' = IF Queued(t, "read")' THEN "read"
                          ELSE IF Queued(t, "write")' THEN "write" ELSE "none"
<1>1. Waiting(t) <=> Queued(t, "read") \/ Queued(t, "write")
  BY DEF Waiting, Queued, Modes
<1>2. Waiting(t)' <=> Queued(t, "read")' \/ Queued(t, "write")'
  BY DEF Waiting, Queued, Modes
<1>3. QED
  BY <1>1, <1>2 DEF Wants, Queued

\* Before anything happened nobody has or wants the lock.
LEMMA LockInitContract == RwInit => Lock!Init
BY DEF RwInit, ObjectInit, Lock!Init, Wants, Waiting

\* A thread that takes the lock at once ...
LEMMA TakeContract ==
    ASSUME RwInv, ~misled, NEW t \in Threads, NEW mode \in Modes, held[t] = "none",
           ~Waiting(t), Compatible(mode), Tell(t, mode), queue' = queue
    PROVE  Lock!Next
<1> DEFINE wants == [u \in Threads |-> Wants(u)]
<1>1. wants' = wants
  BY DEF Wants, Waiting
<1>2. wants[t] = "none"
  BY WantsQueued
<1>3. Lock!Compatible(t, mode)
  BY CompatibleAgrees
<1>4. Lock!Take(t, mode)
  BY <1>1, <1>2, <1>3 DEF Lock!Take, Tell
<1>5. QED
  BY <1>4 DEF Lock!Next, Modes

\* ... one that has to wait ...
LEMMA WaitContract ==
    ASSUME RwInv, NEW t \in Threads, NEW mode \in Modes, Wait(t, mode) PROVE Lock!Next
<1> DEFINE wants == [u \in Threads |-> Wants(u)]
<1>1. /\ held[t] = "none" /\ ~Waiting(t) /\ held' = held
      /\ queue' = Append(queue, <<t, mode>>)
  BY DEF Wait, Idle, Enqueue
<1>2. \A u \in Threads, m \in Modes :
         Queued(u, m)' <=> (Queued(u, m) \/ (u = t /\ m = mode))
  BY <1>1, QueueGrows DEF RwInv
<1>3. ASSUME NEW u \in Threads \ {t} PROVE Wants(u)' = Wants(u)
  BY <1>2, WantsQueued DEF Modes
<1>4. wants[t] = "none" /\ Wants(t)' = mode
  BY <1>1, <1>2, WantsQueued DEF Modes
<1>5. wants' = [wants EXCEPT ![t] = mode]
  BY <1>3, <1>4
<1>6. Lock!Ask(t, mode)
  BY <1>1, <1>4, <1>5 DEF Lock!Ask
<1>7. QED
  BY <1>6 DEF Lock!Next, Modes

\* ... and its turn.
LEMMA ResumeContract ==
    ASSUME RwInv, ~misled, NEW t \in Threads, NEW mode \in Modes, Resume(t, mode)
    PROVE  Lock!Next
<1> DEFINE wants == [u \in Threads |-> Wants(u)]
<1>1. /\ queue # <<>> /\ Head(queue) = <<t, mode>> /\ queue' = Tail(queue)
      /\ Compatible(mode) /\ Tell(t, mode)
  BY DEF Resume, Serve
<1>2. /\ Queued(t, mode) /\ held[t] = "none"
      /\ \A u \in Threads, m \in Modes : Queued(u, m)' <=> (Queued(u, m) /\ u # t)
  BY <1>1, QueueShrinks DEF RwInv
<1>3. ~(Queued(t, "read") /\ Queued(t, "write"))
  <2> SUFFICES ASSUME NEW i \in DOMAIN queue, NEW j \in DOMAIN queue,
                      queue[i] = <<t, "read">>, queue[j] = <<t, "write">>
               PROVE  FALSE
    BY DEF Queued
  <2>1. queue[i][1] = queue[j][1] /\ i # j
    OBVIOUS
  <2>2. QED
    BY <2>1 DEF RwInv, Queueing
<1>4. ASSUME NEW u \in Threads \ {t} PROVE Wants(u)' = Wants(u)
  BY <1>2, WantsQueued DEF Modes
<1>5. wants[t] = mode /\ Wants(t)' = "none"
  BY <1>2, <1>3, WantsQueued DEF Modes
<1>6. wants' = [wants EXCEPT ![t] = "none"]
  BY <1>4, <1>5
<1>7. Lock!Compatible(t, mode)
  BY <1>1, CompatibleAgrees
<1>8. Lock!Grant(t)
  BY <1>1, <1>5, <1>6, <1>7 DEF Lock!Grant, Tell, Modes
<1>9. QED
  BY <1>8 DEF Lock!Next

\* Every step is one of the contract, or leaves held and wants alone, unless a
\* call has misled a thread.
LEMMA LockNextContract ==
    ASSUME RwInv, RwNext \/ UNCHANGED rwVars
    PROVE  misled' \/ Lock!Next \/ UNCHANGED <<held, [t \in Threads |-> Wants(t)]>>
<1> DEFINE wants == [t \in Threads |-> Wants(t)]
<1>1. CASE queue' = queue /\ held' = held
  BY <1>1 DEF Wants, Waiting
<1>2. CASE Alloc
  <2>1. queue' = queue /\ held' = held
    BY <1>2 DEF Alloc, RwInv, Unused
  <2>2. QED
    BY <2>1, <1>1
<1>3. CASE AllocFails \/ Free \/ UNCHANGED rwVars
  BY <1>1, <1>3 DEF AllocFails, Free, rwVars, object
<1>4. ASSUME NEW t \in Threads, NEW mode \in Modes, ~misled',
             Acquire(t, mode) \/ Wait(t, mode) \/ Resume(t, mode)
      PROVE  Lock!Next
  <2>1. misled' = misled
    BY <1>4 DEF Acquire, Wait, Resume
  <2>2. CASE Acquire(t, mode)
    BY <2>1, <2>2, <1>4, TakeContract DEF Acquire, Idle, Available
  <2>3. QED
    BY <2>1, <2>2, <1>4, WaitContract, ResumeContract
<1>5. ASSUME NEW t \in Threads, NEW mode \in Modes, ~misled', CondTakes(t, mode)
      PROVE  Lock!Next
  <2>1. misled \in BOOLEAN
    BY DEF RwInv, RwTypes
  <2>2. ~misled /\ Tried(mode) = mode
    BY <2>1, <1>5 DEF CondTakes
  <2>3. QED
    BY <2>2, <1>5, TakeContract DEF CondTakes, Idle, Available
<1>6. ASSUME NEW t \in Threads, NEW mode \in Modes, CondMisses(t, mode) PROVE misled'
  BY <1>6 DEF CondMisses
<1>7. ASSUME NEW t \in Threads, Release(t) PROVE Lock!Next
  <2>1. wants' = wants
    BY <1>7 DEF Release, Unlock, Wants, Waiting
  <2>2. Lock!Release(t)
    BY <1>7, <2>1 DEF Release, Lock!Release, Tell
  <2>3. QED
    BY <2>2 DEF Lock!Next
<1>8. ASSUME NEW t \in Threads, ReleaseFaults(t) PROVE queue' = queue /\ held' = held
  BY <1>8 DEF ReleaseFaults, object
<1>9. QED
  BY <1>1, <1>2, <1>3, <1>4, <1>5, <1>6, <1>7, <1>8 DEF RwNext, RwStep
=============================================================================
