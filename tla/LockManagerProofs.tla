-------------------------- MODULE LockManagerProofs --------------------------
(***************************************************************************)
(* Proofs about LockManager, for any number of threads, series and lock    *)
(* objects: the dictionary of locks and the `with` block of train give     *)
(* each series a mutex of its own.                                         *)
(***************************************************************************)
EXTENDS LockManager, TLAPS

\* No thread has called, and there are no locks.
LEMMA InitLock == Init => LockInv
  BY MarksAssumption
  DEF Init, LockInv, TypeOK, Keyed, Knows, Points, InMeta, InHand

\* Every action keeps the types; inside the meta lock a series is wanted.
LEMMA TypeStep ==
  ASSUME LockInv, NEW t \in Threads, Call(t) \/ Step(t)
  PROVE  TypeOK'
  <1>1. /\ TypeOK
        /\ pc[t] \in {"lookup", "insert"} => want[t] \in Series
    BY DEF LockInv, Knows
  <1>2. \A from, to : to \in Points /\ Goto(t, from, to) =>
          pc' \in [Threads -> Points]
    BY <1>1 DEF TypeOK, Goto
  <1>3. {"enterMeta", "lookup", "create", "insert", "exitMeta", "acquire",
         "inside", "idle"} \subseteq Points
    BY DEF Points
  <1>4. CASE Call(t)
    BY <1>1, <1>2, <1>3, <1>4 DEF Call, TypeOK
  <1>5. CASE EnterMeta(t)
    BY <1>1, <1>2, <1>3, <1>5 DEF EnterMeta, TypeOK
  <1>6. CASE Lookup(t)
    <2>1. pc[t] = "lookup"
      BY <1>6 DEF Lookup
    <2>2. locks[want[t]] \in LockIds \cup {NoLock}
      BY <1>1, <2>1 DEF TypeOK
    <2>3. obj' \in [Threads -> LockIds \cup {NoLock}]
      BY <1>1, <1>6, <2>2 DEF Lookup, TypeOK
    <2> QED
      BY <1>1, <1>2, <1>3, <1>6, <2>3 DEF Lookup, TypeOK
  <1>7. CASE Create(t)
    BY <1>1, <1>2, <1>3, <1>7 DEF Create, TypeOK
  <1>8. CASE Insert(t)
    BY <1>1, <1>2, <1>3, <1>8 DEF Insert, TypeOK, Goto
  <1>9. CASE ExitMeta(t)
    BY <1>1, <1>2, <1>3, <1>9 DEF ExitMeta, TypeOK
  <1>10. CASE Acquire(t)
    BY <1>1, <1>2, <1>3, <1>10 DEF Acquire, TypeOK
  <1>11. CASE Exit(t)
    BY <1>1, <1>2, <1>3, <1>11 DEF Exit, TypeOK
  <1> QED
    BY <1>4, <1>5, <1>6, <1>7, <1>8, <1>9, <1>10, <1>11 DEF Step

\* A call announces the series it wants.
LEMMA CallLock ==
  ASSUME LockInv, NEW t \in Threads, Call(t)
  PROVE  LockInv'
  <1>1. TypeOK /\ Keyed /\ Knows(t) /\ TypeOK'
    BY TypeStep DEF LockInv
  <1>2. Keyed'
    BY <1>1 DEF Call, Goto, TypeOK, Keyed, Knows, InMeta, InHand
  <1>3. Knows(t)'
    BY <1>1, MarksAssumption DEF Call, Goto, TypeOK, Keyed, Knows, InMeta, InHand
  <1>4. ASSUME NEW u \in Threads \ {t}
        PROVE  Knows(u)'
    <2>1. Knows(u)
      BY DEF LockInv
    <2> QED
      BY <1>1, <2>1, MarksAssumption DEF Call, Goto, TypeOK, Keyed, Knows, InMeta, InHand
  <1> QED
    BY <1>1, <1>2, <1>3, <1>4 DEF LockInv

\* Entering the meta lock: no other thread is inside.
LEMMA EnterMetaLock ==
  ASSUME LockInv, NEW t \in Threads, EnterMeta(t)
  PROVE  LockInv'
  <1>1. TypeOK /\ Keyed /\ Knows(t) /\ TypeOK'
    BY TypeStep DEF LockInv, Step
  <1>2. Keyed'
    BY <1>1 DEF EnterMeta, Goto, TypeOK, Keyed, Knows, InMeta, InHand
  <1>3. Knows(t)'
    BY <1>1, MarksAssumption DEF EnterMeta, Goto, TypeOK, Keyed, Knows, InMeta, InHand
  <1>4. ASSUME NEW u \in Threads \ {t}
        PROVE  Knows(u)'
    <2>1. Knows(u)
      BY DEF LockInv
    <2> QED
      BY <1>1, <2>1, MarksAssumption DEF EnterMeta, Goto, TypeOK, Keyed, Knows, InMeta, InHand
  <1> QED
    BY <1>1, <1>2, <1>3, <1>4 DEF LockInv

\* A hit is the lock of the series; a miss leaves the series without one.
LEMMA LookupLock ==
  ASSUME LockInv, NEW t \in Threads, Lookup(t)
  PROVE  LockInv'
  <1>1. TypeOK /\ Keyed /\ Knows(t) /\ TypeOK'
    BY TypeStep DEF LockInv, Step
  <1>2. Keyed'
    BY <1>1 DEF Lookup, Goto, TypeOK, Keyed, Knows, InMeta, InHand
  <1>3. Knows(t)'
    BY <1>1, MarksAssumption DEF Lookup, Goto, TypeOK, Keyed, Knows, InMeta, InHand
  <1>4. ASSUME NEW u \in Threads \ {t}
        PROVE  Knows(u)'
    <2>1. Knows(u)
      BY DEF LockInv
    <2> QED
      BY <1>1, <2>1, MarksAssumption DEF Lookup, Goto, TypeOK, Keyed, Knows, InMeta, InHand
  <1> QED
    BY <1>1, <1>2, <1>3, <1>4 DEF LockInv

\* A created lock is known to its creator only.
LEMMA CreateLock ==
  ASSUME LockInv, NEW t \in Threads, Create(t)
  PROVE  LockInv'
  <1>1. TypeOK /\ Keyed /\ Knows(t) /\ TypeOK'
    BY TypeStep DEF LockInv, Step
  <1>2. Keyed'
    BY <1>1 DEF Create, Goto, TypeOK, Keyed, Knows, InMeta, InHand
  <1>3. Knows(t)'
    BY <1>1, MarksAssumption DEF Create, Goto, TypeOK, Keyed, Knows, InMeta, InHand
  <1>4. ASSUME NEW u \in Threads \ {t}
        PROVE  Knows(u)'
    <2>1. Knows(u)
      BY DEF LockInv
    <2> QED
      BY <1>1, <2>1, MarksAssumption DEF Create, Goto, TypeOK, Keyed, Knows, InMeta, InHand
  <1> QED
    BY <1>1, <1>2, <1>3, <1>4 DEF LockInv

\* A lock enters the dictionary where there was none, and no other thread is
\* about to put one there.
LEMMA InsertLock ==
  ASSUME LockInv, NEW t \in Threads, Insert(t)
  PROVE  LockInv'
  <1>1. TypeOK /\ Keyed /\ Knows(t) /\ TypeOK'
    BY TypeStep DEF LockInv, Step
  <1>2. Keyed'
    BY <1>1 DEF Insert, Goto, TypeOK, Keyed, Knows, InMeta, InHand
  <1>3. Knows(t)'
    BY <1>1, MarksAssumption DEF Insert, Goto, TypeOK, Keyed, Knows, InMeta, InHand
  <1>4. ASSUME NEW u \in Threads \ {t}
        PROVE  Knows(u)'
    <2>1. Knows(u)
      BY DEF LockInv
    <2> QED
      BY <1>1, <2>1, MarksAssumption DEF Insert, Goto, TypeOK, Keyed, Knows, InMeta, InHand
  <1> QED
    BY <1>1, <1>2, <1>3, <1>4 DEF LockInv

\* Leaving the meta lock with the lock of the series in hand.
LEMMA ExitMetaLock ==
  ASSUME LockInv, NEW t \in Threads, ExitMeta(t)
  PROVE  LockInv'
  <1>1. TypeOK /\ Keyed /\ Knows(t) /\ TypeOK'
    BY TypeStep DEF LockInv, Step
  <1>2. Keyed'
    BY <1>1 DEF ExitMeta, Goto, TypeOK, Keyed, Knows, InMeta, InHand
  <1>3. Knows(t)'
    BY <1>1, MarksAssumption DEF ExitMeta, Goto, TypeOK, Keyed, Knows, InMeta, InHand
  <1>4. ASSUME NEW u \in Threads \ {t}
        PROVE  Knows(u)'
    <2>1. Knows(u)
      BY DEF LockInv
    <2> QED
      BY <1>1, <2>1, MarksAssumption DEF ExitMeta, Goto, TypeOK, Keyed, Knows, InMeta, InHand
  <1> QED
    BY <1>1, <1>2, <1>3, <1>4 DEF LockInv

\* The lock acquired was free.
LEMMA AcquireLock ==
  ASSUME LockInv, NEW t \in Threads, Acquire(t)
  PROVE  LockInv'
  <1>1. TypeOK /\ Keyed /\ Knows(t) /\ TypeOK'
    BY TypeStep DEF LockInv, Step
  <1>2. Keyed'
    BY <1>1 DEF Acquire, Goto, TypeOK, Keyed, Knows, InMeta, InHand
  <1>3. Knows(t)'
    BY <1>1, MarksAssumption DEF Acquire, Goto, TypeOK, Keyed, Knows, InMeta, InHand
  <1>4. ASSUME NEW u \in Threads \ {t}
        PROVE  Knows(u)'
    <2>1. Knows(u)
      BY DEF LockInv
    <2> QED
      BY <1>1, <2>1, MarksAssumption DEF Acquire, Goto, TypeOK, Keyed, Knows, InMeta, InHand
  <1> QED
    BY <1>1, <1>2, <1>3, <1>4 DEF LockInv

\* The lock released was held by this thread.
LEMMA ExitLock ==
  ASSUME LockInv, NEW t \in Threads, Exit(t)
  PROVE  LockInv'
  <1>1. TypeOK /\ Keyed /\ Knows(t) /\ TypeOK'
    BY TypeStep DEF LockInv, Step
  <1>2. Keyed'
    BY <1>1 DEF Exit, Goto, TypeOK, Keyed, Knows, InMeta, InHand
  <1>3. Knows(t)'
    BY <1>1, MarksAssumption DEF Exit, Goto, TypeOK, Keyed, Knows, InMeta, InHand
  <1>4. ASSUME NEW u \in Threads \ {t}
        PROVE  Knows(u)'
    <2>1. Knows(u)
      BY DEF LockInv
    <2> QED
      BY <1>1, <2>1, MarksAssumption DEF Exit, Goto, TypeOK, Keyed, Knows, InMeta, InHand
  <1> QED
    BY <1>1, <1>2, <1>3, <1>4 DEF LockInv

\* LockInv is inductive.
LEMMA NextLock == LockInv /\ [Next]_vars => LockInv'
  <1> SUFFICES ASSUME LockInv, [Next]_vars PROVE LockInv'
    OBVIOUS
  <1>1. CASE UNCHANGED vars
    BY <1>1 DEF vars, LockInv, TypeOK, Keyed, Knows
  <1>2. CASE \E t \in Threads : Call(t) \/ Step(t)
    BY <1>2, CallLock, EnterMetaLock, LookupLock, CreateLock, InsertLock,
       ExitMetaLock, AcquireLock, ExitLock DEF Step
  <1> QED
    BY <1>1, <1>2 DEF Next

\* LockInv holds in every state the lock manager can reach.
THEOREM LockInvariant == Spec => []LockInv
  <1>1. Init => LockInv
    BY InitLock
  <1>2. LockInv /\ [Next]_vars => LockInv'
    BY NextLock
  <1> QED
    BY <1>1, <1>2, PTL DEF Spec

\* Two threads inside hold the lock of their series: they are one thread.
LEMMA OneInside == LockInv => MutualExclusion
  BY MarksAssumption
  DEF LockInv, MutualExclusion, Keyed, Knows, TypeOK, InHand

\* Fits of one series never train and save at the same time, also when both
\* were the first to ask for the lock of the series (get_lock, train).
THEOREM ManagerExcludes == Spec => []MutualExclusion
  BY OneInside, LockInvariant, PTL

\* A fit waits for fits of its own series only (get_lock).
THEOREM ManagerSeparates == Spec => []NoCrossBlocking
  <1>1. LockInv => NoCrossBlocking
    BY MarksAssumption
    DEF LockInv, NoCrossBlocking, Keyed, Knows, TypeOK, InHand
  <1> QED
    BY <1>1, LockInvariant, PTL

\* The lock of a series never changes once it is in the dictionary.
THEOREM ManagerIsStable == Spec => StableLock
  <1>1. ASSUME LockInv, [Next]_vars, NEW s \in Series, locks[s] # NoLock
        PROVE  locks'[s] = locks[s]
    <2>1. CASE \E t \in Threads : Insert(t)
      <3>1. PICK t \in Threads : Insert(t)
        BY <2>1
      <3>2. pc[t] = "insert" /\ locks' = [locks EXCEPT ![want[t]] = obj[t]]
        BY <3>1 DEF Insert, Goto
      <3>3. locks[want[t]] = NoLock
        <4>1. Knows(t)
          BY <1>1, <3>1 DEF LockInv
        <4> QED
          BY <3>2, <4>1 DEF Knows
      <3> QED
        BY <1>1, <3>1, <3>2, <3>3 DEF LockInv, TypeOK
    <2>2. CASE ~\E t \in Threads : Insert(t)
      BY <1>1, <2>2 DEF Next, Step, Call, EnterMeta, Lookup, Create, ExitMeta,
                        Acquire, Exit, vars
    <2> QED
      BY <2>1, <2>2
  <1>2. LockInv /\ [Next]_vars =>
          [\A s \in Series : locks[s] # NoLock => locks'[s] = locks[s]]_vars
    BY <1>1
  <1> QED
    BY <1>2, LockInvariant, PTL DEF Spec, StableLock

-----------------------------------------------------------------------------
(* The lock manager implements a mutex per series *)

\* The threads inside a series.
Inside(s) == {t \in Threads : pc[t] = "inside" /\ want[t] = s}

\* A step that leaves a series to the threads inside it leaves its owner alone.
LEMMA OwnerKept ==
  ASSUME NEW s \in Series,
         \A t \in Threads : pc'[t] = "inside" /\ want'[t] = s
                          <=> pc[t] = "inside" /\ want[t] = s
  PROVE  absOwner'[s] = absOwner[s]
  <1>1. (CHOOSE t \in Threads : pc'[t] = "inside" /\ want'[t] = s) =
        (CHOOSE t \in Threads : pc[t] = "inside" /\ want[t] = s)
    OBVIOUS
  <1> QED
    BY <1>1 DEF absOwner

\* A thread that is alone inside a series owns it.
LEMMA AloneOwns ==
  ASSUME MutualExclusion, NEW t \in Threads, pc[t] = "inside", want[t] \in Series
  PROVE  absOwner[want[t]] = t
  <1>1. (CHOOSE u \in Threads : pc[u] = "inside" /\ want[u] = want[t]) = t
    BY DEF MutualExclusion
  <1> QED
    BY <1>1 DEF absOwner

\* Call, Acquire and Exit are the steps of the mutex; the others leave it alone.
LEMMA MutexStep ==
  ASSUME LockInv, LockInv', [Next]_vars
  PROVE  [Mutex!KNext]_(Mutex!kvars)
  <1> USE DEF Mutex!kvars
  <1>1. /\ TypeOK /\ TypeOK'
        /\ \A t \in Threads : Knows(t)
        /\ MutualExclusion
        /\ MutualExclusion'
    BY OneInside, PTL DEF LockInv
  <1>2. absAsked = want /\ absAsked' = want'
    BY <1>1 DEF absAsked, TypeOK
  <1>3. ASSUME want' = want,
               \A t \in Threads : pc'[t] = "inside" <=> pc[t] = "inside"
        PROVE  UNCHANGED Mutex!kvars
    <2>1. \A s \in Series : absOwner'[s] = absOwner[s]
      BY <1>3, OwnerKept
    <2> QED
      BY <1>2, <1>3, <2>1 DEF absOwner
  <1>4. CASE UNCHANGED vars
    BY <1>3, <1>4 DEF vars
  <1>5. ASSUME NEW t \in Threads,
               EnterMeta(t) \/ Lookup(t) \/ Create(t) \/ Insert(t) \/ ExitMeta(t)
        PROVE  UNCHANGED Mutex!kvars
    <2>1. want' = want
      BY <1>5 DEF EnterMeta, Lookup, Create, Insert, ExitMeta
    <2>2. \A u \in Threads : pc'[u] = "inside" <=> pc[u] = "inside"
      BY <1>1, <1>5
      DEF EnterMeta, Lookup, Create, Insert, ExitMeta, Goto, TypeOK
    <2> QED
      BY <1>3, <2>1, <2>2
  <1>6. ASSUME NEW t \in Threads, Call(t)
        PROVE  Mutex!Ask(t)
    <2>1. \A u \in Threads : /\ pc'[u] = "inside" <=> pc[u] = "inside"
                             /\ pc[u] = "inside" => want'[u] = want[u]
      BY <1>1, <1>6 DEF Call, Goto, TypeOK
    <2>2. \A s \in Series : absOwner'[s] = absOwner[s]
      BY <2>1, OwnerKept
    <2>3. want[t] = Nobody
      BY <1>1, <1>6 DEF Call, Goto, Knows
    <2> QED
      BY <1>2, <1>6, <2>2, <2>3 DEF Call, Mutex!Ask, absOwner
  <1>7. ASSUME NEW t \in Threads, Acquire(t)
        PROVE  Mutex!Enter(t)
    <2> DEFINE s == want[t]
    <2>1. /\ pc[t] = "acquire" /\ holder[obj[t]] = Nobody /\ s \in Series
          /\ obj[t] = locks[s] /\ obj[t] \in LockIds
      BY <1>1, <1>7 DEF Acquire, Goto, Knows, InHand
    <2>2. /\ want' = want
          /\ pc'[t] = "inside"
          /\ \A u \in Threads \ {t} : pc'[u] = pc[u]
      BY <1>1, <1>7 DEF Acquire, Goto, TypeOK
    <2>3. \A u \in Threads : ~(pc[u] = "inside" /\ want[u] = s)
      <3> SUFFICES ASSUME NEW u \in Threads, pc[u] = "inside", want[u] = s
                   PROVE  FALSE
        OBVIOUS
      <3>1. Knows(u)
        BY <1>1
      <3>2. obj[u] = obj[t]
        BY <2>1, <3>1 DEF Knows, InHand
      <3>3. holder[obj[t]] = u
        BY <2>1, <3>1, <3>2 DEF Knows
      <3> QED
        BY <2>1, <3>3, MarksAssumption
    <2>4. absOwner[s] = Nobody
      BY <2>1, <2>3 DEF absOwner
    <2>5. absOwner'[s] = t
      <3>1. (CHOOSE u \in Threads : pc'[u] = "inside" /\ want'[u] = s) = t
        BY <2>2, <2>3
      <3> QED
        BY <2>1, <2>2, <3>1 DEF absOwner
    <2>6. \A z \in Series \ {s} : absOwner'[z] = absOwner[z]
      BY <2>2, OwnerKept
    <2>7. absOwner' = [absOwner EXCEPT ![s] = t]
      <3>1. \A z \in Series : absOwner'[z] = [absOwner EXCEPT ![s] = t][z]
        BY <2>1, <2>5, <2>6 DEF absOwner
      <3> QED
        BY <3>1 DEF absOwner
    <2>8. want[t] # Nobody
      BY <2>1, MarksAssumption
    <2> QED
      BY <1>2, <2>2, <2>4, <2>7, <2>8 DEF Mutex!Enter
  <1>8. ASSUME NEW t \in Threads, Exit(t)
        PROVE  Mutex!Leave(t)
    <2> DEFINE s == want[t]
    <2>1. pc[t] = "inside" /\ s \in Series
      BY <1>1, <1>8 DEF Exit, Goto, Knows
    <2>2. /\ want' = [want EXCEPT ![t] = Nobody]
          /\ pc'[t] = "idle"
          /\ \A u \in Threads \ {t} : pc'[u] = pc[u] /\ want'[u] = want[u]
      BY <1>1, <1>8 DEF Exit, Goto, TypeOK
    <2>3. absOwner[s] = t
      BY <1>1, <2>1, AloneOwns
    <2>4. absOwner'[s] = Nobody
      <3>1. \A u \in Threads : ~(pc'[u] = "inside" /\ want'[u] = s)
        BY <1>1, <2>1, <2>2 DEF MutualExclusion
      <3> QED
        BY <2>1, <3>1 DEF absOwner
    <2>5. \A z \in Series \ {s} : absOwner'[z] = absOwner[z]
      BY <2>1, <2>2, OwnerKept
    <2>6. absOwner' = [absOwner EXCEPT ![s] = Nobody]
      <3>1. \A z \in Series : absOwner'[z] = [absOwner EXCEPT ![s] = Nobody][z]
        BY <2>1, <2>4, <2>5 DEF absOwner
      <3> QED
        BY <3>1 DEF absOwner
    <2>7. want[t] # Nobody
      BY <2>1, MarksAssumption
    <2> QED
      BY <1>2, <2>2, <2>3, <2>6, <2>7 DEF Mutex!Leave
  <1> QED
    BY <1>4, <1>5, <1>6, <1>7, <1>8 DEF Next, Step, Mutex!KNext

\* Initially no thread asks for a series, and no series is owned.
LEMMA MutexInit == Init => Mutex!KInit
  BY DEF Init, Mutex!KInit, absAsked, absOwner

\* get_lock and the with block of train are, to the fits, a mutex per series:
\* what ModelStore takes for granted of its variable lock.
THEOREM ManagerImplementsMutex == Spec => ImplementsMutex
  <1>1. Init => Mutex!KInit
    BY MutexInit
  <1>2. LockInv /\ LockInv' /\ [Next]_vars => [Mutex!KNext]_(Mutex!kvars)
    BY MutexStep
  <1> QED
    BY <1>1, <1>2, LockInvariant, PTL DEF Spec, ImplementsMutex, Mutex!KSpec
=============================================================================
