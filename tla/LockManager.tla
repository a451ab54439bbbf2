----------------------------- MODULE LockManager -----------------------------
(***************************************************************************)
(* app/utils/concurrency.py: a dictionary of locks, one per series_id,     *)
(* created on first use, and the `with lock_ctx` block of                  *)
(* ModelService.train that uses it.                                        *)
(*                                                                         *)
(* The dictionary is a defaultdict: a lookup that misses creates a lock    *)
(* and then stores it, in steps of their own.  The meta lock makes the     *)
(* three one.  Entries are never removed.                                  *)
(***************************************************************************)
EXTENDS Naturals

CONSTANTS
  Threads,  \* worker threads that run train
  Series,   \* series identifiers
  LockIds,  \* identities of threading.Lock objects (bounds their number)
  Nobody,   \* no thread, or no series
  NoLock    \* no entry in the dictionary

ASSUME MarksAssumption ==
  /\ Nobody \notin Threads
  /\ Nobody \notin Series
  /\ NoLock \notin LockIds

VARIABLES
  locks,       \* LockManager._locks: series -> lock object, or NoLock
  metaHolder,  \* the thread that holds _meta_lock
  made,        \* the lock objects created so far
  holder,      \* lock object -> the thread that holds it
  pc,          \* thread -> its next step
  want,        \* thread -> the series_id of its call
  obj          \* thread -> the lock object its get_lock has in hand

vars == <<locks, metaHolder, made, holder, pc, want, obj>>

Points == {"idle", "enterMeta", "lookup", "create", "insert", "exitMeta",
           "acquire", "inside"}

Init ==
  /\ locks = [s \in Series |-> NoLock]
  /\ metaHolder = Nobody
  /\ made = {}
  /\ holder = [l \in LockIds |-> Nobody]
  /\ pc = [t \in Threads |-> "idle"]
  /\ want = [t \in Threads |-> Nobody]
  /\ obj = [t \in Threads |-> NoLock]

Goto(t, from, to) == pc[t] = from /\ pc' = [pc EXCEPT ![t] = to]

-----------------------------------------------------------------------------
(* Bugs this code could have.  They are no part of the specification: each *)
(* stands in for the definition its comment names, to see that a property  *)
(* would notice.                                                           *)

\* EnterMeta, without the meta lock.
EnterUnguarded(t) ==
  /\ Goto(t, "enterMeta", "lookup")
  /\ metaHolder' = t
  /\ UNCHANGED <<locks, made, holder, want, obj>>

\* Lookup, that creates a lock even for a known series.
LookupAlwaysMisses(t) ==
  /\ Goto(t, "lookup", "create")
  /\ UNCHANGED <<locks, metaHolder, made, holder, want, obj>>

\* Lookup, that hands out whatever lock there is.
LookupShared(t) ==
  /\ pc[t] = "lookup"
  /\ \/ \E s \in Series :
           /\ locks[s] # NoLock
           /\ Goto(t, "lookup", "exitMeta")
           /\ obj' = [obj EXCEPT ![t] = locks[s]]
     \/ /\ \A s \in Series : locks[s] = NoLock
        /\ Goto(t, "lookup", "create")
        /\ UNCHANGED obj
  /\ UNCHANGED <<locks, metaHolder, made, holder, want>>

\* Exit, without a release.
ExitHolding(t) ==
  /\ Goto(t, "inside", "idle")
  /\ want' = [want EXCEPT ![t] = Nobody]
  /\ obj' = [obj EXCEPT ![t] = NoLock]
  /\ UNCHANGED <<locks, metaHolder, made, holder>>

-----------------------------------------------------------------------------
(* get_lock *)

Call(t) ==
  /\ Goto(t, "idle", "enterMeta")
  /\ \E s \in Series : want' = [want EXCEPT ![t] = s]
  /\ UNCHANGED <<locks, metaHolder, made, holder, obj>>

EnterMeta(t) ==
  /\ Goto(t, "enterMeta", "lookup")
  /\ metaHolder = Nobody
  /\ metaHolder' = t
  /\ UNCHANGED <<locks, made, holder, want, obj>>

Lookup(t) ==
  /\ pc[t] = "lookup"
  /\ \/ /\ locks[want[t]] # NoLock
        /\ Goto(t, "lookup", "exitMeta")
        /\ obj' = [obj EXCEPT ![t] = locks[want[t]]]
     \/ /\ locks[want[t]] = NoLock
        /\ Goto(t, "lookup", "create")
        /\ UNCHANGED obj
  /\ UNCHANGED <<locks, metaHolder, made, holder, want>>

\* defaultdict.__missing__ calls threading.Lock ...
Create(t) ==
  /\ Goto(t, "create", "insert")
  /\ \E l \in LockIds \ made :
       /\ made' = made \cup {l}
       /\ obj' = [obj EXCEPT ![t] = l]
  /\ UNCHANGED <<locks, metaHolder, holder, want>>

\* ... stores the new lock under the key, and returns it.
Insert(t) ==
  /\ Goto(t, "insert", "exitMeta")
  /\ locks' = [locks EXCEPT ![want[t]] = obj[t]]
  /\ UNCHANGED <<metaHolder, made, holder, want, obj>>

ExitMeta(t) ==
  /\ Goto(t, "exitMeta", "acquire")
  /\ metaHolder' = Nobody
  /\ UNCHANGED <<locks, made, holder, want, obj>>

-----------------------------------------------------------------------------
(* The `with lock_ctx` block of train *)

Acquire(t) ==
  /\ Goto(t, "acquire", "inside")
  /\ holder[obj[t]] = Nobody
  /\ holder' = [holder EXCEPT ![obj[t]] = t]
  /\ UNCHANGED <<locks, metaHolder, made, want, obj>>

\* Normal exit and exit by an exception are alike.
Exit(t) ==
  /\ Goto(t, "inside", "idle")
  /\ holder' = [holder EXCEPT ![obj[t]] = Nobody]
  /\ want' = [want EXCEPT ![t] = Nobody]
  /\ obj' = [obj EXCEPT ![t] = NoLock]
  /\ UNCHANGED <<locks, metaHolder, made>>

\* What a thread does once it has called.
Step(t) ==
  \/ EnterMeta(t) \/ Lookup(t) \/ Create(t) \/ Insert(t) \/ ExitMeta(t)
  \/ Acquire(t) \/ Exit(t)

Next == \E t \in Threads : Call(t) \/ Step(t)

Spec == Init /\ [][Next]_vars

\* Threads are scheduled; threading.Lock promises no order among waiters, so
\* no strong fairness is assumed of EnterMeta and Acquire.
FairSpec == Spec /\ \A t \in Threads : WF_vars(Step(t))

-----------------------------------------------------------------------------
(* Properties *)

\* Type invariant.
TypeOK ==
  /\ locks \in [Series -> LockIds \cup {NoLock}]
  /\ metaHolder \in Threads \cup {Nobody}
  /\ made \in SUBSET LockIds
  /\ holder \in [LockIds -> Threads \cup {Nobody}]
  /\ pc \in [Threads -> Points]
  /\ want \in [Threads -> Series \cup {Nobody}]
  /\ obj \in [Threads -> LockIds \cup {NoLock}]

\* Two fits of one series are never inside their critical sections together,
\* even when both were the first to ask for the lock of that series.
MutualExclusion ==
  \A t, u \in Threads :
    pc[t] = "inside" /\ pc[u] = "inside" /\ want[t] = want[u] => t = u

\* "Training of different series is fully parallel": the thread in the way of
\* a fit that waits for its lock is a fit of the same series.
NoCrossBlocking ==
  \A t, u \in Threads :
    pc[t] = "acquire" /\ holder[obj[t]] = u => want[u] = want[t]

\* The lock of a series, once created, is its lock for the life of the
\* process: a slow first caller never replaces the lock another one got.
StableLock ==
  [][\A s \in Series : locks[s] # NoLock => locks'[s] = locks[s]]_vars

\* The threads that have the lock of a series in hand: waiting or inside.
Pending(s) == {t \in Threads : want[t] = s /\ pc[t] \in {"acquire", "inside"}}

\* A lock is never lost: as long as fits of a series are waiting, one of them
\* gets in sooner or later (which one, threading.Lock does not promise).
SeriesProgress ==
  \A s \in Series :
    (Pending(s) # {}) ~> (\E t \in Pending(s) : pc[t] = "inside")

-----------------------------------------------------------------------------
(* The inductive invariant behind the safety properties *)

\* The points inside the meta lock, and those at which a thread has the lock
\* of its series in hand.
InMeta == {"lookup", "create", "insert", "exitMeta"}
InHand == {"exitMeta", "acquire", "inside"}

\* The dictionary maps different series to different locks it created.
Keyed ==
  \A s, z \in Series :
    locks[s] # NoLock => locks[s] \in made /\ (locks[s] = locks[z] => s = z)

\* What a thread knows at its point: inside the meta lock it is alone, a lock
\* it has created is no one else's, and a lock in hand is that of its series.
Knows(t) ==
  /\ pc[t] \in InMeta <=> metaHolder = t
  /\ IF pc[t] = "idle" THEN want[t] = Nobody ELSE want[t] \in Series
  /\ pc[t] \in {"create", "insert"} => locks[want[t]] = NoLock
  /\ pc[t] = "insert" =>
       /\ obj[t] \in made
       /\ \A s \in Series : locks[s] # obj[t]
  /\ pc[t] \in InHand => obj[t] = locks[want[t]] /\ obj[t] \in LockIds
  /\ \A l \in LockIds : holder[l] = t <=> pc[t] = "inside" /\ obj[t] = l

\* TypeOK with all of the above.
LockInv == TypeOK /\ Keyed /\ \A t \in Threads : Knows(t)

-----------------------------------------------------------------------------
(* Refinement: the thread inside a series owns its mutex. *)

absAsked == [t \in Threads |-> want[t]]

absOwner ==
  [s \in Series |->
     IF \E t \in Threads : pc[t] = "inside" /\ want[t] = s
     THEN CHOOSE t \in Threads : pc[t] = "inside" /\ want[t] = s
     ELSE Nobody]

Mutex == INSTANCE KeyedMutex WITH asked <- absAsked, owner <- absOwner

\* The lock manager and the with block implement a mutex per series.
ImplementsMutex == Mutex!KSpec
=============================================================================
