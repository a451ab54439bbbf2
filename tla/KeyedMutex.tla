------------------------------ MODULE KeyedMutex ------------------------------
(***************************************************************************)
(* What ModelService.train relies on: a mutex per series.  A thread asks   *)
(* for a series, enters when no other thread is inside that series, and    *)
(* leaves.  Series do not affect each other.  ModelStore is written over   *)
(* this mutex (its variable lock); LockManager implements it.              *)
(***************************************************************************)
CONSTANTS
  Threads,  \* worker threads
  Series,   \* series identifiers
  Nobody    \* no thread, or no series

VARIABLES
  asked,  \* thread -> the series it waits for or is inside, or Nobody
  owner   \* series -> the thread inside, or Nobody

kvars == <<asked, owner>>

KInit ==
  /\ asked = [t \in Threads |-> Nobody]
  /\ owner = [s \in Series |-> Nobody]

Ask(t) ==
  /\ asked[t] = Nobody
  /\ \E s \in Series : asked' = [asked EXCEPT ![t] = s]
  /\ UNCHANGED owner

Enter(t) ==
  /\ asked[t] # Nobody
  /\ owner[asked[t]] = Nobody
  /\ owner' = [owner EXCEPT ![asked[t]] = t]
  /\ UNCHANGED asked

Leave(t) ==
  /\ asked[t] # Nobody
  /\ owner[asked[t]] = t
  /\ owner' = [owner EXCEPT ![asked[t]] = Nobody]
  /\ asked' = [asked EXCEPT ![t] = Nobody]

KNext == \E t \in Threads : Ask(t) \/ Enter(t) \/ Leave(t)

KSpec == KInit /\ [][KNext]_kvars
=============================================================================
