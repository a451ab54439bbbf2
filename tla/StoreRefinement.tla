--------------------------- MODULE StoreRefinement ---------------------------
(***************************************************************************)
(* ModelStore implements ModelRegistry.  The lineage of a namespace is the *)
(* content of the model files its index.json publishes: the commit point   *)
(* of a fit is the os.replace of the index, and nothing written before it  *)
(* can be seen in the abstract state.                                      *)
(*                                                                         *)
(* Outside the promise are the requests the service refuses, and the reads *)
(* of a version that is not published when the read is submitted: such a   *)
(* read may meet a version directory that a fit is still filling.          *)
(***************************************************************************)
EXTENDS ModelStore

CONSTANT NotBegun

\* The requests ModelRegistry speaks about.
Covered(r) ==
  /\ pc[r] # "idle"
  /\ NS(r) \in Namespaces
  /\ req[r].want <= floor[r]

absWish ==
  [r \in Requests |->
     IF Covered(r)
     THEN [kind |-> IF req[r].op = "fit" THEN "fit" ELSE "read",
           space |-> NS(r), want |-> req[r].want, since |-> floor[r]]
     ELSE NotBegun]

absLineage ==
  [n \in Namespaces |-> [v \in 1 .. index[n].latest |-> model[n][v]]]

\* A fit answers with its own training, a read with what it was read from.
absServed ==
  [r \in Requests |->
     IF Covered(r) /\ status[r] = 200
     THEN {[version |-> ver[r],
            fits |-> IF req[r].op = "fit" THEN {r} ELSE prov[r]]}
     ELSE {}]

Registry ==
  INSTANCE ModelRegistry WITH
    Clients <- Requests, Spaces <- Namespaces,
    lineage <- absLineage, wish <- absWish, served <- absServed

\* The mark of a request that is idle or outside the promise is no wish.
ASSUME NotBegunAssumption == NotBegun \notin Registry!Wish

\* Every behaviour of the store is, seen through the mapping, a behaviour of
\* the registry.
ImplementsRegistry == Registry!RegSpec

\* In the store's own terms: an answer, once given, stays true whatever fits,
\* failures and restarts follow, and no training is published twice.
RegistryInv == Registry!AnswersStayTrue /\ Registry!CommittedOnce
=============================================================================
