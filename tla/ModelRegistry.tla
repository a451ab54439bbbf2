---------------------------- MODULE ModelRegistry ----------------------------
(***************************************************************************)
(* What the model store promises to its clients, without files, locks or   *)
(* restarts: every namespace has a lineage, the sequence of its committed  *)
(* trainings, that only grows at its end.  A client that trained is told   *)
(* the position of its own training; a client that reads the latest        *)
(* version gets a training committed no earlier than the latest one when   *)
(* it asked; a client that reads version n gets the n-th training.         *)
(*                                                                         *)
(* ModelStore implements this specification: see StoreRefinement.          *)
(***************************************************************************)
EXTENDS Naturals, Sequences, Functions

CONSTANTS
  Clients,     \* identities of requests
  Spaces,      \* (series, detector) namespaces
  NotBegun     \* a client that has not asked for anything yet

VARIABLES
  lineage,  \* namespace -> sequence of the clients whose training committed
  wish,     \* client -> what it asked for, or NotBegun
  served    \* client -> the set of its answers, empty or a singleton

rvars == <<lineage, wish, served>>

\* A fit wants a new training of its space; a read wants version want of the
\* space, or with want = 0 the latest, which was since when it asked.
Wish == [kind : {"fit", "read"}, space : Spaces, want : Nat, since : Nat]

Latest(n) == Len(lineage[n])

RegInit ==
  /\ lineage = [n \in Spaces |-> <<>>]
  /\ wish = [c \in Clients |-> NotBegun]
  /\ served = [c \in Clients |-> {}]

\* A version that is not committed yet cannot be asked for.
Ask(c) ==
  /\ wish[c] = NotBegun
  /\ \E k \in {"fit", "read"}, n \in Spaces :
       \E w \in 0 .. Latest(n) :
         wish' = [wish EXCEPT ![c] =
                    [kind |-> k, space |-> n, want |-> w, since |-> Latest(n)]]
  /\ UNCHANGED <<lineage, served>>

Commit(c) ==
  /\ wish[c] # NotBegun
  /\ wish[c].kind = "fit"
  /\ \A n \in Spaces : c \notin Range(lineage[n])
  /\ lineage' = [lineage EXCEPT ![wish[c].space] = Append(@, c)]
  /\ UNCHANGED <<wish, served>>

Serve(c) ==
  /\ wish[c] # NotBegun
  /\ served[c] = {}
  /\ \E v \in DOMAIN lineage[wish[c].space] :
       LET fit == lineage[wish[c].space][v] IN
         /\ IF wish[c].kind = "fit" THEN fit = c
            ELSE IF wish[c].want = 0 THEN v >= wish[c].since
            ELSE v = wish[c].want
         /\ served' = [served EXCEPT ![c] = {[version |-> v, fits |-> {fit}]}]
  /\ UNCHANGED <<lineage, wish>>

RegNext == \E c \in Clients : Ask(c) \/ Commit(c) \/ Serve(c)

RegSpec == RegInit /\ [][RegNext]_rvars

-----------------------------------------------------------------------------
\* Every training is committed at most once, in the space it was asked for.
CommittedOnce ==
  \A m, n \in Spaces : \A i \in DOMAIN lineage[m], j \in DOMAIN lineage[n] :
    lineage[m][i] = lineage[n][j] => m = n /\ i = j

\* An answer stays true: the version it names is that training for good.
AnswersStayTrue ==
  \A c \in Clients : \A a \in served[c] :
    /\ a.version \in DOMAIN lineage[wish[c].space]
    /\ a.fits = {lineage[wish[c].space][a.version]}

=============================================================================
