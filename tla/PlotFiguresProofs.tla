-------------------------- MODULE PlotFiguresProofs --------------------------
(***************************************************************************)
(* Proofs about PlotFigures, for any number of plots: PlotInv is           *)
(* inductive, and what the registry and the images promise follows.  No    *)
(* step needs to know who runs between the steps of a plot, only that all  *)
(* plots that have one figure have one number, the key of its entry, and   *)
(* that the last of them to write the entry has yet to close the figure.   *)
(***************************************************************************)
EXTENDS PlotFigures, TLAPS

\* PlotInv holds initially.
LEMMA InitPlot == Init => PlotInv
<1> SUFFICES ASSUME Init PROVE PlotInv
  OBVIOUS
<1>1. PlotTypeOK
  BY DEF Init, PlotTypeOK, Steps
<1>2. Registered /\ Handed /\ Drawn /\ Images
  BY DEF Init, Registered, Handed, Drawn, Images, Numbers, NoFigureYet
<1>3. QED
  BY <1>1, <1>2 DEF PlotInv

\* Each step of a plot preserves the types.
LEMMA TypesKept ==
  ASSUME PlotInv, NEW r \in Plots, Plot(r)
  PROVE  PlotTypeOK'
<1> USE DEF PlotInv, PlotTypeOK, Steps
<1>1. CASE Subplots(r)
  BY <1>1 DEF Subplots, Numbers
<1>2. CASE LookupFound(r)
  BY <1>2 DEF LookupFound
<1>3. CASE Activate(r)
  BY <1>3 DEF Activate, Put
<1>4. CASE LookupNone(r)
  BY <1>4 DEF LookupNone
<1>5. CASE Register(r)
  BY <1>5 DEF Register, Put
<1>6. CASE Draw(r)
  <2>1. drawn[fig[r]][r] \in Nat
    OBVIOUS
  <2>2. drawn' \in [Plots -> [Plots -> Nat]]
    BY <1>6, <2>1 DEF Draw
  <2>3. QED
    BY <1>6, <2>2 DEF Draw
<1>7. CASE Save(r)
  BY <1>7 DEF Save
<1>8. CASE Search(r)
  <2>1. CASE pc' = [pc EXCEPT ![r] = "pop"]
    <3>1. PICK n \in Numbers : num' = [num EXCEPT ![r] = n]
      BY <1>8, <2>1 DEF Search
    <3>2. n \in Nat
      BY DEF Numbers
    <3>3. QED
      BY <1>8, <2>1, <3>1, <3>2 DEF Search
  <2>2. CASE pc' = [pc EXCEPT ![r] = "done"] /\ num' = num
    BY <1>8, <2>2 DEF Search
  <2>3. QED
    BY <1>8, <2>1, <2>2 DEF Search
<1>9. CASE Pop(r)
  BY <1>9 DEF Pop
<1>10. CASE Fail(r)
  BY <1>10 DEF Fail
<1>11. QED
  BY <1>1, <1>2, <1>3, <1>4, <1>5, <1>6, <1>7, <1>8, <1>9, <1>10 DEF Plot

\* The number that a search finds is the one the plot looked up.
LEMMA SearchKeepsNumber ==
  ASSUME PlotInv, NEW r \in Plots, Search(r)
  PROVE  num' = num
<1> USE DEF PlotInv, PlotTypeOK
<1>1. ASSUME NEW n \in Numbers, figs[n] = fig[r], num' = [num EXCEPT ![r] = n]
      PROVE  num' = num
  <2>1. num[fig[r]] = n
    BY <1>1, NoFigureAssumption DEF Registered
  <2>2. num[r] = n
    BY <2>1 DEF Handed
  <2>3. QED
    BY <1>1, <2>2
<1>2. QED
  BY <1>1 DEF Search

\* A figure that is written under the number of a plot has one entry, under its
\* own number, and that plot will close it.
LEMMA PutRegistered ==
  ASSUME PlotInv, NEW r \in Plots, Put(num[r], fig[r]), UNCHANGED <<num, fig>>,
         pc' = [pc EXCEPT ![r] = "draw"], num[r] \in Numbers,
         fig[r] = r \/ pc[fig[r]] \notin NoFigureYet
  PROVE  Registered'
<1> USE DEF PlotInv, PlotTypeOK
<1> SUFFICES ASSUME NEW n \in Numbers, figs'[n] # NoFigure
             PROVE  /\ num[figs'[n]] = n /\ fig[figs'[n]] = figs'[n]
                    /\ pc'[figs'[n]] \notin NoFigureYet
                    /\ \E q \in Plots : /\ fig[q] = figs'[n]
                                       /\ pc'[q] \in AtWork \cup {"failed"}
  BY DEF Registered
<1>1. CASE n = num[r]
  <2>1. figs'[n] = fig[r] /\ fig[r] \in Plots
    BY <1>1 DEF Put
  <2>2. num[fig[r]] = n /\ fig[fig[r]] = fig[r]
    BY <1>1 DEF Handed
  <2>3. pc'[fig[r]] \notin NoFigureYet
    BY DEF NoFigureYet
  <2>4. pc'[r] \in AtWork
    BY DEF AtWork
  <2>5. QED
    BY <2>1, <2>2, <2>3, <2>4
<1>2. CASE n # num[r]
  <2>1. figs'[n] = figs[n] /\ figs[n] \in Plots
    BY <1>2 DEF Put
  <2>2. num[figs[n]] = n /\ fig[figs[n]] = figs[n] /\ pc[figs[n]] \notin NoFigureYet
    BY <2>1 DEF Registered
  <2>3. PICK q \in Plots : fig[q] = figs[n] /\ pc[q] \in AtWork \cup {"failed"}
    BY <2>1 DEF Registered
  <2>4. pc'[q] \in AtWork \cup {"failed"} /\ pc'[figs[n]] \notin NoFigureYet
    BY <2>1, <2>2, <2>3 DEF AtWork, NoFigureYet
  <2>5. QED
    BY <2>1, <2>2, <2>3, <2>4
<1>3. QED
  BY <1>1, <1>2

\* The entry of a figure is under its own number, and somebody who has the
\* figure will close it or has failed.
LEMMA RegisteredKept ==
  ASSUME PlotInv, NEW r \in Plots, Plot(r)
  PROVE  Registered'
<1> USE DEF PlotInv, PlotTypeOK, Registered, NoFigureYet, AtWork
<1>1. CASE Subplots(r)
  <2> SUFFICES ASSUME NEW n \in Numbers, figs[n] # NoFigure
               PROVE  /\ num'[figs[n]] = n /\ fig[figs[n]] = figs[n]
                      /\ pc'[figs[n]] \notin NoFigureYet
                      /\ \E q \in Plots : /\ fig[q] = figs[n]
                                         /\ pc'[q] \in AtWork \cup {"failed"}
    BY <1>1 DEF Subplots
  <2>1. figs[n] \in Plots /\ figs[n] # r
    BY <1>1 DEF Subplots
  <2>2. PICK q \in Plots : fig[q] = figs[n] /\ pc[q] \in AtWork \cup {"failed"}
    OBVIOUS
  <2>3. q # r
    BY <1>1, <2>2 DEF Subplots
  <2>4. QED
    BY <1>1, <2>1, <2>2, <2>3 DEF Subplots
<1>2. CASE LookupFound(r)
  \* The plot that looks a number up has no entry and no figure of another.
  <2> SUFFICES ASSUME NEW n \in Numbers, figs[n] # NoFigure
               PROVE  /\ num[figs[n]] = n /\ fig'[figs[n]] = figs[n]
                      /\ pc'[figs[n]] \notin NoFigureYet
                      /\ \E q \in Plots : /\ fig'[q] = figs[n]
                                         /\ pc'[q] \in AtWork \cup {"failed"}
    BY <1>2 DEF LookupFound
  <2>1. figs[n] \in Plots /\ figs[n] # r
    BY <1>2 DEF LookupFound
  <2>2. PICK q \in Plots : fig[q] = figs[n] /\ pc[q] \in AtWork \cup {"failed"}
    OBVIOUS
  <2>3. q # r
    BY <1>2, <2>2 DEF LookupFound
  <2>4. QED
    BY <1>2, <2>1, <2>2, <2>3 DEF LookupFound
<1>3. CASE LookupNone(r)
  <2> SUFFICES ASSUME NEW n \in Numbers, figs[n] # NoFigure
               PROVE  /\ num[figs[n]] = n /\ fig[figs[n]] = figs[n]
                      /\ pc'[figs[n]] \notin NoFigureYet
                      /\ \E q \in Plots : /\ fig[q] = figs[n]
                                         /\ pc'[q] \in AtWork \cup {"failed"}
    BY <1>3 DEF LookupNone
  <2>1. figs[n] \in Plots /\ figs[n] # r
    BY <1>3 DEF LookupNone
  <2>2. PICK q \in Plots : fig[q] = figs[n] /\ pc[q] \in AtWork \cup {"failed"}
    OBVIOUS
  <2>3. q # r
    BY <1>3, <2>2 DEF LookupNone
  <2>4. QED
    BY <1>3, <2>1, <2>2, <2>3 DEF LookupNone
<1>4. CASE Register(r)
  <2>1. fig[r] = r /\ num[r] \in Numbers
    BY <1>4 DEF Register, Handed
  <2>2. Put(num[r], fig[r])
    BY <1>4, <2>1 DEF Register
  <2>3. QED
    BY <1>4, <2>1, <2>2, PutRegistered DEF Register
<1>5. CASE Activate(r)
  <2>1. pc[fig[r]] \notin NoFigureYet /\ num[r] \in Numbers
    BY <1>5 DEF Activate, Handed
  <2>2. QED
    BY <1>5, <2>1, PutRegistered DEF Activate
<1>6. CASE Draw(r)
  BY <1>6 DEF Draw
<1>7. CASE Save(r)
  BY <1>7 DEF Save
<1>8. CASE Search(r)
  \* A plot that finds no entry of its figure closes none, and need not.
  <2> SUFFICES ASSUME NEW n \in Numbers, figs[n] # NoFigure
               PROVE  /\ num'[figs[n]] = n /\ fig[figs[n]] = figs[n]
                      /\ pc'[figs[n]] \notin NoFigureYet
                      /\ \E q \in Plots : /\ fig[q] = figs[n]
                                         /\ pc'[q] \in AtWork \cup {"failed"}
    BY <1>8 DEF Search
  <2>1. figs[n] \in Plots /\ num[figs[n]] = n /\ pc[figs[n]] \notin NoFigureYet
    OBVIOUS
  <2>2. num' = num
    BY <1>8, SearchKeepsNumber
  <2>3. pc'[figs[n]] \notin NoFigureYet
    BY <1>8, <2>1 DEF Search
  <2>4. PICK q \in Plots : fig[q] = figs[n] /\ pc[q] \in AtWork \cup {"failed"}
    OBVIOUS
  <2>5. CASE q # r
    BY <1>8, <2>1, <2>2, <2>3, <2>4, <2>5 DEF Search
  <2>6. CASE q = r
    <3>1. pc'[r] = "pop"
      BY <1>8, <2>4, <2>6 DEF Search
    <3>2. QED
      BY <2>1, <2>2, <2>3, <2>4, <2>6, <3>1
  <2>7. QED
    BY <2>5, <2>6
<1>9. CASE Pop(r)
  \* Figures that keep their entry have other numbers than r, and other holders.
  <2> SUFFICES ASSUME NEW n \in Numbers, figs'[n] # NoFigure
               PROVE  /\ figs'[n] = figs[n]
                      /\ num[figs[n]] = n /\ fig[figs[n]] = figs[n]
                      /\ pc'[figs[n]] \notin NoFigureYet
                      /\ \E q \in Plots : /\ fig[q] = figs[n]
                                         /\ pc'[q] \in AtWork \cup {"failed"}
    BY <1>9 DEF Pop
  <2>1. n # num[r] /\ figs'[n] = figs[n] /\ figs[n] \in Plots
    BY <1>9 DEF Pop
  <2>2. PICK q \in Plots : fig[q] = figs[n] /\ pc[q] \in AtWork \cup {"failed"}
    BY <2>1
  <2>3. q # r
    BY <2>1, <2>2 DEF Handed
  <2>4. QED
    BY <1>9, <2>1, <2>2, <2>3 DEF Pop
<1>10. CASE Fail(r)
  BY <1>10 DEF Fail
<1>11. QED
  BY <1>1, <1>2, <1>3, <1>4, <1>5, <1>6, <1>7, <1>8, <1>9, <1>10 DEF Plot

\* All plots that have a figure have its number, and whoever has the figure of
\* another came by it between the choice of its number and the lookup.
LEMMA HandedKept ==
  ASSUME PlotInv, NEW r \in Plots, Plot(r)
  PROVE  Handed'
<1> USE DEF PlotInv, PlotTypeOK, Handed, NoFigureYet
<1>1. CASE Subplots(r)
  \* Nobody has the figure of a plot that is idle, and its number is free.
  <2>1. PICK n \in Numbers : NextNumber(n) /\ num' = [num EXCEPT ![r] = n]
    BY <1>1 DEF Subplots
  <2>2. figs[n] = NoFigure
    BY <2>1 DEF NextNumber, Numbers
  <2>3. \A q \in Plots \ {r} : fig[q] # r
    BY <1>1 DEF Subplots
  <2>4. QED
    BY <1>1, <2>1, <2>2, <2>3 DEF Subplots
<1>2. CASE LookupFound(r)
  <2>1. num[r] \in Numbers /\ fig[r] = r
    BY <1>2 DEF LookupFound
  <2> DEFINE f == figs[num[r]]
  <2>2. f \in Plots /\ f # r /\ num[f] = num[r] /\ fig[f] = f
        /\ pc[f] \notin NoFigureYet /\ f \in met[r]
    BY <1>2, <2>1 DEF LookupFound, Registered
  <2>3. \A q \in Plots \ {r} : fig[q] # r
    BY <1>2 DEF LookupFound
  <2>4. fig' = [fig EXCEPT ![r] = f] /\ pc' = [pc EXCEPT ![r] = "activate"]
        /\ UNCHANGED <<num, figs, met>>
    BY <1>2 DEF LookupFound
  <2> HIDE DEF f
  <2>5. QED
    BY <2>2, <2>3, <2>4
<1>3. CASE LookupNone(r)
  BY <1>3 DEF LookupNone
<1>4. CASE Register(r)
  BY <1>4 DEF Register, Put
<1>5. CASE Activate(r)
  BY <1>5 DEF Activate, Put
<1>6. CASE Draw(r)
  BY <1>6 DEF Draw
<1>7. CASE Save(r)
  BY <1>7 DEF Save
<1>8. CASE Search(r)
  <2>1. num' = num
    BY <1>8, SearchKeepsNumber
  <2>2. QED
    BY <1>8, <2>1 DEF Search
<1>9. CASE Pop(r)
  BY <1>9 DEF Pop
<1>10. CASE Fail(r)
  BY <1>10 DEF Fail
<1>11. QED
  BY <1>1, <1>2, <1>3, <1>4, <1>5, <1>6, <1>7, <1>8, <1>9, <1>10 DEF Plot

\* What is on a figure comes from the plots that have it.
LEMMA DrawnKept ==
  ASSUME PlotInv, NEW r \in Plots, Plot(r)
  PROVE  Drawn'
<1> USE DEF PlotInv, PlotTypeOK, Drawn, NoFigureYet
<1>1. CASE Subplots(r)
  BY <1>1 DEF Subplots
<1>2. CASE LookupFound(r)
  BY <1>2 DEF LookupFound
<1>3. CASE Activate(r)
  BY <1>3 DEF Activate, Put
<1>4. CASE LookupNone(r)
  BY <1>4 DEF LookupNone
<1>5. CASE Register(r)
  BY <1>5 DEF Register, Put
<1>6. CASE Draw(r)
  <2> SUFFICES ASSUME NEW f \in Plots, NEW s \in Plots, drawn'[f][s] # 0
               PROVE  fig[s] = f /\ pc[s] \notin NoFigureYet
    BY <1>6 DEF Draw
  <2>1. CASE f = fig[r] /\ s = r
    BY <1>6, <2>1 DEF Draw
  <2>2. CASE ~(f = fig[r] /\ s = r)
    BY <1>6, <2>2 DEF Draw
  <2>3. QED
    BY <2>1, <2>2
<1>7. CASE Save(r)
  BY <1>7 DEF Save
<1>8. CASE Search(r)
  BY <1>8 DEF Search
<1>9. CASE Pop(r)
  BY <1>9 DEF Pop
<1>10. CASE Fail(r)
  BY <1>10 DEF Fail
<1>11. QED
  BY <1>1, <1>2, <1>3, <1>4, <1>5, <1>6, <1>7, <1>8, <1>9, <1>10 DEF Plot

\* An image is what its figure showed when it was saved.
LEMMA ImagesKept ==
  ASSUME PlotInv, NEW r \in Plots, Plot(r)
  PROVE  Images'
<1>1. data' = data /\ \A s \in Plots : Layers(s)' = Layers(s)
  BY DEF Plot, Subplots, LookupFound, Activate, LookupNone, Register, Draw, Save,
         Search, Pop, Fail, Layers
<1> SUFFICES ASSUME NEW t \in Plots, pc'[t] \in {"saved", "pop", "done"}
             PROVE  /\ image'[t][t] = Layers(t)
                    /\ \A s \in Plots : image'[t][s] # 0 =>
                         /\ fig'[s] = fig'[t]
                         /\ pc'[s] \notin NoFigureYet
  BY <1>1 DEF Images
<1> USE DEF PlotInv, PlotTypeOK, Images, NoFigureYet
<1>2. CASE Subplots(r)
  BY <1>2 DEF Subplots
<1>3. CASE LookupFound(r)
  BY <1>3 DEF LookupFound
<1>4. CASE Activate(r)
  BY <1>4 DEF Activate, Put
<1>5. CASE LookupNone(r)
  BY <1>5 DEF LookupNone
<1>6. CASE Register(r)
  BY <1>6 DEF Register, Put
<1>7. CASE Draw(r)
  BY <1>7 DEF Draw
<1>8. CASE Save(r)
  <2>1. CASE t = r
    BY <1>8, <2>1 DEF Save, Drawn
  <2>2. CASE t # r
    BY <1>8, <2>2 DEF Save
  <2>3. QED
    BY <2>1, <2>2
<1>9. CASE Search(r)
  BY <1>9 DEF Search
<1>10. CASE Pop(r)
  BY <1>10 DEF Pop
<1>11. CASE Fail(r)
  BY <1>11 DEF Fail
<1>12. QED
  BY <1>2, <1>3, <1>4, <1>5, <1>6, <1>7, <1>8, <1>9, <1>10, <1>11 DEF Plot

\* PlotInv is inductive.
LEMMA NextPlot == PlotInv /\ [Next]_vars => PlotInv'
<1> SUFFICES ASSUME PlotInv, [Next]_vars PROVE PlotInv'
  OBVIOUS
<1>1. CASE \E r \in Plots : Plot(r)
  <2>1. PICK r \in Plots : Plot(r)
    BY <1>1
  <2>2. QED
    BY <2>1, TypesKept, RegisteredKept, HandedKept, DrawnKept, ImagesKept DEF PlotInv
<1>2. CASE UNCHANGED vars
  BY <1>2 DEF vars, PlotInv, PlotTypeOK, Registered, Handed, Drawn, Images, Layers
<1>3. QED
  BY <1>1, <1>2 DEF Next, Done

-----------------------------------------------------------------------------

\* The registry, the figures and the images of any number of concurrent plots
\* keep the inductive invariant.
THEOREM PlotInvariant == Spec => []PlotInv
<1>1. QED
  BY InitPlot, NextPlot, PTL DEF Spec

\* Every figure that stays in pyplot's registry is accounted for by a failed plot
\* of its own, also when a closed figure was put back.
THEOREM FiguresAreAccounted == Spec => []FiguresAccounted
<1>1. PlotInv => FiguresAccounted
  BY DEF PlotInv, PlotTypeOK, Registered, FiguresAccounted
<1>2. QED
  BY <1>1, PlotInvariant, PTL

\* An image carries its own series whole, and another one only if they were handed
\* one figure by a race inside plt.subplots.
THEOREM ImagesAreOwn == Spec => []ImageIsOwn
<1>1. PlotInv => ImageIsOwn
  <2> SUFFICES ASSUME PlotInv, NEW r \in Plots, pc[r] = "done"
               PROVE  /\ image[r][r] = Layers(r)
                      /\ \A s \in Plots \ {r} : image[r][s] # 0 =>
                           \E f \in Plots : \A q \in {r, s} : q = f \/ f \in met[q]
    BY DEF ImageIsOwn
  <2>1. image[r][r] = Layers(r)
    BY DEF PlotInv, Images
  <2>2. ASSUME NEW s \in Plots \ {r}, image[r][s] # 0
        PROVE  \E f \in Plots : \A q \in {r, s} : q = f \/ f \in met[q]
    <3>1. fig[s] = fig[r] /\ fig[r] \in Plots
      BY <2>2 DEF PlotInv, PlotTypeOK, Images
    <3>2. \A q \in {r, s} : q = fig[r] \/ fig[r] \in met[q]
      BY <2>2, <3>1 DEF PlotInv, Handed
    <3>3. QED
      BY <3>1, <3>2
  <2>3. QED
    BY <2>1, <2>2
<1>2. QED
  BY <1>1, PlotInvariant, PTL
=============================================================================
