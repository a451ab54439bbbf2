----------------------------- MODULE PlotFigures -----------------------------
(***************************************************************************)
(* The drawing half of GET /plot (app/api/routes/plot.py), after           *)
(* get_plot_data has answered: plots run in worker threads, and each makes *)
(* a figure with plt.subplots, draws on it, saves it and closes it.        *)
(*                                                                         *)
(* pyplot (matplotlib 3.9.0) is external.  It keeps the figures in one     *)
(* registry without a lock: figure() takes the number after the largest    *)
(* one and looks that number up.  A figure it finds there it makes the     *)
(* active one, which writes it into the registry again, and returns it;    *)
(* otherwise it makes one and registers it.  close(fig) searches the       *)
(* number of a figure and then removes the entry of that number.  Other    *)
(* threads run between these steps, so two plots may be handed the same    *)
(* figure, and a closed figure may come back into the registry.            *)
(***************************************************************************)
EXTENDS Integers, Sequences

CONSTANTS
  Plots,     \* the requests
  PlotMenu,  \* what get_plot_data may have returned to them
  MaxNumber, \* a bound on figure numbers that Plots never reach
  NoFigure

\* Flags and scores that are absent, or of another length than the training
\* data, are not drawn; drawing may fail on what nothing validates (a timestamp
\* that is no date, a parameter that is missing, a trend that overflows).
PlotData ==
  [detector : {"gaussian", "isolation_forest"},
   flags : {"absent", "none", "some"},
   scores : {"absent", "present"},
   drawable : BOOLEAN]

ASSUME PlotMenuAssumption == PlotMenu \subseteq PlotData
ASSUME MaxNumberAssumption == MaxNumber \in Nat
ASSUME NoFigureAssumption == NoFigure \notin Plots

VARIABLES
  pc,    \* plot -> where its thread is
  data,  \* plot -> what it draws
  num,   \* plot -> the figure number it works with
  fig,   \* plot -> its figure, named after the plot that made it
  figs,  \* number -> figure: the registry of pyplot
  drawn, \* figure -> plot -> how many of its layers the plot has drawn there
  image, \* plot -> what its figure showed when it was saved
  met    \* plot -> figures put under its number while it looked it up (history)

vars == <<pc, data, num, fig, figs, drawn, image, met>>

-----------------------------------------------------------------------------
(* Shared definitions *)

Numbers == 1 .. MaxNumber
Steps == {"idle", "lookup", "activate", "register", "draw", "saved", "pop", "done",
          "failed"}

\* Where a plot has called for a figure at most, and where it works with one.
NoFigureYet == {"idle", "lookup", "register"}
AtWork == {"draw", "saved", "pop"}

\* What a plot draws, in this order.
Drawing(d) ==
  LET points == IF d.detector = "gaussian"
                THEN IF d.flags = "absent" THEN <<"training points">>
                     ELSE IF d.flags = "none" THEN <<"normal">>
                     ELSE <<"normal", "anomaly">>
                ELSE IF d.scores = "present" /\ d.flags = "some"
                     THEN <<"training points", "flagged">>
                     ELSE <<"training points">>
      bands == IF d.detector = "gaussian" THEN <<"mean and sigmas">> ELSE <<>>
  IN points \o bands \o <<"trend">>

Layers(r) == Len(Drawing(data[r]))

-----------------------------------------------------------------------------
(* Bugs this code could have.  They are no part of the specification: each *)
(* stands in for the definition its comment names.                         *)

\* NextNumber, for plt.subplots(num=1).
FirstNumber(n) == n = 1

\* Search, for a plt.close() without the figure: closes a current one.
SearchCurrent(r) ==
  /\ pc[r] = "saved"
  /\ \E n \in Numbers :
       /\ figs[n] # NoFigure
       /\ num' = [num EXCEPT ![r] = n]
  /\ pc' = [pc EXCEPT ![r] = "pop"]
  /\ UNCHANGED <<data, fig, figs, drawn, image, met>>

-----------------------------------------------------------------------------
(* plot_series *)

Init ==
  /\ pc = [r \in Plots |-> "idle"]
  /\ data \in [Plots -> PlotMenu]
  /\ num = [r \in Plots |-> 0]
  /\ fig = [r \in Plots |-> r]
  /\ figs = [n \in Numbers |-> NoFigure]
  /\ drawn = [f \in Plots |-> [r \in Plots |-> 0]]
  /\ image = [r \in Plots |-> [s \in Plots |-> 0]]
  /\ met = [r \in Plots |-> {}]

\* The number after the largest one in use.
NextNumber(n) ==
  /\ \A m \in Numbers : figs[m] # NoFigure => m < n
  /\ n > 1 => figs[n - 1] # NoFigure

\* plt.subplots begins.
Subplots(r) ==
  /\ pc[r] = "idle"
  /\ \E n \in Numbers : NextNumber(n) /\ num' = [num EXCEPT ![r] = n]
  /\ pc' = [pc EXCEPT ![r] = "lookup"]
  /\ UNCHANGED <<data, fig, figs, drawn, image, met>>

\* Another plot has registered the number meanwhile: its figure is taken ...
LookupFound(r) ==
  /\ pc[r] = "lookup"
  /\ figs[num[r]] # NoFigure
  /\ fig' = [fig EXCEPT ![r] = figs[num[r]]]
  /\ pc' = [pc EXCEPT ![r] = "activate"]
  /\ UNCHANGED <<data, num, figs, drawn, image, met>>

\* Figure f is written into the registry under number n.
Put(n, f) ==
  /\ figs' = [figs EXCEPT ![n] = f]
  /\ met' = [q \in Plots |-> IF pc[q] = "lookup" /\ num[q] = n THEN met[q] \cup {f}
                                                             ELSE met[q]]

\* ... and made the active one, even if it has been closed since.
Activate(r) ==
  /\ pc[r] = "activate"
  /\ Put(num[r], fig[r])
  /\ pc' = [pc EXCEPT ![r] = "draw"]
  /\ UNCHANGED <<data, num, fig, drawn, image>>

LookupNone(r) ==
  /\ pc[r] = "lookup"
  /\ figs[num[r]] = NoFigure
  /\ pc' = [pc EXCEPT ![r] = "register"]
  /\ UNCHANGED <<data, num, fig, figs, drawn, image, met>>

\* A figure that was registered under the number since the lookup is replaced.
Register(r) ==
  /\ pc[r] = "register"
  /\ Put(num[r], r)
  /\ pc' = [pc EXCEPT ![r] = "draw"]
  /\ UNCHANGED <<data, num, fig, drawn, image>>

Draw(r) ==
  /\ pc[r] = "draw"
  /\ drawn[fig[r]][r] < Layers(r)
  /\ drawn' = [drawn EXCEPT ![fig[r]][r] = @ + 1]
  /\ UNCHANGED <<pc, data, num, fig, figs, image, met>>

Save(r) ==
  /\ pc[r] = "draw"
  /\ drawn[fig[r]][r] = Layers(r)
  /\ image' = [image EXCEPT ![r] = drawn[fig[r]]]
  /\ pc' = [pc EXCEPT ![r] = "saved"]
  /\ UNCHANGED <<data, num, fig, figs, drawn, met>>

\* plt.close(fig) searches the number of the figure; without one there is
\* nothing to remove, and the image is sent.
Search(r) ==
  /\ pc[r] = "saved"
  /\ \/ \E n \in Numbers :
          /\ figs[n] = fig[r]
          /\ num' = [num EXCEPT ![r] = n]
          /\ pc' = [pc EXCEPT ![r] = "pop"]
     \/ /\ \A n \in Numbers : figs[n] # fig[r]
        /\ pc' = [pc EXCEPT ![r] = "done"]
        /\ UNCHANGED num
  /\ UNCHANGED <<data, fig, figs, drawn, image, met>>

\* The entry is removed, whoever registered it since the search.
Pop(r) ==
  /\ pc[r] = "pop"
  /\ figs' = [figs EXCEPT ![num[r]] = NoFigure]
  /\ pc' = [pc EXCEPT ![r] = "done"]
  /\ UNCHANGED <<data, num, fig, drawn, image, met>>

\* Drawing, saving or searching raises, or what follows the write of an entry
\* (which moves it to the end): because of the data, or because another plot is
\* at work on what pyplot shares.  No handler of the route catches it, and the
\* figure stays where it is.
Fail(r) ==
  /\ pc[r] \in {"draw", "saved"}
  /\ \/ pc[r] = "draw" /\ ~data[r].drawable
     \/ \E q \in Plots \ {r} : pc[q] \notin {"idle", "done", "failed"}
  /\ pc' = [pc EXCEPT ![r] = "failed"]
  /\ UNCHANGED <<data, num, fig, figs, drawn, image, met>>

Done ==
  /\ \A r \in Plots : pc[r] \in {"done", "failed"}
  /\ UNCHANGED vars

Plot(r) ==
  \/ Subplots(r) \/ LookupFound(r) \/ Activate(r) \/ LookupNone(r) \/ Register(r)
  \/ Draw(r) \/ Save(r) \/ Search(r) \/ Pop(r) \/ Fail(r)

Next == (\E r \in Plots : Plot(r)) \/ Done

Spec == Init /\ [][Next]_vars

-----------------------------------------------------------------------------
(* Properties *)

PlotTypeOK ==
  /\ pc \in [Plots -> Steps]
  /\ data \in [Plots -> PlotMenu]
  /\ num \in [Plots -> Nat]
  /\ \A r \in Plots : pc[r] # "idle" => num[r] \in Numbers
  /\ fig \in [Plots -> Plots]
  /\ figs \in [Numbers -> Plots \cup {NoFigure}]
  /\ drawn \in [Plots -> [Plots -> Nat]]
  /\ image \in [Plots -> [Plots -> Nat]]
  /\ met \in [Plots -> SUBSET Plots]

\* A figure has one entry at most, under the number its maker chose, and as long
\* as it has one, somebody who works with it will close it or has failed.
Registered ==
  \A n \in Numbers : figs[n] # NoFigure =>
    /\ num[figs[n]] = n
    /\ fig[figs[n]] = figs[n]
    /\ pc[figs[n]] \notin NoFigureYet
    /\ \E r \in Plots : fig[r] = figs[n] /\ pc[r] \in AtWork \cup {"failed"}

\* A plot comes by the figure of another only by looking up their common number,
\* after the figure was put there.
Handed ==
  \A r \in Plots :
    /\ num[fig[r]] = num[r]
    /\ fig[fig[r]] = fig[r]
    /\ pc[r] = "lookup" /\ figs[num[r]] # NoFigure => figs[num[r]] \in met[r]
    /\ pc[r] \in NoFigureYet => fig[r] = r
    /\ fig[r] # r => fig[r] \in met[r] /\ pc[fig[r]] \notin NoFigureYet
    /\ pc[r] = "activate" => fig[r] # r

\* Everything on a figure was drawn there by a plot that has that figure.
Drawn ==
  \A f, r \in Plots : drawn[f][r] # 0 => fig[r] = f /\ pc[r] \notin NoFigureYet

Images ==
  \A r \in Plots : pc[r] \in {"saved", "pop", "done"} =>
    /\ image[r][r] = Layers(r)
    /\ \A s \in Plots :
         image[r][s] # 0 => fig[s] = fig[r] /\ pc[s] \notin NoFigureYet

\* Inductive invariant: types, and what the figures and their registry, which
\* many threads change without a lock, still guarantee.
PlotInv == PlotTypeOK /\ Registered /\ Handed /\ Drawn /\ Images

\* Every figure in the registry is in the hands of a plot that is still at work
\* or has failed, of another one for each figure.  The figure of a plot that was
\* answered may come back, put there by a plot that had found it before it was
\* closed; even so, however the threads interleave, it is closed again unless
\* that plot fails: every leaked figure is accounted for by a failure of its own.
FiguresAccounted ==
  /\ \A n \in Numbers : figs[n] # NoFigure =>
       \E r \in Plots : fig[r] = figs[n] /\ pc[r] \in AtWork \cup {"failed"}
  /\ \A n, m \in Numbers : figs[n] = figs[m] => n = m \/ figs[n] = NoFigure

\* The figure that is saved for a client carries all layers of its own series
\* (the axes of another plot may cover them).  It carries anything of another
\* plot only if the two were handed one figure, which takes a plot that was
\* looking up its number when the figure was put there, by its maker or by a
\* plot that had found it: a figure that was registered when a plot called
\* subplots, such as one leaked before, is never handed to it.
ImageIsOwn ==
  \A r \in Plots : pc[r] = "done" =>
    /\ image[r][r] = Layers(r)
    /\ \A s \in Plots \ {r} : image[r][s] # 0 =>
         \E f \in Plots : \A q \in {r, s} : q = f \/ f \in met[q]
=============================================================================
