---------------------------- MODULE MCDashboard ----------------------------
(***************************************************************************)
(* A small instance of Dashboard for TLC.  The page's sections read        *)
(* disjoint tables, or the same one for different ends: the alerts count   *)
(* what the hot panel shows.  How their readers interleave tells nothing   *)
(* apart: each behaviour moves the tables and the readers of one section,  *)
(* and the five sets of behaviours are checked together.                   *)
(***************************************************************************)
EXTENDS Dashboard

CONSTANTS z1, u

VARIABLE section

mcVars == <<dashVars, section>>

OneZone == {z1, None}
\* Natural keys: u is a second trip of the same minute as another.
MCEvents ==
    [time : {1, 2, 3, 4}, zone : {z1}, key : {u}] \cup [time : {2}, zone : {z1}, key : {Null}]
MCHistory == [d \in Dates |-> IF d < LiveEraStart THEN 2 ELSE 0]
MCEvalRows ==
    {[date |-> d, version |-> v, mae |-> m, r2 |-> IF m = 4 THEN 20 ELSE 50] :
        d \in 0 .. 2, v \in 1 .. 2, m \in {0, 1, 2, 4}}

\* The days' totals and the feed need one live day and the day before, the panel
\* two live days, to have a window outside a range.
TimesOf ==
    [layers |-> {1, 2, 3}, feed |-> {1, 2, 3}, panel |-> {2, 3, 4}, live_panel |-> {2, 3, 4},
     evaluation |-> {}]

\* Windows start at each time, and those without a trip have no rows to show.
MCHotShows == \E starts \in SUBSET TimesOf[section] : HotShows(starts)

Panels == {"panel", "live_panel"}

\* A panel tells apart which windows have rows, so that two trips of a window are
\* one too many.
MCLogGrows ==
    /\ LogGrows
    /\ LET m == log'[Len(log')]
       IN  /\ m # Poison => m.time \in TimesOf[section]
           /\ section \in Panels =>
                /\ m # Poison /\ m.key = u
                /\ \A i \in DOMAIN log : log[i] # m

\* The panel is drawn for the first live day, or from it on.
MCDrawPage ==
    /\ DrawPage
    /\ section = "panel" => page'.start = 2 /\ page'.end = 4
    /\ section = "live_panel" => page'.start = 2 /\ page'.end = Null

MCInit == Init /\ section \in {"layers", "feed", "evaluation"} \cup Panels

In(sections) == section \in sections /\ UNCHANGED section

\* In the panel's sections nothing is scored any more once the page is open.
MCNext ==
    \/ In({"layers", "feed"} \cup Panels) /\ (MCLogGrows \/ MCDrawPage)
    \/ In({"layers"} \cup Panels) /\ (HotReads \/ MCHotShows \/ HotRestarts)
    \/ In({"layers"}) /\ (ColdRefreshes \/ ReconExpires)
    \/ In({"feed"}) /\ (Score \/ TimePasses \/ FeedRefreshes)
    \/ In(Panels) /\ (PanelMoves \/ (page = NoPage /\ Score))
    \/ In({"evaluation"}) /\ Publish

\* One section moves in a behaviour, and one range is looked at, so that fairness
\* of a disjunction is fairness of each.
MCFairness ==
    /\ WF_mcVars(\/ In({"layers"} \cup Panels) /\ HotReads
                 \/ In({"feed"}) /\ FeedRefreshes)
    /\ WF_mcVars(In({"layers"} \cup Panels) /\ HotShows(Windows))
    /\ WF_mcVars(\/ In({"layers"}) /\ ColdRefreshes
                 \/ In(Panels) /\ PanelReads)
    /\ WF_mcVars(\/ In({"layers"}) /\ ReconExpires
                 \/ In(Panels) /\ \E r \in DOMAIN windowsKept : WindowsExpire(r))
    /\ WF_mcVars(In(Panels) /\ \E r \in DOMAIN zonesKept : ZonesExpire(r))

MCSpec == MCInit /\ [][MCNext]_mcVars /\ MCFairness

\* When the replay has ended the page comes right, in its sections: the alert on
\* diverging layers (the recount is only at work in the first one), and the two
\* charts of the hot panel.
PageSettles ==
    /\ section = "layers" => DivergenceSettles
    /\ section \in Panels => PanelSettles
=============================================================================
