----------------------------- MODULE Dashboard -----------------------------
(***************************************************************************)
(* The dashboard (dashboard/queries.py, alerts.py, app.py): a reader of    *)
(* tables that three other components write.  The hot path's table is that *)
(* of LiveMetrics, which HotPath implements; the cold path is what         *)
(* ColdPath promises, a day's distinct trips recounted now and then; the   *)
(* quotes and their evaluation are upserts by trip and by day and version. *)
(*                                                                         *)
(* What the page holds on to between two looks at the store is modelled:   *)
(* the cached results of the reconciliation and of the two queries of the  *)
(* hot panel, the range the sidebar took from the store when the page was  *)
(* drawn, and the hot panel and the feed on the screen.                    *)
(***************************************************************************)
EXTENDS LiveMetrics, Alerts, FiniteSetsExt

CONSTANTS
    Day,           \* minutes in a day
    LiveEraStart,  \* LIVE_ERA_START, as a date
    History,       \* what the backfill counted on the days before it
    Today,         \* date.today() where the page runs, after every trip
    EvalRows,      \* the rows an evaluation may publish
    FeedLimit,     \* the feed's LIMIT
    ChartLimit,    \* hot_windows' LIMIT, 96 in the code
    NoPage,        \* nobody has opened the page
    Uncached,      \* the cache's entry has expired
    MaxFallBacks   \* bound: restarts of the hot path

VARIABLES
    fallBacks,   \* how many restarts there were
    cold,        \* cold_daily_zone_metrics: the citywide count of each date
    recon,       \* the cached result of reconciliation()
    quotes,      \* fare_predictions: the trips that have a quote
    scored,      \* how many messages the predictor has taken in
    age,         \* how long ago the newest quote was written
    evaluation,  \* ml_daily_eval
    page,        \* the range and mode the running page was drawn with
    feed,        \* the trips the feed shows
    windowsKept, \* the cached results of hot_windows(), by range
    zonesKept,   \* the cached results of hot_top_zones(), by range
    panel        \* what the hot panel shows, and whether it is half drawn

layerVars == <<read, table, fallBacks, cold, recon>>
feedVars == <<quotes, scored, age, page, feed>>
panelVars == <<windowsKept, zonesKept, panel>>
dashVars == <<log, layerVars, feedVars, panelVars, evaluation>>

DateOf(t) == t \div Day
Dates == {DateOf(t) : t \in 0 .. MaxTime}

ASSUME LiveEraAssumption == LiveEraStart \in Nat /\ Day \in Nat \ {0} /\ Day % Hour = 0
ASSUME BoundsAssumption == MaxTime \in Nat /\ MaxLog \in Nat /\ MaxFallBacks \in Nat
ASSUME TablesAssumption ==
    /\ \A d \in Dates : History[d] \in Nat
    /\ \A r \in EvalRows : r.mae \in Nat
    /\ Today \in Nat /\ StaleAfter \in Nat /\ ChartLimit \in Nat \ {0}

Init ==
    /\ LiveInit
    /\ fallBacks = 0
    /\ cold = [d \in Dates |-> History[d]]
    /\ recon = Uncached
    /\ quotes = {}
    /\ scored = 0
    /\ age = Never
    /\ evaluation = {}
    /\ page = NoPage
    /\ feed = {}
    /\ windowsKept = <<>>
    /\ zonesKept = <<>>
    /\ panel = NoPage

-----------------------------------------------------------------------------
(***************************************************************************)
(* Queries on the two layers                                               *)
(***************************************************************************)
\* The trips of a row's trip_count: an absolute upsert counts none of them twice.
Counted(c) == {i \in Position : table[c].counted[i] > 0}
HasRow(c) == Counted(c) # {}

\* Mutant: zone rows are summed with the citywide ones.
HotCellsOfAllKeys(d) == {c \in Cells : HasRow(c) /\ DateOf(c[1]) = d}

\* WHERE zone_id IS NULL GROUP BY window_start::date
HotCells(d) == {c \in Cells : c[2] = None /\ HasRow(c) /\ DateOf(c[1]) = d}

ComparedDates == {d \in Dates : d >= LiveEraStart /\ cold[d] > 0 /\ HotCells(d) # {}}

\* SUM(trip_count) of the day
HotTrips(d) == Cardinality({ci \in HotCells(d) \X Position : ci[2] \in Counted(ci[1])})

Reconciliation ==
    {[date |-> d, cold |-> cold[d], hot |-> HotTrips(d)] : d \in ComparedDates}

InRange(t, start, end) == start <= t /\ (end # Null => t < end)

\* The windows of the citywide rows in the range, and the newest of them.
CityWindows(start, end) ==
    {c[1] : c \in {d \in Cells : d[2] = None /\ HasRow(d) /\ InRange(d[1], start, end)}}

HotWindows(start, end) ==
    {w \in CityWindows(start, end) :
        Cardinality({v \in CityWindows(start, end) : v > w}) < ChartLimit}

\* Mutant: the newest window of all, whatever the range.
NewestOfAll(start, end) == Max({c[1] : c \in {d \in Cells : HasRow(d)}} \cup {-1})

NewestWindow(start, end) ==
    Max({c[1] : c \in {d \in Cells : HasRow(d) /\ InRange(d[1], start, end)}} \cup {-1})

HotTopZones(start, end) ==
    {c \in Cells : /\ c[2] # None /\ HasRow(c) /\ InRange(c[1], start, end)
                   /\ c[1] = NewestWindow(start, end)}

-----------------------------------------------------------------------------
(***************************************************************************)
(* The layers move                                                         *)
(***************************************************************************)
LogGrows ==
    /\ \E m \in Events \cup {Poison} : Produce(m)
    /\ UNCHANGED <<fallBacks, cold, recon, feedVars, panelVars, evaluation>>

HotReads == Read /\ UNCHANGED <<fallBacks, cold, recon, feedVars, panelVars, evaluation>>

HotShows(starts) ==
    /\ ShowWindows(starts)
    /\ UNCHANGED <<fallBacks, cold, recon, feedVars, panelVars, evaluation>>

HotRestarts ==
    /\ fallBacks < MaxFallBacks
    /\ FallBack
    /\ fallBacks' = fallBacks + 1
    /\ UNCHANGED <<cold, recon, feedVars, panelVars, evaluation>>

\* One run of cold_path_incremental: live days are recounted, each natural key
\* once; the backfilled days are not touched.
ColdRefreshes ==
    /\ cold' = [d \in Dates |->
                  IF d < LiveEraStart THEN cold[d]
                  ELSE Cardinality({log[i] : i \in {j \in Position :
                                      IsTrip(j) /\ DateOf(log[j].time) = d}})]
    /\ UNCHANGED <<log, read, table, fallBacks, recon, feedVars, panelVars, evaluation>>

\* The TTL of the cached answer has passed.
ReconExpires ==
    /\ recon # Uncached
    /\ recon' = Uncached
    /\ UNCHANGED <<log, read, table, fallBacks, cold, feedVars, panelVars, evaluation>>

\* What a page drawn now gets: the cached answer, or a new one.
ReconShown == IF recon = Uncached THEN Reconciliation ELSE recon

LayersMove ==
    \/ HotReads
    \/ \E starts \in SUBSET Windows : HotShows(starts)
    \/ HotRestarts
    \/ ColdRefreshes
    \/ ReconExpires

-----------------------------------------------------------------------------
(***************************************************************************)
(* Quotes, the sidebar's range and the feed                                *)
(***************************************************************************)
\* Mutant: an empty poll counts as a message.
ScoreUnbounded ==
    /\ scored' = scored + 1
    /\ UNCHANGED <<log, layerVars, quotes, age, page, feed, panelVars, evaluation>>

\* The predictor upserts the quote of a trip of the live era.
Score ==
    /\ scored < Len(log)
    /\ scored' = scored + 1
    /\ IF IsTrip(scored + 1) /\ DateOf(log[scored + 1].time) >= LiveEraStart
       THEN /\ quotes' = quotes \cup {log[scored + 1]}
            /\ age' = 0
       ELSE UNCHANGED <<quotes, age>>
    /\ UNCHANGED <<log, layerVars, page, feed, panelVars, evaluation>>

TimePasses ==
    /\ age # Never
    /\ age < StaleAfter
    /\ age' = age + 1
    /\ UNCHANGED <<log, layerVars, quotes, scored, page, feed, panelVars, evaluation>>

\* prediction_range and the date picker: any range within the scored days, or
\* today's date when nothing is scored, or was when the answer was cached.
Ranges ==
    LET days == {DateOf(q.time) : q \in quotes}
        scored_days == IF days = {} THEN {} ELSE Min(days) .. Max(days)
    IN  {r \in scored_days \X scored_days : r[1] <= r[2]} \cup {<<Today, Today>>}

\* live_predictions: the newest FeedLimit of the quotes in the range of p.
Matching(p) == {q \in quotes : InRange(q.time, p.start, p.end)}

\* Mutant: the oldest ones.
OldestFirst(p, shown) ==
    \A s \in shown, q \in Matching(p) \ shown : s.time <= q.time

NewestFirst(p, shown) ==
    \A s \in shown, q \in Matching(p) \ shown : q.time <= s.time

FeedResults(p) ==
    {shown \in SUBSET Matching(p) :
        /\ Cardinality(shown) = Min({FeedLimit, Cardinality(Matching(p))})
        /\ NewestFirst(p, shown)}

\* The script runs from top to bottom: the page is opened, reloaded, or one of
\* its widgets was touched.  What the hot panel showed is gone, half drawn or not;
\* its first run, too, is a step of its own, since the store goes on moving.
DrawPage ==
    /\ \E r \in Ranges, follow_live \in BOOLEAN :
        page' = [start |-> r[1] * Day,
                 end |-> IF follow_live THEN Null ELSE (r[2] + 1) * Day,
                 live |-> follow_live]
    /\ feed' \in FeedResults(page')
    /\ recon' = ReconShown
    /\ panel' = NoPage
    /\ UNCHANGED <<log, read, table, fallBacks, cold, quotes, scored, age,
                   windowsKept, zonesKept, evaluation>>

\* The fragment runs again, with the arguments the page was drawn with.
FeedRefreshes ==
    /\ page # NoPage
    /\ feed' \in FeedResults(page)
    /\ UNCHANGED <<log, layerVars, quotes, scored, age, page, panelVars, evaluation>>

FeedMoves == Score \/ TimePasses \/ DrawPage \/ FeedRefreshes

-----------------------------------------------------------------------------
(***************************************************************************)
(* The hot panel: two queries, one after the other, each with a cache of   *)
(* its own, by range.                                                      *)
(***************************************************************************)
RangeOf(p) == [start |-> p.start, end |-> p.end]

\* Every range a page can be drawn with.
PageRanges ==
    [start : {d * Day : d \in Dates \cup {Today}},
     end : {(d + 1) * Day : d \in Dates \cup {Today}} \cup {Null}]

KeptOr(kept, r, answer) == IF r \in DOMAIN kept THEN kept[r] ELSE answer

Keep(kept, r, answer) ==
    [k \in DOMAIN kept \cup {r} |-> IF k = r THEN answer ELSE kept[k]]

\* Mutant: an entry never expires.
ForgetNothing(kept, r) == kept

Forget(kept, r) == [k \in DOMAIN kept \ {r} |-> kept[k]]

\* The fragment runs, with the arguments the page was drawn with, up to its
\* second query; without a window in the range it returns early.
PanelReadsWindows ==
    /\ page # NoPage
    /\ panel # NoPage => ~panel.reading
    /\ LET r == RangeOf(page)
           windows == KeptOr(windowsKept, r, HotWindows(r.start, r.end))
       IN  /\ windowsKept' = Keep(windowsKept, r, windows)
           /\ panel' = [range |-> r, windows |-> windows, zones |-> {},
                        reading |-> windows # {}]
    /\ UNCHANGED <<log, layerVars, feedVars, zonesKept, evaluation>>

\* The second query, and the rest of the fragment.
PanelReadsZones ==
    /\ panel # NoPage
    /\ panel.reading
    /\ LET r == panel.range
           zones == KeptOr(zonesKept, r, HotTopZones(r.start, r.end))
       IN  /\ zonesKept' = Keep(zonesKept, r, zones)
           /\ panel' = [range |-> r, windows |-> panel.windows, zones |-> zones,
                        reading |-> FALSE]
    /\ UNCHANGED <<log, layerVars, feedVars, windowsKept, evaluation>>

WindowsExpire(r) ==
    /\ r \in DOMAIN windowsKept
    /\ windowsKept' = Forget(windowsKept, r)
    /\ UNCHANGED <<log, layerVars, feedVars, zonesKept, panel, evaluation>>

ZonesExpire(r) ==
    /\ r \in DOMAIN zonesKept
    /\ zonesKept' = Forget(zonesKept, r)
    /\ UNCHANGED <<log, layerVars, feedVars, windowsKept, panel, evaluation>>

PanelReads == PanelReadsWindows \/ PanelReadsZones

PanelMoves ==
    \/ PanelReads
    \/ \E r \in DOMAIN windowsKept : WindowsExpire(r)
    \/ \E r \in DOMAIN zonesKept : ZonesExpire(r)

-----------------------------------------------------------------------------
(***************************************************************************)
(* ml_daily_eval: one row per date and version, replaced when published.   *)
(***************************************************************************)
Publish ==
    /\ \E new \in EvalRows :
        evaluation' = {r \in evaluation : <<r.date, r.version>> # <<new.date, new.version>>}
                        \cup {new}
    /\ UNCHANGED <<log, layerVars, feedVars, panelVars>>

Next == LogGrows \/ LayersMove \/ FeedMoves \/ PanelMoves \/ Publish

Spec == Init /\ [][Next]_dashVars

(***************************************************************************)
(* The hot path reads and flushes, the incremental DAG comes round, cache  *)
(* entries expire, and both fragments are run every ten seconds.  Nobody   *)
(* need produce, restart, score, or draw the page again.                   *)
(***************************************************************************)
Fairness ==
    /\ WF_dashVars(HotReads)
    /\ WF_dashVars(HotShows(Windows))
    /\ WF_dashVars(ColdRefreshes)
    /\ WF_dashVars(ReconExpires)
    /\ WF_dashVars(FeedRefreshes)
    /\ WF_dashVars(PanelReads)
    /\ \A r \in PageRanges : WF_dashVars(WindowsExpire(r)) /\ WF_dashVars(ZonesExpire(r))

FairSpec == Spec /\ Fairness

-----------------------------------------------------------------------------
(***************************************************************************)
(* Properties                                                              *)
(***************************************************************************)
\* Every variable has the type of the table or the value it stands for.
TypeOK ==
    /\ log \in Seq(Events \cup {Poison})
    /\ read \in 0 .. Len(log)
    /\ \A c \in Cells : /\ table[c].counted \in [Position -> 0 .. 1]
                        /\ table[c].is_final \in BOOLEAN
    /\ fallBacks \in 0 .. MaxFallBacks
    /\ cold \in [Dates -> Nat]
    /\ recon # Uncached => recon \subseteq [date : Dates, cold : Nat, hot : Nat]
    /\ quotes \subseteq Events
    /\ scored \in 0 .. Len(log)
    /\ age \in 0 .. StaleAfter \cup {Never}
    /\ evaluation \subseteq EvalRows
    /\ page # NoPage => /\ page.start \in Nat /\ page.end \in Nat \cup {Null}
                        /\ page.live \in BOOLEAN
    /\ feed \subseteq quotes
    /\ \A r \in DOMAIN windowsKept : windowsKept[r] \subseteq Windows
    /\ \A r \in DOMAIN zonesKept : zonesKept[r] \subseteq Cells
    /\ panel # NoPage => /\ panel.windows \subseteq Windows
                         /\ panel.zones \subseteq Cells
                         /\ panel.reading \in BOOLEAN

\* The two queries of the hot panel look for the latest window each for itself
\* (queries.py:89-92, "the two have to agree on which window latest means"), one
\* after the other, with caches of their own, while the hot path goes on writing.
\* So the zones may be those of another window than the chart's last one.  But
\* the chart of the zones is never empty beside a window, it is about one window
\* of the range the page was drawn with, and that one is in the chart, or newer
\* than all of it, or older than all of a chart that is at its limit: never one
\* of which the chart says that there is none.
PanelDrawn == panel # NoPage /\ ~panel.reading /\ panel.windows # {}

OneWindowBeside(windows, zones) ==
    \E w \in {c[1] : c \in zones} :
        /\ \A c \in zones : c[1] = w
        /\ \/ w \in windows
           \/ \A v \in windows : v < w
           \/ Cardinality(windows) >= ChartLimit /\ \A v \in windows : w < v

ZonesStandByWindows ==
    PanelDrawn =>
        /\ OneWindowBeside(panel.windows, panel.zones)
        /\ \A c \in panel.zones : InRange(c[1], panel.range.start, panel.range.end)

\* When the replay has ended they do agree, from some time on and in whatever
\* range: a stale answer of one does not stay beside a new one of the other.
PanelSettles ==
    <>[](PanelDrawn => \A c \in panel.zones : c[1] = Max(panel.windows))

\* While one model is in use, "is this day unlike the others" (alerts.py:66-69)
\* is answered with yes for no more days than with no, an odd one counted in.
\* (A second model's rows break it: each old day is compared with the new rows.)
Accused == {r \in evaluation : \E a \in ModelError(evaluation) : a.date = r.date}
OneModel == \A r, q \in evaluation : r.version = q.version
TypicalDaysAreNotAccused ==
    OneModel => 2 * Cardinality(Accused) <= Cardinality(evaluation) + 1

\* The platform's central claim (queries.py:137-139): when the replay has ended,
\* the layers differ by what the topic holds twice, and from then on every page
\* drawn says so of the live days of which it holds enough twice to be worth
\* explaining (alerts.py:35-36; a smaller gap is expected, alerts.py:128-130), and
\* of no others, whatever it had cached and wherever the hot path restarted.
Flagged ==
    {a.date : a \in {b \in Evaluate(evaluation, ReconShown, age) : b.rule = "divergence"}}
Sent(d) == {i \in Position : IsTrip(i) /\ DateOf(log[i].time) = d}
Distinct(d) == Cardinality({log[i] : i \in Sent(d)})
SentTwice(d) == Cardinality(Sent(d)) - Distinct(d)
WorthExplaining(d) ==
    Distinct(d) > 0 /\ 100 * SentTwice(d) >= DivergenceWarn * Distinct(d)
DivergenceSettles ==
    <>[](Flagged = {d \in Dates : d >= LiveEraStart /\ WorthExplaining(d)})

\* "Pin the quote feed to the newest trips as they are scored" (app.py:122): a
\* page that follows live shows, again and again and without being drawn again,
\* each quote there is, or FeedLimit ones that are not older - if the range it was
\* drawn with begins before that trip, which it does not when nothing had been
\* scored by then.
Following(t) ==
    t \in quotes /\ page # NoPage /\ page.live /\ page.start <= t.time
InFeed(t) ==
    t \in feed \/ (Cardinality(feed) = FeedLimit /\ \A s \in feed : s.time >= t.time)
FollowLiveShowsScored ==
    []<>(\A t \in Events : Following(t) => InFeed(t))
=============================================================================
