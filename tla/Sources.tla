------------------------------ MODULE Sources ------------------------------
(***************************************************************************)
(* The monthly files and everybody who takes trips from them:              *)
(*                                                                         *)
(*   data_fetcher/fetch.py   downloads them, with retries, and may be      *)
(*                           killed anywhere                               *)
(*   batch_jobs bulk_load    writes those at or before the cutoff to the   *)
(*                           lake, month by month                          *)
(*   simulator/replay.py     replays them in pickup order to the gateway   *)
(*   stream_to_lake          adds what was replayed past the cutoff        *)
(*   ml/train.py             samples the lake                              *)
(*                                                                         *)
(* They share nothing but the files, the topic and the lake, and run at    *)
(* any time.  A row is known by its place, <<month, number>>.  Lost and    *)
(* repeated requests are in Ingest, the writers' failures in ColdPath.     *)
(***************************************************************************)
EXTENDS Adapters, Sequences, SequencesExt

CONSTANTS
    NMonths,      \* months 1 .. NMonths
    MonthLength,  \* time units in a month; month 1 begins at 0
    Cutoff,       \* config.CUTOFF, an instant
    Editions,     \* what the publisher may have published, month by month
    Starts,       \* the values of START_DATETIME, Null if unset
    Limits,       \* the values of MAX_ROWS, Null if unset
    MaxAttempts,  \* download_month's max_attempts
    MaxKills      \* bound: fetchers and replays killed

Months == 1 .. NMonths
Start(m) == (m - 1) * MonthLength
MonthOf(t) == t \div MonthLength + 1

ASSUME MonthsAssumption == NMonths \in Nat \ {0} /\ MonthLength \in Nat \ {0}
\* A month's file is a sequence of raw records, strays from any time included.
ASSUME EditionsAssumption ==
    Editions \subseteq [Months -> Seq([time : Int, raw : RawRecord])]
\* The cutoff is the last instant of a month, 31 December 23:59:59 as configured.
ASSUME CutoffEndsAMonth == \E m \in Months : Cutoff = Start(m) + MonthLength - 1

ASSUME ArgumentsAssumption ==
    /\ Starts \subseteq Int \cup {Null} /\ Limits \subseteq Nat \cup {Null}
    /\ MaxAttempts \in Nat \ {0} /\ MaxKills \in Nat

VARIABLES
    published,  \* each month's rows, [time, raw], in the order of its file
    file,       \* each month's file: "none", "cut", "junk" or "whole"
    part,       \* the same for its .part
    fetcher,    \* the fetcher: its place in its range, and what has failed
    replay,     \* the simulator: its arguments, and its place in the files
    topic,      \* the rows that are on the topic
    lake,       \* the rows in the lake, by the writer
    loaded,     \* auxiliary: the months bulk_load has loaded
    model,      \* the rows the model may have been fitted on
    kills       \* fetchers and replays killed so far

files == <<published, file, part>>
vars == <<files, fetcher, replay, topic, lake, loaded, model, kills>>

RowsOf(m) == {<<m, i>> : i \in DOMAIN published[m]}
AllRows == UNION {RowsOf(m) : m \in Months}
Time(r) == published[r[1]][r[2]].time
Raw(r) == published[r[1]][r[2]].raw

\* A stray's pickup is outside the month it ships in.
InItsMonth(r) == MonthOf(Time(r)) = r[1]

NoFetch == [pc |-> "idle"]
NoReplay == [pc |-> "idle"]

Init ==
    /\ published \in Editions
    /\ file = [m \in Months |-> "none"]
    /\ part = [m \in Months |-> "none"]
    /\ fetcher = NoFetch
    /\ replay = NoReplay
    /\ topic = {}
    /\ lake = [w \in {"bulk", "stream"} |-> {}]
    /\ loaded = {}
    /\ model = {}
    /\ kills = 0

-----------------------------------------------------------------------------
(***************************************************************************)
(* The fetcher                                                             *)
(***************************************************************************)
\* The first four bytes are there from the first chunk on.
LooksLikeParquet(content) == content \in {"cut", "whole"}

StartFetch ==
    /\ fetcher.pc # "running"
    /\ \E first, last \in Months :
        /\ first <= last
        /\ fetcher' = [pc |-> "running", first |-> first, month |-> first, last |-> last,
                       attempt |-> 1, receiving |-> FALSE, failures |-> {}]
    /\ UNCHANGED <<files, replay, topic, lake, loaded, model, kills>>

Fetching(m) == fetcher.pc = "running" /\ fetcher.month = m

\* The list comprehension in main() goes on to the next month, or is done.
AfterMonth(failures) ==
    [fetcher EXCEPT !.pc = IF fetcher.month = fetcher.last THEN "exited" ELSE @,
                    !.month = @ + 1, !.attempt = 1, !.receiving = FALSE,
                    !.failures = failures]

Present(m) == LooksLikeParquet(file[m])

Skip(m) ==
    /\ Fetching(m)
    /\ fetcher.attempt = 1 /\ ~fetcher.receiving
    /\ Present(m)
    /\ fetcher' = AfterMonth(fetcher.failures)
    /\ UNCHANGED <<files, replay, topic, lake, loaded, model, kills>>

\* Mutant: the chunks are written under the final name.
ReceiveInPlace(m) ==
    /\ Fetching(m)
    /\ ~fetcher.receiving
    /\ fetcher.attempt = 1 => ~Present(m)
    /\ fetcher' = [fetcher EXCEPT !.receiving = TRUE]
    /\ \E content \in {"cut", "junk"} :
        /\ part' = [part EXCEPT ![m] = content]
        /\ file' = [file EXCEPT ![m] = content]
    /\ UNCHANGED <<published, replay, topic, lake, loaded, model, kills>>

\* The server answers, the .part is truncated, and some chunks are written.
Receive(m) ==
    /\ Fetching(m)
    /\ ~fetcher.receiving
    /\ fetcher.attempt = 1 => ~Present(m)
    /\ fetcher' = [fetcher EXCEPT !.receiving = TRUE]
    /\ \E content \in {"cut", "junk"} : part' = [part EXCEPT ![m] = content]
    /\ UNCHANGED <<published, file, replay, topic, lake, loaded, model, kills>>

\* The body has ended (one that ends too early is an HTTPError): it is a parquet
\* file, which is renamed.
Complete(m) ==
    /\ Fetching(m)
    /\ fetcher.receiving
    /\ LooksLikeParquet(part[m])
    /\ file' = [file EXCEPT ![m] = "whole"]
    /\ part' = [part EXCEPT ![m] = "none"]
    /\ fetcher' = AfterMonth(fetcher.failures)
    /\ UNCHANGED <<published, replay, topic, lake, loaded, model, kills>>

\* Mutant: the last attempt does not count as a failure.
AttemptFailedQuietly ==
    IF fetcher.attempt < MaxAttempts
    THEN [fetcher EXCEPT !.attempt = @ + 1, !.receiving = FALSE]
    ELSE AfterMonth(fetcher.failures)

\* Mutant: one attempt too many.
AttemptFailedLate ==
    IF fetcher.attempt <= MaxAttempts
    THEN [fetcher EXCEPT !.attempt = @ + 1, !.receiving = FALSE]
    ELSE AfterMonth(fetcher.failures \cup {fetcher.month})

AttemptFailed ==
    IF fetcher.attempt < MaxAttempts
    THEN [fetcher EXCEPT !.attempt = @ + 1, !.receiving = FALSE]
    ELSE AfterMonth(fetcher.failures \cup {fetcher.month})

\* No answer, an error status, an interrupted or a wrong body, a full disk.
Fail(m) ==
    /\ Fetching(m)
    /\ ~fetcher.receiving /\ fetcher.attempt = 1 => ~Present(m)
    /\ part' = [part EXCEPT ![m] = "none"]
    /\ fetcher' = AttemptFailed
    /\ UNCHANGED <<published, file, replay, topic, lake, loaded, model, kills>>

KillFetch ==
    /\ kills < MaxKills
    /\ fetcher.pc = "running"
    /\ fetcher' = NoFetch
    /\ kills' = kills + 1
    /\ UNCHANGED <<files, replay, topic, lake, loaded, model>>

FetchSteps == \E m \in Months : Skip(m) \/ Receive(m) \/ Complete(m) \/ Fail(m)

-----------------------------------------------------------------------------
(***************************************************************************)
(* The replay                                                              *)
(***************************************************************************)
\* Rows by pickup time; equal ones stay in the order of the file.  A row's place
\* is one past the number of rows before it.
Before(r, q) == Time(r) < Time(q) \/ (Time(r) = Time(q) /\ r[1] = q[1] /\ r[2] < q[2])
Place(rows, r) == Cardinality({q \in rows : Before(q, r)}) + 1
SortByPickup(rows) ==
    [i \in 1 .. Cardinality(rows) |-> CHOOSE r \in rows : Place(rows, r) = i]

FromStart(r, start) == start # Null => Time(r) >= start

\* Mutant: nothing is dropped.
PrepareWithStrays(m, start) == SortByPickup({r \in RowsOf(m) : FromStart(r, start)})

\* prepare_month: without the strays, sorted, from the start on, whether that is
\* cut off before the sort or after it.
PrepareMonth(m, start) ==
    SortByPickup({r \in RowsOf(m) : InItsMonth(r) /\ FromStart(r, start)})

\* discover_files: a .part does not match.  The first month is the start's.
DiscoverFiles(start) ==
    {m \in Months : file[m] # "none" /\ (start # Null => m >= MonthOf(start))}

\* The gateway is healthy within wait_for_gateway's attempts.
StartReplay ==
    /\ replay.pc # "running"
    /\ \E start \in Starts, limit \in Limits :
        /\ DiscoverFiles(start) # {}
        /\ replay' = [pc |-> "running", start |-> start, limit |-> limit,
                      found |-> DiscoverFiles(start), todo |-> DiscoverFiles(start),
                      rows |-> <<>>, emitted |-> <<>>]
    /\ UNCHANGED <<files, fetcher, topic, lake, loaded, model, kills>>

Enough(emitted) == replay.limit # Null /\ Len(emitted) >= replay.limit

\* table.slice(0, limit - emitted)
Slice(rows) ==
    IF replay.limit = Null THEN rows
    ELSE SubSeq(rows, 1, Min({Len(rows), replay.limit - Len(replay.emitted)}))

OpenMonth ==
    /\ replay.pc = "running"
    /\ replay.rows = <<>> /\ replay.todo # {}
    /\ ~Enough(replay.emitted)
    /\ LET m == Min(replay.todo)
       IN  replay' = [replay EXCEPT !.todo = @ \ {m},
                                    !.rows = Slice(PrepareMonth(m, replay.start))]
    /\ UNCHANGED <<files, fetcher, topic, lake, loaded, model, kills>>

\* A row is posted; 202 puts it on the topic, 422 is counted and forgotten.
PostRow ==
    /\ replay.pc = "running"
    /\ replay.rows # <<>>
    /\ LET r == Head(replay.rows)
       IN  /\ replay' = [replay EXCEPT !.rows = Tail(@), !.emitted = Append(@, r)]
           /\ topic' = IF AdaptTlc(CleanRow(Raw(r))) # Rejected THEN topic \cup {r} ELSE topic
    /\ UNCHANGED <<files, fetcher, lake, loaded, model, kills>>

FinishReplay ==
    /\ replay.pc = "running"
    /\ replay.rows = <<>>
    /\ replay.todo = {} \/ Enough(replay.emitted)
    /\ replay' = [replay EXCEPT !.pc = "done"]
    /\ UNCHANGED <<files, fetcher, topic, lake, loaded, model, kills>>

KillReplay ==
    /\ kills < MaxKills
    /\ replay.pc = "running"
    /\ replay' = NoReplay
    /\ kills' = kills + 1
    /\ UNCHANGED <<files, fetcher, topic, lake, loaded, model>>

ReplaySteps == OpenMonth \/ PostRow \/ FinishReplay

-----------------------------------------------------------------------------
(***************************************************************************)
(* The lake and the model                                                  *)
(***************************************************************************)
\* Mutant: the cutoff itself belongs to nobody.
HistoryOpen(t) == t < Cutoff

History(t) == t <= Cutoff
Live(t) == t > Cutoff

\* _valid_month refuses later months; strays and rejected rows are dropped.
BulkLoad(m) ==
    /\ Start(m) <= Cutoff
    /\ file[m] = "whole"
    /\ lake' = [lake EXCEPT !["bulk"] = (@ \ RowsOf(m)) \cup
                    {r \in RowsOf(m) : /\ AdaptTlcBatch(Raw(r)) # Rejected
                                       /\ InItsMonth(r)
                                       /\ History(Time(r))}]
    /\ loaded' = loaded \cup {m}
    /\ UNCHANGED <<files, fetcher, replay, topic, model, kills>>

StreamToLake ==
    /\ lake' = [lake EXCEPT !["stream"] = {r \in topic : Live(Time(r))}]
    /\ UNCHANGED <<files, fetcher, replay, topic, loaded, model, kills>>

\* Mutant: every month of the lake.
AllMonths == Months

\* _load_sample: the months whose first instant is not past the cutoff.
TrainedMonths == {m \in Months : Start(m) <= Cutoff}

Sampled == {r \in lake["bulk"] \cup lake["stream"] : MonthOf(Time(r)) \in TrainedMonths}

\* The sample may be any of the trips of these months, whoever wrote them.
Train ==
    /\ Sampled # {}
    /\ model' = Sampled
    /\ UNCHANGED <<files, fetcher, replay, topic, lake, loaded, kills>>

Next ==
    \/ StartFetch \/ FetchSteps \/ KillFetch
    \/ StartReplay \/ ReplaySteps \/ KillReplay
    \/ (\E m \in Months : BulkLoad(m)) \/ StreamToLake \/ Train

Spec == Init /\ [][Next]_vars

-----------------------------------------------------------------------------
(***************************************************************************)
(* Properties                                                              *)
(***************************************************************************)
\* Every variable has the type of what it stands for.
TypeOK ==
    /\ published \in Editions
    /\ {file, part} \subseteq [Months -> {"none", "cut", "junk", "whole"}]
    /\ fetcher.pc \in {"idle", "running", "exited"}
    /\ fetcher.pc = "running" =>
        /\ fetcher.month \in fetcher.first .. fetcher.last
        /\ fetcher.attempt \in 1 .. MaxAttempts
        /\ fetcher.failures \subseteq fetcher.first .. fetcher.month - 1
    /\ replay.pc \in {"idle", "running", "done"}
    /\ replay.pc # "idle" => {Range(replay.rows), Range(replay.emitted)} \subseteq SUBSET AllRows
    /\ {topic, lake["bulk"], lake["stream"], model} \subseteq SUBSET AllRows
    /\ loaded \subseteq Months
    /\ kills \in 0 .. MaxKills

\* What a reader finds under a month's name is the whole file, wherever a
\* fetcher was killed and whatever it was sent (fetch.py:82, "download to a temp
\* path, rename on success"): only the first bytes are ever looked at.
FilesAreWhole == \A m \in Months : file[m] \in {"none", "whole"}

\* The exit code 0 means that each month asked for is there (fetch.py:129,
\* "month(s) available").
ExitCodeIsTruth ==
    fetcher.pc = "exited" /\ fetcher.failures = {} =>
        \A m \in fetcher.first .. fetcher.last : file[m] = "whole"

\* One month at a time yields "the same sequence a global sort would"
\* (replay.py:149): what was replayed so far is a beginning of all the rows of
\* the files found, in pickup order from the start on, strays aside, and a
\* replay that is done has replayed as many of them as it was asked for.
Wanted(months, start) ==
    {r \in UNION {RowsOf(m) : m \in months} : InItsMonth(r) /\ FromStart(r, start)}
Reference == SortByPickup(Wanted(replay.found, replay.start))
ReplayIsGloballySorted ==
    replay.pc # "idle" =>
        /\ IsPrefix(replay.emitted, Reference)
        /\ replay.limit # Null => Len(replay.emitted) <= replay.limit
        /\ replay.pc = "done" => Len(replay.emitted) = Len(Reference) \/ Enough(replay.emitted)

\* A record means the same on both paths (test_adapter_conformance.py): both
\* refuse it, or both make the same event of it.  NaNs are left to the two late
\* columns: elsewhere the simulator sends them as nulls, which the gateway
\* refuses or takes as unknown, while Spark lets them pass or makes them zero.
NaNsAreLate(raw) == \A c \in Columns \ LateAdded : raw[c] # NaN
PathsAgree ==
    \A r \in AllRows : NaNsAreLate(Raw(r)) => AdaptTlc(CleanRow(Raw(r))) = AdaptTlcBatch(Raw(r))

\* The cutoff is "the single boundary that divides the two lake writers"
\* (config.py:14): no row is written by both, and once the months up to it are
\* loaded, and a replay from no later than the instant after it is done and
\* streamed, each valid trip of the files is in the lake.
Valid(r) == InItsMonth(r) /\ NaNsAreLate(Raw(r)) /\ AdaptTlcBatch(Raw(r)) # Rejected
Replayed == /\ replay.pc = "done" /\ replay.limit = Null
            /\ replay.start # Null => replay.start <= Cutoff + 1
Streamed == {r \in topic : Time(r) > Cutoff} = lake["stream"]
EachTripHasOneWriter ==
    /\ lake["bulk"] \cap lake["stream"] = {}
    /\ Replayed /\ Streamed =>
        \A m \in loaded \cup (replay.found \ TrainedMonths) :
            \A r \in RowsOf(m) : Valid(r) => r \in lake["bulk"] \cup lake["stream"]

\* "The model can never be evaluated on a day it was trained on"
\* (ml/config.py:16-17), though the lake it samples holds the streamed days too.
NothingLearnedIsScored == \A r \in model : Time(r) <= Cutoff
=============================================================================
