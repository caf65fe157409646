---------------------------- MODULE LiveMetrics ----------------------------
(***************************************************************************)
(* What the hot path promises a reader of trip_window_metrics, without     *)
(* saying how: no windows in memory, no commits, no transactions.  For one *)
(* partition filled in pickup order, somebody reads the topic, may fall    *)
(* back to an earlier message, and now and then shows windows; what is     *)
(* shown of a window is what a count from scratch of the messages read so  *)
(* far would give.  HotPath implements it (HotPathRefinement), and         *)
(* Dashboard uses it in place of HotPath.                                  *)
(***************************************************************************)
EXTENDS Integers, Sequences

CONSTANTS
    Events,    \* the trips that may be on the topic, [time, zone] and more
    Poison,    \* a message that is not a trip
    ZoneKeys,  \* the zones and None
    None,      \* the key of the citywide row
    Size,      \* WINDOW_MINUTES
    Grace,     \* GRACE_MINUTES
    Hour,      \* minutes in an hour
    MaxTime,   \* bound: pickup times are 0 .. MaxTime
    MaxLog     \* bound: messages

ASSUME LiveAssumption ==
    /\ Size \in Nat \ {0} /\ Hour \in Nat \ {0} /\ Grace \in Nat
    /\ Poison \notin Events
    /\ \A e \in Events : e.time \in Nat

VARIABLES
    log,    \* the topic
    read,   \* how many of its messages the reader has taken in
    table   \* trip_window_metrics

liveVars == <<log, read, table>>

Position == 1 .. MaxLog
StartOf(t) == t - ((t % Hour) % Size)
Windows == {StartOf(t) : t \in 0 .. MaxTime}
Cells == Windows \X ZoneKeys

IsTrip(i) == i \in DOMAIN log /\ log[i] # Poison

\* A trip belongs to two cells, its zone's and the citywide one.
Feeds(i, c) == IsTrip(i) /\ c[1] = StartOf(log[i].time) /\ c[2] \in {log[i].zone, None}

NoRow == [counted |-> [i \in Position |-> 0], is_final |-> FALSE]

\* A cell as the first n messages have it: every trip of it once, and final as
\* soon as one of them is later than the window's end and the grace.
AsOf(n, c) ==
    [counted |-> [i \in Position |-> IF i <= n /\ Feeds(i, c) THEN 1 ELSE 0],
     is_final |-> \E i \in 1 .. n : IsTrip(i) /\ c[1] + Size + Grace <= log[i].time]

LiveInit ==
    /\ log = <<>>
    /\ read = 0
    /\ table = [c \in Cells |-> NoRow]

\* The producer appends in pickup order, poison anywhere.
Produce(m) ==
    /\ Len(log) < MaxLog
    /\ m # Poison => \A i \in DOMAIN log : IsTrip(i) => log[i].time <= m.time
    /\ log' = Append(log, m)
    /\ UNCHANGED <<read, table>>

Read ==
    /\ read < Len(log)
    /\ read' = read + 1
    /\ UNCHANGED <<log, table>>

\* A restart falls back, but never before a trip that is not in the final rows
\* of its zone and of the city.
FallBack ==
    /\ \E n \in 0 .. read :
        /\ \A i \in 1 .. n : \A c \in Cells :
            Feeds(i, c) => table[c].is_final /\ table[c].counted[i] = 1
        /\ read' = n
    /\ UNCHANGED <<log, table>>

\* Some windows are shown, with all their rows that are not empty.
ShowWindows(starts) ==
    /\ table' = [c \in Cells |->
                    IF c[1] \in starts /\ AsOf(read, c).counted # NoRow.counted
                    THEN AsOf(read, c) ELSE table[c]]
    /\ UNCHANGED <<log, read>>

Show == \E starts \in SUBSET Windows : ShowWindows(starts)

LiveNext == (\E m \in Events \cup {Poison} : Produce(m)) \/ Read \/ FallBack \/ Show

LiveSpec == LiveInit /\ [][LiveNext]_liveVars

\* A final row counts each trip of its cell on the topic, read yet or to come,
\* and each just once: a rewritten row is a recount (db.py:32, "absolute upsert").
FinalRowsAreExact ==
    \A c \in Cells :
        table[c].is_final => table[c].counted = AsOf(Len(log), c).counted
=============================================================================
