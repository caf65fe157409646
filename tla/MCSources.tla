----------------------------- MODULE MCSources -----------------------------
(***************************************************************************)
(* A small instance of Sources for TLC.  Two kinds of editions: in "files" *)
(* everything runs, on few files of few rows; in "rows" nothing does, and  *)
(* the one row published differs from a normal one in any two columns.     *)
(***************************************************************************)
EXTENDS Sources

VARIABLE section

mcVars == <<vars, section>>

Normal == [c \in Columns |-> IF c \in Surcharges THEN 0 ELSE 1]
NoTip == [Normal EXCEPT !["tip_amount"] = Null]

ValuesOf(c) ==
    CASE c = "duration" -> {Absent, Null, -1, 0, 1}
      [] c = "payment_type" -> {Absent, Null, NaN, 0, 1, 2, 5}
      [] OTHER -> {Absent, Null, NaN, -1, 0, 1}
Raws ==
    UNION {UNION {{[Normal EXCEPT ![c] = v, ![d] = w] : v \in ValuesOf(c), w \in ValuesOf(d)} :
        c \in Columns} : d \in Columns}

At(t, raw) == [time |-> t, raw |-> raw]
RowEditions == {[m \in Months |-> IF m = 1 THEN <<At(0, raw)>> ELSE <<>>] : raw \in Raws}

\* The last row of a month comes first in its file.  The second one may be
\* refused, and then there is a stray from the other month.
FileOf(m) ==
    {<<At(Start(m) + 1, Normal), At(Start(m), Normal)>>,
     <<At(Start(m) + 1, Normal), At(Start(m), NoTip), At(Start(3 - m) + 1, Normal)>>}
FileEditions == {<<f, g>> : f \in FileOf(1), g \in FileOf(2)}

MCEditions == RowEditions \cup FileEditions
MCStarts == {Null, Cutoff, Cutoff + 1}
MCLimits == {Null, 3}

MCInit ==
    /\ Init
    /\ section = IF published \in FileEditions THEN "files" ELSE "rows"

MCNext == section = "files" /\ Next /\ UNCHANGED section

MCSpec == MCInit /\ [][MCNext]_mcVars
=============================================================================
