----------------------------- MODULE Predictor -----------------------------
(***************************************************************************)
(* The fare model's life: a trainer writes an artifact and then its        *)
(* metadata (ml/train.py), a predictor loads the metadata and then the     *)
(* artifact, scores the trips of the topic in batches, upserts the quotes  *)
(* by event id and commits its offsets (ml/predictor.py).                  *)
(*                                                                         *)
(* Models are numbered in the order they are trained.  A quote is modelled *)
(* by the model that computed it and the version it is labelled with.      *)
(***************************************************************************)
EXTENDS Integers, Sequences

CONSTANTS
    Trips,             \* event ids
    Pickup,            \* the pickup time of each
    Cutoff,            \* config.CUTOFF
    Malformed,         \* a message _prepare raises on
    NoQuote,           \* no row in fare_predictions
    VersionOf,         \* MODEL_VERSION when each model was trained
    BatchSize,         \* WRITE_BATCH_SIZE
    MaxLog,            \* bound: messages on the topic
    MaxTrainings,      \* bound: models trained
    MaxTrainerCrashes, \* bound: trainers that die while writing
    MaxStops,          \* bound: ends of the predictor, graceful or not
    MaxResets          \* bound: offset resets

ASSUME TripsAssumption ==
    /\ Malformed \notin Trips
    /\ Pickup \in [Trips -> Int]
    /\ Cutoff \in Int
ASSUME BatchAssumption == BatchSize \in Nat \ {0}
ASSUME BoundsAssumption ==
    /\ MaxLog \in Nat
    /\ MaxTrainings \in Nat
    /\ MaxTrainerCrashes \in Nat
    /\ MaxStops \in Nat
    /\ MaxResets \in Nat

Models == 1 .. MaxTrainings
Messages == Trips \cup {Malformed}
Quote == [by : Models, version : {VersionOf[m] : m \in Models}]
ASSUME QuoteAssumption == NoQuote \notin Quote

\* What a file of the model directory holds: a model number, or one of these.
Absent == 0
Torn == -1    \* opened for writing and not yet, or never, completed

VARIABLES
    log,        \* tlc-raw-events
    committed,  \* offset of the group ml-predictor
    table,      \* fare_predictions
    artifact,   \* fare_model.joblib
    metadata,   \* fare_model.json
    trainer,    \* "idle", "dumping", "dumped" or "describing"
    trained,    \* number of trainings begun
    pc,         \* where the predictor is, "down" when it is not running
    running,    \* _running
    loaded,     \* the model in memory
    described,  \* the model whose metadata gave model_version
    position,   \* offset of the next message poll returns
    batch,      \* prepared rows not yet flushed
    trainerCrashes, stops, resets  \* faults so far

files == <<artifact, metadata, trainer, trained, trainerCrashes>>
memory == <<running, loaded, described, position, batch>>
vars == <<log, committed, table, artifact, metadata, trainer, trained, pc,
          running, loaded, described, position, batch, trainerCrashes, stops,
          resets>>

Init ==
    /\ log = <<>>
    /\ committed = 0
    /\ table = [t \in Trips |-> NoQuote]
    /\ artifact = Absent
    /\ metadata = Absent
    /\ trainer = "idle"
    /\ trained = 0
    /\ pc = "down"
    /\ running = FALSE
    /\ loaded = Absent
    /\ described = Absent
    /\ position = 0
    /\ batch = <<>>
    /\ trainerCrashes = 0
    /\ stops = 0
    /\ resets = 0

-----------------------------------------------------------------------------
(***************************************************************************)
(* The topic, and train(): joblib.dump, then write_text of the metadata.   *)
(***************************************************************************)
Produce ==
    /\ Len(log) < MaxLog
    /\ \E m \in Messages : log' = Append(log, m)
    /\ UNCHANGED <<committed, table, files, pc, memory, stops, resets>>

\* Mutant: the metadata is written before the artifact is opened.
DescribeBeforeDump ==
    /\ trainer = "idle"
    /\ trained < MaxTrainings
    /\ trainer' = "dumping"
    /\ trained' = trained + 1
    /\ metadata' = trained + 1
    /\ UNCHANGED <<log, committed, table, artifact, pc, memory, trainerCrashes,
                   stops, resets>>

TrainDump ==
    /\ trainer = "idle"
    /\ trained < MaxTrainings
    /\ trainer' = "dumping"
    /\ trained' = trained + 1
    /\ artifact' = Torn
    /\ UNCHANGED <<log, committed, table, metadata, pc, memory, trainerCrashes,
                   stops, resets>>

TrainDumped ==
    /\ trainer = "dumping"
    /\ trainer' = "dumped"
    /\ artifact' = trained
    /\ UNCHANGED <<log, committed, table, metadata, trained, pc, memory,
                   trainerCrashes, stops, resets>>

TrainWriteMeta ==
    /\ trainer = "dumped"
    /\ trainer' = "describing"
    /\ metadata' = Torn
    /\ UNCHANGED <<log, committed, table, artifact, trained, pc, memory,
                   trainerCrashes, stops, resets>>

TrainDone ==
    /\ trainer = "describing"
    /\ trainer' = "idle"
    /\ metadata' = trained
    /\ UNCHANGED <<log, committed, table, artifact, trained, pc, memory,
                   trainerCrashes, stops, resets>>

TrainerCrash ==
    /\ trainer # "idle"
    /\ trainerCrashes < MaxTrainerCrashes
    /\ trainerCrashes' = trainerCrashes + 1
    /\ trainer' = "idle"
    /\ UNCHANGED <<log, committed, table, artifact, metadata, trained, pc,
                   memory, stops, resets>>

-----------------------------------------------------------------------------
(***************************************************************************)
(* run(): loading.  Any exception ends the process, which is restarted.    *)
(***************************************************************************)
\* _load_model up to the metadata; without an artifact or readable metadata it
\* raises and the process is as it was.
ReadMetadata ==
    /\ pc = "down"
    /\ artifact # Absent
    /\ metadata \in Models
    /\ pc' = "loading"
    /\ running' = TRUE
    /\ described' = metadata
    /\ UNCHANGED <<log, committed, table, files, loaded, position, batch,
                   stops, resets>>

\* Mutant: an incomplete artifact is loaded all the same.
ReadWhatIsThere ==
    /\ pc = "loading"
    /\ pc' = "poll"
    /\ loaded' = artifact
    /\ position' = committed
    /\ batch' = <<>>
    /\ UNCHANGED <<log, committed, table, files, running, described, stops,
                   resets>>

\* joblib.load, the database and the subscription, which resumes at the
\* committed offset, or at the beginning of the topic.
ReadArtifact ==
    /\ pc = "loading"
    /\ IF artifact \in Models
       THEN /\ pc' = "poll"
            /\ loaded' = artifact
            /\ position' = committed
            /\ batch' = <<>>
       ELSE pc' = "down" /\ UNCHANGED <<loaded, position, batch>>
    /\ UNCHANGED <<log, committed, table, files, running, described, stops,
                   resets>>

-----------------------------------------------------------------------------
(***************************************************************************)
(* run(): the loop                                                         *)
(***************************************************************************)
Scorable(m) == m \in Trips /\ Pickup[m] > Cutoff

\* Mutant: the offsets are committed by the poll that fills the batch.
PollAndCommit ==
    /\ pc = "poll"
    /\ running
    /\ position < Len(log)
    /\ position' = position + 1
    /\ LET m == log[position + 1]
       IN  /\ batch' = IF Scorable(m) THEN Append(batch, m) ELSE batch
           /\ pc' = IF Len(batch') >= BatchSize THEN "write" ELSE "poll"
           /\ committed' = IF Len(batch') >= BatchSize THEN position'
                                                       ELSE committed
    /\ UNCHANGED <<log, table, files, running, loaded, described, stops, resets>>

Poll ==
    /\ pc = "poll"
    /\ running
    /\ position < Len(log)
    /\ position' = position + 1
    /\ LET m == log[position + 1]
       IN  /\ batch' = IF Scorable(m) THEN Append(batch, m) ELSE batch
           /\ pc' = IF Len(batch') >= BatchSize THEN "write" ELSE "poll"
    /\ UNCHANGED <<log, committed, table, files, running, loaded, described,
                   stops, resets>>

\* Nothing arrived for a second, which may be although there is something.
PollNothing ==
    /\ pc = "poll"
    /\ running
    /\ batch # <<>>
    /\ pc' = "write"
    /\ UNCHANGED <<log, committed, table, files, memory, stops, resets>>

\* The end of run() after a signal.
Finish ==
    /\ pc = "poll"
    /\ ~running
    /\ pc' = IF batch # <<>> THEN "write" ELSE "down"
    /\ UNCHANGED <<log, committed, table, files, memory, stops, resets>>

Members(seq) == {seq[i] : i \in DOMAIN seq}

\* Mutant: a quote that is there already stays (ON CONFLICT DO NOTHING).
InsertIfAbsent(rows) ==
    [t \in Trips |-> IF t \in Members(rows) /\ table[t] = NoQuote
                     THEN [by |-> loaded, version |-> VersionOf[described]]
                     ELSE table[t]]

\* _UPSERT for each of rows.
Upsert(rows) ==
    [t \in Trips |-> IF t \in Members(rows)
                     THEN [by |-> loaded, version |-> VersionOf[described]]
                     ELSE table[t]]

Write ==
    /\ pc = "write"
    /\ table' = Upsert(batch)
    /\ pc' = "commit"
    /\ UNCHANGED <<log, committed, files, memory, stops, resets>>

\* The connection is in autocommit mode: what was sent before it broke stays.
WriteFails ==
    /\ pc = "write"
    /\ stops < MaxStops
    /\ stops' = stops + 1
    /\ \E n \in 0 .. Len(batch) : table' = Upsert(SubSeq(batch, 1, n))
    /\ pc' = "down"
    /\ UNCHANGED <<log, committed, files, memory, resets>>

\* commit() commits the position, past the skipped messages too.  When it
\* raises, that is a Crash.
Commit ==
    /\ pc = "commit"
    /\ committed' = position
    /\ batch' = <<>>
    /\ pc' = IF running THEN "poll" ELSE "down"
    /\ UNCHANGED <<log, table, files, running, loaded, described, position,
                   stops, resets>>

-----------------------------------------------------------------------------
(***************************************************************************)
(* The outside                                                             *)
(***************************************************************************)
RequestStop ==
    /\ pc # "down"
    /\ running
    /\ stops < MaxStops
    /\ stops' = stops + 1
    /\ running' = FALSE
    /\ UNCHANGED <<log, committed, table, files, pc, loaded, described,
                   position, batch, resets>>

Crash ==
    /\ pc # "down"
    /\ stops < MaxStops
    /\ stops' = stops + 1
    /\ pc' = "down"
    /\ UNCHANGED <<log, committed, table, files, memory, resets>>

\* kafka-consumer-groups --reset-offsets --to-earliest, which Kafka refuses
\* while the group has a member.
ResetOffsets ==
    /\ pc \in {"down", "loading"}
    /\ resets < MaxResets
    /\ resets' = resets + 1
    /\ committed' = 0
    /\ UNCHANGED <<log, table, files, pc, memory, stops>>

-----------------------------------------------------------------------------
Next ==
    \/ Produce
    \/ TrainDump \/ TrainDumped \/ TrainWriteMeta \/ TrainDone \/ TrainerCrash
    \/ ReadMetadata \/ ReadArtifact
    \/ Poll \/ PollNothing \/ Finish \/ Write \/ WriteFails \/ Commit
    \/ RequestStop \/ Crash \/ ResetOffsets

Spec == Init /\ [][Next]_vars

\* Training goes on until one succeeds; the predictor is restarted
\* (`restart: unless-stopped'), polls, writes and commits.
Fairness ==
    /\ WF_vars(TrainDump \/ TrainDumped \/ TrainWriteMeta \/ TrainDone)
    /\ WF_vars(ReadMetadata) /\ WF_vars(ReadArtifact)
    /\ WF_vars(Poll) /\ WF_vars(PollNothing) /\ WF_vars(Finish)
    /\ WF_vars(Write) /\ WF_vars(Commit)

FairSpec == Spec /\ Fairness

-----------------------------------------------------------------------------
(***************************************************************************)
(* Properties                                                              *)
(***************************************************************************)
\* Every variable has its type; a batch never outgrows WRITE_BATCH_SIZE.
TypeOK ==
    /\ log \in Seq(Messages)
    /\ committed \in 0 .. Len(log)
    /\ table \in [Trips -> Quote \cup {NoQuote}]
    /\ artifact \in Models \cup {Absent, Torn}
    /\ metadata \in Models \cup {Absent, Torn}
    /\ trainer \in {"idle", "dumping", "dumped", "describing"}
    /\ trained \in 0 .. MaxTrainings
    /\ pc \in {"down", "loading", "poll", "write", "commit"}
    /\ running \in BOOLEAN
    /\ loaded \in Models \cup {Absent}
    /\ described \in Models \cup {Absent}
    /\ position \in 0 .. Len(log)
    /\ batch \in Seq(Trips) /\ Len(batch) <= BatchSize
    /\ trainerCrashes \in 0 .. MaxTrainerCrashes
    /\ stops \in 0 .. MaxStops
    /\ resets \in 0 .. MaxResets

\* A trip whose offset is committed has a quote: a crash re-delivers rather
\* than loses (predictor.py:165-166, 242-244).
CommittedTripsAreQuoted ==
    \A i \in 1 .. committed : Scorable(log[i]) => table[log[i]] # NoQuote

\* While training goes on, a quote may be labelled with the version of an
\* older model than the one that computed it, never of a newer one.
LabelNeverLeads ==
    \A t \in Trips : table[t] # NoQuote =>
        \E m \in 1 .. table[t].by : table[t].version = VersionOf[m]

\* "Which model produced the quote" (ml/sql/schema.sql:38-40).
QuotesNameTheirModel ==
    \A t \in Trips : table[t] # NoQuote =>
        table[t].version = VersionOf[table[t].by]

\* Why types and quotes hold.  While the loop runs, a model and a description
\* are loaded, a scorable trip before the position has a quote or is in the
\* batch, and before a commit the whole batch has quotes.
Working == {"poll", "write", "commit"}
LoopInv ==
    /\ pc = "poll" => Len(batch) < BatchSize
    /\ pc \in Working \cup {"loading"} => described \in Models
    /\ pc \in Working => loaded \in Models
QuotedInv ==
    /\ CommittedTripsAreQuoted
    /\ pc \in Working =>
         \A i \in 1 .. position : Scorable(log[i]) =>
             table[log[i]] # NoQuote \/ log[i] \in Members(batch)
    /\ pc = "commit" => \A t \in Members(batch) : table[t] # NoQuote

\* Why labels never lead: the files go forward, the artifact first, and the
\* metadata is read before the artifact.
FilesInv ==
    /\ trainer # "idle" => trained >= 1
    /\ trainer \in {"dumped", "describing"} => artifact = trained
    /\ artifact <= trained
    /\ metadata <= trained
    /\ artifact \in Models => metadata <= artifact
LabelInv ==
    /\ described <= trained
    /\ pc = "loading" /\ artifact \in Models => described <= artifact
    /\ pc \in Working => described <= loaded
    /\ LabelNeverLeads

\* The inductive invariant that PredictorProofs proves: the quotes follow the
\* loop and the labels follow the files, whatever crashes in between.
PredictorInv == TypeOK /\ LoopInv /\ QuotedInv /\ FilesInv /\ LabelInv

\* A trip of the topic gets a quote, across crashes, stops and resets, if the
\* trainers leave a complete model behind.
Arrived(t) == \E i \in DOMAIN log : log[i] = t
ModelStays == <>[](artifact \in Models /\ metadata \in Models)
EveryTripIsQuoted ==
    ModelStays =>
        \A t \in Trips : Arrived(t) /\ Scorable(t) ~> table[t] # NoQuote

\* A predictor that starts with model m at the beginning of the topic rewrites
\* every quote there is with m or a later one (predictor.py:152-163).
Rescored(m) ==
    \A t \in Trips : table[t] # NoQuote => table[t].by >= m
RescoringCompletes ==
    ModelStays =>
        \A m \in Models :
            (pc = "poll" /\ loaded = m /\ position = 0) ~> Rescored(m)
=============================================================================
