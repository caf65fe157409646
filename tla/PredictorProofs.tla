-------------------------- MODULE PredictorProofs --------------------------
(***************************************************************************)
(* Theorems about Predictor, for every set of trips, batch size and number *)
(* of trainings, crashes, stops and offset resets.                         *)
(***************************************************************************)
EXTENDS Predictor, TLAPS

\* The part of PredictorInv that does not depend on the files.
QuotingInv == TypeOK /\ LoopInv /\ QuotedInv

-----------------------------------------------------------------------------
(***************************************************************************)
(* Lemmas about the operators                                              *)
(***************************************************************************)
\* Appending a message: the members grow by it and the rest stays in place.
LEMMA AppendFacts ==
    ASSUME NEW S, NEW s \in Seq(S), NEW x \in S
    PROVE  /\ Append(s, x) \in Seq(S)
           /\ Len(Append(s, x)) = Len(s) + 1
           /\ \A i \in 1 .. Len(s) : Append(s, x)[i] = s[i]
           /\ Members(s) \subseteq Members(Append(s, x))
           /\ x \in Members(Append(s, x))
<1>1. /\ Append(s, x) \in Seq(S)
      /\ Len(Append(s, x)) = Len(s) + 1
      /\ \A i \in 1 .. Len(s) : Append(s, x)[i] = s[i]
      /\ Append(s, x)[Len(s) + 1] = x
      /\ DOMAIN s = 1 .. Len(s)
      /\ DOMAIN Append(s, x) = 1 .. Len(s) + 1
      /\ Len(s) \in Nat
  OBVIOUS
<1>2. Members(s) \subseteq Members(Append(s, x))
  BY <1>1 DEF Members
<1>3. x \in Members(Append(s, x))
  BY <1>1 DEF Members
<1>4. QED
  BY <1>1, <1>2, <1>3

\* Upserting rows of the loaded model gives each of them a quote, keeps the
\* quotes there are, and leaves a table.
LEMMA UpsertFacts ==
    ASSUME TypeOK, loaded \in Models, described \in Models, NEW rows
    PROVE  /\ Upsert(rows) \in [Trips -> Quote \cup {NoQuote}]
           /\ \A t \in Trips : table[t] # NoQuote => Upsert(rows)[t] # NoQuote
           /\ \A t \in Trips : t \in Members(rows) => Upsert(rows)[t] # NoQuote
<1> DEFINE q == [by |-> loaded, version |-> VersionOf[described]]
<1>1. q \in Quote
  BY DEF Quote
<1>2. q # NoQuote
  BY <1>1, QuoteAssumption
<1>3. QED
  BY <1>1, <1>2 DEF Upsert, TypeOK

-----------------------------------------------------------------------------
(***************************************************************************)
(* The type invariant and the quotes                                       *)
(***************************************************************************)
LEMMA PredictorInit == Init => QuotingInv
<1> SUFFICES ASSUME Init PROVE QuotingInv
  OBVIOUS
<1> USE DEF Init
<1>1. TypeOK
  <2>1. /\ log \in Seq(Messages) /\ Len(log) = 0
        /\ batch \in Seq(Trips) /\ Len(batch) = 0
    OBVIOUS
  <2>2. committed \in 0 .. Len(log) /\ position \in 0 .. Len(log)
    BY <2>1
  <2>3. Len(batch) <= BatchSize
    BY <2>1, BatchAssumption
  <2>4. trained \in 0 .. MaxTrainings
    BY BoundsAssumption
  <2>5. /\ trainerCrashes \in 0 .. MaxTrainerCrashes
        /\ stops \in 0 .. MaxStops
        /\ resets \in 0 .. MaxResets
    BY BoundsAssumption
  <2>6. QED
    BY <2>1, <2>2, <2>3, <2>4, <2>5 DEF TypeOK
<1>2. LoopInv
  BY DEF LoopInv, Working
<1>3. QuotedInv
  BY DEF QuotedInv, CommittedTripsAreQuoted, Working
<1>4. QED
  BY <1>1, <1>2, <1>3 DEF QuotingInv

\* What the trainer does concerns the files only.
LEMMA TrainingKeepsInv ==
    ASSUME QuotingInv,
           TrainDump \/ TrainDumped \/ TrainWriteMeta \/ TrainDone
             \/ TrainerCrash
    PROVE  QuotingInv'
<1>1. UNCHANGED <<log, committed, table, pc, running, loaded, described,
                  position, batch, stops, resets>>
  BY DEF TrainDump, TrainDumped, TrainWriteMeta, TrainDone, TrainerCrash,
         memory
<1>2. TypeOK'
  <2>1. CASE TrainDump
    BY <1>1, <2>1, BoundsAssumption
    DEF TrainDump, QuotingInv, TypeOK, Absent, Torn, Models
  <2>2. CASE TrainDumped
    <3>1. trained \in Models \cup {Absent, Torn}
      BY DEF QuotingInv, TypeOK, Models, Absent
    <3>2. QED
      BY <1>1, <2>2, <3>1 DEF TrainDumped, QuotingInv, TypeOK
  <2>3. CASE TrainWriteMeta
    BY <1>1, <2>3 DEF TrainWriteMeta, QuotingInv, TypeOK
  <2>4. CASE TrainDone
    <3>1. trained \in Models \cup {Absent, Torn}
      BY DEF QuotingInv, TypeOK, Models, Absent
    <3>2. QED
      BY <1>1, <2>4, <3>1 DEF TrainDone, QuotingInv, TypeOK
  <2>5. CASE TrainerCrash
    BY <1>1, <2>5, BoundsAssumption
    DEF TrainerCrash, QuotingInv, TypeOK, Absent, Torn, Models
  <2>6. QED
    BY <2>1, <2>2, <2>3, <2>4, <2>5
<1>3. LoopInv'
  BY <1>1 DEF QuotingInv, LoopInv
<1>4. QuotedInv'
  BY <1>1 DEF QuotingInv, QuotedInv, CommittedTripsAreQuoted, Members,
              Scorable
<1>5. QED
  BY <1>2, <1>3, <1>4 DEF QuotingInv

\* Every step of the topic, the predictor and the operators keeps it too.
LEMMA PredictorNext == QuotingInv /\ [Next]_vars => QuotingInv'
<1> SUFFICES ASSUME QuotingInv, [Next]_vars
             PROVE  QuotingInv'
  OBVIOUS
<1> USE DEF QuotingInv
<1>0. /\ Len(log) \in Nat /\ Len(batch) \in Nat
      /\ \A i \in 1 .. Len(log) : log[i] \in Messages
  BY DEF TypeOK
<1>1. CASE Produce
  <2>1. PICK m \in Messages : log' = Append(log, m)
    BY <1>1 DEF Produce
  <2>2. UNCHANGED <<committed, table, artifact, metadata, trainer, trained,
                    trainerCrashes, pc, memory, stops, resets>>
    BY <1>1 DEF Produce, files
  <2>3. /\ log' \in Seq(Messages) /\ Len(log') = Len(log) + 1
        /\ \A i \in 1 .. Len(log) : log'[i] = log[i]
    BY <2>1, AppendFacts DEF TypeOK
  <2>4. TypeOK'
    <3>1. committed' \in 0 .. Len(log') /\ position' \in 0 .. Len(log')
      BY <2>2, <2>3, <1>0 DEF TypeOK, memory
    <3>2. QED
      BY <2>2, <2>3, <3>1 DEF TypeOK, memory
  <2>5. LoopInv'
    BY <2>2 DEF LoopInv, memory
  <2>6. /\ \A i \in 1 .. committed : log'[i] = log[i]
        /\ \A i \in 1 .. position : log'[i] = log[i]
    BY <2>3, <1>0 DEF TypeOK
  <2>7. QuotedInv'
    BY <2>2, <2>6 DEF QuotedInv, CommittedTripsAreQuoted, memory, Members,
                      Scorable
  <2>8. QED
    BY <2>4, <2>5, <2>7
<1>2. CASE TrainDump \/ TrainDumped \/ TrainWriteMeta \/ TrainDone
             \/ TrainerCrash
  BY <1>2, TrainingKeepsInv
<1>3. CASE ReadMetadata
  <2>1. TypeOK'
    BY <1>3 DEF ReadMetadata, TypeOK, files
  <2>2. LoopInv'
    BY <1>3 DEF ReadMetadata, LoopInv, Working
  <2>3. QuotedInv'
    BY <1>3 DEF ReadMetadata, QuotedInv, CommittedTripsAreQuoted, Working,
                Members, Scorable
  <2>4. QED
    BY <2>1, <2>2, <2>3
<1>4. CASE ReadArtifact
  <2>1. CASE artifact \in Models
    <3>1. /\ pc' = "poll" /\ loaded' = artifact
          /\ position' = committed /\ batch' = <<>>
          /\ UNCHANGED <<log, committed, table, files, running, described,
                         stops, resets>>
      BY <1>4, <2>1 DEF ReadArtifact
    <3>2. batch' \in Seq(Trips) /\ Len(batch') = 0 /\ Members(batch') = {}
      BY <3>1 DEF Members
    <3>3. TypeOK'
      BY <2>1, <3>1, <3>2, BatchAssumption DEF TypeOK, files
    <3>4. LoopInv'
      BY <1>4, <2>1, <3>1, <3>2, BatchAssumption
      DEF LoopInv, Working, ReadArtifact
    <3>5. QuotedInv'
      BY <3>1 DEF QuotedInv, CommittedTripsAreQuoted, Working, Scorable
    <3>6. QED
      BY <3>3, <3>4, <3>5
  <2>2. CASE artifact \notin Models
    <3>1. pc' = "down" /\ UNCHANGED <<log, committed, table, files, memory,
                                      stops, resets>>
      BY <1>4, <2>2 DEF ReadArtifact, memory
    <3>2. TypeOK' /\ LoopInv' /\ QuotedInv'
      BY <3>1 DEF TypeOK, LoopInv, QuotedInv, CommittedTripsAreQuoted,
                  Working, Scorable, files, memory
    <3>3. QED
      BY <3>2
  <2>3. QED
    BY <2>1, <2>2
<1>5. CASE Poll
  <2> DEFINE m == log[position + 1]
  <2>1. /\ position' = position + 1 /\ position + 1 \in 1 .. Len(log)
        /\ m \in Messages
        /\ UNCHANGED <<log, committed, table, files, running, loaded,
                       described, stops, resets>>
        /\ pc = "poll" /\ pc' \in {"poll", "write"}
        /\ pc' = "poll" => Len(batch') < BatchSize
    <3>1. position + 1 \in 1 .. Len(log)
      BY <1>0, <1>5 DEF Poll, TypeOK
    <3>2. Len(batch') >= BatchSize \/ pc' = "poll"
      BY <1>5 DEF Poll
    <3>3. \/ batch' = batch
          \/ batch' = Append(batch, m) /\ m \in Trips
      BY <1>5 DEF Poll, Scorable
    <3>4. Len(batch') \in Nat
      BY <3>3, <1>0, AppendFacts DEF TypeOK
    <3>5. pc' = "poll" => Len(batch') < BatchSize
      BY <1>5, <3>4, BatchAssumption DEF Poll
    <3>6. QED
      BY <1>0, <1>5, <3>1, <3>5 DEF Poll
  <2>2. batch' \in Seq(Trips) /\ Len(batch') <= BatchSize
        /\ Members(batch) \subseteq Members(batch')
        /\ (Scorable(m) => m \in Members(batch'))
    <3>1. CASE Scorable(m)
      <4>1. batch' = Append(batch, m) /\ m \in Trips
        BY <1>5, <3>1 DEF Poll, Scorable
      <4>2. Len(batch) < BatchSize
        BY <2>1 DEF LoopInv
      <4>3. /\ batch' \in Seq(Trips) /\ Len(batch') = Len(batch) + 1
            /\ Members(batch) \subseteq Members(batch')
            /\ m \in Members(batch')
        BY <4>1, AppendFacts DEF TypeOK
      <4>4. Len(batch) + 1 <= BatchSize
        BY <4>2, <1>0, BatchAssumption
      <4>5. QED
        BY <4>3, <4>4
    <3>2. CASE ~Scorable(m)
      <4>1. batch' = batch
        BY <1>5, <3>2 DEF Poll
      <4>2. QED
        BY <3>2, <4>1 DEF TypeOK
    <3>3. QED
      BY <3>1, <3>2
  <2>3. TypeOK'
    BY <2>1, <2>2 DEF TypeOK, files
  <2>4. LoopInv'
    BY <2>1 DEF LoopInv, Working
  <2>5. \A i \in 1 .. position' : Scorable(log[i]) =>
            table[log[i]] # NoQuote \/ log[i] \in Members(batch')
    <3> TAKE i \in 1 .. position'
    <3>1. i \in 1 .. position \/ i = position + 1
      BY <2>1 DEF TypeOK
    <3>2. CASE i \in 1 .. position
      BY <2>1, <2>2, <3>2 DEF QuotedInv, Working
    <3>3. CASE i = position + 1
      BY <2>2, <3>3
    <3>4. QED
      BY <3>1, <3>2, <3>3
  <2>6. QuotedInv'
    BY <2>1, <2>5 DEF QuotedInv, CommittedTripsAreQuoted, Scorable
  <2>7. QED
    BY <2>3, <2>4, <2>6
<1>6. CASE PollNothing \/ Finish \/ RequestStop
  <2>1. /\ UNCHANGED <<log, committed, table, files, loaded, described,
                       position, batch, resets>>
        /\ running' \in {running, FALSE}
    BY <1>6 DEF PollNothing, Finish, RequestStop, memory
  <2>0. /\ running' \in BOOLEAN
        /\ stops' \in 0 .. MaxStops
    <3>1. \/ stops' = stops
          \/ stops < MaxStops /\ stops' = stops + 1
      BY <1>6 DEF PollNothing, Finish, RequestStop
    <3>2. stops \in 0 .. MaxStops /\ MaxStops \in Nat
      BY BoundsAssumption DEF TypeOK
    <3>3. stops' \in 0 .. MaxStops
      BY <3>1, <3>2
    <3>4. running' \in BOOLEAN
      BY <2>1, Zenon DEF TypeOK
    <3>5. QED
      BY <3>3, <3>4
  <2>2. \/ pc' = pc \/ pc' = "down"
        \/ pc = "poll" /\ pc' = "write"
    BY <1>6 DEF PollNothing, Finish, RequestStop
  <2>3. TypeOK'
    BY <2>0, <2>1, <2>2 DEF TypeOK, files
  <2>4. LoopInv'
    BY <2>1, <2>2 DEF LoopInv, Working
  <2>5. QuotedInv'
    BY <2>1, <2>2 DEF QuotedInv, CommittedTripsAreQuoted, Working, Scorable
  <2>6. QED
    BY <2>3, <2>4, <2>5
<1>7. CASE Write
  <2>1. /\ loaded \in Models /\ described \in Models
        /\ pc = "write" /\ pc' = "commit" /\ table' = Upsert(batch)
        /\ UNCHANGED <<log, committed, files, memory, stops, resets>>
    BY <1>7 DEF Write, LoopInv, Working
  <2>2. /\ table' \in [Trips -> Quote \cup {NoQuote}]
        /\ \A t \in Trips : table[t] # NoQuote => table'[t] # NoQuote
        /\ \A t \in Trips : t \in Members(batch) => table'[t] # NoQuote
    BY <2>1, UpsertFacts
  <2>3. TypeOK'
    BY <2>1, <2>2 DEF TypeOK, files, memory
  <2>4. LoopInv'
    BY <2>1 DEF LoopInv, Working, memory
  <2>5. Members(batch) \subseteq Trips
    BY DEF Members, TypeOK
  <2>6. QuotedInv'
    BY <2>1, <2>2, <2>5
    DEF QuotedInv, CommittedTripsAreQuoted, Working, Scorable, memory
  <2>7. QED
    BY <2>3, <2>4, <2>6
<1>8. CASE WriteFails
  <2>1. /\ loaded \in Models /\ described \in Models
        /\ pc' = "down"
        /\ UNCHANGED <<log, committed, files, memory, resets>>
        /\ stops' \in 0 .. MaxStops
    BY <1>8, BoundsAssumption DEF WriteFails, LoopInv, Working, TypeOK
  <2>2. PICK n \in 0 .. Len(batch) : table' = Upsert(SubSeq(batch, 1, n))
    BY <1>8 DEF WriteFails
  <2>3. /\ table' \in [Trips -> Quote \cup {NoQuote}]
        /\ \A t \in Trips : table[t] # NoQuote => table'[t] # NoQuote
    BY <2>1, <2>2, UpsertFacts
  <2>4. TypeOK'
    BY <2>1, <2>3 DEF TypeOK, files, memory
  <2>5. LoopInv' /\ QuotedInv'
    BY <2>1, <2>3
    DEF LoopInv, QuotedInv, CommittedTripsAreQuoted, Working, Scorable
  <2>6. QED
    BY <2>4, <2>5
<1>9. CASE Commit
  <2>1. /\ committed' = position /\ batch' = <<>>
        /\ pc = "commit" /\ pc' \in {"poll", "down"}
        /\ UNCHANGED <<log, table, files, running, loaded, described, position,
                       stops, resets>>
    BY <1>9 DEF Commit
  <2>2. batch' \in Seq(Trips) /\ Len(batch') = 0
    BY <2>1
  <2>3. TypeOK'
    BY <2>1, <2>2, BatchAssumption DEF TypeOK, files
  <2>4. LoopInv'
    BY <2>1, <2>2, BatchAssumption DEF LoopInv, Working
  <2>5. \A i \in 1 .. position : Scorable(log[i]) => table[log[i]] # NoQuote
    BY <2>1 DEF QuotedInv, Working
  <2>6. QuotedInv'
    BY <2>1, <2>5 DEF QuotedInv, CommittedTripsAreQuoted, Scorable
  <2>7. QED
    BY <2>3, <2>4, <2>6
<1>10. CASE Crash
  <2>1. /\ pc' = "down" /\ stops' \in 0 .. MaxStops
        /\ UNCHANGED <<log, committed, table, files, memory, resets>>
    BY <1>10, BoundsAssumption DEF Crash, TypeOK
  <2>2. TypeOK' /\ LoopInv' /\ QuotedInv'
    BY <2>1 DEF TypeOK, LoopInv, QuotedInv, CommittedTripsAreQuoted, Working,
                Scorable, files, memory
  <2>3. QED
    BY <2>2
<1>11. CASE ResetOffsets
  <2>1. /\ committed' = 0 /\ resets' \in 0 .. MaxResets
        /\ UNCHANGED <<log, table, files, pc, memory, stops>>
        /\ pc \in {"down", "loading"}
    BY <1>11, BoundsAssumption DEF ResetOffsets, TypeOK
  <2>2. TypeOK'
    BY <2>1, <1>0 DEF TypeOK, files, memory
  <2>3. LoopInv' /\ QuotedInv'
    BY <2>1 DEF LoopInv, QuotedInv, CommittedTripsAreQuoted, Working,
                Scorable, memory
  <2>4. QED
    BY <2>2, <2>3
<1>12. CASE UNCHANGED vars
  BY <1>12 DEF vars, TypeOK, LoopInv, QuotedInv, CommittedTripsAreQuoted,
               Working, Scorable, Members
<1>13. QED
  BY <1>1, <1>2, <1>3, <1>4, <1>5, <1>6, <1>7, <1>8, <1>9, <1>10, <1>11,
     <1>12 DEF Next

\* The predictor's variables keep their types, and a batch its bound.
THEOREM PredictorTypes == Spec => []TypeOK
<1>1. Spec => []QuotingInv
  BY PredictorInit, PredictorNext, PTL DEF Spec
<1>2. QuotingInv => TypeOK
  BY DEF QuotingInv
<1>3. QED
  BY <1>1, <1>2, PTL

\* No crash, stop, broken write or reset ever leaves a committed trip without
\* its quote: predictor.py commits after it has written.
THEOREM CommittedTripsHaveQuotes == Spec => []CommittedTripsAreQuoted
<1>1. Spec => []QuotingInv
  BY PredictorInit, PredictorNext, PTL DEF Spec
<1>2. QuotingInv => CommittedTripsAreQuoted
  BY DEF QuotingInv, QuotedInv
<1>3. QED
  BY <1>1, <1>2, PTL

-----------------------------------------------------------------------------
(***************************************************************************)
(* The labels                                                              *)
(***************************************************************************)
LEMMA LabelInit == Init => FilesInv /\ LabelInv
  BY DEF Init, FilesInv, LabelInv, LabelNeverLeads, Absent, Models, Working

\* The table's labels are as good as the description in memory.
LEMMA UpsertLabels ==
    ASSUME TypeOK, LabelNeverLeads, loaded \in Models, described \in Models,
           described <= loaded, NEW rows, table' = Upsert(rows)
    PROVE  LabelNeverLeads'
<1> SUFFICES ASSUME NEW t \in Trips, table'[t] # NoQuote
             PROVE  \E m \in 1 .. table'[t].by : table'[t].version = VersionOf[m]
  BY DEF LabelNeverLeads
<1>1. CASE t \in Members(rows)
  <2>1. /\ table'[t] = [by |-> loaded, version |-> VersionOf[described]]
        /\ described \in 1 .. loaded
    BY <1>1 DEF Upsert, Models
  <2>2. QED
    BY <2>1
<1>2. CASE t \notin Members(rows)
  <2>1. table'[t] = table[t]
    BY <1>2 DEF Upsert
  <2>2. QED
    BY <2>1 DEF LabelNeverLeads
<1>3. QED
  BY <1>1, <1>2

LEMMA FilesNext ==
    ASSUME TypeOK, FilesInv, [Next]_vars
    PROVE  FilesInv'
<1> USE DEF FilesInv, Models, Absent, Torn
<1>1. /\ trained \in Nat /\ artifact \in Int /\ metadata \in Int
      /\ MaxTrainings \in Nat
  BY BoundsAssumption DEF TypeOK
<1>2. CASE TrainDump
  BY <1>1, <1>2 DEF TrainDump
<1>3. CASE TrainDumped
  BY <1>1, <1>3 DEF TrainDumped
<1>4. CASE TrainWriteMeta
  BY <1>1, <1>4 DEF TrainWriteMeta
<1>5. CASE TrainDone
  BY <1>1, <1>5 DEF TrainDone
<1>6. CASE TrainerCrash
  BY <1>1, <1>6 DEF TrainerCrash
<1>7. CASE UNCHANGED files
  BY <1>7 DEF files
<1>8. QED
  BY <1>2, <1>3, <1>4, <1>5, <1>6, <1>7
  DEF Next, vars, files, Produce, ReadMetadata, ReadArtifact, Poll, PollNothing,
      Finish, Write, WriteFails, Commit, RequestStop, Crash, ResetOffsets

LEMMA LabelNext ==
    ASSUME TypeOK, LoopInv, FilesInv, LabelInv, [Next]_vars
    PROVE  LabelInv'
<1>0. /\ trained \in Nat /\ artifact \in Int /\ metadata \in Int
      /\ described \in Int /\ loaded \in Int /\ MaxTrainings \in Nat
  BY BoundsAssumption DEF TypeOK, Models, Absent, Torn
<1>1. CASE TrainDump \/ TrainDumped \/ TrainWriteMeta \/ TrainDone
             \/ TrainerCrash
  <2>1. UNCHANGED <<table, pc, loaded, described>>
    BY <1>1 DEF TrainDump, TrainDumped, TrainWriteMeta, TrainDone,
                TrainerCrash, memory
  <2>2. /\ trained <= trained' /\ trained' \in Nat
        /\ artifact' \in {artifact, Torn, trained}
    BY <1>0, <1>1 DEF TrainDump, TrainDumped, TrainWriteMeta, TrainDone,
                      TrainerCrash
  <2>3. Torn \notin Models
    BY DEF Torn, Models
  <2>4. described' <= trained'
    BY <1>0, <2>1, <2>2 DEF LabelInv
  <2>5. pc' = "loading" /\ artifact' \in Models => described' <= artifact'
    BY <1>0, <2>1, <2>2, <2>3 DEF LabelInv
  <2>6. QED
    BY <2>1, <2>4, <2>5 DEF LabelInv, LabelNeverLeads, Working
<1>2. CASE ReadMetadata
  BY <1>0, <1>2 DEF ReadMetadata, files, LabelInv, LabelNeverLeads, Working,
                    FilesInv
<1>3. CASE ReadArtifact
  <2>1. UNCHANGED <<table, files, described>> /\ pc = "loading"
    BY <1>3 DEF ReadArtifact
  <2>2. \/ artifact \in Models /\ loaded' = artifact /\ pc' = "poll"
        \/ loaded' = loaded /\ pc' = "down"
    BY <1>3 DEF ReadArtifact
  <2>3. QED
    BY <2>1, <2>2 DEF LabelInv, LabelNeverLeads, Working, files
<1>4. CASE Write \/ WriteFails
  <2>1. /\ UNCHANGED <<files, loaded, described>>
        /\ pc = "write" /\ pc' \in {"commit", "down"}
        /\ \E rows : table' = Upsert(rows)
    BY <1>4 DEF Write, WriteFails, memory
  <2>2. loaded \in Models /\ described \in Models /\ described <= loaded
    BY <2>1 DEF LoopInv, LabelInv, Working
  <2>3. LabelNeverLeads'
    BY <2>1, <2>2, UpsertLabels DEF LabelInv
  <2>4. QED
    BY <2>1, <2>3 DEF LabelInv, Working, files
<1>5. CASE UNCHANGED <<table, files, loaded, described>>
             /\ (pc' = pc \/ pc' = "down" \/ (pc \in Working /\ pc' \in Working))
  BY <1>5 DEF LabelInv, LabelNeverLeads, Working, files
<1>6. CASE Produce \/ Poll \/ PollNothing \/ Finish \/ Commit \/ RequestStop
             \/ Crash \/ ResetOffsets \/ UNCHANGED vars
  <2>1. UNCHANGED <<table, files, loaded, described>>
    BY <1>6 DEF vars, files, memory, Produce, Poll, PollNothing, Finish,
                Commit, RequestStop, Crash, ResetOffsets
  <2>2. pc' = pc \/ pc' = "down" \/ (pc \in Working /\ pc' \in Working)
    BY <1>6 DEF vars, Produce, Poll, PollNothing, Finish, Commit, RequestStop,
                Crash, ResetOffsets, Working
  <2>3. QED
    BY <1>5, <2>1, <2>2
<1>7. QED
  BY <1>1, <1>2, <1>3, <1>4, <1>6 DEF Next

\* The inductive invariant: quotes follow the loop, labels follow the files.
THEOREM PredictorInvariant == Spec => []PredictorInv
<1>1. Init => PredictorInv
  BY PredictorInit, LabelInit DEF QuotingInv, PredictorInv
<1>2. PredictorInv /\ [Next]_vars => PredictorInv'
  BY PredictorNext, FilesNext, LabelNext DEF QuotingInv, PredictorInv
<1>3. QED
  BY <1>1, <1>2, PTL DEF Spec

\* However trainings, crashes of the trainer and restarts of the predictor
\* interleave, no quote is labelled with a model newer than the one that made it.
THEOREM LabelsNeverLead == Spec => []LabelNeverLeads
<1>1. PredictorInv => LabelNeverLeads
  BY DEF PredictorInv, LabelInv
<1>2. QED
  BY <1>1, PredictorInvariant, PTL
=============================================================================
