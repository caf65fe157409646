------------------------- MODULE HotPathRefinement -------------------------
(***************************************************************************)
(* HotPath implements LiveMetrics when the topic has one partition, events *)
(* arrive in pickup order and no transaction is refused.  The reader's     *)
(* progress is the consumer's fetch position: windows, watermark, commits  *)
(* and the loop's control are invisible.                                   *)
(***************************************************************************)
EXTENDS HotPath

ThePartition == CHOOSE p \in Partitions : TRUE

\* The rows as LiveMetrics has them: its messages are numbered from 1.
Rows ==
    [c \in Starts \X Keys |->
        [counted |-> [i \in 1 .. MaxLog |-> table[c].agg[<<ThePartition, i - 1>>]],
         is_final |-> table[c].is_final]]

Live == INSTANCE LiveMetrics WITH
    Events <- Event,
    ZoneKeys <- Keys,
    log <- log[ThePartition],
    read <- position[ThePartition],
    table <- Rows

\* Whatever the loop, the commits, two stops and the restarts after them do,
\* each row shown is a count of the messages up to the fetch position, each trip
\* once, and a restart goes back no further than trips in final rows allow
\* (windows.py:12-35, consumer.py:9-14).
ImplementsLiveMetrics == Live!LiveSpec
=============================================================================
