------------------------ MODULE MCTimestampedObject ------------------------
(* Three transactions, ids 1 < 2 < 3, so that a write or commit can fall  *)
(* between the version a reader saw and the reader itself.  Values include *)
(* a negative one so that the consistency check can fail.                 *)
EXTENDS TimestampedObject

MCTxIds == 1..3
MCValues == {-1, 1, 2}

\* The object implements SerialObject: its committed timestamp and value
\* are the installed version, its tentative writes the intents; reads and
\* commits with nothing to commit are stuttering steps.
Serial == INSTANCE SerialObject
    WITH ts <- obj.committed, value <- obj.value, intents <- obj.tentative,
         Values <- MCValues

\* Versions are installed in timestamp order, each passing the consistency
\* check and holding the value its writer last wrote (TimestampedObject
\* commit after check_commit, abort dropping the tentative write).
SerialRefinement == Serial!Spec
=============================================================================
