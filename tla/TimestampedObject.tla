-------------------------- MODULE TimestampedObject --------------------------
(***************************************************************************)
(* Timestamp-ordered concurrency control on one object, as implemented by *)
(* TimestampedObject<T> in src/tx-server/src/sharding/object.rs.          *)
(*                                                                         *)
(* A transaction id is a positive natural; the encoding of the source's   *)
(* (counter, node) pair into a natural that keeps its lexicographic order *)
(* is given in Cluster.tla.  NoTx (0) is the default id whose counter is  *)
(* 0, i.e. "never committed".                                             *)
(*                                                                         *)
(* The first part defines the object's operations as operators on an     *)
(* object record, so that Cluster.tla can apply them to every key of a    *)
(* shard.  The second part is a specification of a single object driven   *)
(* by transactions that call its methods in any order, as the unit tests *)
(* of object.rs do.                                                        *)
(***************************************************************************)
EXTENDS Naturals, Integers, FiniteSets, FiniteSetsExt, TLC

CONSTANTS
    TxIds,      \* transaction ids that call the object
    Values      \* values a caller may write

ASSUME TxIds \subseteq Nat \ {0}
ASSUME Values \subseteq Int

NoTx == 0

\* The consistency check of lib.rs: a balance passes when it is not negative.
Check(v) == v >= 0

\* TimestampedObject::default: value 0, default committed timestamp, no
\* readers and no tentative writes.
DefaultObject ==
    [value |-> 0, committed |-> NoTx, readTs |-> {}, tentative |-> << >>]

\* Tentative writers whose id lies in (committed, t]: the BTreeMap range
\* (Excluded(committed_timestamp), Included(id)) of read.
InRange(o, t) == {w \in DOMAIN o.tentative : o.committed < w /\ w <= t}

(***************************************************************************)
(* read: the outcome of TimestampedObject::read.  status is one of Ok,    *)
(* WaitFor, Abort, AbortedNotFound; value is the value returned on Ok and *)
(* on the id waited for on WaitFor.                                       *)
(***************************************************************************)
Outcome(s, v, w) == [status |-> s, value |-> v, on |-> w]

ReadOutcome(o, t) ==
    IF t <= o.committed THEN Outcome("Abort", 0, NoTx)
    ELSE IF InRange(o, t) = {}
         THEN IF o.committed = NoTx THEN Outcome("AbortedNotFound", 0, NoTx)
                                    ELSE Outcome("Ok", o.value, NoTx)
         ELSE LET w == Max(InRange(o, t))
              IN  IF w = t THEN Outcome("Ok", o.tentative[t], NoTx)
                           ELSE Outcome("WaitFor", 0, w)

\* The object after read: a successful read records the reader.
AfterRead(o, t) ==
    IF ReadOutcome(o, t).status = "Ok"
    THEN [o EXCEPT !.readTs = @ \cup {t}]
    ELSE o

(***************************************************************************)
(* write: allowed when the writer is at or after the maximum read         *)
(* timestamp and after the committed timestamp; replaces or inserts the   *)
(* writer's tentative value.                                               *)
(***************************************************************************)
\* Mutant: the max-read-timestamp test dropped.
CanWriteNoMrt(o, t) == t > o.committed

\* id >= max(read_timestamps), vacuously true when there is no reader.
IsAfterMrt(o, t) == \A r \in o.readTs : t >= r

CanWrite(o, t) == IsAfterMrt(o, t) /\ t > o.committed

AfterWrite(o, t, v) == [o EXCEPT !.tentative = (t :> v) @@ @]

(***************************************************************************)
(* check_commit: NothingToCommit when t has no tentative write; WaitFor   *)
(* the smallest tentative writer when that is not t; otherwise the        *)
(* consistency check decides between CommitValue and                     *)
(* ConsistencyCheckFailed.                                                 *)
(***************************************************************************)
\* Mutant: commits without waiting for older tentative writers.
CheckCommitNoOrder(o, t) ==
    IF t \notin DOMAIN o.tentative THEN Outcome("NothingToCommit", 0, NoTx)
    ELSE IF Check(o.tentative[t]) THEN Outcome("CommitValue", o.tentative[t], NoTx)
    ELSE Outcome("ConsistencyCheckFailed", 0, NoTx)

\* Mutant: the consistency check skipped.
CheckCommitNoCheck(o, t) ==
    IF t \notin DOMAIN o.tentative THEN Outcome("NothingToCommit", 0, NoTx)
    ELSE LET first == Min(DOMAIN o.tentative)
         IN  IF first # t THEN Outcome("WaitFor", 0, first)
             ELSE Outcome("CommitValue", o.tentative[t], NoTx)

CheckCommit(o, t) ==
    IF t \notin DOMAIN o.tentative THEN Outcome("NothingToCommit", 0, NoTx)
    ELSE LET first == Min(DOMAIN o.tentative)
         IN  IF first # t THEN Outcome("WaitFor", 0, first)
             ELSE IF Check(o.tentative[t])
                  THEN Outcome("CommitValue", o.tentative[t], NoTx)
                  ELSE Outcome("ConsistencyCheckFailed", 0, NoTx)

\* Mutant: the tentative value is applied to the committed value as a diff.
AfterCommitAsDiff(o, t) ==
    IF CheckCommit(o, t).status = "CommitValue"
    THEN [o EXCEPT !.tentative = [w \in DOMAIN @ \ {t} |-> @[w]],
                   !.committed = t,
                   !.value     = o.value + o.tentative[t]]
    ELSE o

\* commit: on CommitValue the tentative write becomes the committed value
\* and t the committed timestamp; on NothingToCommit nothing changes.
AfterCommit(o, t) ==
    IF CheckCommit(o, t).status = "CommitValue"
    THEN [o EXCEPT !.tentative = [w \in DOMAIN @ \ {t} |-> @[w]],
                   !.committed = t,
                   !.value     = o.tentative[t]]
    ELSE o

\* can_reap: the object was never committed and holds no tentative write
\* other than the aborting transaction's.
CanReap(o, t) ==
    /\ o.committed = NoTx
    /\ DOMAIN o.tentative \subseteq {t}

\* Mutant: abort forgets only the read timestamp.
AfterAbortKeepsWrite(o, t) == [o EXCEPT !.readTs = @ \ {t}]

\* Mutant: abort keeps the read timestamp (the "TODO confirm we need this"
\* line of abort removed).
AfterAbortKeepsReadTs(o, t) ==
    [o EXCEPT !.tentative = [w \in DOMAIN @ \ {t} |-> @[w]]]

\* abort: forget t's tentative write and t's read timestamp.
AfterAbort(o, t) ==
    [o EXCEPT !.tentative = [w \in DOMAIN @ \ {t} |-> @[w]],
              !.readTs    = @ \ {t}]

-----------------------------------------------------------------------------
(***************************************************************************)
(* One object called by the transactions TxIds in any order.              *)
(*   obj      the TimestampedObject                                        *)
(*   reads    history: [reader, from] for each successful read, from the  *)
(*            writer of the version returned                               *)
(*   commits  history: transactions whose commit changed the object       *)
(*   finished transactions that committed or aborted; they call no more   *)
(*   aborted  history: transactions that called abort                     *)
(***************************************************************************)
VARIABLES obj, reads, commits, finished, aborted

vars == <<obj, reads, commits, finished, aborted>>

Active == TxIds \ finished

Init ==
    /\ obj = DefaultObject
    /\ reads = {}
    /\ commits = {}
    /\ finished = {}
    /\ aborted = {}

\* Writer of the version a successful read of t returns.
VersionRead(o, t) == IF t \in InRange(o, t) THEN t ELSE o.committed

Read(t) ==
    /\ t \in Active
    /\ obj' = AfterRead(obj, t)
    /\ reads' = IF ReadOutcome(obj, t).status = "Ok"
                THEN reads \cup {[reader |-> t, from |-> VersionRead(obj, t)]}
                ELSE reads
    /\ UNCHANGED <<commits, finished, aborted>>

\* A write that fails with Abort leaves the object unchanged; only the
\* successful branch is a step.
Write(t, v) ==
    /\ t \in Active
    /\ CanWrite(obj, t)
    /\ obj' = AfterWrite(obj, t, v)
    /\ UNCHANGED <<reads, commits, finished, aborted>>

\* commit returning ValueChanged or NoChange ends the transaction; a
\* failing commit (WaitFor, ConsistencyCheckFailed) changes nothing.
Commit(t) ==
    /\ t \in Active
    /\ CheckCommit(obj, t).status \in {"CommitValue", "NothingToCommit"}
    /\ obj' = AfterCommit(obj, t)
    /\ commits' = IF CheckCommit(obj, t).status = "CommitValue"
                  THEN commits \cup {t} ELSE commits
    /\ finished' = finished \cup {t}
    /\ UNCHANGED <<reads, aborted>>

Abort(t) ==
    /\ t \in Active
    /\ obj' = AfterAbort(obj, t)
    /\ finished' = finished \cup {t}
    /\ aborted' = aborted \cup {t}
    /\ UNCHANGED <<reads, commits>>

\* Every transaction has finished: the object is quiescent.
Terminated ==
    /\ Active = {}
    /\ UNCHANGED vars

Next ==
    \/ \E t \in TxIds : Read(t) \/ Commit(t) \/ Abort(t)
    \/ \E t \in TxIds, v \in Values : Write(t, v)
    \/ Terminated

Spec == Init /\ [][Next]_vars

-----------------------------------------------------------------------------
TypeOK ==
    /\ obj.value \in Values \cup {0}
    /\ obj.committed \in TxIds \cup {NoTx}
    /\ obj.readTs \subseteq TxIds
    /\ DOMAIN obj.tentative \subseteq TxIds
    /\ \A w \in DOMAIN obj.tentative : obj.tentative[w] \in Values
    /\ reads \subseteq [reader : TxIds, from : TxIds \cup {NoTx}]
    /\ commits \subseteq TxIds
    /\ finished \subseteq TxIds
    /\ aborted \subseteq finished

\* The spec's object invariant: every tentative writer is strictly newer
\* than the committed timestamp, so commit (which removes only the oldest
\* tentative writer) can never move committed_timestamp backwards.
TentativeAboveCommitted ==
    \A w \in DOMAIN obj.tentative : w > obj.committed

\* Timestamp ordering of reads against commits: a read by r, where r has
\* not aborted, that returned the version written by w is never
\* invalidated by a transaction c with w < c < r that commits, before or
\* after the read.  This is what the max-read-timestamp test of write and
\* the WaitFor of read protect; abort drops r's read timestamp, so an
\* aborted reader no longer holds back older writers.
ReadsSeeLatestCommitted ==
    \A rd \in reads : rd.reader \notin aborted =>
        \A c \in commits : ~(rd.from < c /\ c < rd.reader)

\* What makes can_reap safe although it ignores read_timestamps: while an
\* object has never been committed, every transaction in its read
\* timestamps still holds a tentative write on it (a read of such an
\* object succeeds only on the reader's own write, and abort drops both).
\* Reaping an object whose only tentative writer is the aborting one thus
\* forgets no other transaction's read.
UncommittedReadersHoldWrites ==
    obj.committed = NoTx => obj.readTs \subseteq DOMAIN obj.tentative

=============================================================================
