----------------------------- MODULE ObjectTests -----------------------------
(***************************************************************************)
(* The unit tests of src/tx-server/src/sharding/object.rs (mod test) run  *)
(* against the object operators of TimestampedObject.tla.                 *)
(*                                                                         *)
(* Each test is a sequence of calls; a call names the method, the caller  *)
(* and the value written, and the result the test asserts.  The ids of a  *)
(* test come from TransactionIdGenerator::new('B'), so tx1 < tx2 < tx3,   *)
(* all after the default id TransactionId::default('A') (NoTx).  The      *)
(* specification picks a test and executes its calls one by one on a     *)
(* fresh TimestampedObject::default, recording whether every assertion    *)
(* held.                                                                   *)
(***************************************************************************)
EXTENDS Integers, Sequences

VARIABLES
    test,    \* the name of the running test
    pc,      \* the index of its next call
    o,       \* the object under test
    passed   \* every assertion so far held

vars == <<test, pc, o, passed>>

TSO == INSTANCE TimestampedObject
       WITH TxIds <- 1..3, Values <- Int, obj <- o,
            reads <- {}, commits <- {}, finished <- {}, aborted <- {}

NoTx == TSO!NoTx
Outcome(s, v, w) == TSO!Outcome(s, v, w)

\* The results a test asserts, in the shape of TimestampedObject's outcomes.
OK == Outcome("Ok", 0, NoTx)
ABORT == Outcome("Abort", 0, NoTx)
NOTFOUND == Outcome("AbortedNotFound", 0, NoTx)
WAITFOR(w) == Outcome("WaitFor", 0, w)
READS(v) == Outcome("Ok", v, NoTx)
CHECKFAILED == Outcome("ConsistencyCheckFailed", 0, NoTx)
CHANGED(v) == Outcome("ValueChanged", v, NoTx)
UNCOMMITTED(v) == Outcome("State", v, NoTx)

Call(op, t, v, e) == [op |-> op, tx |-> t, v |-> v, expect |-> e]
write(t, v, e) == Call("write", t, v, e)
read(t, e) == Call("read", t, 0, e)
check(t, e) == Call("check", t, 0, e)
commit(t, e) == Call("commit", t, 0, e)
abort(t) == Call("abort", t, 0, OK)
\* assert_eq! on the object's value and on its default committed timestamp
state(v) == Call("state", NoTx, v, UNCOMMITTED(v))

-----------------------------------------------------------------------------
test_basic_write ==
    << write(1, 10, OK), check(1, OK), commit(1, CHANGED(10)) >>

test_basic_write_with_update ==
    << write(1, 10, OK), write(1, -10, OK), write(1, 30, OK),
       check(1, OK), commit(1, CHANGED(30)) >>

test_commit_stall ==
    << write(1, 10, OK), write(2, 30, OK),
       check(2, WAITFOR(1)), commit(2, WAITFOR(1)),
       check(1, OK), commit(1, CHANGED(10)),
       check(2, OK), commit(2, CHANGED(30)) >>

test_write_after_newer_commit ==
    << write(2, 20, OK), check(2, OK), commit(2, CHANGED(20)),
       write(1, 10, ABORT) >>

test_newer_transaction_writes_first ==
    << write(2, 20, OK), write(1, 30, OK),
       check(1, OK), commit(1, CHANGED(30)),
       check(2, OK), commit(2, CHANGED(20)) >>

test_basic_abort ==
    << write(1, 10, OK), write(1, 20, OK), abort(1), state(0) >>

test_aborted_transaction_with_future_commits ==
    << write(1, 10, OK), write(2, 30, OK), abort(1), state(0),
       check(2, OK), commit(2, CHANGED(30)) >>

test_basic_consistency_check_failure ==
    << write(1, 1, OK), write(1, -10, OK),
       check(1, CHECKFAILED), commit(1, CHECKFAILED) >>

test_consistency_check_failure_with_future_commit ==
    << write(1, -10, OK), write(2, 10, OK),
       check(1, CHECKFAILED), commit(1, CHECKFAILED), abort(1),
       check(2, OK), commit(2, CHANGED(10)) >>

test_basic_read ==
    << write(1, 10, OK), read(1, READS(10)),
       check(1, OK), commit(1, CHANGED(10)), read(2, READS(10)) >>

test_read_before_non_committed_write ==
    << write(1, 10, OK), check(1, OK), commit(1, CHANGED(10)),
       write(3, 20, OK), read(2, READS(10)) >>

test_read_after_non_committed_write ==
    << write(1, 10, OK), check(1, OK), commit(1, CHANGED(10)),
       write(2, 20, OK), read(3, WAITFOR(2)),
       check(2, OK), commit(2, CHANGED(20)), read(3, READS(20)) >>

test_read_before_committed_write ==
    << write(2, 10, OK), check(2, OK), commit(2, CHANGED(10)),
       read(1, ABORT) >>

test_read_after_write_on_same_tx ==
    << write(1, 10, OK), read(1, READS(10)), write(1, 50, OK),
       read(1, READS(50)), check(1, OK), commit(1, CHANGED(50)) >>

test_read_after_write_on_same_tx_multiple_tx ==
    << write(2, 20, OK), write(1, 10, OK),
       read(1, READS(10)), read(2, READS(20)),
       check(1, OK), commit(1, CHANGED(10)),
       check(2, OK), commit(2, CHANGED(20)) >>

test_read_after_commit_on_different_tx ==
    << write(2, 20, OK), write(1, 10, OK),
       read(1, READS(10)), check(1, OK), commit(1, CHANGED(10)),
       read(2, READS(20)), check(2, OK), commit(2, CHANGED(20)) >>

test_read_created_object == << read(1, NOTFOUND) >>

test_read_on_unwritten_object == << write(2, 20, OK), read(1, NOTFOUND) >>

Tests ==
    [basic_write |-> test_basic_write,
     basic_write_with_update |-> test_basic_write_with_update,
     commit_stall |-> test_commit_stall,
     write_after_newer_commit |-> test_write_after_newer_commit,
     newer_transaction_writes_first |-> test_newer_transaction_writes_first,
     basic_abort |-> test_basic_abort,
     aborted_with_future_commits |-> test_aborted_transaction_with_future_commits,
     basic_consistency_check_failure |-> test_basic_consistency_check_failure,
     check_failure_with_future_commit |-> test_consistency_check_failure_with_future_commit,
     basic_read |-> test_basic_read,
     read_before_non_committed_write |-> test_read_before_non_committed_write,
     read_after_non_committed_write |-> test_read_after_non_committed_write,
     read_before_committed_write |-> test_read_before_committed_write,
     read_after_write_on_same_tx |-> test_read_after_write_on_same_tx,
     read_after_write_multiple_tx |-> test_read_after_write_on_same_tx_multiple_tx,
     read_after_commit_on_different_tx |-> test_read_after_commit_on_different_tx,
     read_created_object |-> test_read_created_object,
     read_on_unwritten_object |-> test_read_on_unwritten_object]

-----------------------------------------------------------------------------
\* The assertion of each kind of call on the object before (ob) and after
\* (oa) it.

\* assert!(object.write(..).is_ok()) or the RWFailure::Abort it expects.
WriteResult(ob, t) == IF TSO!CanWrite(ob, t) THEN OK ELSE ABORT

\* verify_check_commit_success / verify_check_commit_failure: any Ok, or
\* the exact CommitFailure.
CheckResult(ob, t) ==
    IF TSO!CheckCommit(ob, t).status \in {"CommitValue", "NothingToCommit"}
    THEN OK
    ELSE TSO!CheckCommit(ob, t)

\* verify_commit_success: ValueChanged(expected), and the object holds the
\* value with committed_timestamp = id.  verify_commit_failure: the exact
\* CommitFailure, and value and committed_timestamp unchanged.
CommitHolds(ob, oa, t, e) ==
    LET c == TSO!CheckCommit(ob, t)
        result == CASE c.status = "CommitValue"     -> CHANGED(c.value)
                    [] c.status = "NothingToCommit" -> Outcome("NoChange", ob.value, NoTx)
                    [] OTHER                        -> c
    IN  /\ result = e
        /\ IF e.status = "ValueChanged"
           THEN oa.value = e.value /\ oa.committed = t
           ELSE oa.value = ob.value /\ oa.committed = ob.committed

Current == Tests[test][pc]

Init ==
    /\ test \in DOMAIN Tests
    /\ pc = 1
    /\ o = TSO!DefaultObject
    /\ passed = TRUE

\* Executes the current call: the object becomes oa, and holds is whether
\* the call's assertion held.
Run(oa, holds) ==
    /\ o' = oa
    /\ passed' = (passed /\ holds)
    /\ pc' = pc + 1
    /\ UNCHANGED test

CallWrite ==
    /\ Current.op = "write"
    /\ LET oa == IF TSO!CanWrite(o, Current.tx)
                 THEN TSO!AfterWrite(o, Current.tx, Current.v) ELSE o
       IN  Run(oa, WriteResult(o, Current.tx) = Current.expect)

CallRead ==
    /\ Current.op = "read"
    /\ Run(TSO!AfterRead(o, Current.tx),
           TSO!ReadOutcome(o, Current.tx) = Current.expect)

CallCheck ==
    /\ Current.op = "check"
    /\ Run(o, CheckResult(o, Current.tx) = Current.expect)

CallCommit ==
    /\ Current.op = "commit"
    /\ LET oa == TSO!AfterCommit(o, Current.tx)
       IN  Run(oa, CommitHolds(o, oa, Current.tx, Current.expect))

CallAbort ==
    /\ Current.op = "abort"
    /\ Run(TSO!AfterAbort(o, Current.tx), TRUE)

CallState ==
    /\ Current.op = "state"
    /\ Run(o, o.value = Current.v /\ o.committed = NoTx)

\* The test function returned.
Finished ==
    /\ pc > Len(Tests[test])
    /\ UNCHANGED vars

Next ==
    \/ pc <= Len(Tests[test]) /\ \/ CallWrite \/ CallRead \/ CallCheck
                                 \/ CallCommit \/ CallAbort \/ CallState
    \/ Finished

Spec == Init /\ [][Next]_vars

-----------------------------------------------------------------------------
\* The model agrees with every unit test of object.rs: each assert! and
\* assert_eq! of every test holds on the operators that read, write,
\* check_commit, commit and abort are translated into.
TestsPass == passed
====
