------------------------------- MODULE Cluster -------------------------------
(***************************************************************************)
(* The cluster: one coordinator per node (Server in                        *)
(* src/tx-server/src/coordinator/mod.rs), the shard store of each node     *)
(* built from TimestampedObject (sharding/object.rs), the client sessions  *)
(* and the transaction id generator.  The shard store (sharding/mod.rs),   *)
(* the sessions (coordinator/client.rs) and the id generator               *)
(* (sharding/transaction_id.rs) are not part of the source tree at hand;  *)
(* they are modelled from spec.md sections 4.2, 4.3 and 4.5.               *)
(*                                                                         *)
(* Every Forwarded request a coordinator receives is handled by a task    *)
(* spawned for it (tokio::spawn in handle_remote_request and for          *)
(* DoCommit), so requests at a shard run in any order: the peer network   *)
(* is a set of in-flight messages, and a request message is also the task *)
(* that serves it.  A task blocked on WaitFor(U) is a request whose action *)
(* is disabled until the object no longer answers WaitFor.                 *)
(***************************************************************************)
EXTENDS Naturals, Integers, Sequences, FiniteSets, FiniteSetsExt, TLC

CONSTANTS
    Nodes,              \* node ids, ordered as NodeId (a char) is
    Keys,               \* account keys
    Owner,              \* Owner[k]: the node whose shard holds k
    Diffs,              \* deltas a client may write
    MaxTxPerNode,       \* bound on the id generator's counter
    MaxOps,             \* bound on reads and writes per session
    AwaitAbortReplies,  \* does a session wait for every shard's answer to
                        \* its Abort broadcast before sending Finished?
    Width,              \* bits of a balance (64 in the code)
    OverflowChecks      \* TRUE: an overflowing + panics (debug build)

ASSUME Nodes \subseteq Nat \ {0} /\ Nodes # {}
ASSUME Owner \in [Keys -> Nodes]
ASSUME Diffs \subseteq Int
ASSUME MaxTxPerNode \in Nat \ {0} /\ MaxOps \in Nat
ASSUME AwaitAbortReplies \in BOOLEAN
ASSUME OverflowChecks \in BOOLEAN

(***************************************************************************)
(* Transaction ids (spec 4.3): the pair (counter, node) compared          *)
(* lexicographically is encoded as counter * Base + node, which orders    *)
(* the same way; counter 0 encodes the default id (TSO!NoTx).             *)
(***************************************************************************)
Base == Max(Nodes) + 1
TxId(c, n) == c * Base + n
TxIds == {TxId(c, n) : c \in 1..MaxTxPerNode, n \in Nodes}
Origin(t) == t % Base

\* TimestampedObject::default, the state of a key never referenced (or reaped).
TSODefault == [value |-> 0, committed |-> 0, readTs |-> {}, tentative |-> << >>]

\* The object operations of object.rs; the instance's own variables are not
\* used by them.
TSO == INSTANCE TimestampedObject
       WITH TxIds <- TxIds, Values <- Int, obj <- TSODefault,
            reads <- {}, commits <- {}, finished <- {}, aborted <- {}

\* The balance arithmetic of lib.rs at width Width.
BAL == INSTANCE Balance
       WITH MaxWrites <- 0, committed <- 0, merged <- 0, wrote <- FALSE,
            exact <- 0, writes <- 0, panicked <- FALSE

\* server_pool.len(): the group holds every node, this one included.
N == Cardinality(Nodes)

KeysOf(n) == {k \in Keys : Owner[k] = n}

Broadcast == 0
NoKey == "none"

Req(op, k, d) == [op |-> op, key |-> k, diff |-> d]
NoReq == Req("None", NoKey, 0)

\* Forwarded messages between coordinators.
Msg(kind, src, dst, t, r, resp) ==
    [kind |-> kind, src |-> src, dst |-> dst, tx |-> t, req |-> r, resp |-> resp]

\* ClientState messages from sessions to their coordinator.
Forward(target, t, r) == [type |-> "Forward", target |-> target, tx |-> t, req |-> r]
Finished(t) == [type |-> "Finished", target |-> Broadcast, tx |-> t, req |-> NoReq]

VARIABLES
    counter,        \* counter[n]: next counter of node n's id generator
    objects,        \* objects[k]: the TimestampedObject of key k
    clients,        \* clients[n]: transactions with a ClientHandle at n
    commitStatus,   \* commitStatus[n]: tx -> [count, status] of 2PC at n
    fromClients,    \* fromClients[n]: the from_clients channel of n
    net,            \* in-flight Forwarded messages (and spawned tasks)
    inbox,          \* inbox[t]: ClientResponses routed to t's session
    sess,           \* sess[t]: state of t's session
    exited,         \* a coordinator panicked or called process::exit
    \* history variables, for the properties only
    acc,            \* acc[t][k]: sum of the deltas t wrote to k
    applied,        \* applied[k]: sum of the deltas of commits on k
    wrote,          \* <<t, k>> where a write of t succeeded
    committedOn,    \* <<t, k>> where a DoCommit installed t's write
    discarded,      \* <<t, k>> where an abort removed t's write
    commitFailed,   \* transactions whose DoCommit failed at some shard
    commitOk        \* transactions the coordinator answered CommitOk

coord == <<counter, objects, clients, commitStatus, fromClients, net, inbox, sess, exited>>
ghost == <<acc, applied, wrote, committedOn, discarded, commitFailed, commitOk>>
vars == <<coord, ghost>>

SessionStates == {"none", "idle", "wait", "commit", "abort", "done"}

Init ==
    /\ counter = [n \in Nodes |-> 1]
    /\ objects = [k \in Keys |-> TSODefault]
    /\ clients = [n \in Nodes |-> {}]
    /\ commitStatus = [n \in Nodes |-> << >>]
    /\ fromClients = [n \in Nodes |-> << >>]
    /\ net = {}
    /\ inbox = [t \in TxIds |-> << >>]
    /\ sess = [t \in TxIds |-> [st |-> "none", ops |-> 0, acks |-> 0]]
    /\ exited = FALSE
    /\ acc = [t \in TxIds |-> [k \in Keys |-> 0]]
    /\ applied = [k \in Keys |-> 0]
    /\ wrote = {}
    /\ committedOn = {}
    /\ discarded = {}
    /\ commitFailed = {}
    /\ commitOk = {}

-----------------------------------------------------------------------------
(***************************************************************************)
(* Helpers shared by the actions.                                          *)
(***************************************************************************)
Live == ~exited

\* pass_to_client: clients.get(&tx).unwrap() panics when the handle was
\* removed by Finished; send fails, and the coordinator exits, when the
\* session task has ended and dropped its receiver.
CanPassToClient(n, t) == t \in clients[n] /\ sess[t].st # "done"

PassToClient(n, t, resp) ==
    IF CanPassToClient(n, t)
    THEN /\ inbox' = [inbox EXCEPT ![t] = Append(@, resp)]
         /\ UNCHANGED exited
    ELSE /\ exited' = TRUE
         /\ UNCHANGED inbox

\* Removes a message from the network and adds the ones a step sends.
Deliver(m, out) == net' = (net \ {m}) \cup out

(***************************************************************************)
(* Server::serve, accept branch: a new connection gets the next id of the *)
(* node's generator, a ClientHandle and a session task.                   *)
(***************************************************************************)
Accept(n) ==
    /\ Live
    /\ counter[n] <= MaxTxPerNode
    /\ LET t == TxId(counter[n], n)
       IN  /\ counter' = [counter EXCEPT ![n] = @ + 1]
           /\ clients' = [clients EXCEPT ![n] = @ \cup {t}]
           /\ sess' = [sess EXCEPT ![t].st = "idle"]
    /\ UNCHANGED <<objects, commitStatus, fromClients, net, inbox, exited, ghost>>

(***************************************************************************)
(* Client sessions (spec 4.5).  A session sends one request and waits for *)
(* its answer.  On an abort verdict, an aborted read or write, or an      *)
(* explicit abort, it broadcasts Abort; it then sends Finished at once    *)
(* (spec wording) or, when AwaitAbortReplies, after every shard answered. *)
(***************************************************************************)
ToCoordinator(t, msgs) ==
    fromClients' = [fromClients EXCEPT ![Origin(t)] = @ \o msgs]

BeginAbort(t) ==
    IF AwaitAbortReplies
    THEN /\ ToCoordinator(t, <<Forward(Broadcast, t, Req("Abort", NoKey, 0))>>)
         /\ sess' = [sess EXCEPT ![t].st = "abort", ![t].acks = 0]
    ELSE /\ ToCoordinator(t, <<Forward(Broadcast, t, Req("Abort", NoKey, 0)), Finished(t)>>)
         /\ sess' = [sess EXCEPT ![t].st = "done"]

SessionRead(t, k) ==
    /\ Live
    /\ sess[t].st = "idle" /\ sess[t].ops < MaxOps
    /\ ToCoordinator(t, <<Forward(Owner[k], t, Req("Read", k, 0))>>)
    /\ sess' = [sess EXCEPT ![t].st = "wait"]
    /\ UNCHANGED <<counter, objects, clients, commitStatus, net, inbox, exited, ghost>>

SessionWrite(t, k, d) ==
    /\ Live
    /\ sess[t].st = "idle" /\ sess[t].ops < MaxOps
    /\ ToCoordinator(t, <<Forward(Owner[k], t, Req("Write", k, d))>>)
    /\ sess' = [sess EXCEPT ![t].st = "wait"]
    /\ UNCHANGED <<counter, objects, clients, commitStatus, net, inbox, exited, ghost>>

SessionCommit(t) ==
    /\ Live
    /\ sess[t].st = "idle"
    /\ ToCoordinator(t, <<Forward(Broadcast, t, Req("Commit", NoKey, 0))>>)
    /\ sess' = [sess EXCEPT ![t].st = "commit"]
    /\ UNCHANGED <<counter, objects, clients, commitStatus, net, inbox, exited, ghost>>

\* An explicit Abort request, or the client disconnecting mid-transaction:
\* both broadcast Abort and finish the session.
SessionAbort(t) ==
    /\ Live
    /\ sess[t].st = "idle"
    /\ BeginAbort(t)
    /\ UNCHANGED <<counter, objects, clients, commitStatus, net, inbox, exited, ghost>>

\* The session takes the next ClientResponse routed to it.
SessionReceive(t) ==
    /\ Live
    /\ inbox[t] # << >>
    /\ inbox' = [inbox EXCEPT ![t] = Tail(@)]
    /\ LET resp == Head(inbox[t]) IN
       \/ /\ sess[t].st = "wait" /\ resp \in {"Ok", "Value"}
          /\ sess' = [sess EXCEPT ![t].st = "idle", ![t].ops = @ + 1]
          /\ UNCHANGED fromClients
       \/ /\ sess[t].st \in {"wait", "commit"} /\ resp \in {"Aborted", "AbortedNotFound"}
          /\ BeginAbort(t)
       \/ /\ sess[t].st = "commit" /\ resp = "CommitOk"
          /\ ToCoordinator(t, <<Finished(t)>>)
          /\ sess' = [sess EXCEPT ![t].st = "done"]
       \/ /\ sess[t].st = "abort" /\ resp = "Aborted"
          /\ IF sess[t].acks + 1 = N
             THEN /\ ToCoordinator(t, <<Finished(t)>>)
                  /\ sess' = [sess EXCEPT ![t].st = "done"]
             ELSE /\ sess' = [sess EXCEPT ![t].acks = @ + 1]
                  /\ UNCHANGED fromClients
    /\ UNCHANGED <<counter, objects, clients, commitStatus, net, exited, ghost>>

(***************************************************************************)
(* Server::handle_client_state: the coordinator takes the next ClientState *)
(* from from_clients.  Finished drops the ClientHandle; a broadcast sends  *)
(* the request to every node (a Commit first opens the 2PC entry with     *)
(* (0, ReadyToCommit)); a targeted request goes to its node.              *)
(***************************************************************************)
NextClientState(n) == Head(fromClients[n])

ClientFinished(n) ==
    /\ Live
    /\ fromClients[n] # << >>
    /\ NextClientState(n).type = "Finished"
    /\ fromClients' = [fromClients EXCEPT ![n] = Tail(@)]
    /\ clients' = [clients EXCEPT ![n] = @ \ {NextClientState(n).tx}]
    /\ UNCHANGED <<counter, objects, commitStatus, net, inbox, sess, exited, ghost>>

ClientForwardBroadcast(n) ==
    /\ Live
    /\ fromClients[n] # << >>
    /\ LET cs == NextClientState(n) IN
       /\ cs.type = "Forward" /\ cs.target = Broadcast
       /\ commitStatus' =
            IF cs.req.op = "Commit"
            THEN [commitStatus EXCEPT ![n] =
                    (cs.tx :> [count |-> 0, status |-> "ReadyToCommit"]) @@ @]
            ELSE commitStatus
       /\ net' = net \cup {Msg("Request", n, d, cs.tx, cs.req, "none") : d \in Nodes}
    /\ fromClients' = [fromClients EXCEPT ![n] = Tail(@)]
    /\ UNCHANGED <<counter, objects, clients, inbox, sess, exited, ghost>>

ClientForwardNode(n) ==
    /\ Live
    /\ fromClients[n] # << >>
    /\ LET cs == NextClientState(n) IN
       /\ cs.type = "Forward" /\ cs.target # Broadcast
       /\ net' = net \cup {Msg("Request", n, cs.target, cs.tx, cs.req, "none")}
    /\ fromClients' = [fromClients EXCEPT ![n] = Tail(@)]
    /\ UNCHANGED <<counter, objects, clients, commitStatus, inbox, sess, exited, ghost>>

(***************************************************************************)
(* Server::handle_remote_request: the task spawned at node m.dst runs the *)
(* request on the shard and sends its answer back to m.src.  The shard    *)
(* operations are those of spec 4.2 over the objects of the node's keys.  *)
(***************************************************************************)
Requests(op) == {m \in net : m.kind = "Request" /\ m.req.op = op}

Reply(m, kind, resp) == Msg(kind, m.dst, m.src, m.tx, NoReq, resp)

\* Diffable::diff for balances: the delta is added to the balance.
ApplyDiff(v, d) == BAL!ApplyDiff(v, d)

\* Shard write: the written value is the transaction's tentative value (or
\* the committed value) with the delta applied.  In a debug build an
\* overflowing + panics the spawned task: nothing is written and no
\* Response is sent.
RemoteWrite(m) ==
    /\ Live
    /\ m \in Requests("Write")
    /\ LET k == m.req.key  t == m.tx  o == objects[k]
           base == IF t \in DOMAIN o.tentative THEN o.tentative[t] ELSE o.value
       IN  IF TSO!CanWrite(o, t) /\ OverflowChecks /\ BAL!Overflows(base, m.req.diff)
           THEN /\ Deliver(m, {})
                /\ UNCHANGED <<objects, acc, wrote>>
           ELSE IF TSO!CanWrite(o, t)
           THEN /\ objects' = [objects EXCEPT ![k] = TSO!AfterWrite(o, t, ApplyDiff(base, m.req.diff))]
                /\ acc' = [acc EXCEPT ![t][k] = @ + m.req.diff]
                /\ wrote' = wrote \cup {<<t, k>>}
                /\ Deliver(m, {Reply(m, "Response", "Ok")})
           ELSE /\ Deliver(m, {Reply(m, "Response", "Aborted")})
                /\ UNCHANGED <<objects, acc, wrote>>
    /\ UNCHANGED <<counter, clients, commitStatus, fromClients, inbox, sess, exited,
                   applied, committedOn, discarded, commitFailed, commitOk>>

ReadResponse == [Ok |-> "Value", Abort |-> "Aborted", AbortedNotFound |-> "AbortedNotFound"]

\* Shard read: a WaitFor(U) outcome suspends the task until U commits or
\* aborts on this object, then the read is retried.
RemoteRead(m) ==
    /\ Live
    /\ m \in Requests("Read")
    /\ LET k == m.req.key  r == TSO!ReadOutcome(objects[k], m.tx)
       IN  /\ r.status # "WaitFor"
           /\ objects' = [objects EXCEPT ![k] = TSO!AfterRead(@, m.tx)]
           /\ Deliver(m, {Reply(m, "Response", ReadResponse[r.status])})
    /\ UNCHANGED <<counter, clients, commitStatus, fromClients, inbox, sess, exited, ghost>>

\* Shard check_commit over the node's keys: doomed when some object fails
\* its consistency check, otherwise suspended while some object answers
\* WaitFor; the vote goes back as TwoPhaseCommitStatus.
RemoteCommit(m) ==
    /\ Live
    /\ m \in Requests("Commit")
    /\ LET st == {TSO!CheckCommit(objects[k], m.tx).status : k \in KeysOf(m.dst)}
       IN  /\ "ConsistencyCheckFailed" \in st \/ "WaitFor" \notin st
           /\ Deliver(m, {Reply(m, "Vote", IF "ConsistencyCheckFailed" \in st
                                           THEN "CannotCommit" ELSE "ReadyToCommit")})
    /\ UNCHANGED <<counter, objects, clients, commitStatus, fromClients, inbox, sess,
                   exited, ghost>>

\* Shard abort: every object of the node forgets the transaction; an object
\* that can_reap is removed from the shard map (it is then the default
\* object again).
AbortObject(o, t) ==
    IF TSO!CanReap(o, t) THEN TSODefault ELSE TSO!AfterAbort(o, t)

RemoteAbort(m) ==
    /\ Live
    /\ m \in Requests("Abort")
    /\ objects' = [k \in Keys |-> IF k \in KeysOf(m.dst) THEN AbortObject(objects[k], m.tx)
                                                          ELSE objects[k]]
    /\ discarded' = discarded \cup
         {<<m.tx, k>> : k \in {k \in KeysOf(m.dst) : m.tx \in DOMAIN objects[k].tentative}}
    /\ Deliver(m, {Reply(m, "Response", "Aborted")})
    /\ UNCHANGED <<counter, clients, commitStatus, fromClients, inbox, sess, exited,
                   acc, applied, wrote, committedOn, commitFailed, commitOk>>

(***************************************************************************)
(* DoCommit at node m.dst (handle_server_state spawns shard.commit): each *)
(* object of the node holding a tentative write of the transaction        *)
(* commits it, after waiting for older tentative writers.  A key whose   *)
(* check fails is logged as a FATAL ERROR and keeps its tentative write;  *)
(* the node's other keys are still installed.                            *)
(***************************************************************************)
DoCommit(m) ==
    /\ Live
    /\ m \in net /\ m.kind = "DoCommit"
    /\ LET t == m.tx
           out(k) == TSO!CheckCommit(objects[k], t).status
           installed == {k \in KeysOf(m.dst) : out(k) = "CommitValue"}
       IN  /\ \A k \in KeysOf(m.dst) : out(k) # "WaitFor"
           /\ objects' = [k \in Keys |-> IF k \in installed THEN TSO!AfterCommit(objects[k], t)
                                                             ELSE objects[k]]
           /\ applied' = [k \in Keys |-> IF k \in installed THEN applied[k] + acc[t][k]
                                                             ELSE applied[k]]
           /\ committedOn' = committedOn \cup {<<t, k>> : k \in installed}
           /\ commitFailed' = IF \E k \in KeysOf(m.dst) : out(k) = "ConsistencyCheckFailed"
                              THEN commitFailed \cup {t} ELSE commitFailed
    /\ Deliver(m, {})
    /\ UNCHANGED <<counter, clients, commitStatus, fromClients, inbox, sess, exited,
                   acc, wrote, discarded, commitOk>>

(***************************************************************************)
(* handle_server_state, Response: pass the answer to the client handle.   *)
(***************************************************************************)
HandleResponse(m) ==
    /\ Live
    /\ m \in net /\ m.kind = "Response"
    /\ PassToClient(m.dst, m.tx, m.resp)
    /\ Deliver(m, {})
    /\ UNCHANGED <<counter, objects, clients, commitStatus, fromClients, sess, ghost>>

(***************************************************************************)
(* Server::handle_two_phase_commit.  The entry is unwrapped (a vote for a *)
(* transaction without one panics), the count is incremented, a           *)
(* CannotCommit latches the status, and once every node voted the verdict *)
(* goes to the client (CommitOk followed by a DoCommit broadcast, or      *)
(* Aborted) and the entry is removed.                                     *)
(***************************************************************************)
\* Mutant: a CannotCommit vote does not latch the status.
LatchIgnoringVote(cur, vote) == cur

Latch(cur, vote) == IF vote = "CannotCommit" THEN vote ELSE cur

\* Mutant: the verdict is taken one vote early.
AllVotedEarly(count) == count = N - 1

\* Mutant: the verdict waits for one vote too many.
AllVotedLate(count) == count = N + 1

AllVoted(count) == count = N

\* Mutant: DoCommit broadcast whatever the verdict.
CommitTargetsAlways(n, t, status) ==
    {Msg("DoCommit", n, d, t, NoReq, "none") : d \in Nodes}

\* Mutant: DoCommit goes to the peers only, not to the node itself.
CommitTargetsPeers(n, t, status) ==
    IF status = "ReadyToCommit"
    THEN {Msg("DoCommit", n, d, t, NoReq, "none") : d \in Nodes \ {n}}
    ELSE {}

\* The DoCommit broadcast that follows a ReadyToCommit verdict.
CommitTargets(n, t, status) ==
    IF status = "ReadyToCommit"
    THEN {Msg("DoCommit", n, d, t, NoReq, "none") : d \in Nodes}
    ELSE {}

Verdict(status) == IF status = "ReadyToCommit" THEN "CommitOk" ELSE "Aborted"

HandleTwoPhaseCommit(m) ==
    /\ Live
    /\ m \in net /\ m.kind = "Vote"
    /\ LET n == m.dst  t == m.tx
       IN  IF t \notin DOMAIN commitStatus[n]
           THEN /\ exited' = TRUE
                /\ UNCHANGED <<net, commitStatus, inbox, commitOk>>
           ELSE LET e == [count  |-> commitStatus[n][t].count + 1,
                          status |-> Latch(commitStatus[n][t].status, m.resp)]
                IN  IF ~AllVoted(e.count)
                    THEN /\ commitStatus' = [commitStatus EXCEPT ![n][t] = e]
                         /\ Deliver(m, {})
                         /\ UNCHANGED <<inbox, exited, commitOk>>
                    ELSE /\ commitStatus' = [commitStatus EXCEPT ![n] =
                                               [u \in DOMAIN @ \ {t} |-> @[u]]]
                         /\ PassToClient(n, t, Verdict(e.status))
                         \* exit(1) when the client handle is gone, before the broadcast
                         /\ Deliver(m, IF CanPassToClient(n, t)
                                       THEN CommitTargets(n, t, e.status) ELSE {})
                         /\ commitOk' = IF Verdict(e.status) = "CommitOk"
                                        THEN commitOk \cup {t} ELSE commitOk
    /\ UNCHANGED <<counter, objects, clients, fromClients, sess,
                   acc, applied, wrote, committedOn, discarded, commitFailed>>

-----------------------------------------------------------------------------
\* Every session has finished and nothing is in flight.
Quiescent ==
    /\ \A n \in Nodes : counter[n] > MaxTxPerNode /\ fromClients[n] = << >>
    /\ \A t \in TxIds : sess[t].st = "done" /\ inbox[t] = << >>
    /\ net = {}

Terminated == Live /\ Quiescent /\ UNCHANGED vars

CoordinatorStep(n) ==
    ClientFinished(n) \/ ClientForwardBroadcast(n) \/ ClientForwardNode(n)

TaskStep(m) ==
    \/ RemoteWrite(m) \/ RemoteRead(m) \/ RemoteCommit(m) \/ RemoteAbort(m)
    \/ DoCommit(m) \/ HandleResponse(m) \/ HandleTwoPhaseCommit(m)

SessionStep(t) ==
    \/ SessionCommit(t) \/ SessionAbort(t) \/ SessionReceive(t)
    \/ \E k \in Keys : SessionRead(t, k) \/ \E d \in Diffs : SessionWrite(t, k, d)

Next ==
    \/ \E n \in Nodes : Accept(n) \/ CoordinatorStep(n)
    \/ \E m \in net : TaskStep(m)
    \/ \E t \in TxIds : SessionStep(t)
    \/ Terminated

(***************************************************************************)
(* Fairness.  Tokio runs every spawned task and the coordinator's select  *)
(* loop keeps taking messages, so every coordinator step, task and        *)
(* session receive is weakly fair.  Clients are assumed to end their      *)
(* transaction eventually (spec 5: liveness relies on every transaction   *)
(* eventually committing or aborting); they need not read or write, nor  *)
(* connect at all.  Every task runs on tokio's worker pool; as each task   *)
(* either answers or waits on an older transaction, fairness of the task  *)
(* steps taken together suffices.                                         *)
(***************************************************************************)
Fairness ==
    /\ \A n \in Nodes : WF_vars(CoordinatorStep(n))
    /\ \A t \in TxIds : WF_vars(SessionReceive(t))
    /\ \A t \in TxIds : WF_vars(SessionCommit(t) \/ SessionAbort(t))
    /\ WF_vars(\E m \in net : TaskStep(m))

Spec == Init /\ [][Next]_vars /\ Fairness

-----------------------------------------------------------------------------
TypeOK ==
    /\ counter \in [Nodes -> 1..MaxTxPerNode + 1]
    /\ \A k \in Keys : objects[k].committed \in TxIds \cup {0}
                     /\ objects[k].readTs \subseteq TxIds
                     /\ DOMAIN objects[k].tentative \subseteq TxIds
    /\ \A n \in Nodes : clients[n] \subseteq TxIds /\ DOMAIN commitStatus[n] \subseteq TxIds
    \* an open 2PC entry has heard from fewer than all nodes
    /\ \A n \in Nodes : \A t \in DOMAIN commitStatus[n] :
         commitStatus[n][t].count \in 0..N - 1
    /\ \A m \in net : m.kind \in {"Request", "Response", "Vote", "DoCommit"}
    /\ \A t \in TxIds : sess[t].st \in SessionStates
    /\ exited \in BOOLEAN
    /\ wrote \cup committedOn \cup discarded \subseteq TxIds \X Keys
    /\ commitFailed \cup commitOk \subseteq TxIds

\* No coordinator panics or exits: every vote finds its 2PC entry and every
\* answer routed to a client finds a live ClientHandle (the unwraps and
\* exit(1) paths of handle_two_phase_commit and pass_to_client).
NoCoordinatorExit == ~exited

\* The spec (4.2): a DoCommit never fails, since every shard checked the
\* transaction's writes before voting ReadyToCommit.
DoCommitNeverFails == commitFailed = {}

\* Atomic commitment across shards: no transaction has one key where its
\* write was installed and another where its write was discarded by abort,
\* and a transaction is installed anywhere only if its client got CommitOk.
AllOrNothing ==
    \A t \in TxIds :
        (\E k \in Keys : <<t, k>> \in committedOn) =>
            /\ t \in commitOk
            /\ \A k \in Keys : <<t, k>> \notin discarded

\* The spec's scenario 2 (diffs compose): the committed balance of a key is
\* the sum of the deltas of the transactions committed on it.
CommittedIsSumOfDiffs == \A k \in Keys : objects[k].value = applied[k]

\* Every accepted session eventually finishes: no transaction waits forever
\* on another (WaitFor), on a 2PC verdict, or on the answers to its abort.
SessionsFinish == \A t \in TxIds : sess[t].st # "none" ~> sess[t].st = "done"

\* Every write of a transaction whose client was told CommitOk is
\* eventually installed by DoCommit on its shard.
CommitOkApplied ==
    \A t \in TxIds, k \in Keys :
        (t \in commitOk /\ <<t, k>> \in wrote) ~> <<t, k>> \in committedOn
=============================================================================
