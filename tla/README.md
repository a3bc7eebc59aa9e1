# TLA+ models of the sharded distributed transaction server

These modules model `src/tx-server` (crate `tx-server`). It is a set of server nodes. Each node owns one shard of the accounts and coordinates the transactions of the clients connected to it. The shards use timestamp-ordered concurrency control, and commits go through two-phase commit (2PC). `spec.md` is the design document.

## 1. Inventory of the system

| Part | Source | State | Operations |
|---|---|---|---|
| TimestampedObject | `sharding/object.rs` | value, committed_timestamp, read_timestamps (ordered set), tentative_writes (ordered map) | read, write, check_commit, commit, can_reap, abort |
| Balance / diff | `lib.rs` | i64 balance | `diff` (balance + change), `check` (balance >= 0) |
| Shard store | `sharding/mod.rs` (not in the tree; spec 4.2) | key -> object | read/write/check_commit/commit/abort over the node's keys. WaitFor blocks the task until the awaited transaction ends. Abort reaps objects that were never committed. |
| Transaction ids | `sharding/transaction_id.rs` (not in the tree; spec 4.3) | per-node counter | next() = (counter, node), ordered lexicographically |
| Coordinator (`Server`) | `coordinator/mod.rs` | clients (tx -> session channel), commit_status (tx -> (count, status)), id generator | accept, handle_client_state, handle_remote_request (a spawned task), handle_two_phase_commit, Response routing, DoCommit (a spawned task) |
| Client session | `coordinator/client.rs` (not in the tree; spec 4.5) | the one transaction it runs | forwards Read/Write to the owning node and Commit/Abort as broadcasts; aborts on any abort answer; sends Finished |
| Connection pool | `pool/mod.rs` | TCP links to every peer | bring-up with retry and timeout; framing |
| Commit output | `coordinator/mod.rs` `format_commit_result` | none | sort the changed (key, balance) pairs by key, print the non-zero ones as one line (not modelled) |

**How the parts interact.** A client's session sends `ClientState::Forward` to its coordinator. The coordinator passes the request to the owning node (`Node`) or to every node (`Broadcast`), including itself. Each node handles a request in a new tokio task, so requests run in any order. Each task answers `Response` or `TwoPhaseCommitStatus` to the sender. The coordinator routes a `Response` to the session with `clients[tx].unwrap()`. It counts the votes. At `count == server_pool.len()` it tells the session CommitOk and broadcasts DoCommit, or tells it Aborted.

**What makes it hard:**
- spawned tasks interleave;
- WaitFor has no timeout;
- the vote count is compared with the pool size;
- answers can arrive after the session has gone;
- CommitOk is sent before any shard commits;
- the tentative value is computed when the write happens, not when it commits.

## 2. Modules

### `TimestampedObject.tla`
The first part defines operators on an object record: `ReadOutcome`/`AfterRead`, `CanWrite`/`AfterWrite`, `CheckCommit`, `AfterCommit`, `CanReap` and `AfterAbort`. Each one translates the object.rs method of the same name, including its early returns.

The second part is a specification of one object called by the transactions `TxIds` in any order, as the unit tests do. The actions are `Read`, `Write`, `Commit` and `Abort`. It also keeps history variables:
- `reads`: who read which version;
- `commits`;
- `aborted`.

A failed write or commit leaves the object unchanged, so only the changing branch is a step.

### `SerialObject.tla`
This is the abstract specification of what one object promises (spec 3 and 4.1). Transactions state intents and may withdraw them. The object installs the oldest intent, and only when its value passes the check, so the installed timestamp only advances.

`MCTimestampedObject` shows that `TimestampedObject` implements it with the mapping:
- `ts <- obj.committed`;
- `value <- obj.value`;
- `intents <- obj.tentative`.

The property `SerialRefinement` is `Serial!Spec`.

### `ObjectTests.tla`
The 18 unit tests of `object.rs` (`mod test`) run against the operators above. Each test is a sequence of call records: the method, the caller, the value written and the result the test asserts. The `verify_*` helpers become `CheckResult`, `CommitHolds` and `CallRead`. The specification picks one test and runs its calls on a fresh default object, one action per kind of call. The ids are tx1 < tx2 < tx3, as `TransactionIdGenerator::new('B')` hands them out.

### `ConnectionPool.tla`
Bring-up of the node-to-node pool, `pool/mod.rs` (`ConnectionPool::connect`).

| Variable | Meaning |
|---|---|
| `st[n]` | down / listening / up / exited |
| `dial[n]` | connect tasks still retrying |
| `backlog[n]` | connections the kernel accepted that `accept()` has not taken |
| `streams[n]` | streams in `stream_rcv` |
| `group[n]` | admitted links `<<dialer, acceptor>>` |

| Action | Code |
|---|---|
| `Bind` / `BindFail` | the listener bind and the spawn loop |
| `Connect` | `connect_to_node`. It succeeds once the target's listener exists; if its node already left the loop, the send panics after the id line was written. |
| `AdmitDialed` / `Accept` | the two select arms |
| `AdmitMember` | `admit_member` with the exit test `group.len() == config.len() - 1`. Leaving the loop drops the backlog and the streams. |
| `Timeout` | the timeout around `connect_inner` |

Failures (`BindFail`, `Timeout`) get no fairness. The other actions are weakly fair, because tokio retries and the loop keeps selecting.

### `Balance.tla`
`BalanceDiff::update` (`+=`), `diff` (`+`) and `check` from `lib.rs`, at machine width. `Width` is a constant because TLC's integers are 32-bit; wrapping addition behaves alike at every width.

`OverflowChecks` selects the build:
- TRUE: a debug build, where an overflowing `+` panics the task;
- FALSE: a release build, where it wraps.

The specification is one transaction writing one key. It merges its diffs and materialises the tentative value as spec 3 describes, and commits if the check passes. The history variable `exact` holds the true sum.

### `Cluster.tla`
Nodes, keys and client sessions. It applies the object operators through `INSTANCE TimestampedObject`.

| Variable | Code |
|---|---|
| `clients` | `Server::clients` |
| `commitStatus` | `Server::commit_status` |
| `counter` | the id generator |
| `objects` | the shards |
| `fromClients[n]` | the ordered channel from sessions to coordinator n |
| `net` | the set of in-flight `Forwarded` messages and spawned tasks; a set, because tasks run in any order |
| `inbox[t]` | the session's response channel |
| `sess[t]` | the session's control state |
| `exited` | the coordinator hit an unwrap or `process::exit` |

History variables: `acc`, `applied`, `wrote`, `committedOn`, `discarded`, `commitFailed` and `commitOk`.

| Action | Code |
|---|---|
| `Accept` | the accept arm of `serve` plus `get_handle` |
| `ClientFinished`, `ClientForwardBroadcast`, `ClientForwardNode` | the three arms of `handle_client_state` |
| `RemoteWrite`, `RemoteRead`, `RemoteCommit`, `RemoteAbort` | the spawned task of `handle_remote_request` |
| `HandleResponse` | the `Response` arm |
| `HandleTwoPhaseCommit` | `handle_two_phase_commit`, in full |
| `DoCommit` | the DoCommit task |
| `Session*` | the client session of spec 4.5 |

A task blocked on WaitFor is a disabled action. It runs again when the transaction it waits for ends, which matches the await in the shard.

**Modelled from the spec.** The session, the id encoding, the shard's key mapping and reaping are not in the source tree, so they are modelled from spec.md and marked `spec_modelled` in PROJECT.json.

**Balance width.** `Width` and `OverflowChecks` give the balance arithmetic through `INSTANCE Balance`. In a debug build, a write whose `base + diff` overflows panics its task. The task sends no Response and writes nothing. The passing runs use `Width = 16`, so no overflow is reachable.

**The shard's write value.** A write stores `base + diff`, where `base` is the writer's own tentative value if it has one, otherwise the committed value. That is what the lost-update run exercises.

## 3. Runs

| Run | Config | Bounds | Shows |
|---|---|---|---|
| object | `MCTimestampedObject.cfg` | 3 tx, values {-1,1,2} | `TentativeAboveCommitted`: no tentative writer at or below the committed timestamp. `ReadsSeeLatestCommitted`: no commit lands between a live reader and the version it read. `UncommittedReadersHoldWrites`: an object never committed has read timestamps only of its tentative writers, which is what lets `can_reap` ignore them. `SerialRefinement`: the object implements `SerialObject`. |
| cluster_safety | `MCCluster.cfg` | 2 nodes, keys x (node 1) and y (node 2), 1 tx per node, 2 ops per tx, diffs {-1,2} | `NoCoordinatorExit`: no unwrap panic or exit. `DoCommitNeverFails`: DoCommit never fails its check. `AllOrNothing`: no tx committed on one shard and discarded on another. |
| cluster_liveness | `MCClusterLive.cfg` | as above, 1 op per tx | `SessionsFinish`: every session ends. `CommitOkApplied`: every write of a CommitOk tx is installed. |
| pool | `MCConnectionPool.cfg` | 3 nodes, n dials every m < n | `LinksAgree`: two nodes that are up hold the same link for each other. `PoolComesUp`: without a bind failure or timeout, every node comes up. Nodes start in any order. |
| pool_single | `MCConnectionPoolSingle.cfg` | 1 node, no peers | **violation**: `PoolComesUp` fails. |
| pool_mutual | `MCConnectionPoolMutual.cfg` | 2 nodes dialling each other | **violation**: `LinksAgree` fails. |
| balance_release | `MCBalanceRelease.cfg` | width 8, diffs {-128,-1,1,127}, 2 writes, wrapping | **violation**: `CheckSeesTrueBalance` fails. |
| object_tests | `ObjectTests.cfg` | the 18 tests | `TestsPass`: every assertion of every unit test holds on the model. |
| overflow_panic | `MCClusterOverflow.cfg` | as cluster_liveness, `Width = 3`, debug build | **violation**: `SessionsFinish` fails. The same bounds with wrapping arithmetic pass. Deadlock checking is off because the hang is the behaviour under test. |
| lost_update | `MCClusterLostUpdate.cfg` | 1 op per tx | **violation**: `CommittedIsSumOfDiffs` fails. |
| early_finish | `MCClusterEarlyFinish.cfg` | `AwaitAbortReplies = FALSE` | **violation**: `NoCoordinatorExit` fails. |

**Why these bounds are enough.** Two nodes give both local and remote requests, and a broadcast that needs two votes. Two concurrent transactions (ids 4 = (1,1) and 5 = (1,2)) give every WaitFor, abort and ordering conflict between a pair of transactions. Two operations per transaction let one transaction touch both shards before committing. The diff -1 makes the consistency check fail; the diff 2 makes it pass.

**Fairness.** Tokio runs every spawned task, and the coordinator's select loop keeps draining its channels. So coordinator steps, task steps and session receives are weakly fair. Clients are assumed to end their transactions eventually, which spec 5 relies on. Nothing forces a client to read or write.

## 4. Findings

- **lost_update** (`object.rs:181`). `commit` installs a value computed at write time. T4 and T5 both write x += 2 on 0. T4 commits, then T5 commits, and x = 2 where the diffs sum to 4. Spec 8, scenario 2 says diffs compose to 40. The test `test_commit_stall` expects 30, the behaviour this run shows.
- **early_finish** (`coordinator/mod.rs:99`). Every shard answers an Abort with `Response(Aborted)`. If the session sends Finished right after the broadcast, as spec 4.5 reads, those answers reach `clients.get(..).unwrap()` after the handle is gone. The passing runs assume the session awaits all answers (`AwaitAbortReplies = TRUE`).

- **pool_mutual** (`pool/mod.rs:124`). If 1 and 2 name each other in `connection_list`, each can come up on its own dialled link. Each then drops the other's unaccepted connection, so they talk over different, half-closed links. Spec 6 does not require each pair to be dialled one way only.
- **pool_single** (`pool/mod.rs:124`). The loop tests `group.len() == config.len() - 1` only after it admits a member. A one-node config has no member to admit, so `connect` waits until the bring-up timeout exits the process. Spec 6 allows any config map and does not say that a node needs a peer.
- **balance_release** (`lib.rs:17`, `lib.rs:31`). In a release build `+` wraps. Two diffs of i64::MIN merge to 0, and `check` accepts a balance whose true value is negative. In a debug build the same writes panic the spawned task, so the session never gets an answer. That is listed as a hazard.
- **overflow_panic** (`lib.rs:31`). T4 commits x = 2. T5 writes x += 2, and 2 + 2 overflows a 3-bit balance. The panicking task never sends its Response, so T5's session never finishes. Spec 7 says every engine error ends the request with a client response. With 64-bit balances, the same happens to writes near i64::MAX.

**What the unit tests do not reach.** Every object mutant was run against `object_tests` as well. The tests catch the mutants of `check_commit`, `commit` and abort's removal of the tentative write. They miss two:
- dropping write's max-read-timestamp test (`CanWriteNoMrt`): no test has an older transaction write after a newer one read;
- dropping abort's removal of the read timestamp (`AfterAbortKeepsReadTs`, the line marked "TODO confirm we need this").

`ReadsSeeLatestCommitted` and `UncommittedReadersHoldWrites` of the object run catch both.

**Larger bounds tried.** Cluster with two transactions per node did not finish within 10 minutes, either with two keys or with one key and one operation per transaction (over 12 million distinct states and growing). The runs keep one transaction per node; two sessions already give every conflict between a pair of transactions.

## 5. Not modelled

- **The pool's member loop and framing** (`pool::member`). They are not in the source tree. Cluster assumes the links bring-up yields and models them as reliable, unordered delivery. Retries are modelled only as "the connect succeeds once the target listens".
- **The `read_line` error arm of the pool.** It is not reached, because the id line is written on connect.
- **The peer `Disconnected` exit.**
- **The commit output (`format_commit_result`).** It sorts the changed pairs by key, drops the zero balances and prints one line. It has no state and no interleaving, and checking it against spec 6's wording only restates those lines.
- **Wrapping overflow in Cluster.** Release-build wrapping is checked only in Balance. Cluster models the debug-build panic.
- **Per-key iteration of check_commit and commit** (spec 4.2). It matters only when a node owns two keys, which is beyond the bounds TLC finishes.
- **The client disconnecting mid-request.** The session then sends Abort and Finished. That reaches the same `clients[tx].unwrap()` crash as early_finish.
- **Growth of read_timestamps.** It is unbounded, so it is outside a finite model. The pruning that spec 9 proposes changes only write's answers, and write's `t > committed_timestamp` test already rejects every writer that a pruned id would block. A model of it would show nothing.

## 6. Plan for later sittings

Done so far: the unit tests of object.rs as a conformance run, the debug-build panic in Cluster, the one-node pool bring-up, the SerialObject refinement, the `can_reap` property, the pool bring-up, and the numeric check of `update`/`diff`/`check`.

Left:
1. **Per-key check_commit.** The shard's check_commit and commit iterate over keys. Model that as steps per key, with a DoCommit racing a check.
2. **Peer disconnect.** A peer crashes and the coordinator exits on Disconnected. Model that a session never gets an answer after a peer is gone.
3. **Reductions for larger instances.** Two transactions per node is out of reach even with one key (see Larger bounds tried). Getting there needs a session-level abstraction, such as one that merges a session with its coordinator's forwarding step.
