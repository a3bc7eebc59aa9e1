--------------------------- MODULE ConnectionPool ---------------------------
(***************************************************************************)
(* Bring-up of the node-to-node connection pool, ConnectionPool::connect  *)
(* in src/tx-server/src/pool/mod.rs.                                       *)
(*                                                                         *)
(* Every node binds its listener, spawns one connect_to_node task per     *)
(* node of its connection_list, and then loops: it admits the streams its *)
(* own tasks connected (stream_rcv) and the connections it accepts, each  *)
(* announcing the dialer's id on its first line, until its group holds    *)
(* config.len() - 1 members.  Leaving the loop drops the listener and the *)
(* stream receiver.  A connect task retries every 100 ms for ever; the    *)
(* whole loop runs under a timeout that exits the process.                *)
(*                                                                         *)
(* A link is the TCP connection <<dialer, acceptor>>; each node holds the *)
(* set of links it admitted.                                               *)
(***************************************************************************)
EXTENDS Naturals, FiniteSets

CONSTANTS
    Nodes,      \* the node ids of the config
    ConnList    \* ConnList[n]: the connection_list of n's config entry

ASSUME ConnList \in [Nodes -> SUBSET Nodes]
ASSUME \A n \in Nodes : n \notin ConnList[n]

VARIABLES
    st,       \* "down" (not started), "listening" (in connect_inner's loop),
              \* "up" (connect returned the pool), "exited" (process::exit)
    dial,     \* dial[n]: targets whose connect_to_node task still retries
    backlog,  \* backlog[n]: dialers connected to n's listener, not accepted
    streams,  \* streams[n]: targets connected by n's tasks, not yet received
    group     \* group[n]: links n admitted (MulticastGroup)

vars == <<st, dial, backlog, streams, group>>

Link == Nodes \X Nodes

Peer(n, l) == IF l[1] = n THEN l[2] ELSE l[1]

Members(n, g) == {Peer(n, l) : l \in g}

\* Mutant: the exit test one member short.
FullEarly(n, g) == Cardinality(Members(n, g)) = Cardinality(Nodes) - 2

\* Mutant: the exit test counting n itself among the members.
FullCountingSelf(n, g) == Cardinality(Members(n, g)) = Cardinality(Nodes)

\* The loop's exit test: group.len() == config.len() - 1.  group is a
\* HashMap keyed by member id, so a second link to a member replaces the
\* first and the length counts members.
Full(n, g) == Cardinality(Members(n, g)) = Cardinality(Nodes) - 1

\* ConnectionPool::new: an empty group; nothing is bound yet.
Init ==
    /\ st = [n \in Nodes |-> "down"]
    /\ dial = [n \in Nodes |-> {}]
    /\ backlog = [n \in Nodes |-> {}]
    /\ streams = [n \in Nodes |-> {}]
    /\ group = [n \in Nodes |-> {}]

\* Mutant: a connect task for every node of the config.
BindDialsAll(n) ==
    /\ st[n] = "down"
    /\ st' = [st EXCEPT ![n] = "listening"]
    /\ dial' = [dial EXCEPT ![n] = Nodes]
    /\ UNCHANGED <<backlog, streams, group>>

\* connect_inner up to the loop: bind the listener, spawn one connect task
\* per entry of connection_list, drop the loop's own stream sender.
Bind(n) ==
    /\ st[n] = "down"
    /\ st' = [st EXCEPT ![n] = "listening"]
    /\ dial' = [dial EXCEPT ![n] = ConnList[n]]
    /\ UNCHANGED <<backlog, streams, group>>

\* TcpListener::bind fails: the process exits.
BindFail(n) ==
    /\ st[n] = "down"
    /\ st' = [st EXCEPT ![n] = "exited"]
    /\ UNCHANGED <<dial, backlog, streams, group>>

(***************************************************************************)
(* connect_to_node: the retried TcpStream::connect succeeds once m's      *)
(* listener exists (until then the retry changes nothing); the task then  *)
(* writes n's id and sends the stream to n's loop.  When n has already    *)
(* left the loop the send fails, the task panics and drops the stream,    *)
(* but m's listener holds the connection with n's id already written.    *)
(***************************************************************************)
Connect(n, m) ==
    /\ st[n] \in {"listening", "up"}
    /\ m \in dial[n]
    /\ st[m] = "listening"
    /\ dial' = [dial EXCEPT ![n] = @ \ {m}]
    /\ backlog' = [backlog EXCEPT ![m] = @ \cup {n}]
    /\ streams' = IF st[n] = "listening"
                  THEN [streams EXCEPT ![n] = @ \cup {m}]
                  ELSE streams
    /\ UNCHANGED <<st, group>>

\* admit_member followed by the exit test, given the listener backlog bl
\* and the stream channel sc left by the arm that took the connection.  On
\* a full group the loop breaks, dropping the listener with its pending
\* connections and the stream receiver with the streams still in it.
AdmitMember(n, l, bl, sc) ==
    LET g == group[n] \cup {l}
    IN  /\ group' = [group EXCEPT ![n] = g]
        /\ IF Full(n, g)
           THEN /\ st' = [st EXCEPT ![n] = "up"]
                /\ backlog' = [bl EXCEPT ![n] = {}]
                /\ streams' = [sc EXCEPT ![n] = {}]
           ELSE /\ backlog' = bl
                /\ streams' = sc
                /\ UNCHANGED st

\* The stream_rcv arm of the loop: a stream n's own task connected.
AdmitDialed(n, m) ==
    /\ st[n] = "listening"
    /\ m \in streams[n]
    /\ AdmitMember(n, <<n, m>>, backlog, [streams EXCEPT ![n] = @ \ {m}])
    /\ UNCHANGED dial

\* The accept arm: read the dialer's id line and admit the connection.
Accept(n, d) ==
    /\ st[n] = "listening"
    /\ d \in backlog[n]
    /\ AdmitMember(n, <<d, n>>, [backlog EXCEPT ![n] = @ \ {d}], streams)
    /\ UNCHANGED dial

\* connect: the timeout around connect_inner expires and the process exits.
Timeout(n) ==
    /\ st[n] = "listening"
    /\ st' = [st EXCEPT ![n] = "exited"]
    /\ UNCHANGED <<dial, backlog, streams, group>>

\* Every node has left bring-up; the remaining connect tasks retry without
\* effect.
Settled ==
    /\ \A n \in Nodes : st[n] \in {"up", "exited"}
    /\ UNCHANGED vars

Next ==
    \/ \E n \in Nodes : Bind(n) \/ BindFail(n) \/ Timeout(n)
    \/ \E n, m \in Nodes : Connect(n, m) \/ AdmitDialed(n, m) \/ Accept(n, m)
    \/ Settled

(***************************************************************************)
(* Fairness: the operator starts every node, tokio keeps retrying every   *)
(* connect task and the loop keeps selecting.  A failed bind and the      *)
(* timeout are failures, not steps the scheduler must take: no fairness. *)
(***************************************************************************)
Fairness ==
    \A n \in Nodes :
        /\ WF_vars(Bind(n))
        /\ \A m \in Nodes : /\ WF_vars(Connect(n, m))
                            /\ WF_vars(AdmitDialed(n, m))
                            /\ WF_vars(Accept(n, m))

Spec == Init /\ [][Next]_vars /\ Fairness

-----------------------------------------------------------------------------
TypeOK ==
    /\ st \in [Nodes -> {"down", "listening", "up", "exited"}]
    /\ dial \in [Nodes -> SUBSET Nodes]
    /\ backlog \in [Nodes -> SUBSET Nodes]
    /\ streams \in [Nodes -> SUBSET Nodes]
    /\ group \in [Nodes -> SUBSET Link]
    /\ \A n \in Nodes : dial[n] \subseteq ConnList[n]
    /\ \A n \in Nodes : \A l \in group[n] : n \in {l[1], l[2]} /\ l[1] # l[2]

\* Two nodes that both returned from connect agree on the connection they
\* talk over: every link n admitted for m is one m admitted too.  A link
\* whose other end was dropped with a listener or a panicking connect task
\* surfaces later as a Disconnected member, which the coordinator treats
\* as fatal (coordinator/mod.rs handle_server_state).
LinksAgree ==
    \A n, m \in Nodes :
        st[n] = "up" /\ st[m] = "up" =>
            \A l \in group[n] : Peer(n, l) = m => l \in group[m]

\* Unless a bind fails or the bring-up timeout fires, every node's connect
\* returns a full pool.
PoolComesUp ==
    <>(\A n \in Nodes : st[n] = "up") \/ <>(\E n \in Nodes : st[n] = "exited")
=============================================================================
