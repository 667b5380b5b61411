------------------------------ MODULE Connections ------------------------------
(***************************************************************************)
(* The life of a CNode (net.cpp, net.h): the threads that share the peers. *)
(*                                                                         *)
(*   net      ThreadSocketHandler2: drops and deletes nodes, accepts       *)
(*            inbound connections, polls every socket                      *)
(*   msghand  ThreadMessageHandler2: polls every node for messages         *)
(*   opener   ThreadOpenConnections2: opens outbound connections, one at a *)
(*            time, each against a grant of the semaphore semOutbound      *)
(*   relay    AcceptPendingSyncCheckpoint, in the thread that accepts a    *)
(*            block (msghand, a miner or an RPC call): walks vNodes without*)
(*            cs_vNodes and without references                             *)
(*                                                                         *)
(* A step is what a thread does under one hold of cs_vNodes, or one access *)
(* to a field that no lock protects.  The configuration is the default one *)
(* (no -connect, -addnode or -seednode), so one thread opens connections.  *)
(* The outcome of an I/O call, of a time-out, of a ban or of a message is  *)
(* a free choice.  A slot is memory: a thread that uses a slot whose node  *)
(* was deleted ends the program, or writes what is lost, or reaches the    *)
(* node that is at the slot by now.                                        *)
(***************************************************************************)
EXTENDS Integers, FiniteSets

CONSTANTS
    Slots,                      \* places a CNode can be allocated at
    Addresses, GetGroup,        \* addresses, and the network group of each
    MAX_OUTBOUND_CONNECTIONS,
    MaxInbound,                 \* -maxconnections less MAX_OUTBOUND_CONNECTIONS
    MaxReused,                  \* bound on the slots a found connection was at
    NULL

ASSUME ConnectionsAssumption ==
    /\ IsFiniteSet(Slots) /\ NULL \notin Slots \cup Addresses
    /\ MAX_OUTBOUND_CONNECTIONS \in Nat /\ MaxInbound \in Nat /\ MaxReused \in Nat

Handlers == {"net", "msghand"}

VARIABLES
    node,                       \* the CNode at each slot
    vNodes, vNodesDisconnected,
    semOutbound,
    pc,                         \* of the handlers: "top", "select" or "poll"
    vNodesCopy,                 \* of the handlers
    opener,                     \* the opening thread: where it is, address, node, and the
                                \* reference count it has read and will write back, plus one
    relaying,                   \* node the walk of vNodes without its lock has come to
    lost,                       \* history: grants moved to memory without a node
    reused                      \* history: slots whose count was written without the lock

vars == <<node, vNodes, vNodesDisconnected, semOutbound, pc, vNodesCopy, opener, relaying,
          lost, reused>>
Allocated == vNodes \cup vNodesDisconnected

CNode ==
    [addr: Addresses \cup {NULL}, fInbound: BOOLEAN, fNetworkNode: BOOLEAN,
     fDisconnect: BOOLEAN, grantOutbound: BOOLEAN, nRefCount: Int]

\* Every variable has its type; the list and the pool share no node.
TypeOK ==
    /\ node \in [Slots -> CNode]
    /\ vNodes \subseteq Slots /\ vNodesDisconnected \subseteq Slots \ vNodes
    /\ semOutbound \in Nat
    /\ pc \in [Handlers -> {"top", "select", "poll"}]
    /\ vNodesCopy \in [Handlers -> SUBSET Slots]
    /\ opener \in [at: {"idle", "granted", "dialing", "found", "adding", "opened", "moved"},
                   addr: Addresses \cup {NULL}, node: Slots \cup {NULL}, refs: Int]
    /\ relaying \in Slots \cup {NULL}
    /\ lost \in Nat /\ reused \subseteq Slots

Bit(p) == IF p THEN 1 ELSE 0

\* A new CNode (outbound), with the reference its creator takes.
NewNode(a) ==
    [addr |-> a, fInbound |-> FALSE, fNetworkNode |-> FALSE,
     fDisconnect |-> FALSE, grantOutbound |-> FALSE, nRefCount |-> 1]

\* Memory that holds no CNode.
Blank == [NewNode(NULL) EXCEPT !.nRefCount = 0]
Idle == [at |-> "idle", addr |-> NULL, node |-> NULL, refs |-> 0]

Init ==
    /\ node = [n \in Slots |-> Blank]
    /\ vNodes = {} /\ vNodesDisconnected = {}
    /\ semOutbound = MAX_OUTBOUND_CONNECTIONS
    /\ pc = [t \in Handlers |-> IF t = "net" THEN "top" ELSE "select"]
    /\ vNodesCopy = [t \in Handlers |-> {}]
    /\ opener = Idle
    /\ relaying = NULL
    /\ lost = 0 /\ reused = {}

\* The program has ended, and starts again as in Init.
StartedAgain ==
    /\ node' = [n \in Slots |-> Blank]
    /\ vNodes' = {} /\ vNodesDisconnected' = {}
    /\ semOutbound' = MAX_OUTBOUND_CONNECTIONS
    /\ pc' = [t \in Handlers |-> IF t = "net" THEN "top" ELSE "select"]
    /\ vNodesCopy' = [t \in Handlers |-> {}]
    /\ opener' = Idle
    /\ relaying' = NULL
    /\ lost' = 0 /\ reused' = {}

-----------------------------------------------------------------------------
(* The handlers.                                                           *)

DisconnectedKeepsReference(r) == [r EXCEPT !.fDisconnect = TRUE, !.grantOutbound = FALSE]
DisconnectedAlwaysReleases(r) ==
    [r EXCEPT !.fDisconnect = TRUE, !.grantOutbound = FALSE, !.nRefCount = @ - 1]

\* What becomes of a node that leaves the list: its grant is released, and so
\* is the reference of its creator.
Disconnected(r) ==
    [r EXCEPT !.fDisconnect = TRUE, !.grantOutbound = FALSE,
              !.nRefCount = IF r.fNetworkNode \/ r.fInbound THEN @ - 1 ELSE @]

\* The nodes that leave the list, and what becomes of every node.
Gone == {n \in vNodes : node[n].fDisconnect \/ node[n].nRefCount <= 0}
Left == [n \in Slots |-> IF n \in Gone THEN Disconnected(node[n]) ELSE node[n]]

\* The top of the socket handler's loop: marked and unreferenced nodes go to
\* the pool, and the nodes of the pool that have no reference are deleted,
\* with the grant they may hold.
DisconnectNodes ==
    LET dead == {n \in vNodesDisconnected \cup Gone : Left[n].nRefCount <= 0} IN
    /\ pc["net"] = "top" /\ \A n \in Allocated : Left[n].nRefCount >= 0
    /\ vNodes' = vNodes \ Gone
    /\ vNodesDisconnected' = (vNodesDisconnected \cup Gone) \ dead
    /\ node' = [n \in Slots |-> IF n \in dead THEN Blank ELSE Left[n]]
    /\ semOutbound' = semOutbound + Cardinality({n \in Gone \cup dead : node[n].grantOutbound})
    /\ pc' = [pc EXCEPT !["net"] = "select"]
    /\ UNCHANGED <<vNodesCopy, opener, relaying, lost, reused>>

\* The assertion of GetRefCount ends the program, which is started again.
AssertFails ==
    /\ pc["net"] = "top" /\ \E n \in Allocated : Left[n].nRefCount < 0
    /\ StartedAgain

\* A connection is accepted from address a while there is room for it.
Accept(a) ==
    /\ pc["net"] = "select"
    /\ Cardinality({n \in vNodes : node[n].fInbound}) < MaxInbound
    /\ \E n \in Slots \ Allocated :
        /\ node' = [node EXCEPT ![n] = [NewNode(a) EXCEPT !.fInbound = TRUE]]
        /\ vNodes' = vNodes \cup {n}
    /\ UNCHANGED <<vNodesDisconnected, semOutbound, pc, vNodesCopy, opener, relaying, lost, reused>>

AddRef(nodes) ==
    [n \in Slots |-> IF n \in nodes THEN [node[n] EXCEPT !.nRefCount = @ + 1] ELSE node[n]]

Release(nodes) ==
    [n \in Slots |->
        IF n \in nodes \cap Allocated THEN [node[n] EXCEPT !.nRefCount = @ - 1] ELSE node[n]]

\* Thread t copies the list and takes a reference to each node in it.
TakeCopy(t) ==
    /\ pc[t] = "select"
    /\ vNodesCopy' = [vNodesCopy EXCEPT ![t] = vNodes]
    /\ node' = AddRef(vNodes)
    /\ pc' = [pc EXCEPT ![t] = "poll"]
    /\ UNCHANGED <<vNodes, vNodesDisconnected, semOutbound, opener, relaying, lost, reused>>

\* While it polls its copy thread t marks a node: the peer closed the
\* connection, an error, a time-out, a flood, a ban, or what a message asks.
Poll(t) ==
    /\ pc[t] = "poll"
    /\ \E n \in vNodesCopy[t] \cap Allocated : node' = [node EXCEPT ![n].fDisconnect = TRUE]
    /\ UNCHANGED <<vNodes, vNodesDisconnected, semOutbound, pc, vNodesCopy, opener, relaying, lost,
                   reused>>

\* Thread t is done with its copy.
ReleaseCopy(t) ==
    /\ pc[t] = "poll"
    /\ node' = Release(vNodesCopy[t])
    /\ vNodesCopy' = [vNodesCopy EXCEPT ![t] = {}]
    /\ pc' = [pc EXCEPT ![t] = IF t = "net" THEN "top" ELSE "select"]
    /\ UNCHANGED <<vNodes, vNodesDisconnected, semOutbound, opener, relaying, lost, reused>>

-----------------------------------------------------------------------------
(* The opening thread.                                                     *)

\* It waits for a grant of the semaphore.
AcquireGrant ==
    /\ opener.at = "idle" /\ semOutbound > 0
    /\ semOutbound' = semOutbound - 1
    /\ opener' = [opener EXCEPT !.at = "granted"]
    /\ UNCHANGED <<node, vNodes, vNodesDisconnected, pc, vNodesCopy, relaying, lost, reused>>

SelectAny(a) == TRUE

\* Address a is of a group it has no connection to, and is not connected.
Selectable(a) ==
    /\ \A n \in vNodes : ~node[n].fInbound => GetGroup[node[n].addr] # GetGroup[a]
    /\ \A n \in vNodes : node[n].addr # a

\* It selects an address and starts to connect to it.
Dial(a) ==
    /\ opener.at = "granted" /\ Selectable(a)
    /\ opener' = [opener EXCEPT !.at = "dialing", !.addr = a]
    /\ UNCHANGED <<node, vNodes, vNodesDisconnected, semOutbound, pc, vNodesCopy, relaying, lost,
                   reused>>

\* There is no address to connect to, or the connection fails: the grant goes
\* out of scope.
OpenFails ==
    /\ opener.at \in {"granted", "dialing"}
    /\ opener' = Idle
    /\ semOutbound' = semOutbound + 1
    /\ UNCHANGED <<node, vNodes, vNodesDisconnected, pc, vNodesCopy, relaying, lost, reused>>

\* ConnectNode finds no connection, connects, and returns a new node, which the
\* other threads can see already.
ConnectNode ==
    /\ opener.at = "dialing"
    /\ \E n \in Slots \ Allocated :
        /\ node' = [node EXCEPT ![n] = NewNode(opener.addr)]
        /\ vNodes' = vNodes \cup {n}
        /\ opener' = [Idle EXCEPT !.at = "opened", !.node = n]
    /\ UNCHANGED <<vNodesDisconnected, semOutbound, pc, vNodesCopy, relaying, lost, reused>>

\* "Look for an existing connection": a peer has connected from the address
\* since it was selected.  The lock is given up, and no reference taken yet.
FindExisting ==
    /\ opener.at = "dialing" /\ Cardinality(reused) < MaxReused
    /\ \E n \in vNodes : node[n].addr = opener.addr
                        /\ opener' = [Idle EXCEPT !.at = "found", !.node = n]
    /\ UNCHANGED <<node, vNodes, vNodesDisconnected, semOutbound, pc, vNodesCopy, relaying, lost,
                   reused>>

\* AddRef without the lock reads the count ...
ReadRefCount ==
    /\ opener.at = "found"
    /\ opener' = [opener EXCEPT !.at = "adding", !.refs = node[opener.node].nRefCount]
    /\ UNCHANGED <<node, vNodes, vNodesDisconnected, semOutbound, pc, vNodesCopy, relaying, lost,
                   reused>>

\* ... and writes it back, whatever the handlers did to it meanwhile.  Nobody
\* releases this reference.
WriteRefCount ==
    /\ opener.at = "adding"
    /\ node' = [node EXCEPT ![opener.node].nRefCount =
                    IF opener.node \in Allocated THEN opener.refs + 1 ELSE @]
    /\ opener' = [opener EXCEPT !.at = "opened", !.refs = 0]
    /\ reused' = reused \cup {opener.node}
    /\ UNCHANGED <<vNodes, vNodesDisconnected, semOutbound, pc, vNodesCopy, relaying, lost>>

MoveGrantAndPost ==
    /\ opener.at = "opened"
    /\ node' = [node EXCEPT ![opener.node].grantOutbound = TRUE]
    /\ semOutbound' = semOutbound + 1
    /\ opener' = [opener EXCEPT !.at = "moved"]
    /\ UNCHANGED <<vNodes, vNodesDisconnected, pc, vNodesCopy, relaying, lost, reused>>

\* The grant moves to the node, which releases the one it may have.
MoveGrant ==
    /\ opener.at = "opened"
    /\ IF opener.node \in Allocated
       THEN /\ node' = [node EXCEPT ![opener.node].grantOutbound = TRUE]
            /\ semOutbound' = semOutbound + Bit(node[opener.node].grantOutbound)
            /\ UNCHANGED lost
       ELSE lost' = lost + 1 /\ UNCHANGED <<node, semOutbound>>
    /\ opener' = [opener EXCEPT !.at = "moved"]
    /\ UNCHANGED <<vNodes, vNodesDisconnected, pc, vNodesCopy, relaying, reused>>

\* The node becomes a network node, and the next round begins.
MarkNetworkNode ==
    /\ opener.at = "moved"
    /\ node' = [node EXCEPT ![opener.node].fNetworkNode = opener.node \in Allocated]
    /\ opener' = Idle
    /\ UNCHANGED <<vNodes, vNodesDisconnected, semOutbound, pc, vNodesCopy, relaying, lost, reused>>

-----------------------------------------------------------------------------
(* The relay of a sync-checkpoint.                                         *)

\* A pending checkpoint was accepted: the walk of vNodes comes to a node ...
AcceptPendingSyncCheckpoint ==
    /\ relaying = NULL
    /\ relaying' \in vNodes
    /\ UNCHANGED <<node, vNodes, vNodesDisconnected, semOutbound, pc, vNodesCopy, opener, lost, reused>>

\* ... and sends it the checkpoint.
RelayTo ==
    /\ relaying # NULL
    /\ relaying' = NULL
    /\ UNCHANGED <<node, vNodes, vNodesDisconnected, semOutbound, pc, vNodesCopy, opener, lost, reused>>

-----------------------------------------------------------------------------

\* The nodes that a thread uses with a reference it has, and without one.
Referenced ==
    vNodesCopy["net"] \cup vNodesCopy["msghand"]
        \cup (IF opener.at \in {"opened", "moved"} THEN {opener.node} ELSE {})
Unreferenced ==
    ({relaying} \ {NULL}) \cup (IF opener.at \in {"found", "adding"} THEN {opener.node} ELSE {})

\* A thread uses a deleted node: the program ends, and is started again.
UseDeleted ==
    /\ ~(Referenced \cup Unreferenced \subseteq Allocated)
    /\ StartedAgain

Next ==
    \/ DisconnectNodes
    \/ \E a \in Addresses : Accept(a) \/ Dial(a)
    \/ \E t \in Handlers : TakeCopy(t) \/ Poll(t) \/ ReleaseCopy(t)
    \/ AcquireGrant \/ OpenFails \/ ConnectNode \/ MoveGrant \/ MarkNetworkNode
    \/ FindExisting \/ ReadRefCount \/ WriteRefCount
    \/ AcceptPendingSyncCheckpoint \/ RelayTo
    \/ AssertFails \/ UseDeleted

\* The handlers' loops go round: select has a time-out, and the locks a handler
\* could be kept out of are only tried.
Fairness ==
    /\ WF_vars(DisconnectNodes \/ AssertFails)
    /\ \A t \in Handlers : WF_vars(TakeCopy(t)) /\ WF_vars(ReleaseCopy(t))

Spec == Init /\ [][Next]_vars /\ Fairness

-----------------------------------------------------------------------------
(* Properties.                                                             *)

Holders(n) == Bit(n \in vNodesCopy["net"]) + Bit(n \in vNodesCopy["msghand"])

Opening(n) == opener.at \in {"opened", "moved"} /\ opener.node = n

\* nRefCount covers every user: a node has one reference for each handler that
\* holds it in its copy, and one more while it is in the list or the opening
\* thread is not done with it.  It is what GetRefCount() <= 0 in the socket
\* handler relies on, and keeps the assertion in GetRefCount.  A slot where
\* ConnectNode wrote the count without cs_vNodes is excepted: that write can
\* undo what a handler did to the count.
RefsCoverUsers ==
    \A n \in Allocated \ reused : node[n].nRefCount >= Holders(n) + Bit(n \in vNodes \/ Opening(n))

\* No thread uses a node that it has a reference to and that was deleted: the
\* socket handler deletes a node only when the threads that counted themselves
\* are done with it, except at a slot where ConnectNode wrote the count without
\* cs_vNodes.
NodesInUseExist == Referenced \ reused \subseteq Allocated

\* "wait until threads are done using it": no thread uses a deleted node.
AllNodesInUseExist == Referenced \cup Unreferenced \subseteq Allocated

\* The semaphore bounds the outbound connections, whatever the order in which
\* grants are moved to nodes and released.
OutboundBounded ==
    Cardinality({n \in vNodes : ~node[n].fInbound}) <= MAX_OUTBOUND_CONNECTIONS

Granted == {n \in Slots : node[n].grantOutbound}

\* No grant is lost or made: the free ones of semOutbound, those that nodes hold,
\* the one of the opening thread, until it moves it to its node, and those it
\* moved to a node that was deleted, are the limit.  One release too many would
\* admit more connections than the limit, and a deleted node that still holds
\* one would close a slot for good.
GrantsAccounted ==
    semOutbound + Cardinality(Granted) + lost
        + Bit(opener.at \in {"granted", "dialing", "found", "adding", "opened"})
        = MAX_OUTBOUND_CONNECTIONS

\* "Only connect out to one peer per network group": no two outbound nodes in
\* the list are of one group, although the test and the insertion into the
\* list are not one step.
OneOutboundPerGroup ==
    \A m, n \in vNodes :
        /\ ~node[m].fInbound /\ ~node[n].fInbound
        /\ GetGroup[node[m].addr] = GetGroup[node[n].addr]
        => m = n

\* An inbound node that is marked is deleted in the end, unless ConnectNode took
\* the reference that nobody releases.
InboundDeleted ==
    \A n \in Slots : (n \in Allocated /\ node[n].fInbound /\ node[n].fDisconnect)
                        ~> (n \notin Allocated \/ n \in reused)

\* "hold in disconnected pool until all refs are released": a node of the pool
\* that no thread uses has no reference left and holds no grant.
PooledNodeReleased ==
    \A n \in vNodesDisconnected :
        n \notin Referenced =>
            node[n].nRefCount <= 0 /\ ~node[n].grantOutbound
=============================================================================
