-------------------------- MODULE ConnectionsProofs --------------------------
(***************************************************************************)
(* The references of a node cover the users that counted themselves, no    *)
(* thread uses a deleted node it has a reference to (both except at a slot *)
(* where ConnectNode wrote the count without the lock), outbound           *)
(* connections are of different groups, and no grant of the semaphore is   *)
(* lost or made but by a move to a deleted node, for any number of nodes,  *)
(* addresses and connections.                                              *)
(***************************************************************************)
EXTENDS Connections, FiniteSetTheorems, TLAPS

\* The inductive invariant.  A handler that does not poll holds no copy; the
\* opening thread holds a node just while it has one to finish, and that node,
\* unless it was found, is not yet one the socket handler releases for its
\* creator; while it dials no outbound node is of the group of its address.
RefInv ==
    /\ TypeOK
    /\ RefsCoverUsers
    /\ NodesInUseExist
    /\ OneOutboundPerGroup
    /\ \A t \in Handlers : pc[t] # "poll" => vNodesCopy[t] = {}
    /\ opener.at \in {"found", "adding", "opened", "moved"} <=> opener.node # NULL
    /\ \A n \in Slots \ reused : Opening(n) => ~node[n].fNetworkNode /\ ~node[n].fInbound
    /\ opener.at = "dialing" =>
        \A n \in vNodes : ~node[n].fInbound => GetGroup[node[n].addr] # GetGroup[opener.addr]

USE ConnectionsAssumption

\* The records the actions write are of the type of a node.
LEMMA NodeTypes ==
    /\ Blank \in CNode
    /\ \A a \in Addresses \cup {NULL} : NewNode(a) \in CNode
    /\ \A r \in CNode : Disconnected(r) \in CNode
  <1>1. \A a \in Addresses \cup {NULL} : NewNode(a) \in CNode
    BY DEF NewNode, CNode
  <1>2. Blank \in CNode
    <2>1. NewNode(NULL) \in CNode
      BY <1>1
    <2> QED
      BY <2>1 DEF Blank, CNode
  <1>3. ASSUME NEW r \in CNode PROVE Disconnected(r) \in CNode
    <2> DEFINE refs == IF r.fNetworkNode \/ r.fInbound THEN r.nRefCount - 1 ELSE r.nRefCount
    <2>1. refs \in Int
      BY DEF CNode
    <2>2. Disconnected(r) = [r EXCEPT !.fDisconnect = TRUE, !.grantOutbound = FALSE, !.nRefCount = refs]
      BY DEF Disconnected
    <2> HIDE DEF refs
    <2> QED
      BY <2>1, <2>2, Zenon DEF CNode
  <1> QED
    BY <1>1, <1>2, <1>3

\* What NodesInUseExist says of each user, before and after a step.
LEMMA UsersExist ==
    /\ NodesInUseExist <=> \A n : (Holders(n) > 0 \/ Opening(n)) /\ n \notin reused => n \in Allocated
    /\ NodesInUseExist' <=> \A n : (Holders(n)' > 0 \/ Opening(n)') /\ n \notin reused' => n \in Allocated'
  BY DEF NodesInUseExist, Referenced, Holders, Bit, Opening

\* The number of handlers that hold a node.
LEMMA HoldersType == \A n : Holders(n) \in Nat
  BY DEF Holders, Bit

\* A program that has started has no node at all.
LEMMA StartEstablishes == ASSUME StartedAgain PROVE RefInv'
  <1>1. TypeOK'
    BY NodeTypes DEF StartedAgain, TypeOK, Idle, Handlers
  <1> QED
    BY <1>1 DEF StartedAgain, RefInv, RefsCoverUsers, NodesInUseExist, OneOutboundPerGroup, Allocated, Idle,
                Handlers, Referenced, Opening

\* The first state has no node at all.
LEMMA InitEstablishes == Init => RefInv
  <1> SUFFICES ASSUME Init PROVE RefInv
    OBVIOUS
  <1>1. TypeOK
    BY NodeTypes DEF Init, TypeOK, Idle, Handlers
  <1> QED
    BY <1>1 DEF Init, RefInv, RefsCoverUsers, NodesInUseExist, OneOutboundPerGroup, Allocated, Idle, Handlers,
                Referenced, Opening

\* The top of the socket handler's loop: a node that goes to the pool keeps a
\* reference for each user that is left, so one that has none has no user.
LEMMA DisconnectNodesKeeps == RefInv /\ DisconnectNodes => RefInv'
  <1> SUFFICES ASSUME RefInv, DisconnectNodes PROVE RefInv'
    OBVIOUS
  <1> DEFINE dead == {n \in vNodesDisconnected \cup Gone : Left[n].nRefCount <= 0}
             freed == {n \in Gone \cup dead : node[n].grantOutbound}
  <1>1. /\ vNodes' = vNodes \ Gone
        /\ vNodesDisconnected' = (vNodesDisconnected \cup Gone) \ dead
        /\ node' = [n \in Slots |-> IF n \in dead THEN Blank ELSE Left[n]]
        /\ semOutbound' = semOutbound + Cardinality(freed)
        /\ pc' = [pc EXCEPT !["net"] = "select"]
        /\ UNCHANGED <<vNodesCopy, opener, relaying, lost, reused>> /\ pc["net"] = "top"
    BY DEF DisconnectNodes
  <1>2. TypeOK /\ Gone \subseteq vNodes
    BY DEF RefInv, Gone
  <1>3. Cardinality(freed) \in Nat
    <2>1. IsFiniteSet(freed)
      BY <1>2, FS_Subset DEF TypeOK
    <2> QED
      BY <2>1, FS_CardinalityType
  <1>4. \A n \in Slots : Left[n] \in CNode /\ Left[n] = IF n \in Gone THEN Disconnected(node[n]) ELSE node[n]
    BY <1>2, NodeTypes DEF TypeOK, Left
  <1>5. Blank \in CNode
    BY NodeTypes
  <1> HIDE DEF dead, freed
  <1>6. TypeOK'
    <2>1. semOutbound' \in Nat
      BY <1>1, <1>2, <1>3 DEF TypeOK
    <2>2. node' \in [Slots -> CNode]
      BY <1>1, <1>4, <1>5
    <2>3. vNodes' \subseteq Slots /\ vNodesDisconnected' \subseteq Slots \ vNodes'
      BY <1>1, <1>2 DEF TypeOK
    <2>4. pc' \in [Handlers -> {"top", "select", "poll"}]
      BY <1>1, <1>2, Zenon DEF TypeOK
    <2> QED
      BY <1>1, <1>2, <2>1, <2>2, <2>3, <2>4 DEF TypeOK
  <1>7. \A n \in Allocated \ reused :
          Left[n].nRefCount >= Holders(n) + Bit(n \in vNodes' \/ Opening(n))
    <2> SUFFICES ASSUME NEW n \in Allocated \ reused
                 PROVE  Left[n].nRefCount >= Holders(n) + Bit(n \in vNodes' \/ Opening(n))
      OBVIOUS
    <2>1. n \in Slots /\ node[n] \in CNode
      BY <1>2 DEF TypeOK, Allocated
    <2>2. node[n].nRefCount >= Holders(n) + Bit(n \in vNodes \/ Opening(n))
      BY DEF RefInv, RefsCoverUsers
    <2>3. Holders(n) \in Nat
      BY HoldersType
    <2>4. CASE n \notin Gone
      BY <2>1, <2>2, <2>4, <1>1, <1>4 DEF Bit
    <2>5. CASE n \in Gone /\ Opening(n)
      <3>1. ~node[n].fNetworkNode /\ ~node[n].fInbound
        BY <2>1, <2>5 DEF RefInv
      <3>2. Left[n].nRefCount = node[n].nRefCount
        BY <2>1, <2>5, <3>1, <1>4 DEF Disconnected, CNode
      <3> QED
        BY <2>2, <2>5, <3>2 DEF Bit
    <2>6. CASE n \in Gone /\ ~Opening(n)
      <3>1. node[n].nRefCount \in Int /\ Left[n].nRefCount >= node[n].nRefCount - 1
        <4>1. Left[n] = Disconnected(node[n])
          BY <1>4, <2>1, <2>6
        <4> QED
          BY <2>1, <4>1 DEF Disconnected, CNode
      <3>2. Left[n].nRefCount \in Int
        BY <2>1, <1>4 DEF CNode
      <3>3. node[n].nRefCount >= Holders(n) + 1
        BY <2>2, <2>6, <1>2 DEF Bit
      <3>4. Bit(n \in vNodes' \/ Opening(n)) = 0
        BY <1>1, <2>6 DEF Bit
      <3> QED
        BY <2>3, <3>1, <3>2, <3>3, <3>4
    <2> QED
      BY <2>4, <2>5, <2>6
  <1>8. \A n \in dead \ reused : Holders(n) = 0 /\ ~Opening(n)
    <2> SUFFICES ASSUME NEW n \in dead \ reused PROVE Holders(n) = 0 /\ ~Opening(n)
      OBVIOUS
    <2>1. n \in Allocated \ reused /\ n \in Slots /\ Left[n].nRefCount <= 0
      BY <1>2 DEF dead, Allocated, TypeOK
    <2>2. Left[n].nRefCount \in Int /\ Holders(n) \in Nat
      BY <2>1, <1>4, HoldersType DEF CNode
    <2> QED
      BY <1>7, <2>1, <2>2 DEF Bit
  <1>9. Allocated' = Allocated \ dead
    <2>1. \A n \in dead : n \notin vNodes'
      BY <1>1, <1>2 DEF dead, TypeOK
    <2> QED
      BY <1>1, <1>2, <2>1 DEF Allocated
  <1>10. \A n \in Allocated' : node'[n] = Left[n]
    BY <1>1, <1>2, <1>9 DEF Allocated, TypeOK
  <1>11. \A n : Holders(n)' = Holders(n) /\ Opening(n)' = Opening(n)
    BY <1>1 DEF Holders, Opening
  <1>12. RefsCoverUsers'
    BY <1>1, <1>7, <1>9, <1>10, <1>11 DEF RefsCoverUsers, Bit
  <1>13. NodesInUseExist'
    <2>1. \A n : (Holders(n) > 0 \/ Opening(n)) /\ n \notin reused => n \in Allocated \ dead
      BY <1>8, UsersExist DEF RefInv
    <2> QED
      BY <1>1, <1>9, <1>11, <2>1, UsersExist
  <1>14. \A n \in vNodes' : n \in vNodes /\ node'[n] = node[n]
    BY <1>1, <1>2, <1>4, <1>10, Zenon DEF TypeOK, Allocated
  <1>15. OneOutboundPerGroup'
    BY <1>14 DEF RefInv, OneOutboundPerGroup
  <1>16. \A n \in Slots \ reused : Opening(n) => ~node'[n].fNetworkNode /\ ~node'[n].fInbound
    <2> SUFFICES ASSUME NEW n \in Slots \ reused, Opening(n)
                 PROVE  ~node'[n].fNetworkNode /\ ~node'[n].fInbound
      OBVIOUS
    <2>1. node[n] \in CNode /\ n \in Allocated /\ n \notin dead
      BY <1>2, <1>8, UsersExist DEF TypeOK, RefInv
    <2>2. node'[n] = Left[n]
      BY <1>9, <1>10, <2>1
    <2>3. ~node[n].fNetworkNode /\ ~node[n].fInbound
      BY DEF RefInv
    <2> QED
      BY <1>4, <2>1, <2>2, <2>3, Zenon DEF Disconnected, CNode
  <1>17. \A t \in Handlers : pc'[t] # "poll" => vNodesCopy[t] = {}
    BY <1>1, <1>2 DEF RefInv, TypeOK, Handlers
  <1>18. opener.at = "dialing" =>
           \A n \in vNodes' : ~node'[n].fInbound => GetGroup[node'[n].addr] # GetGroup[opener.addr]
    BY <1>14 DEF RefInv
  <1> QED
    BY <1>1, <1>6, <1>11, <1>12, <1>13, <1>15, <1>16, <1>17, <1>18 DEF RefInv

\* A new node has the reference of its creator, and no thread has one to the
\* place it is at.
LEMMA AcceptKeeps == ASSUME NEW a \in Addresses, RefInv, Accept(a) PROVE RefInv'
  <1> PICK n \in Slots \ Allocated :
        /\ node' = [node EXCEPT ![n] = [NewNode(a) EXCEPT !.fInbound = TRUE]]
        /\ vNodes' = vNodes \cup {n}
    BY Zenon DEF Accept
  <1>1. UNCHANGED <<vNodesDisconnected, semOutbound, pc, vNodesCopy, opener, relaying, lost, reused>>
    BY DEF Accept
  <1>2. TypeOK
    BY DEF RefInv
  <1>3. TypeOK'
    <2>1. [NewNode(a) EXCEPT !.fInbound = TRUE] \in CNode
      <3>1. NewNode(a) \in CNode
        BY NodeTypes
      <3> QED
        BY <3>1, Zenon DEF CNode
    <2> QED
      BY <1>1, <1>2, <2>1 DEF TypeOK, Allocated
  <1>4. n \notin reused => Holders(n) = 0 /\ ~Opening(n)
    BY UsersExist, HoldersType DEF RefInv
  <1>5. node'[n].nRefCount = 1 /\ node'[n].fInbound /\ \A m \in Slots \ {n} : node'[m] = node[m]
    BY <1>2 DEF TypeOK, NewNode
  <1>6. Allocated' = Allocated \cup {n} /\ Allocated \subseteq Slots
    BY <1>1, <1>2 DEF Allocated, TypeOK
  <1>7. \A m : Holders(m)' = Holders(m) /\ Opening(m)' = Opening(m)
    BY <1>1 DEF Holders, Opening
  <1>8. RefsCoverUsers'
    <2>1. n \notin reused => node'[n].nRefCount >= Holders(n)' + Bit(n \in vNodes' \/ Opening(n)')
      <3>1. n \notin reused => Holders(n)' = 0 /\ node'[n].nRefCount = 1
        BY <1>4, <1>5, <1>7
      <3> QED
        BY <3>1 DEF Bit
    <2>2. \A m \in Allocated \ (reused \cup {n}) :
            node'[m].nRefCount >= Holders(m)' + Bit(m \in vNodes' \/ Opening(m)')
      BY <1>1, <1>5, <1>6, <1>7 DEF RefInv, RefsCoverUsers
    <2> QED
      BY <1>1, <1>6, <2>1, <2>2 DEF RefsCoverUsers
  <1>9. NodesInUseExist'
    BY <1>1, <1>6 DEF RefInv, NodesInUseExist, Referenced
  <1>10. \A m \in vNodes' : ~node'[m].fInbound => m \in vNodes /\ node'[m] = node[m]
    BY <1>2, <1>5 DEF TypeOK
  <1>11. OneOutboundPerGroup'
    <2> SUFFICES ASSUME NEW k \in vNodes', NEW m \in vNodes',
                        ~node'[k].fInbound, ~node'[m].fInbound,
                        GetGroup[node'[k].addr] = GetGroup[node'[m].addr]
                 PROVE  k = m
      BY DEF OneOutboundPerGroup
    <2> QED
      BY <1>10 DEF RefInv, OneOutboundPerGroup
  <1>12. \A m \in Slots \ reused : Opening(m) => ~node'[m].fNetworkNode /\ ~node'[m].fInbound
    BY <1>4, <1>5 DEF RefInv
  <1> QED
    BY <1>1, <1>3, <1>7, <1>8, <1>9, <1>10, <1>11, <1>12 DEF RefInv

\* The same for a node that was dialled; while it was, no outbound node of its
\* group joined the list.
LEMMA ConnectNodeKeeps == ASSUME RefInv, ConnectNode PROVE RefInv'
  <1> PICK n \in Slots \ Allocated :
        /\ node' = [node EXCEPT ![n] = NewNode(opener.addr)]
        /\ vNodes' = vNodes \cup {n}
        /\ opener' = [Idle EXCEPT !.at = "opened", !.node = n]
    BY Zenon DEF ConnectNode
  <1>1. UNCHANGED <<vNodesDisconnected, semOutbound, pc, vNodesCopy, relaying, lost, reused>>
        /\ opener.at = "dialing"
    BY DEF ConnectNode
  <1>2. TypeOK
    BY DEF RefInv
  <1>3. opener'.at = "opened" /\ opener'.node = n /\ n # NULL /\ opener'.addr = NULL /\ opener'.refs = 0
    BY DEF Idle
  <1>4. TypeOK'
    <2>1. NewNode(opener.addr) \in CNode
      BY <1>2 DEF NewNode, CNode, TypeOK
    <2>2. opener' = [at |-> "opened", addr |-> NULL, node |-> n, refs |-> 0]
      BY DEF Idle
    <2>3. opener' \in [at: {"opened"}, addr: Addresses \cup {NULL}, node: Slots \cup {NULL}, refs: Int]
      BY <2>2
    <2>4. node' \in [Slots -> CNode] /\ vNodes' \subseteq Slots
          /\ vNodesDisconnected \subseteq Slots \ vNodes'
      BY <1>2, <2>1 DEF TypeOK, Allocated
    <2> QED
      BY <1>1, <1>2, <2>3, <2>4 DEF TypeOK
  <1>5. n \notin reused => Holders(n) = 0
    BY UsersExist, HoldersType DEF RefInv
  <1>6. node'[n] = NewNode(opener.addr) /\ \A m \in Slots \ {n} : node'[m] = node[m]
    BY <1>2 DEF TypeOK
  <1>7. Allocated' = Allocated \cup {n} /\ Allocated \subseteq Slots
    BY <1>1, <1>2 DEF Allocated, TypeOK
  <1>8. /\ \A m : Holders(m)' = Holders(m)
        /\ \A m : Opening(m)' <=> m = n
        /\ \A m : ~Opening(m)
    BY <1>1, <1>3 DEF Holders, Opening
  <1>9. RefsCoverUsers'
    <2>1. n \notin reused => node'[n].nRefCount >= Holders(n)' + Bit(n \in vNodes' \/ Opening(n)')
      BY <1>5, <1>6, <1>8 DEF Bit, NewNode
    <2>2. \A m \in Allocated \ (reused \cup {n}) :
            node'[m].nRefCount >= Holders(m)' + Bit(m \in vNodes' \/ Opening(m)')
      BY <1>6, <1>7, <1>8 DEF RefInv, RefsCoverUsers
    <2> QED
      BY <1>1, <1>7, <2>1, <2>2 DEF RefsCoverUsers
  <1>10. NodesInUseExist'
    BY <1>1, <1>3, <1>7 DEF RefInv, NodesInUseExist, Referenced
  <1>11. OneOutboundPerGroup'
    <2> SUFFICES ASSUME NEW k \in vNodes', NEW m \in vNodes',
                        ~node'[k].fInbound, ~node'[m].fInbound,
                        GetGroup[node'[k].addr] = GetGroup[node'[m].addr]
                 PROVE  k = m
      BY DEF OneOutboundPerGroup
    <2>1. \A x \in vNodes : x # n /\ node'[x] = node[x]
      BY <1>2, <1>6 DEF TypeOK, Allocated
    <2>2. \A x \in vNodes : ~node'[x].fInbound => GetGroup[node'[x].addr] # GetGroup[node'[n].addr]
      BY <1>1, <1>6, <2>1 DEF RefInv, NewNode
    <2> QED
      BY <2>1, <2>2 DEF RefInv, OneOutboundPerGroup
  <1>12. ~node'[n].fNetworkNode /\ ~node'[n].fInbound
    BY <1>6 DEF NewNode
  <1>13. \A m \in Slots \ reused' : Opening(m)' => ~node'[m].fNetworkNode /\ ~node'[m].fInbound
    BY <1>8, <1>12
  <1> QED
    BY <1>1, <1>3, <1>4, <1>9, <1>10, <1>11, <1>13, SMTT(30) DEF RefInv

\* A thread that copies the list adds the references it will release.
LEMMA TakeCopyKeeps == ASSUME NEW t \in Handlers, RefInv, TakeCopy(t) PROVE RefInv'
  <1>1. /\ vNodesCopy' = [vNodesCopy EXCEPT ![t] = vNodes]
        /\ node' = [n \in Slots |-> IF n \in vNodes THEN [node[n] EXCEPT !.nRefCount = @ + 1] ELSE node[n]]
        /\ pc' = [pc EXCEPT ![t] = "poll"] /\ pc[t] = "select"
        /\ UNCHANGED <<vNodes, vNodesDisconnected, semOutbound, opener, relaying, lost, reused>>
    BY DEF TakeCopy, AddRef
  <1>2. TypeOK /\ vNodesCopy[t] = {}
    BY <1>1 DEF RefInv
  <1>3. \A n \in Slots :
          /\ node'[n] \in CNode
          /\ node'[n].nRefCount = node[n].nRefCount + Bit(n \in vNodes)
          /\ node'[n].fInbound = node[n].fInbound /\ node'[n].addr = node[n].addr
          /\ node'[n].fNetworkNode = node[n].fNetworkNode
    <2> SUFFICES ASSUME NEW n \in Slots
                 PROVE  /\ node'[n] \in CNode
                        /\ node'[n].nRefCount = node[n].nRefCount + Bit(n \in vNodes)
                        /\ node'[n].fInbound = node[n].fInbound /\ node'[n].addr = node[n].addr
                        /\ node'[n].fNetworkNode = node[n].fNetworkNode
      OBVIOUS
    <2>1. node[n] \in CNode /\ node[n].nRefCount \in Int
      BY <1>2 DEF TypeOK, CNode
    <2>2. CASE n \in vNodes
      <3>1. node'[n] = [node[n] EXCEPT !.nRefCount = @ + 1]
        BY <1>1, <2>2, Zenon
      <3> QED
        BY <2>1, <2>2, <3>1 DEF CNode, Bit
    <2>3. CASE n \notin vNodes
      BY <1>1, <2>1, <2>3 DEF Bit
    <2> QED
      BY <2>2, <2>3
  <1>4. TypeOK'
    BY <1>1, <1>2, <1>3 DEF TypeOK
  <1>5. \A n \in Slots : Holders(n)' = Holders(n) + Bit(n \in vNodes)
    BY <1>1, <1>2 DEF Holders, Bit, Handlers, TypeOK
  <1>6. RefsCoverUsers'
    <2> SUFFICES ASSUME NEW n \in Allocated' \ reused'
                 PROVE  node'[n].nRefCount >= Holders(n)' + Bit(n \in vNodes' \/ Opening(n)')
      BY DEF RefsCoverUsers
    <2>1. n \in Allocated \ reused /\ n \in Slots /\ node[n].nRefCount \in Int /\ Holders(n) \in Int
      BY <1>1, <1>2 DEF Allocated, TypeOK, CNode, Holders, Bit
    <2>2. node[n].nRefCount >= Holders(n) + Bit(n \in vNodes \/ Opening(n))
      BY <2>1 DEF RefInv, RefsCoverUsers
    <2>3. node'[n].nRefCount = node[n].nRefCount + Bit(n \in vNodes)
      BY <1>3, <2>1
    <2>4. Holders(n)' = Holders(n) + Bit(n \in vNodes)
      BY <1>5, <2>1
    <2> QED
      BY <1>1, <2>1, <2>2, <2>3, <2>4 DEF Bit, Opening
  <1>7. NodesInUseExist'
    BY <1>1, <1>2 DEF RefInv, NodesInUseExist, Referenced, Allocated, Handlers, TypeOK
  <1>8. OneOutboundPerGroup'
    BY <1>1, <1>2, <1>3 DEF RefInv, OneOutboundPerGroup, TypeOK
  <1>9. \A n \in Slots \ reused : Opening(n) => ~node'[n].fNetworkNode /\ ~node'[n].fInbound
    BY <1>3 DEF RefInv
  <1>10. opener.at = "dialing" =>
           \A n \in vNodes : ~node'[n].fInbound => GetGroup[node'[n].addr] # GetGroup[opener.addr]
    BY <1>2, <1>3 DEF RefInv, TypeOK
  <1>11. \A u \in Handlers : pc'[u] # "poll" => vNodesCopy'[u] = {}
    BY <1>1, <1>2 DEF RefInv, TypeOK
  <1> QED
    BY <1>1, <1>4, <1>6, <1>7, <1>8, <1>9, <1>10, <1>11 DEF RefInv, Opening

\* A thread that is done takes back one reference of each node it held.
LEMMA ReleaseCopyKeeps == ASSUME NEW t \in Handlers, RefInv, ReleaseCopy(t) PROVE RefInv'
  <1> DEFINE held == vNodesCopy[t] \cap Allocated
  <1>1. /\ vNodesCopy' = [vNodesCopy EXCEPT ![t] = {}]
        /\ node' = [n \in Slots |-> IF n \in held THEN [node[n] EXCEPT !.nRefCount = @ - 1] ELSE node[n]]
        /\ pc' = [pc EXCEPT ![t] = IF t = "net" THEN "top" ELSE "select"]
        /\ UNCHANGED <<vNodes, vNodesDisconnected, semOutbound, opener, relaying, lost, reused>>
    BY DEF ReleaseCopy, Release
  <1>2. TypeOK
    BY DEF RefInv
  <1>3. \A n \in Slots :
          /\ node'[n] \in CNode
          /\ node'[n].nRefCount = node[n].nRefCount - Bit(n \in held)
          /\ node'[n].fInbound = node[n].fInbound /\ node'[n].addr = node[n].addr
          /\ node'[n].fNetworkNode = node[n].fNetworkNode
    <2> SUFFICES ASSUME NEW n \in Slots
                 PROVE  /\ node'[n] \in CNode
                        /\ node'[n].nRefCount = node[n].nRefCount - Bit(n \in held)
                        /\ node'[n].fInbound = node[n].fInbound /\ node'[n].addr = node[n].addr
                        /\ node'[n].fNetworkNode = node[n].fNetworkNode
      OBVIOUS
    <2>1. node[n] \in CNode /\ node[n].nRefCount \in Int
      BY <1>2 DEF TypeOK, CNode
    <2>2. CASE n \in held
      <3>1. node'[n] = [node[n] EXCEPT !.nRefCount = @ - 1]
        BY <1>1, <2>2, Zenon
      <3> QED
        BY <2>1, <2>2, <3>1 DEF CNode, Bit
    <2>3. CASE n \notin held
      BY <1>1, <2>1, <2>3 DEF Bit
    <2> QED
      BY <2>2, <2>3
  <1>4. TypeOK'
    BY <1>1, <1>2, <1>3 DEF TypeOK
  <1>5. \A n \in Slots : Holders(n)' = Holders(n) - Bit(n \in vNodesCopy[t])
    BY <1>1, <1>2 DEF Holders, Bit, Handlers, TypeOK
  <1>6. RefsCoverUsers'
    <2> SUFFICES ASSUME NEW n \in Allocated' \ reused'
                 PROVE  node'[n].nRefCount >= Holders(n)' + Bit(n \in vNodes' \/ Opening(n)')
      BY DEF RefsCoverUsers
    <2>1. n \in Allocated \ reused /\ n \in Slots /\ node[n].nRefCount \in Int /\ Holders(n) \in Int
      BY <1>1, <1>2 DEF Allocated, TypeOK, CNode, Holders, Bit
    <2>2. node[n].nRefCount >= Holders(n) + Bit(n \in vNodes \/ Opening(n))
      BY <2>1 DEF RefInv, RefsCoverUsers
    <2>3. node'[n].nRefCount = node[n].nRefCount - Bit(n \in held)
      BY <1>3, <2>1
    <2>4. Holders(n)' = Holders(n) - Bit(n \in held)
      BY <1>5, <2>1 DEF Bit
    <2> QED
      BY <1>1, <2>1, <2>2, <2>3, <2>4 DEF Bit, Opening
  <1>7. NodesInUseExist'
    BY <1>1, <1>2 DEF RefInv, NodesInUseExist, Referenced, Allocated, Handlers, TypeOK
  <1>8. OneOutboundPerGroup'
    BY <1>1, <1>2, <1>3 DEF RefInv, OneOutboundPerGroup, TypeOK
  <1>9. \A n \in Slots \ reused : Opening(n) => ~node'[n].fNetworkNode /\ ~node'[n].fInbound
    BY <1>3 DEF RefInv
  <1>10. opener.at = "dialing" =>
           \A n \in vNodes : ~node'[n].fInbound => GetGroup[node'[n].addr] # GetGroup[opener.addr]
    BY <1>2, <1>3 DEF RefInv, TypeOK
  <1>11. \A u \in Handlers : pc'[u] # "poll" => vNodesCopy'[u] = {}
    BY <1>1, <1>2 DEF RefInv, TypeOK
  <1> QED
    BY <1>1, <1>4, <1>6, <1>7, <1>8, <1>9, <1>10, <1>11 DEF RefInv, Opening

\* Marks and grants touch neither references, groups nor the lists: a step that
\* only sets fDisconnect or grantOutbound of a node, and gives the opening thread
\* no reference, keeps the invariant.
LEMMA FlagsKeep ==
  ASSUME RefInv, TypeOK', UNCHANGED <<vNodes, vNodesDisconnected, pc, vNodesCopy, reused>>,
         \A n : Opening(n)' = Opening(n),
         opener'.at \in {"found", "adding", "opened", "moved"} <=> opener'.node # NULL,
         \A n \in Slots : /\ node'[n].nRefCount = node[n].nRefCount
                          /\ node'[n].fInbound = node[n].fInbound
                          /\ node'[n].fNetworkNode = node[n].fNetworkNode
                          /\ node'[n].addr = node[n].addr,
         opener'.at = "dialing" =>
           \A n \in vNodes : ~node[n].fInbound => GetGroup[node[n].addr] # GetGroup[opener'.addr]
  PROVE  RefInv'
  <1>1. TypeOK
    BY DEF RefInv
  <1>2. vNodes \subseteq Slots /\ Allocated \subseteq Slots /\ Allocated' = Allocated
    BY <1>1 DEF TypeOK, Allocated
  <1>3. \A n : Holders(n)' = Holders(n)
    BY DEF Holders
  <1>4. RefsCoverUsers'
    BY <1>2, <1>3 DEF RefInv, RefsCoverUsers, Bit
  <1>5. NodesInUseExist'
    BY <1>2, <1>3, UsersExist DEF RefInv
  <1>6. OneOutboundPerGroup'
    BY <1>2 DEF RefInv, OneOutboundPerGroup
  <1>7. \A n \in Slots \ reused' : Opening(n)' => ~node'[n].fNetworkNode /\ ~node'[n].fInbound
    BY DEF RefInv
  <1>8. opener'.at = "dialing" =>
          \A n \in vNodes' : ~node'[n].fInbound => GetGroup[node'[n].addr] # GetGroup[opener'.addr]
    BY <1>2
  <1> QED
    BY <1>4, <1>5, <1>6, <1>7, <1>8 DEF RefInv

\* A handler marks a node.
LEMMA PollKeeps == ASSUME NEW t \in Handlers, RefInv, Poll(t) PROVE RefInv'
  <1>1. PICK n \in vNodesCopy[t] \cap Allocated : node' = [node EXCEPT ![n].fDisconnect = TRUE]
    BY Zenon DEF Poll
  <1>2. UNCHANGED <<vNodes, vNodesDisconnected, semOutbound, pc, vNodesCopy, opener, relaying, lost, reused>>
    BY DEF Poll
  <1>3. TypeOK /\ n \in Slots
    BY DEF RefInv, TypeOK
  <1>4. \A m \in Slots : /\ node'[m] \in CNode
                         /\ node'[m].nRefCount = node[m].nRefCount
                         /\ node'[m].fInbound = node[m].fInbound
                         /\ node'[m].fNetworkNode = node[m].fNetworkNode
                         /\ node'[m].addr = node[m].addr
    <2> SUFFICES ASSUME NEW m \in Slots
                 PROVE  /\ node'[m] \in CNode
                        /\ node'[m].nRefCount = node[m].nRefCount
                        /\ node'[m].fInbound = node[m].fInbound
                        /\ node'[m].fNetworkNode = node[m].fNetworkNode
                        /\ node'[m].addr = node[m].addr
      OBVIOUS
    <2>1. node[m] \in CNode
      BY <1>3 DEF TypeOK
    <2>2. node'[m] = IF m = n THEN [node[m] EXCEPT !.fDisconnect = TRUE] ELSE node[m]
      BY <1>1, <1>3, Zenon DEF TypeOK
    <2> QED
      BY <2>1, <2>2, Zenon DEF CNode
  <1>5. TypeOK'
    BY <1>1, <1>2, <1>3, <1>4, Zenon DEF TypeOK
  <1> QED
    BY <1>2, <1>4, <1>5, FlagsKeep DEF RefInv, Opening

\* The opening thread's steps before it has a reference touch no node, and
\* neither does the walk of the list.
LEMMA OpenerKeeps ==
  ASSUME RefInv, AcquireGrant \/ OpenFails \/ FindExisting \/ ReadRefCount \/ \E a \in Addresses : Dial(a)
  PROVE  RefInv'
  <1>1. TypeOK /\ UNCHANGED <<node, vNodes, vNodesDisconnected, pc, vNodesCopy, relaying, lost, reused>>
    BY Zenon DEF RefInv, AcquireGrant, OpenFails, FindExisting, ReadRefCount, Dial
  <1>2. CASE AcquireGrant
    <2>1. /\ opener.at = "idle" /\ opener'.at = "granted" /\ opener'.node = opener.node
          /\ opener' \in [at: {"granted"}, addr: Addresses \cup {NULL}, node: Slots \cup {NULL}, refs: Int]
          /\ semOutbound' \in Nat
      BY <1>1, <1>2 DEF AcquireGrant, TypeOK
    <2>2. TypeOK'
      BY <1>1, <2>1 DEF TypeOK
    <2>3. \A n : Opening(n)' = Opening(n)
      BY <2>1 DEF Opening
    <2> QED
      BY <1>1, <2>1, <2>2, <2>3, FlagsKeep DEF RefInv
  <1>3. CASE OpenFails
    <2>1. opener.at \in {"granted", "dialing"} /\ opener' = Idle /\ semOutbound' \in Nat
      BY <1>1, <1>3 DEF OpenFails, TypeOK
    <2>2. TypeOK'
      BY <1>1, <2>1 DEF TypeOK, Idle
    <2>3. \A n : Opening(n)' = Opening(n)
      BY <2>1 DEF Opening, Idle
    <2> QED
      BY <1>1, <2>1, <2>2, <2>3, FlagsKeep DEF Idle
  <1>4. CASE \E a \in Addresses : Dial(a)
    <2> PICK a \in Addresses : Dial(a)
      BY <1>4
    <2>1. /\ opener.at = "granted" /\ opener'.at = "dialing" /\ opener'.addr = a /\ opener'.node = opener.node
          /\ opener' \in [at: {"dialing"}, addr: Addresses \cup {NULL}, node: Slots \cup {NULL}, refs: Int]
          /\ semOutbound' = semOutbound
      <3>1. opener \in [at: {"idle", "granted", "dialing", "found", "adding", "opened", "moved"},
                        addr: Addresses \cup {NULL}, node: Slots \cup {NULL}, refs: Int]
        BY <1>1 DEF TypeOK
      <3>2. opener.at = "granted" /\ opener' = [opener EXCEPT !.at = "dialing", !.addr = a]
            /\ semOutbound' = semOutbound
        BY Zenon DEF Dial
      <3> QED
        BY <3>1, <3>2
    <2>2. TypeOK'
      BY <1>1, <2>1 DEF TypeOK
    <2>3. \A n : Opening(n)' = Opening(n)
      BY <2>1 DEF Opening
    <2>4. \A n \in vNodes : ~node[n].fInbound => GetGroup[node[n].addr] # GetGroup[a]
      BY Zenon DEF Dial, Selectable
    <2> QED
      BY <1>1, <2>1, <2>2, <2>3, <2>4, FlagsKeep DEF RefInv
  <1>5. CASE FindExisting
    <2>1. PICK n \in vNodes : opener' = [Idle EXCEPT !.at = "found", !.node = n]
      BY <1>5, Zenon DEF FindExisting
    <2>2. /\ opener' = [at |-> "found", addr |-> NULL, node |-> n, refs |-> 0]
          /\ n \in Slots /\ n # NULL /\ opener.at = "dialing" /\ semOutbound' = semOutbound
      BY <1>1, <1>5, <2>1 DEF Idle, TypeOK, FindExisting
    <2>3. TypeOK'
      BY <1>1, <2>2 DEF TypeOK
    <2>4. \A m : Opening(m)' = Opening(m)
      BY <2>2 DEF Opening
    <2> QED
      BY <1>1, <2>2, <2>3, <2>4, FlagsKeep
  <1>6. CASE ReadRefCount
    <2>1. opener.at = "found" /\ opener.node \in Slots /\ node[opener.node].nRefCount \in Int
      BY <1>1, <1>6 DEF ReadRefCount, RefInv, TypeOK, CNode
    <2>2. /\ opener'.at = "adding" /\ opener'.node = opener.node /\ semOutbound' = semOutbound
          /\ opener' \in [at: {"adding"}, addr: Addresses \cup {NULL}, node: Slots \cup {NULL}, refs: Int]
      BY <1>1, <1>6, <2>1 DEF ReadRefCount, TypeOK
    <2>3. TypeOK'
      BY <1>1, <2>2 DEF TypeOK
    <2>4. \A m : Opening(m)' = Opening(m)
      BY <2>1, <2>2 DEF Opening
    <2> QED
      BY <1>1, <2>1, <2>2, <2>3, <2>4, FlagsKeep
  <1> QED
    BY <1>2, <1>3, <1>4, <1>5, <1>6

\* The walk of the list uses nodes, but has no part in the invariant.
LEMMA RelayKeeps == ASSUME RefInv, AcceptPendingSyncCheckpoint \/ RelayTo PROVE RefInv'
  <1>1. UNCHANGED <<node, vNodes, vNodesDisconnected, semOutbound, pc, vNodesCopy, opener, lost, reused>>
    BY DEF AcceptPendingSyncCheckpoint, RelayTo
  <1>2. relaying' \in Slots \cup {NULL}
    BY DEF AcceptPendingSyncCheckpoint, RelayTo, RefInv, TypeOK
  <1>3. TypeOK'
    BY <1>1, <1>2 DEF RefInv, TypeOK
  <1>4. \A n : Opening(n)' = Opening(n)
    BY <1>1 DEF Opening
  <1> QED
    BY <1>1, <1>3, <1>4, FlagsKeep DEF RefInv

\* The count that is written without the lock is that of a slot the invariant
\* leaves out from then on.
LEMMA WriteRefCountKeeps == ASSUME RefInv, WriteRefCount PROVE RefInv'
  <1>1. TypeOK /\ opener.node \in Slots /\ opener.at = "adding"
    BY DEF RefInv, WriteRefCount, TypeOK
  <1> DEFINE refs == IF opener.node \in Allocated THEN opener.refs + 1 ELSE node[opener.node].nRefCount
  <1>2. /\ node' = [node EXCEPT ![opener.node].nRefCount = refs]
        /\ UNCHANGED <<vNodes, vNodesDisconnected, semOutbound, pc, vNodesCopy, relaying, lost>>
        /\ reused' = reused \cup {opener.node}
    BY <1>1 DEF WriteRefCount, TypeOK
  <1>3. refs \in Int
    BY <1>1 DEF TypeOK, CNode
  <1> HIDE DEF refs
  <1>4. \A m \in Slots : /\ node'[m] \in CNode
                         /\ m # opener.node => node'[m] = node[m]
                         /\ node'[m].fInbound = node[m].fInbound
                         /\ node'[m].addr = node[m].addr
    <2> SUFFICES ASSUME NEW m \in Slots
                 PROVE  /\ node'[m] \in CNode
                        /\ m # opener.node => node'[m] = node[m]
                        /\ node'[m].fInbound = node[m].fInbound
                        /\ node'[m].addr = node[m].addr
      OBVIOUS
    <2>1. node[m] \in CNode
      BY <1>1 DEF TypeOK
    <2>2. node'[m] = IF m = opener.node THEN [node[m] EXCEPT !.nRefCount = refs] ELSE node[m]
      BY <1>1, <1>2, Zenon DEF TypeOK
    <2> QED
      BY <1>3, <2>1, <2>2, Zenon DEF CNode
  <1>5. /\ opener'.at = "opened" /\ opener'.node = opener.node /\ opener'.node # NULL
        /\ opener' \in [at: {"opened"}, addr: Addresses \cup {NULL}, node: Slots \cup {NULL}, refs: Int]
    <2>1. opener' = [opener EXCEPT !.at = "opened", !.refs = 0]
      BY Zenon DEF WriteRefCount
    <2>2. opener \in [at: {"idle", "granted", "dialing", "found", "adding", "opened", "moved"},
                      addr: Addresses \cup {NULL}, node: Slots \cup {NULL}, refs: Int]
      BY <1>1 DEF TypeOK
    <2>3. opener.node # NULL
      BY <1>1
    <2>4. opener' = [at |-> "opened", addr |-> opener.addr, node |-> opener.node, refs |-> 0]
      BY <2>1, <2>2
    <2>5. opener.addr \in Addresses \cup {NULL} /\ opener.node \in Slots \cup {NULL} /\ 0 \in Int
      BY <2>2
    <2> QED
      BY <2>3, <2>4, <2>5
  <1>6. node' \in [Slots -> CNode]
    BY <1>1, <1>2, <1>4, Zenon DEF TypeOK
  <1>7. TypeOK'
    BY <1>1, <1>2, <1>5, <1>6 DEF TypeOK
  <1>8. Allocated' = Allocated /\ Allocated \subseteq Slots /\ vNodes \subseteq Slots
    BY <1>1, <1>2 DEF Allocated, TypeOK
  <1>9. /\ \A m : Holders(m)' = Holders(m)
        /\ \A m : ~Opening(m)
        /\ \A m : m \notin reused' => ~Opening(m)'
    BY <1>1, <1>2, <1>5 DEF Holders, Opening
  <1>10. RefsCoverUsers'
    <2> SUFFICES ASSUME NEW n \in Allocated \ reused'
                 PROVE  node'[n].nRefCount >= Holders(n)' + Bit(n \in vNodes' \/ Opening(n)')
      BY <1>8 DEF RefsCoverUsers
    <2>1. node'[n] = node[n] /\ n \in Allocated \ reused
      BY <1>2, <1>4, <1>8
    <2> QED
      BY <1>2, <1>9, <2>1 DEF RefInv, RefsCoverUsers, Bit
  <1>11. NodesInUseExist'
    BY <1>2, <1>8, <1>9, UsersExist DEF RefInv
  <1>12. OneOutboundPerGroup'
    BY <1>2, <1>4, <1>8 DEF RefInv, OneOutboundPerGroup
  <1>13. \A t \in Handlers : pc'[t] # "poll" => vNodesCopy'[t] = {}
    BY <1>2 DEF RefInv
  <1> QED
    BY <1>5, <1>7, <1>9, <1>10, <1>11, <1>12, <1>13 DEF RefInv

\* The grant moves to the node.
LEMMA MoveGrantKeeps == ASSUME RefInv, MoveGrant PROVE RefInv'
  <1>1. TypeOK /\ opener.node \in Slots /\ opener.at = "opened"
    BY DEF RefInv, MoveGrant, TypeOK
  <1>2. /\ opener'.at = "moved" /\ opener'.node = opener.node
        /\ opener' \in [at: {"moved"}, addr: Addresses \cup {NULL}, node: Slots \cup {NULL}, refs: Int]
        /\ UNCHANGED <<vNodes, vNodesDisconnected, pc, vNodesCopy, relaying, reused>>
    BY <1>1 DEF MoveGrant, TypeOK
  <1>3. /\ semOutbound' \in Nat /\ lost' \in Nat
        /\ node' = [node EXCEPT ![opener.node].grantOutbound = TRUE] \/ node' = node
    BY <1>1 DEF MoveGrant, TypeOK, Bit
  <1>4. \A m \in Slots : /\ node'[m] \in CNode
                         /\ node'[m].nRefCount = node[m].nRefCount
                         /\ node'[m].fInbound = node[m].fInbound
                         /\ node'[m].fNetworkNode = node[m].fNetworkNode
                         /\ node'[m].addr = node[m].addr
    <2> SUFFICES ASSUME NEW m \in Slots
                 PROVE  /\ node'[m] \in CNode
                        /\ node'[m].nRefCount = node[m].nRefCount
                        /\ node'[m].fInbound = node[m].fInbound
                        /\ node'[m].fNetworkNode = node[m].fNetworkNode
                        /\ node'[m].addr = node[m].addr
      OBVIOUS
    <2>1. node[m] \in CNode
      BY <1>1 DEF TypeOK
    <2>2. node'[m] = [node[m] EXCEPT !.grantOutbound = TRUE] \/ node'[m] = node[m]
      <3>1. node \in [Slots -> CNode]
        BY <1>1 DEF TypeOK
      <3> QED
        BY <1>3, <3>1, Zenon
    <2> QED
      BY <2>1, <2>2, Zenon DEF CNode
  <1>5. node' \in [Slots -> CNode]
    BY <1>1, <1>3, <1>4, Zenon DEF TypeOK
  <1>6. TypeOK'
    BY <1>1, <1>2, <1>3, <1>5 DEF TypeOK
  <1>7. \A n : Opening(n)' = Opening(n)
    BY <1>1, <1>2 DEF Opening
  <1> QED
    BY <1>1, <1>2, <1>4, <1>6, <1>7, FlagsKeep

\* The opening thread is done with its node, which is a network node from now.
LEMMA MarkNetworkNodeKeeps == ASSUME RefInv, MarkNetworkNode PROVE RefInv'
  <1>1. TypeOK /\ opener.node \in Slots
    BY DEF RefInv, MarkNetworkNode, TypeOK
  <1>2. \A m \in Slots : /\ node'[m] \in CNode
                         /\ node'[m].nRefCount = node[m].nRefCount
                         /\ node'[m].fInbound = node[m].fInbound
                         /\ node'[m].addr = node[m].addr
    <2> SUFFICES ASSUME NEW m \in Slots
                 PROVE  /\ node'[m] \in CNode
                        /\ node'[m].nRefCount = node[m].nRefCount
                        /\ node'[m].fInbound = node[m].fInbound
                        /\ node'[m].addr = node[m].addr
      OBVIOUS
    <2>1. node[m] \in CNode
      BY <1>1 DEF TypeOK
    <2> DEFINE there == opener.node \in Allocated
    <2>2. there \in BOOLEAN
          /\ node'[m] = IF m = opener.node THEN [node[m] EXCEPT !.fNetworkNode = there] ELSE node[m]
      <3>1. node' = [node EXCEPT ![opener.node].fNetworkNode = opener.node \in Allocated]
        BY DEF MarkNetworkNode
      <3>2. there \in BOOLEAN
        OBVIOUS
      <3> QED
        BY <1>1, <3>1, <3>2, Zenon DEF TypeOK
    <2> HIDE DEF there
    <2> QED
      BY <2>1, <2>2, Zenon DEF CNode
  <1>3. node' \in [Slots -> CNode]
    BY <1>1, <1>2, Zenon DEF TypeOK, MarkNetworkNode
  <1>4. UNCHANGED <<vNodes, vNodesDisconnected, semOutbound, pc, vNodesCopy, relaying, lost, reused>>
        /\ opener' = Idle
    BY DEF MarkNetworkNode
  <1>5. TypeOK'
    BY <1>1, <1>3, <1>4 DEF TypeOK, Idle
  <1>6. vNodes \subseteq Slots /\ Allocated \subseteq Slots /\ Allocated' = Allocated
    BY <1>1, <1>4 DEF TypeOK, Allocated
  <1>7. \A n : Holders(n)' = Holders(n) /\ ~Opening(n)'
    BY <1>4 DEF Holders, Opening, Idle
  <1>8. RefsCoverUsers'
    <2> SUFFICES ASSUME NEW n \in Allocated \ reused
                 PROVE  node'[n].nRefCount >= Holders(n)' + Bit(n \in vNodes' \/ Opening(n)')
      BY <1>4, <1>6 DEF RefsCoverUsers
    <2>1. node[n].nRefCount >= Holders(n) + Bit(n \in vNodes \/ Opening(n))
      BY DEF RefInv, RefsCoverUsers
    <2>2. node'[n].nRefCount = node[n].nRefCount /\ node[n].nRefCount \in Int
      BY <1>1, <1>2, <1>6 DEF TypeOK, CNode
    <2> QED
      BY <1>4, <1>7, <2>1, <2>2, HoldersType DEF Bit
  <1>9. NodesInUseExist'
    BY <1>4, <1>6, <1>7, UsersExist DEF RefInv
  <1>10. OneOutboundPerGroup'
    BY <1>2, <1>4, <1>6 DEF RefInv, OneOutboundPerGroup
  <1> QED
    BY <1>4, <1>5, <1>7, <1>8, <1>9, <1>10 DEF RefInv, Idle

\* Every step keeps the invariant.
LEMMA NextKeeps == RefInv /\ [Next]_vars => RefInv'
  <1> SUFFICES ASSUME RefInv, [Next]_vars PROVE RefInv'
    OBVIOUS
  <1>1. CASE DisconnectNodes
    BY <1>1, DisconnectNodesKeeps
  <1>2. CASE \E a \in Addresses : Accept(a)
    BY <1>2, AcceptKeeps
  <1>3. CASE \E t \in Handlers : TakeCopy(t) \/ Poll(t) \/ ReleaseCopy(t)
    BY <1>3, TakeCopyKeeps, PollKeeps, ReleaseCopyKeeps
  <1>4. CASE AcquireGrant \/ OpenFails \/ FindExisting \/ ReadRefCount \/ \E a \in Addresses : Dial(a)
    BY <1>4, OpenerKeeps
  <1>5. CASE ConnectNode
    BY <1>5, ConnectNodeKeeps
  <1>6. CASE MoveGrant
    BY <1>6, MoveGrantKeeps
  <1>7. CASE MarkNetworkNode
    BY <1>7, MarkNetworkNodeKeeps
  <1>8. CASE UNCHANGED vars
    BY <1>8 DEF vars, RefInv, TypeOK, RefsCoverUsers, NodesInUseExist, OneOutboundPerGroup,
                Allocated, Holders, Opening, Referenced
  <1>9. CASE WriteRefCount
    BY <1>9, WriteRefCountKeeps
  <1>10. CASE AcceptPendingSyncCheckpoint \/ RelayTo
    BY <1>10, RelayKeeps
  <1>11. CASE AssertFails \/ UseDeleted
    BY <1>11, StartEstablishes DEF AssertFails, UseDeleted
  <1> QED
    BY <1>1, <1>2, <1>3, <1>4, <1>5, <1>6, <1>7, <1>8, <1>9, <1>10, <1>11 DEF Next

\* The invariant holds of every reachable state.
LEMMA Invariance == Spec => []RefInv
  BY InitEstablishes, NextKeeps, PTL DEF Spec

-----------------------------------------------------------------------------
(* The grants of the semaphore.                                            *)

\* Where the grants are.  Memory without a node has none, and each outbound node
\* of the list has one or is about to get it.
GrantInv ==
    /\ GrantsAccounted
    /\ \A n \in Slots \ Allocated : ~node[n].grantOutbound
    /\ \A n \in vNodes : ~node[n].fInbound =>
        node[n].grantOutbound \/ (opener.node = n /\ opener.at = "opened")

\* The grant of the opening thread.
Pending == Bit(opener.at \in {"granted", "dialing", "found", "adding", "opened"})

\* The nodes with a grant are finitely many.
LEMMA GrantedFinite ==
    ASSUME TypeOK PROVE Granted \subseteq Slots /\ IsFiniteSet(Granted) /\ Cardinality(Granted) \in Nat
  <1>1. Granted \subseteq Slots
    BY DEF Granted
  <1>2. IsFiniteSet(Granted)
    BY <1>1, FS_Subset
  <1> QED
    BY <1>1, <1>2, FS_CardinalityType

\* The socket handler gives back the grants of the nodes it drops or deletes.
LEMMA DisconnectNodesGrants ==
  ASSUME RefInv, GrantInv, DisconnectNodes PROVE GrantInv'
  <1> DEFINE dead == {n \in vNodesDisconnected \cup Gone : Left[n].nRefCount <= 0}
             freed == {n \in Gone \cup dead : node[n].grantOutbound}
  <1>1. /\ vNodes' = vNodes \ Gone
        /\ vNodesDisconnected' = (vNodesDisconnected \cup Gone) \ dead
        /\ node' = [n \in Slots |-> IF n \in dead THEN Blank ELSE Left[n]]
        /\ semOutbound' = semOutbound + Cardinality(freed)
        /\ UNCHANGED <<opener, lost>>
    BY DEF DisconnectNodes
  <1>2. TypeOK /\ Gone \subseteq vNodes /\ \A n \in Slots : node[n] \in CNode
    BY SMTT(30) DEF RefInv, TypeOK, Gone
  <1>3. \A n \in Gone : n \in Slots /\ ~Left[n].grantOutbound
    BY <1>2, Zenon DEF Left, Disconnected, CNode, TypeOK
  <1>4. \A n \in Slots \ Gone : Left[n] = node[n]
    BY DEF Left
  <1>5. dead \subseteq vNodesDisconnected \cup Gone /\ dead \subseteq Slots
    BY <1>2 DEF TypeOK
  <1>6. ~Blank.grantOutbound
    BY DEF Blank, NewNode
  <1>7. \A n \in freed : n \in Gone \cup dead /\ node[n].grantOutbound
    OBVIOUS
  <1>8. \A n \in Gone \cup dead : node[n].grantOutbound => n \in freed
    OBVIOUS
  <1> HIDE DEF dead
  <1>9. \A n \in Slots : node'[n].grantOutbound <=> node[n].grantOutbound /\ n \notin Gone \cup dead
    BY <1>1, <1>3, <1>4, <1>6
  <1>10. Granted' = Granted \ freed /\ freed \subseteq Granted
    BY <1>3, <1>5, <1>7, <1>8, <1>9 DEF Granted
  <1>11. GrantsAccounted'
    <2>1. IsFiniteSet(Granted) /\ Cardinality(Granted) \in Nat
      BY <1>2, GrantedFinite
    <2>2. IsFiniteSet(freed) /\ Cardinality(freed) \in Nat
      BY <1>10, <2>1, FS_Subset, FS_CardinalityType
    <2>3. Cardinality(Granted \ freed) = Cardinality(Granted) - Cardinality(Granted \cap freed)
      BY <2>1, FS_Difference, Zenon
    <2>4. Granted \cap freed = freed
      BY <1>10
    <2>5. semOutbound \in Nat /\ lost \in Nat
      BY <1>2 DEF TypeOK
    <2>6. semOutbound + Cardinality(Granted) + lost + Pending = MAX_OUTBOUND_CONNECTIONS
          /\ Pending' = Pending /\ Pending \in Nat
      BY <1>1 DEF GrantInv, GrantsAccounted, Pending, Bit
    <2>7. semOutbound' + Cardinality(Granted') + lost' + Pending' = MAX_OUTBOUND_CONNECTIONS
      <3> HIDE DEF freed
      <3>1. Cardinality(Granted') = Cardinality(Granted) - Cardinality(freed)
        BY <1>10, <2>3, <2>4
      <3>2. semOutbound' = semOutbound + Cardinality(freed) /\ lost' = lost
        BY <1>1
      <3> QED
        BY <2>1, <2>2, <2>5, <2>6, <3>1, <3>2
    <2> QED
      BY <2>7 DEF GrantsAccounted, Pending
  <1>12. \A n \in Slots \ Allocated' : ~node'[n].grantOutbound
    <2>1. \A n \in Slots \ Allocated' : n \in dead \/ n \notin Allocated
      BY <1>1 DEF Allocated
    <2> QED
      BY <1>1, <1>6, <1>9, <2>1 DEF GrantInv
  <1>13. \A n \in vNodes' : n \in Slots /\ n \in vNodes /\ node'[n] = node[n]
    BY <1>1, <1>2, <1>4, <1>5 DEF TypeOK
  <1>14. \A n \in vNodes' : ~node'[n].fInbound =>
           node'[n].grantOutbound \/ (opener'.node = n /\ opener'.at = "opened")
    BY <1>1, <1>13 DEF GrantInv
  <1> QED
    BY <1>11, <1>12, <1>14 DEF GrantInv

\* A new node, at a free place, has no grant; it is inbound, or the opening
\* thread has one for it.
LEMMA NewNodeGrants ==
  ASSUME RefInv, GrantInv, NEW n \in Slots \ Allocated, NEW r \in CNode, ~r.grantOutbound,
         node' = [node EXCEPT ![n] = r], vNodes' = vNodes \cup {n},
         UNCHANGED <<vNodesDisconnected, semOutbound, lost>>,
         \/ r.fInbound /\ opener' = opener
         \/ opener.at = "dialing" /\ opener'.at = "opened" /\ opener'.node = n
  PROVE  GrantInv'
  <1>1. TypeOK
    BY DEF RefInv
  <1>2. node'[n] = r /\ \A m \in Slots \ {n} : node'[m] = node[m]
    BY <1>1 DEF TypeOK
  <1>3. ~node[n].grantOutbound
    BY DEF GrantInv
  <1>4. Granted' = Granted
    BY <1>2, <1>3 DEF Granted
  <1>5. GrantsAccounted'
    BY <1>4 DEF GrantInv, GrantsAccounted, Bit
  <1>6. Allocated' = Allocated \cup {n}
    BY DEF Allocated
  <1>7. \A m \in vNodes' : ~node'[m].fInbound =>
           node'[m].grantOutbound \/ (opener'.node = m /\ opener'.at = "opened")
    <2>1. vNodes \subseteq Slots \ {n}
      BY <1>1 DEF TypeOK, Allocated
    <2> QED
      BY <1>2, <2>1 DEF GrantInv
  <1> QED
    BY <1>2, <1>5, <1>6, <1>7 DEF GrantInv

\* A step that moves no grant of a node and drops no node keeps the invariant.
LEMMA GrantsKeep ==
  ASSUME RefInv, GrantInv, UNCHANGED <<vNodes, vNodesDisconnected, lost>>,
         \A n \in Slots : node'[n].grantOutbound = node[n].grantOutbound
                         /\ node'[n].fInbound = node[n].fInbound,
         semOutbound' + Pending' = semOutbound + Pending,
         opener.at = "opened" => opener'.at = "opened" /\ opener'.node = opener.node,
         semOutbound' \in Nat
  PROVE  GrantInv'
  <1>1. TypeOK
    BY DEF RefInv
  <1>2. Allocated' = Allocated /\ vNodes \subseteq Slots
    BY <1>1 DEF TypeOK, Allocated
  <1>3. Granted' = Granted
    BY DEF Granted
  <1>4. GrantsAccounted'
    <2>1. semOutbound \in Nat /\ Cardinality(Granted) \in Nat /\ lost \in Nat
      BY <1>1, GrantedFinite DEF TypeOK
    <2>2. semOutbound + Cardinality(Granted) + lost + Pending = MAX_OUTBOUND_CONNECTIONS
          /\ Pending' \in Nat /\ Pending \in Nat
      BY DEF GrantInv, GrantsAccounted, Pending, Bit
    <2>3. semOutbound' + Cardinality(Granted') + lost' + Pending' = MAX_OUTBOUND_CONNECTIONS
      BY <1>3, <2>1, <2>2
    <2> QED
      BY <2>3 DEF GrantsAccounted, Pending
  <1> QED
    BY <1>2, <1>4 DEF GrantInv

\* The grant goes from the opening thread to its node, which gives back the one
\* it had, or is lost.
LEMMA MoveGrantGrants == ASSUME RefInv, GrantInv, MoveGrant PROVE GrantInv'
  <1>1. TypeOK /\ opener.node \in Slots /\ opener.at = "opened" /\ opener'.at = "moved"
    BY DEF RefInv, MoveGrant, TypeOK
  <1>2. UNCHANGED <<vNodes, vNodesDisconnected>> /\ Allocated' = Allocated /\ vNodes \subseteq Slots
    BY <1>1 DEF MoveGrant, TypeOK, Allocated
  <1>3. semOutbound \in Nat /\ lost \in Nat /\ Cardinality(Granted) \in Nat
        /\ semOutbound + Cardinality(Granted) + lost + 1 = MAX_OUTBOUND_CONNECTIONS
    BY <1>1, GrantedFinite DEF GrantInv, GrantsAccounted, Bit, TypeOK
  <1>4. CASE opener.node \in Allocated
    <2>1. node' = [node EXCEPT ![opener.node].grantOutbound = TRUE] /\ lost' = lost
          /\ semOutbound' = semOutbound + Bit(node[opener.node].grantOutbound)
      BY <1>4 DEF MoveGrant
    <2>2. \A m \in Slots : /\ node'[m].grantOutbound <=> node[m].grantOutbound \/ m = opener.node
                           /\ node'[m].fInbound = node[m].fInbound
      <3> SUFFICES ASSUME NEW m \in Slots
                   PROVE  /\ node'[m].grantOutbound <=> node[m].grantOutbound \/ m = opener.node
                          /\ node'[m].fInbound = node[m].fInbound
        OBVIOUS
      <3>1. node[m] \in CNode
        BY <1>1 DEF TypeOK
      <3>2. node'[m] = IF m = opener.node THEN [node[m] EXCEPT !.grantOutbound = TRUE] ELSE node[m]
        BY <1>1, <2>1, Zenon DEF TypeOK
      <3> QED
        BY <3>1, <3>2 DEF CNode
    <2>3. Granted' = Granted \cup {opener.node}
      BY <1>1, <2>2 DEF Granted
    <2>4. semOutbound' + Cardinality(Granted') = semOutbound + Cardinality(Granted) + 1
      <3>1. CASE opener.node \in Granted
        <4>1. Granted' = Granted /\ Bit(node[opener.node].grantOutbound) = 1
          BY <2>3, <3>1 DEF Granted, Bit
        <4> QED
          BY <1>3, <2>1, <4>1
      <3>2. CASE opener.node \notin Granted
        <4>1. Cardinality(Granted') = Cardinality(Granted) + 1
          BY <1>1, <2>3, <3>2, GrantedFinite, FS_AddElement, Zenon
        <4>2. Bit(node[opener.node].grantOutbound) = 0
          BY <1>1, <3>2 DEF Granted, Bit
        <4> QED
          BY <1>3, <2>1, <4>1, <4>2
      <3> QED
        BY <3>1, <3>2
    <2>5. GrantsAccounted'
      <3>1. semOutbound' \in Nat /\ Cardinality(Granted') \in Nat
        <4>1. IsFiniteSet(Granted')
          BY <1>1, <2>3, GrantedFinite, FS_AddElement, Zenon
        <4> QED
          BY <1>3, <2>1, <4>1, FS_CardinalityType DEF Bit
      <3> QED
        BY <1>1, <1>3, <2>1, <2>4, <3>1 DEF GrantsAccounted, Bit
    <2>6. \A n \in Slots \ Allocated' : ~node'[n].grantOutbound
      BY <1>2, <1>4, <2>2 DEF GrantInv
    <2>7. \A n \in vNodes' : ~node'[n].fInbound => node'[n].grantOutbound
      BY <1>2, <2>2 DEF GrantInv
    <2> QED
      BY <2>5, <2>6, <2>7 DEF GrantInv
  <1>5. CASE opener.node \notin Allocated
    <2>1. UNCHANGED <<node, semOutbound>> /\ lost' = lost + 1 /\ Granted' = Granted
      BY <1>5 DEF MoveGrant, Granted
    <2>2. GrantsAccounted'
      BY <1>1, <1>3, <2>1 DEF GrantsAccounted, Bit
    <2>3. \A n \in vNodes : n # opener.node
      BY <1>5 DEF Allocated
    <2>4. \A n \in vNodes' : ~node'[n].fInbound => node'[n].grantOutbound
      BY <1>2, <2>1, <2>3 DEF GrantInv
    <2> QED
      BY <1>2, <2>1, <2>2, <2>4 DEF GrantInv
  <1> QED
    BY <1>4, <1>5

\* The handlers move references and marks, but no grant.
LEMMA HandlersGrants ==
  ASSUME RefInv, GrantInv, NEW t \in Handlers, TakeCopy(t) \/ Poll(t) \/ ReleaseCopy(t)
  PROVE  GrantInv'
  <1>1. TypeOK /\ semOutbound \in Nat /\ \A n \in Slots : node[n] \in CNode
    BY DEF RefInv, TypeOK
  <1>2. UNCHANGED <<vNodes, vNodesDisconnected, semOutbound, opener, lost>>
    BY DEF TakeCopy, Poll, ReleaseCopy
  <1>3. \A n \in Slots : node'[n].grantOutbound = node[n].grantOutbound /\ node'[n].fInbound = node[n].fInbound
    <2>1. CASE TakeCopy(t)
      <3>1. node' = [n \in Slots |-> IF n \in vNodes THEN [node[n] EXCEPT !.nRefCount = @ + 1] ELSE node[n]]
        BY <2>1 DEF TakeCopy, AddRef
      <3> QED
        BY <1>1, <3>1 DEF CNode
    <2>2. CASE Poll(t)
      <3>1. PICK n \in vNodesCopy[t] \cap Allocated : node' = [node EXCEPT ![n].fDisconnect = TRUE]
        BY <2>2, Zenon DEF Poll
      <3>2. \A m \in Slots : node'[m] = IF m = n THEN [node[m] EXCEPT !.fDisconnect = TRUE] ELSE node[m]
        BY <1>1, <3>1, Zenon DEF TypeOK
      <3> QED
        BY <1>1, <3>2, Zenon DEF CNode
    <2>3. CASE ReleaseCopy(t)
      <3>1. node' = [n \in Slots |-> IF n \in vNodesCopy[t] \cap Allocated
                                     THEN [node[n] EXCEPT !.nRefCount = @ - 1] ELSE node[n]]
        BY <2>3 DEF ReleaseCopy, Release
      <3> QED
        BY <1>1, <3>1 DEF CNode
    <2> QED
      BY <2>1, <2>2, <2>3
  <1> QED
    BY <1>1, <1>2, <1>3, GrantsKeep DEF Pending

\* The opening thread takes a grant, gives it back, finds a node, or marks it.
LEMMA OpenerGrants ==
  ASSUME RefInv, RefInv', GrantInv,
         \/ AcquireGrant \/ OpenFails \/ FindExisting \/ ReadRefCount \/ WriteRefCount \/ MarkNetworkNode
         \/ \E a \in Addresses : Dial(a)
  PROVE  GrantInv'
  <1>1. TypeOK /\ semOutbound \in Nat /\ semOutbound' \in Nat
    BY Zenon DEF RefInv, TypeOK
  <1>2. CASE AcquireGrant
    <2>1. opener'.at = "granted" /\ opener.at = "idle" /\ semOutbound' = semOutbound - 1
          /\ UNCHANGED <<node, vNodes, vNodesDisconnected, lost>>
      BY <1>1, <1>2 DEF AcquireGrant, TypeOK
    <2>2. semOutbound' + Pending' = semOutbound + Pending
      BY <1>1, <2>1 DEF Pending, Bit
    <2> QED
      BY <1>1, <2>1, <2>2, GrantsKeep
  <1>3. CASE OpenFails
    <2>1. opener'.at = "idle" /\ opener.at \in {"granted", "dialing"} /\ semOutbound' = semOutbound + 1
          /\ UNCHANGED <<node, vNodes, vNodesDisconnected, lost>>
      BY <1>3 DEF OpenFails, Idle
    <2>2. semOutbound' + Pending' = semOutbound + Pending
      BY <1>1, <2>1 DEF Pending, Bit
    <2> QED
      BY <1>1, <2>1, <2>2, GrantsKeep
  <1>4. CASE FindExisting \/ ReadRefCount \/ \E a \in Addresses : Dial(a)
    <2>1. UNCHANGED <<node, vNodes, vNodesDisconnected, semOutbound, lost>>
          /\ opener.at \in {"granted", "dialing", "found"}
      BY <1>4, Zenon DEF FindExisting, ReadRefCount, Dial
    <2>2. opener'.at \in {"dialing", "found", "adding"}
      <3>1. CASE FindExisting
        BY <3>1, Zenon DEF FindExisting, Idle
      <3>2. CASE ReadRefCount
        BY <1>1, <3>2 DEF ReadRefCount, TypeOK
      <3>3. CASE \E a \in Addresses : Dial(a)
        <4>1. PICK a \in Addresses : opener' = [opener EXCEPT !.at = "dialing", !.addr = a]
          BY <3>3, Zenon DEF Dial
        <4> QED
          BY <1>1, <4>1 DEF TypeOK
      <3> QED
        BY <1>4, <3>1, <3>2, <3>3
    <2>3. semOutbound' + Pending' = semOutbound + Pending
      BY <2>1, <2>2 DEF Pending, Bit
    <2> QED
      BY <1>1, <2>1, <2>2, <2>3, GrantsKeep
  <1>5. CASE WriteRefCount
    <2>1. opener.at = "adding" /\ opener'.at = "opened" /\ semOutbound' = semOutbound
          /\ UNCHANGED <<vNodes, vNodesDisconnected, lost>>
      BY <1>1, <1>5 DEF WriteRefCount, TypeOK
    <2>2. \A m \in Slots : node'[m].grantOutbound = node[m].grantOutbound /\ node'[m].fInbound = node[m].fInbound
      <3> DEFINE refs == IF opener.node \in Allocated THEN opener.refs + 1 ELSE node[opener.node].nRefCount
      <3>1. opener.node \in Slots /\ node' = [node EXCEPT ![opener.node].nRefCount = refs]
        BY <1>1, <1>5 DEF WriteRefCount, TypeOK, RefInv
      <3> HIDE DEF refs
      <3>2. \A m \in Slots : node[m] \in CNode
              /\ node'[m] = IF m = opener.node THEN [node[m] EXCEPT !.nRefCount = refs] ELSE node[m]
        BY <1>1, <3>1, Zenon DEF TypeOK
      <3> QED
        BY <3>2, Zenon DEF CNode
    <2>3. semOutbound' + Pending' = semOutbound + Pending
      BY <2>1 DEF Pending, Bit
    <2> QED
      BY <1>1, <2>1, <2>2, <2>3, GrantsKeep
  <1>6. CASE MarkNetworkNode
    <2>1. opener'.at = "idle" /\ opener.at = "moved" /\ opener.node \in Slots /\ semOutbound' = semOutbound
          /\ UNCHANGED <<vNodes, vNodesDisconnected, lost>>
      BY <1>1, <1>6 DEF MarkNetworkNode, Idle, RefInv, TypeOK
    <2>2. \A m \in Slots : node'[m].grantOutbound = node[m].grantOutbound /\ node'[m].fInbound = node[m].fInbound
      <3> DEFINE there == opener.node \in Allocated
      <3>1. node' = [node EXCEPT ![opener.node].fNetworkNode = there]
        BY <1>6 DEF MarkNetworkNode
      <3> HIDE DEF there
      <3>2. \A m \in Slots : node[m] \in CNode
              /\ node'[m] = IF m = opener.node THEN [node[m] EXCEPT !.fNetworkNode = there] ELSE node[m]
        BY <1>1, <2>1, <3>1, Zenon DEF TypeOK
      <3> QED
        BY <3>2, Zenon DEF CNode
    <2>3. semOutbound' + Pending' = semOutbound + Pending
      BY <2>1 DEF Pending, Bit
    <2> QED
      BY <1>1, <2>1, <2>2, <2>3, GrantsKeep
  <1> QED
    BY <1>2, <1>3, <1>4, <1>5, <1>6

\* A program that has started has every grant free.
LEMMA StartGrants == ASSUME StartedAgain PROVE GrantInv'
  <1>1. Granted' = {}
    BY DEF StartedAgain, Granted, Blank, NewNode
  <1>2. Cardinality(Granted') = 0
    BY <1>1, FS_EmptySet
  <1>3. GrantsAccounted'
    BY <1>2 DEF StartedAgain, GrantsAccounted, Bit, Idle
  <1> QED
    BY <1>3 DEF StartedAgain, GrantInv, Blank, NewNode, Idle

\* Every step keeps the grants accounted for.
LEMMA NextGrants == ASSUME RefInv, RefInv', GrantInv, [Next]_vars PROVE GrantInv'
  <1>1. CASE DisconnectNodes
    BY <1>1, DisconnectNodesGrants
  <1>2. CASE \E a \in Addresses : Accept(a)
    <2> PICK a \in Addresses : Accept(a)
      BY <1>2
    <2> DEFINE r == [NewNode(a) EXCEPT !.fInbound = TRUE]
    <2>1. PICK n \in Slots \ Allocated : node' = [node EXCEPT ![n] = r] /\ vNodes' = vNodes \cup {n}
      BY Zenon DEF Accept
    <2>2. r \in CNode /\ ~r.grantOutbound /\ r.fInbound
      <3>1. NewNode(a) \in CNode /\ ~NewNode(a).grantOutbound
        BY NodeTypes DEF NewNode
      <3> QED
        BY <3>1, Zenon DEF CNode
    <2> HIDE DEF r
    <2> QED
      BY <2>1, <2>2, NewNodeGrants, Zenon DEF Accept
  <1>3. CASE ConnectNode
    <2> DEFINE r == NewNode(opener.addr)
    <2>1. PICK n \in Slots \ Allocated : /\ node' = [node EXCEPT ![n] = r] /\ vNodes' = vNodes \cup {n}
                                         /\ opener' = [Idle EXCEPT !.at = "opened", !.node = n]
      BY <1>3, Zenon DEF ConnectNode
    <2>2. r \in CNode /\ ~r.grantOutbound
      <3>1. opener.addr \in Addresses \cup {NULL}
        BY DEF RefInv, TypeOK
      <3> QED
        BY <3>1 DEF NewNode, CNode
    <2>3. opener.at = "dialing" /\ opener'.at = "opened" /\ opener'.node = n
      BY <1>3, <2>1, Zenon DEF ConnectNode, Idle
    <2> HIDE DEF r
    <2> QED
      BY <1>3, <2>1, <2>2, <2>3, NewNodeGrants, Zenon DEF ConnectNode
  <1>4. CASE \E t \in Handlers : TakeCopy(t) \/ Poll(t) \/ ReleaseCopy(t)
    BY <1>4, HandlersGrants
  <1>5. CASE \/ AcquireGrant \/ OpenFails \/ FindExisting \/ ReadRefCount \/ WriteRefCount \/ MarkNetworkNode
             \/ \E a \in Addresses : Dial(a)
    BY <1>5, OpenerGrants
  <1>6. CASE MoveGrant
    BY <1>6, MoveGrantGrants
  <1>7. CASE UNCHANGED vars
    BY <1>7 DEF vars, GrantInv, GrantsAccounted, Granted, Allocated
  <1>8. CASE AcceptPendingSyncCheckpoint \/ RelayTo
    BY <1>8 DEF AcceptPendingSyncCheckpoint, RelayTo, GrantInv, GrantsAccounted, Granted, Allocated
  <1>9. CASE AssertFails \/ UseDeleted
    BY <1>9, StartGrants DEF AssertFails, UseDeleted
  <1> QED
    BY <1>1, <1>2, <1>3, <1>4, <1>5, <1>6, <1>7, <1>8, <1>9 DEF Next

\* At the start every grant is free.
LEMMA InitGrants == Init => GrantInv
  <1> SUFFICES ASSUME Init PROVE GrantInv
    OBVIOUS
  <1>1. Granted = {}
    BY DEF Init, Granted, Blank, NewNode
  <1>2. Cardinality(Granted) = 0
    BY <1>1, FS_EmptySet
  <1>3. GrantsAccounted
    BY <1>2 DEF Init, GrantsAccounted, Bit, Idle
  <1> QED
    BY <1>3 DEF Init, GrantInv, Blank, NewNode, Idle

\* The grants are accounted for in every reachable state.
LEMMA GrantInvHolds == Spec => []GrantInv
  <1>1. RefInv /\ RefInv' /\ GrantInv /\ [Next]_vars => GrantInv'
    BY NextGrants
  <1> QED
    BY <1>1, InitGrants, Invariance, PTL DEF Spec

\* The references of a node cover the users that counted themselves, whatever
\* the threads do, but for a slot whose count ConnectNode wrote without the lock.
THEOREM RefsCoverUsersHolds == Spec => []RefsCoverUsers
  <1>1. RefInv => RefsCoverUsers
    BY DEF RefInv
  <1> QED
    BY <1>1, Invariance, PTL

\* No thread that has a reference to a node uses it after the socket handler has
\* deleted it, but for a slot whose count ConnectNode wrote without the lock.
THEOREM NodesInUseExistHolds == Spec => []NodesInUseExist
  <1>1. RefInv => NodesInUseExist
    BY DEF RefInv
  <1> QED
    BY <1>1, Invariance, PTL

\* Outbound connections are of different network groups.
THEOREM OneOutboundPerGroupHolds == Spec => []OneOutboundPerGroup
  <1>1. RefInv => OneOutboundPerGroup
    BY DEF RefInv
  <1> QED
    BY <1>1, Invariance, PTL
\* Every variable keeps its type; the list and the pool share no node.
THEOREM TypeCorrect == Spec => []TypeOK
  <1>1. RefInv => TypeOK
    BY DEF RefInv
  <1> QED
    BY <1>1, Invariance, PTL

\* No grant of the semaphore is lost or made, whatever the order in which the
\* threads move and release them, except by a move to a deleted node.
THEOREM GrantsAccountedHolds == Spec => []GrantsAccounted
  <1>1. GrantInv => GrantsAccounted
    BY DEF GrantInv
  <1> QED
    BY <1>1, GrantInvHolds, PTL

\* The semaphore bounds the outbound connections of the list.
THEOREM OutboundBoundedHolds == Spec => []OutboundBounded
  <1>1. ASSUME RefInv, GrantInv PROVE OutboundBounded
    <2> DEFINE outbound == {n \in vNodes : ~node[n].fInbound}
    <2>1. TypeOK /\ semOutbound \in Nat
      BY <1>1 DEF RefInv, TypeOK
    <2>2. Granted \subseteq Slots /\ IsFiniteSet(Granted) /\ Cardinality(Granted) \in Nat
      BY <2>1, GrantedFinite
    <2>3. IsFiniteSet(outbound) /\ Cardinality(outbound) \in Nat
      <3>1. outbound \subseteq Slots
        BY <2>1 DEF TypeOK
      <3> HIDE DEF outbound
      <3> QED
        BY <3>1, FS_Subset, FS_CardinalityType
    <2>4. semOutbound + Cardinality(Granted) + lost + Pending = MAX_OUTBOUND_CONNECTIONS /\ lost \in Nat
      BY <1>1 DEF GrantInv, GrantsAccounted, Pending, RefInv, TypeOK
    <2>5. Cardinality(outbound) <= MAX_OUTBOUND_CONNECTIONS
      <3>1. CASE opener.at = "opened"
        <4>1. outbound \subseteq Granted \cup {opener.node}
          BY <1>1, <2>1 DEF GrantInv, Granted, TypeOK
        <4>2. IsFiniteSet(Granted \cup {opener.node})
              /\ Cardinality(Granted \cup {opener.node}) \in Nat
              /\ Cardinality(Granted \cup {opener.node}) <= Cardinality(Granted) + 1
          <5>1. IsFiniteSet(Granted \cup {opener.node})
                /\ Cardinality(Granted \cup {opener.node})
                     = IF opener.node \in Granted THEN Cardinality(Granted) ELSE Cardinality(Granted) + 1
            BY <2>2, FS_AddElement, Zenon
          <5> QED
            BY <2>2, <5>1
        <4> HIDE DEF outbound
        <4>3. Cardinality(outbound) <= Cardinality(Granted \cup {opener.node})
          BY <4>1, <4>2, FS_Subset
        <4>4. Pending = 1
          BY <3>1 DEF Pending, Bit
        <4> QED
          BY <2>1, <2>2, <2>3, <2>4, <4>2, <4>3, <4>4
      <3>2. CASE opener.at # "opened"
        <4>1. outbound \subseteq Granted
          BY <1>1, <2>1, <3>2 DEF GrantInv, Granted, TypeOK
        <4> HIDE DEF outbound
        <4>2. Cardinality(outbound) <= Cardinality(Granted)
          BY <2>2, <4>1, FS_Subset
        <4>3. Pending \in Nat
          BY DEF Pending, Bit
        <4> QED
          BY <2>1, <2>2, <2>3, <2>4, <4>2, <4>3
      <3> QED
        BY <3>1, <3>2
    <2> QED
      BY <2>5 DEF OutboundBounded
  <1>2. RefInv /\ GrantInv => OutboundBounded
    BY <1>1
  <1> QED
    BY <1>2, Invariance, GrantInvHolds, PTL
=============================================================================
