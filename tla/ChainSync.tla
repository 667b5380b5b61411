------------------------------ MODULE ChainSync ------------------------------
(***************************************************************************)
(* How nodes get each other's blocks (main.cpp: ProcessMessage,            *)
(* SendMessages, ProcessBlock; net.h: CNode): the messages version, inv,   *)
(* getblocks, getdata and block between nodes that all run this code, over *)
(* connections that deliver in order and may break and be made again.      *)
(*                                                                         *)
(* A handler runs under cs_main and is one step.  All blocks are valid;    *)
(* checkpoints and duplicate stakes are in BlockIntake.  Transactions and  *)
(* addresses travel by the same functions and are left out.  Block         *)
(* locators name every ancestor, as they do for the last ten.              *)
(***************************************************************************)
EXTENDS BlockTree, Sequences, SequencesExt, FiniteSets

CONSTANTS
    Node,
    Link,               \* pairs of nodes of which the first may connect to the second
    Indexed,            \* node -> the blocks it starts with
    ProofOfWork,        \* the blocks that are not proof-of-stake
    nLimit,             \* blocks of one answer to getblocks (500)
    nMaxSize,           \* entries of a setInventoryKnown (SendBufferSize() / 1000)
    MaxDisconnects      \* bound: how often connections break

ASSUME ChainSyncAssumption ==
    /\ Link \subseteq Node \X Node
    /\ \A n \in Node : Genesis \in Indexed[n] /\ ClosedUnderParent(Indexed[n])
    /\ ProofOfWork \subseteq Block /\ Genesis \in ProofOfWork
    /\ nLimit \in Nat \ {0} /\ nMaxSize \in Nat \ {0} /\ MaxDisconnects \in Nat

VARIABLES
    mapBlockIndex, pindexBest, mapOrphanBlocks,     \* node -> ...
    mapAlreadyAskedFor,     \* node -> the blocks it has asked somebody for
    nAskedForBlocks,        \* node -> whether version made it send a getblocks
    vNodes,                 \* node -> peer -> its CNode of the peer, or NULL
    disconnects             \* how often a connection broke

chain == <<mapBlockIndex, pindexBest, mapOrphanBlocks>>
vars == <<chain, mapAlreadyAskedFor, nAskedForBlocks, vNodes, disconnects>>

\* A new CNode.  vSend is also what is on the wire.  mapAskFor, which is sorted
\* by time, is split into what may be sent at once and what waits for a retry.
NewNode(fInbound, vSend) ==
    [fInbound |-> fInbound, nVersion |-> FALSE, vSend |-> vSend,
     setInventoryKnown |-> <<>>, vInventoryToSend |-> <<>>,
     askNow |-> <<>>, askLater |-> <<>>,
     hashContinue |-> NULL, lastGetBlocks |-> <<NULL, NULL>>]

Heaviest(S) == CHOOSE b \in S : \A c \in S : nChainTrust[c] <= nChainTrust[b]

Init ==
    /\ mapBlockIndex = Indexed
    /\ pindexBest = [n \in Node |-> Heaviest(Indexed[n])]
    /\ mapOrphanBlocks = [n \in Node |-> {}]
    /\ mapAlreadyAskedFor = [n \in Node |-> {}]
    /\ nAskedForBlocks = [n \in Node |-> FALSE]
    /\ vNodes = [n \in Node |-> [p \in Node |-> NULL]]
    /\ disconnects = 0

Peers(n) == {p \in Node : vNodes[n][p] # NULL}

-----------------------------------------------------------------------------
(* CNode.                                                                  *)

PushMessage(c, m) == [c EXCEPT !.vSend = Append(@, m)]

VersionOf(n) == [type |-> "version", height |-> nHeight[pindexBest[n]]]

Known(c) == ToSet(c.setInventoryKnown)

\* AddInventoryKnown for each of some blocks; an mruset keeps the newest entries.
AddInventoryKnown(c, blocks) ==
    LET all == c.setInventoryKnown \o SelectSeq(blocks, LAMBDA b : b \notin Known(c))
    IN  [c EXCEPT !.setInventoryKnown =
            IF Len(all) <= nMaxSize THEN all ELSE SubSeq(all, Len(all) - nMaxSize + 1, Len(all))]

\* PushInventory for each of some blocks.
PushInventory(c, blocks) ==
    [c EXCEPT !.vInventoryToSend = @ \o SelectSeq(blocks, LAMBDA b : b \notin Known(c))]

\* "Filter out duplicate requests".
PushGetBlocks(c, begin, end) ==
    IF c.lastGetBlocks = <<begin, end>> THEN c
    ELSE PushMessage([c EXCEPT !.lastGetBlocks = <<begin, end>>],
                     [type |-> "getblocks", begin |-> begin, end |-> end])

\* AskFor for each of some blocks.  "Each retry is 2 minutes after the last",
\* whoever was asked.
AskFor(c, asked, blocks) ==
    [c EXCEPT !.askNow = @ \o SelectSeq(blocks, LAMBDA b : b \notin asked),
              !.askLater = @ \o SelectSeq(blocks, LAMBDA b : b \in asked)]

-----------------------------------------------------------------------------
(* Orphan blocks.                                                          *)

AlreadyHave(n, b) == b \in mapBlockIndex[n] \cup mapOrphanBlocks[n]

\* The first block of the orphan chain that b ends.
GetOrphanRoot(orphans, b) ==
    CHOOSE r \in Ancestors[b] \cap orphans :
        /\ hashPrevBlock[r] \notin orphans
        /\ Branch(r, b) \subseteq orphans

WantedByOrphan(orphans, b) == hashPrevBlock[GetOrphanRoot(orphans, b)]

\* b and the orphans that rest on it, in the order they are accepted.
AcceptOrder(n, b) ==
    SetToSortSeq({b} \cup {o \in mapOrphanBlocks[n] : b \in Ancestors[o] /\ Branch(b, o) \subseteq mapOrphanBlocks[n]},
                 LAMBDA x, y : nHeight[x] < nHeight[y])

\* AcceptBlock for each: the index, the best block, and those to announce.
AfterAccepting(n, order) ==
    FoldLeft(LAMBDA st, x : IF nChainTrust[x] > nChainTrust[st.best]
                              THEN [best |-> x, news |-> Append(st.news, x)] ELSE st,
             [best |-> pindexBest[n], news |-> <<>>], order)

-----------------------------------------------------------------------------
(* ProcessMessage: node n has message m from peer p.                       *)

\* The CNode of p and whom else n writes to change; the message is consumed.
Consumed(n, p, nodes) ==
    vNodes' = [vNodes EXCEPT ![p][n].vSend = Tail(@), ![n] = nodes]

Replying(n, p, c) == Consumed(n, p, [vNodes[n] EXCEPT ![p] = c])

\* "Ask the first connected node for block updates".
Version(n, p, m) ==
    LET c == [vNodes[n][p] EXCEPT !.nVersion = TRUE]
        replied == IF c.fInbound THEN PushMessage(c, VersionOf(n)) ELSE c
        ask == /\ m.height + 144 > nHeight[pindexBest[n]]
               /\ ~nAskedForBlocks[n] \/ Peers(n) = {p}
    IN  /\ m.type = "version"
        /\ nAskedForBlocks' = [nAskedForBlocks EXCEPT ![n] = @ \/ ask]
        /\ Replying(n, p, IF ask THEN PushGetBlocks(replied, pindexBest[n], NULL) ELSE replied)
        /\ UNCHANGED <<chain, mapAlreadyAskedFor>>

\* What is new is asked for; what is an orphan makes n ask for the blocks before
\* it; and if n has the last block, it asks for the next batch.
Inv(n, p, m) ==
    LET c == AddInventoryKnown(vNodes[n][p], m.vInv)
        new == SelectSeq(m.vInv, LAMBDA b : ~AlreadyHave(n, b))
        chased == FoldLeft(LAMBDA d, b : PushGetBlocks(d, pindexBest[n], GetOrphanRoot(mapOrphanBlocks[n], b)),
                           AskFor(c, mapAlreadyAskedFor[n], new),
                           SelectSeq(m.vInv, LAMBDA b : b \in mapOrphanBlocks[n]))
    IN  /\ m.type = "inv"
        /\ mapAlreadyAskedFor' = [mapAlreadyAskedFor EXCEPT ![n] = @ \cup ToSet(new)]
        /\ Replying(n, p, IF Last(m.vInv) \in mapBlockIndex[n]
                            THEN PushGetBlocks(chased, Last(m.vInv), NULL) ELSE chased)
        /\ UNCHANGED <<chain, nAskedForBlocks>>

LastProofOfWork(b) ==
    CHOOSE w \in Ancestors[b] \cap ProofOfWork : Branch(w, b) \cap ProofOfWork = {}

BlockMessage(b) == [type |-> "block", block |-> b]

DataOnly(n, hashContinue, vInv, i) ==
    IF vInv[i] \in mapBlockIndex[n] THEN <<BlockMessage(vInv[i])>> ELSE <<>>

\* The answer to one entry of a getdata message.  The last block of an answer to
\* getblocks is followed by news that makes the peer ask for more.
Data(n, hashContinue, vInv, i) ==
    IF vInv[i] \notin mapBlockIndex[n] THEN <<>>
    ELSE IF SelectInSeq(vInv, LAMBDA b : b = hashContinue) # i THEN <<BlockMessage(vInv[i])>>
    ELSE <<BlockMessage(vInv[i]), [type |-> "inv", vInv |-> <<LastProofOfWork(pindexBest[n])>>]>>

GetData(n, p, m) ==
    LET c == vNodes[n][p]
        answer == FlattenSeq([i \in DOMAIN m.vInv |-> Data(n, c.hashContinue, m.vInv, i)])
    IN  /\ m.type = "getdata"
        /\ Replying(n, p, [c EXCEPT !.vSend = @ \o answer,
                                    !.hashContinue = IF @ \in ToSet(m.vInv) THEN NULL ELSE @])
        /\ UNCHANGED <<chain, mapAlreadyAskedFor, nAskedForBlocks>>

\* The main chain above the block the locator finds, lowest block first.
RestOfChain(n, begin) ==
    LET fork == ForkOf(begin, pindexBest[n])
    IN  [i \in 1 .. nHeight[pindexBest[n]] - nHeight[fork] |->
            CHOOSE b \in Ancestors[pindexBest[n]] : nHeight[b] = nHeight[fork] + i]

GetBlocks(n, p, m) ==
    LET rest == RestOfChain(n, m.begin)
        stop == SelectInSeq(rest, LAMBDA b : b = m.end)
        upto == IF stop = 0 THEN Len(rest) ELSE stop - 1
        sent == SubSeq(rest, 1, IF upto < nLimit THEN upto ELSE nLimit)
        told == PushInventory(vNodes[n][p], sent)
    IN  /\ m.type = "getblocks"
        /\ \/ /\ upto >= nLimit     \* "getblocks stopping at limit"
              /\ Replying(n, p, [told EXCEPT !.hashContinue = rest[nLimit]])
           \/ /\ upto < nLimit      \* the end of the chain or hashStop; it may be too old to tell more
              /\ \E fRecent \in BOOLEAN :
                   Replying(n, p, IF fRecent /\ stop # 0 /\ m.end # pindexBest[n]
                                    THEN PushInventory(told, <<pindexBest[n]>>) ELSE told)
        /\ UNCHANGED <<chain, mapAlreadyAskedFor, nAskedForBlocks>>

AcceptKeepsOrphans(n, b) ==
    LET order == AcceptOrder(n, b)
    IN  /\ mapBlockIndex' = [mapBlockIndex EXCEPT ![n] = @ \cup ToSet(order)]
        /\ pindexBest' = [pindexBest EXCEPT ![n] = AfterAccepting(n, order).best]
        /\ UNCHANGED mapOrphanBlocks

\* The part of ProcessBlock that takes a block whose parent is known.
Accept(n, b) ==
    LET order == AcceptOrder(n, b)
    IN  /\ mapBlockIndex' = [mapBlockIndex EXCEPT ![n] = @ \cup ToSet(order)]
        /\ mapOrphanBlocks' = [mapOrphanBlocks EXCEPT ![n] = @ \ ToSet(order)]
        /\ pindexBest' = [pindexBest EXCEPT ![n] = AfterAccepting(n, order).best]

\* ... and tells all peers of each new best block.
Announced(n, b, nodes) ==
    [q \in Node |-> IF nodes[q] = NULL THEN NULL
                    ELSE PushInventory(nodes[q], AfterAccepting(n, AcceptOrder(n, b)).news)]

GotBlock(n, p, m) ==
    LET b == m.block
        c == AddInventoryKnown(vNodes[n][p], <<b>>)
        orphans == mapOrphanBlocks[n] \cup {b}
    IN  /\ m.type = "block"
        /\ \/ /\ AlreadyHave(n, b)
              /\ Replying(n, p, c)
              /\ UNCHANGED <<chain, mapAlreadyAskedFor>>
           \/ /\ ~AlreadyHave(n, b) /\ hashPrevBlock[b] \notin mapBlockIndex[n]
              /\ mapOrphanBlocks' = [mapOrphanBlocks EXCEPT ![n] = orphans]
              /\ UNCHANGED <<mapBlockIndex, pindexBest>>
              /\ LET asks == PushGetBlocks(c, pindexBest[n], GetOrphanRoot(orphans, b))
                     wanted == WantedByOrphan(orphans, b)
                     asked == mapAlreadyAskedFor[n]
                 IN  \E fInitialDownload \in BOOLEAN :
                       /\ Replying(n, p, IF fInitialDownload THEN asks ELSE AskFor(asks, asked, <<wanted>>))
                       /\ mapAlreadyAskedFor' = [mapAlreadyAskedFor EXCEPT ![n] =
                              (IF fInitialDownload THEN @ ELSE @ \cup {wanted}) \ {b}]
           \/ /\ ~AlreadyHave(n, b) /\ hashPrevBlock[b] \in mapBlockIndex[n]
              /\ Accept(n, b)
              /\ Consumed(n, p, Announced(n, b, [vNodes[n] EXCEPT ![p] = c]))
              /\ mapAlreadyAskedFor' = [mapAlreadyAskedFor EXCEPT ![n] = @ \ {b}]
        /\ UNCHANGED nAskedForBlocks

Receive(n, p) ==
    /\ p \in Peers(n)
    /\ vNodes[p][n].vSend # <<>>
    /\ LET m == Head(vNodes[p][n].vSend)
       IN  Version(n, p, m) \/ Inv(n, p, m) \/ GetData(n, p, m) \/ GetBlocks(n, p, m) \/ GotBlock(n, p, m)
    /\ UNCHANGED disconnects

-----------------------------------------------------------------------------
(* SendMessages, and what starts and ends things.                          *)

\* Announcements the peer does not know of, each once.
InvToSend(c) ==
    LET first == {i \in DOMAIN c.vInventoryToSend :
                    /\ c.vInventoryToSend[i] \notin Known(c)
                    /\ \A j \in 1 .. i - 1 : c.vInventoryToSend[j] # c.vInventoryToSend[i]}
    IN  [k \in 1 .. Cardinality(first) |->
            c.vInventoryToSend[CHOOSE i \in first : Cardinality({j \in first : j <= i}) = k]]

SendMessagesEarly(n, p) ==
    /\ p \in Peers(n)
    /\ LET c == vNodes[n][p]
           inv == InvToSend(c)
           wanted == SelectSeq(c.askNow, LAMBDA b : ~AlreadyHave(n, b))
           sent == IF inv = <<>> THEN c ELSE PushMessage(c, [type |-> "inv", vInv |-> inv])
           asked == IF wanted = <<>> THEN sent
                    ELSE PushMessage(sent, [type |-> "getdata", vInv |-> wanted])
       IN  /\ c.vInventoryToSend # <<>> \/ c.askNow # <<>>
           /\ vNodes' = [vNodes EXCEPT ![n][p] =
                  AddInventoryKnown([asked EXCEPT !.vInventoryToSend = <<>>, !.askNow = <<>>], inv)]
           /\ mapAlreadyAskedFor' = [mapAlreadyAskedFor EXCEPT ![n] = @ \cup ToSet(wanted)]
    /\ UNCHANGED <<chain, nAskedForBlocks, disconnects>>

\* "Don't send anything until we get their version message".
SendMessages(n, p) ==
    /\ p \in Peers(n)
    /\ LET c == vNodes[n][p]
           inv == InvToSend(c)
           wanted == SelectSeq(c.askNow, LAMBDA b : ~AlreadyHave(n, b))
           sent == IF inv = <<>> THEN c ELSE PushMessage(c, [type |-> "inv", vInv |-> inv])
           asked == IF wanted = <<>> THEN sent
                    ELSE PushMessage(sent, [type |-> "getdata", vInv |-> wanted])
       IN  /\ c.nVersion
           /\ c.vInventoryToSend # <<>> \/ c.askNow # <<>>
           /\ vNodes' = [vNodes EXCEPT ![n][p] =
                  AddInventoryKnown([asked EXCEPT !.vInventoryToSend = <<>>, !.askNow = <<>>], inv)]
           /\ mapAlreadyAskedFor' = [mapAlreadyAskedFor EXCEPT ![n] = @ \cup ToSet(wanted)]
    /\ UNCHANGED <<chain, nAskedForBlocks, disconnects>>

\* The two minutes are over.
RetryIsDue(n, p) ==
    /\ p \in Peers(n)
    /\ vNodes[n][p].askLater # <<>>
    /\ vNodes' = [vNodes EXCEPT ![n][p].askLater = Tail(@),
                                ![n][p].askNow = Append(@, Head(vNodes[n][p].askLater))]
    /\ UNCHANGED <<chain, mapAlreadyAskedFor, nAskedForBlocks, disconnects>>

\* CheckWork and CheckStake hand a new block to ProcessBlock.
NewBlock(n, b) ==
    /\ \A k \in Node : b \notin mapBlockIndex[k]
    /\ hashPrevBlock[b] = pindexBest[n]
    /\ Accept(n, b)
    /\ vNodes' = [vNodes EXCEPT ![n] = Announced(n, b, @)]
    /\ UNCHANGED <<mapAlreadyAskedFor, nAskedForBlocks, disconnects>>

Connect(n, p) ==
    /\ <<n, p>> \in Link
    /\ p \notin Peers(n)
    /\ vNodes' = [vNodes EXCEPT ![n][p] = NewNode(FALSE, <<VersionOf(n)>>),
                                ![p][n] = NewNode(TRUE, <<>>)]
    /\ UNCHANGED <<chain, mapAlreadyAskedFor, nAskedForBlocks, disconnects>>

\* Both ends notice; what was queued or on the wire is lost.
Disconnect(n, p) ==
    /\ <<n, p>> \in Link /\ p \in Peers(n)
    /\ disconnects < MaxDisconnects
    /\ disconnects' = disconnects + 1
    /\ vNodes' = [vNodes EXCEPT ![n][p] = NULL, ![p][n] = NULL]
    /\ UNCHANGED <<chain, mapAlreadyAskedFor, nAskedForBlocks>>

Next ==
    \E n, p \in Node :
        \/ Receive(n, p) \/ SendMessages(n, p) \/ RetryIsDue(n, p)
        \/ \E b \in Block : NewBlock(n, b)
        \/ Connect(n, p) \/ Disconnect(n, p)

\* ThreadMessageHandler serves every peer again and again, time passes, and
\* ThreadOpenConnections tries for ever.  Less than that is enough: that not
\* all of them stop.
Progress == \E n, p \in Node : Receive(n, p) \/ SendMessages(n, p) \/ RetryIsDue(n, p) \/ Connect(n, p)

Fairness == WF_vars(Progress)

Spec == Init /\ [][Next]_vars /\ Fairness

-----------------------------------------------------------------------------
(* Properties.                                                             *)

\* Everything known to a node is a block; orphans are not in the index, and
\* both ends of a connection have it.
TypeOK ==
    \A n \in Node :
        /\ mapBlockIndex[n] \subseteq Block /\ ClosedUnderParent(mapBlockIndex[n])
        /\ pindexBest[n] \in mapBlockIndex[n]
        /\ mapOrphanBlocks[n] \subseteq Block \ mapBlockIndex[n]
        /\ mapAlreadyAskedFor[n] \subseteq Block
        /\ \A p \in Node : vNodes[n][p] = NULL <=> vNodes[p][n] = NULL

\* The handshake: of what the download of blocks sends (getblocks, inv, getdata,
\* block) nothing arrives from a peer before its version message, and that arrives
\* once.  ProcessMessage counts anything else as misbehaviour and drops it
\* (nVersion == 0, "Each connection can only send one version message").
HandshakeFirst ==
    \A n, p \in Node : p \in Peers(n) =>
        \A i \in DOMAIN vNodes[p][n].vSend :
            vNodes[p][n].vSend[i].type = "version" <=> i = 1 /\ ~vNodes[n][p].nVersion

\* A node that is connected gets the best chain there is: all nodes end up,
\* for good, with chains of the same trust.  Batches of nLimit, hashContinue,
\* orphans, forks, blocks made meanwhile and broken connections do not leave
\* anybody behind (getblocks, inv, getdata, PushGetBlocks).
AllCatchUp ==
    <>[](\A n, p \in Node : nChainTrust[pindexBest[n]] = nChainTrust[pindexBest[p]])

\* "When this block is requested, we'll send an inv that'll make them getblocks
\* the next batch of inventory" (getblocks): unless the connection breaks, batch
\* follows batch until a peer that asks for the last block of one has caught up.
NextBatchFollows ==
    \A n, p \in Node :
        (/\ p \in Peers(n) /\ vNodes[n][p].hashContinue # NULL
         /\ \E m \in ToSet(vNodes[p][n].vSend) :
                m.type = "getdata" /\ vNodes[n][p].hashContinue \in ToSet(m.vInv))
        ~> (p \notin Peers(n) \/ nChainTrust[pindexBest[p]] >= nChainTrust[pindexBest[n]])
=============================================================================
