-------------------------- MODULE BlockTreeTheorems --------------------------
(***************************************************************************)
(* Facts about the block tree, for every set of blocks: chains             *)
(* are linear, two chains share exactly the chain of their fork, and a     *)
(* walk from an ancestor to a descendant always has a next block.          *)
(***************************************************************************)
EXTENDS BlockTree, WellFoundedInduction, TLAPS

\* Every non-empty set of naturals has a least element.
LEMMA LeastNatural ==
    ASSUME NEW S \in SUBSET Nat, S # {}
    PROVE  \E n \in S : \A m \in S : n <= m
<1> DEFINE R == {ss \in Nat \X Nat : ss[1] < ss[2]}
<1>1. IsWellFoundedOn(R, Nat)
  BY NatLessThanWellFounded DEF OpToRel
<1>2. PICK n \in S : \A m \in S : ~(<<m, n>> \in R)
  <2> HIDE DEF R
  <2> QED BY <1>1, WFMin
<1>3. ASSUME NEW m \in S PROVE n <= m
  <2>1. m \in Nat /\ n \in Nat
    OBVIOUS
  <2>2. ~(m < n)
    BY <1>2, <2>1
  <2> QED BY <2>1, <2>2
<1> QED BY <1>3

\* In every non-empty set of blocks one has the least height.
LEMMA LowestBlock ==
    ASSUME NEW S \in SUBSET Block, S # {}
    PROVE  \E b \in S : \A c \in S : nHeight[b] <= nHeight[c]
<1> DEFINE H == {nHeight[b] : b \in S}
<1>1. H \in SUBSET Nat /\ H # {}
  BY BlockTreeAssumption
<1>2. PICK n \in H : \A m \in H : n <= m
  <2> HIDE DEF H
  <2> QED BY <1>1, LeastNatural
<1> QED BY <1>2

-----------------------------------------------------------------------------
\* A set closed under parents that holds b holds every ancestor of b.
LEMMA AncestorsLeast ==
    ASSUME NEW b \in Block, NEW S \in SUBSET Block, b \in S, ClosedUnderParent(S)
    PROVE  Ancestors[b] \subseteq S
BY DEF Ancestors

\* The ancestors of b form such a set themselves.
LEMMA AncestorsClosed ==
    ASSUME NEW b \in Block
    PROVE  /\ Ancestors[b] \in SUBSET Block
           /\ b \in Ancestors[b]
           /\ ClosedUnderParent(Ancestors[b])
<1>1. Ancestors[b] \in SUBSET Block /\ b \in Ancestors[b]
  BY DEF Ancestors
<1>2. ASSUME NEW a \in Ancestors[b] \ {Genesis}
      PROVE  hashPrevBlock[a] \in Ancestors[b]
  <2>1. a \in Block /\ hashPrevBlock[a] \in Block
    BY <1>1, BlockTreeAssumption
  <2>2. ASSUME NEW S \in SUBSET Block, b \in S, ClosedUnderParent(S)
        PROVE  hashPrevBlock[a] \in S
    <3>1. a \in S
      BY <2>2, AncestorsLeast
    <3> QED BY <3>1, <2>2 DEF ClosedUnderParent
  <2> QED BY <2>1, <2>2 DEF Ancestors
<1> QED BY <1>1, <1>2 DEF ClosedUnderParent

\* The chain of an ancestor is part of the chain.
LEMMA AncestorsTransitive ==
    ASSUME NEW b \in Block, NEW a \in Ancestors[b]
    PROVE  Ancestors[a] \subseteq Ancestors[b]
BY AncestorsClosed, AncestorsLeast

\* The chain of b is b on top of the chain of its parent.
LEMMA AncestorsUnfold ==
    ASSUME NEW b \in Block, b # Genesis
    PROVE  Ancestors[b] = {b} \cup Ancestors[hashPrevBlock[b]]
<1> DEFINE p == hashPrevBlock[b]
           S == {b} \cup Ancestors[p]
<1>1. p \in Block
  BY BlockTreeAssumption
<1>2. S \in SUBSET Block /\ b \in S /\ ClosedUnderParent(S)
  BY <1>1, AncestorsClosed DEF ClosedUnderParent
<1>3. Ancestors[b] \subseteq S
  BY <1>2, AncestorsLeast
<1>4. p \in Ancestors[b]
  BY AncestorsClosed DEF ClosedUnderParent
<1>5. Ancestors[p] \subseteq Ancestors[b]
  BY <1>4, AncestorsTransitive
<1> QED BY <1>3, <1>5, AncestorsClosed

\* Heights grow along a chain.
LEMMA AncestorsHeight ==
    ASSUME NEW b \in Block, NEW a \in Ancestors[b]
    PROVE  /\ a \in Block
           /\ nHeight[a] \in Nat /\ nHeight[b] \in Nat
           /\ nHeight[a] <= nHeight[b]
           /\ nHeight[a] = nHeight[b] => a = b
<1> DEFINE S == {c \in Block : nHeight[c] <= nHeight[b] /\ (nHeight[c] = nHeight[b] => c = b)}
<1>1. S \in SUBSET Block /\ b \in S
  BY BlockTreeAssumption
<1>2. ClosedUnderParent(S)
  BY BlockTreeAssumption DEF ClosedUnderParent
<1>3. a \in S
  <2> HIDE DEF S
  <2> QED BY <1>1, <1>2, AncestorsLeast
<1> QED BY <1>3, BlockTreeAssumption

\* Genesis is alone in its chain.
LEMMA AncestorsOfGenesis == Ancestors[Genesis] = {Genesis}
<1>1. {Genesis} \in SUBSET Block /\ ClosedUnderParent({Genesis})
  BY BlockTreeAssumption DEF ClosedUnderParent
<1> QED BY <1>1, AncestorsLeast, AncestorsClosed, BlockTreeAssumption

\* Every chain starts at Genesis.
LEMMA GenesisIsAncestor ==
    ASSUME NEW b \in Block
    PROVE  Genesis \in Ancestors[b]
<1>1. Ancestors[b] \in SUBSET Block /\ Ancestors[b] # {}
  BY AncestorsClosed
<1>2. PICK a \in Ancestors[b] : \A c \in Ancestors[b] : nHeight[a] <= nHeight[c]
  BY <1>1, LowestBlock
<1>3. CASE a # Genesis
  <2>1. hashPrevBlock[a] \in Ancestors[b]
    BY <1>3, AncestorsClosed DEF ClosedUnderParent
  <2>2. nHeight[a] = nHeight[hashPrevBlock[a]] + 1 /\ nHeight[hashPrevBlock[a]] \in Nat
    BY <1>1, <1>3, BlockTreeAssumption
  <2> QED BY <1>2, <2>1, <2>2
<1> QED BY <1>2, <1>3

-----------------------------------------------------------------------------
\* Of two blocks of a chain one is an ancestor of the other: the lower one.
LEMMA ChainLinear ==
    ASSUME NEW b \in Block, NEW x \in Ancestors[b], NEW y \in Ancestors[b],
           nHeight[x] <= nHeight[y]
    PROVE  x \in Ancestors[y]
<1> DEFINE T == {z \in Block : z \in Ancestors[y] \/ y \in Ancestors[z]}
<1>1. x \in Block /\ y \in Block
  BY AncestorsClosed
<1>2. T \in SUBSET Block /\ b \in T
  OBVIOUS
<1>3. ASSUME NEW z \in T \ {Genesis} PROVE hashPrevBlock[z] \in T
  <2>1. z \in Block /\ hashPrevBlock[z] \in Block
    BY BlockTreeAssumption
  <2>2. CASE z \in Ancestors[y]
    BY <1>1, <2>1, <2>2, AncestorsClosed DEF ClosedUnderParent
  <2>3. CASE y \in Ancestors[z] /\ z \notin Ancestors[y]
    <3>1. Ancestors[z] = {z} \cup Ancestors[hashPrevBlock[z]]
      BY <2>1, AncestorsUnfold
    <3>2. y # z
      BY <1>1, <2>3, AncestorsClosed
    <3> QED BY <2>1, <2>3, <3>1, <3>2
  <2> QED BY <2>2, <2>3
<1>4. ClosedUnderParent(T)
  BY <1>3 DEF ClosedUnderParent
<1>5. x \in T
  <2> HIDE DEF T
  <2> QED BY <1>2, <1>4, AncestorsLeast
<1>6. CASE y \in Ancestors[x]
  <2>1. x = y
    BY <1>1, <1>6, AncestorsHeight
  <2> QED BY <1>1, <2>1, AncestorsClosed
<1> QED BY <1>5, <1>6

\* A chain has one block at a height.
LEMMA ChainOnePerHeight ==
    ASSUME NEW b \in Block, NEW x \in Ancestors[b], NEW y \in Ancestors[b],
           nHeight[x] = nHeight[y]
    PROVE  x = y
<1>1. x \in Block /\ y \in Block /\ nHeight[x] \in Nat /\ nHeight[y] \in Nat
  BY AncestorsClosed, BlockTreeAssumption
<1>2. x \in Ancestors[y]
  BY <1>1, ChainLinear
<1> QED BY <1>1, <1>2, AncestorsHeight

\* A chain has one block after another.
LEMMA ChainOneChild ==
    ASSUME NEW b \in Block, NEW x \in Ancestors[b] \ {Genesis}, NEW y \in Ancestors[b] \ {Genesis},
           hashPrevBlock[x] = hashPrevBlock[y]
    PROVE  x = y
<1>1. x \in Block /\ y \in Block
  BY AncestorsClosed
<1>2. nHeight[x] = nHeight[y]
  BY <1>1, BlockTreeAssumption
<1> QED BY <1>2, ChainOnePerHeight

\* Below its tip, every block of a chain has a next one: StepTowards finds it.
LEMMA StepTowardsExists ==
    ASSUME NEW b \in Block, NEW a \in Ancestors[b], a # b
    PROVE  /\ StepTowards(a, b) \in Ancestors[b] \ {Genesis}
           /\ StepTowards(a, b) \in Block
           /\ hashPrevBlock[StepTowards(a, b)] = a
<1>1. \E c \in Ancestors[b] \ {Genesis} : hashPrevBlock[c] = a
  <2> SUFFICES ASSUME \A c \in Ancestors[b] \ {Genesis} : hashPrevBlock[c] # a
               PROVE  FALSE
    OBVIOUS
  <2> DEFINE T == Ancestors[b] \ {a}
  <2>1. T \in SUBSET Block /\ b \in T
    BY AncestorsClosed
  <2>2. ClosedUnderParent(T)
    BY AncestorsClosed DEF ClosedUnderParent
  <2>3. Ancestors[b] \subseteq T
    <3> HIDE DEF T
    <3> QED BY <2>1, <2>2, AncestorsLeast
  <2> QED BY <2>3
<1>2. StepTowards(a, b) \in Ancestors[b] \ {Genesis} /\ hashPrevBlock[StepTowards(a, b)] = a
  BY <1>1 DEF StepTowards
<1> QED BY <1>2, AncestorsClosed

\* The fork of two chains is where they part: they share its chain and no more.
LEMMA ForkIsShared ==
    ASSUME NEW a \in Block, NEW b \in Block
    PROVE  /\ ForkOf(a, b) \in Ancestors[a] \cap Ancestors[b]
           /\ ForkOf(a, b) \in Block
           /\ Ancestors[a] \cap Ancestors[b] = Ancestors[ForkOf(a, b)]
<1> DEFINE C == Ancestors[a] \cap Ancestors[b]
           D == {nHeight[a] - nHeight[g] : g \in C}
<1>1. C \in SUBSET Block /\ Genesis \in C
  BY AncestorsClosed, GenesisIsAncestor
<1>2. \A g \in C : nHeight[g] \in Nat /\ nHeight[a] \in Nat /\ nHeight[g] <= nHeight[a]
  BY AncestorsHeight
<1>3. D \in SUBSET Nat /\ D # {}
  BY <1>1, <1>2
<1>4. PICK n \in D : \A m \in D : n <= m
  <2> HIDE DEF D
  <2> QED BY <1>3, LeastNatural
<1>5. \E f \in C : \A g \in C : nHeight[g] <= nHeight[f]
  <2>1. PICK f \in C : n = nHeight[a] - nHeight[f]
    BY <1>4
  <2>2. ASSUME NEW g \in C PROVE nHeight[g] <= nHeight[f]
    <3>1. nHeight[a] - nHeight[f] <= nHeight[a] - nHeight[g]
      BY <1>4, <2>1
    <3> QED BY <1>2, <3>1
  <2> QED BY <2>2
<1> DEFINE f == ForkOf(a, b)
<1>6. f \in C /\ \A g \in C : nHeight[g] <= nHeight[f]
  BY <1>5 DEF ForkOf
<1>7. C \subseteq Ancestors[f]
  <2> SUFFICES ASSUME NEW g \in C PROVE g \in Ancestors[f]
    OBVIOUS
  <2> HIDE DEF f
  <2> QED BY <1>6, ChainLinear
<1>8. Ancestors[f] \subseteq C
  <2> HIDE DEF f
  <2> QED BY <1>6, AncestorsTransitive
<1> QED BY <1>1, <1>6, <1>7, <1>8
=============================================================================
