------------------------- MODULE CloseFarCheckProofs ------------------------
(***************************************************************************)
(* CloseFarCheck for any tree, any verdicts and any setting: while the     *)
(* rows are visited no entry of the matrix is lost and none is held twice, *)
(* the blocks that are dealt are those CloseDot and FarDot can work on, and *)
(* at the end the blocks of all ranks hold every entry exactly once.       *)
(***************************************************************************)
EXTENDS CloseFarCheck, FiniteSetTheorems, NaturalsInduction, WellFoundedInduction,
        TLAPS

\* What the loops know of their row and column, and of the descent.
RowInv ==
  /\ stage = "rows" =>
       IF row = None
       THEN stack = <<>> /\ kept = <<>>
       ELSE /\ row \in Nodes /\ col \in 1 .. Len(closeMat[row]) + 1
            /\ IsLeaf(row) => kept \in Seq(LeafNodes)
            /\ stack # <<>> => IsLeaf(row)
  /\ stage \in {"close", "far"} => row \in Nat /\ col \in Nat \ {0}
  /\ stage = "close" => row # 0

\* The columns of a finished leaf row are leaves.
LeafInv == \A i \in Elements(leafList) : closeMat[i] \in Seq(LeafNodes)

\* The far columns of a row, and the row, are small enough for FarDot.
FarInv ==
  \A i \in Rows : \A k \in DOMAIN farMat[i] :
    i \in Nodes /\ Size(i) < MaxSize /\ Size(farMat[i][k]) < MaxSize

\* The rows that wait for their visit, or were leaves, and the current row share
\* the particles out among them: each is in one of these rows.
Waiting == Elements(nodeList) \cup Elements(leafList)
Apart(i, j) == Positions(i) \cap Positions(j) = {}
FrontierInv ==
  stage = "rows" =>
    /\ \A k, l \in DOMAIN nodeList : k # l => Apart(nodeList[k], nodeList[l])
    /\ \A k \in DOMAIN nodeList : \A i \in Elements(leafList) : Apart(nodeList[k], i)
    /\ \A i, j \in Elements(leafList) : i # j => Apart(i, j)
    /\ row # None => \A i \in Waiting : Apart(row, i)
    /\ \A p \in Particles : \/ \E i \in Waiting : p \in Positions(i)
                            \/ row # None /\ p \in Positions(row)

\* How many columns of a list hold q; what is not in a far block is in the
\* columns of the one row of the frontier that holds p.
Times(s, q) == Cardinality(Hits(s, q))
FarHeld(p, q) == Held(Rows, farMat, p, q)
CoverInv ==
  stage = "rows" =>
    \A p, q \in Particles :
      /\ IsFiniteSet(FarHeld(p, q))
      /\ \A i \in Waiting : p \in Positions(i) => InFar(p, q) + Times(closeMat[i], q) = 1
      /\ row # None /\ p \in Positions(row) => InFar(p, q) + InRow(q) = 1

IInv == TypeOK /\ RowInv /\ LeafInv /\ FarInv /\ FarBlocksFit /\ FrontierInv /\ CoverInv

-----------------------------------------------------------------------------
(* Trees and lists of columns *)

\* The tree of the run is a tree, with leaves that are small enough.
LEMMA TreeFacts ==
  ASSUME TypeOK
  PROVE  /\ IsTree(Tree) /\ Nodes \subseteq Rows /\ Rows \subseteq Nat /\ 0 \in Nodes
         /\ \A i \in Nodes : IsLeaf(i) => Size(i) < MaxSize
         /\ \A i \in Nodes : Positions(i) # {} /\ Positions(i) \subseteq Particles
<1>1. /\ IsTree(Tree)
      /\ \A i \in Nodes : Tree[i].left = 0 => Tree[i].last - Tree[i].first < MaxSize
  BY CloseFarAssumption DEF TypeOK, Tree, MaxSize, Nodes
<1>2. Nodes \subseteq Rows /\ Rows \subseteq Nat /\ 0 \in Nodes
  BY <1>1 DEF IsTree, Nodes, NodesOf, Rows
<1>3. \A i \in Nodes : Positions(i) # {} /\ Positions(i) \subseteq Particles
  <2> SUFFICES ASSUME NEW i \in Nodes PROVE Positions(i) # {} /\ Positions(i) \subseteq Particles
    OBVIOUS
  <2>1. /\ Tree[i].first \in Nat /\ Tree[i].last \in Nat /\ Tree[i].first < Tree[i].last
        /\ Tree[0].first \in Nat /\ Tree[0].last \in Nat
        /\ Tree[0].first <= Tree[i].first /\ Tree[i].last <= Tree[0].last
    BY <1>1, <1>2 DEF IsTree, Nodes
  <2>2. Tree[i].first \in Positions(i)
    BY <2>1 DEF Positions
  <2> QED BY <2>1, <2>2 DEF Positions, Particles
<1> QED BY <1>1, <1>2, <1>3 DEF IsLeaf, Size

\* The children of a node share its particles out.
LEMMA Children ==
  ASSUME TypeOK, NEW i \in Nodes, ~IsLeaf(i)
  PROVE  /\ Tree[i].left \in Nodes /\ Tree[i].right \in Nodes
         /\ Positions(Tree[i].left) \cup Positions(Tree[i].right) = Positions(i)
         /\ Apart(Tree[i].left, Tree[i].right)
<1> DEFINE l == Tree[i].left
           r == Tree[i].right
<1>1. IsTree(Tree) /\ i \in Rows /\ l # 0
  BY TreeFacts DEF IsLeaf
<1>2. l \in Nodes /\ r \in Nodes
  BY <1>1 DEF Nodes, NodesOf, Rows
<1>3. /\ Tree[l].first \in Nat /\ Tree[l].last \in Nat /\ Tree[l].first < Tree[l].last
      /\ Tree[r].first \in Nat /\ Tree[r].last \in Nat /\ Tree[r].first < Tree[r].last
      /\ Tree[l].first = Tree[i].first /\ Tree[l].last = Tree[r].first
      /\ Tree[r].last = Tree[i].last
  BY <1>1, <1>2 DEF IsTree, Nodes
<1> HIDE DEF l, r
<1>4. Positions(l) \cup Positions(r) = Positions(i) /\ Apart(l, r)
  BY <1>3 DEF Positions, Apart
<1> QED BY <1>2, <1>4 DEF l, r

\* Nodes that are apart are different.
LEMMA ApartDiffer ==
  ASSUME TypeOK, NEW i \in Nodes, NEW j, Apart(i, j)
  PROVE  i # j
BY TreeFacts DEF Apart

\* A one-to-one function onto a set counts it.
LEMMA SameCount ==
  ASSUME NEW S, NEW T, IsFiniteSet(S), NEW f \in [S -> T],
         \A x, y \in S : f[x] = f[y] => x = y, \A z \in T : \E x \in S : f[x] = z
  PROVE  IsFiniteSet(T) /\ Cardinality(T) = Cardinality(S)
<1>1. f \in Bijection(S, T)
  BY DEF Bijection, Injection, Surjection, IsInjective
<1>2. ExistsBijection(S, T)
  BY <1>1 DEF ExistsBijection
<1> QED BY <1>2, FS_Bijection

\* A list has finitely many columns.
LEMMA TimesType ==
  ASSUME NEW S, NEW s \in Seq(S), NEW q
  PROVE  IsFiniteSet(Hits(s, q)) /\ Times(s, q) \in Nat
<1>1. IsFiniteSet(1 .. Len(s)) /\ Hits(s, q) \in SUBSET (1 .. Len(s))
  BY FS_Interval DEF Hits
<1> QED BY <1>1, FS_Subset, FS_CardinalityType DEF Times

LEMMA TimesEmpty == ASSUME NEW q PROVE Times(<<>>, q) = 0
<1>1. Hits(<<>>, q) = {}
  BY DEF Hits
<1> QED BY <1>1, FS_EmptySet DEF Times

LEMMA TimesOne ==
  ASSUME NEW c, NEW q
  PROVE  Times(<<c>>, q) = IF q \in Positions(c) THEN 1 ELSE 0
<1>1. DOMAIN <<c>> = {1} /\ <<c>>[1] = c
  OBVIOUS
<1>2. CASE q \in Positions(c)
  <2>1. Hits(<<c>>, q) = {1}
    BY <1>1, <1>2 DEF Hits
  <2> QED BY <1>2, <2>1, FS_Singleton DEF Times
<1>3. CASE q \notin Positions(c)
  <2>1. Hits(<<c>>, q) = {}
    BY <1>1, <1>3 DEF Hits
  <2> QED BY <1>3, <2>1, FS_EmptySet DEF Times
<1> QED BY <1>2, <1>3

\* The columns of two lists add up.
LEMMA TimesConcat ==
  ASSUME NEW s \in Seq(Nodes), NEW t \in Seq(Nodes), NEW q
  PROVE  Times(s \o t, q) = Times(s, q) + Times(t, q)
<1> DEFINE n == Len(s)
           moved == [k \in Hits(t, q) |-> k + n]
           M == {k \in Hits(s \o t, q) : k > n}
<1>1. /\ n \in Nat /\ DOMAIN s = 1 .. n /\ Len(t) \in Nat /\ DOMAIN t = 1 .. Len(t)
      /\ DOMAIN (s \o t) = 1 .. n + Len(t) /\ \A k \in 1 .. n : (s \o t)[k] = s[k]
      /\ \A k \in 1 .. Len(t) : (s \o t)[k + n] = t[k]
  OBVIOUS
<1> HIDE DEF n
<1>2. Hits(s \o t, q) = Hits(s, q) \cup M /\ Hits(s, q) \cap M = {}
  BY <1>1 DEF Hits
<1>3. /\ moved \in [Hits(t, q) -> M]
      /\ \A x, y \in Hits(t, q) : moved[x] = moved[y] => x = y
      /\ \A z \in M : \E x \in Hits(t, q) : moved[x] = z
  <2>1. \A k \in Hits(t, q) : k \in 1 .. Len(t) /\ k + n \in M
    BY <1>1 DEF Hits
  <2>2. moved \in [Hits(t, q) -> M]
    BY <2>1
  <2>3. \A x, y \in Hits(t, q) : moved[x] = moved[y] => x = y
    BY <1>1, <2>1
  <2>4. ASSUME NEW z \in M PROVE \E x \in Hits(t, q) : moved[x] = z
    <3>1. z \in 1 .. n + Len(t) /\ z > n /\ q \in Positions((s \o t)[z])
      BY <1>1 DEF Hits
    <3>2. z - n \in 1 .. Len(t) /\ (z - n) + n = z
      BY <1>1, <3>1
    <3>3. z - n \in Hits(t, q)
      BY <1>1, <3>1, <3>2 DEF Hits
    <3> QED BY <3>2, <3>3
  <2> QED BY <2>2, <2>3, <2>4
<1>4. IsFiniteSet(Hits(s, q)) /\ IsFiniteSet(Hits(t, q)) /\ Times(s, q) \in Nat /\ Times(t, q) \in Nat
  BY TimesType
<1> HIDE DEF moved, M
<1>5. IsFiniteSet(M) /\ Cardinality(M) = Cardinality(Hits(t, q))
  BY <1>3, <1>4, SameCount
<1>6. Cardinality(Hits(s \o t, q))
        = Cardinality(Hits(s, q)) + Cardinality(M) - Cardinality(Hits(s, q) \cap M)
  BY <1>2, <1>4, <1>5, FS_Union
<1>7. Cardinality(Hits(s, q) \cap M) = 0
  BY <1>2, FS_EmptySet
<1> QED BY <1>4, <1>5, <1>6, <1>7 DEF Times

\* Taking a node apart into its children leaves every particle where it was.
LEMMA TimesBelow ==
  ASSUME TypeOK, NEW c \in Nodes, ~IsLeaf(c), NEW q
  PROVE  /\ Below(c) \in Seq(Nodes)
         /\ Times(Below(c), q) = Times(<<c>>, q)
<1> DEFINE l == Tree[c].left
           r == Tree[c].right
<1>1. /\ l \in Nodes /\ r \in Nodes /\ Positions(l) \cup Positions(r) = Positions(c)
      /\ Apart(l, r)
  BY Children
<1> HIDE DEF l, r
<1>2. Below(c) = <<l, r>> /\ <<l, r>> = <<l>> \o <<r>> /\ <<l>> \in Seq(Nodes) /\ <<r>> \in Seq(Nodes)
  BY <1>1 DEF Below, l, r
<1>3. Times(Below(c), q) = Times(<<l>>, q) + Times(<<r>>, q)
  <2>1. Times(<<l>> \o <<r>>, q) = Times(<<l>>, q) + Times(<<r>>, q)
    BY <1>2, TimesConcat
  <2> QED BY <1>2, <2>1
<1>4. /\ Times(<<l>>, q) = IF q \in Positions(l) THEN 1 ELSE 0
      /\ Times(<<r>>, q) = IF q \in Positions(r) THEN 1 ELSE 0
      /\ Times(<<c>>, q) = IF q \in Positions(c) THEN 1 ELSE 0
  BY TimesOne
<1>5. ~(q \in Positions(l) /\ q \in Positions(r)) /\ (q \in Positions(c) <=> q \in Positions(l) \/ q \in Positions(r))
  BY <1>1 DEF Apart
<1> QED BY <1>1, <1>2, <1>3, <1>4, <1>5

\* The columns from one on, and the top of a stack.
LEMMA FirstAndRest ==
  ASSUME NEW S, NEW s \in Seq(S), NEW c \in 1 .. Len(s)
  PROVE  /\ SubSeq(s, c, Len(s)) = <<s[c]>> \o SubSeq(s, c + 1, Len(s))
         /\ s[c] \in S /\ SubSeq(s, c, Len(s)) \in Seq(S) /\ SubSeq(s, c + 1, Len(s)) \in Seq(S)
         /\ <<s[c]>> \in Seq(S)
OBVIOUS

LEMMA RestAndTop ==
  ASSUME NEW S, NEW s \in Seq(S), s # <<>>
  PROVE  /\ s = SubSeq(s, 1, Len(s) - 1) \o <<s[Len(s)]>>
         /\ s[Len(s)] \in S /\ SubSeq(s, 1, Len(s) - 1) \in Seq(S)
         /\ <<s[Len(s)]>> \in Seq(S)
OBVIOUS

LEMMA WholeList ==
  ASSUME NEW S, NEW s \in Seq(S)
  PROVE  SubSeq(s, 1, Len(s)) = s /\ SubSeq(s, Len(s) + 1, Len(s)) = <<>>
OBVIOUS

\* A far column more holds the entries of the row with its particles.
LEMMA FarGrows ==
  ASSUME TypeOK, input' = input, NEW i \in Rows, NEW j,
         farMat' = [farMat EXCEPT ![i] = @ \o <<j>>],
         NEW p, NEW q, IsFiniteSet(FarHeld(p, q))
  PROVE  /\ IsFiniteSet(FarHeld(p, q)')
         /\ InFar(p, q)' = InFar(p, q) + (IF p \in Positions(i) THEN Times(<<j>>, q) ELSE 0)
         /\ InFar(p, q) \in Nat
<1> DEFINE n == Len(farMat[i])
<1>1. farMat \in [Rows -> Seq(Nodes)] /\ n \in Nat /\ Rows' = Rows
  BY DEF TypeOK, Rows, Tree
<1>2. /\ DOMAIN farMat' = Rows
      /\ DOMAIN farMat'[i] = DOMAIN farMat[i] \cup {n + 1} /\ n + 1 \notin DOMAIN farMat[i]
      /\ \A k \in DOMAIN farMat[i] : farMat'[i][k] = farMat[i][k]
      /\ farMat'[i][n + 1] = j
      /\ \A m \in Rows : m # i => farMat'[m] = farMat[m]
  <2>1. farMat'[i] = farMat[i] \o <<j>> /\ farMat[i] \in Seq(Nodes)
    BY <1>1
  <2>2. \A m \in Rows : m # i => farMat'[m] = farMat[m]
    BY <1>1
  <2>3. /\ DOMAIN (farMat[i] \o <<j>>) = DOMAIN farMat[i] \cup {n + 1}
        /\ n + 1 \notin DOMAIN farMat[i]
        /\ \A k \in DOMAIN farMat[i] : (farMat[i] \o <<j>>)[k] = farMat[i][k]
        /\ (farMat[i] \o <<j>>)[n + 1] = j
    BY <2>1
  <2> QED BY <1>1, <2>1, <2>2, <2>3
<1>3. \A m : Positions(m)' = Positions(m)
  BY DEF Positions, Tree
<1> HIDE DEF n
<1> DEFINE new == <<i, n + 1>>
<1>4. ASSUME NEW b
      PROVE  b \in FarHeld(p, q)' <=>
               b \in FarHeld(p, q) \/ (b = new /\ p \in Positions(i) /\ q \in Positions(j))
  <2>1. b \in FarHeld(p, q) <=>
          \E m \in Rows : \E k \in DOMAIN farMat[m] :
            b = <<m, k>> /\ p \in Positions(m) /\ q \in Positions(farMat[m][k])
    BY DEF FarHeld, Held
  <2>2. b \in FarHeld(p, q)' <=>
          \E m \in Rows : \E k \in DOMAIN farMat'[m] :
            b = <<m, k>> /\ p \in Positions(m) /\ q \in Positions(farMat'[m][k])
    BY <1>1, <1>3 DEF FarHeld, Held
  <2> QED BY <1>2, <2>1, <2>2
<1>5. new \notin FarHeld(p, q)
  <2>1. ASSUME new \in FarHeld(p, q) PROVE FALSE
    <3>1. new[2] \in DOMAIN farMat[new[1]]
      BY <2>1 DEF FarHeld, Held
    <3> QED BY <1>2, <3>1
  <2> QED BY <2>1
<1>6. /\ InFar(p, q) = Cardinality(FarHeld(p, q)) /\ InFar(p, q)' = Cardinality(FarHeld(p, q)')
      /\ InFar(p, q) \in Nat
      /\ Times(<<j>>, q) = IF q \in Positions(j) THEN 1 ELSE 0
  BY FS_CardinalityType, TimesOne DEF InFar, FarHeld
<1>7. CASE p \in Positions(i) /\ q \in Positions(j)
  <2>1. FarHeld(p, q)' = FarHeld(p, q) \cup {new}
    BY <1>4, <1>7
  <2> QED BY <1>5, <1>6, <1>7, <2>1, FS_AddElement
<1>8. CASE ~(p \in Positions(i) /\ q \in Positions(j))
  <2>1. FarHeld(p, q)' = FarHeld(p, q)
    BY <1>4, <1>8
  <2> QED BY <1>6, <1>8, <2>1
<1> QED BY <1>7, <1>8

-----------------------------------------------------------------------------
(* What a step leaves alone *)

\* The tree and the settings of a run do not change.
LEMMA SameTree ==
  ASSUME input' = input
  PROVE  /\ Tree' = Tree /\ Rows' = Rows /\ Nodes' = Nodes /\ LeafNodes' = LeafNodes
         /\ Particles' = Particles /\ MaxSize' = MaxSize
         /\ \A i : /\ IsLeaf(i)' = IsLeaf(i) /\ Size(i)' = Size(i)
                   /\ Positions(i)' = Positions(i)
<1>1. Tree' = Tree /\ MaxSize' = MaxSize
  BY DEF Tree, MaxSize
<1>2. Rows' = Rows /\ Nodes' = Nodes
  BY <1>1 DEF Rows, Nodes
<1>3. \A i : /\ IsLeaf(i)' = IsLeaf(i) /\ Size(i)' = Size(i)
             /\ Positions(i)' = Positions(i)
  BY <1>1 DEF IsLeaf, Size, Positions
<1>4. LeafNodes' = LeafNodes
  BY <1>2, <1>3 DEF LeafNodes
<1>5. Particles' = Particles
  BY <1>1 DEF Particles, Positions
<1> QED BY <1>1, <1>2, <1>3, <1>4, <1>5

LEMMA SameFar ==
  ASSUME input' = input, farMat' = farMat, NEW p, NEW q
  PROVE  FarHeld(p, q)' = FarHeld(p, q) /\ InFar(p, q)' = InFar(p, q)
<1>1. Rows' = Rows /\ \A i : Positions(i)' = Positions(i)
  BY SameTree
<1>2. FarHeld(p, q)' = FarHeld(p, q)
  BY <1>1 DEF FarHeld, Held
<1> QED BY <1>2 DEF InFar, FarHeld

\* The frontier and the cover of a next state, said with the tree of this one.
LEMMA FrontierNext ==
  ASSUME input' = input,
         stage' = "rows" =>
           /\ \A k, l \in DOMAIN nodeList' : k # l => Apart(nodeList'[k], nodeList'[l])
           /\ \A k \in DOMAIN nodeList' : \A i \in Elements(leafList') : Apart(nodeList'[k], i)
           /\ \A i, j \in Elements(leafList') : i # j => Apart(i, j)
           /\ row' # None => \A i \in Waiting' : Apart(row', i)
           /\ \A p \in Particles : \/ \E i \in Waiting' : p \in Positions(i)
                                   \/ row' # None /\ p \in Positions(row')
  PROVE  FrontierInv'
<1>1. Tree' = Tree
  BY SameTree
<1> QED BY <1>1 DEF FrontierInv, Apart, Positions, Particles, Elements

LEMMA CoverNext ==
  ASSUME input' = input,
         stage' = "rows" =>
           \A p, q \in Particles :
             /\ IsFiniteSet(FarHeld(p, q)')
             /\ \A i \in Waiting' :
                  p \in Positions(i) => InFar(p, q)' + Times(closeMat'[i], q) = 1
             /\ row' # None /\ p \in Positions(row') =>
                  InFar(p, q)' + (Times(kept', q) + Times(stack', q) + Times(Untested', q)) = 1
  PROVE  CoverInv'
<1>1. Tree' = Tree /\ Particles' = Particles
  BY SameTree
<1>2. \A q : InRow(q)' = Times(kept', q) + Times(stack', q) + Times(Untested', q)
  BY <1>1 DEF InRow, Times, Hits, Positions
<1>3. \A i, q : Times(closeMat[i], q)' = Times(closeMat'[i], q)
  BY <1>1 DEF Times, Hits, Positions
<1>4. \A i : Positions(i)' = Positions(i)
  BY SameTree
<1>5. row' # None => Positions(row)' = Positions(row')
  BY <1>1 DEF Positions
<1> SUFFICES ASSUME stage' = "rows", NEW p \in Particles, NEW q \in Particles
    PROVE  /\ IsFiniteSet(FarHeld(p, q)')
           /\ \A i \in Waiting' :
                p \in Positions(i)' => InFar(p, q)' + Times(closeMat[i], q)' = 1
           /\ row' # None /\ p \in Positions(row)' => InFar(p, q)' + InRow(q)' = 1
  BY <1>1 DEF CoverInv
<1>6. ASSUME NEW i \in Waiting', p \in Positions(i)'
      PROVE  InFar(p, q)' + Times(closeMat[i], q)' = 1
  BY <1>3, <1>4, <1>6
<1>7. ASSUME row' # None, p \in Positions(row)' PROVE InFar(p, q)' + InRow(q)' = 1
  BY <1>2, <1>5, <1>7
<1> QED BY <1>6, <1>7

LEMMA CoverNow ==
  ASSUME CoverInv, stage = "rows", NEW p \in Particles, NEW q \in Particles
  PROVE  /\ IsFiniteSet(FarHeld(p, q)) /\ InFar(p, q) \in Nat
         /\ \A i \in Waiting : p \in Positions(i) => InFar(p, q) + Times(closeMat[i], q) = 1
         /\ row # None /\ p \in Positions(row) =>
              InFar(p, q) + (Times(kept, q) + Times(stack, q) + Times(Untested, q)) = 1
<1>1. IsFiniteSet(FarHeld(p, q))
  BY DEF CoverInv
<1>2. InFar(p, q) \in Nat
  BY <1>1, FS_CardinalityType DEF InFar, FarHeld
<1> QED BY <1>1, <1>2 DEF CoverInv, InRow, Times

\* Queued rows and finished leaves are nodes.
LEMMA WaitingNodes ==
  ASSUME TypeOK
  PROVE  /\ \A i \in Waiting : i \in Nodes /\ i \in Rows
         /\ Elements(leafList) \subseteq LeafNodes
         /\ \A k \in DOMAIN nodeList : nodeList[k] \in Nodes /\ nodeList[k] \in Waiting
         /\ \A i \in LeafNodes : i \in Nodes /\ IsLeaf(i)
<1>1. nodeList \in Seq(Nodes) /\ leafList \in Seq(LeafNodes)
  BY DEF TypeOK
<1>2. \A i \in LeafNodes : i \in Nodes /\ IsLeaf(i)
  BY DEF LeafNodes
<1>3. /\ \A k \in DOMAIN nodeList : nodeList[k] \in Nodes
      /\ \A k \in DOMAIN leafList : leafList[k] \in LeafNodes
  BY <1>1
<1>4. Nodes \subseteq Rows
  BY TreeFacts
<1> QED BY <1>2, <1>3, <1>4 DEF Waiting, Elements

-----------------------------------------------------------------------------
(* The visits of the rows *)

LEMMA InitInv == ASSUME Init PROVE IInv
<1>1. TypeOK
  <2>1. 0 \in Nodes /\ 0 \in Nat
    BY DEF Nodes, NodesOf
  <2>2. P \in Nat \ {0} /\ input \in Inputs
    BY CloseFarAssumption DEF Init
  <2>3. nodeList \in Seq(Nodes) /\ closeMat \in [Rows -> Seq(Nodes)]
    <3>1. <<0>> \in Seq(Nodes) /\ <<>> \in Seq(Nodes)
      BY <2>1
    <3> QED BY <3>1 DEF Init
  <2>4. DOMAIN verdict \subseteq Nodes \X Nodes /\ verdict \in [DOMAIN verdict -> BOOLEAN]
    <3>1. DOMAIN verdict = {} /\ verdict = <<>>
      BY DEF Init
    <3>2. <<>> \in [{} -> BOOLEAN]
      OBVIOUS
    <3> QED BY <3>1, <3>2
  <2>5. /\ farMat \in [Rows -> Seq(Nodes)] /\ leafList \in Seq(LeafNodes)
        /\ kept \in Seq(Nodes) /\ stack \in Seq(Nodes)
        /\ closePairs \in [Ranks -> Seq(LeafNodes \X LeafNodes)]
        /\ farPairs \in [Ranks -> Seq(Nodes \X Nodes)]
    BY DEF Init
  <2>6. /\ stage \in {"rows", "close", "far", "done"} /\ row \in Nat \cup {None}
        /\ col \in Nat /\ count \in Nat /\ farBelow \in BOOLEAN
    BY DEF Init
  <2> QED BY <2>2, <2>3, <2>4, <2>5, <2>6 DEF TypeOK
<1>2. RowInv /\ LeafInv
  BY DEF Init, RowInv, LeafInv, Elements
<1>3. FarInv /\ FarBlocksFit
  BY DEF Init, FarInv, FarBlocksFit, Elements
<1>4. Waiting = {0} /\ DOMAIN nodeList = {1} /\ Elements(leafList) = {} /\ row = None
  BY DEF Init, Waiting, Elements
<1>5. FrontierInv
  BY <1>4 DEF FrontierInv, Particles
<1>6. CoverInv
  <2> SUFFICES ASSUME NEW p \in Particles, NEW q \in Particles
               PROVE  IsFiniteSet(FarHeld(p, q)) /\ InFar(p, q) + Times(closeMat[0], q) = 1
    BY <1>4 DEF CoverInv
  <2>1. FarHeld(p, q) = {}
    BY DEF Init, FarHeld, Held
  <2>2. IsFiniteSet(FarHeld(p, q)) /\ InFar(p, q) = 0
    BY <2>1, FS_EmptySet DEF InFar, FarHeld
  <2>3. closeMat[0] = <<0>>
    BY <1>1, TreeFacts DEF Init
  <2>4. Times(<<0>>, q) = 1
    BY TimesOne DEF Particles
  <2> QED BY <2>2, <2>3, <2>4
<1> QED BY <1>1, <1>2, <1>3, <1>5, <1>6 DEF IInv

\* What holds in a step that visits rows.
LEMMA VisitFacts ==
  ASSUME IInv, stage = "rows", row # None
  PROVE  /\ row \in Nodes /\ row \in Rows /\ row \in Nat /\ closeMat[row] \in Seq(Nodes)
         /\ col \in Nat /\ 1 <= col /\ col <= Len(closeMat[row]) + 1
         /\ Len(closeMat[row]) \in Nat
         /\ kept \in Seq(Nodes) /\ stack \in Seq(Nodes)
         /\ IsLeaf(row) => kept \in Seq(LeafNodes) /\ Size(row) < MaxSize
         /\ stack # <<>> => IsLeaf(row)
<1>1. TypeOK /\ RowInv
  BY DEF IInv
<1>2. row \in Nodes /\ Nodes \subseteq Rows /\ Rows \subseteq Nat
  BY <1>1, TreeFacts DEF RowInv
<1>3. closeMat[row] \in Seq(Nodes) /\ kept \in Seq(Nodes) /\ stack \in Seq(Nodes)
  BY <1>1, <1>2 DEF TypeOK
<1>4. col \in 1 .. Len(closeMat[row]) + 1 /\ Len(closeMat[row]) \in Nat
  BY <1>1, <1>3 DEF RowInv
<1> QED BY <1>1, <1>2, <1>3, <1>4, TreeFacts DEF RowInv

LEMMA StartRowInv == ASSUME IInv, StartRow PROVE IInv'
<1>1. /\ TypeOK /\ RowInv /\ LeafInv /\ FarInv /\ FarBlocksFit /\ FrontierInv /\ CoverInv
      /\ stage = "rows" /\ row = None /\ stack = <<>> /\ kept = <<>> /\ nodeList # <<>>
  BY DEF IInv, StartRow, RowInv
<1>2. /\ row' = Head(nodeList) /\ nodeList' = Tail(nodeList) /\ col' = 1 /\ kept' = <<>>
      /\ input' = input /\ stage' = stage /\ stack' = stack /\ farBelow' = farBelow
      /\ closeMat' = closeMat /\ farMat' = farMat /\ leafList' = leafList
      /\ verdict' = verdict /\ count' = count /\ closePairs' = closePairs
      /\ farPairs' = farPairs
  BY DEF StartRow, descent, dealVars
<1>3. /\ nodeList \in Seq(Nodes) /\ row' = nodeList[1] /\ row' \in Nodes /\ row' \in Rows
      /\ row' \in Nat /\ row' # None /\ nodeList' \in Seq(Nodes)
      /\ closeMat[row'] \in Seq(Nodes) /\ 1 \in DOMAIN nodeList
      /\ \A k \in DOMAIN nodeList' : /\ k + 1 \in DOMAIN nodeList /\ k + 1 # 1
                                     /\ nodeList'[k] = nodeList[k + 1]
      /\ \A k \in DOMAIN nodeList : k = 1 \/ \E l \in DOMAIN nodeList' : k = l + 1
  <2>1. nodeList \in Seq(Nodes)
    BY <1>1 DEF TypeOK
  <2>2. row' = nodeList[1] /\ row' \in Nodes /\ nodeList' \in Seq(Nodes) /\ 1 \in DOMAIN nodeList
    BY <1>1, <1>2, <2>1
  <2>3. row' \in Rows /\ row' \in Nat /\ closeMat[row'] \in Seq(Nodes)
    BY <1>1, <2>2, TreeFacts DEF TypeOK
  <2>4. /\ \A k \in DOMAIN nodeList' : /\ k + 1 \in DOMAIN nodeList /\ k + 1 # 1
                                       /\ nodeList'[k] = nodeList[k + 1]
    BY <1>1, <1>2, <2>1
  <2>5. \A k \in DOMAIN nodeList : k = 1 \/ \E l \in DOMAIN nodeList' : k = l + 1
    <3> SUFFICES ASSUME NEW k \in DOMAIN nodeList, k # 1
                 PROVE  k - 1 \in DOMAIN nodeList' /\ k = (k - 1) + 1
      OBVIOUS
    <3> QED BY <1>1, <1>2, <2>1
  <2> QED BY <2>1, <2>2, <2>3, <2>4, <2>5 DEF None
<1>4. TypeOK'
  BY <1>1, <1>2, <1>3, SameTree DEF TypeOK
<1>5. RowInv'
  <2>1. 1 \in 1 .. Len(closeMat[row']) + 1
    BY <1>3
  <2> QED BY <1>1, <1>2, <1>3, <2>1, SameTree DEF RowInv
<1>6. LeafInv' /\ FarInv' /\ FarBlocksFit'
  BY <1>1, <1>2, SameTree DEF LeafInv, FarInv, FarBlocksFit, Elements
<1>7. /\ Waiting = Waiting' \cup {row'} /\ Elements(leafList') = Elements(leafList)
      /\ Elements(leafList) \subseteq Waiting'
  BY <1>2, <1>3 DEF Waiting, Elements
<1>8. FrontierInv'
  <2>1. \A k, l \in DOMAIN nodeList' : k # l => Apart(nodeList'[k], nodeList'[l])
    <3> SUFFICES ASSUME NEW k \in DOMAIN nodeList', NEW l \in DOMAIN nodeList', k # l
                 PROVE  Apart(nodeList'[k], nodeList'[l])
      OBVIOUS
    <3>1. k + 1 \in DOMAIN nodeList /\ l + 1 \in DOMAIN nodeList /\ k + 1 # l + 1
      BY <1>3
    <3> QED BY <1>1, <1>3, <3>1 DEF FrontierInv
  <2>2. \A k \in DOMAIN nodeList' : \A i \in Elements(leafList') : Apart(nodeList'[k], i)
    BY <1>1, <1>3, <1>7 DEF FrontierInv
  <2>3. \A i \in Waiting' : Apart(row', i)
    <3> SUFFICES ASSUME NEW i \in Waiting' PROVE Apart(row', i)
      OBVIOUS
    <3>1. CASE i \in Elements(leafList)
      BY <1>1, <1>3, <3>1 DEF FrontierInv
    <3>2. CASE i \in Elements(nodeList')
      <4>1. PICK k \in DOMAIN nodeList' : i = nodeList[k + 1] /\ k + 1 \in DOMAIN nodeList /\ k + 1 # 1
        BY <1>3, <3>2 DEF Elements
      <4> QED BY <1>1, <1>3, <4>1 DEF FrontierInv
    <3> QED BY <1>7, <3>1, <3>2 DEF Waiting
  <2>4. \A i, j \in Elements(leafList') : i # j => Apart(i, j)
    BY <1>1, <1>7 DEF FrontierInv
  <2>5. \A p \in Particles : \/ \E i \in Waiting' : p \in Positions(i)
                             \/ p \in Positions(row')
    BY <1>1, <1>7 DEF FrontierInv
  <2> QED BY <1>2, <1>3, <2>1, <2>2, <2>3, <2>4, <2>5, FrontierNext
<1>9. CoverInv'
  <2>1. ASSUME NEW p \in Particles, NEW q \in Particles
        PROVE  /\ IsFiniteSet(FarHeld(p, q)')
               /\ \A i \in Waiting' :
                    p \in Positions(i) => InFar(p, q)' + Times(closeMat'[i], q) = 1
               /\ p \in Positions(row') =>
                    InFar(p, q)' + (Times(kept', q) + Times(stack', q) + Times(Untested', q)) = 1
    <3>1. FarHeld(p, q)' = FarHeld(p, q) /\ InFar(p, q)' = InFar(p, q)
      BY <1>2, SameFar
    <3>2. /\ IsFiniteSet(FarHeld(p, q)) /\ InFar(p, q) \in Nat
          /\ \A i \in Waiting : p \in Positions(i) => InFar(p, q) + Times(closeMat[i], q) = 1
      BY <1>1, CoverNow
    <3>3. Untested' = closeMat[row']
      BY <1>2, <1>3, WholeList DEF Untested
    <3>4. Times(kept', q) = 0 /\ Times(stack', q) = 0 /\ Times(Untested', q) \in Nat
      BY <1>1, <1>2, <1>3, <3>3, TimesEmpty, TimesType
    <3> QED BY <1>2, <1>7, <3>1, <3>2, <3>3, <3>4
  <2> QED BY <1>2, <2>1, CoverNext
<1> QED BY <1>4, <1>5, <1>6, <1>8, <1>9 DEF IInv

\* A step inside a row: the frontier stays, the row's columns are only moved.
LEMMA InsideRow ==
  ASSUME IInv, stage = "rows", stage' = stage, input' = input, row # None,
         UNCHANGED <<nodeList, row, closeMat, leafList, count, closePairs, farPairs>>,
         col' \in 1 .. Len(closeMat[row]) + 1, kept' \in Seq(Nodes), stack' \in Seq(Nodes),
         farBelow' \in BOOLEAN,
         DOMAIN verdict' \subseteq Nodes \X Nodes, verdict' \in [DOMAIN verdict' -> BOOLEAN],
         IsLeaf(row) => kept' \in Seq(LeafNodes), stack' # <<>> => IsLeaf(row),
         \/ farMat' = farMat
         \/ \E j \in Nodes : /\ farMat' = [farMat EXCEPT ![row] = @ \o <<j>>]
                             /\ Size(row) < MaxSize /\ Size(j) < MaxSize,
         \A p, q \in Particles :
           /\ IsFiniteSet(FarHeld(p, q)')
           /\ p \notin Positions(row) => InFar(p, q)' = InFar(p, q)
           /\ p \in Positions(row) =>
                InFar(p, q)' + (Times(kept', q) + Times(stack', q) + Times(Untested', q)) = 1
  PROVE  IInv'
<1>1. /\ TypeOK /\ RowInv /\ LeafInv /\ FarInv /\ FarBlocksFit /\ FrontierInv /\ CoverInv
      /\ row \in Nodes /\ row \in Rows /\ row \in Nat
  BY VisitFacts DEF IInv
<1>2. /\ nodeList' = nodeList /\ row' = row /\ closeMat' = closeMat /\ leafList' = leafList
      /\ count' = count /\ closePairs' = closePairs /\ farPairs' = farPairs
      /\ Waiting' = Waiting
  BY DEF Waiting, Elements
<1>3. ASSUME NEW j \in Nodes, farMat' = [farMat EXCEPT ![row] = @ \o <<j>>]
      PROVE  /\ farMat' \in [Rows -> Seq(Nodes)]
             /\ \A i \in Rows : \A k \in DOMAIN farMat'[i] :
                  \/ k \in DOMAIN farMat[i] /\ farMat'[i][k] = farMat[i][k]
                  \/ i = row /\ farMat'[i][k] = j
  <2>1. farMat \in [Rows -> Seq(Nodes)]
    BY <1>1 DEF TypeOK
  <2>2. farMat' \in [Rows -> Seq(Nodes)]
    <3>1. farMat[row] \o <<j>> \in Seq(Nodes)
      BY <1>1, <2>1
    <3> QED BY <1>3, <2>1, <3>1
  <2>3. ASSUME NEW i \in Rows, NEW k \in DOMAIN farMat'[i]
        PROVE  \/ k \in DOMAIN farMat[i] /\ farMat'[i][k] = farMat[i][k]
               \/ i = row /\ farMat'[i][k] = j
    <3>1. CASE i # row
      BY <1>3, <2>1, <3>1
    <3>2. CASE i = row
      <4>1. farMat'[i] = farMat[i] \o <<j>> /\ farMat[i] \in Seq(Nodes)
        BY <1>1, <1>3, <2>1, <3>2
      <4>2. \A m \in DOMAIN (farMat[i] \o <<j>>) :
              \/ m \in DOMAIN farMat[i] /\ (farMat[i] \o <<j>>)[m] = farMat[i][m]
              \/ (farMat[i] \o <<j>>)[m] = j
        BY <4>1
      <4> QED BY <3>2, <4>1, <4>2
    <3> QED BY <3>1, <3>2
  <2> QED BY <2>2, <2>3
<1>4. TypeOK'
  <2>1. farMat' \in [Rows -> Seq(Nodes)]
    <3>1. farMat \in [Rows -> Seq(Nodes)]
      BY <1>1 DEF TypeOK
    <3>2. CASE \E j \in Nodes : farMat' = [farMat EXCEPT ![row] = @ \o <<j>>]
      BY <1>3, <3>2
    <3> QED BY <3>1, <3>2
  <2>2. col' \in Nat
    <3>1. Len(closeMat[row]) \in Nat
      BY VisitFacts
    <3> QED BY <3>1
  <2> QED BY <1>1, <1>2, <2>1, <2>2, SameTree DEF TypeOK
<1>5. RowInv'
  BY <1>1, <1>2, SameTree DEF RowInv
<1>6. LeafInv' /\ FarBlocksFit'
  <2>1. LeafNodes' = LeafNodes /\ MaxSize' = MaxSize /\ \A i : Size(i)' = Size(i)
    BY SameTree
  <2>2. LeafInv'
    BY <1>1, <1>2, <2>1 DEF LeafInv, Elements
  <2>3. FarBlocksFit'
    <3>1. Tree' = Tree /\ MaxSize' = MaxSize
      BY SameTree
    <3> QED BY <1>1, <1>2, <3>1 DEF FarBlocksFit, Elements, Size
  <2> QED BY <2>2, <2>3
<1>7. FarInv'
  <2>1. CASE farMat' = farMat
    BY <1>1, <2>1, SameTree DEF FarInv
  <2>2. CASE \E j \in Nodes : /\ farMat' = [farMat EXCEPT ![row] = @ \o <<j>>]
                              /\ Size(row) < MaxSize /\ Size(j) < MaxSize
    <3>1. PICK j \in Nodes : /\ farMat' = [farMat EXCEPT ![row] = @ \o <<j>>]
                             /\ Size(row) < MaxSize /\ Size(j) < MaxSize
      BY <2>2
    <3>2. ASSUME NEW i \in Rows, NEW k \in DOMAIN farMat'[i]
          PROVE  i \in Nodes /\ Size(i) < MaxSize /\ Size(farMat'[i][k]) < MaxSize
      BY <1>1, <1>3, <3>1 DEF FarInv
    <3>3. Tree' = Tree /\ MaxSize' = MaxSize /\ Rows' = Rows /\ Nodes' = Nodes
      BY SameTree
    <3> QED BY <3>2, <3>3 DEF FarInv, Size
  <2> QED BY <2>1, <2>2
<1>8. FrontierInv'
  <2>1. /\ \A k, l \in DOMAIN nodeList : k # l => Apart(nodeList[k], nodeList[l])
        /\ \A k \in DOMAIN nodeList : \A i \in Elements(leafList) : Apart(nodeList[k], i)
        /\ \A i, j \in Elements(leafList) : i # j => Apart(i, j)
        /\ \A i \in Waiting : Apart(row, i)
        /\ \A p \in Particles : \/ \E i \in Waiting : p \in Positions(i)
                                \/ row # None /\ p \in Positions(row)
    BY <1>1 DEF FrontierInv
  <2> QED BY <1>2, <2>1, FrontierNext
<1>9. CoverInv'
  <2>1. ASSUME NEW p \in Particles, NEW q \in Particles, NEW i \in Waiting, p \in Positions(i)
        PROVE  InFar(p, q)' + Times(closeMat'[i], q) = 1
    <3>1. p \notin Positions(row)
      BY <1>1, <2>1 DEF FrontierInv, Apart
    <3> QED BY <1>1, <1>2, <2>1, <3>1, CoverNow
  <2> QED BY <1>2, <2>1, CoverNext
<1> QED BY <1>4, <1>5, <1>6, <1>7, <1>8, <1>9 DEF IInv

\* The next column of the row, and the columns after it.
LEMMA NextColumn ==
  ASSUME IInv, stage = "rows", row # None, stack = <<>>, col <= Len(closeMat[row]),
         closeMat' = closeMat, row' = row, col' = col + 1
  PROVE  /\ closeMat[row][col] \in Nodes
         /\ col' \in 1 .. Len(closeMat[row]) + 1
         /\ \A q : /\ Times(stack, q) = 0 /\ Times(kept, q) \in Nat
                   /\ Times(<<closeMat[row][col]>>, q) \in Nat /\ Times(Untested', q) \in Nat
                   /\ Times(Untested, q) = Times(<<closeMat[row][col]>>, q) + Times(Untested', q)
<1>1. /\ closeMat[row] \in Seq(Nodes) /\ col \in 1 .. Len(closeMat[row])
      /\ Len(closeMat[row]) \in Nat /\ kept \in Seq(Nodes)
  BY VisitFacts
<1>2. /\ Untested = <<closeMat[row][col]>> \o Untested'
      /\ closeMat[row][col] \in Nodes /\ Untested' \in Seq(Nodes)
      /\ <<closeMat[row][col]>> \in Seq(Nodes)
  BY <1>1, FirstAndRest DEF Untested
<1>3. ASSUME NEW q
      PROVE  /\ Times(stack, q) = 0 /\ Times(kept, q) \in Nat
             /\ Times(<<closeMat[row][col]>>, q) \in Nat /\ Times(Untested', q) \in Nat
             /\ Times(Untested, q) = Times(<<closeMat[row][col]>>, q) + Times(Untested', q)
  <2>1. Times(<<closeMat[row][col]>> \o Untested', q)
          = Times(<<closeMat[row][col]>>, q) + Times(Untested', q)
    BY <1>2, TimesConcat
  <2>2. Times(stack, q) = 0
    BY TimesEmpty
  <2>3. /\ Times(kept, q) \in Nat /\ Times(<<closeMat[row][col]>>, q) \in Nat
        /\ Times(Untested', q) \in Nat
    BY <1>1, <1>2, TimesType
  <2> QED BY <1>2, <2>1, <2>2, <2>3
<1>4. closeMat[row][col] \in Nodes /\ col' \in 1 .. Len(closeMat[row]) + 1
  BY <1>1, <1>2
<1> QED BY <1>3, <1>4

LEMMA TestColumnInv == ASSUME IInv, TestColumn PROVE IInv'
<1> DEFINE j == closeMat[row][col]
<1>1. /\ TypeOK /\ CoverInv /\ stage = "rows" /\ row # None /\ stack = <<>>
      /\ col <= Len(closeMat[row])
  BY DEF IInv, TestColumn
<1>2. PICK isFar \in Verdicts(row, j) :
        /\ IF IsLeaf(row)
           THEN TestOfLeafRow(row, j, isFar) /\ UNCHANGED farMat
           ELSE TestOfInnerRow(row, j, isFar) /\ UNCHANGED descent
        /\ Remember(row, j, isFar)
  BY DEF TestColumn
<1>3. /\ UNCHANGED <<nodeList, row, closeMat, leafList, count, closePairs, farPairs>>
      /\ input' = input /\ stage' = stage /\ closeMat' = closeMat /\ row' = row
      /\ col' = col + 1
  BY DEF TestColumn, dealVars
<1>4. /\ j \in Nodes /\ col' \in 1 .. Len(closeMat[row]) + 1
      /\ \A q : /\ Times(stack, q) = 0 /\ Times(kept, q) \in Nat
                /\ Times(<<j>>, q) \in Nat /\ Times(Untested', q) \in Nat
                /\ Times(Untested, q) = Times(<<j>>, q) + Times(Untested', q)
  BY <1>1, <1>3, NextColumn
<1>5. /\ row \in Nodes /\ row \in Rows /\ kept \in Seq(Nodes)
      /\ IsLeaf(row) => kept \in Seq(LeafNodes)
  BY <1>1, VisitFacts
<1> HIDE DEF j
<1>6. /\ isFar \in BOOLEAN
      /\ DOMAIN verdict' \subseteq Nodes \X Nodes /\ verdict' \in [DOMAIN verdict' -> BOOLEAN]
  <2>1. DOMAIN verdict \subseteq Nodes \X Nodes /\ verdict \in [DOMAIN verdict -> BOOLEAN]
    BY <1>1 DEF TypeOK
  <2>2. isFar \in BOOLEAN
    BY <2>1, <1>2 DEF Verdicts
  <2> DEFINE pairs == IF ~VerdictsMirror \/ row = j \/ <<j, row>> \in DOMAIN verdict
                      THEN DOMAIN verdict \ {<<j, row>>}
                      ELSE DOMAIN verdict \cup {<<row, j>>}
  <2>3. verdict' = [pair \in pairs |-> IF pair = <<row, j>> THEN isFar ELSE verdict[pair]]
    BY <1>2 DEF Remember
  <2>4. pairs \subseteq DOMAIN verdict \cup {<<row, j>>}
    OBVIOUS
  <2> HIDE DEF pairs
  <2>5. DOMAIN verdict' = pairs /\ pairs \subseteq Nodes \X Nodes
    BY <1>4, <1>5, <2>1, <2>3, <2>4
  <2>6. \A pair \in pairs : verdict'[pair] \in BOOLEAN
    BY <2>1, <2>2, <2>3, <2>4
  <2> QED BY <2>2, <2>3, <2>5, <2>6
\* The three things that may happen to the column.
<1> DEFINE Cover ==
             \A p, q \in Particles :
               /\ IsFiniteSet(FarHeld(p, q)')
               /\ p \notin Positions(row) => InFar(p, q)' = InFar(p, q)
               /\ p \in Positions(row) =>
                    InFar(p, q)' + (Times(kept', q) + Times(stack', q) + Times(Untested', q)) = 1
<1>7. CASE IsLeaf(row)
  <2>1. stack' = <<j>> /\ farBelow' = isFar /\ kept' = kept /\ farMat' = farMat
    BY <1>2, <1>7 DEF TestOfLeafRow
  <2>2. stack' \in Seq(Nodes)
    BY <1>4, <2>1
  <2>3. Cover
    <3> SUFFICES ASSUME NEW p \in Particles, NEW q \in Particles
        PROVE  /\ IsFiniteSet(FarHeld(p, q)')
               /\ InFar(p, q)' = InFar(p, q)
               /\ p \in Positions(row) =>
                    InFar(p, q)' + (Times(kept', q) + Times(stack', q) + Times(Untested', q)) = 1
      OBVIOUS
    <3>1. FarHeld(p, q)' = FarHeld(p, q) /\ InFar(p, q)' = InFar(p, q)
      BY <1>3, <2>1, SameFar
    <3>2. /\ IsFiniteSet(FarHeld(p, q)) /\ InFar(p, q) \in Nat
          /\ p \in Positions(row) =>
               InFar(p, q) + (Times(kept, q) + Times(stack, q) + Times(Untested, q)) = 1
      BY <1>1, CoverNow
    <3> QED BY <1>4, <2>1, <3>1, <3>2
  <2> QED BY <1>1, <1>3, <1>4, <1>5, <1>6, <1>7, <2>1, <2>2, <2>3, InsideRow
<1>8. CASE ~IsLeaf(row) /\ isFar /\ Size(row) < MaxSize /\ Size(j) < MaxSize
  <2>1. /\ farMat' = [farMat EXCEPT ![row] = @ \o <<j>>] /\ kept' = kept
        /\ stack' = stack /\ farBelow' = farBelow
    BY <1>2, <1>8 DEF TestOfInnerRow, AddFar, descent
  <2>2. stack' \in Seq(Nodes) /\ farBelow' \in BOOLEAN
    BY <1>1, <2>1 DEF TypeOK
  <2>3. Cover
    <3> SUFFICES ASSUME NEW p \in Particles, NEW q \in Particles
        PROVE  /\ IsFiniteSet(FarHeld(p, q)')
               /\ p \notin Positions(row) => InFar(p, q)' = InFar(p, q)
               /\ p \in Positions(row) =>
                    InFar(p, q)' + (Times(kept', q) + Times(stack', q) + Times(Untested', q)) = 1
      OBVIOUS
    <3>1. /\ IsFiniteSet(FarHeld(p, q)') /\ InFar(p, q) \in Nat
          /\ InFar(p, q)' = InFar(p, q) + (IF p \in Positions(row) THEN Times(<<j>>, q) ELSE 0)
      <4>1. IsFiniteSet(FarHeld(p, q))
        BY <1>1, CoverNow
      <4> QED BY <1>1, <1>3, <1>5, <2>1, <4>1, FarGrows
    <3>2. /\ IsFiniteSet(FarHeld(p, q)) /\ InFar(p, q) \in Nat
          /\ p \in Positions(row) =>
               InFar(p, q) + (Times(kept, q) + Times(stack, q) + Times(Untested, q)) = 1
      BY <1>1, CoverNow
    <3> QED BY <1>4, <2>1, <3>1, <3>2
  <2> QED BY <1>1, <1>3, <1>4, <1>5, <1>6, <1>8, <2>1, <2>2, <2>3, InsideRow
<1>9. CASE ~IsLeaf(row) /\ ~(isFar /\ Size(row) < MaxSize /\ Size(j) < MaxSize)
  <2> DEFINE s == IF IsLeaf(j) THEN <<j>> ELSE Below(j)
  <2>1. kept' = kept \o s /\ farMat' = farMat /\ stack' = stack /\ farBelow' = farBelow
    BY <1>2, <1>9 DEF TestOfInnerRow, Keep, Below, descent
  <2>2. s \in Seq(Nodes) /\ \A q : Times(s, q) = Times(<<j>>, q)
    <3>1. <<j>> \in Seq(Nodes)
      BY <1>4
    <3>2. CASE IsLeaf(j)
      BY <3>1, <3>2
    <3>3. CASE ~IsLeaf(j)
      BY <1>1, <1>4, <3>3, TimesBelow
    <3> QED BY <3>2, <3>3
  <2> HIDE DEF s
  <2>3. stack' \in Seq(Nodes) /\ farBelow' \in BOOLEAN /\ kept' \in Seq(Nodes)
    BY <1>1, <1>5, <2>1, <2>2 DEF TypeOK
  <2>4. Cover
    <3> SUFFICES ASSUME NEW p \in Particles, NEW q \in Particles
        PROVE  /\ IsFiniteSet(FarHeld(p, q)')
               /\ InFar(p, q)' = InFar(p, q)
               /\ p \in Positions(row) =>
                    InFar(p, q)' + (Times(kept', q) + Times(stack', q) + Times(Untested', q)) = 1
      OBVIOUS
    <3>1. FarHeld(p, q)' = FarHeld(p, q) /\ InFar(p, q)' = InFar(p, q)
      BY <1>3, <2>1, SameFar
    <3>2. Times(kept', q) = Times(kept, q) + Times(<<j>>, q)
      <4>1. Times(kept \o s, q) = Times(kept, q) + Times(s, q)
        BY <1>5, <2>2, TimesConcat
      <4> QED BY <2>1, <2>2, <4>1
    <3>3. /\ IsFiniteSet(FarHeld(p, q)) /\ InFar(p, q) \in Nat
          /\ p \in Positions(row) =>
               InFar(p, q) + (Times(kept, q) + Times(stack, q) + Times(Untested, q)) = 1
      BY <1>1, CoverNow
    <3>4. /\ Times(stack', q) = 0 /\ Times(stack, q) = 0 /\ Times(kept, q) \in Nat
          /\ Times(<<j>>, q) \in Nat /\ Times(Untested', q) \in Nat
          /\ Times(Untested, q) = Times(<<j>>, q) + Times(Untested', q)
      BY <1>4, <2>1
    <3> QED BY <3>1, <3>2, <3>3, <3>4
  <2> QED BY <1>1, <1>3, <1>4, <1>5, <1>6, <1>9, <2>1, <2>3, <2>4, InsideRow
<1> QED BY <1>7, <1>8, <1>9

LEMMA DescendInv == ASSUME IInv, Descend PROVE IInv'
<1> DEFINE c == stack[Len(stack)]
           rest == SubSeq(stack, 1, Len(stack) - 1)
<1>1. /\ TypeOK /\ RowInv /\ CoverInv /\ stage = "rows" /\ stack # <<>> /\ row # None
  BY DEF IInv, Descend, RowInv
<1>2. IF StopsAt(c)
      THEN /\ stack' = rest
           /\ IF farBelow THEN AddFar(row, <<c>>) /\ UNCHANGED kept
              ELSE Keep(<<c>>) /\ UNCHANGED farMat
      ELSE stack' = rest \o Below(c) /\ UNCHANGED <<kept, farMat>>
  BY DEF Descend
<1>3. /\ UNCHANGED <<nodeList, row, closeMat, leafList, count, closePairs, farPairs>>
      /\ input' = input /\ stage' = stage /\ closeMat' = closeMat /\ row' = row
      /\ col' = col /\ farBelow' = farBelow /\ verdict' = verdict
  BY DEF Descend, dealVars
<1>4. /\ stack = rest \o <<c>> /\ c \in Nodes /\ rest \in Seq(Nodes) /\ <<c>> \in Seq(Nodes)
  BY <1>1, RestAndTop DEF TypeOK
<1>5. /\ row \in Nodes /\ row \in Rows /\ kept \in Seq(Nodes) /\ IsLeaf(row)
      /\ kept \in Seq(LeafNodes) /\ Size(row) < MaxSize
      /\ col' \in 1 .. Len(closeMat[row]) + 1
  BY <1>1, <1>3, VisitFacts
<1>6. /\ farBelow' \in BOOLEAN /\ DOMAIN verdict' \subseteq Nodes \X Nodes
      /\ verdict' \in [DOMAIN verdict' -> BOOLEAN]
  BY <1>1, <1>3 DEF TypeOK
<1> HIDE DEF c, rest
<1>7. Untested' = Untested
  BY <1>3 DEF Untested
<1>8. ASSUME NEW q
      PROVE  /\ Times(stack, q) = Times(rest, q) + Times(<<c>>, q)
             /\ Times(rest, q) \in Nat /\ Times(<<c>>, q) \in Nat
             /\ Times(kept, q) \in Nat /\ Times(Untested, q) \in Nat
  <2>1. Times(rest \o <<c>>, q) = Times(rest, q) + Times(<<c>>, q)
    BY <1>4, TimesConcat
  <2>2. Untested \in Seq(Nodes)
    <3>1. /\ closeMat[row] \in Seq(Nodes) /\ col \in Nat /\ 1 <= col
          /\ col <= Len(closeMat[row]) + 1 /\ Len(closeMat[row]) \in Nat
      BY <1>1, VisitFacts
    <3>2. CASE col <= Len(closeMat[row])
      BY <3>1, <3>2, FirstAndRest DEF Untested
    <3>3. CASE col = Len(closeMat[row]) + 1
      <4>1. Untested = <<>>
        BY <3>1, <3>3, WholeList DEF Untested
      <4> QED BY <4>1
    <3> QED BY <3>1, <3>2, <3>3
  <2> QED BY <1>4, <1>5, <2>1, <2>2, TimesType
<1> DEFINE Cover ==
             \A p, q \in Particles :
               /\ IsFiniteSet(FarHeld(p, q)')
               /\ p \notin Positions(row) => InFar(p, q)' = InFar(p, q)
               /\ p \in Positions(row) =>
                    InFar(p, q)' + (Times(kept', q) + Times(stack', q) + Times(Untested', q)) = 1
<1>9. CASE StopsAt(c) /\ farBelow
  <2>1. /\ stack' = rest /\ farMat' = [farMat EXCEPT ![row] = @ \o <<c>>] /\ kept' = kept
        /\ Size(c) < MaxSize
    BY <1>2, <1>9 DEF AddFar, StopsAt
  <2>2. Cover
    <3> SUFFICES ASSUME NEW p \in Particles, NEW q \in Particles
        PROVE  /\ IsFiniteSet(FarHeld(p, q)')
               /\ p \notin Positions(row) => InFar(p, q)' = InFar(p, q)
               /\ p \in Positions(row) =>
                    InFar(p, q)' + (Times(kept', q) + Times(stack', q) + Times(Untested', q)) = 1
      OBVIOUS
    <3>1. /\ IsFiniteSet(FarHeld(p, q)') /\ InFar(p, q) \in Nat
          /\ InFar(p, q)' = InFar(p, q) + (IF p \in Positions(row) THEN Times(<<c>>, q) ELSE 0)
      <4>1. IsFiniteSet(FarHeld(p, q))
        BY <1>1, CoverNow
      <4> QED BY <1>1, <1>3, <1>5, <2>1, <4>1, FarGrows
    <3>2. p \in Positions(row) =>
            InFar(p, q) + (Times(kept, q) + Times(stack, q) + Times(Untested, q)) = 1
      BY <1>1, CoverNow
    <3>3. /\ Times(stack', q) = Times(rest, q) /\ Times(kept', q) = Times(kept, q)
          /\ Times(Untested', q) = Times(Untested, q)
          /\ Times(stack, q) = Times(rest, q) + Times(<<c>>, q)
          /\ Times(rest, q) \in Nat /\ Times(<<c>>, q) \in Nat
          /\ Times(kept, q) \in Nat /\ Times(Untested, q) \in Nat
      BY <1>7, <1>8, <2>1
    <3> QED BY <3>1, <3>2, <3>3
  <2> QED BY <1>1, <1>3, <1>4, <1>5, <1>6, <2>1, <2>2, InsideRow
<1>10. CASE StopsAt(c) /\ ~farBelow
  <2>1. stack' = rest /\ kept' = kept \o <<c>> /\ farMat' = farMat /\ IsLeaf(c)
    BY <1>2, <1>10 DEF Keep, StopsAt
  <2>2. kept' \in Seq(LeafNodes) /\ kept' \in Seq(Nodes)
    <3>1. <<c>> \in Seq(LeafNodes)
      BY <1>4, <2>1 DEF LeafNodes
    <3> QED BY <1>4, <1>5, <2>1, <3>1
  <2>3. Cover
    <3> SUFFICES ASSUME NEW p \in Particles, NEW q \in Particles
        PROVE  /\ IsFiniteSet(FarHeld(p, q)')
               /\ InFar(p, q)' = InFar(p, q)
               /\ p \in Positions(row) =>
                    InFar(p, q)' + (Times(kept', q) + Times(stack', q) + Times(Untested', q)) = 1
      OBVIOUS
    <3>1. FarHeld(p, q)' = FarHeld(p, q) /\ InFar(p, q)' = InFar(p, q)
      BY <1>3, <2>1, SameFar
    <3>2. /\ IsFiniteSet(FarHeld(p, q)) /\ InFar(p, q) \in Nat
          /\ p \in Positions(row) =>
               InFar(p, q) + (Times(kept, q) + Times(stack, q) + Times(Untested, q)) = 1
      BY <1>1, CoverNow
    <3>3. Times(kept', q) = Times(kept, q) + Times(<<c>>, q)
      <4>1. Times(kept \o <<c>>, q) = Times(kept, q) + Times(<<c>>, q)
        BY <1>4, <1>5, TimesConcat
      <4> QED BY <2>1, <4>1
    <3> QED BY <1>7, <1>8, <2>1, <3>1, <3>2, <3>3
  <2> QED BY <1>1, <1>3, <1>4, <1>5, <1>6, <2>1, <2>2, <2>3, InsideRow
<1>11. CASE ~StopsAt(c)
  <2>1. stack' = rest \o Below(c) /\ kept' = kept /\ farMat' = farMat /\ ~IsLeaf(c)
    <3>1. ~IsLeaf(c)
      BY <1>1, <1>4, <1>11, TreeFacts DEF StopsAt
    <3> QED BY <1>2, <1>11, <3>1
  <2>2. Below(c) \in Seq(Nodes) /\ \A q : Times(Below(c), q) = Times(<<c>>, q)
    BY <1>1, <1>4, <2>1, TimesBelow
  <2>3. stack' \in Seq(Nodes)
    BY <1>4, <2>1, <2>2
  <2>4. Cover
    <3> SUFFICES ASSUME NEW p \in Particles, NEW q \in Particles
        PROVE  /\ IsFiniteSet(FarHeld(p, q)')
               /\ InFar(p, q)' = InFar(p, q)
               /\ p \in Positions(row) =>
                    InFar(p, q)' + (Times(kept', q) + Times(stack', q) + Times(Untested', q)) = 1
      OBVIOUS
    <3>1. FarHeld(p, q)' = FarHeld(p, q) /\ InFar(p, q)' = InFar(p, q)
      BY <1>3, <2>1, SameFar
    <3>2. /\ IsFiniteSet(FarHeld(p, q)) /\ InFar(p, q) \in Nat
          /\ p \in Positions(row) =>
               InFar(p, q) + (Times(kept, q) + Times(stack, q) + Times(Untested, q)) = 1
      BY <1>1, CoverNow
    <3>3. Times(stack', q) = Times(stack, q)
      <4>1. Times(rest \o Below(c), q) = Times(rest, q) + Times(Below(c), q)
        BY <1>4, <2>2, TimesConcat
      <4> QED BY <1>8, <2>1, <2>2, <4>1
    <3> QED BY <1>7, <2>1, <3>1, <3>2, <3>3
  <2> QED BY <1>1, <1>3, <1>5, <1>6, <2>1, <2>3, <2>4, InsideRow
<1> QED BY <1>9, <1>10, <1>11

\* The columns of a row that ends are those that were kept.
LEMMA EndOfRow ==
  ASSUME IInv, EndRow, NEW p \in Particles, NEW q \in Particles
  PROVE  /\ IsFiniteSet(FarHeld(p, q)') /\ InFar(p, q)' = InFar(p, q)
         /\ p \in Positions(row) => InFar(p, q)' + Times(kept, q) = 1
<1>1. /\ CoverInv /\ stage = "rows" /\ row # None /\ stack = <<>> /\ col > Len(closeMat[row])
      /\ input' = input /\ farMat' = farMat
  BY DEF IInv, EndRow
<1>2. /\ closeMat[row] \in Seq(Nodes) /\ col \in Nat /\ col <= Len(closeMat[row]) + 1
      /\ Len(closeMat[row]) \in Nat /\ kept \in Seq(Nodes)
  BY <1>1, VisitFacts
<1>3. Untested = <<>>
  <2>1. col = Len(closeMat[row]) + 1
    BY <1>1, <1>2
  <2> QED BY <1>2, <2>1, WholeList DEF Untested
<1>4. Times(stack, q) = 0 /\ Times(Untested, q) = 0 /\ Times(kept, q) \in Nat
  BY <1>1, <1>2, <1>3, TimesEmpty, TimesType
<1>5. FarHeld(p, q)' = FarHeld(p, q) /\ InFar(p, q)' = InFar(p, q)
  BY <1>1, SameFar
<1>6. /\ IsFiniteSet(FarHeld(p, q)) /\ InFar(p, q) \in Nat
      /\ p \in Positions(row) =>
           InFar(p, q) + (Times(kept, q) + Times(stack, q) + Times(Untested, q)) = 1
  BY <1>1, CoverNow
<1> QED BY <1>4, <1>5, <1>6

\* The current row is none of the rows that wait, and neither are its children.
LEMMA OutsideWaiting ==
  ASSUME IInv, stage = "rows", row # None, NEW c \in Nodes, Positions(c) \subseteq Positions(row)
  PROVE  \A i \in Waiting : i # c /\ Apart(c, i) /\ Apart(i, c)
<1>1. TypeOK /\ FrontierInv
  BY DEF IInv
<1>2. \A i \in Waiting : Apart(c, i) /\ Apart(i, c)
  BY <1>1 DEF FrontierInv, Apart
<1> QED BY <1>1, <1>2, ApartDiffer

\* What every EndRow leaves alone.
LEMMA EndRowFacts ==
  ASSUME IInv, EndRow
  PROVE  /\ TypeOK /\ RowInv /\ LeafInv /\ FarInv /\ FarBlocksFit /\ FrontierInv
         /\ stage = "rows" /\ row # None /\ stack = <<>> /\ row \in Nodes /\ row \in Rows
         /\ kept \in Seq(Nodes)
         /\ IsLeaf(row) => kept \in Seq(LeafNodes)
         /\ input' = input /\ stage' = stage /\ stack' = stack /\ farBelow' = farBelow
         /\ farMat' = farMat /\ verdict' = verdict /\ count' = count
         /\ closePairs' = closePairs /\ farPairs' = farPairs
         /\ row' = None /\ col' = 0 /\ kept' = <<>>
         /\ RowInv' /\ FarInv' /\ FarBlocksFit'
<1>1. /\ TypeOK /\ RowInv /\ LeafInv /\ FarInv /\ FarBlocksFit /\ FrontierInv
      /\ stage = "rows" /\ row # None /\ stack = <<>>
  BY DEF IInv, EndRow
<1>2. /\ input' = input /\ stage' = stage /\ stack' = stack /\ farBelow' = farBelow
      /\ farMat' = farMat /\ verdict' = verdict /\ count' = count
      /\ closePairs' = closePairs /\ farPairs' = farPairs
      /\ row' = None /\ col' = 0 /\ kept' = <<>>
  BY DEF EndRow, descent, dealVars
<1>3. /\ row \in Nodes /\ row \in Rows /\ kept \in Seq(Nodes)
      /\ IsLeaf(row) => kept \in Seq(LeafNodes)
  BY <1>1, VisitFacts
<1>4. RowInv'
  BY <1>1, <1>2 DEF RowInv
<1>5. FarInv'
  BY <1>1, <1>2, SameTree DEF FarInv
<1>6. FarBlocksFit'
  <2>1. Tree' = Tree /\ MaxSize' = MaxSize
    BY <1>2, SameTree
  <2> QED BY <1>1, <1>2, <2>1 DEF FarBlocksFit, Elements, Size
<1> QED BY <1>1, <1>2, <1>3, <1>4, <1>5, <1>6

LEMMA EndLeafRow == ASSUME IInv, EndRow, IsLeaf(row) PROVE IInv'
<1>1. /\ TypeOK /\ LeafInv /\ FrontierInv
      /\ stage = "rows" /\ row # None /\ stack = <<>> /\ row \in Nodes /\ row \in Rows
      /\ kept \in Seq(Nodes) /\ kept \in Seq(LeafNodes)
      /\ input' = input /\ stage' = stage /\ stack' = stack /\ farBelow' = farBelow
      /\ farMat' = farMat /\ verdict' = verdict /\ count' = count
      /\ closePairs' = closePairs /\ farPairs' = farPairs
      /\ row' = None /\ col' = 0 /\ kept' = <<>>
      /\ RowInv' /\ FarInv' /\ FarBlocksFit'
  BY EndRowFacts
<1>2. /\ closeMat' = [closeMat EXCEPT ![row] = kept] /\ leafList' = Append(leafList, row)
      /\ nodeList' = nodeList
  BY DEF EndRow
<1>3. /\ closeMat' \in [Rows -> Seq(Nodes)] /\ closeMat'[row] = kept
      /\ \A i \in Rows : i # row => closeMat'[i] = closeMat[i]
  BY <1>1, <1>2 DEF TypeOK
<1>4. row \in LeafNodes /\ leafList \in Seq(LeafNodes) /\ leafList' \in Seq(LeafNodes)
  BY <1>1, <1>2 DEF TypeOK, LeafNodes
<1>5. TypeOK'
  BY <1>1, <1>2, <1>3, <1>4, SameTree DEF TypeOK
<1>6. Elements(leafList') = Elements(leafList) \cup {row} /\ Waiting' = Waiting \cup {row}
  <2>1. \A x : x \in Elements(leafList') <=> x \in Elements(leafList) \/ x = row
    <3>1. /\ DOMAIN leafList' = DOMAIN leafList \cup {Len(leafList) + 1}
          /\ \A k \in DOMAIN leafList : leafList'[k] = leafList[k]
          /\ leafList'[Len(leafList) + 1] = row
      BY <1>2, <1>4
    <3> QED BY <3>1 DEF Elements
  <2> QED BY <1>2, <2>1 DEF Waiting, Elements
<1>7. \A i \in Waiting : i # row /\ Apart(row, i) /\ Apart(i, row) /\ i \in Rows
  BY <1>1, OutsideWaiting, WaitingNodes
<1>8. LeafInv'
  <2>1. \A i \in Elements(leafList') : closeMat'[i] \in Seq(LeafNodes)
    BY <1>1, <1>3, <1>6, <1>7 DEF LeafInv, Waiting
  <2>2. LeafNodes' = LeafNodes
    BY <1>1, SameTree
  <2> QED BY <2>1, <2>2 DEF LeafInv, Elements
<1>9. FrontierInv'
  <2>1. \A k, l \in DOMAIN nodeList' : k # l => Apart(nodeList'[k], nodeList'[l])
    BY <1>1, <1>2 DEF FrontierInv
  <2>2. \A k \in DOMAIN nodeList' : \A i \in Elements(leafList') : Apart(nodeList'[k], i)
    <3>1. \A k \in DOMAIN nodeList : nodeList[k] \in Waiting
      BY DEF Waiting, Elements
    <3> QED BY <1>1, <1>2, <1>6, <1>7, <3>1 DEF FrontierInv
  <2>3. \A i, j \in Elements(leafList') : i # j => Apart(i, j)
    BY <1>1, <1>6, <1>7 DEF FrontierInv, Waiting
  <2>4. \A p \in Particles : \E i \in Waiting' : p \in Positions(i)
    BY <1>1, <1>6 DEF FrontierInv
  <2> QED BY <1>1, <2>1, <2>2, <2>3, <2>4, FrontierNext
<1>10. CoverInv'
  <2>1. ASSUME NEW p \in Particles, NEW q \in Particles
        PROVE  /\ IsFiniteSet(FarHeld(p, q)')
               /\ \A i \in Waiting' :
                    p \in Positions(i) => InFar(p, q)' + Times(closeMat'[i], q) = 1
    <3>1. /\ IsFiniteSet(FarHeld(p, q)') /\ InFar(p, q)' = InFar(p, q)
          /\ p \in Positions(row) => InFar(p, q)' + Times(kept, q) = 1
      BY EndOfRow
    <3>2. \A i \in Waiting : p \in Positions(i) => InFar(p, q) + Times(closeMat[i], q) = 1
      BY <1>1, CoverNow DEF IInv
    <3> QED BY <1>3, <1>6, <1>7, <3>1, <3>2
  <2> QED BY <1>1, <2>1, CoverNext
<1> QED BY <1>1, <1>5, <1>8, <1>9, <1>10 DEF IInv

LEMMA EndInnerRow == ASSUME IInv, EndRow, ~IsLeaf(row) PROVE IInv'
<1> DEFINE l == Tree[row].left
           r == Tree[row].right
<1>1. /\ TypeOK /\ LeafInv /\ FrontierInv
      /\ stage = "rows" /\ row # None /\ stack = <<>> /\ row \in Nodes /\ row \in Rows
      /\ kept \in Seq(Nodes)
      /\ input' = input /\ stage' = stage /\ stack' = stack /\ farBelow' = farBelow
      /\ farMat' = farMat /\ verdict' = verdict /\ count' = count
      /\ closePairs' = closePairs /\ farPairs' = farPairs
      /\ row' = None /\ col' = 0 /\ kept' = <<>>
      /\ RowInv' /\ FarInv' /\ FarBlocksFit'
  BY EndRowFacts
<1>2. /\ closeMat' = [closeMat EXCEPT ![l] = kept, ![r] = kept]
      /\ nodeList' = nodeList \o <<l, r>> /\ leafList' = leafList
  BY DEF EndRow
<1>3. /\ l \in Nodes /\ r \in Nodes /\ Positions(l) \cup Positions(r) = Positions(row)
      /\ Apart(l, r)
  BY <1>1, Children
<1> HIDE DEF l, r
<1>4. l \in Rows /\ r \in Rows /\ Apart(r, l)
  BY <1>1, <1>3, TreeFacts DEF Apart
<1>5. /\ closeMat' \in [Rows -> Seq(Nodes)] /\ closeMat'[l] = kept /\ closeMat'[r] = kept
      /\ \A i \in Rows : i # l /\ i # r => closeMat'[i] = closeMat[i]
  <2>1. closeMat \in [Rows -> Seq(Nodes)]
    BY <1>1 DEF TypeOK
  <2> QED BY <1>1, <1>2, <1>4, <2>1
<1>6. /\ nodeList \in Seq(Nodes) /\ nodeList' \in Seq(Nodes) /\ Len(nodeList) \in Nat
      /\ DOMAIN nodeList' = DOMAIN nodeList \cup {Len(nodeList) + 1, Len(nodeList) + 2}
      /\ Len(nodeList) + 1 \notin DOMAIN nodeList /\ Len(nodeList) + 2 \notin DOMAIN nodeList
      /\ \A k \in DOMAIN nodeList : nodeList'[k] = nodeList[k]
      /\ nodeList'[Len(nodeList) + 1] = l /\ nodeList'[Len(nodeList) + 2] = r
  <2>1. nodeList \in Seq(Nodes)
    BY <1>1 DEF TypeOK
  <2>2. Len(nodeList) \in Nat /\ DOMAIN nodeList = 1 .. Len(nodeList)
    BY <2>1
  <2>3. /\ nodeList' \in Seq(Nodes) /\ DOMAIN nodeList' = 1 .. Len(nodeList) + 2
        /\ \A k \in 1 .. Len(nodeList) : nodeList'[k] = nodeList[k]
        /\ nodeList'[Len(nodeList) + 1] = l /\ nodeList'[Len(nodeList) + 2] = r
    BY <1>2, <1>3, <2>1
  <2> QED BY <2>1, <2>2, <2>3
<1>7. TypeOK'
  BY <1>1, <1>2, <1>5, <1>6, SameTree DEF TypeOK
<1>8. Elements(leafList') = Elements(leafList) /\ Waiting' = Waiting \cup {l, r}
  <2>1. Elements(nodeList') = Elements(nodeList) \cup {l, r}
    BY <1>6 DEF Elements
  <2> QED BY <1>2, <2>1 DEF Waiting, Elements
<1>9. \A i \in Waiting : /\ i # l /\ i # r /\ i \in Rows
                         /\ Apart(l, i) /\ Apart(i, l) /\ Apart(r, i) /\ Apart(i, r)
  BY <1>1, <1>3, OutsideWaiting, WaitingNodes
<1>10. LeafInv'
  <2>1. \A i \in Elements(leafList') : closeMat'[i] \in Seq(LeafNodes)
    BY <1>1, <1>5, <1>8, <1>9 DEF LeafInv, Waiting
  <2>2. LeafNodes' = LeafNodes
    BY <1>1, SameTree
  <2> QED BY <2>1, <2>2 DEF LeafInv, Elements
<1>11. FrontierInv'
  <2>1. \A k \in DOMAIN nodeList : nodeList[k] \in Waiting
    BY DEF Waiting, Elements
  <2>2. \A k, m \in DOMAIN nodeList' : k # m => Apart(nodeList'[k], nodeList'[m])
    <3> SUFFICES ASSUME NEW k \in DOMAIN nodeList', NEW m \in DOMAIN nodeList', k # m
                 PROVE  Apart(nodeList'[k], nodeList'[m])
      OBVIOUS
    <3>1. CASE k \in DOMAIN nodeList /\ m \in DOMAIN nodeList
      BY <1>1, <1>6, <3>1 DEF FrontierInv
    <3>2. CASE k \in DOMAIN nodeList /\ m \notin DOMAIN nodeList
      BY <1>6, <1>9, <2>1, <3>2
    <3>3. CASE k \notin DOMAIN nodeList /\ m \in DOMAIN nodeList
      BY <1>6, <1>9, <2>1, <3>3
    <3>4. CASE k \notin DOMAIN nodeList /\ m \notin DOMAIN nodeList
      BY <1>3, <1>4, <1>6, <3>4
    <3> QED BY <3>1, <3>2, <3>3, <3>4
  <2>3. \A k \in DOMAIN nodeList' : \A i \in Elements(leafList') : Apart(nodeList'[k], i)
    <3>1. \A i \in Elements(leafList) : i \in Waiting
      BY DEF Waiting
    <3> QED BY <1>1, <1>6, <1>8, <1>9, <3>1 DEF FrontierInv
  <2>4. \A i, j \in Elements(leafList') : i # j => Apart(i, j)
    BY <1>1, <1>8 DEF FrontierInv
  <2>5. \A p \in Particles : \E i \in Waiting' : p \in Positions(i)
    BY <1>1, <1>3, <1>8 DEF FrontierInv
  <2> QED BY <1>1, <2>2, <2>3, <2>4, <2>5, FrontierNext
<1>12. CoverInv'
  <2>1. ASSUME NEW p \in Particles, NEW q \in Particles
        PROVE  /\ IsFiniteSet(FarHeld(p, q)')
               /\ \A i \in Waiting' :
                    p \in Positions(i) => InFar(p, q)' + Times(closeMat'[i], q) = 1
    <3>1. /\ IsFiniteSet(FarHeld(p, q)') /\ InFar(p, q)' = InFar(p, q)
          /\ p \in Positions(row) => InFar(p, q)' + Times(kept, q) = 1
      BY EndOfRow
    <3>2. \A i \in Waiting : p \in Positions(i) => InFar(p, q) + Times(closeMat[i], q) = 1
      BY <1>1, CoverNow DEF IInv
    <3>3. p \in Positions(l) \/ p \in Positions(r) => p \in Positions(row)
      BY <1>3
    <3> QED BY <1>5, <1>8, <1>9, <3>1, <3>2, <3>3
  <2> QED BY <1>1, <2>1, CoverNext
<1> QED BY <1>1, <1>7, <1>10, <1>11, <1>12 DEF IInv

-----------------------------------------------------------------------------
(* Dealing the pairs out *)

\* After the visits only the lists and their types matter.
LEMMA Dealing ==
  ASSUME IInv, stage' # "rows", input' = input,
         UNCHANGED <<nodeList, kept, stack, farBelow, closeMat, farMat, leafList>>,
         TypeOK', RowInv', FarBlocksFit'
  PROVE  IInv'
<1>1. LeafNodes' = LeafNodes /\ MaxSize' = MaxSize /\ Tree' = Tree /\ Rows' = Rows /\ Nodes' = Nodes
  BY SameTree
<1>2. LeafInv'
  BY <1>1 DEF IInv, LeafInv, Elements
<1>3. FarInv'
  BY <1>1 DEF IInv, FarInv, Size
<1>4. FrontierInv' /\ CoverInv'
  BY DEF FrontierInv, CoverInv
<1> QED BY <1>2, <1>3, <1>4 DEF IInv

LEMMA EndRowsInv == ASSUME IInv, EndRows PROVE IInv'
<1>1. TypeOK /\ FarBlocksFit
  BY DEF IInv
<1>2. /\ stage' = "close" /\ row' = 1 /\ col' = 1 /\ verdict' = <<>> /\ input' = input
      /\ UNCHANGED <<nodeList, kept, stack, farBelow, closeMat, farMat, leafList>>
      /\ count' = count /\ closePairs' = closePairs /\ farPairs' = farPairs
  BY DEF EndRows, descent, dealVars
<1>3. DOMAIN verdict' \subseteq Nodes \X Nodes /\ verdict' \in [DOMAIN verdict' -> BOOLEAN]
  <2>1. DOMAIN verdict' = {} /\ <<>> \in [{} -> BOOLEAN]
    BY <1>2
  <2> QED BY <1>2, <2>1
<1>4. TypeOK'
  BY <1>1, <1>2, <1>3, SameTree DEF TypeOK
<1>5. RowInv'
  BY <1>2 DEF RowInv
<1>6. FarBlocksFit'
  <2>1. Tree' = Tree /\ MaxSize' = MaxSize
    BY <1>2, SameTree
  <2> QED BY <1>1, <1>2, <2>1 DEF FarBlocksFit, Elements, Size
<1> QED BY <1>2, <1>4, <1>5, <1>6, Dealing

\* One pair more for one of the ranks.
LEMMA DealFacts ==
  ASSUME NEW S, NEW pairs \in [Ranks -> Seq(S)], NEW i, NEW j, <<i, j>> \in S
  PROVE  /\ Deal(pairs, i, j) \in [Ranks -> Seq(S)]
         /\ \A rank \in Ranks : \A pair \in Elements(Deal(pairs, i, j)[rank]) :
              pair = <<i, j>> \/ pair \in Elements(pairs[rank])
<1>1. ASSUME NEW rank \in Ranks
      PROVE  \/ Deal(pairs, i, j)[rank] = pairs[rank]
             \/ Deal(pairs, i, j)[rank] = Append(pairs[rank], <<i, j>>)
  BY DEF Deal
<1>2. ASSUME NEW rank \in Ranks
      PROVE  /\ pairs[rank] \in Seq(S) /\ Append(pairs[rank], <<i, j>>) \in Seq(S)
             /\ \A pair \in Elements(Append(pairs[rank], <<i, j>>)) :
                  pair = <<i, j>> \/ pair \in Elements(pairs[rank])
  <2>1. pairs[rank] \in Seq(S)
    OBVIOUS
  <2>2. /\ Append(pairs[rank], <<i, j>>) \in Seq(S)
        /\ \A k \in DOMAIN Append(pairs[rank], <<i, j>>) :
             \/ Append(pairs[rank], <<i, j>>)[k] = <<i, j>>
             \/ k \in DOMAIN pairs[rank] /\ Append(pairs[rank], <<i, j>>)[k] = pairs[rank][k]
    BY <2>1
  <2> QED BY <2>1, <2>2 DEF Elements
<1>3. Deal(pairs, i, j) \in [Ranks -> Seq(S)]
  <2>1. Deal(pairs, i, j) = [rank \in Ranks |-> Deal(pairs, i, j)[rank]]
    BY DEF Deal
  <2> QED BY <1>1, <1>2, <2>1
<1> QED BY <1>1, <1>2, <1>3

LEMMA DealCloseInv == ASSUME IInv, DealClose PROVE IInv'
<1>1. TypeOK /\ RowInv /\ LeafInv /\ FarBlocksFit
  BY DEF IInv
<1>2. /\ stage = "close" /\ row \in Nat /\ row # 0 /\ row <= Len(leafList) /\ col \in Nat \ {0}
      /\ input' = input /\ stage' = stage
      /\ UNCHANGED <<nodeList, kept, stack, farBelow, closeMat, farMat, leafList>>
      /\ verdict' = verdict /\ farPairs' = farPairs
  BY <1>1 DEF DealClose, RowInv, descent
<1> DEFINE i == leafList[row]
           j == closeMat[i][col]
<1>3. row \in DOMAIN leafList /\ i \in LeafNodes /\ closeMat[i] \in Seq(LeafNodes)
  <2>1. leafList \in Seq(LeafNodes)
    BY <1>1 DEF TypeOK
  <2>2. row \in DOMAIN leafList /\ i \in LeafNodes
    BY <1>2, <2>1
  <2> QED BY <1>1, <2>2 DEF LeafInv, Elements
<1>4. ASSUME col <= Len(closeMat[i])
      PROVE  /\ closePairs' \in [Ranks -> Seq(LeafNodes \X LeafNodes)] /\ count' \in Nat
             /\ row' \in Nat /\ row' # 0 /\ col' \in Nat \ {0}
  <2>1. j \in LeafNodes
    BY <1>2, <1>3, <1>4
  <2>2. /\ closePairs' = IF IsKept(i, j) THEN Deal(closePairs, i, j) ELSE closePairs
        /\ count' = count + 1 /\ col' = col + 1 /\ row' = row
    BY <1>4 DEF DealClose
  <2>3. closePairs \in [Ranks -> Seq(LeafNodes \X LeafNodes)] /\ count \in Nat
    BY <1>1 DEF TypeOK
  <2>4. Deal(closePairs, i, j) \in [Ranks -> Seq(LeafNodes \X LeafNodes)]
    <3>1. <<i, j>> \in LeafNodes \X LeafNodes
      BY <1>3, <2>1
    <3> HIDE DEF i, j
    <3> QED BY <2>3, <3>1, DealFacts
  <2> QED BY <1>2, <2>2, <2>3, <2>4
<1>5. ASSUME ~(col <= Len(closeMat[i]))
      PROVE  /\ closePairs' \in [Ranks -> Seq(LeafNodes \X LeafNodes)] /\ count' \in Nat
             /\ row' \in Nat /\ row' # 0 /\ col' \in Nat \ {0}
  <2>1. row' = row + 1 /\ col' = 1 /\ count' = count /\ closePairs' = closePairs
    BY <1>5 DEF DealClose
  <2> QED BY <1>1, <1>2, <2>1 DEF TypeOK
<1>6. /\ closePairs' \in [Ranks -> Seq(LeafNodes \X LeafNodes)] /\ count' \in Nat
      /\ row' \in Nat /\ row' # 0 /\ col' \in Nat \ {0}
  BY <1>4, <1>5
<1> HIDE DEF i, j
<1>7. TypeOK'
  BY <1>1, <1>2, <1>6, SameTree DEF TypeOK
<1>8. RowInv'
  BY <1>2, <1>6 DEF RowInv
<1>9. FarBlocksFit'
  <2>1. Tree' = Tree /\ MaxSize' = MaxSize
    BY <1>2, SameTree
  <2> QED BY <1>1, <1>2, <2>1 DEF FarBlocksFit, Elements, Size
<1> QED BY <1>2, <1>7, <1>8, <1>9, Dealing

LEMMA EndCloseInv == ASSUME IInv, EndClose PROVE IInv'
<1>1. TypeOK /\ FarBlocksFit
  BY DEF IInv
<1>2. /\ stage' = "far" /\ row' = 0 /\ col' = 1 /\ count' = 0 /\ input' = input
      /\ UNCHANGED <<nodeList, kept, stack, farBelow, closeMat, farMat, leafList>>
      /\ verdict' = verdict /\ closePairs' = closePairs /\ farPairs' = farPairs
  BY DEF EndClose, descent
<1>3. TypeOK'
  BY <1>1, <1>2, SameTree DEF TypeOK
<1>4. RowInv'
  BY <1>2 DEF RowInv
<1>5. FarBlocksFit'
  <2>1. Tree' = Tree /\ MaxSize' = MaxSize
    BY <1>2, SameTree
  <2> QED BY <1>1, <1>2, <2>1 DEF FarBlocksFit, Elements, Size
<1> QED BY <1>2, <1>3, <1>4, <1>5, Dealing

LEMMA DealFarInv == ASSUME IInv, DealFar PROVE IInv'
<1>1. TypeOK /\ RowInv /\ FarInv /\ FarBlocksFit
  BY DEF IInv
<1>2. /\ stage = "far" /\ row \in Rows /\ row \in Nat /\ col \in Nat \ {0}
      /\ input' = input /\ stage' = stage
      /\ UNCHANGED <<nodeList, kept, stack, farBelow, closeMat, farMat, leafList>>
      /\ verdict' = verdict /\ closePairs' = closePairs
  BY <1>1 DEF DealFar, RowInv, descent
<1>3. /\ farMat[row] \in Seq(Nodes) /\ farPairs \in [Ranks -> Seq(Nodes \X Nodes)]
      /\ count \in Nat
  BY <1>1, <1>2 DEF TypeOK
<1> DEFINE j == farMat[row][col]
           Fits(pair) == Size(pair[1]) < MaxSize /\ Size(pair[2]) < MaxSize
<1>4. \A rank \in Ranks : \A pair \in Elements(farPairs[rank]) : Fits(pair)
  BY <1>1 DEF FarBlocksFit
<1> DEFINE Goal == /\ farPairs' \in [Ranks -> Seq(Nodes \X Nodes)] /\ count' \in Nat
                   /\ row' \in Nat /\ col' \in Nat \ {0}
                   /\ \A rank \in Ranks : \A pair \in Elements(farPairs'[rank]) : Fits(pair)
<1>5. ASSUME col <= Len(farMat[row]) PROVE Goal
  <2>1. col \in DOMAIN farMat[row] /\ j \in Nodes
    BY <1>2, <1>3, <1>5
  <2>2. row \in Nodes /\ Size(row) < MaxSize /\ Size(j) < MaxSize
    BY <1>1, <1>2, <2>1 DEF FarInv
  <2>3. /\ farPairs' = IF IsKept(row, j) THEN Deal(farPairs, row, j) ELSE farPairs
        /\ count' = FarCount(row, j) /\ col' = col + 1 /\ row' = row
    BY <1>5 DEF DealFar
  <2> HIDE DEF j
  <2>4. Fits(<<row, j>>) /\ <<row, j>> \in Nodes \X Nodes
    BY <2>1, <2>2
  <2>5. /\ Deal(farPairs, row, j) \in [Ranks -> Seq(Nodes \X Nodes)]
        /\ \A rank \in Ranks : \A pair \in Elements(Deal(farPairs, row, j)[rank]) :
             pair = <<row, j>> \/ pair \in Elements(farPairs[rank])
    BY <1>3, <2>4, DealFacts
  <2> HIDE DEF Fits
  <2>6. \A rank \in Ranks : \A pair \in Elements(Deal(farPairs, row, j)[rank]) : Fits(pair)
    BY <1>4, <2>4, <2>5
  <2>7. FarCount(row, j) \in Nat /\ col + 1 \in Nat \ {0}
    BY <1>2, <1>3 DEF FarCount
  <2>8. CASE IsKept(row, j)
    BY <1>2, <2>3, <2>5, <2>6, <2>7, <2>8
  <2>9. CASE ~IsKept(row, j)
    BY <1>2, <1>3, <1>4, <2>3, <2>7, <2>9
  <2> QED BY <2>8, <2>9
<1>6. ASSUME ~(col <= Len(farMat[row])) PROVE Goal
  <2>1. row' = row + 1 /\ col' = 1 /\ count' = count /\ farPairs' = farPairs
    BY <1>6 DEF DealFar
  <2>2. row + 1 \in Nat /\ 1 \in Nat \ {0}
    BY <1>2
  <2> HIDE DEF Fits
  <2> QED BY <1>3, <1>4, <2>1, <2>2
<1>7. Goal
  BY <1>5, <1>6
<1> HIDE DEF j
<1>8. TypeOK'
  BY <1>1, <1>2, <1>7, SameTree DEF TypeOK
<1>9. RowInv'
  BY <1>2, <1>7 DEF RowInv
<1>10. FarBlocksFit'
  <2>1. Tree' = Tree /\ MaxSize' = MaxSize
    BY <1>2, SameTree
  <2> QED BY <1>7, <2>1 DEF FarBlocksFit, Elements, Size
<1> QED BY <1>2, <1>8, <1>9, <1>10, Dealing

LEMMA EndFarInv == ASSUME IInv, EndFar PROVE IInv'
<1>1. TypeOK /\ FarBlocksFit
  BY DEF IInv
<1>2. /\ stage' = "done" /\ input' = input
      /\ UNCHANGED <<nodeList, kept, stack, farBelow, closeMat, farMat, leafList>>
      /\ row' = row /\ col' = col /\ verdict' = verdict /\ count' = count
      /\ closePairs' = closePairs /\ farPairs' = farPairs
  BY DEF EndFar, descent, rowVars, dealVars
<1>3. TypeOK'
  BY <1>1, <1>2, SameTree DEF TypeOK
<1>4. RowInv'
  BY <1>2 DEF RowInv
<1>5. FarBlocksFit'
  <2>1. Tree' = Tree /\ MaxSize' = MaxSize
    BY <1>2, SameTree
  <2> QED BY <1>1, <1>2, <2>1 DEF FarBlocksFit, Elements, Size
<1> QED BY <1>2, <1>3, <1>4, <1>5, Dealing

LEMMA StutterInv == ASSUME IInv, UNCHANGED vars PROVE IInv'
<1>1. /\ input' = input /\ stage' = stage /\ row' = row /\ col' = col
      /\ UNCHANGED <<nodeList, kept, stack, farBelow, closeMat, farMat, leafList>>
      /\ verdict' = verdict /\ count' = count
      /\ closePairs' = closePairs /\ farPairs' = farPairs
  BY DEF vars, descent, rowVars, dealVars
<1>2. /\ Tree' = Tree /\ MaxSize' = MaxSize /\ Rows' = Rows /\ Nodes' = Nodes
      /\ LeafNodes' = LeafNodes /\ Particles' = Particles
  BY <1>1, SameTree
<1>3. TypeOK' /\ RowInv' /\ LeafInv' /\ FarInv'
  <2>1. TypeOK'
    BY <1>1, <1>2 DEF IInv, TypeOK
  <2>2. RowInv'
    BY <1>1, <1>2 DEF IInv, RowInv, IsLeaf
  <2>3. LeafInv' /\ FarInv'
    BY <1>1, <1>2 DEF IInv, LeafInv, FarInv, Elements, Size
  <2> QED BY <2>1, <2>2, <2>3
<1>4. FarBlocksFit'
  BY <1>1, <1>2 DEF IInv, FarBlocksFit, Elements, Size
<1>5. FrontierInv'
  BY <1>1, <1>2 DEF IInv, FrontierInv, Apart, Positions, Waiting, Elements
<1>6. CoverInv'
  <2>1. /\ Waiting' = Waiting
        /\ \A i : Positions(i)' = Positions(i)
        /\ \A s, q : Times(s, q)' = Times(s', q)
        /\ \A q : InRow(q)' = InRow(q)
    BY <1>1, <1>2 DEF Waiting, Elements, Positions, Times, Hits, InRow, Untested
  <2>2. \A p, q : FarHeld(p, q)' = FarHeld(p, q) /\ InFar(p, q)' = InFar(p, q)
    BY <1>1, SameFar
  <2>3. \A i, q : Times(closeMat[i], q)' = Times(closeMat[i], q)
    BY <1>1, <1>2 DEF Times, Hits, Positions
  <2> QED BY <1>1, <1>2, <2>1, <2>2, <2>3 DEF IInv, CoverInv
<1> QED BY <1>3, <1>4, <1>5, <1>6 DEF IInv

LEMMA NextInv == ASSUME IInv, [Next]_vars PROVE IInv'
<1>1. CASE StartRow BY <1>1, StartRowInv
<1>2. CASE TestColumn BY <1>2, TestColumnInv
<1>3. CASE Descend BY <1>3, DescendInv
<1>4. CASE EndRow BY <1>4, EndLeafRow, EndInnerRow
<1>5. CASE EndRows BY <1>5, EndRowsInv
<1>6. CASE DealClose BY <1>6, DealCloseInv
<1>7. CASE EndClose BY <1>7, EndCloseInv
<1>8. CASE DealFar BY <1>8, DealFarInv
<1>9. CASE EndFar BY <1>9, EndFarInv
<1>10. CASE Done \/ UNCHANGED vars BY <1>10, StutterInv DEF Done
<1> QED BY <1>1, <1>2, <1>3, <1>4, <1>5, <1>6, <1>7, <1>8, <1>9, <1>10 DEF Next

LEMMA Invariance == Spec => []IInv
<1>1. Init => IInv
  BY InitInv
<1>2. IInv /\ [Next]_vars => IInv'
  BY NextInv
<1> QED BY <1>1, <1>2, PTL DEF Spec

-----------------------------------------------------------------------------
(* The properties *)

\* The close columns that hold an entry are those of the one row with p.
LEMMA OneRow ==
  ASSUME TypeOK, NEW i \in Waiting, NEW p, NEW q, p \in Positions(i),
         \A m \in Waiting : p \in Positions(m) => m = i
  PROVE  InClose(p, q) = Times(closeMat[i], q)
<1> DEFINE H == Hits(closeMat[i], q)
           held == Held(Waiting, closeMat, p, q)
           f == [k \in H |-> <<i, k>>]
<1>1. closeMat[i] \in Seq(Nodes)
  BY WaitingNodes DEF TypeOK
<1>2. ASSUME NEW b PROVE b \in held <=> \E k \in H : b = <<i, k>>
  <2>1. b \in held <=>
          \E m \in Waiting : \E k \in DOMAIN closeMat[m] :
            b = <<m, k>> /\ p \in Positions(m) /\ q \in Positions(closeMat[m][k])
    BY DEF Held
  <2>2. \A k : k \in H <=> k \in DOMAIN closeMat[i] /\ q \in Positions(closeMat[i][k])
    BY DEF Hits
  <2> HIDE DEF held, H
  <2> QED BY <2>1, <2>2
<1>3. IsFiniteSet(H)
  BY <1>1, TimesType
<1> HIDE DEF H, held
<1>4. f \in [H -> held] /\ \A z \in held : \E x \in H : f[x] = z
  BY <1>2
<1>5. \A x, y \in H : f[x] = f[y] => x = y
  OBVIOUS
<1> HIDE DEF f
<1>6. Cardinality(held) = Cardinality(H)
  BY <1>3, <1>4, <1>5, SameCount
<1>7. InClose(p, q) = Cardinality(held)
  BY DEF InClose, Waiting, held
<1> QED BY <1>6, <1>7 DEF Times, H

\* The rows share the particles out, and the row with p holds the entry once.
LEMMA InvCovers == ASSUME IInv PROVE FrontierCovers
<1> SUFFICES ASSUME stage = "rows", NEW p \in Samples, NEW q \in Samples
             PROVE  InFar(p, q) + InClose(p, q)
                      + (IF row # None /\ p \in Positions(row) THEN InRow(q) ELSE 0) = 1
  BY DEF FrontierCovers
<1>1. TypeOK /\ FrontierInv /\ CoverInv
  BY DEF IInv
<1>2. p \in Particles /\ q \in Particles
  <2>1. ASSUME NEW i \in LeafNodes PROVE Tree[i].first \in Particles
    <3>1. i \in Nodes /\ IsTree(Tree) /\ Positions(i) \subseteq Particles
      BY <1>1, TreeFacts DEF LeafNodes
    <3>2. /\ Tree[i].first \in Nat /\ Tree[i].last \in Nat /\ Tree[i].first < Tree[i].last
      BY <3>1 DEF IsTree, Nodes
    <3>3. Tree[i].first \in Positions(i)
      BY <3>2 DEF Positions
    <3> QED BY <3>1, <3>3
  <2> QED BY <2>1 DEF Samples
<1>3. /\ InFar(p, q) \in Nat
      /\ \A i \in Waiting : p \in Positions(i) => InFar(p, q) + Times(closeMat[i], q) = 1
      /\ row # None /\ p \in Positions(row) => InFar(p, q) + InRow(q) = 1
  BY <1>1, <1>2, CoverNow DEF CoverInv
<1>4. CASE row # None /\ p \in Positions(row)
  <2>1. \A i \in Waiting : p \notin Positions(i)
    BY <1>1, <1>4 DEF FrontierInv, Apart
  <2>2. Held(Waiting, closeMat, p, q) = {}
    BY <2>1 DEF Held
  <2>3. InClose(p, q) = 0
    BY <2>2, FS_EmptySet DEF InClose, Waiting
  <2>4. InFar(p, q) + InRow(q) = 1
    BY <1>3, <1>4
  <2>5. InFar(p, q) + 0 = InFar(p, q)
    BY <1>3
  <2> QED BY <1>4, <2>3, <2>4, <2>5
<1>5. CASE ~(row # None /\ p \in Positions(row))
  <2>1. PICK i \in Waiting : p \in Positions(i)
    BY <1>1, <1>2, <1>5 DEF FrontierInv
  <2>2. ASSUME NEW m \in Waiting, p \in Positions(m) PROVE m = i
    <3>1. ~Apart(m, i) /\ ~Apart(i, m)
      BY <2>1, <2>2 DEF Apart
    <3> QED BY <1>1, <3>1 DEF FrontierInv, Waiting, Elements
  <2>3. InClose(p, q) = Times(closeMat[i], q)
    BY <1>1, <2>1, <2>2, OneRow
  <2>4. InFar(p, q) + Times(closeMat[i], q) = 1
    BY <1>3, <2>1
  <2>5. InFar(p, q) + InClose(p, q) = 1
    BY <2>3, <2>4
  <2> QED BY <1>5, <2>5
<1> QED BY <1>4, <1>5

\* Every variable has its type, through every visit, descent and deal; in
\* particular the close blocks dealt are leaf x leaf, as CloseDot takes them.
THEOREM TypeCorrect == Spec => []TypeOK
<1>1. IInv => TypeOK
  BY DEF IInv
<1> QED BY <1>1, Invariance, PTL

\* Whatever tree, verdicts and mMaxRelativeCoord, both nodes of every far block
\* that is dealt are smaller than mMaxRelativeCoord, so FarDot can take it.
THEOREM FarBlocksAreSmall == Spec => []FarBlocksFit
<1>1. IInv => FarBlocksFit
  BY DEF IInv
<1> QED BY <1>1, Invariance, PTL

\* While the rows are visited, every entry of the matrix is in exactly one far
\* block, close column, or column still to be tested or taken apart.
THEOREM EntriesAreCovered == Spec => []FrontierCovers
<1>1. IInv => FrontierCovers
  BY InvCovers
<1> QED BY <1>1, Invariance, PTL

-----------------------------------------------------------------------------
(* The blocks dealt to all ranks at the end: with symmetry the blocks that *)
(* are left out are just those whose mirror images are dealt.              *)

Level(i) == Tree[i].level
Small(i) == Size(i) < MaxSize

\* A block is a row and a column.  Two cross if one holds an entry whose mirror
\* image the other one holds.
Blocks == Nodes \X Nodes
Mirror(b) == <<b[2], b[1]>>
SameLevel(b) == Level(b[1]) = Level(b[2])
Crossing(b, c) == ~Apart(b[1], c[2]) /\ ~Apart(b[2], c[1])
Inside(b, c) == Positions(b[1]) \subseteq Positions(c[1]) /\ Positions(b[2]) \subseteq Positions(c[2])
Above(b, c) == Level(b[1]) <= Level(c[1]) /\ Level(b[1]) <= Level(c[2])

\* Blocks that a verdict leaves whole, and the columns a descent stops at.
Ends(b, isFar) == \/ isFar /\ Small(b[1]) /\ Small(b[2])
                  \/ IsLeaf(b[1]) /\ IsLeaf(b[2])
StopsUnder(isFar, c) == IF isFar THEN Small(c) ELSE IsLeaf(c)

\* The mirror image of a block has been tested, and was left whole or not.
Seen(d, V, ends) == Mirror(d) \in DOMAIN V /\ (Ends(d, V[Mirror(d)]) <=> ends)

\* The parts of the invariant, about the blocks still to be tested (open), those
\* a descent is taking apart (fall), the final ones (done), and the verdicts V
\* that are remembered.  The nodes of a block are on one level, or the one that
\* is higher up is a leaf.
LevelOK(open, fall, done) ==
  /\ \A b \in open : SameLevel(b) \/ (IsLeaf(b[2]) /\ Level(b[2]) < Level(b[1]))
  /\ \A b \in fall \cup done : \/ SameLevel(b)
                               \/ IsLeaf(b[2]) /\ Level(b[2]) < Level(b[1])
                               \/ IsLeaf(b[1]) /\ Level(b[1]) < Level(b[2])

\* No verdict is remembered for a block that is still to be tested.
MemoryOK(open, V) == \A b \in open : \A d \in DOMAIN V : ~Inside(d, b)

\* A block d that will be tested knows what became of its mirror image: it was
\* left whole, is being taken apart under the same verdict, or was split.
AheadOK(open, fall, done, V, isFar) ==
  \A b \in open : \A c \in open \cup fall \cup done : \A d \in Blocks :
    Inside(d, b) /\ SameLevel(d) /\ Crossing(d, c) /\ Above(d, c) =>
      /\ c # Mirror(d) => Seen(d, V, FALSE)
      /\ c = Mirror(d) /\ c \in done => Seen(d, V, TRUE)
      /\ c = Mirror(d) /\ c \in fall => c \in DOMAIN V /\ V[c] = isFar

\* What crosses a final block of one level is not yet tested below that level.
DepthOK(open, fall, done, isFar) ==
  \A b \in open : \A c \in fall \cup done :
    Crossing(b, c) /\ SameLevel(c) /\ (c \in done \/ StopsUnder(isFar, c[2])) =>
      Level(b[1]) <= Level(c[1])

\* Final blocks that cross, one of them of one level, are mirror images.
PairOK(fall, done, isFar) ==
  /\ \A b, c \in done : Crossing(b, c) /\ SameLevel(b) => c = Mirror(b)
  /\ \A b \in done, c \in fall :
       Crossing(b, c) => /\ SameLevel(b) => c = Mirror(b) /\ StopsUnder(isFar, c[2])
                         /\ SameLevel(c) /\ StopsUnder(isFar, c[2]) => b = Mirror(c)

Mirrored(open, fall, done, V, isFar) ==
  /\ LevelOK(open, fall, done) /\ MemoryOK(open, V) /\ AheadOK(open, fall, done, V, isFar)
  /\ DepthOK(open, fall, done, isFar) /\ PairOK(fall, done, isFar)

-----------------------------------------------------------------------------
(* Nodes on their levels *)

LEMMA LeastLevel ==
  ASSUME NEW S \in SUBSET Nat, S # {}
  PROVE  \E m \in S : \A x \in S : m <= x
<1>1. PICK m \in S : \A x \in S : ~ (<<x, m>> \in OpToRel(<, Nat))
  BY WFMin, NatLessThanWellFounded
<1>2. \A x \in S : ~ (x < m)
  BY <1>1 DEF OpToRel
<1> QED BY <1>2

\* The root is on level 0, and every other node is the child of a node.
LEMMA Parents ==
  ASSUME TypeOK
  PROVE  /\ \A i \in Nodes : Level(i) \in Nat
         /\ Level(0) = 0 /\ 0 \in Nodes
         /\ \A i \in Nodes \ {0} : \E a \in Nodes :
              /\ ~IsLeaf(a) /\ i \in {Tree[a].left, Tree[a].right}
              /\ Level(i) = Level(a) + 1 /\ Positions(i) \subseteq Positions(a)
         /\ \A a \in Nodes : ~IsLeaf(a) =>
              \A c \in {Tree[a].left, Tree[a].right} : c \in Nodes /\ Level(c) = Level(a) + 1
<1>1. IsTree(Tree) /\ 0 \in Nodes
  BY TreeFacts
<1>2. /\ \A i \in Nodes : Level(i) \in Nat
      /\ Level(0) = 0
      /\ \A a \in Nodes : ~IsLeaf(a) => /\ Level(Tree[a].left) = Level(a) + 1
                                        /\ Level(Tree[a].right) = Level(a) + 1
  BY <1>1 DEF IsTree, Nodes, Level, IsLeaf
<1>3. ASSUME NEW i \in Nodes \ {0}
      PROVE  \E a \in Nodes : ~IsLeaf(a) /\ i \in {Tree[a].left, Tree[a].right}
  <2>1. PICK a \in DOMAIN Tree : Tree[a].left # 0 /\ i \in {Tree[a].left, Tree[a].right}
    BY <1>3 DEF Nodes, NodesOf
  <2>2. a \in Nodes
    BY <1>1, <2>1 DEF IsTree, Nodes
  <2> QED BY <2>1, <2>2 DEF IsLeaf
<1>4. \A a \in Nodes : ~IsLeaf(a) =>
        \A c \in {Tree[a].left, Tree[a].right} :
          c \in Nodes /\ Level(c) = Level(a) + 1 /\ Positions(c) \subseteq Positions(a)
  BY <1>2, Children
<1> QED BY <1>1, <1>2, <1>3, <1>4

\* Two nodes of one level that share a particle are one node.
LEMMA OneOnLevel ==
  ASSUME TypeOK, NEW i \in Nodes, NEW j \in Nodes, Level(i) = Level(j), ~Apart(i, j)
  PROVE  i = j
<1> DEFINE Two(x, y, m) == Level(x) = m /\ Level(y) = m /\ ~Apart(x, y) /\ x # y
           S == {m \in Nat : \E x, y \in Nodes : Two(x, y, m)}
<1> SUFFICES ASSUME i # j PROVE FALSE
  OBVIOUS
<1>1. S # {}
  <2>1. Level(i) \in Nat
    BY Parents
  <2> QED BY <2>1
<1>2. PICK m \in S : \A x \in S : m <= x
  <2>1. S \in SUBSET Nat
    OBVIOUS
  <2> HIDE DEF S
  <2> QED BY <1>1, <2>1, LeastLevel
<1>3. PICK x \in Nodes, y \in Nodes : Two(x, y, m)
  OBVIOUS
<1>4. x # 0 /\ y # 0
  <2>1. \A z \in Nodes : Level(z) = 0 => z = 0
    <3> SUFFICES ASSUME NEW z \in Nodes, Level(z) = 0, z # 0 PROVE FALSE
      OBVIOUS
    <3>1. PICK a \in Nodes : Level(z) = Level(a) + 1
      BY Parents
    <3> QED BY <3>1, Parents
  <2>2. Level(x) = Level(y) /\ x # y /\ Level(0) = 0
    BY <1>3, Parents
  <2> QED BY <2>1, <2>2
<1>5. PICK a \in Nodes : /\ ~IsLeaf(a) /\ x \in {Tree[a].left, Tree[a].right}
                         /\ Level(x) = Level(a) + 1 /\ Positions(x) \subseteq Positions(a)
  BY <1>4, Parents
<1>6. PICK b \in Nodes : /\ ~IsLeaf(b) /\ y \in {Tree[b].left, Tree[b].right}
                         /\ Level(y) = Level(b) + 1 /\ Positions(y) \subseteq Positions(b)
  BY <1>4, Parents
<1>7. ~Apart(a, b) /\ Level(a) = Level(b) /\ Level(a) \in Nat /\ ~(m <= Level(a))
  <2>1. Level(a) \in Nat /\ Level(b) \in Nat
    BY Parents
  <2> QED BY <1>3, <1>5, <1>6, <2>1 DEF Apart
<1>8. a = b
  BY <1>2, <1>7
<1>9. Apart(Tree[a].left, Tree[a].right)
  BY <1>5, Children
<1> QED BY <1>3, <1>5, <1>6, <1>8, <1>9 DEF Apart

\* A node has an ancestor on every level above it.
LEMMA Ancestor ==
  ASSUME TypeOK, NEW i \in Nodes, NEW m \in Nat, m <= Level(i)
  PROVE  \E a \in Nodes : /\ Level(a) = m /\ Positions(i) \subseteq Positions(a)
                          /\ m < Level(i) => ~IsLeaf(a)
<1> DEFINE Has(x) == \E a \in Nodes : /\ Level(a) = m /\ Positions(x) \subseteq Positions(a)
                                      /\ m < Level(x) => ~IsLeaf(a)
           S == {n \in Nat : m <= n /\ \E x \in Nodes : Level(x) = n /\ ~Has(x)}
<1> SUFFICES ASSUME ~Has(i) PROVE FALSE
  OBVIOUS
<1> HIDE DEF Has
<1>1. S # {} /\ S \in SUBSET Nat
  <2>1. Level(i) \in Nat
    BY Parents
  <2> QED BY <2>1
<1>2. PICK n \in S : \A x \in S : n <= x
  <2> HIDE DEF S
  <2> QED BY <1>1, LeastLevel
<1>3. PICK x \in Nodes : Level(x) = n /\ ~Has(x) /\ m <= n /\ n \in Nat
  OBVIOUS
<1>4. n # m
  <2>1. Level(x) = m => Has(x)
    BY DEF Has
  <2> QED BY <1>3, <2>1
<1>5. x # 0
  BY <1>3, <1>4, Parents
<1>6. PICK b \in Nodes : /\ ~IsLeaf(b) /\ Level(x) = Level(b) + 1
                         /\ Positions(x) \subseteq Positions(b)
  BY <1>5, Parents
<1>7. Level(b) \in Nat /\ m <= Level(b) /\ ~(n <= Level(b))
  <2>1. Level(b) \in Nat
    BY Parents
  <2> QED BY <1>3, <1>4, <1>6, <2>1
<1>8. Has(b)
  BY <1>2, <1>7
<1>9. PICK a \in Nodes : /\ Level(a) = m /\ Positions(b) \subseteq Positions(a)
                         /\ m < Level(b) => ~IsLeaf(a)
  BY <1>8 DEF Has
<1>10. CASE m < Level(b)
  BY <1>3, <1>6, <1>9, <1>10 DEF Has
<1>11. CASE m = Level(b)
  BY <1>3, <1>6, <1>11 DEF Has
<1> QED BY <1>7, <1>10, <1>11

\* Of two nodes that share a particle the deeper one is inside the other.
LEMMA Nested ==
  ASSUME TypeOK, NEW i \in Nodes, NEW j \in Nodes, ~Apart(i, j), Level(i) <= Level(j)
  PROVE  /\ Positions(j) \subseteq Positions(i)
         /\ Level(i) < Level(j) => ~IsLeaf(i)
<1>1. PICK a \in Nodes : /\ Level(a) = Level(i) /\ Positions(j) \subseteq Positions(a)
                         /\ Level(i) < Level(j) => ~IsLeaf(a)
  BY Ancestor, Parents
<1>2. ~Apart(a, i)
  BY <1>1 DEF Apart
<1>3. a = i
  BY <1>1, <1>2, OneOnLevel
<1> QED BY <1>1, <1>3

LEMMA IsBelow ==
  ASSUME TypeOK, NEW i \in Nodes, NEW j \in Nodes, ~Apart(i, j), Level(i) < Level(j)
  PROVE  j \in NodesBelow(Tree, i)
<1>1. Positions(j) \subseteq Positions(i) /\ IsTree(Tree)
  <2>1. Level(i) <= Level(j)
    BY Parents
  <2> QED BY <2>1, Nested, TreeFacts
<1>2. /\ Tree[i].first \in Nat /\ Tree[i].last \in Nat
      /\ Tree[j].first \in Nat /\ Tree[j].last \in Nat /\ Tree[j].first < Tree[j].last
  BY <1>1 DEF IsTree, Nodes
<1>3. Tree[j].first \in Positions(j) /\ Tree[j].last - 1 \in Positions(j)
  BY <1>2 DEF Positions
<1>4. Tree[j].first \in Positions(i) /\ Tree[j].last - 1 \in Positions(i)
  BY <1>1, <1>3
<1>5. Tree[i].first <= Tree[j].first /\ Tree[j].last <= Tree[i].last
  BY <1>2, <1>4 DEF Positions
<1> QED BY <1>5 DEF NodesBelow, Nodes, Level

-----------------------------------------------------------------------------
(* Blocks and their mirror images *)

LEMMA BlockFacts ==
  ASSUME NEW b \in Blocks
  PROVE  /\ b[1] \in Nodes /\ b[2] \in Nodes /\ Mirror(b) \in Blocks /\ Mirror(Mirror(b)) = b
         /\ Mirror(b)[1] = b[2] /\ Mirror(b)[2] = b[1]
         /\ \A c \in Blocks : b[1] = c[1] /\ b[2] = c[2] => b = c
         /\ \A isFar : Ends(Mirror(b), isFar) <=> Ends(b, isFar)
<1>1. b[1] \in Nodes /\ b[2] \in Nodes /\ Mirror(b) \in Blocks /\ Mirror(Mirror(b)) = b
      /\ Mirror(b)[1] = b[2] /\ Mirror(b)[2] = b[1]
  BY DEF Blocks, Mirror
<1>2. \A c \in Blocks : b[1] = c[1] /\ b[2] = c[2] => b = c
  BY DEF Blocks
<1>3. \A isFar : Ends(Mirror(b), isFar) <=> Ends(b, isFar)
  BY <1>1 DEF Ends
<1> QED BY <1>1, <1>2, <1>3

\* On one level only the mirror image crosses a block.
LEMMA CrossingOnLevel ==
  ASSUME TypeOK, NEW b \in Blocks, NEW c \in Blocks, Crossing(b, c),
         SameLevel(b), SameLevel(c), Level(b[1]) = Level(c[1])
  PROVE  c = Mirror(b)
<1>1. b[1] \in Nodes /\ b[2] \in Nodes /\ c[1] \in Nodes /\ c[2] \in Nodes
  BY BlockFacts
<1>2. b[1] = c[2] /\ b[2] = c[1]
  BY <1>1, OneOnLevel DEF Crossing, SameLevel
<1> QED BY <1>2, BlockFacts

\* A leaf that shares particles with a node is not above it.
LEMMA LeafBelow ==
  ASSUME TypeOK, NEW i \in Nodes, NEW j \in Nodes, ~Apart(i, j) \/ ~Apart(j, i), IsLeaf(i)
  PROVE  Level(j) <= Level(i)
<1>1. ~Apart(i, j) /\ Level(i) \in Nat /\ Level(j) \in Nat
  BY Parents DEF Apart
<1>2. ~(Level(i) < Level(j))
  BY <1>1, Nested
<1> QED BY <1>1, <1>2

\* A block still to be tested that crosses a final one of its kind is above it.
LEMMA OpenAbove ==
  ASSUME TypeOK, NEW open, NEW done, NEW isFar, NEW fall,
         open \subseteq Blocks, done \subseteq Blocks,
         LevelOK(open, fall, done), DepthOK(open, fall, done, isFar),
         NEW b \in open, NEW c \in done, Crossing(b, c), SameLevel(b)
  PROVE  Above(b, c)
<1>1. /\ b[1] \in Nodes /\ b[2] \in Nodes /\ c[1] \in Nodes /\ c[2] \in Nodes
      /\ Level(b[1]) \in Nat /\ Level(b[2]) \in Nat /\ Level(c[1]) \in Nat /\ Level(c[2]) \in Nat
  BY BlockFacts, Parents
<1>2. CASE SameLevel(c)
  BY <1>1, <1>2 DEF DepthOK, SameLevel, Above
<1>3. CASE IsLeaf(c[2]) /\ Level(c[2]) < Level(c[1])
  <2>1. Level(b[1]) <= Level(c[2])
    BY <1>1, <1>3, LeafBelow DEF Crossing
  <2> QED BY <1>1, <1>3, <2>1 DEF Above
<1>4. CASE IsLeaf(c[1]) /\ Level(c[1]) < Level(c[2])
  <2>1. Level(b[2]) <= Level(c[1])
    BY <1>1, <1>4, LeafBelow DEF Crossing
  <2> QED BY <1>1, <1>4, <2>1 DEF Above, SameLevel
<1> QED BY <1>2, <1>3, <1>4 DEF LevelOK

-----------------------------------------------------------------------------
(* The test of a column keeps the invariant *)

\* The block b0 is tested with verdict v0; of the blocks next still to be tested,
\* none contains b0, and the new ones are parts of it.
Tested(open, done, V, b0, v0, V2, open2) ==
  /\ open \subseteq Blocks /\ done \subseteq Blocks /\ open2 \subseteq Blocks
  /\ LevelOK(open, {}, done) /\ MemoryOK(open, V) /\ b0 \in open /\ v0 \in BOOLEAN
  /\ ~Apart(b0[1], b0[2]) => v0 = FALSE
  /\ Apart(b0[1], b0[2]) /\ Mirror(b0) \in DOMAIN V => v0 = V[Mirror(b0)]
  /\ DOMAIN V2 = IF b0[1] = b0[2] \/ Mirror(b0) \in DOMAIN V
                 THEN DOMAIN V \ {Mirror(b0)} ELSE DOMAIN V \cup {b0}
  /\ \A d \in DOMAIN V2 : V2[d] = IF d = b0 THEN v0 ELSE V[d]
  /\ \A b \in open2 : ~Inside(b0, b) /\ (b \in open \/ Inside(b, b0))

\* What the mirror image of the tested block says is what the test says.
LEMMA TestVerdict ==
  ASSUME TypeOK, NEW open, NEW done, NEW V, NEW b0, NEW v0, NEW V2, NEW open2,
         Tested(open, done, V, b0, v0, V2, open2)
  PROVE  /\ b0 \in Blocks /\ b0 \in open /\ b0 \notin DOMAIN V
         /\ \A ends \in BOOLEAN : Seen(b0, V, ends) => (Ends(b0, v0) <=> ends)
<1>1. b0 \in Blocks /\ b0 \in open
  BY DEF Tested
<1>2. b0[1] \in Nodes /\ b0[2] \in Nodes
  BY <1>1, BlockFacts
<1>3. b0 \notin DOMAIN V
  <2>1. Inside(b0, b0)
    BY DEF Inside
  <2> QED BY <2>1 DEF Tested, MemoryOK
<1>4. ~Apart(b0[1], b0[2]) => b0 = Mirror(b0)
  <2> SUFFICES ASSUME ~Apart(b0[1], b0[2]) PROVE b0 = Mirror(b0)
    OBVIOUS
  <2>1. SameLevel(b0) \/ (IsLeaf(b0[2]) /\ Level(b0[2]) < Level(b0[1]))
    BY DEF Tested, LevelOK
  <2>2. CASE IsLeaf(b0[2]) /\ Level(b0[2]) < Level(b0[1])
    <3>1. Level(b0[1]) <= Level(b0[2])
      BY <1>2, <2>2, LeafBelow
    <3> QED BY <1>2, <2>2, <3>1, Parents
  <2>3. CASE SameLevel(b0)
    <3>1. b0[1] = b0[2]
      BY <1>2, <2>3, OneOnLevel DEF SameLevel
    <3> QED BY <1>1, <3>1 DEF Mirror, Blocks
  <2> QED BY <2>1, <2>2, <2>3
<1>5. ASSUME NEW ends \in BOOLEAN, Seen(b0, V, ends) PROVE Ends(b0, v0) <=> ends
  <2>1. Mirror(b0) \in DOMAIN V /\ (Ends(b0, V[Mirror(b0)]) <=> ends)
    BY <1>5 DEF Seen
  <2>2. Apart(b0[1], b0[2])
    BY <1>3, <1>4, <2>1
  <2>3. v0 = V[Mirror(b0)]
    BY <2>1, <2>2 DEF Tested
  <2> QED BY <2>1, <2>3
<1> QED BY <1>1, <1>3, <1>5

\* What the test leaves of the memory of a block still to be tested.
LEMMA TestMemory ==
  ASSUME TypeOK, NEW open, NEW done, NEW V, NEW b0, NEW v0, NEW V2, NEW open2,
         Tested(open, done, V, b0, v0, V2, open2),
         NEW b \in open2, NEW d \in Blocks, Inside(d, b)
  PROVE  /\ d \notin DOMAIN V /\ d # b0
         /\ \A ends \in BOOLEAN : Seen(d, V, ends) => Seen(d, V2, ends)
         /\ Mirror(d) = b0 => b0 \in DOMAIN V2 /\ V2[b0] = v0
         /\ \E old \in open : Inside(d, old) /\ (b \in open => old = b)
<1>1. b0 \in Blocks /\ b0 \notin DOMAIN V
  BY TestVerdict
<1>2. PICK old \in open : Inside(d, old) /\ (b \in open => old = b)
  <2>1. CASE b \in open
    BY <2>1
  <2>2. CASE b \notin open
    <3>1. Inside(b, b0) /\ b0 \in open
      BY <2>2 DEF Tested
    <3>2. Inside(d, b0)
      BY <3>1 DEF Inside
    <3> QED BY <2>2, <3>1, <3>2
  <2> QED BY <2>1, <2>2
<1>3. d \notin DOMAIN V
  BY <1>2 DEF Tested, MemoryOK
<1>4. d # b0
  BY DEF Tested
<1>5. Mirror(d) # Mirror(b0)
  BY <1>1, <1>4, BlockFacts
<1>6. ASSUME NEW ends \in BOOLEAN, Seen(d, V, ends) PROVE Seen(d, V2, ends)
  <2>1. Mirror(d) \in DOMAIN V /\ (Ends(d, V[Mirror(d)]) <=> ends)
    BY <1>6 DEF Seen
  <2>2. Mirror(d) # b0
    BY <1>1, <2>1
  <2>3. Mirror(d) \in DOMAIN V2
    BY <1>5, <2>1 DEF Tested
  <2>4. V2[Mirror(d)] = V[Mirror(d)]
    BY <2>2, <2>3 DEF Tested
  <2> QED BY <2>1, <2>3, <2>4 DEF Seen
<1>7. ASSUME Mirror(d) = b0 PROVE b0 \in DOMAIN V2 /\ V2[b0] = v0
  <2>1. Mirror(b0) = d
    BY <1>7, BlockFacts
  <2>2. b0[1] # b0[2]
    <3> SUFFICES ASSUME b0[1] = b0[2] PROVE FALSE
      OBVIOUS
    <3>1. d[1] = b0[1] /\ d[2] = b0[2]
      BY <1>1, <2>1, BlockFacts
    <3> QED BY <1>1, <1>4, <3>1, BlockFacts
  <2>3. b0 \in DOMAIN V2
    BY <1>3, <2>1, <2>2 DEF Tested
  <2> QED BY <2>3 DEF Tested
<1> QED BY <1>2, <1>3, <1>4, <1>6, <1>7

\* No verdict is remembered for a block that is still to be tested.
LEMMA TestKeepsMemory ==
  ASSUME TypeOK, NEW open, NEW done, NEW V, NEW b0, NEW v0, NEW V2, NEW open2,
         DOMAIN V \subseteq Blocks, Tested(open, done, V, b0, v0, V2, open2)
  PROVE  MemoryOK(open2, V2)
<1> SUFFICES ASSUME NEW b \in open2, NEW d \in DOMAIN V2, Inside(d, b) PROVE FALSE
  BY DEF MemoryOK
<1>1. d \in DOMAIN V \/ d = b0
  BY DEF Tested
<1>2. b0 \in Blocks
  BY TestVerdict
<1> QED BY <1>1, <1>2, TestMemory

\* What crosses a block ahead still tells what became of its mirror image.
LEMMA TestAhead ==
  ASSUME TypeOK, NEW open, NEW done, NEW V, NEW b0, NEW v0, NEW V2, NEW open2, NEW isFar,
         Tested(open, done, V, b0, v0, V2, open2), AheadOK(open, {}, done, V, isFar),
         NEW b \in open2, NEW c \in open \cup done, NEW d \in Blocks,
         Inside(d, b), SameLevel(d), Crossing(d, c), Above(d, c)
  PROVE  /\ c # Mirror(d) => Seen(d, V2, FALSE)
         /\ c = Mirror(d) /\ c \in done => Seen(d, V2, TRUE)
<1>1. PICK old \in open : Inside(d, old)
  BY TestMemory
<1>2. c \in open \cup {} \cup done
  OBVIOUS
<1>3. /\ c # Mirror(d) => Seen(d, V, FALSE)
      /\ c = Mirror(d) /\ c \in done => Seen(d, V, TRUE)
  BY <1>1, <1>2, Zenon DEF AheadOK
<1>4. \A ends \in BOOLEAN : Seen(d, V, ends) => Seen(d, V2, ends)
  BY TestMemory
<1> QED BY <1>3, <1>4

\* A block is left whole if its mirror image was, and not if that was split.
LEMMA TestCrossing ==
  ASSUME TypeOK, NEW open, NEW done, NEW V, NEW b0, NEW v0, NEW V2, NEW open2, NEW isFar,
         Tested(open, done, V, b0, v0, V2, open2), AheadOK(open, {}, done, V, isFar),
         NEW c \in open \cup done, SameLevel(b0), Crossing(b0, c), Above(b0, c)
  PROVE  /\ c # Mirror(b0) => ~Ends(b0, v0)
         /\ c = Mirror(b0) /\ c \in done => Ends(b0, v0)
<1>1. b0 \in Blocks /\ b0 \in open /\ Inside(b0, b0)
  BY TestVerdict DEF Inside
<1>2. /\ c # Mirror(b0) => Seen(b0, V, FALSE)
      /\ c = Mirror(b0) /\ c \in done => Seen(b0, V, TRUE)
  <2>1. c \in open \cup {} \cup done
    OBVIOUS
  <2> QED BY <1>1, <2>1, Zenon DEF AheadOK
<1>3. \A ends \in BOOLEAN : Seen(b0, V, ends) => (Ends(b0, v0) <=> ends)
  BY TestVerdict
<1> QED BY <1>2, <1>3

LEMMA CrossingBack ==
  ASSUME NEW b, NEW c, Crossing(b, c) PROVE Crossing(c, b)
BY DEF Crossing, Apart

\* A block of one level that is left whole is not crossed by one below its level
\* that is still to be tested.
LEMMA TestDepth ==
  ASSUME TypeOK, NEW open, NEW done, NEW V, NEW b0, NEW v0, NEW V2, NEW open2, NEW isFar,
         Tested(open, done, V, b0, v0, V2, open2), AheadOK(open, {}, done, V, isFar),
         SameLevel(b0), Ends(b0, v0), NEW b \in open, Crossing(b, b0)
  PROVE  Level(b[1]) <= Level(b0[1])
<1>1. b0 \in Blocks /\ b \in Blocks /\ Crossing(b0, b)
  BY TestVerdict, CrossingBack DEF Tested
<1>2. /\ b0[1] \in Nodes /\ b0[2] \in Nodes /\ b[1] \in Nodes /\ b[2] \in Nodes
      /\ Level(b[1]) \in Nat /\ Level(b[2]) \in Nat /\ Level(b0[1]) \in Nat
      /\ Mirror(b0)[1] = b0[2]
  BY <1>1, BlockFacts, Parents
<1> SUFFICES ASSUME Level(b0[1]) < Level(b[1]) PROVE FALSE
  BY <1>2
<1>3. Level(b0[1]) <= Level(b[2])
  <2>1. CASE SameLevel(b)
    BY <1>2, <2>1 DEF SameLevel
  <2>2. CASE IsLeaf(b[2])
    BY <1>1, <1>2, <2>2, LeafBelow DEF Crossing
  <2> QED BY <2>1, <2>2 DEF Tested, LevelOK
<1>4. Above(b0, b)
  BY <1>2, <1>3 DEF Above
<1>5. b # Mirror(b0)
  BY <1>2 DEF SameLevel
<1> QED BY <1>1, <1>4, <1>5, TestCrossing

\* What crosses the tested block and is final is its mirror image.
LEMMA TestPair ==
  ASSUME TypeOK, NEW open, NEW done, NEW V, NEW b0, NEW v0, NEW V2, NEW open2, NEW isFar,
         Tested(open, done, V, b0, v0, V2, open2), AheadOK(open, {}, done, V, isFar),
         DepthOK(open, {}, done, isFar), NEW c \in done, Crossing(b0, c)
  PROVE  /\ SameLevel(b0) /\ Ends(b0, v0) => c = Mirror(b0)
         /\ SameLevel(c) /\ (IsLeaf(b0[1]) \/ Ends(b0, v0)) => c = Mirror(b0) /\ Ends(b0, v0)
<1>1. b0 \in Blocks /\ b0 \in open /\ c \in Blocks
  BY TestVerdict DEF Tested
<1>2. /\ b0[1] \in Nodes /\ b0[2] \in Nodes /\ c[1] \in Nodes /\ c[2] \in Nodes
      /\ Level(c[1]) \in Nat /\ Level(c[2]) \in Nat
      /\ Level(b0[1]) \in Nat /\ Level(b0[2]) \in Nat
  BY <1>1, BlockFacts, Parents
<1>3. SameLevel(b0) => Above(b0, c)
  BY <1>1, OpenAbove DEF Tested
<1>4. ASSUME SameLevel(c), IsLeaf(b0[1]) \/ Ends(b0, v0)
      PROVE  c = Mirror(b0) /\ Ends(b0, v0)
  <2>1. Level(b0[1]) <= Level(c[1]) /\ Level(c[1]) = Level(c[2])
    BY <1>1, <1>4 DEF DepthOK, SameLevel
  <2>2. SameLevel(b0)
    <3>1. CASE IsLeaf(b0[2]) /\ Level(b0[2]) < Level(b0[1])
      <4>1. Level(c[1]) <= Level(b0[2])
        BY <1>2, <3>1, LeafBelow DEF Crossing
      <4> QED BY <1>2, <2>1, <3>1, <4>1
    <3> QED BY <1>1, <3>1 DEF Tested, LevelOK
  <2>3. c = Mirror(b0)
    <3>1. CASE Ends(b0, v0)
      BY <1>3, <2>2, <3>1, TestCrossing
    <3>2. CASE IsLeaf(b0[1])
      <4>1. Level(c[2]) <= Level(b0[1])
        BY <1>2, <3>2, LeafBelow DEF Crossing
      <4>2. Level(b0[1]) = Level(c[1])
        BY <1>2, <2>1, <4>1
      <4> QED BY <1>1, <1>4, <2>2, <4>2, CrossingOnLevel
    <3> QED BY <1>4, <3>1, <3>2
  <2> QED BY <1>3, <2>2, <2>3, TestCrossing
<1> QED BY <1>3, <1>4, TestCrossing

LEMMA InsideCrosses ==
  ASSUME NEW b, NEW c, NEW d, Inside(c, b), Crossing(d, c)
  PROVE  Crossing(d, b)
BY DEF Inside, Crossing, Apart

\* A far block of a row with children becomes final.
LEMMA TestFar ==
  ASSUME TypeOK, NEW open, NEW done, NEW V, NEW b0, NEW v0, NEW V2, NEW open2, NEW isFar,
         DOMAIN V \subseteq Blocks, Tested(open, done, V, b0, v0, V2, open2),
         Mirrored(open, {}, done, V, isFar),
         Ends(b0, v0), Apart(b0[1], b0[2]),
         open2 \subseteq open, NEW done2 \in SUBSET (done \cup {b0}), NEW isFar2
  PROVE  Mirrored(open2, {}, done2, V2, isFar2)
<1>1. /\ LevelOK(open, {}, done) /\ AheadOK(open, {}, done, V, isFar)
      /\ DepthOK(open, {}, done, isFar) /\ PairOK({}, done, isFar)
  BY DEF Mirrored
<1>2. Ends(b0, v0) /\ b0 \in Blocks /\ b0 \in open /\ Apart(b0[1], b0[2]) /\ done \subseteq Blocks
  BY TestVerdict DEF Tested
<1>3. LevelOK(open2, {}, done2)
  BY <1>1, <1>2 DEF LevelOK
<1>4. MemoryOK(open2, V2)
  BY TestKeepsMemory
<1>5. AheadOK(open2, {}, done2, V2, isFar2)
  <2> SUFFICES ASSUME NEW b \in open2, NEW c \in open2 \cup {} \cup done2, NEW d \in Blocks,
                      Inside(d, b), SameLevel(d), Crossing(d, c), Above(d, c)
               PROVE  /\ c # Mirror(d) => Seen(d, V2, FALSE)
                      /\ c = Mirror(d) /\ c \in done2 => Seen(d, V2, TRUE)
    BY Zenon DEF AheadOK
  <2>1. c \in open \cup done
    BY <1>2
  <2>2. /\ c # Mirror(d) => Seen(d, V2, FALSE)
        /\ c = Mirror(d) /\ c \in done => Seen(d, V2, TRUE)
    BY <1>1, <2>1, TestAhead
  <2>3. Mirror(d) = b0 => b0 \in DOMAIN V2 /\ V2[b0] = v0
    BY TestMemory
  <2>4. ASSUME c = Mirror(d), c = b0 PROVE Seen(d, V2, TRUE)
    <3>1. Ends(d, v0)
      BY <1>2, <2>4, BlockFacts
    <3> QED BY <2>3, <2>4, <3>1 DEF Seen
  <2> QED BY <2>2, <2>4
<1>6. DepthOK(open2, {}, done2, isFar2)
  <2> SUFFICES ASSUME NEW b \in open2, NEW c \in done2, Crossing(b, c), SameLevel(c)
               PROVE  Level(b[1]) <= Level(c[1])
    BY DEF DepthOK
  <2>1. CASE c \in done
    BY <1>1, <2>1 DEF DepthOK
  <2>2. CASE c = b0
    BY <1>1, <1>2, <2>2, TestDepth
  <2> QED BY <2>1, <2>2
<1>7. PairOK({}, done2, isFar2)
  <2>1. \A x, y \in done : Crossing(x, y) /\ SameLevel(x) => y = Mirror(x)
    BY <1>1 DEF PairOK
  <2>2. \A y \in done : Crossing(b0, y) /\ (SameLevel(b0) \/ SameLevel(y)) => y = Mirror(b0)
    BY <1>1, <1>2, TestPair
  <2>3. \A x \in done : Crossing(x, b0) /\ SameLevel(x) => b0 = Mirror(x)
    <3> SUFFICES ASSUME NEW x \in done, Crossing(x, b0), SameLevel(x) PROVE b0 = Mirror(x)
      OBVIOUS
    <3>1. x = Mirror(b0)
      BY <2>2, CrossingBack
    <3> QED BY <1>2, <3>1, BlockFacts
  <2>4. ~Crossing(b0, b0)
    BY <1>2 DEF Crossing
  <2>5. \A x, y \in done2 : Crossing(x, y) /\ SameLevel(x) => y = Mirror(x)
    BY <2>1, <2>2, <2>3, <2>4
  <2> QED BY <2>5 DEF PairOK
<1> QED BY <1>3, <1>4, <1>5, <1>6, <1>7 DEF Mirrored

\* A leaf stops a descent into its column just where the verdict says.
LEMMA LeafStops ==
  ASSUME TypeOK, NEW b \in Blocks, IsLeaf(b[1]), NEW v \in BOOLEAN
  PROVE  StopsUnder(v, b[2]) <=> Ends(b, v)
<1>1. b[1] \in Nodes /\ b[2] \in Nodes
  BY BlockFacts
<1>2. Small(b[1]) /\ (IsLeaf(b[2]) => Small(b[2]))
  BY <1>1, TreeFacts DEF Small
<1> QED BY <1>2 DEF StopsUnder, Ends

\* A block of a leaf row is taken apart by a descent.
LEMMA TestFall ==
  ASSUME TypeOK, NEW open, NEW done, NEW V, NEW b0, NEW v0, NEW V2, NEW open2, NEW isFar,
         DOMAIN V \subseteq Blocks, Tested(open, done, V, b0, v0, V2, open2),
         Mirrored(open, {}, done, V, isFar), IsLeaf(b0[1]),
         open2 \subseteq open, NEW fall2 \in SUBSET {b0}, NEW done2 \in SUBSET done
  PROVE  Mirrored(open2, fall2, done2, V2, v0)
<1>1. /\ LevelOK(open, {}, done) /\ AheadOK(open, {}, done, V, isFar)
      /\ DepthOK(open, {}, done, isFar) /\ PairOK({}, done, isFar)
  BY DEF Mirrored
<1>2. b0 \in Blocks /\ b0 \in open /\ done \subseteq Blocks /\ v0 \in BOOLEAN
  BY TestVerdict DEF Tested
<1>3. StopsUnder(v0, b0[2]) <=> Ends(b0, v0)
  BY <1>2, LeafStops
<1>4. LevelOK(open2, fall2, done2)
  BY <1>1, <1>2 DEF LevelOK
<1>5. MemoryOK(open2, V2)
  BY TestKeepsMemory
<1>6. AheadOK(open2, fall2, done2, V2, v0)
  <2> SUFFICES ASSUME NEW b \in open2, NEW c \in open2 \cup fall2 \cup done2, NEW d \in Blocks,
                      Inside(d, b), SameLevel(d), Crossing(d, c), Above(d, c)
               PROVE  /\ c # Mirror(d) => Seen(d, V2, FALSE)
                      /\ c = Mirror(d) /\ c \in done2 => Seen(d, V2, TRUE)
                      /\ c = Mirror(d) /\ c \in fall2 => c \in DOMAIN V2 /\ V2[c] = v0
    BY DEF AheadOK
  <2>1. c \in open \cup done
    BY <1>2
  <2>2. /\ c # Mirror(d) => Seen(d, V2, FALSE)
        /\ c = Mirror(d) /\ c \in done => Seen(d, V2, TRUE)
    BY <1>1, <2>1, TestAhead
  <2>3. Mirror(d) = b0 => b0 \in DOMAIN V2 /\ V2[b0] = v0
    BY TestMemory
  <2> QED BY <2>2, <2>3
<1>7. DepthOK(open2, fall2, done2, v0)
  <2> SUFFICES ASSUME NEW b \in open2, NEW c \in fall2 \cup done2, Crossing(b, c), SameLevel(c),
                      c \in done2 \/ StopsUnder(v0, c[2])
               PROVE  Level(b[1]) <= Level(c[1])
    BY DEF DepthOK
  <2>1. CASE c \in done
    BY <1>1, <2>1 DEF DepthOK
  <2>2. CASE c = b0 /\ c \notin done
    BY <1>1, <1>3, <2>2, TestDepth
  <2> QED BY <2>1, <2>2
<1>8. PairOK(fall2, done2, v0)
  <2>1. \A b, c \in done2 : Crossing(b, c) /\ SameLevel(b) => c = Mirror(b)
    BY <1>1 DEF PairOK
  <2>2. ASSUME NEW b \in done2, Crossing(b, b0)
        PROVE  /\ SameLevel(b) => b0 = Mirror(b) /\ StopsUnder(v0, b0[2])
               /\ SameLevel(b0) /\ StopsUnder(v0, b0[2]) => b = Mirror(b0)
    <3>1. Crossing(b0, b) /\ b \in done /\ b \in Blocks
      BY <1>2, <2>2, CrossingBack
    <3>2. /\ SameLevel(b0) /\ Ends(b0, v0) => b = Mirror(b0)
          /\ SameLevel(b) => b = Mirror(b0) /\ Ends(b0, v0)
      BY <1>1, <3>1, TestPair
    <3> QED BY <1>2, <1>3, <3>1, <3>2, BlockFacts
  <2> QED BY <2>1, <2>2 DEF PairOK
<1> QED BY <1>4, <1>5, <1>6, <1>7, <1>8 DEF Mirrored

\* The parts of a block: the children of the row, and those of the column if it
\* has any.
Parts(b) == {Tree[b[1]].left, Tree[b[1]].right}
              \X (IF IsLeaf(b[2]) THEN {b[2]} ELSE {Tree[b[2]].left, Tree[b[2]].right})

LEMMA PartFacts ==
  ASSUME TypeOK, NEW b \in Blocks, ~IsLeaf(b[1]), NEW c \in Parts(b)
  PROVE  /\ c \in Blocks /\ Inside(c, b) /\ ~Inside(b, c)
         /\ Level(c[1]) = Level(b[1]) + 1
         /\ IsLeaf(b[2]) => c[2] = b[2]
         /\ ~IsLeaf(b[2]) => Level(c[2]) = Level(b[2]) + 1
<1>1. b[1] \in Nodes /\ b[2] \in Nodes
  BY BlockFacts
<1>2. ASSUME NEW i \in Nodes, ~IsLeaf(i), NEW j \in {Tree[i].left, Tree[i].right}
      PROVE  /\ j \in Nodes /\ Level(j) = Level(i) + 1
             /\ Positions(j) \subseteq Positions(i) /\ ~(Positions(i) \subseteq Positions(j))
  <2>1. /\ Tree[i].left \in Nodes /\ Tree[i].right \in Nodes /\ Level(j) = Level(i) + 1
        /\ Positions(Tree[i].left) \cup Positions(Tree[i].right) = Positions(i)
        /\ Apart(Tree[i].left, Tree[i].right)
    BY <1>2, Children, Parents
  <2>2. Positions(Tree[i].left) # {} /\ Positions(Tree[i].right) # {}
    BY <2>1, TreeFacts
  <2> QED BY <2>1, <2>2 DEF Apart
<1>3. /\ c[1] \in {Tree[b[1]].left, Tree[b[1]].right}
      /\ IsLeaf(b[2]) => c[2] = b[2]
      /\ ~IsLeaf(b[2]) => c[2] \in {Tree[b[2]].left, Tree[b[2]].right}
      /\ c = <<c[1], c[2]>>
  BY DEF Parts
<1>4. /\ c[1] \in Nodes /\ Level(c[1]) = Level(b[1]) + 1
      /\ Positions(c[1]) \subseteq Positions(b[1]) /\ ~(Positions(b[1]) \subseteq Positions(c[1]))
  BY <1>1, <1>2, <1>3
<1>5. ~IsLeaf(b[2]) => /\ c[2] \in Nodes /\ Level(c[2]) = Level(b[2]) + 1
                       /\ Positions(c[2]) \subseteq Positions(b[2])
  BY <1>1, <1>2, <1>3
<1> QED BY <1>1, <1>3, <1>4, <1>5 DEF Inside, Blocks

\* A block that is not final is handed to the children of its row.
LEMMA TestSplit ==
  ASSUME TypeOK, NEW open, NEW done, NEW V, NEW b0, NEW v0, NEW V2, NEW open2, NEW isFar,
         DOMAIN V \subseteq Blocks, Tested(open, done, V, b0, v0, V2, open2),
         Mirrored(open, {}, done, V, isFar), ~IsLeaf(b0[1]), ~Ends(b0, v0),
         open2 \subseteq open \cup Parts(b0), NEW done2 \in SUBSET done, NEW isFar2
  PROVE  Mirrored(open2, {}, done2, V2, isFar2)
<1>1. /\ LevelOK(open, {}, done) /\ AheadOK(open, {}, done, V, isFar)
      /\ DepthOK(open, {}, done, isFar) /\ PairOK({}, done, isFar)
  BY DEF Mirrored
<1>2. b0 \in Blocks /\ b0 \in open /\ done \subseteq Blocks
  BY TestVerdict DEF Tested
<1>3. /\ b0[1] \in Nodes /\ b0[2] \in Nodes
      /\ Level(b0[1]) \in Nat /\ Level(b0[2]) \in Nat
      /\ SameLevel(b0) \/ (IsLeaf(b0[2]) /\ Level(b0[2]) < Level(b0[1]))
  BY <1>1, <1>2, BlockFacts, Parents DEF LevelOK
<1>4. LevelOK(open2, {}, done2)
  <2>1. ASSUME NEW c \in Parts(b0)
        PROVE  SameLevel(c) \/ (IsLeaf(c[2]) /\ Level(c[2]) < Level(c[1]))
    <3>1. CASE IsLeaf(b0[2])
      <4>1. Level(b0[2]) <= Level(b0[1])
        BY <1>3 DEF SameLevel
      <4>2. c[2] = b0[2] /\ Level(c[1]) = Level(b0[1]) + 1
        BY <1>2, <3>1, PartFacts
      <4> QED BY <1>3, <3>1, <4>1, <4>2
    <3>2. CASE ~IsLeaf(b0[2])
      <4>1. Level(c[2]) = Level(b0[2]) + 1 /\ Level(c[1]) = Level(b0[1]) + 1
        BY <1>2, <3>2, PartFacts
      <4> QED BY <1>3, <3>2, <4>1 DEF SameLevel
    <3> QED BY <3>1, <3>2
  <2> QED BY <1>1, <2>1 DEF LevelOK
<1>5. MemoryOK(open2, V2)
  BY TestKeepsMemory
<1>6. AheadOK(open2, {}, done2, V2, isFar2)
  <2> SUFFICES ASSUME NEW b \in open2, NEW c \in open2 \cup {} \cup done2, NEW d \in Blocks,
                      Inside(d, b), SameLevel(d), Crossing(d, c), Above(d, c)
               PROVE  /\ c # Mirror(d) => Seen(d, V2, FALSE)
                      /\ c = Mirror(d) /\ c \in done2 => Seen(d, V2, TRUE)
    BY Zenon DEF AheadOK
  <2>1. CASE c \in open \cup done
    <3>1. /\ c # Mirror(d) => Seen(d, V2, FALSE)
          /\ c = Mirror(d) /\ c \in done => Seen(d, V2, TRUE)
      BY <1>1, <2>1, TestAhead
    <3> QED BY <3>1
  <2>2. CASE c \in Parts(b0) /\ c \notin done
    <3> SUFFICES ASSUME c # Mirror(d) PROVE Seen(d, V2, FALSE)
      BY <2>2
    <3>1. /\ c \in Blocks /\ Inside(c, b0) /\ Level(c[1]) = Level(b0[1]) + 1
          /\ IsLeaf(b0[2]) => c[2] = b0[2]
          /\ ~IsLeaf(b0[2]) => Level(c[2]) = Level(b0[2]) + 1
      BY <1>2, <2>2, PartFacts
    <3>2. Crossing(d, b0)
      BY <3>1, InsideCrosses
    <3>3. Level(d[1]) \in Nat /\ Level(d[1]) <= Level(c[1]) /\ Level(d[1]) <= Level(c[2])
      BY BlockFacts, Parents DEF Above
    <3>4. Above(d, b0)
      <4> SUFFICES ASSUME ~Above(d, b0) PROVE FALSE
        OBVIOUS
      <4>1. CASE IsLeaf(b0[2])
        <5>1. Level(b0[2]) <= Level(b0[1])
          BY <1>3 DEF SameLevel
        <5> QED BY <1>3, <3>1, <3>3, <4>1, <5>1 DEF Above
      <4>2. CASE ~IsLeaf(b0[2])
        <5>1. Level(b0[1]) = Level(b0[2]) /\ Level(c[1]) = Level(c[2])
          BY <1>3, <3>1, <4>2 DEF SameLevel
        <5>2. Level(d[1]) = Level(c[1])
          BY <1>3, <3>1, <3>3, <5>1 DEF Above
        <5> QED BY <3>1, <5>1, <5>2, CrossingOnLevel DEF SameLevel
      <4> QED BY <4>1, <4>2
    <3>5. CASE b0 # Mirror(d)
      <4>1. b0 \in open \cup done
        BY <1>2
      <4> QED BY <1>1, <3>2, <3>4, <3>5, <4>1, TestAhead
    <3>6. CASE Mirror(d) = b0
      <4>1. b0 \in DOMAIN V2 /\ V2[b0] = v0
        BY <3>6, TestMemory
      <4>2. ~Ends(d, v0)
        BY <3>6, BlockFacts
      <4> QED BY <3>6, <4>1, <4>2 DEF Seen
    <3> QED BY <3>5, <3>6
  <2> QED BY <2>1, <2>2
<1>7. DepthOK(open2, {}, done2, isFar2)
  <2> SUFFICES ASSUME NEW b \in open2, NEW c \in done2, Crossing(b, c), SameLevel(c)
               PROVE  Level(b[1]) <= Level(c[1])
    BY DEF DepthOK
  <2>1. CASE b \in open
    BY <1>1, <2>1 DEF DepthOK
  <2>2. CASE b \in Parts(b0)
    <3>1. b \in Blocks /\ Inside(b, b0) /\ Level(b[1]) = Level(b0[1]) + 1
      BY <1>2, <2>2, PartFacts
    <3>2. c \in Blocks /\ c \in done /\ c \in open \cup done
      BY <1>2
    <3>3. Crossing(b0, c)
      BY <3>1, CrossingBack, InsideCrosses
    <3>4. /\ c[1] \in Nodes /\ c[2] \in Nodes /\ Level(c[1]) \in Nat
          /\ Level(b0[1]) <= Level(c[1]) /\ Level(c[1]) = Level(c[2])
      BY <1>1, <1>2, <3>2, <3>3, BlockFacts, Parents DEF DepthOK, SameLevel
    <3> SUFFICES ASSUME Level(b0[1]) = Level(c[1]) PROVE FALSE
      BY <1>3, <3>1, <3>4
    <3>5. SameLevel(b0)
      <4>1. CASE IsLeaf(b0[2]) /\ Level(b0[2]) < Level(b0[1])
        <5>1. Level(c[1]) <= Level(b0[2])
          BY <1>3, <3>3, <3>4, <4>1, LeafBelow DEF Crossing
        <5> QED BY <1>3, <3>4, <4>1, <5>1
      <4> QED BY <1>3, <4>1
    <3>6. c = Mirror(b0)
      BY <1>2, <3>2, <3>3, <3>5, CrossingOnLevel
    <3>7. Above(b0, c)
      BY <3>4 DEF Above
    <3> QED BY <1>1, <3>2, <3>3, <3>5, <3>6, <3>7, TestCrossing
  <2> QED BY <2>1, <2>2
<1>8. PairOK({}, done2, isFar2)
  BY <1>1 DEF PairOK
<1> QED BY <1>4, <1>5, <1>6, <1>7, <1>8 DEF Mirrored

-----------------------------------------------------------------------------
(* Descents keep the invariant *)

LEMMA Fewer ==
  ASSUME NEW open, NEW fall, NEW done, NEW V, NEW isFar, Mirrored(open, fall, done, V, isFar),
         NEW open2 \in SUBSET open, NEW fall2 \in SUBSET fall, NEW done2 \in SUBSET done
  PROVE  Mirrored(open2, fall2, done2, V, isFar)
<1>1. LevelOK(open2, fall2, done2) /\ MemoryOK(open2, V)
  BY DEF Mirrored, LevelOK, MemoryOK
<1>2. AheadOK(open2, fall2, done2, V, isFar)
  <2> SUFFICES ASSUME NEW b \in open2, NEW c \in open2 \cup fall2 \cup done2, NEW d \in Blocks,
                      Inside(d, b), SameLevel(d), Crossing(d, c), Above(d, c)
               PROVE  /\ c # Mirror(d) => Seen(d, V, FALSE)
                      /\ c = Mirror(d) /\ c \in done2 => Seen(d, V, TRUE)
                      /\ c = Mirror(d) /\ c \in fall2 => c \in DOMAIN V /\ V[c] = isFar
    BY DEF AheadOK
  <2>1. b \in open /\ c \in open \cup fall \cup done /\ AheadOK(open, fall, done, V, isFar)
    BY DEF Mirrored
  <2>2. /\ c # Mirror(d) => Seen(d, V, FALSE)
        /\ c = Mirror(d) /\ c \in done => Seen(d, V, TRUE)
        /\ c = Mirror(d) /\ c \in fall => c \in DOMAIN V /\ V[c] = isFar
    BY <2>1 DEF AheadOK
  <2> QED BY <2>2
<1>3. DepthOK(open2, fall2, done2, isFar)
  BY DEF Mirrored, DepthOK
<1>4. PairOK(fall2, done2, isFar)
  BY DEF Mirrored, PairOK
<1> QED BY <1>1, <1>2, <1>3, <1>4 DEF Mirrored

\* The top of a descent that stops becomes final.
LEMMA FallStops ==
  ASSUME TypeOK, NEW open, NEW fall, NEW done, NEW V, NEW isFar \in BOOLEAN,
         open \subseteq Blocks, fall \subseteq Blocks, done \subseteq Blocks,
         Mirrored(open, fall, done, V, isFar),
         NEW c0 \in fall, IsLeaf(c0[1]), StopsUnder(isFar, c0[2]),
         NEW fall2 \in SUBSET fall, \A f \in fall2 : f[1] = c0[1] /\ Apart(c0[2], f[2]),
         NEW done2 \in SUBSET (done \cup {c0})
  PROVE  Mirrored(open, fall2, done2, V, isFar)
<1>1. /\ LevelOK(open, fall, done) /\ MemoryOK(open, V)
      /\ AheadOK(open, fall, done, V, isFar) /\ DepthOK(open, fall, done, isFar)
      /\ PairOK(fall, done, isFar)
  BY DEF Mirrored
<1>2. c0 \in Blocks /\ c0[1] \in Nodes /\ c0[2] \in Nodes /\ Ends(c0, isFar)
  <2>1. c0 \in Blocks
    OBVIOUS
  <2> QED BY <2>1, BlockFacts, LeafStops
<1>3. LevelOK(open, fall2, done2)
  BY <1>1 DEF LevelOK
<1>4. AheadOK(open, fall2, done2, V, isFar)
  <2> SUFFICES ASSUME NEW b \in open, NEW c \in open \cup fall2 \cup done2, NEW d \in Blocks,
                      Inside(d, b), SameLevel(d), Crossing(d, c), Above(d, c)
               PROVE  /\ c # Mirror(d) => Seen(d, V, FALSE)
                      /\ c = Mirror(d) /\ c \in done2 => Seen(d, V, TRUE)
                      /\ c = Mirror(d) /\ c \in fall2 => c \in DOMAIN V /\ V[c] = isFar
    BY DEF AheadOK
  <2>1. c \in open \cup fall \cup done
    OBVIOUS
  <2>2. /\ c # Mirror(d) => Seen(d, V, FALSE)
        /\ c = Mirror(d) /\ c \in done => Seen(d, V, TRUE)
        /\ c = Mirror(d) /\ c \in fall => c \in DOMAIN V /\ V[c] = isFar
    BY <1>1, <2>1 DEF AheadOK
  <2>3. Mirror(d) = c0 => Ends(d, isFar)
    BY <1>2, BlockFacts
  <2>4. c = Mirror(d) /\ c = c0 => Seen(d, V, TRUE)
    BY <2>2, <2>3 DEF Seen
  <2> QED BY <2>2, <2>4
<1>5. DepthOK(open, fall2, done2, isFar)
  BY <1>1 DEF DepthOK
<1>6. PairOK(fall2, done2, isFar)
  <2>1. \A x, y \in done : Crossing(x, y) /\ SameLevel(x) => y = Mirror(x)
    BY <1>1 DEF PairOK
  <2>2. \A x \in done, f \in fall :
          Crossing(x, f) => /\ SameLevel(x) => f = Mirror(x) /\ StopsUnder(isFar, f[2])
                            /\ SameLevel(f) /\ StopsUnder(isFar, f[2]) => x = Mirror(f)
    BY <1>1 DEF PairOK
  <2>3. \A x \in done : Crossing(x, c0) => /\ SameLevel(x) => c0 = Mirror(x)
                                           /\ SameLevel(c0) => x = Mirror(c0)
    BY <2>2
  <2>4. \A x \in done : Crossing(c0, x) => Crossing(x, c0)
    BY CrossingBack
  <2>5. Crossing(c0, c0) /\ SameLevel(c0) => c0 = Mirror(c0)
    BY <1>2, CrossingOnLevel
  <2>6. \A x, y \in done2 : Crossing(x, y) /\ SameLevel(x) => y = Mirror(x)
    BY <2>1, <2>3, <2>4, <2>5
  <2>7. ASSUME NEW f \in fall2, Crossing(c0, f) PROVE ~SameLevel(c0) /\ ~SameLevel(f)
    <3>1. f[1] = c0[1] /\ Apart(c0[2], f[2]) /\ f[2] \in Nodes /\ f \in Blocks
      BY BlockFacts
    <3>2. ~Apart(c0[1], f[2]) /\ ~Apart(c0[1], c0[2])
      BY <2>7, <3>1 DEF Crossing, Apart
    <3>3. SameLevel(c0) => c0[1] = c0[2]
      BY <1>2, <3>2, OneOnLevel DEF SameLevel
    <3>4. SameLevel(f) => c0[1] = f[2]
      BY <1>2, <3>1, <3>2, OneOnLevel DEF SameLevel
    <3> QED BY <3>1, <3>2, <3>3, <3>4 DEF Apart
  <2> QED BY <2>2, <2>6, <2>7 DEF PairOK
<1> QED BY <1>1, <1>3, <1>4, <1>5, <1>6 DEF Mirrored

\* The top of a descent that goes on makes way for its children.
LEMMA FallGoesOn ==
  ASSUME TypeOK, NEW open, NEW fall, NEW done, NEW V, NEW isFar \in BOOLEAN,
         open \subseteq Blocks, fall \subseteq Blocks, done \subseteq Blocks,
         Mirrored(open, fall, done, V, isFar),
         NEW c0 \in fall, IsLeaf(c0[1]), ~StopsUnder(isFar, c0[2]), ~IsLeaf(c0[2]),
         NEW fall2,
         \A f \in fall2 :
           f \in fall \/ (f[1] = c0[1] /\ f[2] \in {Tree[c0[2]].left, Tree[c0[2]].right})
  PROVE  Mirrored(open, fall2, done, V, isFar)
<1>1. /\ LevelOK(open, fall, done) /\ MemoryOK(open, V)
      /\ AheadOK(open, fall, done, V, isFar) /\ DepthOK(open, fall, done, isFar)
      /\ PairOK(fall, done, isFar)
  BY DEF Mirrored
<1>2. /\ c0 \in Blocks /\ c0[1] \in Nodes /\ c0[2] \in Nodes /\ ~Ends(c0, isFar)
      /\ Level(c0[1]) \in Nat /\ Level(c0[2]) \in Nat
  <2>1. c0 \in Blocks
    OBVIOUS
  <2> QED BY <2>1, BlockFacts, LeafStops, Parents
<1>3. Level(c0[1]) <= Level(c0[2])
  BY <1>1, <1>2 DEF LevelOK, SameLevel
<1>4. ASSUME NEW f \in fall2, f \notin fall
      PROVE  /\ f[1] = c0[1] /\ Level(f[2]) = Level(c0[2]) + 1 /\ ~SameLevel(f)
             /\ Level(f[1]) < Level(f[2]) /\ Inside(f, c0)
  <2>1. f[1] = c0[1] /\ f[2] \in {Tree[c0[2]].left, Tree[c0[2]].right}
    BY <1>4
  <2>2. Level(f[2]) = Level(c0[2]) + 1 /\ Positions(f[2]) \subseteq Positions(c0[2])
    BY <1>2, <2>1, Children, Parents
  <2> QED BY <1>2, <1>3, <2>1, <2>2 DEF SameLevel, Inside
<1>5. LevelOK(open, fall2, done)
  BY <1>1, <1>4 DEF LevelOK
<1>6. AheadOK(open, fall2, done, V, isFar)
  <2> SUFFICES ASSUME NEW b \in open, NEW c \in open \cup fall2 \cup done, NEW d \in Blocks,
                      Inside(d, b), SameLevel(d), Crossing(d, c), Above(d, c)
               PROVE  /\ c # Mirror(d) => Seen(d, V, FALSE)
                      /\ c = Mirror(d) /\ c \in done => Seen(d, V, TRUE)
                      /\ c = Mirror(d) /\ c \in fall2 => c \in DOMAIN V /\ V[c] = isFar
    BY DEF AheadOK
  <2>1. CASE c \in open \cup fall \cup done
    <3>1. /\ c # Mirror(d) => Seen(d, V, FALSE)
          /\ c = Mirror(d) /\ c \in done => Seen(d, V, TRUE)
          /\ c = Mirror(d) /\ c \in fall => c \in DOMAIN V /\ V[c] = isFar
      BY <1>1, <2>1 DEF AheadOK
    <3>2. c = Mirror(d) => SameLevel(c)
      BY BlockFacts DEF SameLevel
    <3>3. c = Mirror(d) /\ c \in fall2 => c \in fall
      BY <1>4, <3>2
    <3> QED BY <3>1, <3>3
  <2>2. CASE c \notin open \cup fall \cup done
    <3>1. /\ c \in fall2 /\ c[1] = c0[1] /\ Level(c[2]) = Level(c0[2]) + 1
          /\ ~SameLevel(c) /\ Inside(c, c0)
      BY <1>4, <2>2
    <3>2. c # Mirror(d)
      BY <3>1, BlockFacts DEF SameLevel
    <3>3. Crossing(d, c0)
      BY <3>1, InsideCrosses
    <3>4. Level(d[1]) \in Nat /\ Level(d[1]) <= Level(c0[1])
      BY <3>1, BlockFacts, Parents DEF Above
    <3>5. Above(d, c0)
      BY <1>2, <1>3, <3>4 DEF Above
    <3>6. c0 \in open \cup fall \cup done
      OBVIOUS
    <3>7. /\ c0 # Mirror(d) => Seen(d, V, FALSE)
          /\ c0 = Mirror(d) => c0 \in DOMAIN V /\ V[c0] = isFar
      BY <1>1, <3>3, <3>5, <3>6 DEF AheadOK
    <3>8. Mirror(d) = c0 => ~Ends(d, isFar)
      BY <1>2, BlockFacts
    <3>9. Seen(d, V, FALSE)
      BY <3>7, <3>8 DEF Seen
    <3> QED BY <2>2, <3>2, <3>9
  <2> QED BY <2>1, <2>2
<1>7. DepthOK(open, fall2, done, isFar)
  BY <1>1, <1>4 DEF DepthOK
<1>8. PairOK(fall2, done, isFar)
  <2>1. \A x \in done, f \in fall :
          Crossing(x, f) => /\ SameLevel(x) => f = Mirror(x) /\ StopsUnder(isFar, f[2])
                            /\ SameLevel(f) /\ StopsUnder(isFar, f[2]) => x = Mirror(f)
    BY <1>1 DEF PairOK
  <2>2. ASSUME NEW x \in done, NEW f \in fall2, f \notin fall, Crossing(x, f)
        PROVE  ~SameLevel(x) /\ ~SameLevel(f)
    <3>1. Crossing(x, c0) /\ ~SameLevel(f)
      BY <1>4, <2>2, InsideCrosses
    <3> QED BY <2>1, <3>1
  <2>3. \A x, y \in done : Crossing(x, y) /\ SameLevel(x) => y = Mirror(x)
    BY <1>1 DEF PairOK
  <2> QED BY <2>1, <2>2, <2>3 DEF PairOK
<1> QED BY <1>1, <1>5, <1>6, <1>7, <1>8 DEF Mirrored

-----------------------------------------------------------------------------
(* The blocks of a state *)

\* Still to be tested: the columns of the queued rows, the untested ones of the
\* current row, and what its children will get.
OpenBlocks ==
  {b \in Blocks :
     \/ b[1] \in Elements(nodeList) /\ b[2] \in Elements(closeMat[b[1]])
     \/ row # None /\ b[1] = row /\ b[2] \in Elements(Untested)
     \/ /\ row # None /\ ~IsLeaf(row)
        /\ b[1] \in {Tree[row].left, Tree[row].right} /\ b[2] \in Elements(kept)}
FallBlocks == {b \in Blocks : row # None /\ b[1] = row /\ b[2] \in Elements(stack)}
DoneBlocks ==
  {b \in Blocks :
     \/ b[2] \in Elements(farMat[b[1]])
     \/ b[1] \in Elements(leafList) /\ b[2] \in Elements(closeMat[b[1]])
     \/ row # None /\ IsLeaf(row) /\ b[1] = row /\ b[2] \in Elements(kept)}

MirrorInv ==
  VerdictsMirror /\ stage = "rows" =>
    Mirrored(OpenBlocks, FallBlocks, DoneBlocks, verdict, farBelow)

\* The invariant of a next state, said with the tree of this one.
LEMMA MirrorNext ==
  ASSUME input' = input,
         VerdictsMirror /\ stage' = "rows" =>
           Mirrored(OpenBlocks', FallBlocks', DoneBlocks', verdict', farBelow')
  PROVE  MirrorInv'
<1> SUFFICES ASSUME VerdictsMirror, stage' = "rows"
             PROVE  Mirrored(OpenBlocks, FallBlocks, DoneBlocks, verdict, farBelow)'
  BY DEF MirrorInv
<1>1. Mirrored(OpenBlocks', FallBlocks', DoneBlocks', verdict', farBelow')
  OBVIOUS
<1>2. LevelOK(OpenBlocks, FallBlocks, DoneBlocks)'
  BY <1>1 DEF Mirrored, LevelOK, SameLevel, Level, IsLeaf, Tree
<1>3. MemoryOK(OpenBlocks, verdict)'
  BY <1>1 DEF Mirrored, MemoryOK, Inside, Positions, Tree
<1>4. AheadOK(OpenBlocks, FallBlocks, DoneBlocks, verdict, farBelow)'
  <2> SUFFICES ASSUME NEW b \in OpenBlocks', NEW c \in (OpenBlocks \cup FallBlocks \cup DoneBlocks)',
                      NEW d \in Blocks', (Inside(d, b) /\ SameLevel(d))',
                      (Crossing(d, c) /\ Above(d, c))'
               PROVE  (/\ c # Mirror(d) => Seen(d, verdict, FALSE)
                       /\ c = Mirror(d) /\ c \in DoneBlocks => Seen(d, verdict, TRUE)
                       /\ c = Mirror(d) /\ c \in FallBlocks =>
                            c \in DOMAIN verdict /\ verdict[c] = farBelow)'
    BY DEF AheadOK
  <2>1. d \in Blocks /\ c \in OpenBlocks' \cup FallBlocks' \cup DoneBlocks'
    BY DEF Blocks, Nodes, Tree
  <2>2. Inside(d, b) /\ SameLevel(d)
    BY DEF Inside, SameLevel, Positions, Level, Tree
  <2>3. Crossing(d, c) /\ Above(d, c)
    BY DEF Crossing, Above, Apart, Positions, Level, Tree
  <2>4. /\ c # Mirror(d) => Seen(d, verdict', FALSE)
        /\ c = Mirror(d) /\ c \in DoneBlocks' => Seen(d, verdict', TRUE)
        /\ c = Mirror(d) /\ c \in FallBlocks' =>
             c \in DOMAIN verdict' /\ verdict'[c] = farBelow'
    BY <1>1, <2>1, <2>2, <2>3 DEF Mirrored, AheadOK
  <2>5. /\ Seen(d, verdict', FALSE) => Seen(d, verdict, FALSE)'
        /\ Seen(d, verdict', TRUE) => Seen(d, verdict, TRUE)'
    BY DEF Seen, Ends, Small, Size, MaxSize, IsLeaf, Tree, Mirror
  <2> QED BY <2>4, <2>5 DEF Mirror
<1>5. DepthOK(OpenBlocks, FallBlocks, DoneBlocks, farBelow)'
  BY <1>1 DEF Mirrored, DepthOK, Crossing, SameLevel, StopsUnder, Small, Size, MaxSize, Apart,
              Positions, IsLeaf, Level, Tree
<1>6. PairOK(FallBlocks, DoneBlocks, farBelow)'
  BY <1>1 DEF Mirrored, PairOK, Crossing, SameLevel, StopsUnder, Small, Size, MaxSize, Apart,
              Positions, IsLeaf, Level, Mirror, Tree
<1> QED BY <1>2, <1>3, <1>4, <1>5, <1>6 DEF Mirrored

LEMMA BlocksNext ==
  ASSUME input' = input
  PROVE  /\ Blocks' = Blocks
         /\ OpenBlocks' =
              {b \in Blocks :
                 \/ b[1] \in Elements(nodeList') /\ b[2] \in Elements(closeMat'[b[1]])
                 \/ row' # None /\ b[1] = row' /\ b[2] \in Elements(Untested')
                 \/ /\ row' # None /\ ~IsLeaf(row')
                    /\ b[1] \in {Tree[row'].left, Tree[row'].right} /\ b[2] \in Elements(kept')}
         /\ FallBlocks' = {b \in Blocks : row' # None /\ b[1] = row' /\ b[2] \in Elements(stack')}
         /\ DoneBlocks' =
              {b \in Blocks :
                 \/ b[2] \in Elements(farMat'[b[1]])
                 \/ b[1] \in Elements(leafList') /\ b[2] \in Elements(closeMat'[b[1]])
                 \/ row' # None /\ IsLeaf(row') /\ b[1] = row' /\ b[2] \in Elements(kept')}
<1>1. Tree' = Tree /\ Nodes' = Nodes
  BY SameTree
<1> QED BY <1>1 DEF Blocks, OpenBlocks, FallBlocks, DoneBlocks, IsLeaf, Elements

LEMMA BlockTypes ==
  OpenBlocks \subseteq Blocks /\ FallBlocks \subseteq Blocks /\ DoneBlocks \subseteq Blocks
BY DEF OpenBlocks, FallBlocks, DoneBlocks

LEMMA ElementsConcat ==
  ASSUME NEW S, NEW s \in Seq(S), NEW t \in Seq(S)
  PROVE  Elements(s \o t) = Elements(s) \cup Elements(t)
<1>1. /\ Len(s) \in Nat /\ Len(t) \in Nat /\ DOMAIN s = 1 .. Len(s) /\ DOMAIN t = 1 .. Len(t)
      /\ DOMAIN (s \o t) = 1 .. Len(s) + Len(t)
      /\ \A k \in 1 .. Len(s) : (s \o t)[k] = s[k]
      /\ \A k \in 1 .. Len(t) : (s \o t)[Len(s) + k] = t[k]
  OBVIOUS
<1> DEFINE n == Len(s)
<1> HIDE DEF n
<1>2. /\ n \in Nat /\ \A k \in DOMAIN s : k \in DOMAIN (s \o t) /\ (s \o t)[k] = s[k]
      /\ \A k \in DOMAIN t : n + k \in DOMAIN (s \o t) /\ (s \o t)[n + k] = t[k]
      /\ \A k \in DOMAIN (s \o t) : k \in DOMAIN s \/ (k - n \in DOMAIN t /\ n + (k - n) = k)
  BY <1>1 DEF n
<1>3. ASSUME NEW x \in Elements(s \o t) PROVE x \in Elements(s) \/ x \in Elements(t)
  <2>1. PICK k \in DOMAIN (s \o t) : x = (s \o t)[k]
    BY DEF Elements
  <2>2. CASE k \in DOMAIN s
    BY <1>2, <2>1, <2>2 DEF Elements
  <2>3. CASE k - n \in DOMAIN t /\ n + (k - n) = k
    BY <1>2, <2>1, <2>3 DEF Elements
  <2> QED BY <1>2, <2>1, <2>2, <2>3
<1>4. Elements(s) \subseteq Elements(s \o t)
  BY <1>2 DEF Elements
<1>5. Elements(t) \subseteq Elements(s \o t)
  <2> SUFFICES ASSUME NEW k \in DOMAIN t PROVE t[k] \in Elements(s \o t)
    BY DEF Elements
  <2>1. n + k \in DOMAIN (s \o t) /\ (s \o t)[n + k] = t[k]
    BY <1>2
  <2> QED BY <2>1 DEF Elements
<1> QED BY <1>3, <1>4, <1>5

LEMMA ElementsPair ==
  ASSUME NEW x, NEW y
  PROVE  Elements(<<x>>) = {x} /\ Elements(<<x, y>>) = {x, y} /\ Elements(<<>>) = {}
BY DEF Elements

\* Columns that are held once with another one are apart from it.
LEMMA OnceApart ==
  ASSUME NEW s \in Seq(Nodes), NEW c, \A q \in Positions(c) : Times(s, q) + Times(<<c>>, q) <= 1
  PROVE  \A x \in Elements(s) : Apart(c, x)
<1> SUFFICES ASSUME NEW k \in DOMAIN s, NEW q, q \in Positions(c), q \in Positions(s[k])
             PROVE  FALSE
  BY DEF Elements, Apart
<1>1. IsFiniteSet(Hits(s, q)) /\ Times(s, q) \in Nat
  BY TimesType
<1>2. Times(<<c>>, q) = 1
  BY TimesOne
<1>3. Times(s, q) = 0
  BY <1>1, <1>2
<1>4. Hits(s, q) = {}
  BY <1>1, <1>3, FS_EmptySet DEF Times
<1> QED BY <1>4 DEF Hits

\* A row that is started keeps its columns.
LEMMA StartRowMirror == ASSUME IInv, MirrorInv, StartRow PROVE MirrorInv'
<1>1. /\ stage = "rows" /\ row = None /\ stack = <<>> /\ kept = <<>> /\ nodeList # <<>>
      /\ row' = Head(nodeList) /\ nodeList' = Tail(nodeList) /\ col' = 1 /\ kept' = <<>>
      /\ input' = input /\ stage' = stage /\ stack' = stack /\ farBelow' = farBelow
      /\ closeMat' = closeMat /\ farMat' = farMat /\ leafList' = leafList
      /\ verdict' = verdict
  BY DEF IInv, RowInv, StartRow, descent
<1>2. nodeList \in Seq(Nodes) /\ closeMat \in [Rows -> Seq(Nodes)] /\ Nodes \subseteq Rows
  BY TreeFacts DEF IInv, TypeOK
<1>3. row' \in Elements(nodeList) /\ Elements(nodeList') \subseteq Elements(nodeList)
      /\ row' \in Nodes
  BY <1>1, <1>2 DEF Elements
<1>4. Untested' = closeMat[row']
  BY <1>1, <1>2, <1>3, WholeList DEF Untested
<1>5. Elements(kept') = {} /\ Elements(stack') = {}
  BY <1>1, ElementsPair
<1>6. OpenBlocks' \subseteq OpenBlocks /\ FallBlocks' \subseteq FallBlocks
      /\ DoneBlocks' \subseteq DoneBlocks
  <2>1. OpenBlocks' \subseteq OpenBlocks
    BY <1>1, <1>3, <1>4, <1>5, BlocksNext DEF OpenBlocks
  <2>2. FallBlocks' \subseteq FallBlocks
    BY <1>1, <1>5, BlocksNext
  <2>3. DoneBlocks' \subseteq DoneBlocks
    BY <1>1, <1>5, BlocksNext DEF DoneBlocks
  <2> QED BY <2>1, <2>2, <2>3
<1>7. VerdictsMirror => Mirrored(OpenBlocks', FallBlocks', DoneBlocks', verdict', farBelow')
  BY <1>1, <1>6, Fewer DEF MirrorInv
<1> QED BY <1>1, <1>7, MirrorNext

\* A row that ends hands its columns to its children, or keeps them for good.
LEMMA EndRowMirror == ASSUME IInv, MirrorInv, EndRow PROVE MirrorInv'
<1>1. /\ TypeOK /\ stage = "rows" /\ row # None /\ stack = <<>> /\ row \in Nodes /\ row \in Rows
      /\ kept \in Seq(Nodes)
      /\ input' = input /\ stage' = stage /\ stack' = stack /\ farBelow' = farBelow
      /\ farMat' = farMat /\ verdict' = verdict
      /\ row' = None /\ col' = 0 /\ kept' = <<>>
  BY EndRowFacts
<1>2. /\ nodeList \in Seq(Nodes) /\ leafList \in Seq(Nodes) /\ closeMat \in [Rows -> Seq(Nodes)]
      /\ Nodes \subseteq Rows
  <2>1. LeafNodes \subseteq Nodes /\ leafList \in Seq(LeafNodes)
    BY <1>1 DEF LeafNodes, TypeOK
  <2> QED BY <1>1, <2>1, TreeFacts DEF TypeOK
<1>3. \A i \in Waiting : i # row /\ i \in Rows
  BY <1>1, OutsideWaiting, WaitingNodes
<1>4. Elements(nodeList) \subseteq Waiting /\ Elements(leafList) \subseteq Waiting
  BY DEF Waiting
<1>5. OpenBlocks' \subseteq OpenBlocks /\ DoneBlocks' \subseteq DoneBlocks
  <2>1. CASE IsLeaf(row)
    <3>1. /\ closeMat' = [closeMat EXCEPT ![row] = kept] /\ leafList' = Append(leafList, row)
          /\ nodeList' = nodeList
      BY <2>1 DEF EndRow
    <3>2. closeMat'[row] = kept /\ \A i \in Waiting : closeMat'[i] = closeMat[i]
      BY <1>1, <1>2, <1>3, <3>1
    <3>3. Elements(leafList') = Elements(leafList) \cup {row}
      <4>1. Append(leafList, row) = leafList \o <<row>> /\ <<row>> \in Seq(Nodes)
        BY <1>1, <1>2
      <4>2. Elements(leafList \o <<row>>) = Elements(leafList) \cup Elements(<<row>>)
        BY <1>2, <4>1, ElementsConcat
      <4> QED BY <3>1, <4>1, <4>2, ElementsPair
    <3>4. OpenBlocks' \subseteq OpenBlocks
      BY <1>1, <1>4, <3>1, <3>2, BlocksNext DEF OpenBlocks
    <3>5. DoneBlocks' \subseteq DoneBlocks
      BY <1>1, <1>4, <2>1, <3>2, <3>3, BlocksNext DEF DoneBlocks
    <3> QED BY <3>4, <3>5
  <2>2. CASE ~IsLeaf(row)
    <3> DEFINE l == Tree[row].left
               r == Tree[row].right
    <3>1. /\ closeMat' = [closeMat EXCEPT ![l] = kept, ![r] = kept]
          /\ nodeList' = nodeList \o <<l, r>> /\ leafList' = leafList
      BY <2>2 DEF EndRow
    <3>2. /\ l \in Nodes /\ r \in Nodes /\ l \in Rows /\ r \in Rows
          /\ Positions(l) \subseteq Positions(row) /\ Positions(r) \subseteq Positions(row)
      BY <1>1, <1>2, <2>2, Children
    <3>3. \A i \in Waiting : i # l /\ i # r
      BY <1>1, <3>2, OutsideWaiting
    <3> HIDE DEF l, r
    <3>4. /\ closeMat'[l] = kept /\ closeMat'[r] = kept
          /\ \A i \in Waiting : closeMat'[i] = closeMat[i]
      BY <1>2, <1>3, <3>1, <3>2, <3>3
    <3>5. Elements(nodeList') = Elements(nodeList) \cup {l, r}
      <4>1. <<l, r>> \in Seq(Nodes)
        BY <3>2
      <4>2. Elements(nodeList \o <<l, r>>) = Elements(nodeList) \cup Elements(<<l, r>>)
        BY <1>2, <4>1, ElementsConcat
      <4> QED BY <3>1, <4>2, ElementsPair
    <3>6. OpenBlocks' \subseteq OpenBlocks
      BY <1>1, <1>4, <2>2, <3>4, <3>5, BlocksNext DEF OpenBlocks, l, r
    <3>7. DoneBlocks' \subseteq DoneBlocks
      BY <1>1, <1>4, <3>1, <3>4, BlocksNext DEF DoneBlocks
    <3> QED BY <3>6, <3>7
  <2> QED BY <2>1, <2>2
<1>6. FallBlocks' \subseteq FallBlocks
  BY <1>1, BlocksNext
<1>7. VerdictsMirror => Mirrored(OpenBlocks', FallBlocks', DoneBlocks', verdict', farBelow')
  BY <1>1, <1>5, <1>6, Fewer DEF MirrorInv
<1> QED BY <1>1, <1>7, MirrorNext

\* One far column more makes one final block more.
LEMMA FarElements ==
  ASSUME TypeOK, NEW i \in Nodes, NEW j \in Nodes,
         farMat' = [farMat EXCEPT ![i] = @ \o <<j>>]
  PROVE  \A m \in Nodes : \A x \in Elements(farMat'[m]) :
           x \in Elements(farMat[m]) \/ (m = i /\ x = j)
<1>1. farMat \in [Rows -> Seq(Nodes)] /\ Nodes \subseteq Rows
  BY TreeFacts DEF TypeOK
<1>2. farMat'[i] = farMat[i] \o <<j>> /\ farMat[i] \in Seq(Nodes) /\ <<j>> \in Seq(Nodes)
  BY <1>1
<1>3. Elements(farMat[i] \o <<j>>) = Elements(farMat[i]) \cup Elements(<<j>>)
  <2> DEFINE s == farMat[i]
  <2>1. s \in Seq(Nodes)
    BY <1>2
  <2> HIDE DEF s
  <2>2. Elements(s \o <<j>>) = Elements(s) \cup Elements(<<j>>)
    BY <1>2, <2>1, ElementsConcat, ZenonT(40)
  <2> QED BY <2>2 DEF s
<1>4. Elements(farMat'[i]) = Elements(farMat[i]) \cup {j}
  BY <1>2, <1>3, ElementsPair
<1>5. \A m \in Nodes : m # i => farMat'[m] = farMat[m]
  BY <1>1
<1> QED BY <1>4, <1>5

\* The block tested, the verdict on it, and the blocks that are left to test.
LEMMA TestedBlock ==
  ASSUME IInv, TestColumn, VerdictsMirror,
         Mirrored(OpenBlocks, FallBlocks, DoneBlocks, verdict, farBelow),
         NEW j, j = closeMat[row][col], NEW b0, b0 = <<row, j>>
  PROVE  \E isFar \in BOOLEAN :
           /\ IF IsLeaf(row)
              THEN TestOfLeafRow(row, j, isFar) /\ UNCHANGED farMat
              ELSE TestOfInnerRow(row, j, isFar) /\ UNCHANGED descent
           /\ j \in Nodes /\ b0 \in Blocks
           /\ Tested(OpenBlocks, DoneBlocks, verdict, b0, isFar, verdict', OpenBlocks')
           /\ OpenBlocks' \subseteq
                IF ~IsLeaf(row) /\ ~(isFar /\ Small(row) /\ Small(j))
                THEN OpenBlocks \cup Parts(b0) ELSE OpenBlocks
<1>1. /\ TypeOK /\ stage = "rows" /\ row # None /\ stack = <<>>
      /\ col <= Len(closeMat[row])
  BY DEF IInv, TestColumn
<1>2. PICK isFar \in Verdicts(row, j) :
        /\ IF IsLeaf(row)
           THEN TestOfLeafRow(row, j, isFar) /\ UNCHANGED farMat
           ELSE TestOfInnerRow(row, j, isFar) /\ UNCHANGED descent
        /\ Remember(row, j, isFar)
  BY DEF TestColumn
<1>3. /\ nodeList' = nodeList /\ row' = row /\ closeMat' = closeMat /\ leafList' = leafList
      /\ input' = input /\ stage' = stage /\ col' = col + 1
  BY DEF TestColumn
<1>4. /\ j \in Nodes
      /\ \A q : /\ Times(stack, q) = 0 /\ Times(kept, q) \in Nat
                /\ Times(<<j>>, q) \in Nat /\ Times(Untested', q) \in Nat
                /\ Times(Untested, q) = Times(<<j>>, q) + Times(Untested', q)
  BY <1>1, <1>3, NextColumn
<1>5. /\ row \in Nodes /\ closeMat[row] \in Seq(Nodes) /\ col \in 1 .. Len(closeMat[row])
      /\ kept \in Seq(Nodes)
  BY <1>1, VisitFacts
<1>6. /\ Untested = <<j>> \o Untested' /\ <<j>> \in Seq(Nodes) /\ Untested' \in Seq(Nodes)
  BY <1>3, <1>5, FirstAndRest DEF Untested
<1>7. Elements(Untested) = {j} \cup Elements(Untested')
  <2>1. Elements(<<j>> \o Untested') = Elements(<<j>>) \cup Elements(Untested')
    BY <1>6, ElementsConcat, ZenonT(40)
  <2> QED BY <1>6, <2>1, ElementsPair
<1>8. /\ b0 \in Blocks /\ b0[1] = row /\ b0[2] = j /\ Mirror(b0) = <<j, row>>
      /\ b0 \in OpenBlocks
  <2>1. b0 \in Blocks /\ b0[1] = row /\ b0[2] = j /\ Mirror(b0) = <<j, row>>
    BY <1>4, <1>5 DEF Blocks, Mirror
  <2> QED BY <1>1, <1>7, <2>1 DEF OpenBlocks
<1>9. /\ isFar \in BOOLEAN
      /\ ~Apart(row, j) => isFar = FALSE
      /\ Apart(row, j) /\ <<j, row>> \in DOMAIN verdict => isFar = verdict[<<j, row>>]
  <2>1. verdict \in [DOMAIN verdict -> BOOLEAN]
    BY <1>1 DEF TypeOK
  <2> QED BY <1>2, <2>1 DEF Verdicts, Apart
<1>10. /\ DOMAIN verdict' = IF row = j \/ <<j, row>> \in DOMAIN verdict
                            THEN DOMAIN verdict \ {<<j, row>>}
                            ELSE DOMAIN verdict \cup {<<row, j>>}
       /\ \A d \in DOMAIN verdict' : verdict'[d] = IF d = <<row, j>> THEN isFar ELSE verdict[d]
  <2> DEFINE pairs == IF ~VerdictsMirror \/ row = j \/ <<j, row>> \in DOMAIN verdict
                      THEN DOMAIN verdict \ {<<j, row>>}
                      ELSE DOMAIN verdict \cup {<<row, j>>}
  <2>1. verdict' = [pair \in pairs |-> IF pair = <<row, j>> THEN isFar ELSE verdict[pair]]
    BY <1>2 DEF Remember
  <2>2. pairs = IF row = j \/ <<j, row>> \in DOMAIN verdict
                THEN DOMAIN verdict \ {<<j, row>>} ELSE DOMAIN verdict \cup {<<row, j>>}
    OBVIOUS
  <2> HIDE DEF pairs
  <2>3. DOMAIN verdict' = pairs /\ \A d \in pairs : verdict'[d] = IF d = <<row, j>> THEN isFar ELSE verdict[d]
    BY <2>1
  <2> QED BY <2>2, <2>3
<1>11. \A i \in Elements(nodeList) : ~(Positions(row) \subseteq Positions(i))
  <2>1. Positions(row) # {} /\ \A i \in Waiting : Apart(row, i)
    BY <1>1, <1>5, TreeFacts DEF IInv, FrontierInv
  <2> QED BY <2>1 DEF Waiting, Apart
<1>12. \A x \in Elements(Untested') : ~(Positions(j) \subseteq Positions(x))
  <2>1. ASSUME NEW q \in Positions(j) PROVE Times(Untested', q) + Times(<<j>>, q) <= 1
    <3>1. PICK p \in Positions(row) : p \in Particles
      BY <1>1, <1>5, TreeFacts
    <3>2. q \in Particles
      BY <1>1, <1>4, TreeFacts
    <3>3. InFar(p, q) \in Nat
          /\ InFar(p, q) + (Times(kept, q) + Times(stack, q) + Times(Untested, q)) = 1
      BY <1>1, <3>1, <3>2, CoverNow DEF IInv
    <3> QED BY <1>4, <3>3
  <2>2. Positions(j) # {} /\ \A x \in Elements(Untested') : Apart(j, x)
    BY <1>1, <1>4, <1>6, <2>1, OnceApart, TreeFacts
  <2> QED BY <2>2 DEF Apart
<1>13. ~IsLeaf(row) => \A c \in {Tree[row].left, Tree[row].right} : ~(Positions(row) \subseteq Positions(c))
  <2> SUFFICES ASSUME ~IsLeaf(row), NEW c \in {Tree[row].left, Tree[row].right}
               PROVE  ~(Positions(row) \subseteq Positions(c))
    OBVIOUS
  <2>1. /\ Tree[row].left \in Nodes /\ Tree[row].right \in Nodes
        /\ Positions(Tree[row].left) \cup Positions(Tree[row].right) = Positions(row)
        /\ Apart(Tree[row].left, Tree[row].right)
    BY <1>1, <1>5, Children
  <2>2. Positions(Tree[row].left) # {} /\ Positions(Tree[row].right) # {}
    BY <1>1, <2>1, TreeFacts
  <2> QED BY <2>1, <2>2 DEF Apart
<1> DEFINE t == IF IsLeaf(j) THEN <<j>> ELSE <<Tree[j].left, Tree[j].right>>
           split == ~IsLeaf(row) /\ ~(isFar /\ Small(row) /\ Small(j))
<1>14. ~IsLeaf(row) => Elements(kept') = Elements(kept) \cup (IF split THEN Elements(t) ELSE {})
  <2>1. ~IsLeaf(row) => kept' = IF split THEN kept \o t ELSE kept
    BY <1>2 DEF TestOfInnerRow, Keep, Small
  <2>2. t \in Seq(Nodes)
    <3>1. ~IsLeaf(j) => Tree[j].left \in Nodes /\ Tree[j].right \in Nodes
      BY <1>1, <1>4, Children
    <3> QED BY <1>4, <3>1
  <2>3. Elements(kept \o t) = Elements(kept) \cup Elements(t)
    <3> HIDE DEF t
    <3> QED BY <1>5, <2>2, ElementsConcat
  <2> QED BY <2>1, <2>3
<1>15. Elements(t) = IF IsLeaf(j) THEN {j} ELSE {Tree[j].left, Tree[j].right}
  BY ElementsPair
<1> HIDE DEF t
<1>16. ASSUME NEW b \in OpenBlocks'
       PROVE  (b \in OpenBlocks /\ ~Inside(b0, b)) \/ (split /\ b \in Parts(b0))
  <2>1. b \in Blocks /\ b = <<b[1], b[2]>>
    BY <1>3, BlocksNext DEF Blocks
  <2>2. \/ b[1] \in Elements(nodeList) /\ b[2] \in Elements(closeMat[b[1]])
        \/ b[1] = row /\ b[2] \in Elements(Untested')
        \/ /\ ~IsLeaf(row) /\ b[1] \in {Tree[row].left, Tree[row].right}
           /\ b[2] \in Elements(kept')
    BY <1>3, BlocksNext
  <2>3. CASE b[1] \in Elements(nodeList) /\ b[2] \in Elements(closeMat[b[1]])
    BY <1>8, <1>11, <2>1, <2>3 DEF OpenBlocks, Inside
  <2>4. CASE b[1] = row /\ b[2] \in Elements(Untested')
    BY <1>1, <1>7, <1>8, <1>12, <2>1, <2>4 DEF OpenBlocks, Inside
  <2>5. CASE /\ ~IsLeaf(row) /\ b[1] \in {Tree[row].left, Tree[row].right}
             /\ b[2] \in Elements(kept)
    BY <1>1, <1>8, <1>13, <2>1, <2>5 DEF OpenBlocks, Inside
  <2>6. CASE /\ split /\ b[1] \in {Tree[row].left, Tree[row].right} /\ b[2] \in Elements(t)
    BY <1>8, <1>15, <2>1, <2>6 DEF Parts
  <2> QED BY <1>14, <2>2, <2>3, <2>4, <2>5, <2>6
<1>17. OpenBlocks' \subseteq IF split THEN OpenBlocks \cup Parts(b0) ELSE OpenBlocks
  BY <1>16
<1>18. OpenBlocks' \subseteq Blocks
  BY <1>3, BlocksNext
<1>19. \A b \in OpenBlocks' : ~Inside(b0, b) /\ (b \in OpenBlocks \/ Inside(b, b0))
  BY <1>1, <1>8, <1>16, PartFacts
<1>20. Tested(OpenBlocks, DoneBlocks, verdict, b0, isFar, verdict', OpenBlocks')
  <2>1. LevelOK(OpenBlocks, {}, DoneBlocks) /\ MemoryOK(OpenBlocks, verdict)
    BY DEF Mirrored, LevelOK
  <2>2. DOMAIN verdict' = IF b0[1] = b0[2] \/ Mirror(b0) \in DOMAIN verdict
                          THEN DOMAIN verdict \ {Mirror(b0)} ELSE DOMAIN verdict \cup {b0}
    BY <1>8, <1>10
  <2>3. \A d \in DOMAIN verdict' : verdict'[d] = IF d = b0 THEN isFar ELSE verdict[d]
    BY <1>10
  <2>4. ~Apart(b0[1], b0[2]) => isFar = FALSE
    BY <1>8, <1>9
  <2>5. Apart(b0[1], b0[2]) /\ Mirror(b0) \in DOMAIN verdict => isFar = verdict[Mirror(b0)]
    BY <1>8, <1>9
  <2>6. OpenBlocks \subseteq Blocks /\ DoneBlocks \subseteq Blocks
    BY BlockTypes
  <2> QED BY <1>8, <1>9, <1>18, <1>19, <2>1, <2>2, <2>3, <2>4, <2>5, <2>6, Zenon DEF Tested
<1> HIDE DEF split
<1>21. /\ IF IsLeaf(row)
          THEN TestOfLeafRow(row, j, isFar) /\ UNCHANGED farMat
          ELSE TestOfInnerRow(row, j, isFar) /\ UNCHANGED descent
       /\ j \in Nodes /\ b0 \in Blocks
       /\ Tested(OpenBlocks, DoneBlocks, verdict, b0, isFar, verdict', OpenBlocks')
       /\ OpenBlocks' \subseteq
            IF ~IsLeaf(row) /\ ~(isFar /\ Small(row) /\ Small(j))
            THEN OpenBlocks \cup Parts(b0) ELSE OpenBlocks
  BY <1>2, <1>4, <1>8, <1>17, <1>20 DEF split
<1>22. isFar \in BOOLEAN
  BY <1>9
<1> USE <1>22
<1> WITNESS isFar \in BOOLEAN
<1> QED BY <1>21

LEMMA TestColumnMirror == ASSUME IInv, MirrorInv, TestColumn PROVE MirrorInv'
<1> SUFFICES ASSUME VerdictsMirror
             PROVE  Mirrored(OpenBlocks', FallBlocks', DoneBlocks', verdict', farBelow')
  <2>1. input' = input
    BY DEF TestColumn
  <2> QED BY <2>1, MirrorNext
<1>1. /\ TypeOK /\ stage = "rows" /\ row # None /\ stack = <<>> /\ row \in Nodes
      /\ row' = row /\ closeMat' = closeMat /\ leafList' = leafList /\ input' = input
      /\ DOMAIN verdict \subseteq Blocks /\ farBelow \in BOOLEAN
  BY VisitFacts DEF IInv, TestColumn, TypeOK, Blocks
<1>2. Mirrored(OpenBlocks, {}, DoneBlocks, verdict, farBelow)
  <2>1. Elements(stack) = {}
    BY <1>1, ElementsPair
  <2>2. FallBlocks = {}
    BY <2>1 DEF FallBlocks
  <2> QED BY <1>1, <2>2 DEF MirrorInv
<1>3. Mirrored(OpenBlocks, FallBlocks, DoneBlocks, verdict, farBelow)
  BY <1>1 DEF MirrorInv
<1> DEFINE j == closeMat[row][col]
           b0 == <<row, j>>
<1> HIDE DEF j, b0
<1>4. PICK isFar \in BOOLEAN :
        /\ IF IsLeaf(row)
           THEN TestOfLeafRow(row, j, isFar) /\ UNCHANGED farMat
           ELSE TestOfInnerRow(row, j, isFar) /\ UNCHANGED descent
        /\ j \in Nodes /\ b0 \in Blocks
        /\ Tested(OpenBlocks, DoneBlocks, verdict, b0, isFar, verdict', OpenBlocks')
        /\ OpenBlocks' \subseteq
             IF ~IsLeaf(row) /\ ~(isFar /\ Small(row) /\ Small(j))
             THEN OpenBlocks \cup Parts(b0) ELSE OpenBlocks
  <2>1. j = closeMat[row][col] /\ b0 = <<row, j>>
    BY DEF j, b0
  <2> QED BY <1>3, <2>1, TestedBlock
<1>5. b0[1] = row /\ b0[2] = j /\ \A b \in Blocks : b[1] = row /\ b[2] = j => b = b0
  <2>1. b0[1] = row /\ b0[2] = j
    BY DEF b0
  <2> QED BY <1>4, <2>1, BlockFacts
<1>6. CASE IsLeaf(row)
  <2>1. stack' = <<j>> /\ farBelow' = isFar /\ kept' = kept /\ farMat' = farMat
    BY <1>4, <1>6 DEF TestOfLeafRow
  <2>2. FallBlocks' \in SUBSET {b0}
    <3>1. Elements(stack') = {j}
      BY <2>1, ElementsPair
    <3> QED BY <1>1, <1>5, <3>1, BlocksNext
  <2>3. DoneBlocks' \in SUBSET DoneBlocks
    BY <1>1, <2>1, BlocksNext DEF DoneBlocks
  <2>4. OpenBlocks' \subseteq OpenBlocks
    BY <1>4, <1>6
  <2>5. Mirrored(OpenBlocks', FallBlocks', DoneBlocks', verdict', isFar)
    BY <1>1, <1>2, <1>4, <1>5, <1>6, <2>2, <2>3, <2>4, TestFall
  <2> QED BY <2>1, <2>5
<1>7. ASSUME ~IsLeaf(row) PROVE FallBlocks' = {}
  <2>1. stack' = <<>>
    BY <1>1, <1>4, <1>7 DEF descent
  <2> QED BY <1>1, <2>1, BlocksNext, ElementsPair
<1>8. CASE ~IsLeaf(row) /\ isFar /\ Small(row) /\ Small(j)
  <2>1. farMat' = [farMat EXCEPT ![row] = @ \o <<j>>] /\ kept' = kept
    BY <1>4, <1>8 DEF TestOfInnerRow, AddFar, Small
  <2>2. \A m \in Nodes : \A x \in Elements(farMat'[m]) :
          x \in Elements(farMat[m]) \/ (m = row /\ x = j)
    BY <1>1, <1>4, <2>1, FarElements
  <2>3. DoneBlocks' \in SUBSET (DoneBlocks \cup {b0})
    <3> SUFFICES ASSUME NEW b \in DoneBlocks', b # b0 PROVE b \in DoneBlocks
      OBVIOUS
    <3>1. b \in Blocks /\ b[1] \in Nodes /\ ~(b[1] = row /\ b[2] = j)
      BY <1>1, <1>5, BlocksNext, BlockFacts
    <3>2. \/ b[2] \in Elements(farMat'[b[1]])
          \/ b[1] \in Elements(leafList) /\ b[2] \in Elements(closeMat[b[1]])
          \/ row # None /\ IsLeaf(row) /\ b[1] = row /\ b[2] \in Elements(kept)
      BY <1>1, <2>1, BlocksNext
    <3> QED BY <2>2, <3>1, <3>2 DEF DoneBlocks
  <2>4. Ends(b0, isFar)
    BY <1>5, <1>8 DEF Ends
  <2>5. Apart(b0[1], b0[2])
    BY <1>4, <1>8 DEF Tested
  <2>6. OpenBlocks' \subseteq OpenBlocks
    BY <1>4, <1>8
  <2>7. Mirrored(OpenBlocks', {}, DoneBlocks', verdict', farBelow')
    BY <1>1, <1>2, <1>4, <2>3, <2>4, <2>5, <2>6, TestFar
  <2> QED BY <1>7, <1>8, <2>7
<1>9. CASE ~IsLeaf(row) /\ ~(isFar /\ Small(row) /\ Small(j))
  <2>1. farMat' = farMat
    BY <1>4, <1>9 DEF TestOfInnerRow, Small
  <2>2. DoneBlocks' \in SUBSET DoneBlocks
    BY <1>1, <1>9, <2>1, BlocksNext DEF DoneBlocks
  <2>3. ~Ends(b0, isFar) /\ ~IsLeaf(b0[1])
    BY <1>5, <1>9 DEF Ends
  <2>4. OpenBlocks' \subseteq OpenBlocks \cup Parts(b0)
    BY <1>4, <1>9
  <2>5. Mirrored(OpenBlocks', {}, DoneBlocks', verdict', farBelow')
    BY <1>1, <1>2, <1>4, <2>2, <2>3, <2>4, TestSplit
  <2> QED BY <1>7, <1>9, <2>5
<1> QED BY <1>6, <1>8, <1>9

LEMMA DescendMirror == ASSUME IInv, MirrorInv, Descend PROVE MirrorInv'
<1> DEFINE c == stack[Len(stack)]
           rest == SubSeq(stack, 1, Len(stack) - 1)
<1>1. /\ TypeOK /\ RowInv /\ FrontierInv /\ CoverInv /\ stage = "rows" /\ stack # <<>>
      /\ input' = input /\ farBelow' = farBelow /\ nodeList' = nodeList /\ row' = row
      /\ col' = col /\ closeMat' = closeMat /\ leafList' = leafList /\ verdict' = verdict
      /\ farBelow \in BOOLEAN
  BY DEF IInv, Descend, TypeOK
<1>2. IF StopsAt(c)
      THEN /\ stack' = rest
           /\ IF farBelow THEN AddFar(row, <<c>>) /\ UNCHANGED kept
              ELSE Keep(<<c>>) /\ UNCHANGED farMat
      ELSE stack' = rest \o Below(c) /\ UNCHANGED <<kept, farMat>>
  BY DEF Descend
<1>3. row # None
  BY <1>1 DEF RowInv
<1>4. /\ row \in Nodes /\ IsLeaf(row) /\ stack \in Seq(Nodes) /\ kept \in Seq(Nodes)
      /\ closeMat[row] \in Seq(Nodes) /\ col \in Nat /\ 1 <= col /\ col <= Len(closeMat[row]) + 1
  BY <1>1, <1>3, VisitFacts
<1>5. /\ stack = rest \o <<c>> /\ c \in Nodes /\ rest \in Seq(Nodes) /\ <<c>> \in Seq(Nodes)
  BY <1>1, <1>4, RestAndTop
<1> HIDE DEF c, rest
<1>6. Elements(stack) = Elements(rest) \cup {c}
  <2>1. Elements(rest \o <<c>>) = Elements(rest) \cup Elements(<<c>>)
    BY <1>5, ElementsConcat
  <2> QED BY <1>5, <2>1, ElementsPair
<1>7. \A x \in Elements(rest) : Apart(c, x)
  <2>1. ASSUME NEW q \in Positions(c) PROVE Times(rest, q) + Times(<<c>>, q) <= 1
    <3>1. PICK p \in Positions(row) : p \in Particles
      BY <1>1, <1>4, TreeFacts
    <3>2. q \in Particles
      BY <1>1, <1>5, TreeFacts
    <3>3. InFar(p, q) \in Nat
          /\ InFar(p, q) + (Times(kept, q) + Times(stack, q) + Times(Untested, q)) = 1
      BY <1>1, <1>3, <3>1, <3>2, CoverNow
    <3>4. Times(stack, q) = Times(rest, q) + Times(<<c>>, q)
      BY <1>5, TimesConcat
    <3>5. /\ Times(rest, q) \in Nat /\ Times(<<c>>, q) \in Nat /\ Times(kept, q) \in Nat
          /\ Times(Untested, q) \in Nat
      <4>1. Untested \in Seq(Nodes)
        BY <1>4 DEF Untested
      <4> QED BY <1>4, <1>5, <4>1, TimesType
    <3> QED BY <3>3, <3>4, <3>5
  <2> QED BY <1>5, <2>1, OnceApart
<1> DEFINE c0 == <<row, c>>
<1>8. /\ c0 \in FallBlocks /\ c0[1] = row /\ c0[2] = c
      /\ \A b \in Blocks : b[1] = row /\ b[2] = c => b = c0
  <2>1. c0 \in Blocks /\ c0[1] = row /\ c0[2] = c
    BY <1>4, <1>5 DEF Blocks
  <2> HIDE DEF c0
  <2> QED BY <1>3, <1>6, <2>1, BlockFacts DEF FallBlocks
<1> HIDE DEF c0
<1>9. StopsAt(c) <=> StopsUnder(farBelow, c)
  BY DEF StopsAt, StopsUnder, Small
<1> SUFFICES ASSUME VerdictsMirror
             PROVE  Mirrored(OpenBlocks', FallBlocks', DoneBlocks', verdict', farBelow')
  BY <1>1, MirrorNext
<1>10. Mirrored(OpenBlocks, FallBlocks, DoneBlocks, verdict, farBelow)
  BY <1>1 DEF MirrorInv
<1>11. OpenBlocks' = OpenBlocks
  <2>1. Untested' = Untested
    BY <1>1 DEF Untested
  <2> QED BY <1>1, <1>4, <2>1, BlocksNext DEF OpenBlocks
<1>12. CASE StopsAt(c)
  <2>1. stack' = rest
    BY <1>2, <1>12
  <2>2. FallBlocks' \in SUBSET FallBlocks
        /\ \A f \in FallBlocks' : f[1] = c0[1] /\ Apart(c0[2], f[2])
    BY <1>1, <1>6, <1>7, <1>8, <2>1, BlocksNext DEF FallBlocks
  <2>3. DoneBlocks' \in SUBSET (DoneBlocks \cup {c0})
    <3>1. CASE farBelow
      <4>1. farMat' = [farMat EXCEPT ![row] = @ \o <<c>>] /\ kept' = kept
        BY <1>2, <1>12, <3>1 DEF AddFar
      <4>2. \A m \in Nodes : \A x \in Elements(farMat'[m]) :
              x \in Elements(farMat[m]) \/ (m = row /\ x = c)
        BY <1>1, <1>4, <1>5, <4>1, FarElements
      <4> SUFFICES ASSUME NEW b \in DoneBlocks', b # c0 PROVE b \in DoneBlocks
        OBVIOUS
      <4>3. b \in Blocks /\ b[1] \in Nodes /\ ~(b[1] = row /\ b[2] = c)
        BY <1>1, <1>8, BlocksNext, BlockFacts
      <4>4. \/ b[2] \in Elements(farMat'[b[1]])
            \/ b[1] \in Elements(leafList) /\ b[2] \in Elements(closeMat[b[1]])
            \/ row # None /\ IsLeaf(row) /\ b[1] = row /\ b[2] \in Elements(kept)
        BY <1>1, <4>1, BlocksNext
      <4> QED BY <4>2, <4>3, <4>4 DEF DoneBlocks
    <3>2. CASE ~farBelow
      <4>1. kept' = kept \o <<c>> /\ farMat' = farMat
        BY <1>2, <1>12, <3>2 DEF Keep
      <4>2. Elements(kept') = Elements(kept) \cup {c}
        <5>1. Elements(kept \o <<c>>) = Elements(kept) \cup Elements(<<c>>)
          BY <1>4, <1>5, ElementsConcat
        <5> QED BY <4>1, <5>1, ElementsPair
      <4> QED BY <1>1, <1>8, <4>1, <4>2, BlocksNext DEF DoneBlocks
    <3> QED BY <3>1, <3>2
  <2>4. Mirrored(OpenBlocks, FallBlocks', DoneBlocks', verdict, farBelow)
    BY <1>1, <1>4, <1>8, <1>9, <1>10, <1>12, <2>2, <2>3, BlockTypes, FallStops
  <2> QED BY <1>1, <1>11, <2>4
<1>13. CASE ~StopsAt(c)
  <2>1. stack' = rest \o Below(c) /\ kept' = kept /\ farMat' = farMat
    BY <1>2, <1>13
  <2>2. ~IsLeaf(c)
    BY <1>1, <1>5, <1>13, TreeFacts DEF StopsAt
  <2>3. Elements(stack') = Elements(rest) \cup {Tree[c].left, Tree[c].right}
    <3>1. Below(c) \in Seq(Nodes)
      BY <1>1, <1>5, <2>2, TimesBelow
    <3>2. Elements(rest \o Below(c)) = Elements(rest) \cup Elements(Below(c))
      BY <1>5, <3>1, ElementsConcat
    <3>3. Elements(Below(c)) = {Tree[c].left, Tree[c].right}
      BY ElementsPair DEF Below
    <3> QED BY <2>1, <3>2, <3>3
  <2>4. \A f \in FallBlocks' :
          f \in FallBlocks \/ (f[1] = c0[1] /\ f[2] \in {Tree[c0[2]].left, Tree[c0[2]].right})
    BY <1>1, <1>6, <1>8, <2>3, BlocksNext DEF FallBlocks
  <2>5. DoneBlocks' = DoneBlocks
    BY <1>1, <2>1, BlocksNext DEF DoneBlocks
  <2>6. Mirrored(OpenBlocks, FallBlocks', DoneBlocks, verdict, farBelow)
    BY <1>1, <1>4, <1>8, <1>9, <1>10, <1>13, <2>2, <2>4, BlockTypes, FallGoesOn
  <2> QED BY <1>1, <1>11, <2>5, <2>6
<1> QED BY <1>12, <1>13

LEMMA InitMirror == ASSUME Init PROVE MirrorInv
<1> SUFFICES Mirrored(OpenBlocks, FallBlocks, DoneBlocks, verdict, farBelow)
  BY DEF MirrorInv
<1>1. TypeOK
  BY InitInv DEF IInv
<1>2. /\ row = None /\ nodeList = <<0>> /\ closeMat = [i \in Rows |-> IF i = 0 THEN <<0>> ELSE <<>>]
      /\ farMat = [i \in Rows |-> <<>>] /\ leafList = <<>> /\ verdict = <<>>
  BY DEF Init
<1> DEFINE z == <<0, 0>>
<1>3. 0 \in Nodes /\ 0 \in Rows /\ Nodes \subseteq Rows
  BY <1>1, TreeFacts
<1>4. z \in Blocks /\ z[1] = 0 /\ z[2] = 0 /\ \A b \in Blocks : b[1] = 0 /\ b[2] = 0 => b = z
  BY <1>3 DEF Blocks
<1> HIDE DEF z
<1>5. OpenBlocks \subseteq {z}
  <2>1. Elements(nodeList) = {0} /\ Elements(closeMat[0]) = {0}
    BY <1>2, <1>3, ElementsPair
  <2> QED BY <1>2, <1>4, <2>1 DEF OpenBlocks
<1>6. FallBlocks = {} /\ DoneBlocks = {}
  <2>1. Elements(leafList) = {} /\ \A i \in Nodes : Elements(farMat[i]) = {}
    BY <1>2, <1>3, ElementsPair
  <2> QED BY <1>2, <2>1, BlockFacts DEF FallBlocks, DoneBlocks
<1>7. LevelOK(OpenBlocks, {}, {})
  BY <1>4, <1>5 DEF LevelOK, SameLevel
<1>8. MemoryOK(OpenBlocks, verdict)
  BY <1>2 DEF MemoryOK
<1>9. AheadOK(OpenBlocks, {}, {}, verdict, farBelow)
  <2> SUFFICES ASSUME NEW d \in Blocks, SameLevel(d), Crossing(d, z), Above(d, z)
               PROVE  z = Mirror(d)
    BY <1>5 DEF AheadOK
  <2>1. Level(0) = 0 /\ Level(d[1]) \in Nat
    BY <1>1, Parents, BlockFacts
  <2>2. Level(d[1]) = Level(z[1]) /\ SameLevel(z)
    BY <1>4, <2>1 DEF Above, SameLevel
  <2> QED BY <1>1, <1>4, <2>2, CrossingOnLevel
<1>10. DepthOK(OpenBlocks, {}, {}, farBelow) /\ PairOK({}, {}, farBelow)
  BY DEF DepthOK, PairOK
<1> QED BY <1>6, <1>7, <1>8, <1>9, <1>10 DEF Mirrored

\* A leaf is visited once.
LeafOnce == \A k, l \in DOMAIN leafList : k # l => leafList[k] # leafList[l]

LEMMA EndRowOnce == ASSUME IInv, LeafOnce, EndRow PROVE LeafOnce'
<1>1. /\ TypeOK /\ stage = "rows" /\ row # None /\ row \in Nodes
  BY EndRowFacts
<1>2. CASE ~IsLeaf(row)
  <2>1. leafList' = leafList
    BY <1>2 DEF EndRow
  <2> QED BY <2>1 DEF LeafOnce
<1>3. CASE IsLeaf(row)
  <2>1. leafList' = Append(leafList, row) /\ leafList \in Seq(LeafNodes)
    BY <1>1, <1>3 DEF EndRow, TypeOK
  <2>2. \A k \in DOMAIN leafList : leafList[k] # row
    BY <1>1, OutsideWaiting DEF Waiting, Elements
  <2>3. \A k \in DOMAIN leafList' : \/ k = Len(leafList) + 1 /\ leafList'[k] = row
                                    \/ k \in DOMAIN leafList /\ leafList'[k] = leafList[k]
    BY <2>1
  <2> QED BY <2>2, <2>3 DEF LeafOnce
<1> QED BY <1>2, <1>3

\* The visits of the rows: what the later stages rely on.
VisitInv == IInv /\ MirrorInv /\ LeafOnce

LEMMA VisitNext == ASSUME VisitInv, [Next]_vars PROVE VisitInv'
<1>1. IInv /\ MirrorInv /\ LeafOnce
  BY DEF VisitInv
<1>2. IInv'
  BY <1>1, NextInv
<1>3. CASE StartRow
  BY <1>1, <1>2, <1>3, StartRowMirror DEF StartRow, VisitInv, LeafOnce
<1>4. CASE TestColumn
  BY <1>1, <1>2, <1>4, TestColumnMirror DEF TestColumn, VisitInv, LeafOnce
<1>5. CASE Descend
  BY <1>1, <1>2, <1>5, DescendMirror DEF Descend, VisitInv, LeafOnce
<1>6. CASE EndRow
  BY <1>1, <1>2, <1>6, EndRowMirror, EndRowOnce DEF VisitInv
<1>7. CASE EndRows \/ DealClose \/ EndClose \/ DealFar \/ EndFar
  <2>1. stage' # "rows" /\ leafList' = leafList
    BY <1>7 DEF EndRows, DealClose, EndClose, DealFar, EndFar, rowVars
  <2> QED BY <1>1, <1>2, <2>1 DEF VisitInv, LeafOnce, MirrorInv
<1>8. CASE Done \/ UNCHANGED vars
  <2>1. /\ input' = input /\ stage' = stage /\ row' = row /\ col' = col
        /\ UNCHANGED <<nodeList, kept, stack, farBelow, closeMat, farMat, leafList, verdict>>
    BY <1>8 DEF Done, vars, descent, rowVars
  <2>2. /\ OpenBlocks' = OpenBlocks /\ FallBlocks' = FallBlocks /\ DoneBlocks' = DoneBlocks
    <3>1. Untested' = Untested
      BY <2>1 DEF Untested
    <3> QED BY <2>1, <3>1, BlocksNext DEF OpenBlocks, FallBlocks, DoneBlocks
  <2>3. MirrorInv'
    BY <1>1, <2>1, <2>2, MirrorNext DEF MirrorInv
  <2> QED BY <1>1, <1>2, <2>1, <2>3 DEF VisitInv, LeafOnce
<1> QED BY <1>3, <1>4, <1>5, <1>6, <1>7, <1>8 DEF Next

-----------------------------------------------------------------------------
(* Of two final blocks that cross, symmetry keeps one *)

Opposite(b, c) == \/ b[1] = b[2] /\ c = b
                  \/ b[1] < b[2] /\ c[2] < c[1]
                  \/ b[2] < b[1] /\ c[1] < c[2]

\* A leaf comes before the nodes below a node on its level, or after them.
LEMMA LeafAcross ==
  ASSUME TypeOK, NEW b \in Blocks, NEW c \in Blocks, Crossing(b, c),
         IsLeaf(b[2]), Level(b[2]) < Level(b[1]), IsLeaf(c[1]), Level(c[1]) < Level(c[2])
  PROVE  Opposite(b, c)
<1> DEFINE f == b[2]
           x == b[1]
           y == c[2]
<1>1. /\ f \in Nodes /\ x \in Nodes /\ y \in Nodes /\ c[1] \in Nodes
      /\ ~Apart(x, y) /\ ~Apart(f, c[1])
      /\ Level(f) \in Nat /\ Level(x) \in Nat /\ Level(y) \in Nat /\ Level(c[1]) \in Nat
  BY BlockFacts, Parents DEF Crossing
<1>2. c[1] = f
  <2>1. Level(c[1]) <= Level(f) /\ Level(f) <= Level(c[1])
    BY <1>1, LeafBelow
  <2> QED BY <1>1, <2>1, OneOnLevel
<1> HIDE DEF f, x, y
<1>3. IsLeaf(f) /\ Level(f) < Level(x) /\ Level(f) < Level(y)
  BY <1>2 DEF f, x, y
<1>4. PICK a \in Nodes : Level(a) = Level(f) /\ Positions(x) \subseteq Positions(a)
  <2>1. Level(f) <= Level(x)
    BY <1>1, <1>3
  <2> QED BY <1>1, <2>1, Ancestor
<1>5. ~Apart(a, x) /\ ~Apart(a, y)
  BY <1>1, <1>4, TreeFacts DEF Apart
<1>6. x \in NodesBelow(Tree, a) /\ y \in NodesBelow(Tree, a)
  BY <1>1, <1>3, <1>4, <1>5, IsBelow
<1>7. f < x <=> f < y
  <2>1. IsNumbered(Tree)
    BY CloseFarAssumption DEF TypeOK, Tree
  <2>2. Tree[f].left = 0 /\ Tree[f].level = Tree[a].level
    BY <1>3, <1>4 DEF IsLeaf, Level
  <2> QED BY <1>1, <1>4, <1>6, <2>1, <2>2 DEF IsNumbered, Nodes
<1>8. f # x /\ f # y
  BY <1>1, <1>3
<1>9. f \in Nat /\ x \in Nat /\ y \in Nat
  BY <1>1, TreeFacts
<1>10. (x < f /\ y < f) \/ (f < x /\ f < y)
  BY <1>7, <1>8, <1>9
<1> QED BY <1>2, <1>10 DEF Opposite, f, x, y

LEMMA FinalBlocks ==
  ASSUME TypeOK, NEW done, done \subseteq Blocks, NEW isFar,
         LevelOK({}, {}, done), PairOK({}, done, isFar),
         NEW b \in done, NEW c \in done, Crossing(b, c)
  PROVE  Opposite(b, c)
<1>1. /\ b \in Blocks /\ c \in Blocks
      /\ b[1] \in Nodes /\ b[2] \in Nodes /\ c[1] \in Nodes /\ c[2] \in Nodes
      /\ Level(b[1]) \in Nat /\ Level(b[2]) \in Nat /\ Level(c[1]) \in Nat /\ Level(c[2]) \in Nat
  BY BlockFacts, Parents
<1>2. Crossing(c, b)
  BY DEF Crossing, Apart
<1>3. CASE SameLevel(b) \/ SameLevel(c)
  <2>1. c = Mirror(b)
    <3>1. SameLevel(b) => c = Mirror(b)
      BY DEF PairOK
    <3>2. SameLevel(c) => b = Mirror(c)
      BY <1>2 DEF PairOK
    <3> QED BY <1>1, <1>3, <3>1, <3>2, BlockFacts
  <2>2. c[1] = b[2] /\ c[2] = b[1]
    BY <1>1, <2>1, BlockFacts
  <2>3. b[1] = b[2] => c = b
    BY <1>1, <2>2, BlockFacts
  <2>4. b[1] \in Nat /\ b[2] \in Nat
    BY <1>1, TreeFacts
  <2>5. b[1] = b[2] \/ b[1] < b[2] \/ b[2] < b[1]
    BY <2>4
  <2> QED BY <2>2, <2>3, <2>5 DEF Opposite
<1>4. CASE ~SameLevel(b) /\ ~SameLevel(c)
  <2>1. /\ \/ IsLeaf(b[2]) /\ Level(b[2]) < Level(b[1])
           \/ IsLeaf(b[1]) /\ Level(b[1]) < Level(b[2])
        /\ \/ IsLeaf(c[2]) /\ Level(c[2]) < Level(c[1])
           \/ IsLeaf(c[1]) /\ Level(c[1]) < Level(c[2])
    BY <1>4 DEF LevelOK
  <2>2. ~Apart(b[1], c[2]) /\ ~Apart(b[2], c[1])
    BY DEF Crossing
  <2>3. ~(/\ IsLeaf(b[2]) /\ Level(b[2]) < Level(b[1])
          /\ IsLeaf(c[2]) /\ Level(c[2]) < Level(c[1]))
    <3> SUFFICES ASSUME IsLeaf(b[2]), Level(b[2]) < Level(b[1]),
                        IsLeaf(c[2]), Level(c[2]) < Level(c[1])
                 PROVE  FALSE
      OBVIOUS
    <3>1. Level(c[1]) <= Level(b[2]) /\ Level(b[1]) <= Level(c[2])
      BY <1>1, <2>2, LeafBelow
    <3> QED BY <1>1, <3>1
  <2>4. ~(/\ IsLeaf(b[1]) /\ Level(b[1]) < Level(b[2])
          /\ IsLeaf(c[1]) /\ Level(c[1]) < Level(c[2]))
    <3> SUFFICES ASSUME IsLeaf(b[1]), Level(b[1]) < Level(b[2]),
                        IsLeaf(c[1]), Level(c[1]) < Level(c[2])
                 PROVE  FALSE
      OBVIOUS
    <3>1. Level(c[2]) <= Level(b[1]) /\ Level(b[2]) <= Level(c[1])
      BY <1>1, <2>2, LeafBelow
    <3> QED BY <1>1, <3>1
  <2>5. CASE /\ IsLeaf(b[2]) /\ Level(b[2]) < Level(b[1])
             /\ IsLeaf(c[1]) /\ Level(c[1]) < Level(c[2])
    BY <1>1, <2>5, LeafAcross
  <2>6. CASE /\ IsLeaf(b[1]) /\ Level(b[1]) < Level(b[2])
             /\ IsLeaf(c[2]) /\ Level(c[2]) < Level(c[1])
    <3>1. Opposite(c, b)
      BY <1>1, <1>2, <2>6, LeafAcross
    <3> QED BY <3>1 DEF Opposite
  <2> QED BY <2>1, <2>3, <2>4, <2>5, <2>6
<1> QED BY <1>3, <1>4

-----------------------------------------------------------------------------
(* The cells of the finished lists, and the blocks they hold *)

CloseCells == UNION {{m} \X DOMAIN closeMat[leafList[m]] : m \in DOMAIN leafList}
FarCells == UNION {{i} \X DOMAIN farMat[i] : i \in Rows}
CloseBlock(x) == <<leafList[x[1]], closeMat[leafList[x[1]]][x[2]]>>
FarBlock(x) == <<x[1], farMat[x[1]][x[2]]>>

\* The cells whose blocks hold an entry, and those whose blocks are due to be
\* dealt for it: they are kept, and contribute to it.
Holds(b, p, q) == p \in Positions(b[1]) /\ q \in Positions(b[2])
CloseHeld(p, q) == {x \in CloseCells : Holds(CloseBlock(x), p, q)}
IsDue(b, p, q) == IsKept(b[1], b[2]) /\ Contributes(b, p, q)
CloseDue(p, q) == {x \in CloseCells : IsDue(CloseBlock(x), p, q)}
FarDue(p, q) == {x \in FarCells : IsDue(FarBlock(x), p, q)}

OnceDue ==
  \A p, q \in Particles :
    /\ IsFiniteSet(CloseDue(p, q)) /\ IsFiniteSet(FarDue(p, q))
    /\ Cardinality(CloseDue(p, q)) + Cardinality(FarDue(p, q)) = 1

RowsEnded == stage = "rows" /\ row = None /\ nodeList = <<>>

LEMMA CellFacts ==
  ASSUME TypeOK
  PROVE  /\ \A x : x \in CloseCells <=>
               \E m \in DOMAIN leafList : \E k \in DOMAIN closeMat[leafList[m]] : x = <<m, k>>
         /\ \A x : x \in FarCells <=>
               \E i \in Rows : \E k \in DOMAIN farMat[i] : x = <<i, k>>
         /\ \A x \in CloseCells : x[1] \in Nat /\ x[2] \in Nat \ {0} /\ x = <<x[1], x[2]>>
         /\ \A x \in FarCells : x[1] \in Nat /\ x[2] \in Nat \ {0} /\ x = <<x[1], x[2]>>
<1>1. \A x : x \in CloseCells <=>
        \E m \in DOMAIN leafList : \E k \in DOMAIN closeMat[leafList[m]] : x = <<m, k>>
  BY DEF CloseCells
<1>2. \A x : x \in FarCells <=> \E i \in Rows : \E k \in DOMAIN farMat[i] : x = <<i, k>>
  BY DEF FarCells
<1>3. /\ leafList \in Seq(LeafNodes) /\ LeafNodes \subseteq Nodes /\ Nodes \subseteq Rows
      /\ closeMat \in [Rows -> Seq(Nodes)] /\ farMat \in [Rows -> Seq(Nodes)]
      /\ Rows \subseteq Nat
  BY TreeFacts DEF TypeOK, LeafNodes
<1>4. /\ DOMAIN leafList \subseteq Nat
      /\ \A m \in DOMAIN leafList : DOMAIN closeMat[leafList[m]] \subseteq Nat \ {0}
      /\ \A i \in Rows : DOMAIN farMat[i] \subseteq Nat \ {0}
  <2>1. \A m \in DOMAIN leafList : leafList[m] \in Rows
    <3>1. \A m \in DOMAIN leafList : leafList[m] \in LeafNodes
      BY <1>3
    <3> QED BY <1>3, <3>1
  <2>2. \A i \in Rows : closeMat[i] \in Seq(Nodes) /\ farMat[i] \in Seq(Nodes)
    BY <1>3
  <2>3. \A s \in Seq(Nodes) : DOMAIN s \subseteq Nat \ {0}
    OBVIOUS
  <2>4. DOMAIN leafList \subseteq Nat
    BY <1>3
  <2> QED BY <2>1, <2>2, <2>3, <2>4
<1>5. \A x \in CloseCells : x[1] \in Nat /\ x[2] \in Nat \ {0} /\ x = <<x[1], x[2]>>
  BY <1>1, <1>4
<1>6. \A x \in FarCells : x[1] \in Nat /\ x[2] \in Nat \ {0} /\ x = <<x[1], x[2]>>
  BY <1>2, <1>3, <1>4
<1> QED BY <1>1, <1>2, <1>5, <1>6

\* Every block of a cell is a final one.
LEMMA CellBlocks ==
  ASSUME IInv
  PROVE  /\ \A x \in CloseCells : CloseBlock(x) \in DoneBlocks
         /\ \A x \in FarCells : FarBlock(x) \in DoneBlocks
<1>1. /\ TypeOK /\ FarInv /\ leafList \in Seq(LeafNodes) /\ LeafNodes \subseteq Nodes
      /\ Nodes \subseteq Rows
      /\ closeMat \in [Rows -> Seq(Nodes)] /\ farMat \in [Rows -> Seq(Nodes)]
  BY TreeFacts DEF IInv, TypeOK, LeafNodes
<1>2. ASSUME NEW x \in CloseCells PROVE CloseBlock(x) \in DoneBlocks
  <2>1. PICK m \in DOMAIN leafList : \E k \in DOMAIN closeMat[leafList[m]] : x = <<m, k>>
    BY <1>1, <1>2, CellFacts
  <2> PICK k \in DOMAIN closeMat[leafList[m]] : x = <<m, k>>
    BY <2>1
  <2> DEFINE i == leafList[m]
             j == closeMat[i][k]
  <2>2. i \in Nodes /\ i \in Elements(leafList) /\ j \in Elements(closeMat[i])
    BY <1>1 DEF Elements
  <2>3. closeMat[i] \in Seq(Nodes)
    BY <1>1, <2>2
  <2>4. j \in Nodes
    BY <2>3
  <2>5. CloseBlock(x) = <<i, j>>
    BY DEF CloseBlock
  <2> HIDE DEF i, j
  <2>6. <<i, j>>[1] = i /\ <<i, j>>[2] = j /\ <<i, j>> \in Blocks
    BY <2>2, <2>4 DEF Blocks
  <2> QED BY <2>2, <2>5, <2>6 DEF DoneBlocks
<1>3. ASSUME NEW x \in FarCells PROVE FarBlock(x) \in DoneBlocks
  <2>1. PICK i \in Rows : \E k \in DOMAIN farMat[i] : x = <<i, k>>
    BY <1>1, <1>3, CellFacts
  <2> PICK k \in DOMAIN farMat[i] : x = <<i, k>>
    BY <2>1
  <2> DEFINE j == farMat[i][k]
  <2>2. i \in Nodes /\ j \in Elements(farMat[i])
    BY <1>1 DEF FarInv, Elements
  <2>3. farMat[i] \in Seq(Nodes)
    BY <1>1
  <2>4. j \in Nodes
    BY <2>3
  <2>5. FarBlock(x) = <<i, j>>
    BY DEF FarBlock
  <2> HIDE DEF j
  <2>6. <<i, j>>[1] = i /\ <<i, j>>[2] = j /\ <<i, j>> \in Blocks
    BY <2>2, <2>4 DEF Blocks
  <2> QED BY <2>2, <2>5, <2>6 DEF DoneBlocks
<1> QED BY <1>2, <1>3

\* When all rows are visited, one cell holds each entry.
LEMMA HeldOnce ==
  ASSUME VisitInv, RowsEnded, NEW p \in Particles, NEW q \in Particles
  PROVE  /\ IsFiniteSet(CloseHeld(p, q)) /\ IsFiniteSet(FarHeld(p, q))
         /\ Cardinality(CloseHeld(p, q)) + Cardinality(FarHeld(p, q)) = 1
<1>1. /\ TypeOK /\ FrontierInv /\ CoverInv /\ LeafOnce /\ stage = "rows" /\ row = None
      /\ Waiting = Elements(leafList)
  <2>1. Waiting = Elements(leafList)
    BY ElementsPair DEF RowsEnded, Waiting
  <2> QED BY <2>1 DEF VisitInv, IInv, RowsEnded
<1>2. PICK m \in DOMAIN leafList : p \in Positions(leafList[m])
  BY <1>1 DEF FrontierInv, Elements
<1> DEFINE i == leafList[m]
           H == Hits(closeMat[i], q)
           f == [k \in H |-> <<m, k>>]
<1>3. /\ i \in Waiting /\ p \in Positions(i) /\ closeMat[i] \in Seq(Nodes)
      /\ \A l \in DOMAIN leafList : p \in Positions(leafList[l]) => l = m
  <2>1. i \in Waiting /\ p \in Positions(i)
    BY <1>1, <1>2 DEF Elements
  <2>2. closeMat[i] \in Seq(Nodes)
    BY <1>1, <2>1, WaitingNodes DEF TypeOK
  <2>3. ASSUME NEW l \in DOMAIN leafList, p \in Positions(leafList[l]) PROVE l = m
    <3>1. ~Apart(leafList[l], i)
      BY <2>1, <2>3 DEF Apart
    <3>2. leafList[l] = leafList[m]
      BY <1>1, <3>1 DEF FrontierInv, Elements
    <3> QED BY <1>1, <3>2 DEF LeafOnce
  <2> QED BY <2>1, <2>2, <2>3
<1>4. /\ IsFiniteSet(FarHeld(p, q)) /\ InFar(p, q) + Times(closeMat[i], q) = 1
      /\ InFar(p, q) = Cardinality(FarHeld(p, q))
  BY <1>1, <1>3 DEF CoverInv, InFar, FarHeld
<1>5. IsFiniteSet(H) /\ Times(closeMat[i], q) \in Nat /\ Times(closeMat[i], q) = Cardinality(H)
  BY <1>3, TimesType DEF Times
<1>6. ASSUME NEW x PROVE x \in CloseHeld(p, q) <=> \E k \in H : x = <<m, k>>
  <2>1. x \in CloseHeld(p, q) <=>
          \E l \in DOMAIN leafList : \E k \in DOMAIN closeMat[leafList[l]] :
            /\ x = <<l, k>> /\ p \in Positions(leafList[l])
            /\ q \in Positions(closeMat[leafList[l]][k])
    <3>1. \A l, k : /\ CloseBlock(<<l, k>>)[1] = leafList[l]
                     /\ CloseBlock(<<l, k>>)[2] = closeMat[leafList[l]][k]
      BY DEF CloseBlock
    <3>2. x \in CloseHeld(p, q) <=>
            \E l \in DOMAIN leafList : \E k \in DOMAIN closeMat[leafList[l]] :
              x = <<l, k>> /\ Holds(CloseBlock(<<l, k>>), p, q)
      <4>1. x \in CloseHeld(p, q) <=> x \in CloseCells /\ Holds(CloseBlock(x), p, q)
        BY DEF CloseHeld
      <4>2. x \in CloseCells <=>
              \E l \in DOMAIN leafList : \E k \in DOMAIN closeMat[leafList[l]] : x = <<l, k>>
        BY <1>1, CellFacts
      <4> QED BY <4>1, <4>2
    <3>3. \A l, k : Holds(CloseBlock(<<l, k>>), p, q) <=>
                     p \in Positions(leafList[l]) /\ q \in Positions(closeMat[leafList[l]][k])
      BY <3>1 DEF Holds
    <3> QED BY <3>2, <3>3
  <2>2. \A k : k \in H <=> k \in DOMAIN closeMat[i] /\ q \in Positions(closeMat[i][k])
    BY DEF Hits
  <2> HIDE DEF H
  <2> QED BY <1>3, <2>1, <2>2
<1> HIDE DEF H
<1>7. f \in [H -> CloseHeld(p, q)] /\ \A z \in CloseHeld(p, q) : \E x \in H : f[x] = z
  BY <1>6
<1>8. \A x, y \in H : f[x] = f[y] => x = y
  OBVIOUS
<1> HIDE DEF f
<1>9. IsFiniteSet(CloseHeld(p, q)) /\ Cardinality(CloseHeld(p, q)) = Cardinality(H)
  BY <1>5, <1>7, <1>8, SameCount
<1>10. Cardinality(FarHeld(p, q)) \in Nat
  BY <1>4, FS_CardinalityType
<1> QED BY <1>4, <1>5, <1>9, <1>10

\* The cells that hold an entry are the cells of blocks that hold it.
HeldBlocks(p, q) == {CloseBlock(x) : x \in CloseHeld(p, q)} \cup {FarBlock(x) : x \in FarHeld(p, q)}

LEMMA HeldFacts ==
  ASSUME VisitInv, RowsEnded, NEW p \in Particles, NEW q \in Particles
  PROVE  /\ FarHeld(p, q) = {x \in FarCells : Holds(FarBlock(x), p, q)}
         /\ HeldBlocks(p, q) # {} /\ HeldBlocks(p, q) \subseteq DoneBlocks
         /\ \A b \in HeldBlocks(p, q) : Holds(b, p, q)
<1>1. FarHeld(p, q) = {x \in FarCells : Holds(FarBlock(x), p, q)}
  BY DEF FarHeld, Held, FarCells, Holds, FarBlock
<1>2. HeldBlocks(p, q) # {}
  <2> SUFFICES ASSUME CloseHeld(p, q) = {}, FarHeld(p, q) = {} PROVE FALSE
    BY DEF HeldBlocks
  <2>1. Cardinality(CloseHeld(p, q)) + Cardinality(FarHeld(p, q)) = 1
    BY HeldOnce
  <2> QED BY <2>1, FS_EmptySet
<1>3. HeldBlocks(p, q) \subseteq DoneBlocks
  BY <1>1, CellBlocks DEF HeldBlocks, VisitInv, CloseHeld
<1>4. \A b \in HeldBlocks(p, q) : Holds(b, p, q)
  BY <1>1 DEF HeldBlocks, CloseHeld
<1> QED BY <1>1, <1>2, <1>3, <1>4

\* The blocks that hold an entry are kept, and those that hold its mirror image
\* are not or are on the diagonal; or it is the other way round.
LEMMA OneIsKept ==
  ASSUME VisitInv, RowsEnded, VerdictsMirror, NEW p \in Particles, NEW q \in Particles
  PROVE  \/ /\ \A b \in HeldBlocks(p, q) : b[2] >= b[1]
            /\ \A c \in HeldBlocks(q, p) : ~(c[2] >= c[1]) \/ c[1] = c[2]
         \/ /\ \A b \in HeldBlocks(p, q) : ~(b[2] >= b[1])
            /\ \A c \in HeldBlocks(q, p) : c[2] >= c[1] /\ c[1] # c[2]
<1>1. /\ HeldBlocks(p, q) # {} /\ HeldBlocks(p, q) \subseteq DoneBlocks
      /\ HeldBlocks(q, p) # {} /\ HeldBlocks(q, p) \subseteq DoneBlocks
      /\ \A b \in HeldBlocks(p, q) : Holds(b, p, q)
      /\ \A c \in HeldBlocks(q, p) : Holds(c, q, p)
  BY HeldFacts
<1>2. \A b \in HeldBlocks(p, q), c \in HeldBlocks(q, p) : Opposite(b, c)
  <2> SUFFICES ASSUME NEW b \in HeldBlocks(p, q), NEW c \in HeldBlocks(q, p)
               PROVE  Opposite(b, c)
    OBVIOUS
  <2>1. b \in DoneBlocks /\ c \in DoneBlocks /\ Holds(b, p, q) /\ Holds(c, q, p)
    BY <1>1
  <2>2. Crossing(b, c)
    BY <2>1 DEF Crossing, Apart, Holds
  <2>3. OpenBlocks = {} /\ FallBlocks = {}
    <3>1. Elements(nodeList) = {} /\ row = None
      BY ElementsPair DEF RowsEnded
    <3> QED BY <3>1 DEF OpenBlocks, FallBlocks
  <2>4. Mirrored({}, {}, DoneBlocks, verdict, farBelow) /\ TypeOK
    BY <2>3 DEF VisitInv, MirrorInv, RowsEnded, IInv
  <2>5. DoneBlocks \subseteq Blocks
    BY BlockTypes
  <2> QED BY <2>1, <2>2, <2>4, <2>5, FinalBlocks DEF Mirrored
<1>3. /\ \A b \in HeldBlocks(p, q) : b[1] \in Nat /\ b[2] \in Nat
      /\ \A c \in HeldBlocks(q, p) : c[1] \in Nat /\ c[2] \in Nat
  <2>1. TypeOK /\ DoneBlocks \subseteq Blocks
    BY BlockTypes DEF VisitInv, IInv
  <2> QED BY <1>1, <2>1, BlockFacts, TreeFacts
<1>4. PICK b0 \in HeldBlocks(p, q), c0 \in HeldBlocks(q, p) : TRUE
  BY <1>1
<1>5. CASE b0[2] >= b0[1]
  <2>1. ASSUME NEW c \in HeldBlocks(q, p) PROVE ~(c[2] >= c[1]) \/ c[1] = c[2]
    <3>1. Opposite(b0, c)
      BY <1>2
    <3> QED BY <1>3, <1>5, <3>1 DEF Opposite
  <2>2. ASSUME NEW b \in HeldBlocks(p, q) PROVE b[2] >= b[1]
    <3>1. Opposite(b, c0) /\ (~(c0[2] >= c0[1]) \/ c0[1] = c0[2])
      BY <1>2, <2>1
    <3> QED BY <1>3, <3>1 DEF Opposite
  <2> QED BY <2>1, <2>2
<1>6. CASE ~(b0[2] >= b0[1])
  <2>1. ASSUME NEW c \in HeldBlocks(q, p) PROVE c[2] >= c[1] /\ c[1] # c[2]
    <3>1. Opposite(b0, c)
      BY <1>2
    <3> QED BY <1>3, <1>6, <3>1 DEF Opposite
  <2>2. ASSUME NEW b \in HeldBlocks(p, q) PROVE ~(b[2] >= b[1])
    <3>1. Opposite(b, c0) /\ c0[2] >= c0[1] /\ c0[1] # c0[2]
      BY <1>2, <2>1
    <3> QED BY <1>3, <3>1 DEF Opposite
  <2> QED BY <2>1, <2>2
<1> QED BY <1>5, <1>6

\* So one cell is due for each entry.
LEMMA OnceDueAtEnd ==
  ASSUME VisitInv, RowsEnded, VerdictsMirror \/ ~UseSymmetry
  PROVE  OnceDue
<1> SUFFICES ASSUME NEW p \in Particles, NEW q \in Particles
             PROVE  /\ IsFiniteSet(CloseDue(p, q)) /\ IsFiniteSet(FarDue(p, q))
                    /\ Cardinality(CloseDue(p, q)) + Cardinality(FarDue(p, q)) = 1
  BY DEF OnceDue
<1>1. /\ FarHeld(p, q) = {x \in FarCells : Holds(FarBlock(x), p, q)}
      /\ FarHeld(q, p) = {x \in FarCells : Holds(FarBlock(x), q, p)}
  BY HeldFacts
<1>2. \A b : /\ Holds(b, p, q) => Contributes(b, p, q)
             /\ UseSymmetry /\ b[1] # b[2] /\ Holds(b, q, p) => Contributes(b, p, q)
             /\ Contributes(b, p, q) =>
                  Holds(b, p, q) \/ (UseSymmetry /\ b[1] # b[2] /\ Holds(b, q, p))
  BY DEF Contributes, Holds
<1>3. ASSUME NEW r, NEW t, FarHeld(r, t) = {x \in FarCells : Holds(FarBlock(x), r, t)},
             \A x \in CloseCells : IsDue(CloseBlock(x), p, q) <=> Holds(CloseBlock(x), r, t),
             \A x \in FarCells : IsDue(FarBlock(x), p, q) <=> Holds(FarBlock(x), r, t)
      PROVE  CloseDue(p, q) = CloseHeld(r, t) /\ FarDue(p, q) = FarHeld(r, t)
  BY <1>3 DEF CloseDue, FarDue, CloseHeld
<1>4. CASE ~UseSymmetry
  <2>1. \A b : IsDue(b, p, q) <=> Holds(b, p, q)
    BY <1>2, <1>4 DEF IsDue, IsKept
  <2>2. CloseDue(p, q) = CloseHeld(p, q) /\ FarDue(p, q) = FarHeld(p, q)
    BY <1>1, <1>3, <2>1
  <2> QED BY <2>2, HeldOnce
<1>5. CASE UseSymmetry
  <2>1. /\ \A x \in CloseCells : Holds(CloseBlock(x), p, q) => CloseBlock(x) \in HeldBlocks(p, q)
        /\ \A x \in CloseCells : Holds(CloseBlock(x), q, p) => CloseBlock(x) \in HeldBlocks(q, p)
    BY DEF HeldBlocks, CloseHeld
  <2>2. /\ \A x \in FarCells : Holds(FarBlock(x), p, q) => FarBlock(x) \in HeldBlocks(p, q)
        /\ \A x \in FarCells : Holds(FarBlock(x), q, p) => FarBlock(x) \in HeldBlocks(q, p)
    BY <1>1 DEF HeldBlocks
  <2>3. CASE /\ \A b \in HeldBlocks(p, q) : b[2] >= b[1]
             /\ \A c \in HeldBlocks(q, p) : ~(c[2] >= c[1]) \/ c[1] = c[2]
    <3>1. ASSUME NEW b, Holds(b, p, q) => b \in HeldBlocks(p, q),
                 Holds(b, q, p) => b \in HeldBlocks(q, p)
          PROVE  IsDue(b, p, q) <=> Holds(b, p, q)
      <4>1. Holds(b, p, q) => IsDue(b, p, q)
        BY <1>2, <2>3, <3>1 DEF IsDue, IsKept
      <4>2. IsDue(b, p, q) => Holds(b, p, q)
        BY <1>2, <1>5, <2>3, <3>1 DEF IsDue, IsKept
      <4> QED BY <4>1, <4>2
    <3>2. CloseDue(p, q) = CloseHeld(p, q) /\ FarDue(p, q) = FarHeld(p, q)
      BY <1>1, <1>3, <2>1, <2>2, <3>1
    <3> QED BY <3>2, HeldOnce
  <2>4. CASE /\ \A b \in HeldBlocks(p, q) : ~(b[2] >= b[1])
             /\ \A c \in HeldBlocks(q, p) : c[2] >= c[1] /\ c[1] # c[2]
    <3>1. ASSUME NEW b, Holds(b, p, q) => b \in HeldBlocks(p, q),
                 Holds(b, q, p) => b \in HeldBlocks(q, p)
          PROVE  IsDue(b, p, q) <=> Holds(b, q, p)
      <4>1. Holds(b, q, p) => IsDue(b, p, q)
        BY <1>2, <1>5, <2>4, <3>1 DEF IsDue, IsKept
      <4>2. IsDue(b, p, q) => Holds(b, q, p)
        BY <1>2, <1>5, <2>4, <3>1 DEF IsDue, IsKept
      <4> QED BY <4>1, <4>2
    <3>2. CloseDue(p, q) = CloseHeld(q, p) /\ FarDue(p, q) = FarHeld(q, p)
      BY <1>1, <1>3, <2>1, <2>2, <3>1
    <3> QED BY <3>2, HeldOnce
  <2>5. VerdictsMirror
    BY <1>5
  <2> QED BY <2>3, <2>4, <2>5, OneIsKept
<1> QED BY <1>4, <1>5

-----------------------------------------------------------------------------
(* Dealing: as many positions of the ranks as cells that are past and due *)

PastCells(D, r, c) == {x \in D : x[1] < r \/ (x[1] = r /\ x[2] < c)}
Same(S, T) == IsFiniteSet(S) /\ IsFiniteSet(T) /\ Cardinality(S) = Cardinality(T)
NoPairs(pairs) == \A r \in Ranks : pairs[r] = <<>>

DealInv ==
  /\ stage = "rows" => NoPairs(closePairs)
  /\ stage \in {"rows", "close"} => NoPairs(farPairs)
  /\ \A p, q \in Particles :
       /\ stage = "close" => Same(Dealt(closePairs, p, q), PastCells(CloseDue(p, q), row, col))
       /\ stage \in {"far", "done"} => Same(Dealt(closePairs, p, q), CloseDue(p, q))
       /\ stage = "far" => Same(Dealt(farPairs, p, q), PastCells(FarDue(p, q), row, col))
       /\ stage = "done" => Same(Dealt(farPairs, p, q), FarDue(p, q))

\* The invariant of a next state, said with the lists of this one.
LEMMA DealNext ==
  ASSUME input' = input, closeMat' = closeMat, farMat' = farMat, leafList' = leafList,
         stage' \in {"close", "far", "done"},
         stage' = "close" => NoPairs(farPairs'),
         \A p, q \in Particles :
           /\ stage' = "close" =>
                Same(Dealt(closePairs', p, q), PastCells(CloseDue(p, q), row', col'))
           /\ stage' \in {"far", "done"} => Same(Dealt(closePairs', p, q), CloseDue(p, q))
           /\ stage' = "far" => Same(Dealt(farPairs', p, q), PastCells(FarDue(p, q), row', col'))
           /\ stage' = "done" => Same(Dealt(farPairs', p, q), FarDue(p, q))
  PROVE  DealInv'
<1>1. Particles' = Particles /\ Rows' = Rows /\ \A i : Positions(i)' = Positions(i)
  BY SameTree
<1>2. UseSymmetry' = UseSymmetry
  BY DEF UseSymmetry
<1>3. \A b, p, q : Contributes(b, p, q)' = Contributes(b, p, q)
  BY <1>1, <1>2 DEF Contributes
<1>4. \A p, q : CloseDue(p, q)' = CloseDue(p, q) /\ FarDue(p, q)' = FarDue(p, q)
  <2>1. \A b, p, q : IsDue(b, p, q)' = IsDue(b, p, q)
    BY <1>2, <1>3 DEF IsDue, IsKept
  <2>2. CloseCells' = CloseCells /\ FarCells' = FarCells
    BY <1>1 DEF CloseCells, FarCells
  <2>3. \A x : CloseBlock(x)' = CloseBlock(x) /\ FarBlock(x)' = FarBlock(x)
    BY DEF CloseBlock, FarBlock
  <2>4. ASSUME NEW p, NEW q
        PROVE  CloseDue(p, q)' = CloseDue(p, q) /\ FarDue(p, q)' = FarDue(p, q)
    BY <1>2, <1>3, <2>2, <2>3 DEF CloseDue, FarDue, IsDue, IsKept
  <2> QED BY <2>4
<1>5. ASSUME NEW p, NEW q
      PROVE  /\ Dealt(closePairs, p, q)' = Dealt(closePairs', p, q)
             /\ Dealt(farPairs, p, q)' = Dealt(farPairs', p, q)
  BY <1>3 DEF Dealt
<1>6. \A p, q : /\ PastCells(CloseDue(p, q), row, col)' = PastCells(CloseDue(p, q), row', col')
                /\ PastCells(FarDue(p, q), row, col)' = PastCells(FarDue(p, q), row', col')
  BY <1>4 DEF PastCells
<1>7. /\ (stage = "rows" => NoPairs(closePairs))'
      /\ (stage \in {"rows", "close"} => NoPairs(farPairs))'
  BY DEF NoPairs
<1>8. ASSUME NEW p \in Particles', NEW q \in Particles'
      PROVE  /\ (stage = "close" => Same(Dealt(closePairs, p, q), PastCells(CloseDue(p, q), row, col)))'
             /\ (stage \in {"far", "done"} => Same(Dealt(closePairs, p, q), CloseDue(p, q)))'
             /\ (stage = "far" => Same(Dealt(farPairs, p, q), PastCells(FarDue(p, q), row, col)))'
             /\ (stage = "done" => Same(Dealt(farPairs, p, q), FarDue(p, q)))'
  <2>1. p \in Particles /\ q \in Particles
    BY <1>1
  <2>2. /\ stage' = "close" =>
            Same(Dealt(closePairs', p, q), PastCells(CloseDue(p, q), row', col'))
        /\ stage' \in {"far", "done"} => Same(Dealt(closePairs', p, q), CloseDue(p, q))
        /\ stage' = "far" => Same(Dealt(farPairs', p, q), PastCells(FarDue(p, q), row', col'))
        /\ stage' = "done" => Same(Dealt(farPairs', p, q), FarDue(p, q))
    BY <2>1
  <2> QED BY <1>4, <1>5, <1>6, <2>2 DEF Same
<1> QED BY <1>7, <1>8 DEF DealInv

LEMMA NoneDealt ==
  ASSUME NEW pairs, NoPairs(pairs), NEW p, NEW q
  PROVE  Dealt(pairs, p, q) = {}
BY DEF NoPairs, Dealt

\* One pair more is dealt for the entries it contributes to.
LEMMA DealtGrows ==
  ASSUME count \in Nat, NEW S, NEW pairs \in [Ranks -> Seq(S)], NEW i, NEW j,
         NEW p, NEW q, IsFiniteSet(Dealt(pairs, p, q))
  PROVE  /\ IsFiniteSet(Dealt(Deal(pairs, i, j), p, q))
         /\ Cardinality(Dealt(Deal(pairs, i, j), p, q)) =
              Cardinality(Dealt(pairs, p, q)) + (IF Contributes(<<i, j>>, p, q) THEN 1 ELSE 0)
         /\ Cardinality(Dealt(pairs, p, q)) \in Nat
<1> DEFINE r == count % P
           n == Len(pairs[r])
           new == <<r, n + 1>>
           dealt == Deal(pairs, i, j)
<1>1. r \in Ranks
  BY CloseFarAssumption DEF Ranks
<1> HIDE DEF r
<1>2. /\ DOMAIN dealt[r] = DOMAIN pairs[r] \cup {n + 1} /\ n + 1 \notin DOMAIN pairs[r]
      /\ \A k \in DOMAIN pairs[r] : dealt[r][k] = pairs[r][k]
      /\ dealt[r][n + 1] = <<i, j>>
      /\ \A m \in Ranks : m # r => dealt[m] = pairs[m]
  <2>1. /\ dealt[r] = Append(pairs[r], <<i, j>>) /\ pairs[r] \in Seq(S)
        /\ \A m \in Ranks : m # r => dealt[m] = pairs[m]
    BY <1>1 DEF Deal, r
  <2>2. /\ DOMAIN Append(pairs[r], <<i, j>>) = DOMAIN pairs[r] \cup {n + 1}
        /\ n + 1 \notin DOMAIN pairs[r]
        /\ \A k \in DOMAIN pairs[r] : Append(pairs[r], <<i, j>>)[k] = pairs[r][k]
        /\ Append(pairs[r], <<i, j>>)[n + 1] = <<i, j>>
    BY <2>1
  <2> HIDE DEF dealt, n
  <2> QED BY <2>1, <2>2
<1> HIDE DEF n, dealt
<1>3. ASSUME NEW b
      PROVE  b \in Dealt(dealt, p, q) <=>
               b \in Dealt(pairs, p, q) \/ (b = new /\ Contributes(<<i, j>>, p, q))
  <2>1. ASSUME NEW s
        PROVE  b \in Dealt(s, p, q) <=>
                 \E m \in Ranks : \E k \in DOMAIN s[m] :
                   b = <<m, k>> /\ Contributes(s[m][k], p, q)
    <3>1. b \in Dealt(s, p, q) <=>
            /\ \E m \in Ranks : \E k \in DOMAIN s[m] : b = <<m, k>>
            /\ Contributes(s[b[1]][b[2]], p, q)
      BY DEF Dealt
    <3>2. \A m, k : <<m, k>>[1] = m /\ <<m, k>>[2] = k
      OBVIOUS
    <3> QED BY <3>1, <3>2
  <2>2. /\ b \in Dealt(pairs, p, q) <=>
             \E m \in Ranks : \E k \in DOMAIN pairs[m] :
               b = <<m, k>> /\ Contributes(pairs[m][k], p, q)
        /\ b \in Dealt(dealt, p, q) <=>
             \E m \in Ranks : \E k \in DOMAIN dealt[m] :
               b = <<m, k>> /\ Contributes(dealt[m][k], p, q)
    BY <2>1
  <2>3. ASSUME b \in Dealt(dealt, p, q)
        PROVE  b \in Dealt(pairs, p, q) \/ (b = new /\ Contributes(<<i, j>>, p, q))
    <3>1. PICK m \in Ranks : \E k \in DOMAIN dealt[m] :
                 b = <<m, k>> /\ Contributes(dealt[m][k], p, q)
      BY <2>2, <2>3
    <3>2. PICK k \in DOMAIN dealt[m] : b = <<m, k>> /\ Contributes(dealt[m][k], p, q)
      BY <3>1
    <3>3. CASE m = r /\ k = n + 1
      BY <1>2, <3>2, <3>3
    <3>4. CASE ~(m = r /\ k = n + 1)
      <4>1. k \in DOMAIN pairs[m] /\ dealt[m][k] = pairs[m][k]
        BY <1>2, <3>2, <3>4
      <4> QED BY <2>2, <3>2, <4>1
    <3> QED BY <3>3, <3>4
  <2>4. ASSUME b \in Dealt(pairs, p, q) PROVE b \in Dealt(dealt, p, q)
    <3>1. PICK m \in Ranks : \E k \in DOMAIN pairs[m] :
                 b = <<m, k>> /\ Contributes(pairs[m][k], p, q)
      BY <2>2, <2>4
    <3>2. PICK k \in DOMAIN pairs[m] : b = <<m, k>> /\ Contributes(pairs[m][k], p, q)
      BY <3>1
    <3>3. k \in DOMAIN dealt[m] /\ dealt[m][k] = pairs[m][k]
      BY <1>2
    <3> QED BY <2>2, <3>2, <3>3
  <2>5. ASSUME b = new, Contributes(<<i, j>>, p, q) PROVE b \in Dealt(dealt, p, q)
    BY <1>1, <1>2, <2>2, <2>5
  <2> QED BY <2>3, <2>4, <2>5
<1>4. new \notin Dealt(pairs, p, q)
  <2>1. ASSUME new \in Dealt(pairs, p, q) PROVE FALSE
    <3>1. new[2] \in DOMAIN pairs[new[1]]
      BY <2>1 DEF Dealt
    <3> QED BY <1>2, <3>1
  <2> QED BY <2>1
<1>5. Cardinality(Dealt(pairs, p, q)) \in Nat
  BY FS_CardinalityType
<1>6. CASE Contributes(<<i, j>>, p, q)
  <2>1. Dealt(dealt, p, q) = Dealt(pairs, p, q) \cup {new}
    BY <1>3, <1>6
  <2> QED BY <1>4, <1>5, <1>6, <2>1, FS_AddElement DEF dealt
<1>7. CASE ~Contributes(<<i, j>>, p, q)
  <2>1. Dealt(dealt, p, q) = Dealt(pairs, p, q)
    BY <1>3, <1>7
  <2> QED BY <1>5, <1>7, <2>1 DEF dealt
<1> QED BY <1>6, <1>7

IsCells(D) == \A x \in D : x[1] \in Nat /\ x[2] \in Nat \ {0} /\ x = <<x[1], x[2]>>

LEMMA PastGrows ==
  ASSUME NEW D, IsCells(D), NEW r \in Nat, NEW c \in Nat, IsFiniteSet(PastCells(D, r, c))
  PROVE  /\ IsFiniteSet(PastCells(D, r, c + 1))
         /\ Cardinality(PastCells(D, r, c + 1)) =
              Cardinality(PastCells(D, r, c)) + (IF <<r, c>> \in D THEN 1 ELSE 0)
<1> DEFINE new == <<r, c>>
<1>1. new[1] = r /\ new[2] = c /\ new \notin PastCells(D, r, c)
  BY DEF PastCells
<1> HIDE DEF new
<1>2. ASSUME NEW x \in D
      PROVE  x \in PastCells(D, r, c + 1) <=> x \in PastCells(D, r, c) \/ x = new
  <2>1. x[1] = r /\ x[2] = c <=> x = new
    BY <1>1 DEF IsCells, new
  <2>2. x[2] < c + 1 <=> x[2] < c \/ x[2] = c
    BY DEF IsCells
  <2> QED BY <2>1, <2>2 DEF PastCells
<1>3. PastCells(D, r, c) \subseteq D /\ PastCells(D, r, c + 1) \subseteq D
  BY DEF PastCells
<1>4. Cardinality(PastCells(D, r, c)) \in Nat
  BY FS_CardinalityType
<1>5. CASE new \in D
  <2>1. PastCells(D, r, c + 1) = PastCells(D, r, c) \cup {new}
    BY <1>2, <1>3, <1>5
  <2> QED BY <1>1, <1>4, <1>5, <2>1, FS_AddElement DEF new
<1>6. CASE new \notin D
  <2>1. PastCells(D, r, c + 1) = PastCells(D, r, c)
    BY <1>2, <1>3, <1>6
  <2> QED BY <1>4, <1>6, <2>1 DEF new
<1> QED BY <1>5, <1>6

LEMMA PastNextRow ==
  ASSUME NEW D, IsCells(D), NEW r \in Nat, NEW c \in Nat, \A x \in D : x[1] = r => x[2] < c
  PROVE  PastCells(D, r + 1, 1) = PastCells(D, r, c)
<1>1. ASSUME NEW x \in D
      PROVE  (x[1] < r + 1 \/ (x[1] = r + 1 /\ x[2] < 1)) <=> (x[1] < r \/ (x[1] = r /\ x[2] < c))
  <2>1. x[1] \in Nat /\ x[2] \in Nat \ {0} /\ (x[1] = r => x[2] < c)
    BY DEF IsCells
  <2> QED BY <2>1
<1> QED BY <1>1 DEF PastCells

\* One turn of a loop: its cell is past, and its pair is dealt if it is kept.
LEMMA DealOne ==
  ASSUME count \in Nat, NEW S, NEW pairs \in [Ranks -> Seq(S)], NEW i, NEW j,
         NEW D, IsCells(D), NEW r \in Nat, NEW c \in Nat, NEW p, NEW q,
         <<r, c>> \in D <=> IsDue(<<i, j>>, p, q),
         Same(Dealt(pairs, p, q), PastCells(D, r, c))
  PROVE  Same(Dealt(IF IsKept(i, j) THEN Deal(pairs, i, j) ELSE pairs, p, q), PastCells(D, r, c + 1))
<1>1. /\ IsFiniteSet(Dealt(pairs, p, q)) /\ IsFiniteSet(PastCells(D, r, c))
      /\ Cardinality(Dealt(pairs, p, q)) = Cardinality(PastCells(D, r, c))
  BY DEF Same
<1>2. /\ IsFiniteSet(PastCells(D, r, c + 1))
      /\ Cardinality(PastCells(D, r, c + 1)) =
              Cardinality(PastCells(D, r, c)) + (IF <<r, c>> \in D THEN 1 ELSE 0)
  BY <1>1, PastGrows
<1>3. <<r, c>> \in D <=> IsKept(i, j) /\ Contributes(<<i, j>>, p, q)
  <2>1. <<i, j>>[1] = i /\ <<i, j>>[2] = j
    OBVIOUS
  <2> QED BY <2>1 DEF IsDue
<1>4. CASE IsKept(i, j)
  <2>1. /\ IsFiniteSet(Dealt(Deal(pairs, i, j), p, q))
        /\ Cardinality(Dealt(Deal(pairs, i, j), p, q)) =
             Cardinality(Dealt(pairs, p, q)) + (IF Contributes(<<i, j>>, p, q) THEN 1 ELSE 0)
    BY <1>1, DealtGrows
  <2> QED BY <1>1, <1>2, <1>3, <1>4, <2>1 DEF Same
<1>5. CASE ~IsKept(i, j)
  <2>1. Cardinality(PastCells(D, r, c)) \in Nat
    BY <1>1, FS_CardinalityType
  <2> QED BY <1>1, <1>2, <1>3, <1>5, <2>1 DEF Same
<1> QED BY <1>4, <1>5

\* The cells that are due are cells.
LEMMA DueCells ==
  ASSUME TypeOK, NEW p, NEW q
  PROVE  IsCells(CloseDue(p, q)) /\ IsCells(FarDue(p, q))
BY CellFacts DEF IsCells, CloseDue, FarDue

LEMMA EndRowsDeal == ASSUME IInv, DealInv, EndRows PROVE DealInv'
<1>1. /\ stage = "rows" /\ stage' = "close" /\ row' = 1 /\ col' = 1 /\ input' = input
      /\ closeMat' = closeMat /\ farMat' = farMat /\ leafList' = leafList
      /\ closePairs' = closePairs /\ farPairs' = farPairs /\ TypeOK
  BY DEF EndRows, dealVars, IInv
<1>2. NoPairs(closePairs) /\ NoPairs(farPairs)
  BY <1>1 DEF DealInv
<1>3. ASSUME NEW p \in Particles, NEW q \in Particles
      PROVE  Same(Dealt(closePairs, p, q), PastCells(CloseDue(p, q), 1, 1))
  <2>1. Dealt(closePairs, p, q) = {}
    BY <1>2, NoneDealt
  <2>2. ASSUME NEW x \in CloseDue(p, q) PROVE x[1] \in Nat \ {0} /\ x[2] \in Nat \ {0}
    <3>1. x \in CloseCells /\ leafList \in Seq(LeafNodes)
      BY <1>1 DEF CloseDue, TypeOK
    <3>2. PICK m \in DOMAIN leafList : \E k \in DOMAIN closeMat[leafList[m]] : x = <<m, k>>
      BY <1>1, <3>1, CellFacts
    <3> QED BY <1>1, <3>1, <3>2, CellFacts
  <2>3. PastCells(CloseDue(p, q), 1, 1) = {}
    BY <2>2 DEF PastCells
  <2> QED BY <2>1, <2>3, FS_EmptySet DEF Same
<1> QED BY <1>1, <1>2, <1>3, DealNext

LEMMA DealCloseDeal == ASSUME IInv, DealInv, DealClose PROVE DealInv'
<1>1. /\ TypeOK /\ stage = "close" /\ stage' = "close" /\ row \in Nat /\ row # 0
      /\ row <= Len(leafList) /\ col \in Nat \ {0} /\ input' = input
      /\ closeMat' = closeMat /\ farMat' = farMat /\ leafList' = leafList
      /\ farPairs' = farPairs /\ count \in Nat
      /\ closePairs \in [Ranks -> Seq(LeafNodes \X LeafNodes)]
  BY DEF DealClose, IInv, RowInv, TypeOK
<1>2. /\ NoPairs(farPairs)
      /\ \A p, q \in Particles : Same(Dealt(closePairs, p, q), PastCells(CloseDue(p, q), row, col))
  BY <1>1 DEF DealInv
<1> DEFINE i == leafList[row]
           j == closeMat[i][col]
<1>3. /\ row \in DOMAIN leafList /\ leafList \in Seq(LeafNodes)
      /\ closeMat[i] \in Seq(LeafNodes) /\ DOMAIN closeMat[i] = 1 .. Len(closeMat[i])
  <2>1. leafList \in Seq(LeafNodes) /\ row \in DOMAIN leafList
    BY <1>1 DEF TypeOK
  <2>2. closeMat[i] \in Seq(LeafNodes)
    BY <2>1 DEF IInv, LeafInv, Elements
  <2> QED BY <2>1, <2>2
<1>4. ASSUME NEW p \in Particles, NEW q \in Particles
      PROVE  Same(Dealt(closePairs', p, q), PastCells(CloseDue(p, q), row', col'))
  <2>1. Same(Dealt(closePairs, p, q), PastCells(CloseDue(p, q), row, col))
        /\ IsCells(CloseDue(p, q))
    BY <1>1, <1>2, DueCells
  <2>2. CASE col <= Len(closeMat[i])
    <3>1. /\ closePairs' = IF IsKept(i, j) THEN Deal(closePairs, i, j) ELSE closePairs
          /\ col' = col + 1 /\ row' = row
      BY <2>2 DEF DealClose
    <3>2. <<row, col>> \in CloseDue(p, q) <=> IsDue(<<i, j>>, p, q)
      <4>1. <<row, col>> \in CloseCells
        BY <1>1, <1>3, <2>2, CellFacts
      <4>2. CloseBlock(<<row, col>>) = <<i, j>>
        BY DEF CloseBlock
      <4> HIDE DEF i, j
      <4> QED BY <4>1, <4>2 DEF CloseDue
    <3> HIDE DEF i, j
    <3>3. col \in Nat
      BY <1>1
    <3>4. Same(Dealt(IF IsKept(i, j) THEN Deal(closePairs, i, j) ELSE closePairs, p, q),
               PastCells(CloseDue(p, q), row, col + 1))
      BY <1>1, <2>1, <3>2, <3>3, DealOne
    <3> QED BY <3>1, <3>4
  <2>3. CASE ~(col <= Len(closeMat[i]))
    <3>1. row' = row + 1 /\ col' = 1 /\ closePairs' = closePairs
      BY <2>3 DEF DealClose
    <3>2. \A x \in CloseDue(p, q) : x[1] = row => x[2] < col
      <4> SUFFICES ASSUME NEW x \in CloseCells, x[1] = row PROVE x[2] < col
        BY DEF CloseDue
      <4>1. PICK m \in DOMAIN leafList : \E k \in DOMAIN closeMat[leafList[m]] : x = <<m, k>>
        BY <1>1, CellFacts
      <4>2. x[2] \in DOMAIN closeMat[i]
        BY <4>1
      <4>3. Len(closeMat[i]) \in Nat
        BY <1>3
      <4> QED BY <1>1, <1>3, <2>3, <4>2, <4>3
    <3>3. PastCells(CloseDue(p, q), row + 1, 1) = PastCells(CloseDue(p, q), row, col)
      BY <1>1, <2>1, <3>2, PastNextRow
    <3> QED BY <2>1, <3>1, <3>3
  <2> QED BY <2>2, <2>3
<1> QED BY <1>1, <1>2, <1>4, DealNext

LEMMA EndCloseDeal == ASSUME IInv, DealInv, EndClose PROVE DealInv'
<1>1. /\ TypeOK /\ stage = "close" /\ stage' = "far" /\ row \in Nat /\ row > Len(leafList)
      /\ row' = 0 /\ col' = 1 /\ input' = input
      /\ closeMat' = closeMat /\ farMat' = farMat /\ leafList' = leafList
      /\ closePairs' = closePairs /\ farPairs' = farPairs
  BY DEF EndClose, IInv, RowInv
<1>2. NoPairs(farPairs)
  BY <1>1 DEF DealInv
<1>3. ASSUME NEW p \in Particles, NEW q \in Particles
      PROVE  /\ Same(Dealt(closePairs, p, q), CloseDue(p, q))
             /\ Same(Dealt(farPairs, p, q), PastCells(FarDue(p, q), 0, 1))
  <2>1. Same(Dealt(closePairs, p, q), PastCells(CloseDue(p, q), row, col))
    BY <1>1 DEF DealInv
  <2>2. ASSUME NEW x \in CloseCells PROVE x[1] < row
    <3>1. PICK m \in DOMAIN leafList : \E k \in DOMAIN closeMat[leafList[m]] : x = <<m, k>>
      BY <1>1, CellFacts
    <3>2. leafList \in Seq(LeafNodes)
      BY <1>1 DEF TypeOK
    <3>3. x[1] = m /\ m <= Len(leafList) /\ m \in Nat /\ Len(leafList) \in Nat
      BY <3>1, <3>2
    <3> QED BY <1>1, <3>3
  <2>3. PastCells(CloseDue(p, q), row, col) = CloseDue(p, q)
    BY <2>2 DEF PastCells, CloseDue
  <2>4. Dealt(farPairs, p, q) = {}
    BY <1>2, NoneDealt
  <2>5. PastCells(FarDue(p, q), 0, 1) = {}
    <3>1. IsCells(FarDue(p, q))
      BY <1>1, DueCells
    <3> QED BY <3>1 DEF IsCells, PastCells
  <2> QED BY <2>1, <2>3, <2>4, <2>5, FS_EmptySet DEF Same
<1> QED BY <1>1, <1>3, DealNext

LEMMA DealFarDeal == ASSUME IInv, DealInv, DealFar PROVE DealInv'
<1>1. /\ TypeOK /\ stage = "far" /\ stage' = "far" /\ row \in Rows /\ row \in Nat
      /\ col \in Nat \ {0} /\ input' = input
      /\ closeMat' = closeMat /\ farMat' = farMat /\ leafList' = leafList
      /\ closePairs' = closePairs /\ count \in Nat
      /\ farPairs \in [Ranks -> Seq(Nodes \X Nodes)] /\ farMat[row] \in Seq(Nodes)
  BY DEF DealFar, IInv, RowInv, TypeOK
<1>2. \A p, q \in Particles : /\ Same(Dealt(closePairs, p, q), CloseDue(p, q))
                              /\ Same(Dealt(farPairs, p, q), PastCells(FarDue(p, q), row, col))
  BY <1>1 DEF DealInv
<1> DEFINE j == farMat[row][col]
<1>3. ASSUME NEW p \in Particles, NEW q \in Particles
      PROVE  Same(Dealt(farPairs', p, q), PastCells(FarDue(p, q), row', col'))
  <2>1. Same(Dealt(farPairs, p, q), PastCells(FarDue(p, q), row, col)) /\ IsCells(FarDue(p, q))
    BY <1>1, <1>2, DueCells
  <2>2. CASE col <= Len(farMat[row])
    <3>1. /\ farPairs' = IF IsKept(row, j) THEN Deal(farPairs, row, j) ELSE farPairs
          /\ col' = col + 1 /\ row' = row
      BY <2>2 DEF DealFar
    <3>2. <<row, col>> \in FarDue(p, q) <=> IsDue(<<row, j>>, p, q)
      <4>1. <<row, col>> \in FarCells
        BY <1>1, <2>2, CellFacts
      <4>2. FarBlock(<<row, col>>) = <<row, j>>
        BY DEF FarBlock
      <4> HIDE DEF j
      <4> QED BY <4>1, <4>2 DEF FarDue
    <3> HIDE DEF j
    <3>3. col \in Nat
      BY <1>1
    <3>4. Same(Dealt(IF IsKept(row, j) THEN Deal(farPairs, row, j) ELSE farPairs, p, q),
               PastCells(FarDue(p, q), row, col + 1))
      BY <1>1, <2>1, <3>2, <3>3, DealOne
    <3> QED BY <3>1, <3>4
  <2>3. CASE ~(col <= Len(farMat[row]))
    <3>1. row' = row + 1 /\ col' = 1 /\ farPairs' = farPairs
      BY <2>3 DEF DealFar
    <3>2. \A x \in FarDue(p, q) : x[1] = row => x[2] < col
      <4> SUFFICES ASSUME NEW x \in FarCells, x[1] = row PROVE x[2] < col
        BY DEF FarDue
      <4>1. PICK i \in Rows : \E k \in DOMAIN farMat[i] : x = <<i, k>>
        BY <1>1, CellFacts
      <4>2. x[2] \in DOMAIN farMat[row]
        BY <4>1
      <4>3. Len(farMat[row]) \in Nat /\ DOMAIN farMat[row] = 1 .. Len(farMat[row])
        BY <1>1
      <4> QED BY <1>1, <2>3, <4>2, <4>3
    <3>3. PastCells(FarDue(p, q), row + 1, 1) = PastCells(FarDue(p, q), row, col)
      BY <1>1, <2>1, <3>2, PastNextRow
    <3> QED BY <2>1, <3>1, <3>3
  <2> QED BY <2>2, <2>3
<1> QED BY <1>1, <1>2, <1>3, DealNext

\* The rows are numbered from 0, so the first number that is no row is past all.
LEMMA EndFarDeal == ASSUME IInv, DealInv, EndFar PROVE DealInv'
<1>1. /\ TypeOK /\ stage = "far" /\ stage' = "done" /\ row \in Nat /\ row \notin Rows
      /\ input' = input
      /\ closeMat' = closeMat /\ farMat' = farMat /\ leafList' = leafList
      /\ closePairs' = closePairs /\ farPairs' = farPairs
  BY DEF EndFar, IInv, RowInv, rowVars, dealVars
<1>2. \A i \in Rows : i < row
  <2>1. \A i \in Rows : 0 .. i \subseteq Rows /\ i \in Nat
    BY <1>1, TreeFacts DEF IsTree, Rows
  <2> QED BY <1>1, <2>1
<1>3. ASSUME NEW p \in Particles, NEW q \in Particles
      PROVE  /\ Same(Dealt(closePairs, p, q), CloseDue(p, q))
             /\ Same(Dealt(farPairs, p, q), FarDue(p, q))
  <2>1. /\ Same(Dealt(closePairs, p, q), CloseDue(p, q))
        /\ Same(Dealt(farPairs, p, q), PastCells(FarDue(p, q), row, col))
    BY <1>1 DEF DealInv
  <2>2. ASSUME NEW x \in FarCells PROVE x[1] < row
    <3>1. PICK i \in Rows : \E k \in DOMAIN farMat[i] : x = <<i, k>>
      BY <1>1, CellFacts
    <3> QED BY <1>2, <3>1
  <2>3. PastCells(FarDue(p, q), row, col) = FarDue(p, q)
    BY <2>2 DEF PastCells, FarDue
  <2> QED BY <2>1, <2>3
<1> QED BY <1>1, <1>3, DealNext

\* What is due stays what it was when the rows ended.
OnceInv == stage # "rows" /\ (VerdictsMirror \/ ~UseSymmetry) => OnceDue

LEMMA OnceNext ==
  ASSUME input' = input, closeMat' = closeMat, farMat' = farMat, leafList' = leafList,
         VerdictsMirror \/ ~UseSymmetry => OnceDue
  PROVE  OnceInv'
<1>1. Particles' = Particles /\ Rows' = Rows /\ \A i : Positions(i)' = Positions(i)
  BY SameTree
<1>2. UseSymmetry' = UseSymmetry
  BY DEF UseSymmetry
<1>3. CloseCells' = CloseCells /\ FarCells' = FarCells
      /\ \A x : CloseBlock(x)' = CloseBlock(x) /\ FarBlock(x)' = FarBlock(x)
  BY <1>1 DEF CloseCells, FarCells, CloseBlock, FarBlock
<1>4. \A b, p, q : Contributes(b, p, q)' = Contributes(b, p, q)
  BY <1>1, <1>2 DEF Contributes
<1>5. \A p, q : CloseDue(p, q)' = CloseDue(p, q) /\ FarDue(p, q)' = FarDue(p, q)
  BY <1>2, <1>3, <1>4 DEF CloseDue, FarDue, IsDue, IsKept
<1> QED BY <1>1, <1>2, <1>5 DEF OnceInv, OnceDue

DealtInv == VisitInv /\ DealInv /\ OnceInv

LEMMA InitDealt == ASSUME Init PROVE DealtInv
<1>1. IInv /\ MirrorInv
  BY InitInv, InitMirror
<1>2. LeafOnce
  BY DEF Init, LeafOnce
<1>3. DealInv /\ OnceInv
  BY DEF Init, DealInv, OnceInv, NoPairs
<1> QED BY <1>1, <1>2, <1>3 DEF DealtInv, VisitInv

LEMMA DealtNext == ASSUME DealtInv, [Next]_vars PROVE DealtInv'
<1>1. VisitInv /\ IInv /\ DealInv /\ OnceInv
  BY DEF DealtInv, VisitInv
<1>2. VisitInv'
  BY <1>1, VisitNext
<1>3. CASE StartRow \/ TestColumn \/ Descend \/ EndRow
  <2>1. /\ stage = "rows" /\ stage' = "rows"
        /\ closePairs' = closePairs /\ farPairs' = farPairs
    BY <1>3 DEF StartRow, TestColumn, Descend, EndRow, dealVars
  <2>2. DealInv'
    BY <1>1, <2>1 DEF DealInv, NoPairs
  <2> QED BY <1>2, <2>1, <2>2 DEF DealtInv, OnceInv
<1>4. CASE EndRows
  <2>1. RowsEnded /\ input' = input /\ closeMat' = closeMat /\ farMat' = farMat /\ leafList' = leafList
    BY <1>4 DEF EndRows, RowsEnded
  <2>2. OnceInv'
    BY <1>1, <2>1, OnceDueAtEnd, OnceNext
  <2> QED BY <1>1, <1>2, <1>4, <2>2, EndRowsDeal DEF DealtInv
<1>5. CASE DealClose \/ EndClose \/ DealFar \/ EndFar
  <2>1. /\ stage # "rows" /\ input' = input
        /\ closeMat' = closeMat /\ farMat' = farMat /\ leafList' = leafList
    BY <1>5 DEF DealClose, EndClose, DealFar, EndFar, rowVars
  <2>2. OnceInv'
    BY <1>1, <2>1, OnceNext DEF OnceInv
  <2>3. DealInv'
    BY <1>1, <1>5, DealCloseDeal, EndCloseDeal, DealFarDeal, EndFarDeal
  <2> QED BY <1>2, <2>2, <2>3 DEF DealtInv
<1>6. CASE Done \/ UNCHANGED vars
  <2>1. /\ input' = input /\ stage' = stage /\ row' = row /\ col' = col
        /\ closeMat' = closeMat /\ farMat' = farMat /\ leafList' = leafList
        /\ closePairs' = closePairs /\ farPairs' = farPairs
    BY <1>6 DEF Done, vars, rowVars, dealVars
  <2>2. CASE stage = "rows"
    BY <1>1, <1>2, <2>1, <2>2 DEF DealtInv, DealInv, OnceInv, NoPairs
  <2>3. CASE stage # "rows"
    <3>1. OnceInv'
      BY <1>1, <2>1, <2>3, OnceNext DEF OnceInv
    <3>2. stage \in {"close", "far", "done"}
      BY <1>1, <2>3 DEF IInv, TypeOK
    <3>3. DealInv'
      BY <1>1, <2>1, <3>2, DealNext DEF DealInv
    <3> QED BY <1>2, <3>1, <3>3 DEF DealtInv
  <2> QED BY <2>2, <2>3
<1> QED BY <1>3, <1>4, <1>5, <1>6 DEF Next

\* One particle stands for its leaf.
LEMMA SamplesAreParticles == ASSUME TypeOK PROVE Samples \subseteq Particles
<1> SUFFICES ASSUME NEW i \in LeafNodes PROVE Tree[i].first \in Particles
  BY DEF Samples
<1>1. i \in Nodes /\ IsTree(Tree) /\ Positions(i) \subseteq Particles
  BY TreeFacts DEF LeafNodes
<1>2. Tree[i].first \in Nat /\ Tree[i].last \in Nat /\ Tree[i].first < Tree[i].last
  BY <1>1 DEF IsTree, Nodes
<1>3. Tree[i].first \in Positions(i)
  BY <1>2 DEF Positions
<1> QED BY <1>1, <1>3

\* Whatever tree and mMaxRelativeCoord, the blocks dealt to all ranks together
\* hold every entry of the matrix exactly once, if the test of two nodes gives
\* the same verdict either way round, or no run uses symmetry.
THEOREM EveryEntryOnce ==
  ASSUME VerdictsMirror \/ \A in \in Inputs : ~in.symmetry
  PROVE  Spec => []EachEntryOnce
<1>1. ASSUME DealtInv PROVE EachEntryOnce
  <2> SUFFICES ASSUME stage = "done", NEW p \in Samples, NEW q \in Samples
               PROVE  Cardinality(Dealt(closePairs, p, q)) + Cardinality(Dealt(farPairs, p, q)) = 1
    BY DEF EachEntryOnce
  <2>1. p \in Particles /\ q \in Particles
    BY <1>1, SamplesAreParticles DEF DealtInv, VisitInv, IInv
  <2>2. OnceDue
    <3>1. VerdictsMirror \/ ~UseSymmetry
      BY <1>1 DEF DealtInv, VisitInv, IInv, TypeOK, UseSymmetry
    <3> QED BY <1>1, <3>1 DEF DealtInv, OnceInv
  <2>3. /\ Same(Dealt(closePairs, p, q), CloseDue(p, q))
        /\ Same(Dealt(farPairs, p, q), FarDue(p, q))
    BY <1>1, <2>1 DEF DealtInv, DealInv
  <2> QED BY <2>1, <2>2, <2>3 DEF OnceDue, Same
<1>2. Init => DealtInv
  BY InitDealt
<1>3. DealtInv /\ [Next]_vars => DealtInv'
  BY DealtNext
<1> QED BY <1>1, <1>2, <1>3, PTL DEF Spec
=============================================================================
