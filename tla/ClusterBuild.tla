---------------------------- MODULE ClusterBuild ----------------------------
(***************************************************************************)
(* HignnModel::Build: the MPI ranks build one binary cluster tree over N   *)
(* particles.  Rank 0 splits the top levels alone, broadcasts them, the    *)
(* first 2^InitialLevel ranks split one start node each into a local tree, *)
(* and the local trees are copied, rank after rank, into one tree that     *)
(* every rank keeps.                                                       *)
(*                                                                         *)
(* A row of a tree is <<left, right, first, last, level>>: the children    *)
(* (0, 0 in a leaf) and the half-open range of positions of the reordered  *)
(* particle list the node owns.  Floating-point coordinates are abstracted *)
(* to integer projections: a principal axis is a function that gives each  *)
(* particle its projection, and each split may find any axis of Axes.      *)
(***************************************************************************)
EXTENDS Integers, Sequences, FiniteSets, FiniteSetsExt

CONSTANTS
  P,          \* mMPISize
  N,          \* GetCount(), the number of particles
  BlockSize,  \* mBlockSize
  Axes,       \* the principal axes a split may find, [Particles -> Int]
  Layout      \* memory layout of the merged tree: "left" (GPU) or "right" (CPU)

Ranks == 0 .. P - 1
Particles == 0 .. N - 1

ASSUME BuildAssumption ==
  /\ P \in Nat \ {0} /\ N \in Nat \ {0} /\ BlockSize \in Nat \ {0}
  /\ Axes # {} /\ Axes \subseteq [Particles -> Int]
  /\ Layout \in {"left", "right"}

\* pow(2, l), for the levels l the code asks for.
Power[l \in 0 .. P + 2] == IF l = 0 THEN 1 ELSE 2 * Power[l - 1]

\* floor(log2 P), and the sizes derived from it.
InitialLevel == CHOOSE l \in 0 .. P : Power[l] <= P /\ P < Power[l + 1]
InitialNodeSize == Power[InitialLevel + 2] - 1
MaxWorkSize == Power[InitialLevel]
StartNode(r) == Power[InitialLevel] - 1 + r

Cols == <<"left", "right", "first", "last", "level">>
NullRow == [left |-> 0, right |-> 0, first |-> 0, last |-> 0, level |-> 0]

VARIABLES
  pc,         \* pc[r]: "initial", "local", "merge", "done" or "fault"
  queue,      \* queue[r]: nodeList, the rows still to be visited
  newNodeNum, \* newNodeNum[r]: rows of the tree under construction
  initTree,   \* initTree[r]: initialClusterTree
  localTree,  \* localTree[r]: the rank's own mClusterTree, N rows
  map,        \* map[r]: mReorderedMap
  hostTree,   \* hostTree[r]: the merged tree, *mClusterTreeMirrorPtr
  offset,     \* where the next local tree goes in the merged tree
  merging     \* the rank whose local tree is merged next

vars == <<pc, queue, newNodeNum, initTree, localTree, map, hostTree, offset,
          merging>>

Size(row) == row.last - row.first

\* A row that is split.
TooLarge(row) == Size(row) > BlockSize

IsLeaf(row) == row.left = 0
Positions(row) == row.first .. row.last - 1

-----------------------------------------------------------------------------
(* Divide: order the positions of a range along an axis and cut at the mean *)

\* Where the sort puts the particle at position i.  std::sort may order equal
\* projections in any way; one order stands for them all.
Place(m, range, axis, i) ==
  Cardinality({j \in range : \/ axis[m[j]] < axis[m[i]]
                             \/ axis[m[j]] = axis[m[i]] /\ j < i})

SortedMap(m, first, last, axis) ==
  LET range == first .. last - 1
  IN  [k \in Particles |->
         IF k \in range
         THEN m[CHOOSE i \in range : first + Place(m, range, axis, i) = k]
         ELSE m[k]]

\* The positions of the cut.  upper_bound(0) on the centred projections keeps
\* those at or below the mean on the left.  When all projections are equal the
\* rounding of the float mean decides on which side all of them fall.
CutsUnshifted(m, first, last, axis) ==
  LET range == first .. last - 1
      sum   == MapThenSumSet(LAMBDA i : axis[m[i]], range)
  IN  {Cardinality({i \in range : (last - first) * axis[m[i]] <= sum})}

Cuts(m, first, last, axis) ==
  LET range == first .. last - 1
      along == [i \in range |-> axis[m[i]]]
      sum   == MapThenSumSet(LAMBDA i : along[i], range)
      low   == {i \in range : (last - first) * along[i] <= sum}
  IN  IF \A i, j \in range : along[i] = along[j]
      THEN {first, last}
      ELSE {first + Cardinality(low)}

\* Rows num and num + 1 become the children of a row, cut at mid.
Split(tree, node, num, mid) ==
  [tree EXCEPT ![node].left = num, ![node].right = num + 1,
     ![num] = [@ EXCEPT !.first = tree[node].first, !.last = mid,
                        !.level = tree[node].level + 1],
     ![num + 1] = [@ EXCEPT !.first = mid, !.last = tree[node].last,
                            !.level = tree[node].level + 1]]

\* The queue after its front row was visited: children go to the back.
EnqueueUnpopped(q, children) ==
  IF children = <<>> THEN q ELSE Tail(q) \o children
Enqueue(q, children) == Tail(q) \o children

\* Everything the visit of one row can make of the tree, the map and the row
\* counter, and the children it queues.  A cut at 0 means "not divided".  The
\* children take the next two rows; a tree without room for them is a fault.
Visits(tree, m, node, num) ==
  LET row == tree[node]
      leaf(newMap) ==
        [tree |-> [tree EXCEPT ![node].left = 0, ![node].right = 0],
         map |-> newMap, num |-> num, children |-> <<>>, fault |-> FALSE]
      split(newMap, mid) ==
        [tree |-> Split(tree, node, num, mid), map |-> newMap,
         num |-> num + 2, children |-> <<num, num + 1>>, fault |-> FALSE]
      visit(newMap, mid) ==
        IF mid = 0 THEN leaf(newMap)
        ELSE IF num + 1 \in DOMAIN tree THEN split(newMap, mid)
        ELSE [leaf(newMap) EXCEPT !.tree = tree, !.fault = TRUE]
  IN  IF TooLarge(row)
      THEN UNION {{visit(SortedMap(m, row.first, row.last, axis), mid) :
                     mid \in Cuts(m, row.first, row.last, axis)} :
                  axis \in Axes}
      ELSE {leaf(m)}

-----------------------------------------------------------------------------
Init ==
  /\ pc = [r \in Ranks |-> "initial"]
  /\ queue = [r \in Ranks |-> IF r = 0 THEN <<0>> ELSE <<>>]
  /\ newNodeNum = [r \in Ranks |-> 1]
  /\ initTree = [r \in Ranks |->
       [i \in 0 .. InitialNodeSize - 1 |->
          IF r = 0 /\ i = 0 THEN [NullRow EXCEPT !.last = N] ELSE NullRow]]
  /\ localTree = [r \in Ranks |-> [i \in 0 .. N - 1 |-> NullRow]]
  /\ map = [r \in Ranks |-> [i \in Particles |-> IF r = 0 THEN i ELSE 0]]
  /\ hostTree = [r \in Ranks |-> <<>>]
  /\ offset = InitialNodeSize
  /\ merging = 0

\* One turn of rank 0's loop over the top of the tree: visit the front row;
\* children above InitialLevel are visited in turn.
InitialSplit ==
  /\ pc[0] = "initial" /\ queue[0] # <<>>
  /\ \E v \in Visits(initTree[0], map[0], Head(queue[0]), newNodeNum[0]) :
       /\ initTree' = [initTree EXCEPT ![0] = v.tree]
       /\ map' = [map EXCEPT ![0] = v.map]
       /\ newNodeNum' = [newNodeNum EXCEPT ![0] = v.num]
       /\ queue' = [queue EXCEPT ![0] =
            Enqueue(@, IF v.children # <<>> /\ v.tree[Head(v.children)].level < InitialLevel
                       THEN v.children ELSE <<>>)]
  /\ UNCHANGED <<pc, localTree, hostTree, offset, merging>>

\* Rank 0 broadcasts the top of the tree and the map; every working rank puts
\* its start node in row 0 of its local tree.
BcastInitial ==
  /\ \A r \in Ranks : pc[r] = "initial"
  /\ queue[0] = <<>>
  /\ initTree' = [r \in Ranks |-> initTree[0]]
  /\ map' = [r \in Ranks |-> map[0]]
  /\ localTree' = [r \in Ranks |->
       IF r < MaxWorkSize
       THEN [localTree[r] EXCEPT ![0] = initTree[0][StartNode(r)]]
       ELSE localTree[r]]
  /\ queue' = [r \in Ranks |-> IF r < MaxWorkSize THEN <<0>> ELSE <<>>]
  /\ newNodeNum' = [r \in Ranks |-> 1]
  /\ pc' = [r \in Ranks |-> "local"]
  /\ UNCHANGED <<hostTree, offset, merging>>

\* One row of a rank's local tree.  The code takes up to 50 rows off the queue,
\* divides them and then numbers their children in queue order, which gives
\* the rows, the map and the queue of one row at a time.  The local tree has N
\* rows: writing a child past them is undefined, and the rank stops there.
LocalSplit(r) ==
  /\ pc[r] = "local" /\ queue[r] # <<>>
  /\ \E v \in Visits(localTree[r], map[r], Head(queue[r]), newNodeNum[r]) :
       /\ localTree' = [localTree EXCEPT ![r] = v.tree]
       /\ map' = [map EXCEPT ![r] = v.map]
       /\ newNodeNum' = [newNodeNum EXCEPT ![r] = v.num]
       /\ queue' = [queue EXCEPT ![r] = Enqueue(@, v.children)]
       /\ pc' = [pc EXCEPT ![r] = IF v.fault THEN "fault" ELSE @]
  /\ UNCHANGED <<initTree, hostTree, offset, merging>>

\* The ranks add up the sizes of their local trees (without row 0, which is a
\* start node), allocate the merged tree and copy the top of the tree to it.
SumSizes ==
  /\ \A r \in Ranks : pc[r] = "local" /\ queue[r] = <<>>
  /\ LET rankSize == [r \in Ranks |-> newNodeNum[r] - 1]
         treeSize == InitialNodeSize + MapThenSumSet(LAMBDA r : rankSize[r], Ranks)
     IN  /\ newNodeNum' = rankSize
         /\ hostTree' = [r \in Ranks |->
              [i \in 0 .. treeSize - 1 |->
                 IF i < InitialNodeSize THEN initTree[r][i] ELSE NullRow]]
  /\ pc' = [r \in Ranks |-> "merge"]
  /\ UNCHANGED <<queue, initTree, localTree, map, offset, merging>>

\* The owner's copy of the merged tree with its local rows moved to offset.
MovedTooFar(owner) ==
  [i \in DOMAIN hostTree[owner] |->
     IF i \in offset .. offset + newNodeNum[owner] - 1
     THEN LET row == localTree[owner][i - offset + 1]
          IN  [row EXCEPT !.left = IF IsLeaf(row) THEN 0 ELSE @ + offset,
                          !.right = IF IsLeaf(row) THEN 0 ELSE @ + offset]
     ELSE hostTree[owner][i]]

Moved(owner) ==
  [i \in DOMAIN hostTree[owner] |->
     IF i \in offset .. offset + newNodeNum[owner] - 1
     THEN LET row == localTree[owner][i - offset + 1]
          IN  [row EXCEPT
                 !.left = IF IsLeaf(row) THEN 0 ELSE @ + offset - 1,
                 !.right = IF IsLeaf(row) THEN 0 ELSE @ + offset - 1]
     ELSE hostTree[owner][i]]

\* Where the entry of column Cols[c] of row i is in the tree's memory.
Address(i, c, treeSize) ==
  IF Layout = "left" THEN (c - 1) * treeSize + i ELSE i * Len(Cols) + c - 1

\* The entries the five broadcasts of the owner's rows carry: rankSize entries
\* from each multiple of the tree's size, which are the columns of a "left"
\* layout.
BroadcastUnshifted(i, c, treeSize, rankSize) ==
  \E k \in 0 .. Len(Cols) - 1 :
    Address(i, c, treeSize) \in k * treeSize .. k * treeSize + rankSize - 1

Broadcast(i, c, treeSize, rankSize) ==
  \E k \in 0 .. Len(Cols) - 1 :
    Address(i, c, treeSize) \in
      k * treeSize + offset .. k * treeSize + offset + rankSize - 1

\* A rank's map once the owner has broadcast the piece of its start node.
MapPiece(r, owner) ==
  [i \in Particles |-> IF i \in Positions(initTree[r][StartNode(owner)])
                       THEN map[owner][i] ELSE map[r][i]]

\* One turn of the merge loop, a collective step: the owner moves its rows,
\* broadcasts them and its piece of the map, and all ranks hang the rows
\* under the owner's start node.
MergeRank ==
  /\ \A r \in Ranks : pc[r] = "merge"
  /\ LET owner    == merging
         moved    == Moved(owner)
         treeSize == Cardinality(DOMAIN moved)
         rankSize == newNodeNum[owner]
         start    == StartNode(owner)
         Entry(r, i, c) ==
           IF r = owner \/ Broadcast(i, c, treeSize, rankSize)
           THEN moved[i][Cols[c]] ELSE hostTree[r][i][Cols[c]]
         Received(r, i) ==
           [left |-> Entry(r, i, 1), right |-> Entry(r, i, 2), first |-> Entry(r, i, 3),
            last |-> Entry(r, i, 4), level |-> Entry(r, i, 5)]
     IN  /\ hostTree' = [r \in Ranks |->
              [[i \in DOMAIN moved |-> Received(r, i)]
                 EXCEPT ![start].left = offset, ![start].right = offset + 1]]
         /\ map' = [r \in Ranks |-> MapPiece(r, owner)]
         /\ offset' = offset + rankSize
  /\ merging' = merging + 1
  /\ pc' = [r \in Ranks |->
              IF merging + 1 = MaxWorkSize THEN "done" ELSE "merge"]
  /\ UNCHANGED <<queue, newNodeNum, initTree, localTree>>

Finished == \A r \in Ranks : pc[r] = "done"
Faulted == \E r \in Ranks : pc[r] = "fault"

\* One step of Build.
BuildNext ==
  \/ InitialSplit
  \/ BcastInitial
  \/ \E r \in Ranks : LocalSplit(r)
  \/ SumSizes
  \/ MergeRank

-----------------------------------------------------------------------------
(* What is true of one tree and of all of them *)

Links(t) == {i \in DOMAIN t : ~IsLeaf(t[i])}
Children(t) == UNION {{t[i].left, t[i].right} : i \in Links(t)}

\* The rows that are nodes: rows of the top that no parent names are unused.
Nodes(t) == {0} \cup Children(t)
Leaves(t) == {i \in Nodes(t) : IsLeaf(t[i])}
NodesBelow(t, j) ==
  {d \in Nodes(t) : t[d].level > t[j].level /\ Positions(t[d]) \subseteq Positions(t[j])}

\* Every start node was reached by the initial splits and is large enough to
\* be split by its rank.
StartNodesSplit ==
  \A r \in 0 .. MaxWorkSize - 1 :
    LET start == initTree[0][StartNode(r)]
    IN  start.level = InitialLevel /\ Size(start) > BlockSize

RowType(bound) ==
  [left : 0 .. bound, right : 0 .. bound, first : 0 .. N, last : 0 .. N,
   level : 0 .. InitialLevel + N]

\* Every variable has its type, and every row of a tree under construction
\* holds a range of positions (Build.cpp writes the ranges piecemeal).
TypeOK ==
  /\ pc \in [Ranks -> {"initial", "local", "merge", "done", "fault"}]
  /\ queue \in [Ranks -> Seq(0 .. N + InitialNodeSize)]
  /\ newNodeNum \in [Ranks -> 0 .. N + InitialNodeSize]
  /\ initTree \in [Ranks -> [0 .. InitialNodeSize - 1 -> RowType(InitialNodeSize)]]
  /\ localTree \in [Ranks -> [0 .. N - 1 -> RowType(InitialNodeSize + N)]]
  /\ map \in [Ranks -> [Particles -> Particles]]
  /\ \A r \in Ranks : \A i \in DOMAIN hostTree[r] :
       hostTree[r][i] \in RowType(InitialNodeSize + P * N)
  /\ offset \in InitialNodeSize .. InitialNodeSize + P * N
  /\ merging \in 0 .. MaxWorkSize
  /\ \A r \in Ranks : \A i \in 0 .. N - 1 :
       localTree[r][i].first <= localTree[r][i].last

\* The merged tree is a tree over all particles on every rank: children come
\* after their parent and lie in the tree, have one parent, cut its range in
\* two non-empty parts on the next level, and no leaf is larger than a block.
\* The nodes below a node are all before or all after a leaf of its level, which
\* the symmetric lists of CloseFarCheck rely on.
TreeWellFormed ==
  Finished /\ StartNodesSplit =>
    \A r \in Ranks :
      LET t == hostTree[r]
      IN  /\ t[0].first = 0 /\ t[0].last = N /\ t[0].level = 0
          /\ Links(t) \subseteq Nodes(t)
          /\ \A i \in Links(t) :
               /\ {t[i].left, t[i].right} \subseteq {c \in DOMAIN t : c > i}
               /\ t[t[i].left].first = t[i].first
               /\ t[t[i].left].last = t[t[i].right].first
               /\ t[t[i].right].last = t[i].last
               /\ Size(t[t[i].left]) > 0 /\ Size(t[t[i].right]) > 0
               /\ t[t[i].left].level = t[i].level + 1
               /\ t[t[i].right].level = t[i].level + 1
          /\ \A i, j \in Links(t) : i # j =>
               {t[i].left, t[i].right} \cap {t[j].left, t[j].right} = {}
          /\ \A i \in Leaves(t) : Size(t[i]) <= BlockSize
          /\ \A i \in Leaves(t) : \A j \in Nodes(t) :
               t[i].level = t[j].level =>
                 \A d, e \in NodesBelow(t, j) : i < d <=> i < e

\* All ranks leave Build with the same tree and the same map: from here on
\* they split the work by index without talking to each other.
RanksAgree ==
  Finished => \A r \in Ranks : hostTree[r] = hostTree[0] /\ map[r] = map[0]
=============================================================================
