---------------------------- MODULE CloseFarCheck ---------------------------
(***************************************************************************)
(* HignnModel::CloseFarCheck: the pairs of cluster nodes that make up the  *)
(* N x N mobility matrix are split into close blocks (leaf x leaf, dense)  *)
(* and far blocks (low rank), and dealt out to the ranks.                  *)
(*                                                                         *)
(* The row nodes are visited breadth first; closeMat[i] holds the columns  *)
(* still to be tested against row i, and what is not far moves down to i's *)
(* children.  Every rank computes the same lists from the same tree, so    *)
(* they are one variable here.  The geometric test of two bounding boxes   *)
(* is abstracted to a verdict that may go either way for any two nodes     *)
(* that share no particle (overlapping boxes are never far).               *)
(***************************************************************************)
EXTENDS Integers, Sequences, FiniteSets

CONSTANTS
  P,               \* mMPISize
  Inputs,          \* the trees and settings the check may be run with
  VerdictsMirror   \* the test of (i, j) and of (j, i) give the same verdict

VARIABLES
  input,      \* the tree and the settings of this run, one of Inputs
  stage,      \* "rows", "close", "far" or "done"
  nodeList,   \* the queue of row nodes
  row, col,   \* the row node being visited and the index of its next column
  stack,      \* workChildStack: what is left of a descent, its top last
  farBelow,   \* whether the descent is into a far or a close column
  kept,       \* childCloseMat or newCloseMat: the columns that stay close
  closeMat,   \* closeMat[i]: the columns of row i not known to be far
  farMat,     \* farMat[i]: the columns far from row i
  leafList,   \* mLeafNodeList
  count,      \* totalClosePair, then counter
  verdict,    \* the verdicts a mirror image may still repeat, [pairs -> BOOLEAN]
  closePairs, \* closePairs[r]: mCloseMatI, mCloseMatJ of rank r
  farPairs    \* farPairs[r]: mFarMatI, mFarMatJ of rank r

descent == <<stack, farBelow>>
rowVars == <<nodeList, row, col, kept, closeMat, farMat, leafList, verdict>>
dealVars == <<count, closePairs, farPairs>>
vars == <<input, stage, descent, rowVars, dealVars>>

Tree == input.tree             \* mClusterTree, rows as ClusterBuild leaves them
MaxSize == input.maxSize       \* mMaxRelativeCoord
UseSymmetry == input.symmetry  \* mUseSymmetry

Ranks == 0 .. P - 1
Rows == DOMAIN Tree
Size(i) == Tree[i].last - Tree[i].first
IsLeaf(i) == Tree[i].left = 0
Positions(i) == Tree[i].first .. Tree[i].last - 1
Particles == Positions(0)

\* The rows that are nodes: the top rows of ranks that split their start node
\* again are not.
NodesOf(tree) ==
  {0} \cup UNION {{tree[i].left, tree[i].right} : i \in {r \in DOMAIN tree : tree[r].left # 0}}
Nodes == NodesOf(Tree)
LeafNodes == {i \in Nodes : IsLeaf(i)}

\* A tree as ClusterBuild leaves it: its rows are numbered from 0, and only
\* nodes have children; a node has particles, of those of the root, and its
\* children share them out on the next level, the left one the first of them.
IsTree(tree) ==
  /\ DOMAIN tree \subseteq Nat /\ NodesOf(tree) \subseteq DOMAIN tree
  /\ \A i \in DOMAIN tree : 0 .. i \subseteq DOMAIN tree
  /\ \A i \in DOMAIN tree : tree[i].left # 0 => i \in NodesOf(tree)
  /\ tree[0].level = 0
  /\ \A i \in NodesOf(tree) :
       /\ tree[i].first \in Nat /\ tree[i].last \in Nat /\ tree[i].first < tree[i].last
       /\ tree[0].first <= tree[i].first /\ tree[i].last <= tree[0].last
       /\ tree[i].level \in Nat
       /\ tree[i].left # 0 => /\ tree[tree[i].left].first = tree[i].first
                             /\ tree[tree[i].left].last = tree[tree[i].right].first
                             /\ tree[tree[i].right].last = tree[i].last
                             /\ tree[tree[i].left].level = tree[i].level + 1
                             /\ tree[tree[i].right].level = tree[i].level + 1

\* The nodes below a node, and the order in which ClusterBuild numbers them:
\* level after level for the rows of a rank, and rank after rank.  A leaf comes
\* before all nodes below a node on its level, or after all of them.
NodesBelow(tree, j) ==
  {d \in NodesOf(tree) : /\ tree[j].first <= tree[d].first /\ tree[d].last <= tree[j].last
                         /\ tree[j].level < tree[d].level}
IsNumbered(tree) ==
  \A i, j \in NodesOf(tree) :
    tree[i].left = 0 /\ tree[i].level = tree[j].level =>
      \A d, e \in NodesBelow(tree, j) : i < d <=> i < e

\* Leaves must be smaller than maxSize: the descent for a far column that is
\* too large has no smaller node to find in a leaf (CloseFarCheck.cpp:237).
ASSUME CloseFarAssumption ==
  /\ P \in Nat \ {0} /\ VerdictsMirror \in BOOLEAN
  /\ \A in \in Inputs :
       /\ in.maxSize \in Nat /\ in.symmetry \in BOOLEAN
       /\ IsTree(in.tree) /\ IsNumbered(in.tree)
       /\ \A i \in NodesOf(in.tree) :
            in.tree[i].left = 0 => in.tree[i].last - in.tree[i].first < in.maxSize

None == -1

-----------------------------------------------------------------------------
(* The test of two nodes *)

Verdicts(i, j) ==
  IF Positions(i) \cap Positions(j) # {} THEN {FALSE}
  ELSE IF VerdictsMirror /\ <<j, i>> \in DOMAIN verdict THEN {verdict[j, i]}
  ELSE BOOLEAN

\* A verdict is remembered until the mirror image of its pair has repeated it.
Remember(i, j, isFar) ==
  LET mirrored == <<j, i>> \in DOMAIN verdict
      pairs == IF ~VerdictsMirror \/ i = j \/ mirrored
               THEN DOMAIN verdict \ {<<j, i>>}
               ELSE DOMAIN verdict \cup {<<i, j>>}
  IN  verdict' = [pair \in pairs |-> IF pair = <<i, j>> THEN isFar ELSE verdict[pair]]

-----------------------------------------------------------------------------
Init ==
  /\ input \in Inputs
  /\ stage = "rows"
  /\ stack = <<>> /\ farBelow = FALSE
  /\ nodeList = <<0>>
  /\ row = None /\ col = 0 /\ kept = <<>>
  /\ closeMat = [i \in Rows |-> IF i = 0 THEN <<0>> ELSE <<>>]
  /\ farMat = [i \in Rows |-> <<>>]
  /\ leafList = <<>>
  /\ verdict = <<>>
  /\ count = 0
  /\ closePairs = [r \in Ranks |-> <<>>]
  /\ farPairs = [r \in Ranks |-> <<>>]

\* Take the next row node off the queue.
StartRow ==
  /\ stage = "rows" /\ row = None /\ nodeList # <<>>
  /\ row' = Head(nodeList) /\ nodeList' = Tail(nodeList)
  /\ col' = 1 /\ kept' = <<>>
  /\ UNCHANGED <<input, stage, descent, closeMat, farMat, leafList, verdict, dealVars>>

AddFar(i, s) == farMat' = [farMat EXCEPT ![i] = @ \o s]
Keep(s) == kept' = kept \o s

\* A row with children: far columns stay at this row if both blocks are small
\* enough; the children of the others (a leaf itself) go to the row's children.
TestOfInnerRow(i, j, isFar) ==
  IF isFar /\ Size(i) < MaxSize /\ Size(j) < MaxSize
  THEN AddFar(i, <<j>>) /\ UNCHANGED kept
  ELSE /\ Keep(IF IsLeaf(j) THEN <<j>> ELSE <<Tree[j].left, Tree[j].right>>)
       /\ UNCHANGED farMat

\* A leaf row: a far column is cut down to nodes that are small enough, any
\* other one is taken apart into its leaves; both by a descent into the column.
TestOfLeafRowWhole(i, j, isFar) ==
  IF isFar THEN stack' = <<j>> /\ farBelow' = isFar /\ UNCHANGED kept
  ELSE Keep(<<j>>) /\ UNCHANGED descent

TestOfLeafRow(i, j, isFar) ==
  stack' = <<j>> /\ farBelow' = isFar /\ UNCHANGED kept

\* One turn of the loop over the columns of the row.
TestColumn ==
  /\ stage = "rows" /\ row # None /\ stack = <<>> /\ col <= Len(closeMat[row])
  /\ LET j == closeMat[row][col]
     IN  \E isFar \in Verdicts(row, j) :
           /\ IF IsLeaf(row)
              THEN TestOfLeafRow(row, j, isFar) /\ UNCHANGED farMat
              ELSE TestOfInnerRow(row, j, isFar) /\ UNCHANGED descent
           /\ Remember(row, j, isFar)
  /\ col' = col + 1
  /\ UNCHANGED <<input, stage, nodeList, row, closeMat, leafList, dealVars>>

\* What a descent stops at, and the children it goes on with.
StopsAtAny(c) == TRUE
StopsAt(c) == IF farBelow THEN Size(c) < MaxSize ELSE IsLeaf(c)

BelowLeft(c) == <<Tree[c].left>>
Below(c) == <<Tree[c].left, Tree[c].right>>

\* One turn of a descent: the top of the stack is far, or close, or replaced by
\* its children.
Descend ==
  /\ stage = "rows" /\ stack # <<>>
  /\ LET c    == stack[Len(stack)]
         rest == SubSeq(stack, 1, Len(stack) - 1)
     IN  IF StopsAt(c)
         THEN /\ stack' = rest
              /\ IF farBelow THEN AddFar(row, <<c>>) /\ UNCHANGED kept
                 ELSE Keep(<<c>>) /\ UNCHANGED farMat
         ELSE stack' = rest \o Below(c) /\ UNCHANGED <<kept, farMat>>
  /\ UNCHANGED <<input, stage, farBelow, nodeList, row, col, closeMat, leafList,
                 verdict, dealVars>>

\* All columns are tested: hand the close ones to the children, or keep them.
EndRow ==
  /\ stage = "rows" /\ row # None /\ stack = <<>> /\ col > Len(closeMat[row])
  /\ IF IsLeaf(row)
     THEN /\ closeMat' = [closeMat EXCEPT ![row] = kept]
          /\ leafList' = Append(leafList, row)
          /\ UNCHANGED nodeList
     ELSE LET l == Tree[row].left
              r == Tree[row].right
          IN  /\ closeMat' = [closeMat EXCEPT ![l] = kept, ![r] = kept]
              /\ nodeList' = nodeList \o <<l, r>>
              /\ UNCHANGED leafList
  /\ row' = None /\ col' = 0 /\ kept' = <<>>
  /\ UNCHANGED <<input, stage, descent, farMat, verdict, dealVars>>

\* The queue is empty: the lists are complete, and the leaves are dealt.
EndRows ==
  /\ stage = "rows" /\ row = None /\ nodeList = <<>>
  /\ stage' = "close" /\ row' = 1 /\ col' = 1 /\ verdict' = <<>>
  /\ UNCHANGED <<input, descent, nodeList, kept, closeMat, farMat, leafList, dealVars>>

-----------------------------------------------------------------------------
(* Dealing the pairs out to the ranks, round robin *)

\* Under symmetry a pair stands for its mirror image too, and only the one
\* with the larger column number (or the diagonal) is kept.
IsKeptStrict(i, j) == UseSymmetry => j > i
IsKept(i, j) == UseSymmetry => j >= i

\* The counter after a far pair: it counts the kept ones.
FarCount(i, j) == IF IsKept(i, j) THEN count + 1 ELSE count

Deal(pairs, i, j) ==
  [pairs EXCEPT ![count % P] = Append(@, <<i, j>>)]

\* One turn of the loop over the leaf rows and their close columns.  The
\* counter also counts the pairs that are not kept.
DealClose ==
  /\ stage = "close" /\ row <= Len(leafList)
  /\ LET i == leafList[row]
     IN  IF col <= Len(closeMat[i])
         THEN LET j == closeMat[i][col]
              IN  /\ closePairs' = IF IsKept(i, j) THEN Deal(closePairs, i, j)
                                   ELSE closePairs
                  /\ count' = count + 1
                  /\ col' = col + 1 /\ UNCHANGED row
         ELSE /\ row' = row + 1 /\ col' = 1
              /\ UNCHANGED <<count, closePairs>>
  /\ UNCHANGED <<input, stage, descent, nodeList, kept, closeMat, farMat, leafList,
                 verdict, farPairs>>

EndClose ==
  /\ stage = "close" /\ row > Len(leafList)
  /\ stage' = "far" /\ row' = 0 /\ col' = 1 /\ count' = 0
  /\ UNCHANGED <<input, descent, nodeList, kept, closeMat, farMat, leafList, verdict,
                 closePairs, farPairs>>

\* One turn of the loop over all rows and their far columns.
DealFar ==
  /\ stage = "far" /\ row \in Rows
  /\ IF col <= Len(farMat[row])
     THEN LET j == farMat[row][col]
          IN  /\ farPairs' = IF IsKept(row, j) THEN Deal(farPairs, row, j)
                             ELSE farPairs
              /\ count' = FarCount(row, j)
              /\ col' = col + 1 /\ UNCHANGED row
     ELSE /\ row' = row + 1 /\ col' = 1
          /\ UNCHANGED <<count, farPairs>>
  /\ UNCHANGED <<input, stage, descent, nodeList, kept, closeMat, farMat, leafList,
                 verdict, closePairs>>

EndFar ==
  /\ stage = "far" /\ row \notin Rows
  /\ stage' = "done"
  /\ UNCHANGED <<input, descent, rowVars, dealVars>>

Done == stage = "done" /\ UNCHANGED vars

Next ==
  \/ StartRow \/ TestColumn \/ Descend \/ EndRow \/ EndRows
  \/ DealClose \/ EndClose \/ DealFar \/ EndFar
  \/ Done

Spec == Init /\ [][Next]_vars

-----------------------------------------------------------------------------
(* Properties *)

Elements(s) == {s[k] : k \in DOMAIN s}

\* Every variable has its type; close blocks are leaf x leaf, as CloseDot
\* multiplies them entry by entry.
TypeOK ==
  /\ input \in Inputs
  /\ stage \in {"rows", "close", "far", "done"}
  /\ nodeList \in Seq(Nodes)
  /\ row \in Nat \cup {None} /\ col \in Nat /\ count \in Nat
  /\ kept \in Seq(Nodes)
  /\ stack \in Seq(Nodes) /\ farBelow \in BOOLEAN
  /\ closeMat \in [Rows -> Seq(Nodes)]
  /\ farMat \in [Rows -> Seq(Nodes)]
  /\ leafList \in Seq(LeafNodes)
  /\ DOMAIN verdict \subseteq Nodes \X Nodes /\ verdict \in [DOMAIN verdict -> BOOLEAN]
  /\ closePairs \in [Ranks -> Seq(LeafNodes \X LeafNodes)]
  /\ farPairs \in [Ranks -> Seq(Nodes \X Nodes)]

\* Blocks are unions of leaf x leaf blocks: one particle stands for its leaf.
Samples == {Tree[i].first : i \in LeafNodes}

\* The columns of the list s that hold q, and the columns of the rows I in the
\* lists mat that hold the entry <<p, q>>.
Hits(s, q) == {k \in DOMAIN s : q \in Positions(s[k])}
Held(I, mat, p, q) ==
  {b \in UNION {{i} \X DOMAIN mat[i] : i \in I} :
     p \in Positions(b[1]) /\ q \in Positions(mat[b[1]][b[2]])}

\* How often the entry is in a far block, in a close column of a row that is
\* queued or a finished leaf, and in a column of the current row that is kept,
\* on the stack of a descent, or untested.
InFar(p, q) == Cardinality(Held(Rows, farMat, p, q))
InClose(p, q) ==
  Cardinality(Held(Elements(nodeList) \cup Elements(leafList), closeMat, p, q))
Untested == SubSeq(closeMat[row], col, Len(closeMat[row]))
InRow(q) ==
  Cardinality(Hits(kept, q)) + Cardinality(Hits(stack, q)) + Cardinality(Hits(Untested, q))

\* While the rows are visited, every entry <<p, q>> of the matrix is in exactly
\* one place: a descent never leaves its column, and no list of columns is
\* overwritten before it is used.
FrontierCovers ==
  stage = "rows" =>
    \A p, q \in Samples :
      InFar(p, q) + InClose(p, q)
        + (IF row # None /\ p \in Positions(row) THEN InRow(q) ELSE 0) = 1

\* A dealt pair contributes to the entry <<p, q>>: as it is or, under symmetry,
\* as its mirror image.  Dealt are the pairs on all ranks that do.
Contributes(pair, p, q) ==
  \/ p \in Positions(pair[1]) /\ q \in Positions(pair[2])
  \/ /\ UseSymmetry /\ pair[1] # pair[2]
     /\ p \in Positions(pair[2]) /\ q \in Positions(pair[1])
Dealt(pairs, p, q) ==
  {b \in UNION {{r} \X DOMAIN pairs[r] : r \in Ranks} :
     Contributes(pairs[b[1]][b[2]], p, q)}

\* The blocks dealt to all ranks together hold every entry of the matrix
\* exactly once: with symmetry the pairs left out are just those whose mirror
\* images are kept, although a leaf row and a deeper row cut a block otherwise.
EachEntryOnce ==
  stage = "done" =>
    \A p, q \in Samples :
      Cardinality(Dealt(closePairs, p, q)) + Cardinality(Dealt(farPairs, p, q)) = 1

\* Both nodes of a far block are smaller than MaxSize.  FarDot takes pairs
\* while their columns and rows fit in MaxSize coordinates; a node that alone
\* does not fit would make it take none, for ever (FarDot.cpp:182-222).
FarBlocksFit ==
  \A r \in Ranks : \A pair \in Elements(farPairs[r]) :
    Size(pair[1]) < MaxSize /\ Size(pair[2]) < MaxSize
=============================================================================
