--------------------------- MODULE BoundingBoxes ---------------------------
(***************************************************************************)
(* The first half of HignnModel::CloseFarCheck, run after Build: the boxes *)
(* (mAux) of the nodes of the tree.  Each working rank computes the boxes  *)
(* of the subtree under its start node, broadcasts the rows of its subtree *)
(* and every rank then computes the boxes that are still missing from the  *)
(* root down.                                                              *)
(*                                                                         *)
(* A box is abstracted to the set of particles it was made from, so that   *)
(* the minimum and maximum of two boxes are the union of two sets.         *)
(***************************************************************************)
EXTENDS ClusterBuild

VARIABLES
  aux,      \* aux[r][node]: mAux, Unset or a box
  auxStack, \* auxStack[r]: workStack, the top is its last element
  auxPc,    \* auxPc[r]: "build", "leaves", "subtree", "bcast", "top", "done"
  sender    \* the rank whose rows are broadcast next

boxVars == <<aux, auxStack, auxPc, sender>>
allVars == <<vars, boxVars>>

\* The sentinel in column 0 of a row that holds no box yet.
Unset == {-1}

Top(s) == s[Len(s)]
Pop(s) == SubSeq(s, 1, Len(s) - 1)

\* ComputeAux: the box of the particles of a range of positions.
ComputeAux(r, row) == {map[r][k] : k \in Positions(row)}

\* The leaves under a node; a child's row comes after its parent's.
LeavesUnder(t, node) ==
  LET under[i \in DOMAIN t] ==
        IF IsLeaf(t[i]) THEN {i} ELSE under[t[i].left] \cup under[t[i].right]
  IN  under[node]

BoxesInit ==
  /\ Init
  /\ aux = [r \in Ranks |-> <<>>]
  /\ auxStack = [r \in Ranks |-> <<>>]
  /\ auxPc = [r \in Ranks |-> "build"]
  /\ sender = 0

\* A tree with links out of it is read out of bounds here: not defined.
LinksStay == \A r \in Ranks : Children(hostTree[r]) \subseteq DOMAIN hostTree[r]

\* The barrier at the start; ranks without a start node go to the broadcasts.
EnterCheck ==
  /\ Finished /\ LinksStay
  /\ \A r \in Ranks : auxPc[r] = "build"
  /\ aux' = [r \in Ranks |-> [i \in DOMAIN hostTree[r] |-> Unset]]
  /\ auxPc' = [r \in Ranks |-> IF r < MaxWorkSize THEN "leaves" ELSE "bcast"]
  /\ UNCHANGED <<vars, auxStack, sender>>

\* The boxes of all leaves under a rank's start node.
LocalLeaves(r) ==
  /\ auxPc[r] = "leaves"
  /\ LET leaves == LeavesUnder(hostTree[r], StartNode(r))
     IN  aux' = [aux EXCEPT ![r] =
           [i \in DOMAIN aux[r] |->
              IF i \in leaves THEN ComputeAux(r, hostTree[r][i]) ELSE aux[r][i]]]
  /\ auxStack' = [auxStack EXCEPT ![r] = <<StartNode(r)>>]
  /\ auxPc' = [auxPc EXCEPT ![r] = "subtree"]
  /\ UNCHANGED <<vars, sender>>

\* The children that have no box yet.
IfMissing(r, c) == IF aux[r][c] = Unset THEN <<c>> ELSE <<>>
MissingLeft(r, row) == IfMissing(r, row.left)
Missing(r, row) == IfMissing(r, row.left) \o IfMissing(r, row.right)

\* One turn of a loop that climbs from the children: a node whose children
\* have boxes gets the union and leaves the stack, otherwise the children
\* without one go on top of it.  What a leaf does differs between the loops.
Climb(r, leafBox) ==
  LET node == Top(auxStack[r])
      row  == hostTree[r][node]
  IN  IF IsLeaf(row)
      THEN /\ aux' = [aux EXCEPT ![r][node] = leafBox]
           /\ auxStack' = [auxStack EXCEPT ![r] = Pop(@)]
      ELSE IF Missing(r, row) # <<>>
      THEN /\ auxStack' = [auxStack EXCEPT ![r] = @ \o Missing(r, row)]
           /\ UNCHANGED aux
      ELSE /\ aux' = [aux EXCEPT ![r][node] = aux[r][row.left] \cup aux[r][row.right]]
           /\ auxStack' = [auxStack EXCEPT ![r] = Pop(@)]

ClimbSubtree(r) ==
  /\ auxPc[r] = "subtree" /\ auxStack[r] # <<>>
  /\ Climb(r, aux[r][Top(auxStack[r])])
  /\ UNCHANGED <<vars, auxPc, sender>>

LeaveSubtree(r) ==
  /\ auxPc[r] = "subtree" /\ auxStack[r] = <<>>
  /\ auxPc' = [auxPc EXCEPT ![r] = "bcast"]
  /\ UNCHANGED <<vars, aux, auxStack, sender>>

\* The rows a rank sends: from its start node's left child to the left child
\* of the next start node, or to the end of the tree.
SentRows(r) ==
  LET t   == hostTree[r]
      end == IF sender = MaxWorkSize - 1 THEN Cardinality(DOMAIN t)
             ELSE t[StartNode(sender) + 1].left
  IN  t[StartNode(sender)].left .. end - 1

\* One of the broadcasts, a collective step.
BcastBoxes ==
  /\ \A r \in Ranks : auxPc[r] = "bcast"
  /\ aux' = [r \in Ranks |->
       [i \in DOMAIN aux[r] |-> IF i \in SentRows(r) THEN aux[sender][i] ELSE aux[r][i]]]
  /\ sender' = sender + 1
  /\ IF sender + 1 = MaxWorkSize
     THEN /\ auxPc' = [r \in Ranks |-> "top"]
          /\ auxStack' = [r \in Ranks |-> <<0>>]
     ELSE UNCHANGED <<auxPc, auxStack>>
  /\ UNCHANGED vars

ClimbTop(r) ==
  /\ auxPc[r] = "top" /\ auxStack[r] # <<>>
  /\ Climb(r, ComputeAux(r, hostTree[r][Top(auxStack[r])]))
  /\ UNCHANGED <<vars, auxPc, sender>>

LeaveTop(r) ==
  /\ auxPc[r] = "top" /\ auxStack[r] = <<>>
  /\ auxPc' = [auxPc EXCEPT ![r] = "done"]
  /\ UNCHANGED <<vars, aux, auxStack, sender>>

BoxesDone == \A r \in Ranks : auxPc[r] = "done"
Broken == Faulted \/ (Finished /\ ~LinksStay)
BoxesStop == (BoxesDone \/ Broken) /\ UNCHANGED allVars

BuildStep == BuildNext /\ UNCHANGED boxVars

BoxesNext ==
  \/ BuildStep
  \/ EnterCheck
  \/ \E r \in Ranks : LocalLeaves(r)
  \/ \E r \in Ranks : ClimbSubtree(r) \/ LeaveSubtree(r)
  \/ BcastBoxes
  \/ \E r \in Ranks : ClimbTop(r) \/ LeaveTop(r)
  \/ BoxesStop

\* As in Build: a rank runs until it waits for the others, and a collective
\* that all have entered completes.
RankStep(r) ==
  \/ LocalSplit(r) /\ UNCHANGED boxVars
  \/ LocalLeaves(r) \/ ClimbSubtree(r) \/ LeaveSubtree(r)
  \/ ClimbTop(r) \/ LeaveTop(r)

BoxesFairness ==
  /\ WF_allVars(BuildStep) /\ WF_allVars(EnterCheck) /\ WF_allVars(BcastBoxes)
  /\ \A r \in Ranks : WF_allVars(RankStep(r))

BoxesSpec == BoxesInit /\ [][BoxesNext]_allVars /\ BoxesFairness

-----------------------------------------------------------------------------
\* Build's variables have their types, a box is unset or a set of particles,
\* and only rows of the tree are on a stack.
BoxesTypeOK ==
  /\ TypeOK
  /\ \A r \in Ranks :
       /\ \A i \in DOMAIN aux[r] : aux[r][i] = Unset \/ aux[r][i] \subseteq Particles
       /\ \A k \in DOMAIN auxStack[r] : auxStack[r][k] \in DOMAIN hostTree[r]
  /\ auxPc \in [Ranks -> {"build", "leaves", "subtree", "bcast", "top", "done"}]
  /\ sender \in 0 .. MaxWorkSize

\* When the ranks begin to compare boxes, every rank has for every node of the
\* tree the box of exactly the particles the node owns, whichever rank
\* computed it, and the root's is that of all particles: no row was left out
\* of the broadcasts and none was overwritten by another rank's empty one.
BoxesBound ==
  BoxesDone /\ StartNodesSplit =>
    \A r \in Ranks :
      /\ aux[r][0] = Particles
      /\ \A i \in Nodes(hostTree[r]) :
           aux[r][i] = {map[r][k] : k \in Positions(hostTree[r][i])}

\* All ranks get through Build and the boxes, unless one ran past its local
\* tree or the tree has links out of it.
BoxesEnd == <>(BoxesDone \/ Broken)
=============================================================================
