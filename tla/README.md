# TLA+ verification of HIGNN

HIGNN computes the velocities of N particles in a fluid from the forces on them:
`u = M f`, where M is the N x N matrix of 3 x 3 mobility blocks a neural network
gives for each pair. `HignnModel` never stores M. It builds a cluster tree over
the particles, splits M into *close* blocks (multiplied densely) and *far* blocks
(compressed by adaptive cross approximation), deals the blocks out to the MPI
ranks, and sums what the ranks computed. This directory models the parts of that
pipeline that decide **which entry of M is multiplied, by whom, and how often**,
and the buffers, offsets and counters they share.

Line numbers below refer to the repository (`src/...` in PROJECT.json).

## 1. Inventory

| Component | State it keeps | Operations | Hard behaviour | What makes it correct |
|---|---|---|---|---|
| `Build` (src/Build.cpp), `Divide` (HignnModel.cpp:67) | `mClusterTree`, `mReorderedMap`, level counters | rank 0 splits the top, broadcasts, each working rank splits its start node, sizes are summed, trees are merged rank by rank | distributed numbering of rows; every rank must end with the same copy; arbitrary cuts | the rows are one tree that covers each particle once; map is a permutation; all ranks agree; the collectives complete |
| Boxes of nodes (CloseFarCheck.cpp:15-169, `ComputeAux`) | `mAux` rows | own subtree in parallel, broadcasts, top sequentially | rows no rank sends, or two ranks send | every row is the box of its node, on every rank |
| `CloseFarCheck` (src/CloseFarCheck.cpp) | `closeMat`, `farMat` per row, `mLeafNodeList`, lists per rank | test columns of a row breadth first, hand down, cut down, deal | leaves on different levels; symmetry drops mirror images; float verdicts | each entry of M in exactly one dealt block |
| `CloseDot` (src/CloseDot.cpp) | `finishedNodeSize`, bisection bounds, pools | batch, query, product | batch length, int overflow, single pair larger than the pool | each pair once; pool not overrun; ends |
| `FarDot` (src/FarDot.cpp) | slot arrays, C and Q pools, pivots, counters | install a batch, one cross per pass for all slots, stop test, product, compaction | parallel arrays moved while in use; areas in shared pools; one counter for all slots | crosses stay their pair's own; each pair once; ends |
| `DenseDot` (src/DenseDot.cpp), `PostCheckDot` (src/PostCheckDot.cpp) | slots, column of each leaf | batch, product, next leaf, compaction; Allreduce; comparison | slots reused and moved; zero-size pool; the loop exists twice | each block once on exactly one rank; the report is zero for right velocities only |
| Interface: constructor, setters, `UpdateCoord`, `Dot`, `DenseDot`, `Reorder`, `BackwardReorder` | flags, lists, coordinates, `mReorderedMap` | calls from Python | setters between `UpdateCoord` and `Dot`; products first; the order of the coordinates changes under the caller | a product is that of the whole matrix, in the caller's order, at the coordinates of the last update |
| `TimeIntegrator` (include/TimeIntegrator.hpp) | time, step, slopes K1..K7, output counter | Euler, adaptive RK4 | rejected steps, floor of the step | a step's slopes belong to its base and attempt; the ranks ask alike in every callback; ends on time |
| `NeighborLists`, `PotentialForce` (include/) | source sites, lists, two- and three-body tables, forces | setters, rebuild, getters, by particle or whole | double index translation; images of one radius searched with another; counts in `size_t` | each neighbour pair and triple once, by the caller's index |
| `PointCloudSearch`, nanoflann | lists of neighbours | radius search | width of the lists | as used by the neighbour lists |
| `PostCheck`, vector arithmetic, Python drivers, training | none of the model's | diagnostics, formulas, scripts | - | not modelled (section 7) |

Components interact by calls within a rank (`UpdateCoord` -> `Update` -> `Build` ->
`CloseFarCheck`; `Dot` -> `CloseDot`, `FarDot`, `PostCheckDot`), through the member views
above, and between ranks only by MPI collectives (broadcasts in `Build` and
`CloseFarCheck`, reductions in `Dot`, `DenseDot`, barriers). There are no threads
beyond Kokkos kernels, whose iterations write disjoint cells or use atomic adds;
each kernel ends at a fence. Nothing is persisted.

The hazards of this code, with their lines and the properties that cover them, are
listed in PROJECT.json. A hazard without properties is one that the model leaves out or a hypothesis
sets aside: its note names the hypothesis, and the observations of section 4 say what the code does there.

## 2. Plan

1. **ClusterBuild**, and **BoundingBoxes** on top of it, and **BoundingBoxesProofs** (types, the
   ranks agree, the tree is well formed, the boxes bound their particles) - done.
2. **CloseFarCheck** with abstract verdicts, and **CloseFarCheckProofs** (far blocks fit, coverage
   turn by turn, each entry dealt once) - done.
3. **ExactlyOnce** (abstract promise of all products), **CloseDot**, **CloseDotProofs** - done.
4. **Compaction**, **CompactionProofs**, **DenseDot**, **DenseDotProofs**, and
   **PostCheckDot** on top of DenseDot - done.
5. **FarDot** and **FarDotProofs** (counters, pivots, crosses in their own areas, refinement) -
   done.
6. **HignnModel** (the interface, composing the abstract products), **HignnModelProofs**
   (types, the answers are right) - done.
7. **TimeIntegrator** - done.
8. **PointSearch**, **NeighborLists** (both classes) - done.
9. **SimulationProofs** (TimeIntegrator and NeighborLists: everything a simulation is made of
   beside the model) - done.

Runs stay at two to nine nodes, pairs, leaves or particles. Modules that are proved
about use functions and set operators only, no RECURSIVE definitions.

## 3. Modules and how they correspond to the code

**ClusterBuild** - `HignnModel::Build` on P ranks. Variables are the code's: `initTree`,
`localTree`, `hostTree`, `map` (mReorderedMap), `newNodeNum`, `queue` (nodeList);
`pc` says in which phase a rank is. Actions: `InitialSplit` (rank 0, top of the
tree), `BcastInitial`, `LocalSplit(r)` (one row of a local tree), `SumSizes`
(Allreduce of sizes, allocation), `MergeRank` (one turn of the merge loop: renumber,
five broadcasts, piece of the map, hang under the start node). `Cuts` is `Divide`: a
principal axis is abstracted to integer projections; the cut is at their mean, and
equal projections may fall on either side only where float rounding decides.
`Layout` is the memory order of the Kokkos view: the five broadcasts name memory,
not columns. A rank that runs past the rows of its local tree stops (`Faulted`).

**BoundingBoxes** - EXTENDS ClusterBuild and goes on where Build ends: the first part of
`CloseFarCheck`. A box is the set of particles it bounds, so the minimum and maximum
of two boxes are a union, and the sentinel is a set of its own. Actions: `EnterCheck` (the
barrier), `LocalLeaves(r)` (the leaves of the own subtree), `ClimbSubtree(r)` and
`LeaveSubtree(r)` (the loop over workStack), `BcastBoxes` (one of the broadcasts, with the
range of rows it sends), `ClimbTop(r)` and `LeaveTop(r)` (the sequential loop from the root).

**CloseFarCheck** - the breadth-first refinement. `closeMat`, `farMat`, `leafList`
(mLeafNodeList), `closePairs`, `farPairs` (mCloseMatI/J, mFarMatI/J of each rank); `input`
is the tree and the settings of the run. Actions: `StartRow`, `TestColumn`, `Descend` (one
turn of the loop over workChildStack: a far column is cut down to nodes that are small
enough, a close one is taken apart into its leaves), `EndRow`, `EndRows`, then `DealClose`,
`EndClose`, `DealFar`, `EndFar`. The test of two boxes is a verdict in BOOLEAN, FALSE for
nodes that share particles; `verdict` remembers one until its mirror image was asked, so
that `VerdictsMirror` states whether the float test is symmetric. Every rank runs
the same code on the same tree, so the lists are one variable. Of the tree the module assumes
what `TreeWellFormed` of ClusterBuild says of it (`IsTree`): rows numbered from the root, 0, up,
children with larger numbers and one level below, both halves of the parent not empty, and a leaf
numbered on the same side of all rows below a node of its level. It is proved
(`TreesAreWellFormed`) and checked (run build_ranks). Leaves are assumed smaller than
mMaxRelativeCoord.

**ExactlyOnce** - the promise of the three products: some batch of blocks that were
not added yet is added, and nothing is added twice. **CloseDot**, **FarDot** and
**DenseDot** are each shown to implement it (`Implements`) by the variable `added`.

**CloseDot** - one rank. `total[k]` are the running totals of the entries of the
pairs. Actions: `StartBatch`, `Shrink`, `Grow`, `Settle` (the bisection, in the code's
int arithmetic), `Multiply`, `Crash` (a write past the pool is undefined: go on or
stop), `Finish`.

**Compaction** - the array compaction DenseDot, PostCheckDot and FarDot share: slot k of
the new batch comes from `Source(kept, k)`, the k-th flagged slot (`workingNodeOffset`,
`workingNodeCopyOffset`).

**DenseDot** - all ranks. `workingNode[r]` is the slot array (its length is
`workSize`), `nodeOffset[r]` the column of each leaf. Actions: `Batch(r)` (product,
next column or leaf, compaction: one turn of the loop), `Crash(r)`, `Return(r)`,
`Reduce` (the Allreduce of HignnModel.cpp:504).

**PostCheckDot** - EXTENDS DenseDot: the same loop over the same slots (its copy in
PostCheckDot.cpp), into `uPostCheck`, then the reduction and the comparison with the
velocities to be checked (`Products`). `report` is the quotient of the norms as zero,
positive or undefined.

**FarDot** - one rank. Slot arrays are the code's (`node` = workingNode, `iteration`,
`cOffset`, `qOffset`, `cols`, `rows`, `mu`), pools are functions from rows to what was
written there: whose cross, its pivot, and how many crosses were subtracted. Actions:
`StartBatch`, `Shrink`, `Grow`, `Install`, `QueryColumn` (C query, orthogonalisation,
row pivot), `QueryRow` (Q query, column pivot), `Test` (mu2, iteration, stop flags),
`Retire` (product of the stopped slots, counters, compaction of every array), `Crash`.
Which free row or column is chosen, and which slots converge, are free choices; that
a slot stops at maxIter or at min(rows, columns) is not. A pair stands for its mirror
image, whose product the code adds in the same pass. Determinants are taken to be
numbers, and sums of node sizes to fit in an int (5000 pairs of up to 430,000 rows).

**HignnModel** - the class as its caller sees it, on every rank: a program of setters,
`update_coord`, `dot` and `dense_dot`, the same on all ranks. The ranks run on their own
and meet in the collectives inside the calls (`Update`, `EnterFarDot`, `Sum`, `Compare`).
Coordinates say which call passed them and whose they are, a velocity is the bag of its
terms, each made of two coordinates and a force. `Reorder` and `BackwardReorder` are the
code's; `Update` takes from Build and CloseFarCheck what their modules show of them (any
order of the particles, far pairs with their mirror images, dealt round robin), and the products what
ExactlyOnce promises. The lists of pairs are sets here: each pair is on one of them once,
which `EachEntryOnce` of CloseFarCheck says, and a sum does not depend on their order. Settings are read where the code reads them: the symmetry flag
in `Update` and again in `CloseDot` and `FarDot`, the pool size in every product.

**PointSearch** - operators only: the source sites and their periodic images
(`BuildSourceSites`), the radius search (accepted hits, the nearest swapped to the
front), the lists of neighbours with their width, and the swap of the target to the front.
A site has three axes; a copy of a particle is numbered, and its number says on which
axes it is shifted, the last axis changing fastest (`Stride`, `Copy`). `Starts` and `Joined` are
the arrays that are laid out one part after another (`numSourceOffset`, `mSourceSites`). What a search
*should* find is written without the code's images: `Separation` is the shortest of the three
differences on each axis, and `Near` compares it with the radius.

**NeighborLists** - one object of class `NeighborLists` or `PotentialForce`, called in any
order. Every setter, `UpdateCoord`, `BuildTwoBodyInfo`, `BuildThreeBodyInfo` and
`GetPotentialForce` is an action; the getters are operators on the tables they read.
`width` is the number of columns the lists kept from earlier searches, `status` says
whether the last call threw (an impossible allocation) or was undefined. The three widths of
integers are kept: `size_t` wraps at `SizeMod` (counts and offsets), the length of the two-body table is
an `int` (`AsInt`), and the getters read offsets into `unsigned int` (`AsUnsigned`). Both three-body
tables are allocated before either is filled. A table keeps in `from` what it was made from, for the
properties only. The code of `BuildSourceSites` is in both classes; `Sources` stands for either.
`ListsAssumption` bounds what the object is used for: a table has fewer rows than an `unsigned int`
has values (`MaxRows`), and no getter is asked for more rows than a `size_t` counts.

**TimeIntegrator** - both loops of `Run`, on every rank. The state is that of the code
(`t`, `dt`, `stage` = i, `base` = mPosition0, `position`, `offset` = mPositionOffset,
`slope` = mVelocityK1..K7), with symbols for positions: a place says from which time,
with which size and at which stage it was reached, an offset for which place it was
computed, a velocity at which place it was evaluated. `shift` remembers the offsets
of the last wrap. Actions: `Begin`, `End` (head of the loop), `VelocityUpdate` (the
callback: it calls `update_coord` and `dot`, which are collectives, so all ranks take
part), `FirstVelocity`, `NextStage`, `Reject`, `Accept` (RK4), `EulerStep`; `Waiting` and
`Finished` are the states in which nothing is left to do. The error estimate of an attempt is a
free rate times its size, and every rank sums it itself: `err[r]` is off by up to
`Rounding`, for each rank on its own, since OpenMP leaves the order of the sum open. A rank
compares its own sum (`Rejected`) and reduces the step by it, with the code's formula, its factor
rounded down to tenths. So ranks may part, and then wait for each other for ever (`Waiting`); the history
variable `apart` records that the sums of an attempt had different outcomes (`NextAttempt`:
no repetition, or the size of the repetition) for two ranks.

MC modules give the instances. Operators whose names extend that of a neighbour
(`SourceLast`, `OffsetsPacked`, `KeptLazy`, ...) are mutated forms of definitions,
used to see that each property can fail; nothing else refers to them.

## 4. Runs

Passing runs:

| Run | Bounds | Shows |
|---|---|---|
| build_ranks | 3 ranks (2 work, 1 idle), 7 particles, leaves of 1, any of three axes at each split, column-major tree | `BoxesTypeOK`; `TreeWellFormed`; `RanksAgree`; `BoxesBound`: every rank has the box of exactly the node's particles for every node; `BoxesEnd` (liveness): all ranks get through |
| close_far | a tree with unused rows and leaves on two levels, a tree of two ranks with pools that force cuts, a lopsided tree with and without symmetry; 2 ranks, all verdicts | `TypeOK`; `FrontierCovers`: at every moment each entry is in one place; `EachEntryOnce` in the dealt lists; `FarBlocksFit` |
| close_dot | all lists of six pairs of 1, 3 or 9 entries, pool of 8, ints up to 40 | `TypeOK`, `AddedOnce`, `BatchSized` (fits and is longest), `Implements`, `Completes` |
| dense_dot | 3 ranks, 7 leaves (3, 2, 2), two slots, three assignments of leaf sizes, right and wrong velocities to be checked | `TypeOK`, `NoBlockTwice`, `AllProcessed`, `PoolSuffices`, `ReportTruthful`, `Implements`, `Returns` |
| far_dot | 4 pairs of 1-4 rows and columns, batches of at most 3, maxIter 3, pools of factor 2 (too small) and 3; one list with a pair too large for any batch | `TypeOK`, `CountersAgree`, `CrossesOwn`, `PivotsDiffer`, `BatchSized`, `Implements`, `Completes` |
| time_stepping | 2 ranks, both integrators, periodic or not, steps of 8 or 20 ticks to 20, end tolerance 4, smallest step 3, error rates 0, 4, 10, the sum of each rank off by -1, 0 or 1 | `TypeOK`, `SlopesCurrent`, `WrappedByOwnOffset`, `CollectivesAgree`, `EndsOnTime` |
| neighbor_lists | domain of 8 by 8 by 8, radii 2 and 3, five clouds of two or three particles (corners, edges, coincident, outside), up to 6 calls, `int` up to 127 and `size_t` of 1024 values, tables of at most 100 rows | `ListsTypeOK`, `EdgesExact`, `ForcesExact`, `StaysDefined` |
| hignn_model | 2 ranks, 3 leaves of 2 particles, blocks of 3, nine programs of up to six calls, any order of the leaves, any far pairs | `TypeOK`, `AnswersRight`, `CallsReturn` |

Why the bounds are enough: three ranks give two working ranks and one that owns no
start node (the workers are a power of two), and seven particles give leaves on two
levels with unequal cuts, so that the boxes of two ranks have different depths. The trees
of CloseFarCheck have a leaf row beside deeper
rows, unused rows, and blocks above and below the size limit - the cases its branches
tell apart. The lists of CloseDot let the bisection settle on one, on several and on
the limit, and hold pairs larger than the pool and windows that overflow. DenseDot
has ranks with more leaves than slots, so that slots are reused, and with a different
number. FarDot has batches of three slots in which each slot may be the one that
converges first, and blocks that reach maxIter before their size and the reverse.
The steps of TimeIntegrator are clipped by the final time, rejected several times in
a row, raised to the smallest step, and accepted at once; the sums of the two ranks fall on the same
side of the threshold, on both sides of it, and beyond it with equal or different reductions.
Six calls are enough to set a domain and two radii, give coordinates and build both tables, or
to build twice with a setting changed in between; the particles are at half the height of the
domain, so that there are images at edges and at corners of two axes: the third axis and
everything larger is left to the theorems. The programs of HignnModel hold an update before
every product and without one, a second update, every setter before and after the update,
and both products after another; three leaves give orders of the particles that are not their own
inverses, and two ranks lists of different length.
TLC's bounds are not the last word where a theorem covers the property (section 6).

Violation runs, each a disagreement with a line of the repository (PROJECT.json
"findings" quotes them):

| Run | What TLC finds |
|---|---|
| build_cpu_ranks | On a row-major tree (CPU build) the five broadcasts of Build.cpp:227 carry other entries than the owner's rows, and the ranks keep different trees (`RanksAgree`). |
| close_far_rounding | When the float test of (i, j) and (j, i) disagree, symmetry counts entries twice or never (`EachEntryOnce`). |
| far_dot_pool | With the ratio of the default mMatPoolSizeFactor (40) to the default mMaxIter (100), a slot's offsets are past the end of the pools (`OffsetsInPool`). The drivers in src/python all set a factor of at least max_iter. |
| forces_boundary | In a periodic domain GetPotentialForce takes a neighbour's site from the sources by the particle's number, so that forces near a boundary are summed over separations that no nearest image has (`ForcesAcrossBoundary`). |

### Observations

Made while modelling; no run claims them.

*Tree.* The local tree is allocated as many rows as there are particles (Build.cpp:103),
while an uneven tree with small leaves needs up to twice the particles of the rank. A
start node that is already a leaf is linked to rows its rank never made (Build.cpp:236);
BoundingBoxes stops there (`LinksStay`). A node whose particles coincide
is not divided (HignnModel.cpp:143), so a leaf may be larger than blockSize, which the
header calls the maximum (HignnModel.hpp:248); simulate.py:190 calls the same number
the minimum, and leaves are often smaller. The boxes heal themselves: a row that no
broadcast sends is computed by the loop from the root on every rank, so that a wrong range
costs time and not correctness, as long as it sends no row that another rank owns.

*Close and far.* Cutting far columns down to a size and dropping mirror images do not
disturb each other only because of how Build numbers the rows, breadth first within a rank
and rank after rank: a leaf row meets columns of its own level, so that all pieces of one, at any depth,
have larger numbers than the leaf in its own rank, and are all on one side of it in another. A leaf with mMaxRelativeCoord particles or more
has no smaller node to descend to (CloseFarCheck.cpp:237): row 0 is taken for its child. `mEta`
and `mMaxFarFieldDistance` are never read.

*Products.* A single close pair with more entries than the pool is multiplied past its end
(CloseDot.cpp:90-114). DenseDot returns zero velocities when mMaxRelativeCoord < mBlockSize^2
(DenseDot.cpp:28, hence the assumption of `AllBlocksAdded`). The cross terms of FarDot's
stop test run over l < iteration - 1 (FarDot.cpp:1017) and so leave out the latest cross.

*Interface.* The setters take effect at once, on lists made before them. With the symmetry flag
changed between `update_coord` and `dot`, entries are counted twice or missed; with a pool
made smaller than a far block, FarDot installs empty batches for ever (FarDot.cpp:182) while
the other ranks wait. A product before the first `update_coord` dereferences lists that do not
exist. `AnswersRight` and `CallsReturn` say so by what they ask for.

*Neighbour lists.* The periodic two-body table translates a neighbour through mSourceIndex a second
time (NeighborLists.hpp:503) and so names other particles. Images are made for the two-body radius
only (NeighborLists.hpp:61): with a larger three-body radius the neighbourhood is not symmetric, and
the counts of the triples do not match what is written. A radius of zero, which the
constructor leaves, finds not even the particle itself, and the counts wrap below zero.

*Time integration.* ExplicitRk4 asks for the
velocities at t = 0 (TimeIntegrator.hpp:608) but stores them in no slope, so that its
first step starts with mVelocityK1 = 0, and a second `Run` of the same object with the
last slope of the first; the step it adapts after an accepted attempt
(TimeIntegrator.hpp:833-842) is a local variable that the head of the loop declares
anew, so each step starts from mTimeStep again. Every rank sums the error of an attempt itself
(TimeIntegrator.hpp:811-820), in an order OpenMP leaves open. Ranks whose sums are on both sides of the
threshold part ways: one goes on or returns, and another waits in the callback. Where all reject,
a difference in the last bit of the sums is one in the last bits of the new sizes, and of all that follows.
`CollectivesAgree` and `EndsOnTime` are claimed until then.

## 5. Fairness

A rank is sequential code: weak fairness on its steps says it does not stop between
statements. A collective completes once every rank has entered it: weak fairness on the
collective's action, whose guard is that all ranks wait in it. CloseDot and FarDot are one
rank's sequential code: weak fairness on the step. BoundingBoxes and
PostCheckDot inherit this from the modules they extend, and HignnModel states it for the calls:
each rank's steps, and the collective all have entered. TimeIntegrator has weak fairness on
each rank's own steps and on the callback. `EndsOnTime` asks nothing of ranks that have parted
(`apart`), of which one may wait in the callback for another that returned; that the others get to the
end also needs that an attempt of the smallest size is accepted (`SmallStepsAccepted` in its MC module): the
code repeats one that is not for ever, at the floor of 1e-6. No action needs strong fairness,
and none is assumed for the free choices (verdicts, pivots, convergence): `Completes`
of FarDot holds although no pair ever has to converge, since maxIter and the block
size stop it. `Completes` of CloseDot and FarDot, `Returns`, `BoxesEnd` and `CallsReturn` end in an
explicit "crashed", `Broken` or "lost" state after undefined behaviour. NeighborLists and
CloseFarCheck state safety only: each call of an object ends, and the queue of rows is finite.

## 6. Proofs (TLAPS)

Assumptions are the named ones of the modules (`CloseDotAssumption`,
`DenseAssumption`, ...): types of the parameters, and that nodes are not empty.

**CloseDotProofs** - for every list, pool, batch limit and int width:
`TypeCorrect`, `PairsAddedOnce` (`AddedOnce`), `SearchStaysInList` (`SearchBrackets`),
`BatchesFit` (`BatchFitsPool`), `BatchesAreLongest` (`BatchIsLongest`), `BatchesAreSized` (`BatchSized`,
the conjunction of the two), and
`CloseDotImplements`: CloseDot implements ExactlyOnce. The properties are not inductive
by themselves: that a batch is longest needs to know, in every turn of the bisection,
that `lower` fits and `upper` does not or was never tried (`SearchInv`), and what that
leaves after the loop (`BatchInv`). `IInv` is their conjunction with `TypeOK` and
`AddedOnce`; one lemma per action.

**CompactionProofs** - for every finite set of flags: `SourceFound`, `SourceOrdered`,
`SourceOnto`: the new slots are the flagged old ones, in order, none lost or
doubled. The counting loop of the code is an induction, done here with the
least-element principle.

**BoundingBoxesProofs** - about ClusterBuild and BoundingBoxes, for every number of ranks and
particles, every block size, all axes and every interleaving of the ranks.
`BoxesKeepTypes` (`BoxesTypeOK`): indices of rows and particles stay in range, the stacks name rows of
the tree, and a box is a set of particles or the sentinel. Its invariant `BuildInv` says how far each rank is and which rows its
queue may name; `AuxInv` adds what the loops over the boxes may read.
`AllRanksAgree` (`RanksAgree`): all ranks leave Build with one tree and one map, for
Layout = "left". Between the broadcasts they do not agree: `AgreeInv` says that a rank changes its
map only inside the range of its own start node (`InsideStart`), so that two ranks may differ only
at positions not yet sent (`MapsAgree`, `Pending`), and that the top of the tree and the merged part
are the same everywhere (`TopsAgree`, `TreesAgree`). The run build_cpu_ranks shows that the
hypothesis about the layout is needed.
`TreesAreWellFormed` (`TreeWellFormed`), for Layout = "left" and axes that separate particles
(`AxesSeparate`: more particles than fit in a block are never all at one place of an axis; where
they are, a cut falls on an end of the range and the code does leave an ill-formed tree, a hazard of
the list). Two invariants lead to it. While a tree is being split (`GrowInv`), the map is a
permutation (`SortedMapOneToOne`: the sort of `Divide` keeps it one) and the rows made so far
have a `Shape`: their children are numbered in the order they were made, two by two (`Counted`,
`Numbered`), levels do not fall with the number and at most two are in the queue (`Levelled`),
children share out their parent's range (`Ranged`), and rows of one level do not overlap
(`Disjoint`). Of the top also that row i is as deep as its number demands, so that the start nodes
are one whole level. While the local trees are merged (`MergedInv`), the top keeps its shape
(`TopKept`), the rows already hung up stand block by block where the offsets say (`BlocksPlaced`,
`BlocksOrdered`, `BlocksCover`), rows after them have no children (`RestEmpty`), and there is room for
the rest (`RoomLeft`, a sum over the ranks that wait). `Merged(n)` is what these leave at the end,
from which each part of `TreeWellFormed` follows.
`NodesAreBounded` (`BoxesBound`), under the same hypotheses, is the end of that history. The maps are
exchanged piece by piece, so that each rank's is a permutation at every moment only because what
it has not yet received holds the same particles as what it will receive (`MapsPermuted`). Of the boxes
`RankGrows` says, rank by rank: a box that is set is that of the row's own particles (`Exact`); where a
row's box is set its children's are (`Closed`); and the first element of the stack of a climb is the row
the climb started at, until that row has its box (`Climbing`). So a rank that broadcasts has
all boxes under its start node (`SenderComplete`), the rows it sends are those and no other
rank's (`SentRowsAre`), and at the end the root's box makes all others set (`AllBoxes`). That the
rows `LeavesUnder` collects are leaves is an induction over a recursive function, from the last row back
(`GatheredAreLeaves`); that they are all the leaves is not needed here: without one of
them a climb would not end (`BoxesEnd`). What the module proves of sums over sets
(`Total`) is an induction over subsets stated with a set for the predicate; powers of two are a
function (`Power`), since tlapm knows nothing of `^`.

**DenseDotProofs** - for every number of ranks, leaves and slots: `TypeCorrect`,
`BlocksAddedOnce` (`NoBlockTwice`), `AllBlocksAdded` (`AllProcessed`, assuming the pool has
room for one block), `DenseDotImplements`. The argument: a slot visits the leaves
MaxWorkSize apart. No slot's leaf is on another's way (`Chains`), the leaves ahead of
a slot are untouched (`Fresh`), a leaf not done is ahead of some slot (`Covered`), and
blocks before a leaf's column were added once (`Counts`). The compaction lemmas carry
all of these over the move of the slots. `PoolNeverOverrun` (`PoolSuffices`): no batch needs more
than the pool, for leaves no larger than a block: the number of slots was chosen that way, and no
compaction makes more. `ReportTrusted` (`ReportTruthful`) is about PostCheckDot, whose module it
extends: a rank reports only after the reduction of all blocks of all ranks, and
DenseDot's invariant carries over to its copy of the loop (`PostInv`).

**CloseFarCheckProofs** - for every tree, every verdict (symmetric or not), with and without
mUseSymmetry: `TypeCorrect` (close blocks are leaf x leaf), `FarBlocksAreSmall` (`FarBlocksFit`)
and `EntriesAreCovered` (`FrontierCovers`). The frontier - the queued rows, the finished leaves and
the current row - shares the particles out (`FrontierInv`), so one of its rows holds the
particle p of an entry (p, q). What is not in a far block is in that row's columns, once: the
far count and the count of the columns of the row add up to 1 (`CoverInv`), whether the columns
are kept, on the stack or untested. A node taken apart into its children leaves the counts as
they are (`TimesBelow`), a far column moves one from the row to the far block (`FarGrows`).
`RowInv`, `LeafInv` and `FarInv` say what the loops know of the lists they hand on.

`EveryEntryOnce` (`EachEntryOnce`): the lists the ranks deal out hold every entry of the matrix
once, for every number of ranks. Without mUseSymmetry that is coverage and one more induction
over the dealing (`DealInv`). With mUseSymmetry a rank gets only the pairs whose row is not behind their
column, and the products add the mirror image: the lists have to be symmetric, although rows and
columns are refined by different loops. `MirrorInv` says what keeps them so, of the blocks still to
be tested, those a descent takes apart and the final ones: a block is of one level, or its higher node is
a leaf (`LevelOK`); no verdict is remembered for a block still to be tested (`MemoryOK`); a block that
will be tested knows what became of its mirror image (`AheadOK`); what crosses a final block of one
level is not still to be tested below that level (`DepthOK`); and two final blocks that cross are
mirror images when one of them is of one level (`PairOK`). What remains are leaves against deeper rows, which the numbering of the tree orders
one way, so that exactly one of the two is dealt. The hypothesis is that verdicts are symmetric or
mUseSymmetry is off; the run close_far_rounding shows that it is needed.

**FarDotProofs** - for every list of pairs, pool sizes, maxIter and choice of pivots:
`TypeCorrect`, `CountersCorrect` (`CountersAgree`), `PivotsAreDifferent` (`PivotsDiffer`),
`CrossesStayOwn` (`CrossesOwn`), `BatchesAreLongest`, `BatchesAreSized` (`BatchSized`: besides, the
coordinates of no pass exceed their pool) and `FarDotImplements` (`Implements`). Assumed are
the types, and for `CrossesOwn` nothing more: it speaks of pools with room for maxIter crosses of
each slot. The parts of the invariant: the slots in use hold different pairs of the current batch,
added so far are those before it and those that left it (`SlotsInv`); a slot that goes on has done
fewer crosses than it has rows and columns, so that a free one exists (`IterInv`, a pigeonhole
argument); its pivots are different (`PivotInv`); the areas of the slots are disjoint and inside
the pools (`AreaInv`), and hold each cross the slot made (`ContentInv`). The lemmas about
compaction carry all of it over the move of the slots to the front.

**SimulationProofs**, first part, TimeIntegrator - for every set of ranks, all steps and times, every sequence of
estimates and also for ranks that disagree: `TypeCorrect`, `SlopesAreCurrent`
(`SlopesCurrent`), `WrapsAreOwn` (`WrappedByOwnOffset`) and `StepsEndInTime` (`NeverPastEnd`,
for MinStep <= EndTolerance, the 1e-6 and 1e-5 of the code). The invariant adds what
holds between the steps: the returned velocities are those of the current positions,
an attempt began before the end of the time, and the slope and the offsets left over
at the head of the loop belong to the positions there.

The part ends with `RanksAgreeInCallbacks` (`CollectivesAgree`), for any number of ranks
and any Rounding: however their sums differ, the ranks meet in every callback until an attempt has
different outcomes for two of them (`apart`). Between two callbacks a rank is on its own and
its steps have one outcome, `Arrival(r)`: the state in which it asks again or returns.
Each of its steps leaves `Arrival(r)` unchanged. The sum of an attempt enters only through
`NextAttempt` (`SumsOfOneOutcome`), and `Arrival` leaves it out: nothing the code computes from a sum besides,
such as the size for the step after an accepted attempt, reaches a later callback. So all ranks have the
same arrival as long as they have not parted. In terms of the code: ranks whose attempts are all accepted
stay in step to the last bit, whatever their sums; after a rejected attempt they do if their sums,
or the sizes reduced by them, are equal. `EulerRanksNeverPart`: the ranks of ExplicitEuler never part.

**SimulationProofs**, second part, NeighborLists - for every domain of three axes, all
coordinates and radii, any number of particles, every width of the integers and all
sequences of calls: `ListsTypeCorrect` (`ListsTypeOK`), `ListsEdgesExact` (`EdgesExact`),
`ListsForcesExact` (`ForcesExact`) and `ListsStayDefined` (`StaysDefined`). The properties are
about what a build leaves behind and what later calls leave alone, so the invariant (`ListsInv`) is
short: the settings have their types (`SettingsOK`), the finished tables and forces hold what is
claimed of them (`TablesHold`), and `StaysDefined`. The work is in what one build does, and goes up in
these steps.
An array of parts, `Starts` and `Joined`, is onto its parts, and each of its entries is in one part only. The
search returns each accepted source once, in whatever order they were met and with whichever swapped to the
front. On one axis, a coordinate less than the radius away from another, over a boundary or not, is so from
exactly one of the images the code makes (`AxisImages`: this needs the domain to be two radii wide, and
the particles to be inside); a copy is determined by the digits of its number, one for each axis, so on
all three axes each near particle is accepted once (`OneImageEach`). Hence a list holds every near particle
once, the particle itself in front (`ExactList`; `PeriodicExact` with images, `PlainExact` without). From exact
lists follow exact entries of pairs and triples, and from those that they fit: what is *counted* for
i is the length of the lists of its neighbours less two, what is *written* leaves out i itself, and
the two agree because nearness is symmetric, so that i is once in the list of each of its neighbours. No
number wraps on the way, since an uncrowded object has no more triples than an `int` counts and a table
holds (`Crowded` is the exception `StaysDefined` makes). Where the lists are not exact - radii without images,
particles outside - `TablesHold` claims the types and the slices alone: a build that did not write what it
counted is "undefined", not finished. The slices of the getters follow from the offsets, however the
lists came about, because every row of a finished table starts with the particle whose part it is in
(`RowsOfParticle`). What the two-body table holds is claimed without periodic
boundaries only, where the second translation does nothing.

**HignnModelProofs** - for any number of ranks and particles and all programs: `RoundTrip`
(`BackwardReorder` undoes `Reorder` for every map that puts each particle at one position, whatever is
reordered) and `TypeCorrect` (`TypeOK`, which includes that the coordinates of a rank are
always those of every particle once, all of one call, however often they were reordered).
`TypeOK` is not inductive alone: the counter of the calls stays in the program only because
a rank inside a call has one to return from (`InCall`); `IInv` is the conjunction. That `Reorder`
keeps every particle rests on the map being onto, a lemma of its own.

Its last part proves `AnswersAreRight` (`AnswersRight`) and `RanksStayInStep`. The
invariant `AnswersInv`, checked by TLC on the run's programs before it was proved, says
that the job is lost on all ranks, or that (a) the ranks are in step: a rank is ahead of
another by setters and by a return only, so a rank in a collective finds the others in the same
call (`InStep`; the parts of a call are numbered by the collectives before them); (b) all
ranks have the same map, the coordinates of the last update in its order, and pairs that
were dealt under the flag that update saw (`Listed`), or none has a map; (c) each rank
has the settings of its own past calls and, in each phase, the velocities that its own
pairs or rows make (`Alone`). (a) is needed because a reduction adds the velocities of all
ranks, which must be of one call; (b) because the flag that `CloseDot` and `FarDot` read
may be a later one: only if it is the same do the pairs and their mirrors of all
ranks make up all entries, each once (`DotAddsAll`). `RowsAreShared` is the same for the rows
of the dense product, for any number of ranks and leaves, more ranks than leaves included. The sum
over the ranks is taken apart one rank at a time (`SumRows`): the bags of disjoint sets of
terms add up to that of their union. `RoundTrip` carries the result to the caller's
order. What is assumed is `ModelAssumption` alone: at least one rank and one leaf, a block no
smaller than a leaf.

Only model-checked: the liveness properties (`BoxesEnd`, `Completes`, `Returns`, `EndsOnTime`,
`CallsReturn`), which are outside what the provers do here. Every safety property of a passing run is
stated by a theorem.

## 7. Not modelled

- Floating-point values (coordinates, determinants, norms, network outputs) and with
  them the accuracy of the compression and NaN; the geometry of bounding boxes. They are free
  choices, or symbols that say where a value came from.
- `PostCheck` (src/src/PostCheck.cpp): declared, but neither called by the library nor bound to
  Python; it has no effect on a run.
- The k-d tree of nanoflann, and the searches of PointCloudSearch that nothing calls: the
  result set and its use are modelled, how the tree is walked is not, beyond two orders of the hits.
- Vec3, Quaternion and the Morse formula: closed formulas without state. The orientations and
  output files of TimeIntegrator.
- The bindings (pybind11), initialisation of MPI and Kokkos, drivers and command line,
  training of the network: forwarding, library calls, scripts and numerical optimisation.
- Details on which no property depends: the cast of the pool size to `int` where CloseDot and FarDot
  compare with it; the write past the column array in FarDot's last iteration (FarDot.cpp:877), whose value
  is never used; the extents GetTwoBodyEdgeInfoByIndex reads before the first build; differences of the
  reduced step size below a tick.
- GPU memory and streams; timing and printing; the statistics FarDot sums over the ranks.
