----------------------------- MODULE HignnModel -----------------------------
(***************************************************************************)
(* The class HignnModel as its caller sees it.  Every MPI rank runs the    *)
(* same Python program, a sequence of calls on its own model: setters,     *)
(* update_coord, dot and dense_dot.  The ranks run on their own and meet   *)
(* in the collective steps inside of the calls.                            *)
(*                                                                         *)
(* What Build, CloseFarCheck, CloseDot, FarDot, DenseDot and PostCheckDot  *)
(* do is taken from their own modules: Update finds some order of the      *)
(* particles and some far pairs and deals the pairs, each product adds the *)
(* pairs it was dealt once.  Leaves have LeafSize particles, and one       *)
(* particle of each stands for them: a position is a leaf here.            *)
(***************************************************************************)
EXTENDS Integers, Sequences, FiniteSets, Bags

CONSTANTS
  MPISize,    \* mMPISize
  N,          \* the particles (leaves) of the model
  LeafSize,   \* the particles a leaf has
  BlockSize,  \* mBlockSize
  Programs    \* the sequences of calls a caller may make

Ranks == 0 .. MPISize - 1
Particles == 0 .. N - 1
Positions == 0 .. N - 1

\* A call of a setter is named for the setting; its argument is a flag or a
\* size.
SetterNames == {"useSymmetry", "postCheckFlag", "maxRelativeCoord"}
CallRecords == [op : SetterNames \cup {"update_coord", "dot", "dense_dot"},
                flag : BOOLEAN, size : Nat]
Value(call) == IF call.op = "maxRelativeCoord" THEN call.size ELSE call.flag

ASSUME ModelAssumption ==
  /\ MPISize \in Nat \ {0} /\ N \in Nat \ {0}
  /\ LeafSize \in Nat \ {0} /\ BlockSize \in Nat /\ LeafSize <= BlockSize
  /\ Programs \subseteq Seq(CallRecords)

VARIABLES
  program,  \* the calls every rank makes
  next,     \* next[r]: the number of the rank's next or current call
  phase,    \* phase[r]: where in the call the rank is
  settings, \* settings[r]: mUseSymmetry, mPostCheckFlag, mMaxRelativeCoord
  coord,    \* coord[r]: mCoord, at each position the call that passed the
            \* coordinates (0: the constructor) and the particle they are of
  map,      \* map[r]: mReorderedMap, empty before the first update
  close, far, \* close[r], far[r]: the pairs of positions the rank was dealt
  u,        \* u[r]: the velocities, at each position the bag of its terms
  check,    \* check[r]: uPostCheck, as u
  uArray,   \* uArray[r]: what the last product returned to the caller
  report    \* report[r]: what the last post check printed

model == <<settings, coord, map, close, far>>
products == <<u, check, uArray, report>>
vars == <<program, next, phase, model, products>>

\* The defaults of the constructor that this module reads.
Defaults == [useSymmetry |-> TRUE, postCheckFlag |-> FALSE, maxRelativeCoord |-> 500000]

Nothing == [p \in Positions |-> EmptyBag]

\* LoadTwoBodyModel follows the constructor in every driver; it sets nothing
\* that is read here.
Init ==
  /\ program \in Programs
  /\ next = [r \in Ranks |-> 1]
  /\ phase = [r \in Ranks |-> "idle"]
  /\ settings = [r \in Ranks |-> Defaults]
  /\ coord = [r \in Ranks |-> [p \in Positions |-> <<0, p>>]]
  /\ map = [r \in Ranks |-> <<>>]
  /\ close = [r \in Ranks |-> {}] /\ far = [r \in Ranks |-> {}]
  /\ u = [r \in Ranks |-> Nothing] /\ check = [r \in Ranks |-> Nothing]
  /\ uArray = [r \in Ranks |-> Nothing] /\ report = [r \in Ranks |-> "none"]

Calls(r, op) ==
  /\ phase[r] = "idle" /\ next[r] \in DOMAIN program /\ program[next[r]].op = op

Goto(r, where) == phase' = [phase EXCEPT ![r] = where]
Returns(r) == Goto(r, "idle") /\ next' = [next EXCEPT ![r] = @ + 1]

\* A collective: every rank waits for it, and all go on.
Together(where, after) ==
  /\ \A r \in Ranks : phase[r] = where
  /\ phase' = [r \in Ranks |-> after]

-----------------------------------------------------------------------------
(* Setters *)

\* A setter takes effect at once, on lists made before it too.
Set(r) ==
  \E name \in SetterNames :
    /\ Calls(r, name)
    /\ settings' = [settings EXCEPT ![r][name] = Value(program[next[r]])]
    /\ Returns(r)
    /\ UNCHANGED <<program, coord, map, close, far, products>>

-----------------------------------------------------------------------------
(* UpdateCoord *)

\* Reorder: position i gets what the map names, read from a copy.
ReorderInPlace(m, v) ==
  LET w[i \in -1 .. N - 1] ==
        IF i < 0 THEN v ELSE [w[i - 1] EXCEPT ![i] = w[i - 1][m[i]]]
  IN  w[N - 1]
Reorder(m, v) == [i \in DOMAIN v |-> v[m[i]]]

\* BackwardReorder: what is at position i goes back to the particle m[i].
BackwardReorderForward(m, v) == Reorder(m, v)
BackwardReorder(m, v) == [a \in DOMAIN v |-> v[CHOOSE i \in DOMAIN v : m[i] = a]]

\* The caller's coordinates overwrite those in tree order.
UpdateCoord(r) ==
  /\ Calls(r, "update_coord")
  /\ coord' = [coord EXCEPT ![r] = [p \in Positions |-> <<next[r], p>>]]
  /\ Goto(r, "update")
  /\ UNCHANGED <<program, next, settings, map, close, far, products>>

\* CloseFarCheck goes through the pairs of a kind by rows.  Under symmetry a pair
\* is dealt only with the larger column second.
AllPairs == Positions \X Positions
Before(a, b) == a[1] < b[1] \/ (a[1] = b[1] /\ a[2] < b[2])
Place(pairs, pair) == Cardinality({other \in pairs : Before(other, pair)})
Kept(symmetry, pair) == symmetry => pair[2] >= pair[1]

\* The pairs of rank r.  The counter of the close pairs also counts those that
\* are not kept, the counter of the far pairs does not.
DealtClose(r, pairs, symmetry) ==
  {pair \in pairs : Place(pairs, pair) % MPISize = r /\ Kept(symmetry, pair)}
DealtFar(r, pairs, symmetry) ==
  DealtClose(r, {pair \in pairs : Kept(symmetry, pair)}, symmetry)

\* Any order of the particles and any far pairs, equal for both of a pair.
Orders == {m \in [Positions -> Particles] : \A a \in Particles : \E i \in Positions : m[i] = a}
FarSets == {F \in SUBSET AllPairs :
              \A pair \in F : pair[1] # pair[2] /\ <<pair[2], pair[1]>> \in F}

\* Build and CloseFarCheck, from one barrier to another: a new map, the
\* coordinates in its order, and new lists.  A far leaf that does not fit in
\* the pool is cut into children it has not: the job is lost.
Update ==
  /\ \E m \in Orders, F \in FarSets :
       LET symmetry(r) == settings[r].useSymmetry
       IN  /\ map' = [r \in Ranks |-> m]
           /\ coord' = [r \in Ranks |-> Reorder(m, coord[r])]
           /\ close' = [r \in Ranks |-> DealtClose(r, AllPairs \ F, symmetry(r))]
           /\ far' = [r \in Ranks |-> DealtFar(r, F, symmetry(r))]
           /\ IF F # {} /\ \E r \in Ranks : settings[r].maxRelativeCoord <= LeafSize
              THEN Together("update", "lost") /\ UNCHANGED next
              ELSE Together("update", "idle") /\ next' = [r \in Ranks |-> next[r] + 1]
  /\ UNCHANGED <<program, settings, products>>

-----------------------------------------------------------------------------
(* Dot *)

Lost == phase' = [r \in Ranks |-> "lost"] /\ UNCHANGED <<program, next, model, products>>

\* u starts from zero.  Without a map the forces cannot be reordered, and there
\* is no tree and no list to read.
EnterProduct(r, op, first) ==
  /\ Calls(r, op)
  /\ IF map[r] = <<>> THEN Lost
     ELSE /\ u' = [u EXCEPT ![r] = Nothing]
          /\ Goto(r, first)
          /\ UNCHANGED <<program, next, model, check, uArray, report>>

\* The term of the velocity at position p from the particle at position q: the
\* two coordinates and the force, which was reordered by the map.
Forces(r) == Reorder(map[r], [a \in Particles |-> a])
Term(r, p, q) == <<coord[r][p], coord[r][q], Forces(r)[q]>>

\* Velocities with one more term for each entry: the terms of a row are of
\* different particles.
Plus(r, velocities, entries) ==
  [p \in Positions |->
     velocities[p] (+) SetToBag({Term(r, p, q) : q \in {q \in Positions : <<p, q>> \in entries}})]

\* The entries the pairs of a list stand for besides their own, under the flag
\* of the moment.
Mirrored(r, pairs) ==
  IF settings[r].useSymmetry
  THEN {<<pair[2], pair[1]>> : pair \in {pair \in pairs : pair[2] > pair[1]}}
  ELSE {}
MirroredFar(r, pairs) ==
  IF settings[r].useSymmetry THEN {<<pair[2], pair[1]>> : pair \in pairs} ELSE {}

\* A close pair that alone does not fit is multiplied past the pool's end.
Overruns(r) == close[r] # {} /\ LeafSize * LeafSize > settings[r].maxRelativeCoord

CloseDot(r) ==
  /\ phase[r] = "close"
  /\ \/ /\ u' = [u EXCEPT ![r] = Plus(r, Plus(r, @, close[r]), Mirrored(r, close[r]))]
        /\ Goto(r, "closed")
        /\ UNCHANGED <<program, next, model, check, uArray, report>>
     \/ Overruns(r) /\ Lost

\* CloseDot's reductions and FarDot's barrier.
EnterFarDot ==
  /\ Together("closed", "far")
  /\ UNCHANGED <<program, next, model, products>>

\* A far pair that alone does not fit is never taken: the search for a batch
\* ends with none, again and again.
FarFits(r) == far[r] = {} \/ LeafSize <= settings[r].maxRelativeCoord

FarDot(r) ==
  /\ phase[r] = "far" /\ FarFits(r)
  /\ u' = [u EXCEPT ![r] = Plus(r, Plus(r, @, far[r]), MirroredFar(r, far[r]))]
  /\ Goto(r, "sum")
  /\ UNCHANGED <<program, next, model, check, uArray, report>>

Spin(r) == phase[r] = "far" /\ ~FarFits(r) /\ UNCHANGED vars

\* MPI_Allreduce: the sums over all ranks.
SumOf(velocities) ==
  LET sum[r \in -1 .. MPISize - 1] ==
        IF r < 0 THEN Nothing ELSE [p \in Positions |-> sum[r - 1][p] (+) velocities[r][p]]
  IN  sum[MPISize - 1]

\* What follows the reduction: the post check, if it is wanted, on every rank.
AfterSumOnRoot(r) ==
  IF program[next[r]].op = "dot" /\ settings[r].postCheckFlag /\ r = 0
  THEN "check" ELSE "back"
AfterSum(r) ==
  IF program[next[r]].op = "dot" /\ settings[r].postCheckFlag THEN "check" ELSE "back"

Sum ==
  /\ \A r \in Ranks : phase[r] = "sum"
  /\ u' = [r \in Ranks |-> SumOf(u)]
  /\ phase' = [r \in Ranks |-> AfterSum(r)]
  /\ UNCHANGED <<program, next, model, check, uArray, report>>

\* The velocities go back to the caller in the caller's order.
Return(r) ==
  /\ phase[r] = "back"
  /\ uArray' = [uArray EXCEPT ![r] = BackwardReorder(map[r], u[r])]
  /\ Returns(r)
  /\ UNCHANGED <<program, model, u, check, report>>

-----------------------------------------------------------------------------
(* DenseDot and PostCheckDot *)

\* The rows of a rank: an even share of the leaves, one more for the first
\* ranks.  A pool without room for one block leaves no slot to multiply in.
Share(r) == N \div MPISize + (IF r < N % MPISize THEN 1 ELSE 0)
ShareStart(r) == r * (N \div MPISize) + (IF r < N % MPISize THEN r ELSE N % MPISize)
HasRoom(r) == settings[r].maxRelativeCoord \div (BlockSize * BlockSize) > 0

OwnRows(r) ==
  IF HasRoom(r)
  THEN {pair \in AllPairs : pair[1] \in ShareStart(r) .. ShareStart(r) + Share(r) - 1}
  ELSE {}

DenseDot(r) ==
  /\ phase[r] = "dense"
  /\ u' = [u EXCEPT ![r] = Plus(r, @, OwnRows(r))]
  /\ Goto(r, "sum")
  /\ UNCHANGED <<program, next, model, check, uArray, report>>

PostCheckDot(r) ==
  /\ phase[r] = "check"
  /\ check' = [check EXCEPT ![r] = Plus(r, Nothing, OwnRows(r))]
  /\ Goto(r, "checked")
  /\ UNCHANGED <<program, next, model, u, uArray, report>>

\* The second reduction, and what rank 0 prints of the difference of u and
\* uPostCheck over the norm of uPostCheck.
Report(r, reference) ==
  IF reference = Nothing THEN "undefined"
  ELSE IF u[r] = reference THEN "same" ELSE "differs"

Compare ==
  /\ Together("checked", "back")
  /\ check' = [r \in Ranks |-> SumOf(check)]
  /\ report' = [r \in Ranks |-> Report(r, SumOf(check))]
  /\ UNCHANGED <<program, next, model, u, uArray>>

-----------------------------------------------------------------------------
Ended(r) == phase[r] = "lost" \/ (phase[r] = "idle" /\ next[r] > Len(program))
Stop == (\A r \in Ranks : Ended(r)) /\ UNCHANGED vars

RankStep(r) ==
  \/ Set(r) \/ UpdateCoord(r)
  \/ EnterProduct(r, "dot", "close") \/ EnterProduct(r, "dense_dot", "dense")
  \/ CloseDot(r) \/ FarDot(r) \/ Spin(r)
  \/ DenseDot(r) \/ PostCheckDot(r) \/ Return(r)
Collective == Update \/ EnterFarDot \/ Sum \/ Compare

Next == (\E r \in Ranks : RankStep(r)) \/ Collective \/ Stop

\* A rank runs until it waits in a collective, which completes when all ranks
\* have entered it.
Fairness == (\A r \in Ranks : WF_vars(RankStep(r))) /\ WF_vars(Collective)
Spec == Init /\ [][Next]_vars /\ Fairness

-----------------------------------------------------------------------------
Phases == {"idle", "update", "close", "closed", "far", "sum", "dense", "check",
           "checked", "back", "lost"}
Settings == [useSymmetry : BOOLEAN, postCheckFlag : BOOLEAN, maxRelativeCoord : Nat]

\* Every variable has its type: once there is a map it puts each particle at
\* one position, and the coordinates are those of all particles, all passed by
\* the same call, however often they were overwritten and reordered.
TypeOK ==
  /\ program \in Programs
  /\ next \in [Ranks -> 1 .. Len(program) + 1]
  /\ phase \in [Ranks -> Phases]
  /\ settings \in [Ranks -> Settings]
  /\ map \in [Ranks -> Orders \cup {<<>>}]
  /\ coord \in [Ranks -> [Positions -> Nat \X Particles]]
  /\ \A r \in Ranks : \E k \in 0 .. next[r] :
       {coord[r][p] : p \in Positions} = {k} \X Particles
  /\ report \in [Ranks -> {"none", "same", "differs", "undefined"}]

\* The value a setting has when call k is made, and the last update before it.
SettingAt(k, name) ==
  LET sets == {j \in 1 .. k - 1 : program[j].op = name}
  IN  IF sets = {} THEN Defaults[name]
      ELSE Value(program[CHOOSE j \in sets : \A i \in sets : i <= j])
LastUpdate(k) ==
  CHOOSE j \in 1 .. k - 1 :
    /\ program[j].op = "update_coord"
    /\ \A i \in j + 1 .. k - 1 : program[i].op # "update_coord"

\* The velocity of particle a: the term of every particle once, at the
\* coordinates of the last update.
Velocity(k, a) ==
  LET where(b) == <<LastUpdate(k), b>>
  IN  SetToBag({<<where(a), where(b), b>> : b \in Particles})
IsRight(r, k) == uArray[r] = [a \in Particles |-> Velocity(k, a)]

Answered(r, op) ==
  phase[r] = "idle" /\ next[r] > 1 /\ program[next[r] - 1].op = op

\* What dot and dense_dot return is the product of the whole matrix with the
\* forces, each particle's velocity at its own place in the caller's array,
\* on every rank, after any earlier calls: if, for dot, the symmetry flag is
\* still that of the last update, and, for dense_dot, the pool has room for a
\* block.  With such room the post check says whether dot was right.
AnswersRight ==
  \A r \in Ranks :
    LET k == next[r] - 1
        room == SettingAt(k, "maxRelativeCoord") >= BlockSize * BlockSize
    IN  /\ Answered(r, "dot") /\ SettingAt(k, "useSymmetry") = SettingAt(LastUpdate(k), "useSymmetry")
             => IsRight(r, k)
        /\ Answered(r, "dense_dot") /\ room => IsRight(r, k)
        /\ Answered(r, "dot") /\ room /\ SettingAt(k, "postCheckFlag")
             => report[r] = IF IsRight(r, k) THEN "same" ELSE "differs"

\* The pool is never made smaller between an update and a product.
PoolKept ==
  \A k \in DOMAIN program :
    (program[k].op = "dot" /\ \E j \in 1 .. k - 1 : program[j].op = "update_coord")
      => SettingAt(k, "maxRelativeCoord") >= SettingAt(LastUpdate(k), "maxRelativeCoord")

\* Every call returns on every rank, or the job is lost: no rank waits in a
\* collective that another one does not enter, unless the pool was made
\* smaller than a far block after the lists were made.
CallsReturn == PoolKept => <>(\A r \in Ranks : Ended(r))
=============================================================================
