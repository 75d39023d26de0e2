-------------------------- MODULE HignnModelProofs --------------------------
(***************************************************************************)
(* Proofs about HignnModel: the orders of the particles, the types, and    *)
(* that the answers to the caller are right.                               *)
(*                                                                         *)
(* The answers rest on an invariant in two parts.  The ranks stay in step  *)
(* (InStep), have the same map and the pairs dealt under the flag of the   *)
(* same update (Listed), or have lost the job together; and each rank has, *)
(* at each phase of a call, the velocities that its own pairs or rows make *)
(* (Alone).  A reduction then adds disjoint sets of entries that make up   *)
(* all of the matrix (DotAddsAll, DenseAddsAll).                           *)
(***************************************************************************)
EXTENDS HignnModel, FiniteSetTheorems, FunctionTheorems, WellFoundedInduction, TLAPS

-----------------------------------------------------------------------------
(* The orders of the particles *)

\* A map that puts each particle at a position puts it at one position only.
LEMMA OrderIsInjective ==
  ASSUME NEW m \in Orders, NEW i \in Positions, NEW j \in Positions, m[i] = m[j]
  PROVE  i = j
<1>1. N \in Nat
  BY ModelAssumption
<1>2. IsFiniteSet(Positions)
  BY <1>1, FS_Interval DEF Positions
<1>3. m \in Surjection(Positions, Particles)
  BY DEF Orders, Surjection
<1>4. Particles = Positions
  BY DEF Particles, Positions
<1>5. m \in Injection(Positions, Particles)
  BY <1>2, <1>3, <1>4, FS_SurjSameCardinalityImpliesInj
<1> QED BY <1>5 DEF Injection, IsInjective

\* Velocities in tree order go back to the places of their particles, and what
\* was put in tree order comes back as it was: Reorder and BackwardReorder are
\* inverse to each other for every map Build can make.
THEOREM RoundTrip ==
  ASSUME NEW m \in Orders, NEW S, NEW v \in [Particles -> S]
  PROVE  /\ BackwardReorder(m, Reorder(m, v)) = v
         /\ Reorder(m, BackwardReorder(m, v)) = v
<1>1. Particles = Positions
  BY DEF Particles, Positions
<1>2. m \in [Positions -> Positions]
  BY <1>1 DEF Orders
<1> DEFINE At(a) == CHOOSE i \in Particles : m[i] = a
<1>3. \A a \in Particles : At(a) \in Particles /\ m[At(a)] = a
  BY <1>1 DEF Orders
<1>4. BackwardReorder(m, Reorder(m, v)) = v
  <2>1. Reorder(m, v) = [i \in Particles |-> v[m[i]]]
    BY DEF Reorder
  <2>2. BackwardReorder(m, Reorder(m, v)) = [a \in Particles |-> v[m[At(a)]]]
    BY <2>1, <1>3 DEF BackwardReorder
  <2> QED BY <2>2, <1>3
<1>5. Reorder(m, BackwardReorder(m, v)) = v
  <2>1. BackwardReorder(m, v) = [a \in Particles |-> v[At(a)]]
    BY DEF BackwardReorder
  <2>2. Reorder(m, BackwardReorder(m, v)) = [i \in Particles |-> v[At(m[i])]]
    BY <2>1, <1>1, <1>2 DEF Reorder
  <2>3. \A i \in Particles : At(m[i]) = i
    BY <1>1, <1>2, <1>3, OrderIsInjective
  <2> QED BY <2>2, <2>3
<1> QED BY <1>4, <1>5

-----------------------------------------------------------------------------
(* Types *)

\* Coordinates passed by call k, in some order.
PassedBy(k, c) == {c[p] : p \in Positions} = {k} \X Particles

\* Putting the coordinates in tree order loses none of them.
LEMMA ReorderKeepsAll ==
  ASSUME NEW m \in Orders, NEW c \in [Positions -> Nat \X Particles], NEW k, PassedBy(k, c)
  PROVE  /\ Reorder(m, c) \in [Positions -> Nat \X Particles]
         /\ PassedBy(k, Reorder(m, c))
<1>1. Particles = Positions
  BY DEF Particles, Positions
<1>2. m \in [Positions -> Positions] /\ \A p \in Positions : \E i \in Positions : m[i] = p
  BY <1>1 DEF Orders
<1>3. Reorder(m, c) = [i \in Positions |-> c[m[i]]]
  BY DEF Reorder
<1>4. {Reorder(m, c)[p] : p \in Positions} = {c[p] : p \in Positions}
  BY <1>2, <1>3
<1>5. Reorder(m, c) \in [Positions -> Nat \X Particles]
  BY <1>2, <1>3
<1> QED BY <1>4, <1>5 DEF PassedBy

\* What the type invariant says of the call a rank makes.
LEMMA CallType ==
  ASSUME TypeOK, NEW r \in Ranks
  PROVE  /\ next[r] \in 1 .. Len(program) + 1 /\ Len(program) \in Nat
         /\ next[r] \in DOMAIN program =>
              /\ next[r] + 1 \in 1 .. Len(program) + 1
              /\ program[next[r]].flag \in BOOLEAN /\ program[next[r]].size \in Nat
<1>1. program \in Seq(CallRecords)
  BY ModelAssumption DEF TypeOK
<1>2. next[r] \in 1 .. Len(program) + 1 /\ Len(program) \in Nat
  BY <1>1 DEF TypeOK
<1>3. ASSUME next[r] \in DOMAIN program
      PROVE  /\ next[r] + 1 \in 1 .. Len(program) + 1
             /\ program[next[r]].flag \in BOOLEAN /\ program[next[r]].size \in Nat
  <2>1. next[r] \in 1 .. Len(program)
    BY <1>1, <1>3
  <2>2. program[next[r]] \in CallRecords
    BY <1>1, <2>1
  <2>3. program[next[r]].flag \in BOOLEAN /\ program[next[r]].size \in Nat
    BY <2>2 DEF CallRecords
  <2> QED BY <1>2, <2>1, <2>3
<1> QED BY <1>2, <1>3

\* A rank that is in a call has not come to the end of its program: without
\* this the number of the next call is not bounded by it.
InCall == \A r \in Ranks : phase[r] \notin {"idle", "lost"} => next[r] \in DOMAIN program

\* The coordinates and what they were passed by, apart from the other types.
Passed == \A r \in Ranks : \E k \in 0 .. next[r] : PassedBy(k, coord[r])

Shapes ==
  /\ program \in Programs
  /\ next \in [Ranks -> 1 .. Len(program) + 1]
  /\ phase \in [Ranks -> Phases]
  /\ settings \in [Ranks -> Settings]
  /\ map \in [Ranks -> Orders \cup {<<>>}]
  /\ coord \in [Ranks -> [Positions -> Nat \X Particles]]
  /\ report \in [Ranks -> {"none", "same", "differs", "undefined"}]

LEMMA TypeParts == TypeOK <=> Shapes /\ Passed
  BY DEF TypeOK, Shapes, Passed, PassedBy

\* A step that leaves the coordinates keeps what they were passed by, if no
\* rank goes back in its program.
LEMMA PassedStays ==
  ASSUME TypeOK, coord' = coord,
         \A r \in Ranks : next'[r] \in Nat /\ next[r] <= next'[r]
  PROVE  Passed'
<1> SUFFICES ASSUME NEW r \in Ranks
             PROVE  \E k \in 0 .. next'[r] : PassedBy(k, coord'[r])
  BY DEF Passed
<1>1. PICK k \in 0 .. next[r] : PassedBy(k, coord[r])
  BY TypeParts DEF Passed
<1>2. k \in 0 .. next'[r]
  BY CallType
<1> QED BY <1>1, <1>2 DEF PassedBy

\* A setter changes one setting, and to a value of its type.
LEMMA SetStep ==
  ASSUME TypeOK, NEW r \in Ranks, Set(r)
  PROVE  TypeOK'
<1>1. PICK name \in SetterNames :
        /\ Calls(r, name)
        /\ settings' = [settings EXCEPT ![r][name] = Value(program[next[r]])]
        /\ Returns(r)
        /\ UNCHANGED <<program, coord, map, close, far, products>>
  BY DEF Set
<1> DEFINE call == program[next[r]]
<1>2. call.op = name /\ call.flag \in BOOLEAN /\ call.size \in Nat
      /\ next[r] + 1 \in 1 .. Len(program) + 1
  BY <1>1, CallType DEF Calls
<1>3. settings'[r] = [settings[r] EXCEPT ![name] = Value(call)]
      /\ \A s \in Ranks : s # r => settings'[s] = settings[s]
  BY <1>1 DEF TypeOK
<1>4. settings[r] \in Settings
  BY DEF TypeOK
<1>5. settings'[r] \in Settings
  <2>1. CASE name = "maxRelativeCoord"
    <3>1. Value(call) \in Nat
      BY <1>2, <2>1 DEF Value
    <3> QED BY <1>3, <1>4, <2>1, <3>1 DEF Settings
  <2>2. CASE name = "useSymmetry"
    <3>1. Value(call) \in BOOLEAN
      BY <1>2, <2>2 DEF Value
    <3> QED BY <1>3, <1>4, <2>2, <3>1 DEF Settings
  <2>3. CASE name = "postCheckFlag"
    <3>1. Value(call) \in BOOLEAN
      BY <1>2, <2>3 DEF Value
    <3> QED BY <1>3, <1>4, <2>3, <3>1 DEF Settings
  <2> QED BY <2>1, <2>2, <2>3 DEF SetterNames
<1>6. settings' \in [Ranks -> Settings]
  BY <1>1, <1>3, <1>5 DEF TypeOK
<1>7. next' \in [Ranks -> 1 .. Len(program) + 1] /\ phase' \in [Ranks -> Phases]
  BY <1>1, <1>2 DEF Returns, Goto, Phases, TypeOK
<1>8. \A s \in Ranks : next'[s] \in Nat /\ next[s] <= next'[s]
  BY <1>1, <1>7, CallType DEF Returns, TypeOK
<1>9. Passed'
  BY <1>1, <1>8, PassedStays
<1>10. Shapes'
  BY <1>1, <1>6, <1>7 DEF Shapes, TypeOK, products
<1> QED BY <1>9, <1>10 DEF TypeOK, Shapes, Passed, PassedBy

\* Most steps leave the program, the settings, the map and the coordinates.
LEMMA ModelStays ==
  ASSUME TypeOK, UNCHANGED <<program, settings, map, coord>>,
         next' \in [Ranks -> 1 .. Len(program) + 1],
         \A r \in Ranks : next[r] <= next'[r],
         phase' \in [Ranks -> Phases],
         report' \in [Ranks -> {"none", "same", "differs", "undefined"}]
  PROVE  TypeOK'
<1>1. \A r \in Ranks : next'[r] \in Nat
  BY CallType
<1>2. Passed'
  BY <1>1, PassedStays
<1>3. Shapes'
  BY DEF Shapes, TypeOK
<1> QED BY <1>2, <1>3 DEF TypeOK, Shapes, Passed, PassedBy

\* The same for the steps that stay in the call and print nothing.
LEMMA CallStays ==
  ASSUME TypeOK, UNCHANGED <<program, settings, map, coord, next, report>>,
         phase' \in [Ranks -> Phases]
  PROVE  TypeOK'
<1>1. \A r \in Ranks : next[r] <= next'[r]
  BY CallType
<1> QED BY <1>1, ModelStays DEF TypeOK

\* Going to another phase, alone or together.
LEMMA PhaseStays ==
  ASSUME TypeOK, NEW where \in Phases
  PROVE  /\ \A r \in Ranks : Goto(r, where) => phase' \in [Ranks -> Phases]
         /\ \A from : Together(from, where) => phase' \in [Ranks -> Phases]
  BY DEF Goto, Together, TypeOK

LEMMA LostStep == ASSUME TypeOK, Lost PROVE TypeOK'
<1>1. phase' \in [Ranks -> Phases]
  BY DEF Lost, Phases
<1> QED BY <1>1, CallStays DEF Lost, model, products

LEMMA UpdateCoordStep ==
  ASSUME TypeOK, NEW r \in Ranks, UpdateCoord(r)
  PROVE  TypeOK'
<1> DEFINE written == [p \in Positions |-> <<next[r], p>>]
<1>1. coord' = [coord EXCEPT ![r] = written]
  BY DEF UpdateCoord
<1>2. next[r] \in Nat
  BY CallType
<1>3. written \in [Positions -> Nat \X Particles] /\ PassedBy(next[r], written)
  BY <1>2 DEF PassedBy, Positions, Particles
<1>4. coord' \in [Ranks -> [Positions -> Nat \X Particles]]
  BY <1>1, <1>3 DEF TypeOK
<1>5. coord'[r] = written /\ \A s \in Ranks : s # r => coord'[s] = coord[s]
  BY <1>1 DEF TypeOK
<1>6. \A s \in Ranks : \E k \in 0 .. next'[s] : PassedBy(k, coord'[s])
  <2> SUFFICES ASSUME NEW s \in Ranks
               PROVE  \E k \in 0 .. next[s] : PassedBy(k, coord'[s])
    BY DEF UpdateCoord
  <2>1. CASE s = r
    <3>1. next[r] \in 0 .. next[r]
      BY <1>2
    <3> QED BY <2>1, <3>1, <1>3, <1>5
  <2>2. CASE s # r
    BY <2>2, <1>5, TypeParts DEF Passed
  <2> QED BY <2>1, <2>2
<1>7. "update" \in Phases
  BY DEF Phases
<1>8. Shapes'
  BY <1>4, <1>7, PhaseStays DEF UpdateCoord, Shapes, TypeOK, products
<1> QED BY <1>6, <1>8 DEF TypeOK, Shapes, Passed, PassedBy

\* An update puts all coordinates in tree order and loses none.
LEMMA UpdateStep == ASSUME TypeOK, InCall, Update PROVE TypeOK'
<1>1. PICK m \in Orders : /\ map' = [r \in Ranks |-> m]
                          /\ coord' = [r \in Ranks |-> Reorder(m, coord[r])]
  BY DEF Update
<1>2. /\ next' \in [Ranks -> 1 .. Len(program) + 1]
      /\ \A r \in Ranks : next[r] <= next'[r]
  <2>1. CASE next' = next
    BY <2>1, CallType DEF TypeOK
  <2>2. CASE Together("update", "idle") /\ next' = [r \in Ranks |-> next[r] + 1]
    <3>1. \A r \in Ranks : next[r] \in DOMAIN program
      BY <2>2 DEF Together, InCall
    <3> QED BY <2>2, <3>1, CallType
  <2> QED BY <2>1, <2>2 DEF Update
<1>3. phase' \in [Ranks -> Phases]
  BY DEF Update, Together, Phases
<1>4. \A r \in Ranks : \E k \in 0 .. next[r] :
        /\ Reorder(m, coord[r]) \in [Positions -> Nat \X Particles]
        /\ PassedBy(k, Reorder(m, coord[r]))
  <2> SUFFICES ASSUME NEW r \in Ranks
               PROVE  \E k \in 0 .. next[r] :
                        /\ Reorder(m, coord[r]) \in [Positions -> Nat \X Particles]
                        /\ PassedBy(k, Reorder(m, coord[r]))
    OBVIOUS
  <2>1. PICK k \in 0 .. next[r] : PassedBy(k, coord[r])
    BY TypeParts DEF Passed
  <2> QED BY <2>1, ReorderKeepsAll DEF TypeOK
<1>5. coord' \in [Ranks -> [Positions -> Nat \X Particles]]
  BY <1>1, <1>4
<1>6. \A r \in Ranks : \E k \in 0 .. next'[r] : PassedBy(k, coord'[r])
  <2> SUFFICES ASSUME NEW r \in Ranks
               PROVE  \E k \in 0 .. next'[r] : PassedBy(k, coord'[r])
    OBVIOUS
  <2>1. PICK k \in 0 .. next[r] : PassedBy(k, Reorder(m, coord[r]))
    BY <1>4
  <2>2. k \in 0 .. next'[r]
    BY <1>2, CallType
  <2> QED BY <1>1, <2>1, <2>2
<1>7. Shapes'
  BY <1>1, <1>2, <1>3, <1>5 DEF Update, Shapes, TypeOK, products
<1> QED BY <1>6, <1>7 DEF TypeOK, Shapes, Passed, PassedBy

\* A call that starts sets up the product, or loses the job.
LEMMA EnterStep ==
  ASSUME TypeOK, NEW r \in Ranks, NEW op, NEW first \in Phases, EnterProduct(r, op, first)
  PROVE  TypeOK'
<1>1. CASE Lost
  BY <1>1, LostStep
<1>2. CASE Goto(r, first) /\ UNCHANGED <<program, next, model, check, uArray, report>>
  BY <1>2, CallStays, PhaseStays DEF model
<1> QED BY <1>1, <1>2 DEF EnterProduct

LEMMA ProductStep ==
  ASSUME TypeOK, NEW r \in Ranks,
         CloseDot(r) \/ FarDot(r) \/ DenseDot(r) \/ PostCheckDot(r)
  PROVE  TypeOK'
<1>1. {"closed", "sum", "checked"} \subseteq Phases
  BY DEF Phases
<1>2. CASE CloseDot(r)
  <2>1. CASE Lost
    BY <2>1, LostStep
  <2>2. CASE Goto(r, "closed") /\ UNCHANGED <<program, next, model, check, uArray, report>>
    BY <1>1, <2>2, CallStays, PhaseStays DEF model
  <2> QED BY <1>2, <2>1, <2>2 DEF CloseDot
<1>3. CASE FarDot(r)
  BY <1>1, <1>3, CallStays, PhaseStays DEF FarDot, model
<1>4. CASE DenseDot(r)
  BY <1>1, <1>4, CallStays, PhaseStays DEF DenseDot, model
<1>5. CASE PostCheckDot(r)
  BY <1>1, <1>5, CallStays, PhaseStays DEF PostCheckDot, model
<1> QED BY <1>2, <1>3, <1>4, <1>5

LEMMA ReturnStep ==
  ASSUME TypeOK, InCall, NEW r \in Ranks, Return(r)
  PROVE  TypeOK'
<1>1. next[r] \in DOMAIN program
  BY DEF Return, InCall
<1>2. next[r] + 1 \in 1 .. Len(program) + 1 /\ \A s \in Ranks : next[s] \in Nat
  BY <1>1, CallType
<1>3. next' = [next EXCEPT ![r] = next[r] + 1]
  BY DEF Return, Returns
<1>4. next' \in [Ranks -> 1 .. Len(program) + 1]
  BY <1>2, <1>3 DEF TypeOK
<1>5. \A s \in Ranks : next[s] <= next'[s]
  BY <1>2, <1>3 DEF TypeOK
<1>6. phase' \in [Ranks -> Phases]
  <2>1. "idle" \in Phases
    BY DEF Phases
  <2> QED BY <2>1, PhaseStays DEF Return, Returns
<1> QED BY <1>4, <1>5, <1>6, ModelStays DEF Return, model, TypeOK

LEMMA CollectiveStep ==
  ASSUME TypeOK, EnterFarDot \/ Sum \/ Compare
  PROVE  TypeOK'
<1>1. {"far", "check", "back"} \subseteq Phases
  BY DEF Phases
<1>2. CASE EnterFarDot
  BY <1>1, <1>2, CallStays, PhaseStays DEF EnterFarDot, model, products
<1>3. CASE Sum
  <2>1. phase' \in [Ranks -> Phases]
    BY <1>1, <1>3 DEF Sum, AfterSum
  <2> QED BY <1>3, <2>1, CallStays DEF Sum, model
<1>4. CASE Compare
  <2>1. phase' \in [Ranks -> Phases]
    BY <1>1, <1>4, PhaseStays DEF Compare
  <2>2. report' \in [Ranks -> {"none", "same", "differs", "undefined"}]
    <3>1. \A r \in Ranks : Report(r, SumOf(check)) \in {"none", "same", "differs", "undefined"}
      BY DEF Report
    <3> QED BY <1>4, <3>1 DEF Compare
  <2>3. \A r \in Ranks : next[r] <= next[r]
    BY CallType
  <2> QED BY <1>4, <2>1, <2>2, <2>3, ModelStays DEF Compare, model, TypeOK
<1> QED BY <1>2, <1>3, <1>4

\* A step that enters no call stays in one it is in.
LEMMA InCallStays ==
  ASSUME InCall, program' = program, next' = next,
         \A r \in Ranks :
           \/ phase'[r] \in {"idle", "lost"}
           \/ phase[r] \notin {"idle", "lost"}
           \/ next[r] \in DOMAIN program
  PROVE  InCall'
  BY DEF InCall

\* A rank that returns is in no call; the others are where they were.
LEMMA InCallReturns ==
  ASSUME TypeOK, InCall, NEW r \in Ranks, Returns(r), program' = program
  PROVE  InCall'
<1>1. phase'[r] = "idle" /\ \A s \in Ranks : s # r => phase'[s] = phase[s] /\ next'[s] = next[s]
  BY DEF Returns, Goto, TypeOK
<1> QED BY <1>1 DEF InCall

LEMMA InCallGoes ==
  ASSUME TypeOK, InCall, NEW r \in Ranks, NEW where, Goto(r, where),
         UNCHANGED <<program, next>>,
         next[r] \in DOMAIN program \/ phase[r] \notin {"idle", "lost"}
  PROVE  InCall'
<1>1. \A s \in Ranks : s # r => phase'[s] = phase[s]
  BY DEF Goto, TypeOK
<1> QED BY <1>1, InCallStays

\* A call that starts is in the program, and a product goes on in its call.
LEMMA EnterInCall ==
  ASSUME TypeOK, InCall, NEW r \in Ranks, NEW op, NEW first, EnterProduct(r, op, first)
  PROVE  InCall'
<1>1. CASE Lost
  <2>1. \A s \in Ranks : phase'[s] = "lost"
    BY <1>1 DEF Lost
  <2> QED BY <1>1, <2>1, InCallStays DEF Lost
<1>2. CASE Goto(r, first) /\ UNCHANGED <<program, next>>
  <2>1. next[r] \in DOMAIN program
    BY DEF EnterProduct, Calls
  <2> QED BY <1>2, <2>1, InCallGoes
<1> QED BY <1>1, <1>2 DEF EnterProduct

LEMMA ProductInCall ==
  ASSUME TypeOK, InCall, NEW r \in Ranks,
         CloseDot(r) \/ FarDot(r) \/ DenseDot(r) \/ PostCheckDot(r)
  PROVE  InCall'
<1>1. CASE Lost
  <2>1. \A s \in Ranks : phase'[s] = "lost"
    BY <1>1 DEF Lost
  <2> QED BY <1>1, <2>1, InCallStays DEF Lost
<1>2. ASSUME NEW where, Goto(r, where), UNCHANGED <<program, next>>,
             phase[r] \in {"close", "far", "dense", "check"}
      PROVE  InCall'
  BY <1>2, InCallGoes
<1> QED BY <1>1, <1>2 DEF CloseDot, FarDot, DenseDot, PostCheckDot

\* A collective is entered by ranks that are all in a call.
LEMMA CollectiveInCall ==
  ASSUME TypeOK, InCall, Collective
  PROVE  InCall'
<1>1. CASE Update
  <2>1. \A r \in Ranks : phase'[r] \in {"idle", "lost"}
    BY <1>1 DEF Update, Together
  <2> QED BY <2>1 DEF InCall
<1>2. CASE EnterFarDot \/ Sum \/ Compare
  <2>1. program' = program /\ next' = next
    BY <1>2 DEF EnterFarDot, Sum, Compare
  <2>2. \A r \in Ranks : phase[r] \notin {"idle", "lost"}
    BY <1>2 DEF EnterFarDot, Sum, Compare, Together
  <2> QED BY <2>1, <2>2, InCallStays
<1> QED BY <1>1, <1>2 DEF Collective

IInv == TypeOK /\ InCall

LEMMA InitInv == Init => IInv
<1> SUFFICES ASSUME Init PROVE IInv
  OBVIOUS
<1>1. program \in Programs /\ Len(program) \in Nat
  BY ModelAssumption DEF Init
<1>2. next \in [Ranks -> 1 .. Len(program) + 1]
  <2>1. 1 \in 1 .. Len(program) + 1
    BY <1>1
  <2> QED BY <2>1 DEF Init
<1>3. Defaults \in Settings
  BY DEF Defaults, Settings
<1>4. Positions = Particles
  BY DEF Positions, Particles
<1>5. [p \in Positions |-> <<0, p>>] \in [Positions -> Nat \X Particles]
  BY <1>4
<1>6. coord \in [Ranks -> [Positions -> Nat \X Particles]]
  BY <1>5 DEF Init
<1>7. \A r \in Ranks : \E k \in 0 .. next[r] : PassedBy(k, coord[r])
  <2> SUFFICES ASSUME NEW r \in Ranks PROVE \E k \in 0 .. next[r] : PassedBy(k, coord[r])
    OBVIOUS
  <2>1. next[r] = 1 /\ 0 \in 0 .. 1
    BY DEF Init
  <2>2. PassedBy(0, coord[r])
    <3>1. coord[r] = [p \in Positions |-> <<0, p>>]
      BY DEF Init
    <3> QED BY <3>1, <1>4 DEF PassedBy
  <2> QED BY <2>1, <2>2
<1>8. Shapes
  BY <1>1, <1>2, <1>3, <1>6 DEF Init, Shapes, Phases
<1>9. InCall
  BY DEF Init, InCall
<1> QED BY <1>7, <1>8, <1>9, TypeParts DEF IInv, Passed

\* Each action keeps the invariant.
LEMMA RankStepInv == ASSUME IInv, NEW r \in Ranks, RankStep(r) PROVE IInv'
<1> USE DEF IInv
<1>1. CASE Set(r)
  <2>1. InCall'
    BY <1>1, InCallReturns DEF Set
  <2> QED BY <1>1, <2>1, SetStep
<1>2. CASE UpdateCoord(r)
  <2>1. Goto(r, "update") /\ UNCHANGED <<program, next>> /\ next[r] \in DOMAIN program
    BY <1>2 DEF UpdateCoord, Calls
  <2>2. InCall'
    BY <2>1, InCallGoes
  <2> QED BY <1>2, <2>2, UpdateCoordStep
<1>3. CASE EnterProduct(r, "dot", "close") \/ EnterProduct(r, "dense_dot", "dense")
  <2>1. "close" \in Phases /\ "dense" \in Phases
    BY DEF Phases
  <2>2. TypeOK'
    BY <1>3, <2>1, EnterStep
  <2>3. InCall'
    BY <1>3, EnterInCall
  <2> QED BY <2>2, <2>3
<1>4. CASE CloseDot(r) \/ FarDot(r) \/ DenseDot(r) \/ PostCheckDot(r)
  BY <1>4, ProductStep, ProductInCall
<1>5. CASE Spin(r)
  BY <1>5, CallStays DEF Spin, vars, model, products, TypeOK, InCall
<1>6. CASE Return(r)
  <2>1. InCall'
    BY <1>6, InCallReturns DEF Return
  <2> QED BY <1>6, <2>1, ReturnStep
<1> QED BY <1>1, <1>2, <1>3, <1>4, <1>5, <1>6 DEF RankStep

LEMMA StutterInv == IInv /\ UNCHANGED vars => IInv'
<1> SUFFICES ASSUME IInv, UNCHANGED vars PROVE IInv'
  OBVIOUS
<1>1. TypeOK'
  BY CallStays DEF IInv, vars, model, products, TypeOK
<1>2. InCall'
  BY DEF IInv, InCall, vars
<1> QED BY <1>1, <1>2 DEF IInv

LEMMA NextInv == IInv /\ [Next]_vars => IInv'
<1> SUFFICES ASSUME IInv, [Next]_vars PROVE IInv'
  OBVIOUS
<1>1. CASE \E r \in Ranks : RankStep(r)
  BY <1>1, RankStepInv
<1>2. CASE Collective
  BY <1>2, UpdateStep, CollectiveStep, CollectiveInCall DEF IInv, Collective
<1>3. CASE Stop \/ UNCHANGED vars
  BY <1>3, StutterInv DEF Stop
<1> QED BY <1>1, <1>2, <1>3 DEF Next

\* After any calls, on any number of ranks, every variable has its type: the
\* map is an order of all particles, and the coordinates a rank has are those
\* of all particles, all of one call, however often they were overwritten,
\* reordered or read halfway (UpdateCoord, Reorder).
THEOREM TypeCorrect == Spec => []TypeOK
<1>1. IInv => TypeOK
  BY DEF IInv
<1> QED BY <1>1, InitInv, NextInv, PTL DEF Spec

-----------------------------------------------------------------------------
(* The least of a set *)

\* Every non-empty set of naturals has a least element.
LEMMA LeastNumber ==
  ASSUME NEW S \in SUBSET Nat, S # {}
  PROVE  \E m \in S : \A x \in S : m <= x
<1>1. PICK m \in S : \A x \in S : ~ (<<x, m>> \in OpToRel(<, Nat))
  BY WFMin, NatLessThanWellFounded
<1>2. \A x \in S : ~ (x < m)
  BY <1>1 DEF OpToRel
<1> QED BY <1>2

-----------------------------------------------------------------------------
(* Rows of terms *)

\* The bags of disjoint sets add up to that of their union.
LEMMA BagOfDisjoint ==
  ASSUME NEW S, NEW T, S \cap T = {}
  PROVE  SetToBag(S) (+) SetToBag(T) = SetToBag(S \cup T)
<1>1. SetToBag(S) (+) SetToBag(T)
        = [e \in S \cup T |-> (IF e \in S THEN 1 ELSE 0) + (IF e \in T THEN 1 ELSE 0)]
  BY DEF SetToBag, (+)
<1>2. \A e \in S \cup T : (IF e \in S THEN 1 ELSE 0) + (IF e \in T THEN 1 ELSE 0) = 1
  OBVIOUS
<1> QED BY <1>1, <1>2 DEF SetToBag

\* The coordinates of call k in the order of a map, and the term of position p
\* from position q at them.
Ordered(k, m) == [p \in Positions |-> <<k, m[p]>>]
Entry(k, m, p, q) == <<<<k, m[p]>>, <<k, m[q]>>, m[q]>>
RowOf(p, E) == {q \in Positions : <<p, q>> \in E}
EntriesOf(k, m, p, E) == {Entry(k, m, p, q) : q \in RowOf(p, E)}

\* The velocities that have each of the given entries once.
RowsOf(k, m, E) == [p \in Positions |-> SetToBag(EntriesOf(k, m, p, E))]

\* The velocities and their terms apart from the variables.
TermOf(c, m, p, q) == <<c[p], c[q], Reorder(m, [a \in Particles |-> a])[q]>>
PlusOf(c, m, velocities, E) ==
  [p \in Positions |->
     velocities[p] (+) SetToBag({TermOf(c, m, p, q) : q \in {q \in Positions : <<p, q>> \in E}})]

\* What a rank adds is what its coordinates and its map make.
LEMMA PlusIsPlusOf ==
  ASSUME NEW r, NEW v, NEW E
  PROVE  Plus(r, v, E) = PlusOf(coord[r], map[r], v, E)
BY DEF Plus, PlusOf, Term, TermOf, Forces

\* Different entries have different terms.
LEMMA EntriesApart ==
  ASSUME NEW k, NEW m \in Orders, NEW p \in Positions, NEW D, NEW E, D \cap E = {}
  PROVE  /\ EntriesOf(k, m, p, D) \cap EntriesOf(k, m, p, E) = {}
         /\ EntriesOf(k, m, p, D) \cup EntriesOf(k, m, p, E) = EntriesOf(k, m, p, D \cup E)
<1>1. RowOf(p, D) \cap RowOf(p, E) = {} /\ RowOf(p, D) \cup RowOf(p, E) = RowOf(p, D \cup E)
  BY DEF RowOf
<1>2. \A i, j \in Positions : Entry(k, m, p, i) = Entry(k, m, p, j) => i = j
  BY OrderIsInjective DEF Entry
<1>3. \A x : RowOf(p, x) \subseteq Positions
  BY DEF RowOf
<1>4. EntriesOf(k, m, p, D) \cap EntriesOf(k, m, p, E) = {}
  BY <1>1, <1>2, <1>3 DEF EntriesOf
<1>5. EntriesOf(k, m, p, D) \cup EntriesOf(k, m, p, E) = EntriesOf(k, m, p, D \cup E)
  BY <1>1 DEF EntriesOf
<1> QED BY <1>4, <1>5

\* At ordered coordinates the terms are entries.
LEMMA TermsAreEntries ==
  ASSUME NEW k, NEW m \in Orders, NEW p \in Positions, NEW E
  PROVE  {TermOf(Ordered(k, m), m, p, q) : q \in {q \in Positions : <<p, q>> \in E}}
           = EntriesOf(k, m, p, E)
<1>1. Particles = Positions
  BY DEF Particles, Positions
<1>2. m \in [Positions -> Positions]
  BY <1>1 DEF Orders
<1>3. \A q \in Positions : Reorder(m, [a \in Particles |-> a])[q] = m[q]
  BY <1>1, <1>2 DEF Reorder
<1>4. \A q \in Positions : TermOf(Ordered(k, m), m, p, q) = Entry(k, m, p, q)
  BY <1>3 DEF TermOf, Ordered, Entry
<1> QED BY <1>4 DEF EntriesOf, RowOf

\* Adding further entries to velocities that have each of some entries once.
LEMMA PlusRows ==
  ASSUME NEW k, NEW m \in Orders, NEW D, NEW E, D \cap E = {}
  PROVE  PlusOf(Ordered(k, m), m, RowsOf(k, m, D), E) = RowsOf(k, m, D \cup E)
<1> DEFINE v == RowsOf(k, m, D)
<1>1. \A p \in Positions :
        v[p] (+) SetToBag({TermOf(Ordered(k, m), m, p, q) :
                             q \in {q \in Positions : <<p, q>> \in E}})
          = SetToBag(EntriesOf(k, m, p, D \cup E))
  <2> TAKE p \in Positions
  <2>1. v[p] = SetToBag(EntriesOf(k, m, p, D))
    BY DEF RowsOf
  <2>2. SetToBag(EntriesOf(k, m, p, D)) (+) SetToBag(EntriesOf(k, m, p, E))
          = SetToBag(EntriesOf(k, m, p, D) \cup EntriesOf(k, m, p, E))
    <3>1. EntriesOf(k, m, p, D) \cap EntriesOf(k, m, p, E) = {}
      BY EntriesApart
    <3> QED BY <3>1, BagOfDisjoint, Zenon
  <2>3. EntriesOf(k, m, p, D) \cup EntriesOf(k, m, p, E) = EntriesOf(k, m, p, D \cup E)
    BY EntriesApart
  <2>4. {TermOf(Ordered(k, m), m, p, q) : q \in {q \in Positions : <<p, q>> \in E}}
          = EntriesOf(k, m, p, E)
    BY TermsAreEntries
  <2> HIDE DEF v
  <2> QED BY <2>1, <2>2, <2>3, <2>4, Zenon
<1> HIDE DEF v
<1>2. PlusOf(Ordered(k, m), m, v, E) = RowsOf(k, m, D \cup E)
  BY <1>1 DEF PlusOf, RowsOf
<1> QED BY <1>2 DEF v

\* Velocities start as the rows of no entries.
LEMMA NoRows ==
  ASSUME NEW k, NEW m
  PROVE  Nothing = RowsOf(k, m, {})
<1>1. \A p \in Positions : EntriesOf(k, m, p, {}) = {}
  BY DEF EntriesOf, RowOf
<1>2. EmptyBag = SetToBag({})
  BY DEF EmptyBag
<1> QED BY <1>1, <1>2 DEF Nothing, RowsOf

\* The velocities of the ranks up to a rank, added up, as SumOf adds them.
Upto(velocities, n, sum) ==
  sum = [r \in -1 .. n |->
           IF r < 0 THEN Nothing ELSE [p \in Positions |-> sum[r - 1][p] (+) velocities[r][p]]]

\* Sums up to a rank go on to the next rank.
LEMMA UptoNext ==
  ASSUME NEW v, NEW n \in Nat, NEW f, Upto(v, n, f)
  PROVE  \E g : Upto(v, n + 1, g)
<1> DEFINE g == [r \in -1 .. n + 1 |->
                   IF r < 0 THEN Nothing ELSE [p \in Positions |-> f[r - 1][p] (+) v[r][p]]]
<1>1. \A r \in -1 .. n : f[r] = IF r < 0 THEN Nothing
                                ELSE [p \in Positions |-> f[r - 1][p] (+) v[r][p]]
  BY DEF Upto
<1>2. \A r \in -1 .. n : g[r] = f[r]
  <2> TAKE r \in -1 .. n
  <2>1. r \in -1 .. n + 1
    OBVIOUS
  <2>2. g[r] = IF r < 0 THEN Nothing ELSE [p \in Positions |-> f[r - 1][p] (+) v[r][p]]
    BY <2>1
  <2> QED BY <1>1, <2>2
<1>3. g = [r \in -1 .. n + 1 |->
             IF r < 0 THEN Nothing ELSE [p \in Positions |-> g[r - 1][p] (+) v[r][p]]]
  <2>1. \A r \in -1 .. n + 1 : r < 0 \/ g[r - 1] = f[r - 1]
    <3> TAKE r \in -1 .. n + 1
    <3>1. r < 0 \/ r - 1 \in -1 .. n
      OBVIOUS
    <3> HIDE DEF g
    <3> QED BY <3>1, <1>2
  <2> DEFINE A(r) == IF r < 0 THEN Nothing ELSE [p \in Positions |-> f[r - 1][p] (+) v[r][p]]
             B(r) == IF r < 0 THEN Nothing ELSE [p \in Positions |-> g[r - 1][p] (+) v[r][p]]
  <2>2. \A r \in -1 .. n + 1 : A(r) = B(r)
    <3> HIDE DEF g
    <3> QED BY <2>1
  <2>3. g = [r \in -1 .. n + 1 |-> A(r)]
    OBVIOUS
  <2> HIDE DEF A, B, g
  <2>4. g = [r \in -1 .. n + 1 |-> B(r)]
    BY <2>2, <2>3
  <2> QED BY <2>4 DEF B
<1> QED BY <1>3 DEF Upto

\* There are sums up to every rank.
LEMMA UptoExists ==
  ASSUME NEW v, NEW n \in Nat
  PROVE  \E f : Upto(v, n, f)
<1> DEFINE A == {i \in Nat : ~ \E f : Upto(v, i, f)}
<1> SUFFICES ASSUME A # {} PROVE FALSE
  OBVIOUS
<1>1. PICK l \in A : \A x \in A : l <= x
  <2>1. A \in SUBSET Nat
    OBVIOUS
  <2> HIDE DEF A
  <2> QED BY <2>1, LeastNumber
<1>2. l \in Nat /\ ~ \E f : Upto(v, l, f)
  BY <1>1
<1>3. CASE l = 0
  <2> DEFINE z == [p \in Positions |-> Nothing[p] (+) v[0][p]]
             f == [r \in -1 .. 0 |-> IF r < 0 THEN Nothing ELSE z]
  <2>1. f[-1] = Nothing
    OBVIOUS
  <2>2. [r \in -1 .. 0 |-> IF r < 0 THEN Nothing ELSE [p \in Positions |-> f[r - 1][p] (+) v[r][p]]]
         = f
    <3>1. \A r \in -1 .. 0 : r < 0 \/ (r = 0 /\ f[r - 1] = Nothing)
      <4> HIDE DEF f
      <4> QED BY <2>1
    <3> DEFINE B(r) == IF r < 0 THEN Nothing ELSE [p \in Positions |-> f[r - 1][p] (+) v[r][p]]
    <3>2. \A r \in -1 .. 0 : B(r) = IF r < 0 THEN Nothing ELSE z
      <4> HIDE DEF f
      <4> QED BY <3>1
    <3> HIDE DEF B, z
    <3>3. [r \in -1 .. 0 |-> B(r)] = f
      BY <3>2
    <3> QED BY <3>3 DEF B
  <2> HIDE DEF f
  <2>3. Upto(v, 0, f)
    BY <2>2 DEF Upto
  <2> QED BY <1>2, <1>3, <2>3
<1>4. CASE l # 0
  <2> DEFINE j == l - 1
  <2>1. j \in Nat /\ j + 1 = l /\ ~ (l <= j)
    BY <1>2, <1>4
  <2> HIDE DEF j
  <2>2. PICK f : Upto(v, j, f)
    BY <1>1, <2>1
  <2>3. \E g : Upto(v, j + 1, g)
    BY <2>1, <2>2, UptoNext
  <2> QED BY <2>1, <2>3, <1>2
<1> QED BY <1>3, <1>4

\* The sum is the last of the sums up to a rank.
LEMMA SumIsLast ==
  ASSUME NEW v
  PROVE  \E f : Upto(v, MPISize - 1, f) /\ SumOf(v) = f[MPISize - 1]
<1>1. MPISize - 1 \in Nat
  BY ModelAssumption
<1> DEFINE f == CHOOSE sum : Upto(v, MPISize - 1, sum)
<1>2. Upto(v, MPISize - 1, f)
  <2>1. \E g : Upto(v, MPISize - 1, g)
    BY <1>1, UptoExists
  <2> QED BY <2>1
<1>3. SumOf(v) = f[MPISize - 1]
  BY DEF SumOf, Upto
<1> QED BY <1>2, <1>3

\* If the ranks hold velocities of different entries, each once, their sum holds
\* all of the entries, each once.
LEMMA SumRows ==
  ASSUME NEW k, NEW m \in Orders, NEW v, NEW own \in [Ranks -> SUBSET AllPairs],
         \A r \in Ranks : v[r] = RowsOf(k, m, own[r]),
         \A r, s \in Ranks : r # s => own[r] \cap own[s] = {}
  PROVE  SumOf(v) = RowsOf(k, m, UNION {own[r] : r \in Ranks})
<1> DEFINE before(n) == UNION {own[r] : r \in {s \in Ranks : s <= n}}
<1>0. MPISize \in Nat \ {0} /\ Ranks \subseteq Int
  BY ModelAssumption DEF Ranks
<1>1. PICK f : Upto(v, MPISize - 1, f) /\ SumOf(v) = f[MPISize - 1]
  BY SumIsLast
<1>2. \A r \in -1 .. MPISize - 1 : f[r] = IF r < 0 THEN Nothing
                                ELSE [p \in Positions |-> f[r - 1][p] (+) v[r][p]]
  BY <1>1 DEF Upto
<1>3. f[-1] = RowsOf(k, m, before(-1))
  <2>1. before(-1) = {}
    BY DEF Ranks
  <2>2. -1 \in -1 .. MPISize - 1 /\ -1 < 0
    BY <1>0
  <2> HIDE DEF before
  <2> QED BY <2>1, <2>2, <1>2, NoRows
<1>4. ASSUME NEW r \in Ranks, f[r - 1] = RowsOf(k, m, before(r - 1))
      PROVE  f[r] = RowsOf(k, m, before(r))
  <2>1. r \in -1 .. MPISize - 1 /\ ~ (r < 0)
    BY <1>0 DEF Ranks
  <2>2. f[r] = [p \in Positions |-> f[r - 1][p] (+) v[r][p]]
    BY <2>1, <1>2
  <2>3. before(r - 1) \cap own[r] = {} /\ before(r - 1) \cup own[r] = before(r)
    <3>1. {s \in Ranks : s <= r} = {s \in Ranks : s <= r - 1} \cup {r}
      <4>1. \A s \in Ranks : s <= r <=> (s <= r - 1 \/ s = r)
        BY <1>0
      <4> QED BY <4>1
    <3>2. \A s \in {s \in Ranks : s <= r - 1} : s \in Ranks /\ s # r
      BY <1>0
    <3> QED BY <3>1, <3>2
  <2> HIDE DEF before
  <2>4. \A p \in Positions : f[r - 1][p] (+) v[r][p] = SetToBag(EntriesOf(k, m, p, before(r)))
    <3> TAKE p \in Positions
    <3>1. f[r - 1][p] = SetToBag(EntriesOf(k, m, p, before(r - 1)))
      BY <1>4 DEF RowsOf
    <3>2. v[r][p] = SetToBag(EntriesOf(k, m, p, own[r]))
      BY DEF RowsOf
    <3>3. EntriesOf(k, m, p, before(r - 1)) \cap EntriesOf(k, m, p, own[r]) = {}
      BY <2>3, EntriesApart
    <3>4. EntriesOf(k, m, p, before(r - 1)) \cup EntriesOf(k, m, p, own[r])
            = EntriesOf(k, m, p, before(r))
      BY <2>3, EntriesApart
    <3> QED BY <3>1, <3>2, <3>3, <3>4, BagOfDisjoint, Zenon
  <2> QED BY <2>2, <2>4 DEF RowsOf
<1>5. \A r \in Ranks : f[r] = RowsOf(k, m, before(r))
  <2> DEFINE A == {i \in Ranks : f[i] # RowsOf(k, m, before(i))}
  <2> SUFFICES ASSUME A # {} PROVE FALSE
    OBVIOUS
  <2>1. PICK l \in A : \A x \in A : l <= x
    <3>1. A \in SUBSET Nat
      BY DEF Ranks
    <3> HIDE DEF A
    <3> QED BY <3>1, LeastNumber
  <2>2. l \in Ranks /\ l \in Int
    BY <2>1, <1>0
  <2>3. f[l - 1] = RowsOf(k, m, before(l - 1))
    <3> HIDE DEF before
    <3>1. CASE l = 0
      BY <3>1, <1>3
    <3>2. CASE l # 0
      <4>1. l - 1 \in Ranks /\ ~ (l <= l - 1)
        BY <1>0, <2>2, <3>2 DEF Ranks
      <4> QED BY <4>1, <2>1
    <3> QED BY <3>1, <3>2
  <2> HIDE DEF before
  <2> QED BY <2>1, <2>2, <2>3, <1>4
<1>6. MPISize - 1 \in Ranks /\ {s \in Ranks : s <= MPISize - 1} = Ranks
  BY <1>0 DEF Ranks
<1> QED BY <1>1, <1>5, <1>6

\* A sum has a bag at each position.
LEMMA SumIsVelocities ==
  ASSUME NEW v
  PROVE  \E w : SumOf(v) = [p \in Positions |-> w[p]]
<1>1. PICK f : Upto(v, MPISize - 1, f) /\ SumOf(v) = f[MPISize - 1]
  BY SumIsLast
<1>2. MPISize - 1 \in -1 .. MPISize - 1 /\ ~ (MPISize - 1 < 0)
  BY ModelAssumption
<1> DEFINE B(p) == f[MPISize - 1 - 1][p] (+) v[MPISize - 1][p]
           w == [p \in Positions |-> B(p)]
<1>3. SumOf(v) = [p \in Positions |-> B(p)]
  BY <1>1, <1>2 DEF Upto
<1> HIDE DEF B
<1>4. SumOf(v) = [p \in Positions |-> w[p]]
  BY <1>3
<1> QED BY <1>4

-----------------------------------------------------------------------------
(* The pairs are dealt *)

\* What each rank has of the pairs C: every pair that is kept is at one rank,
\* and no other pair is at any.
IsDeal(own, C, symmetry) ==
  /\ own \in [Ranks -> SUBSET AllPairs]
  /\ \A r \in Ranks : \A e \in own[r] : e \in C /\ Kept(symmetry, e)
  /\ \A e \in C : Kept(symmetry, e) => \E r \in Ranks : e \in own[r]
  /\ \A r, s \in Ranks : \A e \in own[r] : e \in own[s] => r = s

\* A pair is two positions, and positions are numbers.
LEMMA PairType ==
  /\ Positions \subseteq Int
  /\ \A e \in AllPairs : /\ e = <<e[1], e[2]>> /\ e[1] \in Positions /\ e[2] \in Positions
                         /\ e[1] \in Int /\ e[2] \in Int
<1>1. Positions \subseteq Int
  BY DEF Positions
<1>2. \A e \in AllPairs : e = <<e[1], e[2]>> /\ e[1] \in Positions /\ e[2] \in Positions
  <2> TAKE e \in AllPairs
  <2>1. PICK x \in Positions, y \in Positions : e = <<x, y>>
    BY DEF AllPairs
  <2> QED BY <2>1
<1> QED BY <1>1, <1>2

\* A pair has a place among others, and the place has a rank.
LEMMA PlaceType ==
  ASSUME NEW C \in SUBSET AllPairs, NEW e
  PROVE  Place(C, e) \in Nat /\ Place(C, e) % MPISize \in Ranks
<1>1. IsFiniteSet(AllPairs)
  <2>1. 0 \in Int /\ N - 1 \in Int
    BY ModelAssumption
  <2>2. IsFiniteSet(Positions)
    BY <2>1, FS_Interval DEF Positions
  <2> QED BY <2>2, FS_Product DEF AllPairs
<1>2. IsFiniteSet({other \in C : Before(other, e)})
  <2>1. {other \in C : Before(other, e)} \in SUBSET AllPairs
    OBVIOUS
  <2> QED BY <1>1, <2>1, FS_Subset
<1>3. Place(C, e) \in Nat
  BY <1>2, FS_CardinalityType DEF Place
<1> QED BY <1>3, ModelAssumption DEF Ranks

\* The close pairs are dealt, though the counter skips places.
LEMMA CloseIsDeal ==
  ASSUME NEW C \in SUBSET AllPairs, NEW symmetry
  PROVE  IsDeal([r \in Ranks |-> DealtClose(r, C, symmetry)], C, symmetry)
<1> DEFINE own == [r \in Ranks |-> DealtClose(r, C, symmetry)]
<1>1. \A r \in Ranks : own[r] = {e \in C : Place(C, e) % MPISize = r /\ Kept(symmetry, e)}
  BY DEF DealtClose
<1>2. own \in [Ranks -> SUBSET AllPairs]
  BY DEF DealtClose
<1> HIDE DEF own
<1>3. \A e \in C : Kept(symmetry, e) => \E r \in Ranks : e \in own[r]
  BY <1>1, PlaceType
<1> QED BY <1>1, <1>2, <1>3 DEF IsDeal, own

\* The far pairs are dealt.
LEMMA FarIsDeal ==
  ASSUME NEW C \in SUBSET AllPairs, NEW symmetry
  PROVE  IsDeal([r \in Ranks |-> DealtFar(r, C, symmetry)], C, symmetry)
<1> DEFINE kept == {e \in C : Kept(symmetry, e)}
<1>1. IsDeal([r \in Ranks |-> DealtClose(r, kept, symmetry)], kept, symmetry)
  BY CloseIsDeal
<1>2. \A r \in Ranks : DealtFar(r, C, symmetry) = DealtClose(r, kept, symmetry)
  BY DEF DealtFar
<1>3. [r \in Ranks |-> DealtFar(r, C, symmetry)] = [r \in Ranks |-> DealtClose(r, kept, symmetry)]
  BY <1>2
<1> DEFINE own == [r \in Ranks |-> DealtClose(r, kept, symmetry)]
<1> HIDE DEF own
<1>4. IsDeal(own, kept, symmetry) => IsDeal(own, C, symmetry)
  BY DEF IsDeal
<1> QED BY <1>1, <1>3, <1>4 DEF own

\* The pairs on the other side of the diagonal.
MirrorOf(symmetry, D) ==
  IF symmetry THEN {<<pair[2], pair[1]>> : pair \in {pair \in D : pair[2] > pair[1]}} ELSE {}
MirrorFarOf(symmetry, D) ==
  IF symmetry THEN {<<pair[2], pair[1]>> : pair \in D} ELSE {}

\* With the mirrors every pair is at one rank, and once there.
WithMirrors(own, C, symmetry) ==
  /\ \A r \in Ranks : own[r] \cap MirrorOf(symmetry, own[r]) = {}
  /\ \A r \in Ranks : own[r] \cup MirrorOf(symmetry, own[r]) \subseteq C
  /\ \A r, s \in Ranks : r # s =>
       (own[r] \cup MirrorOf(symmetry, own[r])) \cap (own[s] \cup MirrorOf(symmetry, own[s])) = {}
  /\ UNION {own[r] \cup MirrorOf(symmetry, own[r]) : r \in Ranks} = C

BothSides(C) == \A e \in C : <<e[2], e[1]>> \in C

\* So it is under either flag.
LEMMA WholeDeal ==
  ASSUME NEW C \in SUBSET AllPairs, BothSides(C),
         NEW own, NEW symmetry \in BOOLEAN, IsDeal(own, C, symmetry)
  PROVE  WithMirrors(own, C, symmetry)
<1> USE DEF BothSides
<1> DEFINE all(r) == own[r] \cup MirrorOf(symmetry, own[r])
<1>1. CASE ~symmetry
  <2>1. \A r : all(r) = own[r] /\ MirrorOf(symmetry, own[r]) = {}
    BY <1>1 DEF MirrorOf
  <2> HIDE DEF all
  <2>2. /\ \A r \in Ranks : all(r) \subseteq C
        /\ \A r, s \in Ranks : r # s => all(r) \cap all(s) = {}
        /\ \A e \in C : \E r \in Ranks : e \in all(r)
    BY <1>1, <2>1 DEF IsDeal, Kept
  <2>3. UNION {all(r) : r \in Ranks} = C
    BY <2>2
  <2> QED BY <2>1, <2>2, <2>3 DEF all, WithMirrors
<1>2. CASE symmetry
  <2>0. \A r \in Ranks : \A e \in own[r] :
          /\ e \in C /\ e = <<e[1], e[2]>> /\ e[2] >= e[1] /\ e[1] \in Int /\ e[2] \in Int
    BY <1>2, PairType DEF IsDeal, Kept
  <2>1. \A r \in Ranks : \A x, y : <<x, y>> \in MirrorOf(symmetry, own[r])
                                     <=> <<y, x>> \in own[r] /\ x > y
    <3> TAKE r \in Ranks
    <3> TAKE x, y
    <3>1. <<x, y>> \in MirrorOf(symmetry, own[r])
            <=> \E e \in own[r] : e[2] > e[1] /\ <<x, y>> = <<e[2], e[1]>>
      BY <1>2 DEF MirrorOf
    <3>2. ASSUME NEW e \in own[r], e[2] > e[1], <<x, y>> = <<e[2], e[1]>>
          PROVE  <<y, x>> \in own[r] /\ x > y
      BY <3>2, <2>0
    <3>3. ASSUME <<y, x>> \in own[r], x > y
          PROVE  \E e \in own[r] : e[2] > e[1] /\ <<x, y>> = <<e[2], e[1]>>
      BY <3>3
    <3> QED BY <3>1, <3>2, <3>3
  <2>2. \A r \in Ranks : \A e \in MirrorOf(symmetry, own[r]) : e = <<e[1], e[2]>>
    BY <1>2 DEF MirrorOf
  <2>3. \A r \in Ranks : \A e \in all(r) :
          /\ e = <<e[1], e[2]>> /\ e \in C
          /\ \/ e \in own[r] /\ e[2] >= e[1]
             \/ <<e[2], e[1]>> \in own[r] /\ e[1] > e[2] /\ e \notin own[r]
    <3> TAKE r \in Ranks
    <3> TAKE e \in all(r)
    <3>1. CASE e \in own[r]
      BY <3>1, <2>0
    <3>2. CASE e \in MirrorOf(symmetry, own[r])
      <4>1. e = <<e[1], e[2]>>
        BY <3>2, <2>2
      <4>2. <<e[2], e[1]>> \in own[r] /\ e[1] > e[2]
        BY <3>2, <4>1, <2>1
      <4>3. <<<<e[2], e[1]>>[2], <<e[2], e[1]>>[1]>> \in C
        BY <4>2, <2>0
      <4>4. e \in C
        BY <4>1, <4>3
      <4>5. e[1] \in Int /\ e[2] \in Int
        BY <4>4, PairType
      <4> QED BY <4>1, <4>2, <4>4, <4>5, <2>0
    <3> QED BY <3>1, <3>2
  <2>4. \A r \in Ranks : own[r] \cap MirrorOf(symmetry, own[r]) = {}
    <3> SUFFICES ASSUME NEW r \in Ranks, NEW e \in own[r], e \in MirrorOf(symmetry, own[r])
                 PROVE  FALSE
      OBVIOUS
    <3>1. e = <<e[1], e[2]>> /\ e[2] >= e[1] /\ e[1] \in Int /\ e[2] \in Int
      BY <2>0
    <3>2. e[1] > e[2]
      BY <3>1, <2>1
    <3> QED BY <3>1, <3>2
  <2>5. \A r, s \in Ranks : \A e \in all(r) : e \in all(s) => r = s
    <3> SUFFICES ASSUME NEW r \in Ranks, NEW s \in Ranks, NEW e \in all(r), e \in all(s)
                 PROVE  r = s
      OBVIOUS
    <3>1. e \in C /\ e[1] \in Int /\ e[2] \in Int
      BY <2>3, PairType
    <3>2. CASE e[2] >= e[1]
      <4>0. ~ (e[1] > e[2])
        BY <3>1, <3>2
      <4>1. e \in own[r] /\ e \in own[s]
        BY <2>3, <4>0
      <4> QED BY <4>1 DEF IsDeal
    <3>3. CASE ~ (e[2] >= e[1])
      <4>1. <<e[2], e[1]>> \in own[r] /\ <<e[2], e[1]>> \in own[s]
        BY <2>3, <3>1, <3>3
      <4> QED BY <4>1 DEF IsDeal
    <3> QED BY <3>2, <3>3
  <2>6. \A e \in C : \E r \in Ranks : e \in all(r)
    <3> TAKE e \in C
    <3>1. e = <<e[1], e[2]>> /\ e[1] \in Int /\ e[2] \in Int /\ <<e[2], e[1]>> \in C
      BY PairType
    <3>2. CASE e[2] >= e[1]
      BY <3>2, <1>2 DEF IsDeal, Kept
    <3>3. CASE e[1] > e[2]
      <4>1. Kept(symmetry, <<e[2], e[1]>>)
        BY <3>1, <3>3 DEF Kept
      <4>2. PICK r \in Ranks : <<e[2], e[1]>> \in own[r]
        BY <3>1, <4>1 DEF IsDeal
      <4>3. <<e[1], e[2]>> \in MirrorOf(symmetry, own[r])
        BY <4>2, <3>3, <2>1
      <4> QED BY <3>1, <4>3
    <3> QED BY <3>1, <3>2, <3>3
  <2>7. UNION {all(r) : r \in Ranks} = C
    <3> HIDE DEF all
    <3>1. \A r \in Ranks : \A e \in all(r) : e \in C
      BY <2>3
    <3> QED BY <2>6, <3>1
  <2>8. \A r, s \in Ranks : r # s => all(r) \cap all(s) = {}
    <3> HIDE DEF all
    <3> QED BY <2>5
  <2>9. \A r \in Ranks : all(r) \subseteq C
    <3> HIDE DEF all
    <3> QED BY <2>3
  <2> QED BY <2>4, <2>7, <2>8, <2>9 DEF WithMirrors
<1> QED BY <1>1, <1>2

-----------------------------------------------------------------------------
(* The products *)

\* What the two parts of dot add, apart from the variables.
CloseSum(c, m, symmetry, v, D) == PlusOf(c, m, PlusOf(c, m, v, D), MirrorOf(symmetry, D))
FarSum(c, m, symmetry, v, D) == PlusOf(c, m, PlusOf(c, m, v, D), MirrorFarOf(symmetry, D))

\* No far pair is on the diagonal, so every one that is dealt has a mirror.
LEMMA FarMirror ==
  ASSUME NEW F \in FarSets, NEW own, NEW symmetry \in BOOLEAN, IsDeal(own, F, symmetry),
         NEW r \in Ranks
  PROVE  MirrorFarOf(symmetry, own[r]) = MirrorOf(symmetry, own[r])
<1>1. CASE ~symmetry
  BY <1>1 DEF MirrorFarOf, MirrorOf
<1>2. CASE symmetry
  <2>1. \A e \in own[r] : e[2] > e[1]
    <3> TAKE e \in own[r]
    <3>1. e \in F /\ e[2] >= e[1]
      BY <1>2 DEF IsDeal, Kept
    <3>2. e[1] \in Int /\ e[2] \in Int /\ e[1] # e[2]
      BY <3>1, PairType DEF FarSets
    <3> QED BY <3>1, <3>2
  <2>2. {pair \in own[r] : pair[2] > pair[1]} = own[r]
    BY <2>1
  <2> QED BY <2>2 DEF MirrorFarOf, MirrorOf
<1> QED BY <1>1, <1>2

\* Dot, on all ranks, multiplies every pair once, if the mirrors are added under
\* the flag the pairs were dealt under.
LEMMA DotAddsAll ==
  ASSUME NEW k, NEW m \in Orders, NEW F \in FarSets, NEW symmetry \in BOOLEAN,
         NEW near, IsDeal(near, AllPairs \ F, symmetry),
         NEW away, IsDeal(away, F, symmetry), NEW v,
         \A r \in Ranks :
           v[r] = FarSum(Ordered(k, m), m, symmetry,
                         CloseSum(Ordered(k, m), m, symmetry, Nothing, near[r]), away[r])
  PROVE  SumOf(v) = RowsOf(k, m, AllPairs)
<1> DEFINE nearAll(r) == near[r] \cup MirrorOf(symmetry, near[r])
           awayAll(r) == away[r] \cup MirrorOf(symmetry, away[r])
<1>1. F \in SUBSET AllPairs /\ \A e \in F : <<e[2], e[1]>> \in F
  BY DEF FarSets
<1>2. AllPairs \ F \in SUBSET AllPairs /\ \A e \in AllPairs \ F : <<e[2], e[1]>> \in AllPairs \ F
  <2> SUFFICES ASSUME NEW e \in AllPairs, e \notin F PROVE <<e[2], e[1]>> \in AllPairs \ F
    OBVIOUS
  <2>1. e = <<e[1], e[2]>> /\ <<e[2], e[1]>> \in AllPairs
    <3>1. e = <<e[1], e[2]>> /\ e[1] \in Positions /\ e[2] \in Positions
      BY PairType
    <3> QED BY <3>1 DEF AllPairs
  <2>2. CASE <<e[2], e[1]>> \in F
    <3>1. <<<<e[2], e[1]>>[2], <<e[2], e[1]>>[1]>> \in F
      BY <1>1, <2>2
    <3> QED BY <2>1, <3>1
  <2> QED BY <2>1, <2>2
<1>3. /\ \A r \in Ranks : near[r] \cap MirrorOf(symmetry, near[r]) = {}
      /\ \A r \in Ranks : nearAll(r) \subseteq AllPairs \ F
      /\ \A r, s \in Ranks : r # s => nearAll(r) \cap nearAll(s) = {}
      /\ UNION {nearAll(r) : r \in Ranks} = AllPairs \ F
  <2>1. BothSides(AllPairs \ F)
    BY <1>2 DEF BothSides
  <2>2. WithMirrors(near, AllPairs \ F, symmetry)
    BY <1>2, <2>1, WholeDeal
  <2> QED BY <2>2 DEF WithMirrors
<1>4. /\ \A r \in Ranks : away[r] \cap MirrorOf(symmetry, away[r]) = {}
      /\ \A r \in Ranks : awayAll(r) \subseteq F
      /\ \A r, s \in Ranks : r # s => awayAll(r) \cap awayAll(s) = {}
      /\ UNION {awayAll(r) : r \in Ranks} = F
  <2>1. BothSides(F)
    BY <1>1 DEF BothSides
  <2>2. WithMirrors(away, F, symmetry)
    BY <1>1, <2>1, WholeDeal
  <2> QED BY <2>2 DEF WithMirrors
<1> DEFINE own == [r \in Ranks |-> nearAll(r) \cup awayAll(r)]
<1>5. own \in [Ranks -> SUBSET AllPairs]
  <2> HIDE DEF nearAll, awayAll
  <2> QED BY <1>1, <1>3, <1>4
<1>6. \A r, s \in Ranks : r # s => own[r] \cap own[s] = {}
  <2> HIDE DEF nearAll, awayAll
  <2> QED BY <1>3, <1>4
<1>7. UNION {own[r] : r \in Ranks} = AllPairs
  <2>1. \A e \in AllPairs : \E r \in Ranks : e \in nearAll(r) \/ e \in awayAll(r)
    <3> HIDE DEF nearAll, awayAll
    <3> QED BY <1>3, <1>4
  <2> HIDE DEF nearAll, awayAll
  <2>2. \A r \in Ranks : own[r] = nearAll(r) \cup awayAll(r)
    OBVIOUS
  <2>3. \A r \in Ranks : own[r] \subseteq AllPairs
    BY <1>5
  <2> HIDE DEF own
  <2> QED BY <2>1, <2>2, <2>3
<1>8. \A r \in Ranks : v[r] = RowsOf(k, m, own[r])
  <2> TAKE r \in Ranks
  <2> DEFINE c == Ordered(k, m)
             M == MirrorOf(symmetry, near[r])
             W == MirrorOf(symmetry, away[r])
  <2>1. PlusOf(c, m, Nothing, near[r]) = RowsOf(k, m, near[r])
    <3>1. PlusOf(c, m, RowsOf(k, m, {}), near[r]) = RowsOf(k, m, {} \cup near[r])
      BY PlusRows
    <3>2. Nothing = RowsOf(k, m, {}) /\ {} \cup near[r] = near[r]
      BY NoRows
    <3> QED BY <3>1, <3>2
  <2>2. PlusOf(c, m, RowsOf(k, m, near[r]), M) = RowsOf(k, m, nearAll(r))
    BY <1>3, PlusRows
  <2>3. nearAll(r) \cap away[r] = {} /\ (nearAll(r) \cup away[r]) \cap W = {}
        /\ nearAll(r) \cup away[r] \cup W = own[r]
    <3>1. own[r] = nearAll(r) \cup awayAll(r)
      OBVIOUS
    <3>2. away[r] \cap W = {} /\ away[r] \cup W \subseteq F /\ awayAll(r) = away[r] \cup W
      BY <1>4
    <3>3. nearAll(r) \subseteq AllPairs \ F
      BY <1>3
    <3> HIDE DEF nearAll, awayAll, own, W
    <3> QED BY <3>1, <3>2, <3>3
  <2>4. PlusOf(c, m, RowsOf(k, m, nearAll(r)), away[r]) = RowsOf(k, m, nearAll(r) \cup away[r])
    BY <2>3, PlusRows
  <2>5. PlusOf(c, m, RowsOf(k, m, nearAll(r) \cup away[r]), W) = RowsOf(k, m, own[r])
    <3>1. PlusOf(c, m, RowsOf(k, m, nearAll(r) \cup away[r]), W)
            = RowsOf(k, m, nearAll(r) \cup away[r] \cup W)
      BY <2>3, PlusRows
    <3> QED BY <3>1, <2>3
  <2>6. MirrorFarOf(symmetry, away[r]) = W
    BY FarMirror
  <2>7. v[r] = FarSum(c, m, symmetry, CloseSum(c, m, symmetry, Nothing, near[r]), away[r])
    OBVIOUS
  <2> HIDE DEF c, M, W, nearAll, own
  <2>8. CloseSum(c, m, symmetry, Nothing, near[r]) = RowsOf(k, m, nearAll(r))
    BY <2>1, <2>2 DEF CloseSum, M
  <2> QED BY <2>4, <2>5, <2>6, <2>7, <2>8 DEF FarSum
<1> HIDE DEF own
<1>9. SumOf(v) = RowsOf(k, m, UNION {own[r] : r \in Ranks})
  BY <1>5, <1>6, <1>8, SumRows
<1> QED BY <1>7, <1>9

\* The shares of the ranks follow each other and end with the last row.
LEMMA SharesFollow ==
  /\ ShareStart(0) = 0 /\ ShareStart(MPISize) = N
  /\ \A r \in Nat : /\ ShareStart(r) \in Int /\ Share(r) \in Nat
                    /\ ShareStart(r + 1) = ShareStart(r) + Share(r)
  /\ \A r, s \in Nat : r <= s => ShareStart(r) <= ShareStart(s)
<1> DEFINE d == N \div MPISize
           e == N % MPISize
<1>1. /\ d \in Nat /\ e \in Nat /\ e < MPISize /\ N = MPISize * d + e
      /\ MPISize \in Nat /\ 0 < MPISize
  BY ModelAssumption
<1>2. \A r : /\ ShareStart(r) = r * d + (IF r < e THEN r ELSE e)
             /\ Share(r) = d + (IF r < e THEN 1 ELSE 0)
  BY DEF ShareStart, Share
<1> HIDE DEF d, e
<1>3. ShareStart(0) = 0
  <2>1. 0 * d = 0
    BY <1>1
  <2> QED BY <1>1, <1>2, <2>1
<1>4. ShareStart(MPISize) = N
  BY <1>1, <1>2
<1>5. ASSUME NEW r \in Nat
      PROVE  /\ ShareStart(r) \in Int /\ Share(r) \in Nat
             /\ ShareStart(r + 1) = ShareStart(r) + Share(r)
  <2>1. r * d \in Int /\ (r + 1) * d = r * d + d
    BY <1>1
  <2> DEFINE x == r * d
             y == (r + 1) * d
  <2>2. x \in Int /\ y = x + d
    BY <2>1
  <2>3. /\ ShareStart(r) = x + (IF r < e THEN r ELSE e)
        /\ ShareStart(r + 1) = y + (IF r + 1 < e THEN r + 1 ELSE e)
    BY <1>2
  <2> HIDE DEF x, y
  <2> QED BY <1>1, <1>2, <2>2, <2>3
<1>6. ASSUME NEW r \in Nat, NEW s \in Nat, r <= s
      PROVE  ShareStart(r) <= ShareStart(s)
  <2>1. r * d \in Int /\ s * d \in Int /\ r * d <= s * d
    BY <1>1, <1>6
  <2> DEFINE x == r * d
             y == s * d
  <2>2. x \in Int /\ y \in Int /\ x <= y
    BY <2>1
  <2>3. /\ ShareStart(r) = x + (IF r < e THEN r ELSE e)
        /\ ShareStart(s) = y + (IF s < e THEN s ELSE e)
    BY <1>2
  <2> HIDE DEF x, y
  <2> QED BY <1>1, <1>6, <2>2, <2>3
<1> QED BY <1>3, <1>4, <1>5, <1>6

\* The rows of a rank.
RowsOfRank(r) == {pair \in AllPairs : pair[1] \in ShareStart(r) .. ShareStart(r) + Share(r) - 1}

\* Every row is in the share of one rank.
LEMMA RowsAreShared ==
  /\ \A r, s \in Ranks : r # s => RowsOfRank(r) \cap RowsOfRank(s) = {}
  /\ UNION {RowsOfRank(r) : r \in Ranks} = AllPairs
<1>0. MPISize \in Nat /\ 0 < MPISize /\ N \in Nat
  BY ModelAssumption
<1>1. ASSUME NEW r \in Ranks, NEW e \in RowsOfRank(r)
      PROVE  /\ e \in AllPairs /\ e[1] \in Int /\ r \in Nat /\ r + 1 \in Nat
             /\ ShareStart(r) <= e[1] /\ e[1] < ShareStart(r + 1)
             /\ ShareStart(r) \in Int /\ ShareStart(r + 1) \in Int
  <2>1. r \in Nat /\ r + 1 \in Nat
    BY <1>0 DEF Ranks
  <2>2. e \in AllPairs /\ e[1] \in ShareStart(r) .. ShareStart(r) + Share(r) - 1
    BY DEF RowsOfRank
  <2>3. ShareStart(r) \in Int /\ Share(r) \in Nat /\ ShareStart(r + 1) = ShareStart(r) + Share(r)
    BY <2>1, SharesFollow
  <2> QED BY <2>1, <2>2, <2>3
<1>2. ASSUME NEW r \in Ranks, NEW s \in Ranks, r < s,
             NEW e \in RowsOfRank(r), e \in RowsOfRank(s)
      PROVE  FALSE
  <2>1. /\ e[1] \in Int /\ e[1] < ShareStart(r + 1) /\ ShareStart(s) <= e[1]
        /\ ShareStart(r + 1) \in Int /\ ShareStart(s) \in Int
        /\ r + 1 \in Nat /\ s \in Nat /\ r \in Nat
    BY <1>1, <1>2
  <2>2. r + 1 <= s
    BY <1>2, <2>1
  <2>3. ShareStart(r + 1) <= ShareStart(s)
    <3> DEFINE n == r + 1
    <3>1. n \in Nat /\ n <= s
      BY <2>1, <2>2
    <3> HIDE DEF n
    <3>2. ShareStart(n) <= ShareStart(s)
      BY <3>1, <2>1, SharesFollow
    <3> QED BY <3>2 DEF n
  <2> QED BY <2>1, <2>3
<1>3. \A r, s \in Ranks : r # s => RowsOfRank(r) \cap RowsOfRank(s) = {}
  <2> SUFFICES ASSUME NEW r \in Ranks, NEW s \in Ranks, r # s,
                      NEW e \in RowsOfRank(r), e \in RowsOfRank(s)
               PROVE  FALSE
    OBVIOUS
  <2>1. r < s \/ s < r
    BY DEF Ranks
  <2> QED BY <2>1, <1>2
<1>4. ASSUME NEW e \in AllPairs PROVE \E r \in Ranks : e \in RowsOfRank(r)
  <2> DEFINE p == e[1]
             A == {i \in Nat : p < ShareStart(i)}
  <2>1. p \in Int /\ 0 <= p /\ p < N
    <3>1. p \in Positions
      BY PairType
    <3> HIDE DEF p
    <3> QED BY <3>1, <1>0 DEF Positions
  <2>2. MPISize \in A
    BY <1>0, <2>1, SharesFollow
  <2>3. PICK l \in A : \A x \in A : l <= x
    <3>1. A \in SUBSET Nat
      OBVIOUS
    <3> HIDE DEF A
    <3> QED BY <2>2, <3>1, LeastNumber
  <2>4. l \in Nat /\ p < ShareStart(l) /\ l <= MPISize
    BY <2>2, <2>3
  <2>5. l # 0
    <3>1. ShareStart(0) = 0
      BY SharesFollow
    <3> HIDE DEF p
    <3> QED BY <2>1, <2>4, <3>1
  <2> DEFINE r == l - 1
  <2>6. r \in Nat /\ r + 1 = l /\ ~ (l <= r) /\ r \in Ranks
    BY <1>0, <2>4, <2>5 DEF Ranks
  <2> HIDE DEF r
  <2>7. /\ ShareStart(r) \in Int /\ Share(r) \in Nat
        /\ ShareStart(r + 1) = ShareStart(r) + Share(r)
    BY <2>6, SharesFollow
  <2>8. ~ (p < ShareStart(r))
    BY <2>3, <2>6
  <2>9. p \in ShareStart(r) .. ShareStart(r) + Share(r) - 1
    <3>1. p < ShareStart(r) + Share(r)
      BY <2>4, <2>6, <2>7
    <3> HIDE DEF p
    <3> QED BY <2>1, <2>7, <2>8, <3>1
  <2> QED BY <2>6, <2>9 DEF RowsOfRank
<1>5. \A r \in Ranks : RowsOfRank(r) \subseteq AllPairs
  BY DEF RowsOfRank
<1> QED BY <1>3, <1>4, <1>5

\* The dense product, on all ranks, multiplies every pair once.
LEMMA DenseAddsAll ==
  ASSUME NEW k, NEW m \in Orders, NEW v,
         \A r \in Ranks : v[r] = PlusOf(Ordered(k, m), m, Nothing, RowsOfRank(r))
  PROVE  SumOf(v) = RowsOf(k, m, AllPairs)
<1> DEFINE own == [r \in Ranks |-> RowsOfRank(r)]
<1>1. own \in [Ranks -> SUBSET AllPairs]
  BY DEF RowsOfRank
<1>2. \A r \in Ranks : own[r] = RowsOfRank(r)
  OBVIOUS
<1> HIDE DEF own
<1>3. \A r \in Ranks : v[r] = RowsOf(k, m, own[r])
  <2> TAKE r \in Ranks
  <2>1. PlusOf(Ordered(k, m), m, RowsOf(k, m, {}), own[r]) = RowsOf(k, m, {} \cup own[r])
    BY PlusRows
  <2>2. Nothing = RowsOf(k, m, {}) /\ {} \cup own[r] = own[r]
    BY NoRows
  <2> QED BY <2>1, <2>2, <1>2
<1>4. SumOf(v) = RowsOf(k, m, UNION {own[r] : r \in Ranks})
  <2>1. \A r, s \in Ranks : r # s => own[r] \cap own[s] = {}
    BY <1>2, RowsAreShared
  <2> QED BY <1>1, <1>3, <2>1, SumRows
<1>5. {own[r] : r \in Ranks} = {RowsOfRank(r) : r \in Ranks}
  BY <1>2
<1> QED BY <1>4, <1>5, RowsAreShared

-----------------------------------------------------------------------------
(* The answer *)

\* The velocity of particle a at the coordinates of call k, and those of all
\* particles in the order of a map.
VelocityAt(k, a) == SetToBag({<<<<k, a>>, <<k, b>>, b>> : b \in Particles})
Answer(k) == [a \in Particles |-> VelocityAt(k, a)]
ProductAt(k, m) == [p \in Positions |-> VelocityAt(k, m[p])]

\* All entries, each once, are the product.
LEMMA AllRows ==
  ASSUME NEW k, NEW m \in Orders
  PROVE  RowsOf(k, m, AllPairs) = ProductAt(k, m)
<1>1. m \in [Positions -> Particles] /\ \A b \in Particles : \E q \in Positions : m[q] = b
  BY DEF Orders
<1>2. \A p \in Positions :
        EntriesOf(k, m, p, AllPairs) = {<<<<k, m[p]>>, <<k, b>>, b>> : b \in Particles}
  <2> TAKE p \in Positions
  <2>1. RowOf(p, AllPairs) = Positions
    BY DEF RowOf, AllPairs
  <2>2. \A q \in Positions : \E b \in Particles : Entry(k, m, p, q) = <<<<k, m[p]>>, <<k, b>>, b>>
    BY <1>1 DEF Entry
  <2>3. \A b \in Particles : \E q \in Positions : Entry(k, m, p, q) = <<<<k, m[p]>>, <<k, b>>, b>>
    BY <1>1 DEF Entry
  <2> QED BY <2>1, <2>2, <2>3 DEF EntriesOf
<1> QED BY <1>2 DEF RowsOf, ProductAt, VelocityAt

\* The caller gets the answer if and only if the velocities in tree order were
\* the product.
LEMMA ProductGoesBack ==
  ASSUME NEW k, NEW m \in Orders, NEW w, w = [p \in Positions |-> w[p]]
  PROVE  BackwardReorder(m, w) = Answer(k) <=> w = ProductAt(k, m)
<1>0. Particles = Positions
  BY DEF Particles, Positions
<1>1. ProductAt(k, m) = Reorder(m, Answer(k))
  <2>1. \A p \in Positions : m[p] \in Particles
    BY DEF Orders
  <2> QED BY <2>1, <1>0 DEF ProductAt, Reorder, Answer
<1>2. BackwardReorder(m, Reorder(m, Answer(k))) = Answer(k)
  <2> DEFINE S == {VelocityAt(k, a) : a \in Particles}
  <2>1. Answer(k) \in [Particles -> S]
    BY DEF Answer
  <2> HIDE DEF S
  <2> QED BY <2>1, RoundTrip
<1>3. Reorder(m, BackwardReorder(m, w)) = w
  <2> DEFINE S == {w[p] : p \in Positions}
  <2>1. w \in [Particles -> S]
    BY <1>0
  <2> HIDE DEF S
  <2> QED BY <2>1, RoundTrip
<1> QED BY <1>1, <1>2, <1>3

\* There are particles, so the product is not nothing.
LEMMA ProductIsSomething ==
  ASSUME NEW k, NEW m \in Orders
  PROVE  ProductAt(k, m) # Nothing
<1>1. 0 \in Positions /\ 0 \in Particles
  BY ModelAssumption DEF Positions, Particles
<1>2. ProductAt(k, m)[0] = VelocityAt(k, m[0]) /\ Nothing[0] = EmptyBag
  BY <1>1 DEF ProductAt, Nothing
<1>3. DOMAIN EmptyBag = {}
  BY DEF EmptyBag, SetToBag
<1>4. DOMAIN VelocityAt(k, m[0]) # {}
  BY <1>1 DEF VelocityAt, SetToBag
<1> QED BY <1>2, <1>3, <1>4

-----------------------------------------------------------------------------
(* Settings and updates along a program *)

\* The value a setting has when call k of a program is made, and the last update
\* before it, apart from the variables.
SettingOf(calls, k, name) ==
  LET sets == {j \in 1 .. k - 1 : calls[j].op = name}
  IN  IF sets = {} THEN Defaults[name]
      ELSE Value(calls[CHOOSE j \in sets : \A i \in sets : i <= j])
LastUpdateOf(calls, k) ==
  CHOOSE j \in 1 .. k - 1 :
    /\ calls[j].op = "update_coord"
    /\ \A i \in j + 1 .. k - 1 : calls[i].op # "update_coord"
IsLastUpdate(calls, k, j) ==
  /\ j \in 1 .. k - 1 /\ calls[j].op = "update_coord"
  /\ \A i \in j + 1 .. k - 1 : calls[i].op # "update_coord"

\* The settings and updates of the module, apart from the variables.
LEMMA SettingIsSettingOf ==
  ASSUME NEW k, NEW name
  PROVE  SettingAt(k, name) = SettingOf(program, k, name)
BY DEF SettingAt, SettingOf

LEMMA LastUpdateIsLastUpdateOf ==
  ASSUME NEW k
  PROVE  LastUpdate(k) = LastUpdateOf(program, k)
BY DEF LastUpdate, LastUpdateOf

\* Only the setter of a setting changes it.
LEMMA SettingNext ==
  ASSUME NEW calls, NEW k \in Nat, 1 <= k, NEW name
  PROVE  SettingOf(calls, k + 1, name)
           = IF calls[k].op = name THEN Value(calls[k]) ELSE SettingOf(calls, k, name)
<1> DEFINE sets(n) == {j \in 1 .. n - 1 : calls[j].op = name}
<1>1. k \in 1 .. k + 1 - 1 /\ k \in Int /\ (\A j \in 1 .. k - 1 : j \in 1 .. k + 1 - 1)
      /\ \A j \in 1 .. k + 1 - 1 : j \in Int /\ j <= k /\ (j = k \/ j \in 1 .. k - 1)
  OBVIOUS
<1>2. CASE calls[k].op # name
  <2>1. sets(k + 1) = sets(k)
    BY <1>1, <1>2
  <2> DEFINE chosen(S) == IF S = {} THEN Defaults[name]
                          ELSE Value(calls[CHOOSE j \in S : \A i \in S : i <= j])
  <2>2. SettingOf(calls, k + 1, name) = chosen(sets(k + 1))
        /\ SettingOf(calls, k, name) = chosen(sets(k))
    BY DEF SettingOf
  <2>3. chosen(sets(k + 1)) = chosen(sets(k))
    <3> HIDE DEF chosen, sets
    <3> QED BY <2>1
  <2> HIDE DEF chosen, sets
  <2> QED BY <1>2, <2>2, <2>3
<1>3. CASE calls[k].op = name
  <2>1. k \in sets(k + 1) /\ \A i \in sets(k + 1) : i \in Int /\ i <= k
    BY <1>1, <1>3
  <2> DEFINE S == sets(k + 1)
             last == CHOOSE j \in S : \A i \in S : i <= j
  <2>2. last \in S /\ \A i \in S : i <= last
    <3> HIDE DEF S
    <3>1. \E j \in S : \A i \in S : i <= j
      BY <2>1 DEF S
    <3> QED BY <3>1
  <2>3. last = k
    <3>1. k <= last /\ last <= k /\ last \in Int
      <4> HIDE DEF last
      <4> QED BY <2>1, <2>2
    <3> HIDE DEF last
    <3> QED BY <1>1, <3>1
  <2>4. SettingOf(calls, k + 1, name) = IF S = {} THEN Defaults[name] ELSE Value(calls[last])
    BY DEF SettingOf
  <2>5. S # {}
    BY <2>1
  <2> HIDE DEF S, last
  <2> QED BY <1>3, <2>3, <2>4, <2>5
<1> QED BY <1>2, <1>3

\* There is one last update.
LEMMA LastUpdateUnique ==
  ASSUME NEW calls, NEW k \in Nat, NEW j, IsLastUpdate(calls, k, j)
  PROVE  LastUpdateOf(calls, k) = j
<1> DEFINE l == LastUpdateOf(calls, k)
<1>1. IsLastUpdate(calls, k, l)
  <2>1. \E i \in 1 .. k - 1 : /\ calls[i].op = "update_coord"
                              /\ \A h \in i + 1 .. k - 1 : calls[h].op # "update_coord"
    BY DEF IsLastUpdate
  <2> QED BY <2>1 DEF LastUpdateOf, IsLastUpdate
<1> HIDE DEF l
<1>2. ~ (l < j) /\ ~ (j < l) /\ l \in Int /\ j \in Int
  BY <1>1 DEF IsLastUpdate
<1> QED BY <1>2 DEF l

\* A later call that is no update keeps the last one.
LEMMA LastUpdateNext ==
  ASSUME NEW calls, NEW k \in Nat, 1 <= k, NEW j
  PROVE  /\ calls[k].op = "update_coord" => IsLastUpdate(calls, k + 1, k)
         /\ calls[k].op # "update_coord" /\ IsLastUpdate(calls, k, j)
              => IsLastUpdate(calls, k + 1, j)
<1>1. calls[k].op = "update_coord" => IsLastUpdate(calls, k + 1, k)
  BY DEF IsLastUpdate
<1>2. ASSUME calls[k].op # "update_coord", IsLastUpdate(calls, k, j)
      PROVE  IsLastUpdate(calls, k + 1, j)
  <2>1. j \in 1 .. k + 1 - 1 /\ calls[j].op = "update_coord"
    BY <1>2 DEF IsLastUpdate
  <2>2. \A i \in j + 1 .. k + 1 - 1 : i = k \/ i \in j + 1 .. k - 1
    BY <2>1
  <2> QED BY <1>2, <2>1, <2>2 DEF IsLastUpdate
<1> QED BY <1>1, <1>2

\* What a call of dot or dense_dot needs to be right: the symmetry flag of the
\* last update, and room for a block.
SymmetryKept(calls, k) ==
  SettingOf(calls, k, "useSymmetry") = SettingOf(calls, LastUpdateOf(calls, k), "useSymmetry")
Room(calls, k) == SettingOf(calls, k, "maxRelativeCoord") >= BlockSize * BlockSize
Checked(calls, k) == SettingOf(calls, k, "postCheckFlag")

\* What AnswersRight says of call k, when its answer is right or not and the
\* post check prints something.
Justified(calls, k, right, printed) ==
  /\ calls[k].op = "dot" /\ SymmetryKept(calls, k) => right
  /\ calls[k].op = "dense_dot" /\ Room(calls, k) => right
  /\ calls[k].op = "dot" /\ Room(calls, k) /\ Checked(calls, k)
       => printed = IF right THEN "same" ELSE "differs"

\* The rows a rank multiplies when the pool has a size.
RowsIf(size, r) == IF size >= BlockSize * BlockSize THEN RowsOfRank(r) ELSE {}

\* A rank has its rows if the pool has room for a block.
LEMMA OwnRowsIsRowsIf ==
  ASSUME TypeOK, NEW r \in Ranks
  PROVE  OwnRows(r) = RowsIf(settings[r].maxRelativeCoord, r)
<1> DEFINE size == settings[r].maxRelativeCoord
           area == BlockSize * BlockSize
<1>1. size \in Nat
  BY DEF TypeOK, Settings
<1>2. area \in Nat /\ 0 < area
  BY ModelAssumption
<1>3. HasRoom(r) <=> size \div area > 0
  BY DEF HasRoom
<1> HIDE DEF size, area
<1>4. size \div area > 0 <=> size >= area
  BY <1>1, <1>2
<1> QED BY <1>3, <1>4 DEF OwnRows, RowsIf, RowsOfRank, size, area

-----------------------------------------------------------------------------
(* The invariant *)

\* A rank is in the phases of its call, and in a product only with a map.
Doing(r) ==
  LET op == program[next[r]].op
  IN  /\ phase[r] = "update" => op = "update_coord"
      /\ phase[r] \in {"close", "closed", "far", "check", "checked"} => op = "dot"
      /\ phase[r] = "dense" => op = "dense_dot"
      /\ phase[r] \in {"sum", "back"} => op \in {"dot", "dense_dot"}
      /\ phase[r] \notin {"idle", "update"} => map[r] # <<>>

\* Its settings are those its calls so far made.
Settled(r) == \A name \in SetterNames : settings[r][name] = SettingOf(program, next[r], name)

\* The velocities halfway in a product.
DotClose(r) == CloseSum(coord[r], map[r], settings[r].useSymmetry, Nothing, close[r])
DotFar(r) == FarSum(coord[r], map[r], settings[r].useSymmetry, DotClose(r), far[r])
DenseRows(r) ==
  PlusOf(coord[r], map[r], Nothing, RowsIf(settings[r].maxRelativeCoord, r))
Halfway(r) ==
  LET op == program[next[r]].op
  IN  /\ phase[r] \in {"close", "dense"} => u[r] = Nothing
      /\ phase[r] \in {"closed", "far"} => u[r] = DotClose(r)
      /\ phase[r] = "sum" /\ op = "dot" => u[r] = DotFar(r)
      /\ phase[r] = "sum" /\ op = "dense_dot" => u[r] = DenseRows(r)
      /\ phase[r] = "checked" => check[r] = DenseRows(r)

\* The sum of all ranks is the product, when it has to be.
IsVelocities(v) == v = [p \in Positions |-> v[p]]
IsProduct(r) == u[r] = ProductAt(LastUpdateOf(program, next[r]), map[r])
Summed(r) ==
  /\ phase[r] \in {"check", "checked", "back"} => IsVelocities(u[r])
  /\ phase[r] \in {"check", "checked"} /\ SymmetryKept(program, next[r]) => IsProduct(r)
  /\ phase[r] = "back" => Justified(program, next[r], IsProduct(r), report[r])

\* So is the answer to the last call.
GotAnswer(r) == uArray[r] = Answer(LastUpdateOf(program, next[r] - 1))
Replied(r) ==
  phase[r] = "idle" /\ next[r] > 1
    => Justified(program, next[r] - 1, GotAnswer(r), report[r])

Alone(r) ==
  /\ phase[r] # "lost"
  /\ Doing(r) /\ Settled(r) /\ Halfway(r) /\ Summed(r) /\ Replied(r)
  /\ phase[r] = "update" => coord[r] = [p \in Positions |-> <<next[r], p>>]

\* The part of a call a rank is in: a collective is between each two.
PartOf(where, op) ==
  IF where = "far" \/ (where = "sum" /\ op = "dot") THEN 1
  ELSE IF where \in {"check", "checked"} THEN 2
  ELSE IF where = "back" THEN 3 ELSE 0
Part(r) == PartOf(phase[r], program[next[r]].op)

\* The ranks are in step: a rank is ahead of another only by setters, and by the
\* return from a call whose collectives are behind both.
InStep ==
  \A r, s \in Ranks :
    /\ next[r] = next[s] => Part(r) = Part(s)
    /\ next[r] < next[s] =>
         /\ Part(s) = 0
         /\ \A k \in next[r] .. next[s] - 1 :
              program[k].op \in SetterNames \/ (k = next[r] /\ Part(r) = 3)

\* All ranks have the same map, the coordinates of the last update, and the pairs
\* dealt under its flag.
ListedBy(k, m, F) ==
  /\ \A r \in Ranks :
       /\ map[r] = m /\ IsLastUpdate(program, next[r], k)
       /\ phase[r] # "update" => coord[r] = Ordered(k, m)
  /\ IsDeal(close, AllPairs \ F, SettingOf(program, k, "useSymmetry"))
  /\ IsDeal(far, F, SettingOf(program, k, "useSymmetry"))
Listed == \E k \in 1 .. Len(program), m \in Orders, F \in FarSets : ListedBy(k, m, F)
Unlisted == \A r \in Ranks : map[r] = <<>>

Arrays == DOMAIN u = Ranks /\ DOMAIN check = Ranks /\ DOMAIN uArray = Ranks

AllLost == \A r \in Ranks : phase[r] = "lost"
AllRight == Arrays /\ InStep /\ (Listed \/ Unlisted) /\ \A r \in Ranks : Alone(r)
AnswersInv == AllLost \/ AllRight

-----------------------------------------------------------------------------
(* The steps *)

\* The number of a call is a number.
LEMMA NextType ==
  ASSUME TypeOK
  PROVE  \A r \in Ranks : next[r] \in Nat /\ next[r] \in Int /\ 1 <= next[r]
  BY CallType

\* What a rank that is at a collective waits for, all ranks wait for.
LEMMA SameCall ==
  ASSUME TypeOK, InStep, NEW where \in {"update", "closed", "sum", "checked"},
         \A r \in Ranks : phase[r] = where /\ Doing(r)
  PROVE  \A r, s \in Ranks : next[r] = next[s]
<1>1. ASSUME NEW r \in Ranks, NEW s \in Ranks, next[r] < next[s]
      PROVE  FALSE
  <2>1. next[r] \in next[r] .. next[s] - 1
    BY <1>1, NextType
  <2>2. program[next[r]].op \in SetterNames \/ Part(r) = 3
    BY <1>1, <2>1 DEF InStep
  <2>3. Part(r) # 3
    BY DEF Part, PartOf
  <2>4. program[next[r]].op \notin SetterNames
    BY DEF Doing, SetterNames
  <2> QED BY <2>2, <2>3, <2>4
<1>2. \A r, s \in Ranks : next[r] < next[s] \/ next[s] < next[r] \/ next[r] = next[s]
  BY NextType
<1> QED BY <1>1, <1>2

\* Inside of a part of a call a rank stays in step.
LEMMA StepInPart ==
  ASSUME InStep, UNCHANGED <<program, next>>,
         \A r \in Ranks : PartOf(phase'[r], program[next[r]].op) = Part(r)
  PROVE  InStep'
<1>1. \A r \in Ranks : Part(r)' = Part(r)
  BY DEF Part
<1>2. program' = program /\ next' = next
  OBVIOUS
<1> QED BY <1>1, <1>2 DEF InStep

\* So do all after a collective.
LEMMA StepTogether ==
  ASSUME \A r, s \in Ranks : next'[r] = next'[s], \A r \in Ranks : next'[r] \in Int,
         \A r, s \in Ranks : Part(r)' = Part(s)'
  PROVE  InStep'
<1>1. \A r, s \in Ranks : ~ (next'[r] < next'[s])
  OBVIOUS
<1> QED BY <1>1 DEF InStep

\* A rank that sets something or returns goes on alone, and stays in step.
LEMMA StepOn ==
  ASSUME TypeOK, InStep, NEW r \in Ranks, Returns(r), program' = program,
         \/ phase[r] = "idle" /\ program[next[r]].op \in SetterNames
         \/ phase[r] = "back"
  PROVE  InStep'
<1>1. /\ next'[r] = next[r] + 1 /\ phase'[r] = "idle"
      /\ \A s \in Ranks : s # r => next'[s] = next[s] /\ phase'[s] = phase[s]
  BY DEF Returns, Goto, TypeOK
<1>2. Part(r)' = 0 /\ \A s \in Ranks : s # r => Part(s)' = Part(s)
  BY <1>1 DEF Part, PartOf
<1>3. Part(r) \in {0, 3} /\ (Part(r) = 3 \/ program[next[r]].op \in SetterNames)
  BY DEF Part, PartOf
<1>4. program' = program
  OBVIOUS
<1>5. \A s \in Ranks : next[s] \in Int
  BY NextType
<1> DEFINE Passes(k, s) == program[k].op \in SetterNames \/ (k = next[s] /\ Part(s) = 3)
<1>6. \A s, t \in Ranks :
        /\ next[s] = next[t] => Part(s) = Part(t)
        /\ next[s] < next[t] => Part(t) = 0 /\ \A k \in next[s] .. next[t] - 1 : Passes(k, s)
  BY DEF InStep
<1>7. ASSUME NEW s \in Ranks, s # r
      PROVE  /\ next'[r] = next'[s] => Part(s)' = 0
             /\ next'[r] < next'[s] =>
                  /\ Part(s)' = 0
                  /\ \A k \in next'[r] .. next'[s] - 1 : program[k].op \in SetterNames
             /\ next'[s] < next'[r] =>
                  \A k \in next'[s] .. next'[r] - 1 :
                    program[k].op \in SetterNames \/ (k = next'[s] /\ Part(s)' = 3)
  <2>1. next'[r] <= next'[s] => next[r] < next[s]
    BY <1>1, <1>5, <1>7
  <2>2. next'[r] = next'[s] => Part(s)' = 0
    BY <1>1, <1>2, <1>5, <1>6, <1>7, <2>1
  <2>3. ASSUME next'[r] < next'[s], NEW k \in next'[r] .. next'[s] - 1
        PROVE  Part(s)' = 0 /\ program[k].op \in SetterNames
    <3>1. next[r] < next[s] /\ k \in next[r] .. next[s] - 1 /\ k # next[r]
      BY <1>1, <1>5, <1>7, <2>3
    <3> QED BY <3>1, <1>2, <1>6, <1>7
  <2>4. next'[r] < next'[s] => Part(s)' = 0
    BY <1>1, <1>2, <1>5, <1>6, <1>7, <2>1
  <2>5. ASSUME next'[s] < next'[r], NEW k \in next'[s] .. next'[r] - 1
        PROVE  program[k].op \in SetterNames \/ (k = next'[s] /\ Part(s)' = 3)
    <3>1. next'[s] = next[s] /\ Part(s)' = Part(s)
      BY <1>1, <1>2, <1>7
    <3>2. CASE next[s] = next[r]
      <4>1. k = next[s] /\ Part(s) = Part(r)
        BY <1>1, <1>5, <1>6, <2>5, <3>1, <3>2
      <4> QED BY <4>1, <3>1, <3>2, <1>3
    <3>3. CASE next[s] # next[r]
      <4>1. next[s] < next[r] /\ Part(r) = 0
        BY <1>1, <1>5, <1>6, <2>5, <3>1, <3>3
      <4>2. k = next[r] \/ k \in next[s] .. next[r] - 1
        BY <1>1, <1>5, <2>5, <3>1, <4>1
      <4>3. CASE k = next[r]
        BY <4>1, <4>3, <1>3
      <4>4. CASE k \in next[s] .. next[r] - 1
        BY <4>1, <4>4, <1>6, <3>1
      <4> QED BY <4>2, <4>3, <4>4
    <3> QED BY <3>2, <3>3
  <2> QED BY <2>2, <2>3, <2>4, <2>5
<1>8. \A s, t \in Ranks :
        /\ next'[s] = next'[t] => Part(s)' = Part(t)'
        /\ next'[s] < next'[t] =>
             /\ Part(t)' = 0
             /\ \A k \in next'[s] .. next'[t] - 1 :
                  program[k].op \in SetterNames \/ (k = next'[s] /\ Part(s)' = 3)
  <2> TAKE s, t \in Ranks
  <2>1. CASE s = r /\ t = r
    <3>1. ~ (next'[s] < next'[t])
      BY <2>1, <1>1, <1>5
    <3> QED BY <2>1, <3>1
  <2>2. CASE s = r /\ t # r
    BY <2>2, <1>2, <1>7
  <2>3. CASE s # r /\ t = r
    BY <2>3, <1>2, <1>7
  <2>4. CASE s # r /\ t # r
    BY <2>4, <1>1, <1>2, <1>6
  <2> QED BY <2>1, <2>2, <2>3, <2>4
<1> QED BY <1>4, <1>8 DEF InStep

\* A step of the ranks that makes no new lists keeps what they have.
LEMMA StaysListed ==
  ASSUME TypeOK, Listed \/ Unlisted, UNCHANGED <<program, map, close, far>>,
         \A r \in Ranks :
           /\ next'[r] = next[r] \/ (next'[r] = next[r] + 1 /\ program[next[r]].op # "update_coord")
           /\ phase'[r] # "update" => phase[r] # "update" /\ coord'[r] = coord[r]
  PROVE  (Listed \/ Unlisted)'
<1>1. CASE Unlisted
  BY <1>1 DEF Unlisted
<1>2. CASE Listed
  <2>1. PICK k \in 1 .. Len(program), m \in Orders, F \in FarSets : ListedBy(k, m, F)
    BY <1>2 DEF Listed
  <2>2. \A r \in Ranks : IsLastUpdate(program, next'[r], k)
    <3> TAKE r \in Ranks
    <3>1. IsLastUpdate(program, next[r], k) /\ next[r] \in Nat /\ 1 <= next[r]
      BY <2>1, NextType DEF ListedBy
    <3>2. PICK n : n = next[r]
      OBVIOUS
    <3>3. program[n].op # "update_coord" => IsLastUpdate(program, n + 1, k)
      BY <3>1, <3>2, LastUpdateNext
    <3> QED BY <3>1, <3>2, <3>3
  <2>3. ListedBy(k, m, F)'
    BY <2>1, <2>2 DEF ListedBy
  <2> QED BY <2>3 DEF Listed
<1> QED BY <1>1, <1>2

\* What a step leaves of a rank.
StillAt(r) ==
  /\ UNCHANGED program /\ next'[r] = next[r] /\ phase'[r] = phase[r]
  /\ settings'[r] = settings[r] /\ coord'[r] = coord[r] /\ map'[r] = map[r]
  /\ close'[r] = close[r] /\ far'[r] = far[r] /\ u'[r] = u[r] /\ check'[r] = check[r]
  /\ uArray'[r] = uArray[r] /\ report'[r] = report[r]

\* A rank that is left as it is stays right.
LEMMA StaysAlone ==
  ASSUME NEW r, Alone(r), StillAt(r)
  PROVE  Alone(r)'
<1>1. Doing(r)'
  BY DEF Alone, StillAt, Doing
<1>2. Settled(r)'
  BY DEF Alone, StillAt, Settled
<1>3. Halfway(r)'
  BY DEF Alone, StillAt, Halfway, DotClose, DotFar, DenseRows
<1>4. Summed(r)'
  BY DEF Alone, StillAt, Summed, IsProduct, Justified
<1>5. Replied(r)'
  BY DEF Alone, StillAt, Replied, GotAnswer, Justified
<1>6. /\ phase'[r] # "lost"
      /\ (phase'[r] = "update" => coord'[r] = [p \in Positions |-> <<next'[r], p>>])
  BY DEF Alone, StillAt
<1> QED BY <1>1, <1>2, <1>3, <1>4, <1>5, <1>6 DEF Alone

\* When one rank moves and the others are left as they are.
LEMMA OneMoves ==
  ASSUME AllRight, NEW r \in Ranks, \A s \in Ranks : s # r => StillAt(s),
         Alone(r)', InStep', (Listed \/ Unlisted)', Arrays'
  PROVE  AllRight'
<1>1. \A s \in Ranks : Alone(s)'
  BY StaysAlone DEF AllRight
<1> QED BY <1>1 DEF AllRight

\* A setter changes its setting, and no answer is expected of it.
LEMMA SetAnswers ==
  ASSUME TypeOK, AllRight, NEW r \in Ranks, Set(r)
  PROVE  AllRight'
<1>1. PICK name \in SetterNames :
        /\ Calls(r, name)
        /\ settings' = [settings EXCEPT ![r][name] = Value(program[next[r]])]
        /\ Returns(r)
        /\ UNCHANGED <<program, coord, map, close, far, products>>
  BY DEF Set
<1>2. /\ next'[r] = next[r] + 1 /\ phase'[r] = "idle"
      /\ \A s \in Ranks : s # r => next'[s] = next[s] /\ phase'[s] = phase[s]
  BY <1>1 DEF Returns, Goto, TypeOK
<1>3. settings'[r] = [settings[r] EXCEPT ![name] = Value(program[next[r]])]
      /\ \A s \in Ranks : s # r => settings'[s] = settings[s]
  BY <1>1 DEF TypeOK
<1>4. \A s \in Ranks : s # r => StillAt(s)
  BY <1>1, <1>2, <1>3 DEF StillAt, products
<1>5. DOMAIN settings[r] = SetterNames
  BY DEF TypeOK, Settings, SetterNames
<1>6. PICK n : n = next[r]
  OBVIOUS
<1>7. n \in Nat /\ 1 <= n
  BY <1>6, NextType
<1>8. program[n].op = name
  BY <1>1, <1>6 DEF Calls
<1>9. Settled(r)'
  <2>1. \A nm \in SetterNames : settings[r][nm] = SettingOf(program, n, nm)
    BY <1>6 DEF AllRight, Alone, Settled
  <2>2. ASSUME NEW nm \in SetterNames
        PROVE  settings'[r][nm] = SettingOf(program, n + 1, nm)
    <3>1. settings'[r][nm] = IF nm = name THEN Value(program[n]) ELSE settings[r][nm]
      BY <1>3, <1>5, <1>6
    <3>2. SettingOf(program, n + 1, nm)
            = IF program[n].op = nm THEN Value(program[n]) ELSE SettingOf(program, n, nm)
      BY <1>7, SettingNext
    <3> QED BY <1>8, <2>1, <3>1, <3>2
  <2>3. program' = program /\ next'[r] = n + 1
    BY <1>1, <1>2, <1>6
  <2> QED BY <2>2, <2>3 DEF Settled
<1>10. Replied(r)'
  <2>1. next'[r] - 1 = n /\ program' = program
    BY <1>1, <1>2, <1>6, <1>7
  <2>2. program[n].op # "dot" /\ program[n].op # "dense_dot"
    BY <1>8 DEF SetterNames
  <2> QED BY <2>1, <2>2 DEF Replied, Justified
<1>11. Alone(r)'
  BY <1>2, <1>9, <1>10 DEF Alone, Doing, Halfway, Summed
<1>12. InStep'
  BY <1>1, <1>6, <1>8, StepOn DEF AllRight, Calls
<1>13. (Listed \/ Unlisted)'
  <2>1. program[next[r]].op # "update_coord"
    BY <1>6, <1>8 DEF SetterNames
  <2>2. phase[r] = "idle"
    BY <1>1 DEF Calls
  <2> QED BY <1>1, <1>2, <2>1, <2>2, StaysListed DEF AllRight
<1>14. Arrays'
  BY <1>1 DEF AllRight, Arrays, products
<1> QED BY <1>4, <1>11, <1>12, <1>13, <1>14, OneMoves

\* A step in a part of a call leaves the program, the settings and the lists.
LEMMA InnerStep ==
  ASSUME TypeOK, AllRight, NEW r \in Ranks, NEW where \in Phases, Goto(r, where),
         UNCHANGED <<program, next, settings, coord, map, close, far, uArray, report>>,
         PartOf(where, program[next[r]].op) = Part(r), where # "update",
         phase[r] # "update", Arrays',
         \A s \in Ranks : s # r => u'[s] = u[s] /\ check'[s] = check[s],
         Doing(r)', Halfway(r)', Summed(r)', where \notin {"idle", "lost"}
  PROVE  AllRight'
<1>1. phase'[r] = where /\ \A s \in Ranks : s # r => phase'[s] = phase[s]
  BY DEF Goto, TypeOK
<1>2. \A s \in Ranks : s # r => StillAt(s)
  BY <1>1 DEF StillAt
<1>3. Settled(r)'
  BY DEF AllRight, Alone, Settled
<1>4. Alone(r)'
  BY <1>1, <1>3 DEF Alone, Replied
<1>5. InStep'
  <2>1. \A s \in Ranks : PartOf(phase'[s], program[next[s]].op) = Part(s)
    BY <1>1 DEF Part
  <2> QED BY <2>1, StepInPart DEF AllRight
<1>6. (Listed \/ Unlisted)'
  BY <1>1, StaysListed DEF AllRight
<1> QED BY <1>2, <1>4, <1>5, <1>6, OneMoves

\* The caller's coordinates are there until the update.
LEMMA UpdateCoordAnswers ==
  ASSUME TypeOK, AllRight, NEW r \in Ranks, UpdateCoord(r)
  PROVE  AllRight'
<1>1. phase[r] = "idle" /\ program[next[r]].op = "update_coord"
  BY DEF UpdateCoord, Calls
<1>2. phase'[r] = "update" /\ \A s \in Ranks : s # r => phase'[s] = phase[s]
  BY DEF UpdateCoord, Goto, TypeOK
<1>3. coord'[r] = [p \in Positions |-> <<next[r], p>>]
      /\ \A s \in Ranks : s # r => coord'[s] = coord[s]
  BY DEF UpdateCoord, TypeOK
<1>4. UNCHANGED <<program, next, settings, map, close, far, u, check, uArray, report>>
  BY DEF UpdateCoord, products
<1>5. \A s \in Ranks : s # r => StillAt(s)
  BY <1>2, <1>3, <1>4 DEF StillAt
<1>6. Settled(r)'
  BY <1>4 DEF AllRight, Alone, Settled
<1>7. Alone(r)'
  BY <1>1, <1>2, <1>3, <1>4, <1>6 DEF Alone, Replied, Doing, Halfway, Summed
<1>8. InStep'
  <2>1. \A s \in Ranks : PartOf(phase'[s], program[next[s]].op) = Part(s)
    BY <1>1, <1>2 DEF Part, PartOf
  <2> QED BY <1>4, <2>1, StepInPart DEF AllRight
<1>9. (Listed \/ Unlisted)'
  BY <1>2, <1>3, <1>4, StaysListed DEF AllRight
<1> QED BY <1>4, <1>5, <1>7, <1>8, <1>9, OneMoves DEF AllRight, Arrays

\* A product starts from nothing, and only with a map.
LEMMA EnterAnswers ==
  ASSUME TypeOK, AllRight, NEW r \in Ranks,
         EnterProduct(r, "dot", "close") \/ EnterProduct(r, "dense_dot", "dense"), ~Lost
  PROVE  AllRight'
<1>1. PICK first \in {"close", "dense"} :
        EnterProduct(r, IF first = "close" THEN "dot" ELSE "dense_dot", first)
  BY Zenon
<1> DEFINE op == IF first = "close" THEN "dot" ELSE "dense_dot"
<1>2. /\ phase[r] = "idle" /\ program[next[r]].op = op
      /\ map[r] # <<>> /\ u' = [u EXCEPT ![r] = Nothing] /\ Goto(r, first)
      /\ UNCHANGED <<program, next, settings, coord, map, close, far, check, uArray, report>>
  BY <1>1 DEF EnterProduct, Calls, model
<1>3. Arrays' /\ u'[r] = Nothing /\ (\A s \in Ranks : s # r => u'[s] = u[s]) /\ phase'[r] = first
  BY <1>2 DEF AllRight, Arrays, Goto, TypeOK
<1>4. Doing(r)' /\ Halfway(r)' /\ Summed(r)'
  BY <1>2, <1>3 DEF Doing, Halfway, Summed
<1>5. PartOf(first, program[next[r]].op) = Part(r) /\ first \in Phases
  BY <1>2 DEF Part, PartOf, Phases
<1> QED BY <1>2, <1>3, <1>4, <1>5, InnerStep

\* The close pairs and their mirrors, the far pairs and theirs, and the rows are
\* added as the invariant says.
LEMMA ProductAnswers ==
  ASSUME TypeOK, AllRight, NEW r \in Ranks,
         CloseDot(r) \/ FarDot(r) \/ DenseDot(r) \/ PostCheckDot(r), ~Lost
  PROVE  AllRight'
<1> USE DEF model
<1>1. CASE CloseDot(r)
  <2>1. /\ phase[r] = "close" /\ Goto(r, "closed")
        /\ u' = [u EXCEPT ![r] = Plus(r, Plus(r, u[r], close[r]), Mirrored(r, close[r]))]
        /\ UNCHANGED <<program, next, settings, coord, map, close, far, check, uArray, report>>
    BY <1>1 DEF CloseDot
  <2>2. u[r] = Nothing /\ program[next[r]].op = "dot" /\ map[r] # <<>>
    BY <2>1 DEF AllRight, Alone, Halfway, Doing
  <2>3. Mirrored(r, close[r]) = MirrorOf(settings[r].useSymmetry, close[r])
    BY DEF Mirrored, MirrorOf
  <2>4. Plus(r, Plus(r, u[r], close[r]), Mirrored(r, close[r])) = DotClose(r)
    BY <2>2, <2>3, PlusIsPlusOf DEF DotClose, CloseSum
  <2>5. /\ Arrays' /\ u'[r] = DotClose(r) /\ phase'[r] = "closed"
        /\ \A s \in Ranks : s # r => u'[s] = u[s]
    BY <2>1, <2>4 DEF AllRight, Arrays, Goto, TypeOK
  <2>6. DotClose(r)' = DotClose(r)
    BY <2>1 DEF DotClose
  <2>7. Doing(r)' /\ Halfway(r)' /\ Summed(r)'
    BY <2>1, <2>2, <2>5, <2>6 DEF Doing, Halfway, Summed
  <2>8. PartOf("closed", program[next[r]].op) = Part(r) /\ "closed" \in Phases
    BY <2>1 DEF Part, PartOf, Phases
  <2> QED BY <2>1, <2>5, <2>7, <2>8, InnerStep
<1>2. CASE FarDot(r)
  <2>1. /\ phase[r] = "far" /\ Goto(r, "sum")
        /\ u' = [u EXCEPT ![r] = Plus(r, Plus(r, u[r], far[r]), MirroredFar(r, far[r]))]
        /\ UNCHANGED <<program, next, settings, coord, map, close, far, check, uArray, report>>
    BY <1>2 DEF FarDot
  <2>2. u[r] = DotClose(r) /\ program[next[r]].op = "dot" /\ map[r] # <<>>
    BY <2>1 DEF AllRight, Alone, Halfway, Doing
  <2>3. MirroredFar(r, far[r]) = MirrorFarOf(settings[r].useSymmetry, far[r])
    BY DEF MirroredFar, MirrorFarOf
  <2>4. Plus(r, Plus(r, u[r], far[r]), MirroredFar(r, far[r])) = DotFar(r)
    BY <2>2, <2>3, PlusIsPlusOf DEF DotFar, FarSum
  <2>5. /\ Arrays' /\ u'[r] = DotFar(r) /\ phase'[r] = "sum"
        /\ \A s \in Ranks : s # r => u'[s] = u[s]
    BY <2>1, <2>4 DEF AllRight, Arrays, Goto, TypeOK
  <2>6. DotFar(r)' = DotFar(r)
    BY <2>1 DEF DotFar, DotClose
  <2>7. Doing(r)' /\ Halfway(r)' /\ Summed(r)'
    BY <2>1, <2>2, <2>5, <2>6 DEF Doing, Halfway, Summed
  <2>8. PartOf("sum", program[next[r]].op) = Part(r) /\ "sum" \in Phases
    BY <2>1, <2>2 DEF Part, PartOf, Phases
  <2> QED BY <2>1, <2>5, <2>7, <2>8, InnerStep
<1>3. CASE DenseDot(r)
  <2>1. /\ phase[r] = "dense" /\ Goto(r, "sum")
        /\ u' = [u EXCEPT ![r] = Plus(r, u[r], OwnRows(r))]
        /\ UNCHANGED <<program, next, settings, coord, map, close, far, check, uArray, report>>
    BY <1>3 DEF DenseDot
  <2>2. u[r] = Nothing /\ program[next[r]].op = "dense_dot" /\ map[r] # <<>>
    BY <2>1 DEF AllRight, Alone, Halfway, Doing
  <2>4. Plus(r, u[r], OwnRows(r)) = DenseRows(r)
    BY <2>2, PlusIsPlusOf, OwnRowsIsRowsIf DEF DenseRows
  <2>5. /\ Arrays' /\ u'[r] = DenseRows(r) /\ phase'[r] = "sum"
        /\ \A s \in Ranks : s # r => u'[s] = u[s]
    BY <2>1, <2>4 DEF AllRight, Arrays, Goto, TypeOK
  <2>6. DenseRows(r)' = DenseRows(r)
    BY <2>1 DEF DenseRows
  <2>7. Doing(r)' /\ Halfway(r)' /\ Summed(r)'
    BY <2>1, <2>2, <2>5, <2>6 DEF Doing, Halfway, Summed
  <2>8. PartOf("sum", program[next[r]].op) = Part(r) /\ "sum" \in Phases
    BY <2>1, <2>2 DEF Part, PartOf, Phases
  <2> QED BY <2>1, <2>5, <2>7, <2>8, InnerStep
<1>4. CASE PostCheckDot(r)
  <2>1. /\ phase[r] = "check" /\ Goto(r, "checked")
        /\ check' = [check EXCEPT ![r] = Plus(r, Nothing, OwnRows(r))]
        /\ UNCHANGED <<program, next, settings, coord, map, close, far, u, uArray, report>>
    BY <1>4 DEF PostCheckDot
  <2>2. program[next[r]].op = "dot" /\ map[r] # <<>> /\ Summed(r)
    BY <2>1 DEF AllRight, Alone, Doing
  <2>4. Plus(r, Nothing, OwnRows(r)) = DenseRows(r)
    BY <2>2, PlusIsPlusOf, OwnRowsIsRowsIf DEF DenseRows
  <2>5. /\ Arrays' /\ check'[r] = DenseRows(r) /\ phase'[r] = "checked"
        /\ \A s \in Ranks : s # r => check'[s] = check[s]
    BY <2>1, <2>4 DEF AllRight, Arrays, Goto, TypeOK
  <2>6. DenseRows(r)' = DenseRows(r)
    BY <2>1 DEF DenseRows
  <2>7. Doing(r)' /\ Halfway(r)'
    BY <2>1, <2>2, <2>5, <2>6 DEF Doing, Halfway
  <2>8. Summed(r)'
    BY <2>1, <2>2, <2>5 DEF Summed, IsProduct
  <2>9. PartOf("checked", program[next[r]].op) = Part(r) /\ "checked" \in Phases
    BY <2>1, <2>2 DEF Part, PartOf, Phases
  <2> QED BY <2>1, <2>5, <2>7, <2>8, <2>9, InnerStep
<1> QED BY <1>1, <1>2, <1>3, <1>4

\* There is a rank.
LEMMA SomeRank == 0 \in Ranks
  BY ModelAssumption DEF Ranks

\* What is returned is right if the velocities in tree order are.
LEMMA ReturnAnswers ==
  ASSUME TypeOK, AllRight, NEW r \in Ranks, Return(r)
  PROVE  AllRight'
<1>1. /\ phase[r] = "back" /\ uArray' = [uArray EXCEPT ![r] = BackwardReorder(map[r], u[r])]
      /\ Returns(r)
      /\ UNCHANGED <<program, settings, coord, map, close, far, u, check, report>>
  BY DEF Return, model
<1>2. /\ next'[r] = next[r] + 1 /\ phase'[r] = "idle"
      /\ \A s \in Ranks : s # r => next'[s] = next[s] /\ phase'[s] = phase[s]
  BY <1>1 DEF Returns, Goto, TypeOK
<1>3. /\ Arrays' /\ uArray'[r] = BackwardReorder(map[r], u[r])
      /\ \A s \in Ranks : s # r => uArray'[s] = uArray[s]
  BY <1>1 DEF AllRight, Arrays
<1>4. \A s \in Ranks : s # r => StillAt(s)
  BY <1>1, <1>2, <1>3 DEF StillAt
<1>5. PICK n : n = next[r]
  OBVIOUS
<1>6. n \in Nat /\ 1 <= n
  BY <1>5, NextType
<1>7. /\ program[n].op \in {"dot", "dense_dot"} /\ map[r] # <<>>
      /\ IsVelocities(u[r]) /\ Justified(program, n, IsProduct(r), report[r])
  BY <1>1, <1>5 DEF AllRight, Alone, Doing, Summed
<1>8. Settled(r)'
  <2>1. \A nm \in SetterNames : settings[r][nm] = SettingOf(program, n, nm)
    BY <1>5 DEF AllRight, Alone, Settled
  <2>2. ASSUME NEW nm \in SetterNames
        PROVE  settings[r][nm] = SettingOf(program, n + 1, nm)
    <3>1. SettingOf(program, n + 1, nm)
            = IF program[n].op = nm THEN Value(program[n]) ELSE SettingOf(program, n, nm)
      BY <1>6, SettingNext
    <3>2. program[n].op # nm
      BY <1>7 DEF SetterNames
    <3> QED BY <2>1, <3>1, <3>2
  <2>3. program' = program /\ next'[r] = n + 1 /\ settings' = settings
    BY <1>1, <1>2, <1>5
  <2> QED BY <2>2, <2>3 DEF Settled
<1>9. Replied(r)'
  <2>1. next'[r] - 1 = n /\ program' = program /\ report' = report
    BY <1>1, <1>2, <1>5, <1>6
  <2>2. PICK m : m = map[r]
    OBVIOUS
  <2>3. PICK w : w = u[r]
    OBVIOUS
  <2>4. m \in Orders
    BY <1>7, <2>2 DEF TypeOK
  <2>5. w = [p \in Positions |-> w[p]]
    BY <1>7, <2>3 DEF IsVelocities
  <2>6. PICK k : k = LastUpdateOf(program, n)
    OBVIOUS
  <2>7. BackwardReorder(m, w) = Answer(k) <=> w = ProductAt(k, m)
    BY <2>4, <2>5, ProductGoesBack
  <2>8. GotAnswer(r)' <=> IsProduct(r)
    BY <1>3, <1>5, <2>1, <2>2, <2>3, <2>6, <2>7 DEF GotAnswer, IsProduct
  <2> QED BY <1>7, <2>1, <2>8 DEF Replied, Justified
<1>10. Alone(r)'
  BY <1>2, <1>8, <1>9 DEF Alone, Doing, Halfway, Summed
<1>11. InStep'
  BY <1>1, StepOn DEF AllRight
<1>12. (Listed \/ Unlisted)'
  <2>1. program[next[r]].op # "update_coord"
    BY <1>5, <1>7
  <2> QED BY <1>1, <1>2, <2>1, StaysListed DEF AllRight
<1> QED BY <1>3, <1>4, <1>10, <1>11, <1>12, OneMoves

\* An update deals all pairs under the flag of its call, on all ranks.
LEMMA UpdateAnswers ==
  ASSUME TypeOK, InCall, AllRight, Update
  PROVE  AllLost' \/ AllRight'
<1>1. \A r \in Ranks : phase[r] = "update"
  BY DEF Update, Together
<1>2. PICK n : n = next[0]
  OBVIOUS
<1>3. \A r \in Ranks : next[r] = n
  BY <1>1, <1>2, SomeRank, SameCall DEF AllRight, Alone
<1>4. n \in Nat /\ 1 <= n /\ n \in 1 .. Len(program) /\ Len(program) \in Nat
  <2>1. n \in DOMAIN program
    BY <1>1, <1>3, SomeRank DEF InCall
  <2>2. program \in Seq(CallRecords)
    BY ModelAssumption DEF TypeOK
  <2> QED BY <1>3, <2>1, <2>2, SomeRank, NextType
<1>5. program[n].op = "update_coord"
  BY <1>1, <1>3, SomeRank DEF AllRight, Alone, Doing
<1>6. PICK m \in Orders, F \in FarSets :
        /\ map' = [r \in Ranks |-> m]
        /\ coord' = [r \in Ranks |-> Reorder(m, coord[r])]
        /\ close' = [r \in Ranks |-> DealtClose(r, AllPairs \ F, settings[r].useSymmetry)]
        /\ far' = [r \in Ranks |-> DealtFar(r, F, settings[r].useSymmetry)]
        /\ \/ phase' = [r \in Ranks |-> "lost"]
           \/ phase' = [r \in Ranks |-> "idle"] /\ next' = [r \in Ranks |-> next[r] + 1]
  BY DEF Update, Together
<1>7. UNCHANGED <<program, settings, u, check, uArray, report>>
  BY DEF Update, products
<1>8. CASE phase' = [r \in Ranks |-> "lost"]
  BY <1>8 DEF AllLost
<1>9. CASE phase' = [r \in Ranks |-> "idle"] /\ next' = [r \in Ranks |-> next[r] + 1]
  <2>1. \A r \in Ranks : phase'[r] = "idle" /\ next'[r] = n + 1
    BY <1>3, <1>9
  <2>2. \A r \in Ranks : Settled(r)'
    <3> TAKE r \in Ranks
    <3>1. \A nm \in SetterNames : settings[r][nm] = SettingOf(program, n, nm)
      BY <1>3 DEF AllRight, Alone, Settled
    <3>2. ASSUME NEW nm \in SetterNames
          PROVE  settings[r][nm] = SettingOf(program, n + 1, nm)
      <4>1. SettingOf(program, n + 1, nm)
              = IF program[n].op = nm THEN Value(program[n]) ELSE SettingOf(program, n, nm)
        BY <1>4, SettingNext
      <4>2. program[n].op # nm
        BY <1>5 DEF SetterNames
      <4> QED BY <3>1, <4>1, <4>2
    <3> QED BY <1>7, <2>1, <3>2 DEF Settled
  <2>3. \A r \in Ranks : Replied(r)'
    <3> TAKE r \in Ranks
    <3>1. next'[r] - 1 = n /\ program' = program
      BY <1>4, <1>7, <2>1
    <3> QED BY <1>5, <3>1 DEF Replied, Justified
  <2>4. \A r \in Ranks : Alone(r)'
    BY <2>1, <2>2, <2>3 DEF Alone, Doing, Halfway, Summed
  <2>5. InStep'
    <3>1. \A r \in Ranks : Part(r)' = 0
      BY <2>1 DEF Part, PartOf
    <3> QED BY <1>4, <2>1, <3>1, StepTogether
  <2>6. Listed'
    <3>1. PICK symmetry : symmetry = SettingOf(program, n, "useSymmetry")
      OBVIOUS
    <3>2. \A r \in Ranks : settings[r].useSymmetry = symmetry
      BY <1>3, <3>1 DEF AllRight, Alone, Settled, SetterNames
    <3>3. close' = [r \in Ranks |-> DealtClose(r, AllPairs \ F, symmetry)]
          /\ far' = [r \in Ranks |-> DealtFar(r, F, symmetry)]
      BY <1>6, <3>2
    <3>4. IsDeal(close', AllPairs \ F, symmetry) /\ IsDeal(far', F, symmetry)
      <4>1. AllPairs \ F \in SUBSET AllPairs /\ F \in SUBSET AllPairs
        BY DEF FarSets
      <4> QED BY <3>3, <4>1, CloseIsDeal, FarIsDeal
    <3>5. \A r \in Ranks : coord'[r] = Ordered(n, m)
      <4> TAKE r \in Ranks
      <4>1. coord[r] = [p \in Positions |-> <<n, p>>]
        BY <1>1, <1>3 DEF AllRight, Alone
      <4>2. \A p \in Positions : m[p] \in Positions
        BY DEF Orders, Particles, Positions
      <4>3. Reorder(m, [p \in Positions |-> <<n, p>>]) = Ordered(n, m)
        BY <4>2 DEF Reorder, Ordered
      <4> QED BY <1>6, <4>1, <4>3
    <3>6. IsLastUpdate(program, n + 1, n)
      BY <1>4, <1>5, LastUpdateNext
    <3>7. ListedBy(n, m, F)'
      BY <1>6, <1>7, <2>1, <3>1, <3>4, <3>5, <3>6 DEF ListedBy
    <3> QED BY <1>4, <1>7, <3>7 DEF Listed
  <2>7. Arrays'
    BY <1>7 DEF AllRight, Arrays
  <2> QED BY <2>4, <2>5, <2>6, <2>7 DEF AllRight
<1> QED BY <1>6, <1>8, <1>9

\* All go on together, in the same call.
LEMMA AllMove ==
  ASSUME TypeOK, AllRight, NEW where \in {"closed", "sum", "checked"},
         \A r \in Ranks : phase[r] = where,
         UNCHANGED <<program, next, settings, coord, map, close, far, uArray>>,
         \A r \in Ranks : phase'[r] \notin {"idle", "update", "lost"},
         \A r, s \in Ranks : next[r] = next[s] => Part(r)' = Part(s)',
         Arrays', \A r \in Ranks : Doing(r)' /\ Halfway(r)' /\ Summed(r)'
  PROVE  AllRight'
<1>1. \A r \in Ranks : Settled(r)'
  BY DEF AllRight, Alone, Settled
<1>2. \A r \in Ranks : Alone(r)'
  BY <1>1 DEF Alone, Replied
<1>3. \A r, s \in Ranks : next[r] = next[s]
  BY SameCall DEF AllRight, Alone
<1>4. InStep'
  BY <1>3, NextType, StepTogether
<1>5. (Listed \/ Unlisted)'
  BY StaysListed DEF AllRight
<1> QED BY <1>2, <1>4, <1>5 DEF AllRight

\* The barrier between the two parts of dot changes no velocities.
LEMMA EnterFarAnswers ==
  ASSUME TypeOK, AllRight, EnterFarDot
  PROVE  AllRight'
<1>1. /\ \A r \in Ranks : phase[r] = "closed" /\ phase'[r] = "far"
      /\ UNCHANGED <<program, next, settings, coord, map, close, far, u, check, uArray, report>>
  BY DEF EnterFarDot, Together, model, products
<1>2. \A r \in Ranks : Doing(r)'
  BY <1>1 DEF AllRight, Alone, Doing
<1>3. \A r \in Ranks : DotClose(r)' = DotClose(r)
  BY <1>1 DEF DotClose
<1>4. \A r \in Ranks : Halfway(r)' /\ Summed(r)'
  BY <1>1, <1>3 DEF AllRight, Alone, Halfway, Summed
<1>5. \A r \in Ranks : Part(r)' = 1
  BY <1>1 DEF Part, PartOf
<1>6. Arrays'
  BY <1>1 DEF AllRight, Arrays
<1> QED BY <1>1, <1>2, <1>4, <1>5, <1>6, AllMove

\* What all ranks have in a reduction.
LEMMA AtReduction ==
  ASSUME TypeOK, AllRight, NEW where \in {"sum", "checked"},
         \A r \in Ranks : phase[r] = where
  PROVE  \E n \in Nat, k \in 1 .. Len(program), m \in Orders, F \in FarSets :
           /\ LastUpdateOf(program, n) = k
           /\ IsDeal(close, AllPairs \ F, SettingOf(program, k, "useSymmetry"))
           /\ IsDeal(far, F, SettingOf(program, k, "useSymmetry"))
           /\ \A r \in Ranks :
                /\ next[r] = n /\ map[r] = m /\ coord[r] = Ordered(k, m)
                /\ \A name \in SetterNames : settings[r][name] = SettingOf(program, n, name)
<1>1. PICK n : n = next[0]
  OBVIOUS
<1>2. (\A r \in Ranks : next[r] = n) /\ n \in Nat
  <2>1. \A r \in Ranks : Doing(r)
    BY DEF AllRight, Alone
  <2>2. \A r, s \in Ranks : next[r] = next[s]
    BY <2>1, SameCall DEF AllRight
  <2> QED BY <1>1, <2>2, SomeRank, NextType
<1>3. ~ Unlisted
  BY SomeRank DEF AllRight, Alone, Doing, Unlisted
<1>4. PICK k \in 1 .. Len(program), m \in Orders, F \in FarSets : ListedBy(k, m, F)
  BY <1>3 DEF AllRight, Listed
<1>5. LastUpdateOf(program, n) = k
  <2>1. IsLastUpdate(program, n, k)
    BY <1>2, <1>4, SomeRank DEF ListedBy
  <2> QED BY <1>2, <2>1, LastUpdateUnique
<1>6. \A r \in Ranks : \A name \in SetterNames : settings[r][name] = SettingOf(program, n, name)
  BY <1>2 DEF AllRight, Alone, Settled
<1>7. \A r \in Ranks : next[r] = n /\ map[r] = m /\ coord[r] = Ordered(k, m)
  BY <1>2, <1>4 DEF ListedBy
<1>8. /\ IsDeal(close, AllPairs \ F, SettingOf(program, k, "useSymmetry"))
      /\ IsDeal(far, F, SettingOf(program, k, "useSymmetry"))
  BY <1>4 DEF ListedBy
<1> QED BY <1>2, <1>5, <1>6, <1>7, <1>8

\* A reduction has a bag at each position.
LEMMA SumHasBags ==
  ASSUME NEW v
  PROVE  IsVelocities(SumOf(v))
<1>1. PICK w : SumOf(v) = [p \in Positions |-> w[p]]
  BY SumIsVelocities
<1>2. \A p \in Positions : SumOf(v)[p] = w[p]
  BY <1>1
<1>3. PICK x : x = SumOf(v)
  OBVIOUS
<1>4. x = [p \in Positions |-> x[p]]
  BY <1>1, <1>2, <1>3
<1> QED BY <1>3, <1>4 DEF IsVelocities

\* The rows of all ranks are the product, if there is room for a block.
LEMMA DenseIsProduct ==
  ASSUME NEW n, NEW k, NEW m \in Orders, NEW v, Room(program, n),
         \A r \in Ranks :
           /\ map[r] = m /\ coord[r] = Ordered(k, m) /\ v[r] = DenseRows(r)
           /\ settings[r].maxRelativeCoord = SettingOf(program, n, "maxRelativeCoord")
  PROVE  SumOf(v) = ProductAt(k, m)
<1>1. \A r \in Ranks : RowsIf(settings[r].maxRelativeCoord, r) = RowsOfRank(r)
  BY DEF RowsIf, Room
<1>2. \A r \in Ranks : v[r] = PlusOf(Ordered(k, m), m, Nothing, RowsOfRank(r))
  BY <1>1 DEF DenseRows
<1>3. SumOf(v) = RowsOf(k, m, AllPairs)
  BY <1>2, DenseAddsAll
<1> QED BY <1>3, AllRows

\* The reduction of u gives the product, when it has to.
LEMMA SumAnswers ==
  ASSUME TypeOK, AllRight, Sum
  PROVE  AllRight'
<1>1. /\ \A r \in Ranks : phase[r] = "sum" /\ phase'[r] = AfterSum(r) /\ u'[r] = SumOf(u)
      /\ UNCHANGED <<program, next, settings, coord, map, close, far, check, uArray, report>>
      /\ DOMAIN u' = Ranks
  BY DEF Sum, model
<1>2. PICK n \in Nat, k \in 1 .. Len(program), m \in Orders, F \in FarSets :
        /\ LastUpdateOf(program, n) = k
        /\ IsDeal(close, AllPairs \ F, SettingOf(program, k, "useSymmetry"))
        /\ IsDeal(far, F, SettingOf(program, k, "useSymmetry"))
        /\ \A r \in Ranks :
             /\ next[r] = n /\ map[r] = m /\ coord[r] = Ordered(k, m)
             /\ \A name \in SetterNames : settings[r][name] = SettingOf(program, n, name)
  BY <1>1, AtReduction
<1>3. /\ program[n].op \in {"dot", "dense_dot"} /\ m # <<>>
      /\ \A r \in Ranks : Doing(r) /\ Halfway(r)
  BY <1>1, <1>2, SomeRank DEF AllRight, Alone, Doing
<1>4. ASSUME program[n].op = "dot", SymmetryKept(program, n)
      PROVE  SumOf(u) = ProductAt(k, m)
  <2>1. PICK symmetry : symmetry = SettingOf(program, k, "useSymmetry")
    OBVIOUS
  <2>2. \A r \in Ranks : settings[r].useSymmetry = symmetry
    BY <1>2, <1>4, <2>1 DEF SymmetryKept, SetterNames
  <2>3. symmetry \in BOOLEAN
    BY <2>2, SomeRank DEF TypeOK, Settings
  <2>4. PICK near : near = close
    OBVIOUS
  <2>5. PICK away : away = far
    OBVIOUS
  <2>6. PICK v : v = u
    OBVIOUS
  <2>7. \A r \in Ranks :
          v[r] = FarSum(Ordered(k, m), m, symmetry,
                        CloseSum(Ordered(k, m), m, symmetry, Nothing, near[r]), away[r])
    BY <1>1, <1>2, <1>3, <1>4, <2>2, <2>4, <2>5, <2>6 DEF Halfway, DotFar, DotClose
  <2>8. SumOf(v) = RowsOf(k, m, AllPairs)
    BY <1>2, <2>1, <2>3, <2>4, <2>5, <2>7, DotAddsAll
  <2> QED BY <2>6, <2>8, AllRows
<1>5. ASSUME program[n].op = "dense_dot", Room(program, n)
      PROVE  SumOf(u) = ProductAt(k, m)
  <2>1. PICK v : v = u
    OBVIOUS
  <2>2. \A r \in Ranks :
          /\ map[r] = m /\ coord[r] = Ordered(k, m) /\ v[r] = DenseRows(r)
          /\ settings[r].maxRelativeCoord = SettingOf(program, n, "maxRelativeCoord")
    BY <1>1, <1>2, <1>3, <1>5, <2>1 DEF Halfway, SetterNames
  <2>3. SumOf(v) = ProductAt(k, m)
    BY <1>5, <2>2, DenseIsProduct
  <2> QED BY <2>1, <2>3
<1>6. \A r \in Ranks :
        phase'[r] = IF program[n].op = "dot" /\ Checked(program, n) THEN "check" ELSE "back"
  BY <1>1, <1>2 DEF AfterSum, Checked, SetterNames
<1>7. \A r \in Ranks : IsProduct(r)' <=> SumOf(u) = ProductAt(k, m)
  BY <1>1, <1>2 DEF IsProduct
<1>8. \A r \in Ranks : IsVelocities(u'[r])
  BY <1>1, SumHasBags
<1>9. \A r \in Ranks : Summed(r)'
  <2> TAKE r \in Ranks
  <2>1. next'[r] = n /\ program' = program
    BY <1>1, <1>2
  <2>2. CASE program[n].op = "dot" /\ Checked(program, n)
    BY <1>4, <1>6, <1>7, <1>8, <2>1, <2>2 DEF Summed
  <2>3. CASE ~ (program[n].op = "dot" /\ Checked(program, n))
    BY <1>3, <1>4, <1>5, <1>6, <1>7, <1>8, <2>1, <2>3 DEF Summed, Justified
  <2> QED BY <2>2, <2>3
<1>10. \A r \in Ranks : Doing(r)'
  BY <1>1, <1>2, <1>3, <1>6 DEF Doing
<1>11. \A r \in Ranks : Halfway(r)'
  BY <1>6 DEF Halfway
<1>12. \A r, s \in Ranks : Part(r)' = Part(s)'
  BY <1>1, <1>2, <1>6 DEF Part
<1>13. Arrays'
  BY <1>1 DEF AllRight, Arrays
<1>14. \A r \in Ranks : phase'[r] \notin {"idle", "update", "lost"}
  BY <1>6
<1> QED BY <1>1, <1>9, <1>10, <1>11, <1>12, <1>13, <1>14, AllMove

\* The post check compares u with the product.
LEMMA CompareAnswers ==
  ASSUME TypeOK, AllRight, Compare
  PROVE  AllRight'
<1>1. /\ \A r \in Ranks : phase[r] = "checked" /\ phase'[r] = "back"
      /\ \A r \in Ranks : check'[r] = SumOf(check) /\ report'[r] = Report(r, SumOf(check))
      /\ UNCHANGED <<program, next, settings, coord, map, close, far, u, uArray>>
      /\ DOMAIN check' = Ranks
  BY DEF Compare, Together, model
<1>2. PICK n \in Nat, k \in 1 .. Len(program), m \in Orders, F \in FarSets :
        /\ LastUpdateOf(program, n) = k
        /\ \A r \in Ranks :
             /\ next[r] = n /\ map[r] = m /\ coord[r] = Ordered(k, m)
             /\ \A name \in SetterNames : settings[r][name] = SettingOf(program, n, name)
  BY <1>1, AtReduction
<1>3. \A r \in Ranks : Doing(r) /\ Halfway(r) /\ Summed(r)
  BY DEF AllRight, Alone
<1>4. \A r \in Ranks : IsProduct(r)' <=> IsProduct(r)
  BY <1>1 DEF IsProduct
<1>5. ASSUME Room(program, n), NEW r \in Ranks
      PROVE  report'[r] = IF IsProduct(r) THEN "same" ELSE "differs"
  <2>1. PICK v : v = check
    OBVIOUS
  <2>2. \A s \in Ranks :
          /\ map[s] = m /\ coord[s] = Ordered(k, m) /\ v[s] = DenseRows(s)
          /\ settings[s].maxRelativeCoord = SettingOf(program, n, "maxRelativeCoord")
    BY <1>1, <1>2, <1>3, <2>1 DEF Halfway, SetterNames
  <2>3. SumOf(v) = ProductAt(k, m)
    BY <1>5, <2>2, DenseIsProduct
  <2>4. ProductAt(k, m) # Nothing
    BY ProductIsSomething
  <2>5. IsProduct(r) <=> u[r] = ProductAt(k, m)
    BY <1>2 DEF IsProduct
  <2> QED BY <1>1, <2>1, <2>3, <2>4, <2>5 DEF Report
<1>6. \A r \in Ranks : Summed(r)'
  <2> TAKE r \in Ranks
  <2>1. next'[r] = n /\ next[r] = n /\ program' = program /\ program[n].op = "dot"
    BY <1>1, <1>2, <1>3 DEF Doing
  <2>2. IsVelocities(u'[r])
    BY <1>1, <1>3 DEF Summed
  <2>3. Justified(program, n, IsProduct(r), report'[r])
    BY <1>1, <1>3, <1>5, <2>1 DEF Justified, Summed
  <2> QED BY <1>1, <1>4, <2>1, <2>2, <2>3 DEF Summed, Justified
<1>7. \A r \in Ranks : Doing(r)' /\ Halfway(r)'
  BY <1>1, <1>3 DEF Doing, Halfway
<1>8. \A r \in Ranks : Part(r)' = 3
  BY <1>1 DEF Part, PartOf
<1>9. Arrays'
  BY <1>1 DEF AllRight, Arrays
<1> QED BY <1>1, <1>6, <1>7, <1>8, <1>9, AllMove

-----------------------------------------------------------------------------
\* A lost job stays lost.
LEMMA LostStays == ASSUME AllLost, Next PROVE AllLost'
<1>1. \A r \in Ranks : phase[r] = "lost"
  BY DEF AllLost
<1>2. \A r \in Ranks : RankStep(r) => FALSE
  <2> SUFFICES ASSUME NEW r \in Ranks, RankStep(r) PROVE FALSE
    OBVIOUS
  <2> QED BY <1>1 DEF RankStep, Set, UpdateCoord, EnterProduct, Calls, CloseDot, FarDot, Spin,
                      DenseDot, PostCheckDot, Return
<1>3. ~ Collective
  BY <1>1, SomeRank DEF Collective, Update, EnterFarDot, Sum, Compare, Together
<1>4. Stop => phase' = phase
  BY DEF Stop, vars
<1> QED BY <1>1, <1>2, <1>3, <1>4 DEF Next, AllLost

\* What changes nothing keeps the invariant.
LEMMA AnswersStay == ASSUME AnswersInv, UNCHANGED vars PROVE AnswersInv'
<1>1. UNCHANGED <<program, next, phase, settings, coord, map, close, far, u, check, uArray, report>>
  BY DEF vars, model, products
<1>2. CASE AllLost
  <2>1. AllLost'
    BY <1>1, <1>2 DEF AllLost
  <2> QED BY <2>1 DEF AnswersInv
<1>3. CASE AllRight
  <2>1. \A r \in Ranks : StillAt(r)
    BY <1>1 DEF StillAt
  <2>2. \A r \in Ranks : Alone(r)'
    BY <1>3, <2>1, StaysAlone DEF AllRight
  <2>3. InStep'
    BY <1>1, <1>3 DEF AllRight, InStep, Part
  <2>4. (Listed \/ Unlisted)'
    BY <1>1, <1>3 DEF AllRight, Listed, ListedBy, Unlisted
  <2>5. Arrays'
    BY <1>1, <1>3 DEF AllRight, Arrays
  <2>6. AllRight'
    BY <2>2, <2>3, <2>4, <2>5 DEF AllRight
  <2> QED BY <2>6 DEF AnswersInv
<1> QED BY <1>2, <1>3 DEF AnswersInv

\* Before the first call nothing is answered.
LEMMA InitAnswers == Init => AnswersInv
<1> SUFFICES ASSUME Init PROVE AnswersInv
  OBVIOUS
<1>1. \A r \in Ranks : /\ next[r] = 1 /\ phase[r] = "idle" /\ settings[r] = Defaults
                       /\ map[r] = <<>>
  BY DEF Init
<1>2. \A r \in Ranks : Settled(r)
  <2>1. \A name : SettingOf(program, 1, name) = Defaults[name]
    BY DEF SettingOf
  <2> QED BY <1>1, <2>1 DEF Settled
<1>3. \A r \in Ranks : Alone(r)
  BY <1>1, <1>2 DEF Alone, Doing, Halfway, Summed, Replied
<1>4. InStep
  <2>1. \A r \in Ranks : Part(r) = 0
    BY <1>1 DEF Part, PartOf
  <2> QED BY <1>1, <2>1 DEF InStep
<1>5. Arrays
  BY DEF Init, Arrays
<1> QED BY <1>1, <1>3, <1>4, <1>5 DEF AnswersInv, AllRight, Unlisted

\* Every step keeps the invariant.
LEMMA NextAnswers == IInv /\ AnswersInv /\ [Next]_vars => AnswersInv'
<1> SUFFICES ASSUME IInv, AnswersInv, [Next]_vars PROVE AnswersInv'
  OBVIOUS
<1>0. TypeOK /\ InCall
  BY DEF IInv
<1>1. CASE AllLost /\ Next
  BY <1>1, LostStays DEF AnswersInv
<1>2. CASE AllRight /\ Lost
  <2>1. AllLost'
    BY <1>2 DEF Lost, AllLost
  <2> QED BY <2>1 DEF AnswersInv
<1>3. ASSUME AllRight, ~Lost, NEW r \in Ranks, RankStep(r) PROVE AnswersInv'
  <2>1. CASE Spin(r)
    <3>1. UNCHANGED vars
      BY <2>1 DEF Spin
    <3> QED BY <1>3, <3>1, AnswersStay
  <2> QED BY <1>0, <1>3, <2>1, SetAnswers, UpdateCoordAnswers, EnterAnswers, ProductAnswers,
             ReturnAnswers DEF RankStep, AnswersInv
<1>4. CASE AllRight /\ Collective
  BY <1>0, <1>4, UpdateAnswers, EnterFarAnswers, SumAnswers, CompareAnswers
     DEF Collective, AnswersInv
<1>5. CASE UNCHANGED vars
  BY <1>5, AnswersStay
<1>6. Stop => UNCHANGED vars
  BY DEF Stop
<1> QED BY <1>1, <1>2, <1>3, <1>4, <1>5, <1>6 DEF Next, AnswersInv

\* What the invariant says of the answers.
LEMMA AnswersFollow == AnswersInv => AnswersRight
<1> SUFFICES ASSUME AnswersInv PROVE AnswersRight
  OBVIOUS
<1>1. CASE AllLost
  BY <1>1 DEF AllLost, AnswersRight, Answered
<1>2. CASE AllRight
  <2> SUFFICES
        ASSUME NEW r \in Ranks
        PROVE  LET k == next[r] - 1
                   room == SettingAt(k, "maxRelativeCoord") >= BlockSize * BlockSize
               IN  /\ Answered(r, "dot")
                    /\ SettingAt(k, "useSymmetry") = SettingAt(LastUpdate(k), "useSymmetry")
                        => IsRight(r, k)
                   /\ Answered(r, "dense_dot") /\ room => IsRight(r, k)
                   /\ Answered(r, "dot") /\ room /\ SettingAt(k, "postCheckFlag")
                        => report[r] = IF IsRight(r, k) THEN "same" ELSE "differs"
    BY DEF AnswersRight
  <2>1. PICK n : n = next[r] - 1
    OBVIOUS
  <2>2. \A k, name : SettingAt(k, name) = SettingOf(program, k, name)
    BY SettingIsSettingOf
  <2>3. LastUpdate(n) = LastUpdateOf(program, n)
    BY LastUpdateIsLastUpdateOf
  <2>4. IsRight(r, n) <=> GotAnswer(r)
    <3>1. \A a : Velocity(n, a) = VelocityAt(LastUpdate(n), a)
      BY DEF Velocity, VelocityAt
    <3>2. [a \in Particles |-> Velocity(n, a)] = Answer(LastUpdate(n))
      BY <3>1 DEF Answer
    <3> QED BY <2>1, <2>3, <3>2 DEF IsRight, GotAnswer
  <2>5. ASSUME NEW op, Answered(r, op)
        PROVE  Justified(program, n, GotAnswer(r), report[r]) /\ program[n].op = op
    BY <1>2, <2>1, <2>5 DEF Answered, AllRight, Alone, Replied
  <2>6. Room(program, n) <=> SettingAt(n, "maxRelativeCoord") >= BlockSize * BlockSize
    BY <2>2 DEF Room
  <2>7. Checked(program, n) <=> SettingAt(n, "postCheckFlag")
    BY <2>2 DEF Checked
  <2>8. SymmetryKept(program, n)
          <=> SettingAt(n, "useSymmetry") = SettingAt(LastUpdate(n), "useSymmetry")
    BY <2>2, <2>3 DEF SymmetryKept
  <2>9. /\ Answered(r, "dot")
                    /\ SettingAt(n, "useSymmetry") = SettingAt(LastUpdate(n), "useSymmetry")
             => IsRight(r, n)
        /\ Answered(r, "dense_dot") /\ SettingAt(n, "maxRelativeCoord") >= BlockSize * BlockSize
             => IsRight(r, n)
        /\ Answered(r, "dot") /\ SettingAt(n, "maxRelativeCoord") >= BlockSize * BlockSize
             /\ SettingAt(n, "postCheckFlag")
             => report[r] = IF IsRight(r, n) THEN "same" ELSE "differs"
    BY <2>4, <2>5, <2>6, <2>7, <2>8 DEF Justified
  <2> QED BY <2>1, <2>9
<1> QED BY <1>1, <1>2 DEF AnswersInv

\* Unless the job is lost, no rank is ahead of another by more than setters and
\* returns: ranks that wait in a collective wait in that of the same call, which
\* none has passed (the Allreduce and the barriers of Dot, UpdateCoord).
THEOREM RanksStayInStep == Spec => [](AllLost \/ InStep)
<1>1. Init => IInv /\ AnswersInv
  BY InitInv, InitAnswers
<1>2. IInv /\ AnswersInv /\ [Next]_vars => (IInv /\ AnswersInv)'
  BY NextInv, NextAnswers
<1>3. AnswersInv => AllLost \/ InStep
  BY DEF AnswersInv, AllRight
<1> QED BY <1>1, <1>2, <1>3, PTL DEF Spec

\* For any program of calls, any number of ranks and particles, every order of
\* the particles and all far pairs: what dot and dense_dot return to a caller is
\* the product of the whole matrix at the coordinates of the last update, on every
\* rank, each velocity at its particle's place, if the symmetry flag is that of
\* the update or, for dense_dot, there is room for a block; and the post check
\* says whether dot was right (Dot, DenseDot, PostCheckDot).
THEOREM AnswersAreRight == Spec => []AnswersRight
<1>1. Init => IInv /\ AnswersInv
  BY InitInv, InitAnswers
<1>2. IInv /\ AnswersInv /\ [Next]_vars => (IInv /\ AnswersInv)'
  BY NextInv, NextAnswers
<1> QED BY <1>1, <1>2, AnswersFollow, PTL DEF Spec
=============================================================================
