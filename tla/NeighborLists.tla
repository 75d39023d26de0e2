--------------------------- MODULE NeighborLists ---------------------------
(***************************************************************************)
(* The classes NeighborLists and PotentialForce: an object is given its    *)
(* settings and coordinates by calls in any order, builds tables of pairs  *)
(* and triples of near particles from them, and gives out whole tables or  *)
(* the rows of some particles.  The two classes have the same settings and *)
(* the same search; "object" says which one this is.                       *)
(***************************************************************************)
EXTENDS PointSearch

CONSTANTS
  Coords,   \* the coordinates a caller may pass, sequences of sites
  Radii,    \* the radii a caller may set
  IntMax,   \* the largest int (2^31 - 1 in the code)
  SizeMod,  \* the number of values of std::size_t (2^64)
  MaxRows,  \* the rows a table can have before its allocation fails
  MaxTargets,  \* bound on the particles a caller asks for the rows of
  MaxCalls     \* bound on the calls of a behaviour

UIntMod == 2 * (IntMax + 1)

\* size_t is wider than int; a table is not too long for unsigned int, which
\* the getters count in, nor the answer of a getter for size_t.
ASSUME ListsAssumption ==
  /\ Coords \subseteq Seq(Sites) /\ <<>> \notin Coords
  /\ Radii \subseteq Nat \ {0}
  /\ IntMax \in Nat /\ MaxRows \in Nat /\ MaxRows < UIntMod
  /\ SizeMod \in Nat /\ SizeMod >= 2 * UIntMod /\ SizeMod % UIntMod = 0
  /\ MaxTargets \in Nat /\ MaxTargets * MaxRows < SizeMod
  /\ MaxCalls \in Nat

VARIABLES
  object,    \* "NeighborLists" or "PotentialForce"
  periodic,  \* mIsPeriodicBoundary
  domainSet, \* whether mDomainLow and mDomainHigh were ever written
  epsilon2, epsilon3,  \* mTwoBodyEpsilon, mThreeBodyEpsilon
  coord,     \* mTargetSites, <<>> before the first UpdateCoord
  width,     \* columns of mTargetNeighborLists
  twoBody,   \* mTwoBodyEdgeNum, -Offset, -Info
  threeBody, \* mThreeBodyEdgeNum, -Offset, -Info
  threeSelf, \* mThreeBodyEdgeSelfNum, -Offset, -Info
  force,     \* mPotentialForce: the separations each particle's sum is over
  status,    \* of the last call: "ok", "failed" (thrown) or "undefined"
  calls      \* how many calls were made

settings == <<periodic, domainSet, epsilon2, epsilon3>>
tables == <<twoBody, threeBody, threeSelf, force>>
listVars == <<object, settings, coord, width, tables, status, calls>>

\* "built" says whether the rows match num and offset, "from" what they were
\* made from: a history of the settings and the coordinates.
NoSource == [coord |-> <<>>, periodic |-> FALSE, eps |-> 0, images |-> 0]
NoTable == [built |-> FALSE, num |-> <<>>, offset |-> <<>>, rows |-> <<>>,
            from |-> NoSource]
NoForce == [built |-> FALSE, terms |-> <<>>, from |-> NoSource]

ListsInit ==
  /\ object \in {"NeighborLists", "PotentialForce"}
  /\ periodic = FALSE /\ domainSet = FALSE
  /\ epsilon2 = 0 /\ epsilon3 = 0
  /\ coord = <<>> /\ width = 0
  /\ twoBody = NoTable /\ threeBody = NoTable /\ threeSelf = NoTable
  /\ force = NoForce
  /\ status = "ok" /\ calls = 0

Call ==
  /\ status # "undefined" /\ calls < MaxCalls
  /\ calls' = calls + 1
  /\ UNCHANGED object

-----------------------------------------------------------------------------
(* Settings *)

SetPeriodic(flag) ==
  /\ Call
  /\ periodic' = flag /\ status' = "ok"
  /\ UNCHANGED <<domainSet, epsilon2, epsilon3, coord, width, tables>>

\* A domain also makes the boundaries periodic.
SetDomain ==
  /\ Call
  /\ domainSet' = TRUE /\ periodic' = TRUE /\ status' = "ok"
  /\ UNCHANGED <<epsilon2, epsilon3, coord, width, tables>>

SetTwoBodyEpsilon(eps) ==
  /\ Call
  /\ epsilon2' = eps /\ status' = "ok"
  /\ UNCHANGED <<periodic, domainSet, epsilon3, coord, width, tables>>

SetThreeBodyEpsilon(eps) ==
  /\ Call /\ object = "NeighborLists"
  /\ epsilon3' = eps /\ status' = "ok"
  /\ UNCHANGED <<periodic, domainSet, epsilon2, coord, width, tables>>

\* New sites and lists of two columns; the tables stay as they are.
UpdateCoord(c) ==
  /\ Call /\ object = "NeighborLists"
  /\ coord' = c /\ width' = 2 /\ status' = "ok"
  /\ UNCHANGED <<settings, tables>>

-----------------------------------------------------------------------------
(* Tables *)

\* size_t arithmetic: one less than nothing is the largest number.
LessSigned(n, k) == n - k
Less(n, k) == (n - k) % SizeMod
AsInt(n) == ((n + IntMax + 1) % UIntMod) - (IntMax + 1)
AsUnsigned(n) == n % UIntMod

\* parallel_scan: a row of the table starts where the rows before it end.
Scan(num) ==
  LET sum[i \in 0 .. Len(num)] == IF i = 0 THEN 0 ELSE (sum[i - 1] + num[i]) % SizeMod
  IN  sum
TotalOf(num) == Scan(num)[Len(num)]
OffsetsInclusive(num) == [i \in DOMAIN num |-> Scan(num)[i]]
Offsets(num) == [i \in DOMAIN num |-> Scan(num)[i - 1]]

\* The table whose particle i has the given entries, written from its offset.
Rows(num, offset, entries) ==
  [k \in 1 .. TotalOf(num) |->
     LET owners == {i \in DOMAIN num : k \in offset[i] + 1 .. offset[i] + num[i]}
     IN  IF owners = {} THEN <<>>
         ELSE LET i == CHOOSE i \in owners : TRUE IN entries[i][k - offset[i]]]

\* An impossible allocation throws after num and offset were written.
Allocated(count) == 0 <= count /\ count <= MaxRows

\* Every particle writes as many rows as it was counted to have, and together
\* they write the table that was allocated.
EntriesFit(num, count, entries) ==
  /\ \A i \in DOMAIN num : Len(entries[i]) = num[i]
  /\ Starts(num)[Len(num)] = count

\* What resizing num and offset makes of a table, and then filling the rows.
Counted(table, num) ==
  [built |-> FALSE, num |-> num, offset |-> Offsets(num),
   rows |-> table.rows, from |-> table.from]
Filled(num, entries, from) ==
  [built |-> TRUE, num |-> num, offset |-> Offsets(num),
   rows |-> Rows(num, Offsets(num), entries), from |-> from]

\* A search reads coordinates and, in a periodic domain, its bounds.
SearchDefined(c) == c # <<>> /\ (periodic => domainSet)

From(c, eps) == [coord |-> c, periodic |-> periodic, eps |-> eps, images |-> epsilon2]

\* BuildSourceSites always makes the images of the two-body radius.
Sources(c) == SourceSites(c, periodic, epsilon2)
Search(c, eps, ascending, columns) ==
  TargetNeighborLists(c, Sources(c), eps, ascending, columns)

\* How a build ends: entries that do not fit are written past their rows.
Outcome(allocated, fit) ==
  IF ~allocated THEN "failed" ELSE IF fit THEN "ok" ELSE "undefined"

\* All of a list but its first, where the particle itself should be.
Others(list) == [n \in 1 .. (IF list = <<>> THEN 0 ELSE Len(list) - 1) |-> list[n + 1]]

\* A pair names the target and its neighbour, which is looked up in
\* mSourceIndex although the list already names a particle.
PairEntries(lists, sources) ==
  [i \in DOMAIN lists |->
     [n \in DOMAIN Others(lists[i]) |-> <<i, sources[Others(lists[i])[n]].index>>]]

PairNum(lists) == [i \in DOMAIN lists |-> Less(Len(lists[i]), 1)]

\* The two-body rows are counted in an int.
PairCount(lists) == AsInt(TotalOf(PairNum(lists)))

BuildTwoBodyInfo(ascending) ==
  /\ Call /\ object = "NeighborLists"
  /\ IF ~SearchDefined(coord)
     THEN status' = "undefined" /\ UNCHANGED <<width, tables>>
     ELSE \E search \in {Search(coord, epsilon2, ascending, width)} :
          LET num     == PairNum(search.lists)
              count   == PairCount(search.lists)
              entries == PairEntries(search.lists, Sources(coord))
              fit     == ~search.overrun /\ EntriesFit(num, count, entries)
          IN  /\ width' = search.width
              /\ twoBody' = IF Allocated(count) /\ fit
                            THEN Filled(num, entries, From(coord, epsilon2))
                            ELSE Counted(twoBody, num)
              /\ status' = Outcome(Allocated(count), fit)
              /\ UNCHANGED <<threeBody, threeSelf, force>>
  /\ UNCHANGED <<settings, coord>>

\* A triple leads from i to a neighbour and on to a neighbour of that one; it
\* is counted as if i were among the neighbours of each neighbour of i.
TripleNumAll(lists) ==
  [i \in DOMAIN lists |->
     TotalOf([n \in DOMAIN Others(lists[i]) |-> Less(Len(lists[Others(lists[i])[n]]), 1)])]
TripleNum(lists) ==
  [i \in DOMAIN lists |->
     TotalOf([n \in DOMAIN Others(lists[i]) |-> Less(Len(lists[Others(lists[i])[n]]), 2)])]

Through(list, i, j) ==
  LET ends == Compacted(Others(list), {n \in DOMAIN Others(list) : Others(list)[n] # i})
  IN  [n \in DOMAIN ends |-> <<i, j, ends[n]>>]
TripleEntries(lists) ==
  [i \in DOMAIN lists |->
     Joined([n \in DOMAIN Others(lists[i]) |->
               LET j == Others(lists[i])[n] IN Through(lists[j], i, j)])]

SelfEntries(lists) ==
  [i \in DOMAIN lists |-> [n \in DOMAIN Others(lists[i]) |-> <<i, Others(lists[i])[n]>>]]

\* Both tables are allocated before either is filled.
BuildThreeBodyInfo(ascending) ==
  /\ Call /\ object = "NeighborLists"
  /\ IF ~SearchDefined(coord)
     THEN status' = "undefined" /\ UNCHANGED <<width, tables>>
     ELSE \E search \in {Search(coord, epsilon3, ascending, width)} :
          LET num       == TripleNum(search.lists)
              selfNum   == PairNum(search.lists)
              entries   == TripleEntries(search.lists)
              selves    == SelfEntries(search.lists)
              allocated == Allocated(TotalOf(num)) /\ Allocated(TotalOf(selfNum))
              fit       == /\ ~search.overrun
                           /\ EntriesFit(num, TotalOf(num), entries)
                           /\ EntriesFit(selfNum, TotalOf(selfNum), selves)
          IN  /\ width' = search.width
              /\ threeBody' = IF allocated /\ fit
                              THEN Filled(num, entries, From(coord, epsilon3))
                              ELSE Counted(threeBody, num)
              /\ threeSelf' = IF allocated /\ fit
                              THEN Filled(selfNum, selves, From(coord, epsilon3))
                              ELSE Counted(threeSelf, selfNum)
              /\ status' = Outcome(allocated, fit)
              /\ UNCHANGED <<twoBody, force>>
  /\ UNCHANGED <<settings, coord>>

\* PotentialForce: new coordinates, their pairs, and for each particle the
\* separations from its neighbours that are not at the same place.  A
\* neighbour's site is looked up in mSourceSites by the particle's number.
SeparationsFrom(site, list, sources) ==
  [n \in DOMAIN list |-> [a \in Axes |-> site[a] - sources[list[n]].site[a]]]

ForceTermsWithOwn(c, lists, sources) ==
  [i \in DOMAIN lists |-> SeparationsFrom(c[i], lists[i], sources)]
ForceTerms(c, lists, sources) ==
  [i \in DOMAIN lists |->
     LET separations == SeparationsFrom(c[i], Others(lists[i]), sources)
     IN  Compacted(separations,
                   {n \in DOMAIN separations : separations[n] # [a \in Axes |-> 0]})]

GetPotentialForce(c, ascending) ==
  /\ Call /\ object = "PotentialForce"
  /\ coord' = c
  /\ IF ~SearchDefined(c)
     THEN status' = "undefined" /\ width' = 2 /\ UNCHANGED tables
     ELSE \E search \in {Search(c, epsilon2, ascending, 2)} :
          LET num     == PairNum(search.lists)
              count   == PairCount(search.lists)
              entries == PairEntries(search.lists, Sources(c))
              fit     == ~search.overrun /\ EntriesFit(num, count, entries)
          IN  /\ width' = search.width
              /\ twoBody' = IF Allocated(count) /\ fit
                            THEN Filled(num, entries, From(c, epsilon2))
                            ELSE Counted(twoBody, num)
              /\ force' = IF Allocated(count)
                          THEN [built |-> fit,
                                terms |-> ForceTerms(c, search.lists, Sources(c)),
                                from |-> From(c, epsilon2)]
                          ELSE force
              /\ status' = Outcome(Allocated(count), fit)
              /\ UNCHANGED <<threeBody, threeSelf>>
  /\ UNCHANGED settings

Stop == (status = "undefined" \/ calls = MaxCalls) /\ UNCHANGED listVars

ListsNext ==
  \/ \E flag \in BOOLEAN : SetPeriodic(flag)
  \/ SetDomain
  \/ \E eps \in Radii : SetTwoBodyEpsilon(eps)
  \/ \E eps \in Radii : SetThreeBodyEpsilon(eps)
  \/ \E c \in Coords : UpdateCoord(c)
  \/ \E ascending \in BOOLEAN : BuildTwoBodyInfo(ascending)
  \/ \E ascending \in BOOLEAN : BuildThreeBodyInfo(ascending)
  \/ \E c \in Coords, ascending \in BOOLEAN : GetPotentialForce(c, ascending)
  \/ Stop

ListsSpec == ListsInit /\ [][ListsNext]_listVars

-----------------------------------------------------------------------------
(* What the tables give out *)

Mirrored(row) == [c \in 1 .. Len(row) |-> row[Len(row) + 1 - c]]

\* GetThreeBodyEdgeInfo, GetThreeBodyEdgeSelfInfo, GetTwoBodyEdgeInfo: all rows.
GetEdgeInfo(table) == table.rows

\* The rows of some particles, one after another, with the columns in
\* reverse order; a particle's offset is read into an unsigned int.
GetEdgeInfoByIndex(table, targets) ==
  LET num == [n \in DOMAIN targets |-> table.num[targets[n]]]
      offset == Offsets(num)
  IN  [k \in 1 .. TotalOf(num) |->
         LET n == CHOOSE n \in DOMAIN targets :
                    k \in offset[n] + 1 .. offset[n] + AsUnsigned(num[n])
         IN  Mirrored(table.rows[AsUnsigned(table.offset[targets[n]]) + k - offset[n]])]

\* The two-body rows of some particles: all other particles whatever the
\* radius, the table of pairs is not read.
GetTwoBodyEdgeInfoByIndex(targets) ==
  Joined([n \in DOMAIN targets |->
    LET others == DOMAIN coord \ {targets[n]}
    IN  [m \in 1 .. Cardinality(others) |-> <<Source(others, m), targets[n]>>]])

-----------------------------------------------------------------------------
TableType(table, rows) ==
  /\ table.built \in BOOLEAN
  /\ table.num \in Seq(0 .. SizeMod - 1)
  /\ table.offset \in Seq(0 .. SizeMod - 1)
  /\ DOMAIN table.num = DOMAIN table.offset
  /\ table.built => /\ Len(table.rows) <= MaxRows
                    /\ \A k \in DOMAIN table.rows : table.rows[k] \in rows

\* Every variable has its type; the rows of a finished table name particles.
ListsTypeOK ==
  /\ object \in {"NeighborLists", "PotentialForce"}
  /\ periodic \in BOOLEAN /\ domainSet \in BOOLEAN
  /\ epsilon2 \in Radii \cup {0} /\ epsilon3 \in Radii \cup {0}
  /\ coord \in Coords \cup {<<>>}
  /\ width \in Nat
  /\ LET particles(table) == DOMAIN table.from.coord
     IN  /\ TableType(twoBody, particles(twoBody) \X particles(twoBody))
         /\ TableType(threeSelf, particles(threeSelf) \X particles(threeSelf))
         /\ TableType(threeBody, particles(threeBody) \X particles(threeBody)
                                   \X particles(threeBody))
  /\ force.built \in BOOLEAN
  /\ status \in {"ok", "failed", "undefined"}
  /\ calls \in 0 .. MaxCalls

NearIn(from, i, j) == Near(from.coord, i, j, from.periodic, from.eps)
ParticlesOf(from) == 1 .. Len(from.coord)
PairsOf(from) ==
  {p \in ParticlesOf(from) \X ParticlesOf(from) :
     p[1] # p[2] /\ NearIn(from, p[1], p[2])}
TriplesOf(from) ==
  {t \in ParticlesOf(from) \X ParticlesOf(from) \X ParticlesOf(from) :
     /\ <<t[1], t[2]>> \in PairsOf(from) /\ <<t[2], t[3]>> \in PairsOf(from)
     /\ t[1] # t[3]}

\* The images that were made are enough for the radius that was searched.
Covered(from) ==
  from.periodic => from.eps <= from.images /\ FitsDomain(from.coord, from.images)

\* The entries of a sequence are the members of a set, each once.
EachOnce(seq, set) ==
  /\ {seq[k] : k \in DOMAIN seq} = set
  /\ \A k, l \in DOMAIN seq : seq[k] = seq[l] => k = l

\* The tables hold every pair and every triple of particles nearer than the
\* radius exactly once, in a periodic domain too where the distance is that of
\* the nearest image, whatever was called between the settings and the build
\* (the two-body table only without periodic boundaries, where the second
\* lookup of the neighbour is harmless).
WholeTables ==
  /\ twoBody.built /\ ~twoBody.from.periodic =>
       EachOnce(GetEdgeInfo(twoBody), PairsOf(twoBody.from))
  /\ threeSelf.built /\ Covered(threeSelf.from) =>
       EachOnce(GetEdgeInfo(threeSelf), PairsOf(threeSelf.from))
  /\ threeBody.built /\ Covered(threeBody.from) =>
       EachOnce(GetEdgeInfo(threeBody), TriplesOf(threeBody.from))

TargetLists(table) == UNION {[1 .. n -> DOMAIN table.num] : n \in 1 .. MaxTargets}

OfTargets(table, targets) ==
  Joined([n \in DOMAIN targets |->
    Compacted(table.rows, {k \in DOMAIN table.rows : table.rows[k][1] = targets[n]})])

\* The rows given out for some particles are exactly the rows of the whole
\* table that start at them, in the order asked for and mirrored: the offsets
\* kept from the last build still fit its rows.  The two-body rows given out
\* for a particle contain the mirrored rows of the table.
SlicesMatch ==
  /\ \A table \in {threeBody, threeSelf} :
       table.built =>
       \A targets \in TargetLists(table) :
        LET slice == GetEdgeInfoByIndex(table, targets)
            rows  == OfTargets(table, targets)
        IN  slice = [k \in DOMAIN rows |-> Mirrored(rows[k])]
  /\ twoBody.built /\ coord = twoBody.from.coord =>
      \A row \in {twoBody.rows[k] : k \in DOMAIN twoBody.rows} :
        row[1] # row[2] =>
          LET given == GetTwoBodyEdgeInfoByIndex(<<row[1]>>)
          IN  \E k \in DOMAIN given : given[k] = Mirrored(row)

\* Both: what the tables hold and what they give out for some particles.
EdgesExact == WholeTables /\ SlicesMatch

\* The separations that the force on a particle should be summed over: one for
\* each particle within the radius and not at the same place.
Attracting(from, i) ==
  {j \in ParticlesOf(from) : <<i, j>> \in PairsOf(from) /\ from.coord[i] # from.coord[j]}

\* The force on a particle is summed over each particle within the radius and
\* not at the same place exactly once, without periodic boundaries.
ForcesExact ==
  force.built /\ ~force.from.periodic =>
    \A i \in ParticlesOf(force.from) :
      \E attracting \in [DOMAIN force.terms[i] -> Attracting(force.from, i)] :
        /\ EachOnce(attracting, Attracting(force.from, i))
        /\ \A n \in DOMAIN force.terms[i] :
             force.terms[i][n] = Separation(force.from.coord, i, attracting[n], FALSE)

\* The triples of so many particles may not be counted by an int or not fit in
\* memory.
Crowded(c) ==
  LET triples == Len(c) * Len(c) * Len(c) IN triples > MaxRows \/ triples > IntMax

\* A build is undefined only without coordinates, with periodic boundaries
\* without a domain, or with images too few for the three-body radius; it
\* throws only there or with the radius the constructor leaves, under which no
\* particle finds itself; and both with too many particles.
StaysDefined ==
  /\ status = "undefined" =>
       \/ coord = <<>> \/ Crowded(coord)
       \/ periodic /\ ~domainSet
       \/ periodic /\ (epsilon3 > epsilon2 \/ ~FitsDomain(coord, epsilon2))
  /\ status = "failed" =>
       \/ Crowded(coord) \/ epsilon2 = 0
       \/ object = "NeighborLists" /\ epsilon3 = 0
       \/ periodic /\ (epsilon3 > epsilon2 \/ ~FitsDomain(coord, epsilon2))

-----------------------------------------------------------------------------
(* What the comments say of PotentialForce *)

\* Particles near the boundaries are duplicated "creating a continuous
\* simulation space" (PotentialForce.hpp:243-245): the force is summed over the
\* separations from the nearest images.
ForcesAcrossBoundary ==
  force.built /\ Covered(force.from) =>
    \A i \in DOMAIN force.from.coord :
      {force.terms[i][n] : n \in DOMAIN force.terms[i]} =
        {Separation(force.from.coord, i, j, force.from.periodic) :
           j \in Attracting(force.from, i)}
=============================================================================
