---------------------------- MODULE PointSearch ----------------------------
(***************************************************************************)
(* The search for near particles that NeighborLists and PotentialForce     *)
(* share: the source sites (the particles and, in a periodic domain, their *)
(* images), the radius search of PointCloudSearch, and the lists of        *)
(* neighbours made from it.                                                *)
(*                                                                         *)
(* A site has an integer on each of the three axes; particles are numbered *)
(* from 1.  The order in which the k-d tree meets the sites is one of two. *)
(***************************************************************************)
EXTENDS Compaction, Sequences

CONSTANTS
  Low, High  \* mDomainLow, mDomainHigh: one number per axis

Axes == 1 .. 3
Sites == [Axes -> Int]
Length(a) == High[a] - Low[a]

ASSUME DomainAssumption ==
  Low \in Sites /\ High \in Sites /\ \A a \in Axes : Low[a] < High[a]

\* An array of parts of the given lengths: the entries before and with part i.
Starts(num) ==
  LET sum[i \in 0 .. Len(num)] == IF i = 0 THEN 0 ELSE sum[i - 1] + num[i]
  IN  sum

\* The parts one after another.
Joined(parts) ==
  LET starts == Starts([i \in DOMAIN parts |-> Len(parts[i])])
  IN  [k \in 1 .. starts[Len(parts)] |->
         LET i == CHOOSE i \in DOMAIN parts : starts[i - 1] < k /\ k <= starts[i]
         IN  parts[i][k - starts[i - 1]]]

-----------------------------------------------------------------------------
(* BuildSourceSites *)

\* The shift of the image of a particle along one axis: one length to the other
\* side within eps of a boundary, none in the core of the domain.
AxisShift(site, a, eps) ==
  IF site[a] < Low[a] + eps THEN Length(a)
  ELSE IF site[a] > High[a] - eps THEN -Length(a)
  ELSE 0

\* The copies an axis asks for (axisSourceDuplicate), and all of them.
AxisCopies(site, a, eps) == IF AxisShift(site, a, eps) = 0 THEN 1 ELSE 2
Copies(site, eps) ==
  AxisCopies(site, 1, eps) * AxisCopies(site, 2, eps) * AxisCopies(site, 3, eps)

\* How many copies in a row have the same shift along an axis: the last axis
\* changes fastest.
Stride(site, a, eps) ==
  CASE a = 1 -> AxisCopies(site, 2, eps) * AxisCopies(site, 3, eps)
    [] a = 2 -> AxisCopies(site, 3, eps)
    [] a = 3 -> 1

\* The n-th copy of a particle, from 0: the particle itself is the first.
Copy(site, eps, n) ==
  [a \in Axes |->
     IF (n \div Stride(site, a, eps)) % AxisCopies(site, a, eps) = 1
     THEN site[a] + AxisShift(site, a, eps)
     ELSE site[a]]

\* mSourceSites and mSourceIndex: a source is a site and the particle it is an
\* image of.
SourceSites(coord, periodic, eps) ==
  IF periodic
  THEN Joined([i \in DOMAIN coord |->
         [n \in 1 .. Copies(coord[i], eps) |->
            [site |-> Copy(coord[i], eps, n - 1), index |-> i]]])
  ELSE [i \in DOMAIN coord |-> [site |-> coord[i], index |-> i]]

-----------------------------------------------------------------------------
(* PointCloudSearch *)

Square(x) == x * x
SquaredNorm(d) == Square(d[1]) + Square(d[2]) + Square(d[3])
DistanceSquared(p, q) == SquaredNorm([a \in Axes |-> p[a] - q[a]])

Swap(s, k) == [c \in DOMAIN s |-> IF c = 1 THEN s[k] ELSE IF c = k THEN s[1] ELSE s[c]]

\* RadiusResultSet: the sources within the radius in the order the tree meets
\* them, and the first of the nearest of them swapped to the front.
Accepts(p, q, eps) == DistanceSquared(p, q) < Square(eps)

Accepted(site, sources, eps) ==
  {m \in DOMAIN sources : Accepts(site, sources[m].site, eps)}

Met(site, sources, eps, ascending) ==
  LET near == Accepted(site, sources, eps)
      size == Cardinality(near)
  IN  [k \in 1 .. size |-> Source(near, IF ascending THEN k ELSE size + 1 - k)]

Nearest(site, sources, found) ==
  LET far(k) == DistanceSquared(site, sources[found[k]].site)
  IN  CHOOSE k \in DOMAIN found :
        /\ \A l \in DOMAIN found : far(k) <= far(l)
        /\ \A l \in 1 .. k - 1 : far(k) < far(l)

RadiusSearch(site, sources, eps, ascending) ==
  LET found == Met(site, sources, eps, ascending)
  IN  IF found = <<>> THEN <<>> ELSE Swap(found, Nearest(site, sources, found))

\* The columns a list has: one for the length and one for each neighbour.  The
\* lists never get narrower.
WidthFor(found, width) ==
  LET widths == {width} \cup {1 + Len(found[i]) : i \in DOMAIN found}
  IN  CHOOSE w \in widths : \A v \in widths : v <= w

-----------------------------------------------------------------------------
(* BuildTargetNeighborLists *)

\* A source becomes the particle it is an image of.
Translated(list, sources) == [c \in DOMAIN list |-> sources[list[c]].index]

\* The target itself goes to the front.
OwnFirst(list, i) ==
  IF \E k \in DOMAIN list : list[k] = i
  THEN Swap(list, CHOOSE k \in DOMAIN list :
                    list[k] = i /\ \A l \in 1 .. k - 1 : list[l] # i)
  ELSE list

\* The lists of all targets, the columns they take, and whether a list is
\* longer than the columns that hold it.
TargetNeighborLists(coord, sources, eps, ascending, width) ==
  LET found == [i \in DOMAIN coord |-> RadiusSearch(coord[i], sources, eps, ascending)]
      wide  == WidthFor(found, width)
  IN  [lists |-> [i \in DOMAIN coord |-> OwnFirst(Translated(found[i], sources), i)],
       width |-> wide,
       overrun |-> \E i \in DOMAIN coord : Len(found[i]) > wide - 1]

-----------------------------------------------------------------------------
(* What a search should find: the distance to the nearest image *)

Wraps(x, y, a) == {x - y - Length(a), x - y, x - y + Length(a)}
WrappedDifference(x, y, a) ==
  CHOOSE d \in Wraps(x, y, a) :
    \A e \in Wraps(x, y, a) :
      Square(d) < Square(e) \/ (Square(d) = Square(e) /\ d >= e)

\* The vector from particle j to particle i, or to its nearest image.
Separation(coord, i, j, periodic) ==
  [a \in Axes |->
     IF periodic THEN WrappedDifference(coord[i][a], coord[j][a], a)
     ELSE coord[i][a] - coord[j][a]]

Near(coord, i, j, periodic, eps) ==
  SquaredNorm(Separation(coord, i, j, periodic)) < Square(eps)

\* All particles lie in the domain, which is wide enough for no particle to
\* meet two images of another.
FitsDomain(coord, eps) ==
  \A a \in Axes :
    /\ 2 * eps <= Length(a)
    /\ \A i \in DOMAIN coord : coord[i][a] \in Low[a] .. High[a]
=============================================================================
