--------------------------- MODULE PublicApi_proofs ---------------------------
(***************************************************************************)
(* What holds of what the outside sees of the service: the public API, for *)
(* every catalog, page size, request and bound of the parameters, and the  *)
(* health checker, whose status is served beside it (main.go:212), for     *)
(* every list of dependencies and number of checks left behind.            *)
(***************************************************************************)
EXTENDS PublicApi, Health, FiniteSetTheorems, TLAPS

-----------------------------------------------------------------------------
(* Places in the list.                                                       *)

LEMMA BeforeIsNat ==
  ASSUME NEW S \in SUBSET Ids, NEW i \in Ids
  PROVE  Before(S, i) \in Nat /\ IsFiniteSet({j \in S : j < i})
<1>1. IsFiniteSet(S)
  BY ApiAssumption, FS_Subset
<1>2. IsFiniteSet({j \in S : j < i})
  BY <1>1, FS_Subset
<1> QED BY <1>2, FS_CardinalityType DEF Before

\* More images make nobody's place smaller.
LEMMA BeforeGrows ==
  ASSUME NEW T \in SUBSET Ids, NEW S \in SUBSET T, NEW i \in Ids
  PROVE  Before(S, i) <= Before(T, i)
<1>1. {j \in S : j < i} \subseteq {j \in T : j < i}
  OBVIOUS
<1> QED BY <1>1, BeforeIsNat, FS_Subset DEF Before

\* An image that comes or goes changes the places of later ones only.
LEMMA BeforeStays ==
  ASSUME NEW S, NEW k \in Ids, NEW i \in Ids \ Later(k), S \subseteq Ids
  PROVE  /\ Before(S \union {k}, i) = Before(S, i)
         /\ Before(S \ {k}, i) = Before(S, i)
<1>1. ~(k < i)
  BY DEF Later
<1>2. /\ {j \in S \union {k} : j < i} = {j \in S : j < i}
      /\ {j \in S \ {k} : j < i} = {j \in S : j < i}
  BY <1>1
<1> QED BY <1>2 DEF Before

\* No two images have one place, and all places up to an image's own are taken.
LEMMA PlacesDiffer ==
  ASSUME NEW S \in SUBSET Ids, NEW i \in S, NEW j \in S, j < i
  PROVE  Before(S, j) < Before(S, i)
<1>a. \A k \in S : k \in Nat
  BY ApiAssumption
<1>1. {k \in S : k < j} \subseteq {k \in S : k < i} /\ j \in {k \in S : k < i}
  BY <1>a
<1>2. {k \in S : k < j} # {k \in S : k < i}
  BY <1>1, <1>a
<1>3. IsFiniteSet({k \in S : k < i}) /\ Before(S, i) \in Nat /\ Before(S, j) \in Nat
  BY BeforeIsNat
<1>4. Before(S, j) <= Before(S, i) /\ Before(S, i) # Before(S, j)
  BY <1>1, <1>2, <1>3, FS_Subset DEF Before
<1> QED BY <1>3, <1>4

LEMMA PlacesTaken ==
  ASSUME NEW S \in SUBSET Ids, NEW i \in S, NEW n \in Nat, n < Before(S, i)
  PROVE  \E j \in S : Before(S, j) = n
<1> DEFINE P == {j \in S : j < i}
           m == Before(S, i)
           f == [j \in P |-> Before(S, j)]
<1>1. m \in Nat /\ IsFiniteSet(P) /\ Cardinality(P) = m
  BY BeforeIsNat DEF Before
<1>2. ASSUME NEW j \in P PROVE Before(S, j) \in 0..m - 1
  <2>1. Before(S, j) \in Nat
    BY BeforeIsNat
  <2>2. Before(S, j) < m
    BY PlacesDiffer
  <2> QED BY <1>1, <2>1, <2>2
<1>3. \A j, k \in P : Before(S, j) = Before(S, k) => j = k
  <2> SUFFICES ASSUME NEW j \in P, NEW k \in P, Before(S, j) = Before(S, k), j # k PROVE FALSE
    OBVIOUS
  <2>1. j \in Nat /\ k \in Nat
    BY ApiAssumption
  <2>2. Before(S, j) \in Nat
    BY BeforeIsNat
  <2>3. CASE j < k
    BY <2>2, <2>3, PlacesDiffer
  <2>4. CASE k < j
    BY <2>2, <2>4, PlacesDiffer
  <2> QED BY <2>1, <2>3, <2>4
<1> HIDE DEF m, P
<1>4. f \in Injection(P, 0..m - 1)
  BY <1>2, <1>3 DEF Injection, IsInjective
<1>5. IsFiniteSet(0..m - 1) /\ Cardinality(0..m - 1) = m
  BY <1>1, FS_Interval
<1>6. f \in Surjection(P, 0..m - 1)
  BY <1>1, <1>4, <1>5, FS_Injection
<1>7. n \in 0..m - 1
  BY <1>1 DEF m
<1>8. \E j \in P : f[j] = n
  BY <1>6, <1>7 DEF Surjection
<1> QED BY <1>8 DEF P

\* Page p has the places from Limit * (p - 1) on, Limit of them.
LEMMA PageBounds ==
  ASSUME NEW n \in Nat, NEW p \in Nat \ {0}
  PROVE  /\ Limit * p = Limit * (p - 1) + Limit /\ Limit * (p - 1) \in Nat
         /\ n \div Limit = p - 1 <=> Limit * (p - 1) <= n /\ n < Limit * (p - 1) + Limit
<1>1. Limit \in Nat \ {0}
  BY ApiAssumption
<1>2. PICK q \in Nat : q = p - 1
  OBVIOUS
<1>3. Limit * (q + 1) = Limit * q + Limit /\ Limit * q \in Nat
  BY <1>1
<1>4. n \div Limit \in Nat /\ Limit * (n \div Limit) <= n /\ n < Limit * (n \div Limit) + Limit
  BY <1>1
<1>5. n \div Limit = q <=> Limit * q <= n /\ n < Limit * q + Limit
  BY <1>1, <1>4
<1> QED BY <1>2, <1>3, <1>5

\* A page is full if an image comes after it.
LEMMA FullPage ==
  ASSUME NEW S \in SUBSET Ids, NEW i \in S, NEW p \in Nat \ {0}, Before(S, i) >= Limit * p
  PROVE  Cardinality(Page(S, p)) >= Limit
<1> DEFINE P == Page(S, p)
           first == Limit * (p - 1)
           T == first..first + Limit - 1
           f == [j \in P |-> Before(S, j)]
<1>1. Limit \in Nat \ {0} /\ Before(S, i) \in Nat
  BY ApiAssumption, BeforeIsNat
<1>2. first \in Nat /\ first + Limit <= Before(S, i)
  BY <1>1, PageBounds
<1>3. \A j \in S : Before(S, j) \in Nat
  BY BeforeIsNat
<1>4. \A j \in S : j \in P <=> Before(S, j) \in T
  BY <1>1, <1>3, PageBounds DEF Page
<1>5. P \subseteq S /\ IsFiniteSet(P)
  BY ApiAssumption, FS_Subset DEF Page
<1> HIDE DEF P, first
<1>6. \A n \in T : \E j \in P : f[j] = n
  BY <1>1, <1>2, <1>4, PlacesTaken
<1>7. f \in Surjection(P, T)
  BY <1>4, <1>5, <1>6 DEF Surjection
<1>8. Cardinality(T) <= Cardinality(P)
  BY <1>5, <1>7, FS_Surjection
<1>9. Cardinality(T) = Limit
  BY <1>1, <1>2, FS_Interval
<1> QED BY <1>8, <1>9 DEF P

-----------------------------------------------------------------------------
(* The walk along the list.                                                  *)

LEMMA WalkTypes ==
  ASSUME TypeOK
  PROVE  /\ walk.page \in 1..MaxPage + 1 /\ walk.page \in Nat \ {0}
         /\ walk.seen \subseteq Ids /\ walk.twice \subseteq Ids /\ stable \subseteq Ids
         /\ walk.author \in BOOLEAN /\ walk.cut \in BOOLEAN
  BY ApiAssumption DEF TypeOK

WalkInv == SeenInv /\ WalkIsComplete /\ WalkRepeatsNothing

\* Pages of a walk: the images shown have the places of its page.
LEMMA ShowInv ==
  ASSUME TypeOK, WalkInv, Asked, NEW shown \in SUBSET Listed, NEW cut \in BOOLEAN,
         Show(shown, cut), ~cut => shown = Listed
  PROVE  WalkInv'
<1> DEFINE p == walk.page
<1> USE DEF WalkInv
<1>1. p \in Nat \ {0}
  BY WalkTypes
<1>2. /\ walk'.state = IF HasNext(shown) THEN "going" ELSE "ended"
      /\ walk'.page = p + 1 /\ walk'.author = FALSE
      /\ walk'.seen = walk.seen \union shown
      /\ walk'.twice = walk.twice \union (walk.seen \intersect shown)
      /\ walk'.cut = (walk.cut \/ cut \/ walk.author)
      /\ UNCHANGED <<alive, stable, up, down>> /\ walk.state = "going"
  BY DEF Show, history, Asked
<1> SUFFICES ASSUME ~walk.cut, ~cut, ~walk.author PROVE WalkInv'
  BY <1>2 DEF SeenInv, WalkIsComplete, WalkRepeatsNothing
<1>3. shown = Page(alive, p) /\ alive \subseteq Ids
  BY DEF Listed, TypeOK
<1>4. \A i \in Ids : Before(alive, i) \in Nat
  BY <1>3, BeforeIsNat
<1>5. \A i \in alive : i \in shown <=> Limit * (p - 1) <= Before(alive, i) /\ Before(alive, i) < Limit * p
  BY <1>1, <1>3, <1>4, PageBounds DEF Page
<1>6. Limit * p \in Nat /\ Limit * (p - 1) \in Nat /\ Limit * (p - 1) <= Limit * p
  BY <1>1, PageBounds, ApiAssumption
<1>7. shown \subseteq alive /\ walk.seen \subseteq Ids /\ stable \subseteq alive
  BY <1>3, WalkTypes DEF Page, TypeOK
<1> HIDE DEF p
<1>8. \A i \in stable \ up : Before(alive, i) < Limit * p => i \in walk'.seen
  BY <1>2, <1>3, <1>4, <1>5, <1>6, <1>7 DEF SeenInv, p
<1>9. \A i \in walk'.seen \ down : Before(alive, i) < Limit * p
  <2>1. \A i \in walk.seen \ down : Before(alive, i) < Limit * (p - 1)
    BY DEF SeenInv, p
  <2> QED BY <1>2, <1>3, <1>4, <1>5, <1>6, <1>7, <2>1
<1>10. walk'.twice \subseteq down
  <2>1. \A i \in walk.seen \ down : Before(alive, i) < Limit * (p - 1)
    BY DEF SeenInv, p
  <2>2. \A i \in shown : Limit * (p - 1) <= Before(alive, i) /\ Before(alive, i) \in Nat
    BY <1>3, <1>4, <1>5, <1>7
  <2>3. walk.seen \intersect shown \subseteq down
    BY <1>6, <2>1, <2>2
  <2> QED BY <1>2, <2>3 DEF WalkRepeatsNothing
<1>11. walk'.state = "ended" => stable \ up \subseteq walk'.seen
  <2> SUFFICES ASSUME ~HasNext(shown), NEW i \in stable \ up PROVE i \in walk'.seen
    BY <1>2
  <2>1. IsFiniteSet(shown) /\ Cardinality(shown) < Limit
    <3>1. IsFiniteSet(shown)
      BY <1>3, <1>7, ApiAssumption, FS_Subset
    <3> QED BY <3>1, FS_CardinalityType, ApiAssumption DEF HasNext
  <2>2. ~(Before(alive, i) >= Limit * p)
    <3>1. i \in alive /\ Cardinality(shown) \in Nat
      BY <1>7, <2>1, FS_CardinalityType
    <3>2. Before(alive, i) >= Limit * p => Cardinality(Page(alive, p)) >= Limit
      BY <1>1, <1>3, <3>1, FullPage
    <3>3. ~(Cardinality(shown) >= Limit)
      BY <2>1, <3>1, ApiAssumption
    <3> QED BY <1>3, <3>2, <3>3
  <2> QED BY <1>3, <1>4, <1>6, <1>7, <1>8, <2>2
<1>12. walk'.page - 1 = p
  BY <1>1, <1>2
<1>13. SeenInv'
  BY <1>2, <1>8, <1>9, <1>12 DEF SeenInv, Before
<1> QED BY <1>2, <1>10, <1>11, <1>13 DEF WalkIsComplete, WalkRepeatsNothing

LEMMA FetchInv == ASSUME TypeOK, WalkInv, WalkStep PROVE WalkInv'
<1>1. CASE Fetch
  BY <1>1, ShowInv DEF Fetch
<1>2. ASSUME NEW k \in Listed, Asked, Show({i \in Listed : i < k}, TRUE) PROVE WalkInv'
  BY <1>2, ShowInv
<1>3. CASE FetchFails
  <2>1. walk' = [walk EXCEPT !.state = "failed"] /\ UNCHANGED <<alive, stable, up, down>>
    BY <1>3 DEF FetchFails, history
  <2>2. /\ walk'.state = "failed" /\ walk'.page = walk.page /\ walk'.author = walk.author
        /\ walk'.seen = walk.seen /\ walk'.twice = walk.twice /\ walk'.cut = walk.cut
    BY <2>1 DEF TypeOK
  <2> QED BY <2>1, <2>2 DEF WalkInv, SeenInv, WalkIsComplete, WalkRepeatsNothing, Before
<1> QED BY <1>1, <1>2, <1>3 DEF WalkStep, FetchCut

LEMMA StartWalkInv == ASSUME TypeOK, WalkInv, NEW a \in BOOLEAN, StartWalk(a) PROVE WalkInv'
<1>1. /\ walk'.state = "going" /\ walk'.page = 1 /\ walk'.seen = {} /\ walk'.twice = {}
      /\ UNCHANGED alive /\ stable' = alive
  BY DEF StartWalk, Fresh
<1>2. \A i \in alive : ~(Before(alive, i) < Limit * (1 - 1))
  <2>1. \A i \in alive : Before(alive, i) \in Nat
    BY BeforeIsNat DEF TypeOK
  <2> QED BY <2>1, ApiAssumption
<1>3. SeenInv'
  BY <1>1, <1>2 DEF SeenInv, Before
<1> QED BY <1>1, <1>3 DEF WalkInv, WalkIsComplete, WalkRepeatsNothing

\* An image that comes, or goes, moves later ones, and these are told apart.
LEMMA InsertInv == ASSUME TypeOK, WalkInv, NEW k \in Ids, Insert(k) PROVE WalkInv'
<1>1. alive \subseteq Ids /\ alive' = alive \union {k} /\ alive' \subseteq Ids /\ alive \subseteq alive'
  BY DEF TypeOK, Insert
<1>2. \A i \in Ids \ Later(k) : Before(alive', i) = Before(alive, i)
  BY <1>1, BeforeStays
<1>3. \A i \in Ids : Before(alive, i) <= Before(alive', i) /\ Before(alive, i) \in Nat /\ Before(alive', i) \in Nat
  BY <1>1, BeforeGrows, BeforeIsNat
<1>4. walk.seen \subseteq Ids /\ stable \subseteq Ids
  BY WalkTypes
<1>5. Limit * (walk.page - 1) \in Nat
  BY WalkTypes, PageBounds
<1>6. ASSUME NEW i \in stable, Before(alive', i) < Limit * (walk.page - 1)
      PROVE  Before(alive, i) < Limit * (walk.page - 1)
  BY <1>3, <1>4, <1>5, <1>6
<1>7. SeenInv'
  BY <1>2, <1>4, <1>6 DEF Insert, WalkInv, SeenInv, Before
<1> QED BY <1>7 DEF Insert, WalkInv, WalkIsComplete, WalkRepeatsNothing

LEMMA DeleteInv == ASSUME TypeOK, WalkInv, NEW k \in Ids, Delete(k) PROVE WalkInv'
<1>1. alive \subseteq Ids /\ alive' = alive \ {k} /\ alive' \subseteq alive
  BY DEF TypeOK, Delete
<1>2. \A i \in Ids \ Later(k) : Before(alive', i) = Before(alive, i)
  BY <1>1, BeforeStays
<1>3. \A i \in Ids : Before(alive', i) <= Before(alive, i) /\ Before(alive, i) \in Nat /\ Before(alive', i) \in Nat
  BY <1>1, BeforeGrows, BeforeIsNat
<1>4. walk.seen \subseteq Ids /\ stable \subseteq Ids
  BY WalkTypes
<1>5. Limit * (walk.page - 1) \in Nat
  BY WalkTypes, PageBounds
<1>6. ASSUME NEW i \in walk.seen, Before(alive, i) < Limit * (walk.page - 1)
      PROVE  Before(alive', i) < Limit * (walk.page - 1)
  BY <1>3, <1>4, <1>5, <1>6
<1>7. SeenInv'
  BY <1>2, <1>4, <1>6 DEF Delete, WalkInv, SeenInv, Before
<1> QED BY <1>7 DEF Delete, WalkInv, WalkIsComplete, WalkRepeatsNothing

-----------------------------------------------------------------------------
(* Redirects.                                                                *)

LEMMA LowerCases ==
  ASSUME NEW ext
  PROVE  /\ Lower(ext) = IF ext = ".JPG" THEN ".jpg" ELSE IF ext = ".WEBP" THEN ".webp" ELSE ext
         /\ ext \in {".jpg", ".webp"} => Lower(ext) = ext
  BY DEF Lower

\* What a valid request is redirected to: a location the image service can read.
LEMMA LocationType ==
  ASSUME NEW q \in Requests, NEW i \in Ids, Parses(q), Valid(GetParams(q))
  PROVE  Location(q, GetParams(q), i) \in Locations
<1> DEFINE p == GetParams(q)
<1>1. q \in RequestSet /\ Own(i) \in 0..MaxInt /\ MaxInt \in Nat /\ MaxBlur \in Nat
  BY ApiAssumption
<1>2. /\ p.w = q.w /\ p.h = q.h /\ p.gray = q.gray
      /\ p.ext = IF q.ext = "" THEN ".jpg" ELSE Lower(q.ext)
      /\ p.blur = (q.blur # "absent")
      /\ q.blur = "absent" => p.amount = 0
  BY <1>1 DEF GetParams, RequestSet
<1>3. p.ext \in {".jpg", ".webp"}
  BY <1>2, LowerCases DEF Parses
<1>4. p.amount \in 0..MaxBlur
  <2>1. q.blur = "absent" => p.amount = 0
    BY <1>2
  <2>2. q.blur # "absent" => p.amount \in 1..MaxBlur
    BY <1>2 DEF Valid
  <2> HIDE DEF p
  <2> QED BY <1>1, <2>1, <2>2
<1>5. q.w \in 0..MaxInt /\ q.h \in 0..MaxInt
  <2>1. q.w \in Nat /\ q.h \in Nat
    BY <1>1 DEF RequestSet
  <2>2. q.w <= MaxInt /\ q.h <= MaxInt
    BY DEF Parses
  <2> QED BY <1>1, <2>1, <2>2
<1> HIDE DEF p
<1>6. Location(q, p, i) \in Locations
  BY <1>1, <1>2, <1>3, <1>4, <1>5 DEF Location, Locations
<1> QED BY <1>6 DEF p

\* It means there what the client asked for here.
LEMMA LocationMeans ==
  ASSUME NEW q \in Requests, NEW i \in Ids, Parses(q), Valid(GetParams(q))
  PROVE  AskedFor(q, GetParams(Location(q, GetParams(q), i)), i)
<1> DEFINE p == GetParams(q)
           l == Location(q, p, i)
<1>1. q \in RequestSet
  BY ApiAssumption
<1>2. /\ p.w = q.w /\ p.h = q.h /\ p.gray = q.gray
      /\ p.ext = IF q.ext = "" THEN ".jpg" ELSE Lower(q.ext)
      /\ p.blur = (q.blur # "absent")
      /\ p.amount = IF q.blur = "absent" THEN 0 ELSE IF q.blur = "bare" THEN DefaultBlur ELSE q.amount
  BY <1>1 DEF GetParams, RequestSet
<1>3. /\ l.w = (IF p.w = 0 THEN Own(i) ELSE p.w) /\ l.h = (IF p.h = 0 THEN Own(i) ELSE p.h)
      /\ l.ext = p.ext /\ l.blur = (IF p.blur THEN "number" ELSE "absent")
      /\ l.amount = p.amount /\ l.gray = (p.gray \/ q.route = "g")
  BY DEF Location
<1>4. p.ext \in {".jpg", ".webp"} /\ p.ext = IF Lower(q.ext) = ".webp" THEN ".webp" ELSE ".jpg"
  BY <1>2, LowerCases DEF Parses
<1>5. p.w <= MaxSize /\ p.h <= MaxSize
  BY DEF Valid
<1> HIDE DEF l
<1>6. /\ GetParams(l).w = l.w /\ GetParams(l).h = l.h /\ GetParams(l).gray = l.gray
      /\ GetParams(l).ext = l.ext /\ GetParams(l).blur = (l.blur # "absent")
      /\ l.blur = "number" => GetParams(l).amount = l.amount
  BY <1>3, <1>4, LowerCases DEF GetParams
<1> HIDE DEF p
<1>7. AskedFor(q, GetParams(l), i)
  BY <1>1, <1>2, <1>3, <1>4, <1>5, <1>6 DEF AskedFor, RequestSet
<1> QED BY <1>7 DEF l, p

\* What becomes of a redirect, whatever becomes of the catalog.
RedirectInv == VisitInv /\ RedirectsAreServed

LEMMA NextRedirect ==
  ASSUME TypeOK, RedirectInv, [Next]_vars
  PROVE  RedirectInv' /\ (visit' = NoVisit \/ visit' \in Visits)
<1> USE DEF RedirectInv
<1>1. (visit = NoVisit \/ visit \in Visits) /\ alive \subseteq Ids
  BY DEF TypeOK
<1>2. visit.stage # "idle" => visit \in Visits
  BY <1>1 DEF NoVisit
<1>3. CASE UNCHANGED visit
  BY <1>1, <1>3 DEF VisitInv, RedirectsAreServed
<1>4. ASSUME NEW q \in Requests, Redirect(q) PROVE RedirectInv' /\ visit' \in Visits
  <2>1. PICK i \in Choice(q) : visit' = [stage |-> "redirected", request |-> q,
                                         location |-> Location(q, GetParams(q), i)]
    BY <1>4 DEF Redirect
  <2>2. Parses(q) /\ Valid(GetParams(q))
    BY <1>4 DEF Redirect
  <2>3. i \in Ids
    BY <1>1, ApiAssumption DEF Choice, RequestSet
  <2>4. Location(q, GetParams(q), i) \in Locations
    BY <2>2, <2>3, LocationType
  <2>5. Location(q, GetParams(q), i).id = i
    BY DEF Location
  <2>6. AskedFor(q, GetParams(Location(q, GetParams(q), i)), i)
    BY <2>2, <2>3, LocationMeans
  <2> QED BY <2>1, <2>4, <2>5, <2>6 DEF VisitInv, RedirectsAreServed, Visits
<1>5. ASSUME Follow PROVE RedirectInv' /\ visit' \in Visits
  <2>1. visit \in Visits /\ visit.location \in Locations /\ visit.request \in RequestSet
    BY <1>2, <1>5, ApiAssumption DEF Follow, Visits
  <2>2. Parses(visit.location)
    <3>1. ASSUME NEW l \in Locations PROVE Parses(l)
      <4>1. l.w \in 0..MaxInt /\ l.h \in 0..MaxInt /\ l.ext \in {".jpg", ".webp"}
        BY DEF Locations
      <4>2. Lower(l.ext) \in {"", ".jpg", ".webp"}
        BY <4>1, LowerCases
      <4>3. MaxInt \in Nat
        BY ApiAssumption
      <4>4. l.w <= MaxInt /\ l.h <= MaxInt
        BY <4>1, <4>3
      <4> QED BY <4>2, <4>4 DEF Parses
    <3> QED BY <2>1, <3>1
  <2> DEFINE p == GetParams(visit.location)
             q == visit.request
             i == visit.location.id
  <2>3. PICK a \in Answers(visit.location) : visit' = [visit EXCEPT !.stage = a]
    BY <1>5 DEF Follow
  <2>4. a \in {"failed", "served", "unsized"} /\ (a = "unsized" => ~(p.w > 0 /\ p.h > 0))
    BY <2>2, <2>3 DEF Answers
  <2>5. /\ visit' \in Visits /\ visit'.stage = a
        /\ visit'.request = visit.request /\ visit'.location = visit.location
    BY <2>1, <2>3, <2>4 DEF Visits
  <2>6. AskedFor(q, p, i)
    BY <1>5 DEF VisitInv, Follow
  <2>7. ASSUME ~(p.w > 0 /\ p.h > 0) PROVE Own(i) = 0 /\ (q.w = 0 \/ q.h = 0)
    <3>1. Own(i) \in Nat /\ q.w \in Nat /\ q.h \in Nat
      <4>1. i \in Ids
        BY <2>1 DEF Locations
      <4>2. Own(i) \in 0..MaxInt /\ MaxInt \in Nat
        BY <4>1, ApiAssumption
      <4>3. q.w \in Nat /\ q.h \in Nat
        BY <2>1 DEF RequestSet
      <4> HIDE DEF i
      <4> QED BY <4>2, <4>3
    <3>2. /\ p.w = IF q.w = 0 THEN Own(i) ELSE q.w
          /\ p.h = IF q.h = 0 THEN Own(i) ELSE q.h
      BY <2>6 DEF AskedFor
    <3> HIDE DEF p, q, i
    <3> QED BY <2>7, <3>1, <3>2
  <2> QED BY <2>4, <2>5, <2>6, <2>7 DEF VisitInv, RedirectsAreServed
<1>6. CASE \/ \E k \in Ids : Insert(k) \/ Delete(k)
           \/ \E a \in BOOLEAN : StartWalk(a)
           \/ UNCHANGED vars
  BY <1>3, <1>6 DEF Insert, Delete, StartWalk, vars
<1>7. CASE WalkStep
  BY <1>3, <1>7 DEF WalkStep, Fetch, FetchCut, FetchFails, Show
<1> QED BY <1>4, <1>5, <1>6, <1>7 DEF Next

-----------------------------------------------------------------------------
(* The theorems about the API.                                               *)

LEMMA ShowType ==
  ASSUME TypeOK, Asked, NEW shown \in SUBSET Ids, NEW cut \in BOOLEAN, Show(shown, cut)
  PROVE  walk' \in [state : {"idle", "going", "ended", "failed"}, page : 1..MaxPage + 1,
                    author : BOOLEAN, seen : SUBSET Ids, twice : SUBSET Ids, cut : BOOLEAN]
<1>1. walk.page + 1 \in 1..MaxPage + 1
  BY WalkTypes, ApiAssumption DEF Asked
<1>2. /\ walk.seen \union shown \in SUBSET Ids
      /\ walk.twice \union (walk.seen \intersect shown) \in SUBSET Ids
      /\ (walk.cut \/ cut \/ walk.author) \in BOOLEAN
  BY WalkTypes
<1> QED BY <1>1, <1>2 DEF Show

LEMMA NextType == TypeOK /\ RedirectInv /\ [Next]_vars => TypeOK'
<1> SUFFICES ASSUME TypeOK, RedirectInv, [Next]_vars PROVE TypeOK'
  OBVIOUS
<1> DEFINE Walks == [state : {"idle", "going", "ended", "failed"}, page : 1..MaxPage + 1,
                     author : BOOLEAN, seen : SUBSET Ids, twice : SUBSET Ids, cut : BOOLEAN]
<1>1. walk \in Walks /\ alive \subseteq Ids /\ stable \subseteq alive /\ up \subseteq Ids /\ down \subseteq Ids
  BY DEF TypeOK
<1>2. ASSUME NEW a \in BOOLEAN, StartWalk(a)
      PROVE  walk' \in Walks /\ UNCHANGED alive /\ stable' = alive /\ up' = {} /\ down' = {}
  <2>1. 1 \in 1..MaxPage + 1
    BY ApiAssumption
  <2>2. walk' = [state |-> "going", page |-> 1, author |-> a, seen |-> {}, twice |-> {}, cut |-> FALSE]
    BY <1>2 DEF StartWalk, Fresh
  <2>3. walk' \in Walks
    BY <2>1, <2>2
  <2> QED BY <1>2, <2>3 DEF StartWalk
<1>3. ASSUME WalkStep PROVE walk' \in Walks /\ UNCHANGED <<alive, stable, up, down>>
  <2>1. Listed \subseteq Ids
    BY <1>1 DEF Listed, Page
  <2>2. CASE Fetch
    BY <2>1, <2>2, ShowType DEF Fetch, Show, history
  <2>3. ASSUME NEW k \in Listed, Asked, Show({i \in Listed : i < k}, TRUE)
        PROVE  walk' \in Walks /\ UNCHANGED <<alive, stable, up, down>>
    <3>1. {i \in Listed : i < k} \subseteq Ids
      BY <2>1
    <3> QED BY <2>3, <3>1, ShowType DEF Show, history
  <2>4. CASE FetchFails
    BY <1>1, <2>4 DEF FetchFails, history
  <2> QED BY <1>3, <2>2, <2>3, <2>4 DEF WalkStep, FetchCut
<1>4. ASSUME NEW i \in Ids, Insert(i) \/ Delete(i)
      PROVE  /\ UNCHANGED walk /\ alive' \subseteq Ids /\ stable' \subseteq alive'
             /\ up' \subseteq Ids /\ down' \subseteq Ids
  BY <1>1, <1>4 DEF Insert, Delete, Later
<1>5. ASSUME \/ \E q \in Requests : Redirect(q)
             \/ Follow \/ UNCHANGED vars
      PROVE  UNCHANGED <<alive, walk, stable, up, down>>
  BY <1>5 DEF Redirect, Follow, vars, history
<1> HIDE DEF Walks
<1>6. /\ walk' \in Walks /\ alive' \subseteq Ids /\ stable' \subseteq alive'
      /\ up' \subseteq Ids /\ down' \subseteq Ids
  BY <1>1, <1>2, <1>3, <1>4, <1>5 DEF Next
<1> QED BY <1>6, NextRedirect DEF TypeOK, Walks

LEMMA InitInv == Init => IInv
<1> SUFFICES ASSUME Init PROVE IInv
  OBVIOUS
<1>1. 1 \in 1..MaxPage + 1
  BY ApiAssumption
<1>2. TypeOK
  BY <1>1 DEF Init, TypeOK, Fresh, NoVisit
<1>3. SeenInv /\ WalkIsComplete /\ WalkRepeatsNothing
  BY DEF Init, Fresh, SeenInv, WalkIsComplete, WalkRepeatsNothing
<1>4. VisitInv /\ RedirectsAreServed
  BY DEF Init, NoVisit, VisitInv, RedirectsAreServed
<1> QED BY <1>2, <1>3, <1>4 DEF IInv

LEMMA NextWalk == TypeOK /\ WalkInv /\ [Next]_vars => WalkInv'
<1> SUFFICES ASSUME TypeOK, WalkInv, [Next]_vars PROVE WalkInv'
  OBVIOUS
<1>1. CASE (\E q \in Requests : Redirect(q)) \/ Follow \/ UNCHANGED vars
  <2>1. UNCHANGED <<alive, walk, stable, up, down>>
    BY <1>1 DEF Redirect, Follow, vars, history
  <2> QED BY <2>1 DEF WalkInv, SeenInv, WalkIsComplete, WalkRepeatsNothing, Before
<1> QED BY <1>1, InsertInv, DeleteInv, StartWalkInv, FetchInv DEF Next

LEMMA NextInv == IInv /\ [Next]_vars => IInv'
<1>1. IInv <=> TypeOK /\ WalkInv /\ RedirectInv
  BY DEF IInv, WalkInv, RedirectInv
<1>2. (IInv <=> TypeOK /\ WalkInv /\ RedirectInv)'
  BY DEF IInv, WalkInv, RedirectInv
<1>3. TypeOK /\ RedirectInv /\ [Next]_vars => RedirectInv'
  BY NextRedirect
<1> QED BY <1>1, <1>2, <1>3, NextType, NextWalk

\* The inductive invariant of the API: what a walk has seen by the time it asks for
\* a page, and what redirects ask for.
THEOREM Invariance == Spec => []IInv
<1> QED BY InitInv, NextInv, PTL DEF Spec

\* Whatever comes and goes, the state of walks and requests keeps its types, and a
\* redirect only names parameters the image service's URLs can have
\* (api/image.go:150-188).
THEOREM TypeCorrect == Spec => []TypeOK
<1>1. IInv => TypeOK
  BY DEF IInv
<1> QED BY <1>1, Invariance, PTL

\* For every page size, a walk along the Link headers to the end shows every image
\* that was there all the time and had none before it deleted (list.go:99, 135).
THEOREM WalksAreComplete == Spec => []WalkIsComplete
<1>1. IInv => WalkIsComplete
  BY DEF IInv
<1> QED BY <1>1, Invariance, PTL

\* And it repeats only images that had one inserted before them (list.go:99, 135).
THEOREM WalksRepeatNothing == Spec => []WalkRepeatsNothing
<1>1. IInv => WalkRepeatsNothing
  BY DEF IInv
<1> QED BY <1>1, Invariance, PTL

\* For all requests the routes can take, and all bounds of the parameters, the image
\* service accepts what it is redirected, takes it as the client meant it, and fails
\* on its size only if the client left a size open of an image stored with size 0
\* (api/image.go:150-188, params.go, imageapi/image.go:26-112).
THEOREM RedirectsServed == Spec => []RedirectsAreServed
<1>1. IInv => RedirectsAreServed
  BY DEF IInv
<1> QED BY <1>1, Invariance, PTL

-----------------------------------------------------------------------------
(* The health checker.                                                       *)

LEMMA OrderFacts == /\ Len(Order) \in Nat
                    /\ DOMAIN Order = 1 .. Len(Order)
                    /\ \A i \in DOMAIN Order : Order[i] \in Deps
                    /\ \A d \in Deps : \E i \in DOMAIN Order : d = Order[i]
  BY HealthAssumption DEF Deps

LEMMA HealthInitInv == HealthInit => HealthInv
<1> SUFFICES ASSUME HealthInit PROVE HealthInv
  OBVIOUS
<1> USE OrderFacts DEF HealthInit, All
<1>1. HealthTypeOK /\ WaitingInv
  BY DEF HealthTypeOK, Verdicts, WaitingInv
<1>2. FindingInv
  BY DEF FindingInv
<1>3. HealthyIsEarned
  BY DEF HealthyIsEarned
<1> QED BY <1>1, <1>2, <1>3 DEF HealthInv

\* Steps that leave the checks alone, or start one from nothing.
LEMMA StartCheckInv == ASSUME HealthInv, NEW k \in Checks, StartCheck(k) PROVE HealthInv'
<1> USE OrderFacts DEF StartCheck, HealthInv, All
<1>1. HealthTypeOK' /\ WaitingInv'
  BY DEF HealthTypeOK, Verdicts, WaitingInv
<1>2. FindingInv'
  BY DEF FindingInv, HealthTypeOK, Verdicts
<1>3. HealthyIsEarned'
  BY DEF HealthyIsEarned
<1> QED BY <1>1, <1>2, <1>3

LEMMA TimedOutInv == ASSUME HealthInv, TimedOut PROVE HealthInv'
<1> USE DEF TimedOut, EndCheck, checkVars, HealthInv, All
<1>1. HealthTypeOK' /\ WaitingInv'
  BY DEF HealthTypeOK, Verdicts, WaitingInv
<1>2. FindingInv'
  BY DEF FindingInv
<1>3. HealthyIsEarned'
  BY DEF HealthyIsEarned
<1> QED BY <1>1, <1>2, <1>3

\* The published check has asked every dependency.
LEMMA PublishInv == ASSUME HealthInv, Publish PROVE HealthInv'
<1> USE OrderFacts DEF Publish, EndCheck, checkVars, HealthInv
<1>1. cur \in Checks
  BY DEF WaitingInv
<1>2. HealthTypeOK' /\ WaitingInv'
  BY <1>1 DEF HealthTypeOK, Verdicts, Healthy, WaitingInv
<1>3. FindingInv'
  BY DEF FindingInv
<1>4. \A d \in Deps : met[cur][d] # "none"
  BY <1>1 DEF FindingInv
<1>5. \A d \in Deps : verdict[cur][d] # "unhealthy" /\ d # "database" => met[cur][d] = "up"
  BY <1>1, <1>4 DEF FindingInv
<1>6. HealthyIsEarned'
  BY <1>5 DEF HealthyIsEarned, Healthy
<1> QED BY <1>2, <1>3, <1>6

LEMMA AnswerInv == ASSUME HealthInv, NEW k \in Checks, Answer(k) PROVE HealthInv'
<1> USE OrderFacts DEF Answer, Running, HealthInv
<1> DEFINE d == Order[pos[k]]
<1>1. d \in Deps /\ cond[d] \in {"up", "down", "hung"}
  BY DEF HealthTypeOK
<1>2. Finding(d) = IF d # "database" /\ cond[d] # "up" THEN "unhealthy" ELSE "healthy"
  BY DEF Finding
<1>3. HealthTypeOK' /\ WaitingInv'
  BY <1>1, <1>2 DEF HealthTypeOK, Verdicts, WaitingInv
<1>4. FindingInv'
  <2>1. ASSUME NEW e \in Deps, met'[k][e] # "none"
        PROVE  verdict'[k][e] = IF e # "database" /\ met'[k][e] # "up" THEN "unhealthy" ELSE "healthy"
    BY <1>1, <1>2, <2>1 DEF FindingInv, HealthTypeOK, Verdicts
  <2>2. ASSUME NEW i \in DOMAIN Order, i < pos'[k] \/ channel'[k] = "verdict"
        PROVE  met'[k][Order[i]] # "none"
    <3>1. CASE Order[i] = d
      BY <1>1, <3>1 DEF HealthTypeOK
    <3>2. CASE Order[i] # d
      BY <1>1, <2>2, <3>2 DEF FindingInv, HealthTypeOK
    <3>3. QED BY <3>1, <3>2
  <2>3. QED BY <2>1, <2>2 DEF FindingInv, HealthTypeOK
<1>5. HealthyIsEarned'
  BY DEF HealthyIsEarned
<1> QED BY <1>3, <1>4, <1>5

LEMMA CheckStepInv == ASSUME HealthInv, NEW k \in Checks, Ask(k) \/ GiveUp(k) \/ Send(k) PROVE HealthInv'
<1> USE OrderFacts DEF HealthInv
<1>1. HealthyIsEarned'
  BY DEF HealthyIsEarned, Ask, GiveUp, Send
<1>2. CASE Ask(k)
  <2>1. HealthTypeOK' /\ WaitingInv'
    BY <1>2 DEF Ask, HealthTypeOK, Verdicts, WaitingInv
  <2>2. FindingInv'
    BY <1>2 DEF Ask, FindingInv
  <2> QED BY <1>1, <2>1, <2>2
<1>3. CASE GiveUp(k)
  <2>1. HealthTypeOK' /\ WaitingInv'
    BY <1>3 DEF GiveUp, HealthTypeOK, Verdicts, WaitingInv
  <2>2. FindingInv'
    BY <1>3 DEF GiveUp, FindingInv, HealthTypeOK
  <2> QED BY <1>1, <2>1, <2>2
<1>4. CASE Send(k)
  <2>1. HealthTypeOK' /\ WaitingInv'
    BY <1>4 DEF Send, HealthTypeOK, Verdicts, WaitingInv
  <2>2. \A i \in DOMAIN Order : i < pos[k]
    BY <1>4 DEF Send
  <2>3. FindingInv'
    BY <1>4, <2>2 DEF Send, FindingInv, HealthTypeOK
  <2> QED BY <1>1, <2>1, <2>3
<1> QED BY <1>2, <1>3, <1>4

\* The steps that touch neither the checks nor the published status.
LEMMA QuietInv ==
  ASSUME HealthInv, UNCHANGED <<checkVars, status, behind>>,
         cond' \in [Deps -> {"up", "down", "hung"}],
         runner' \in {"idle", "waiting", "stopped"},
         cur' \in Checks \union {NoCheck}, expired' \subseteq Checks,
         runner' = "waiting" => cur' \in Checks
  PROVE  HealthInv'
<1> USE DEF checkVars, HealthInv
<1>1. HealthTypeOK' /\ WaitingInv'
  BY DEF HealthTypeOK, Verdicts, WaitingInv
<1>2. FindingInv' /\ HealthyIsEarned'
  BY DEF FindingInv, HealthyIsEarned
<1> QED BY <1>1, <1>2

LEMMA HealthNextInv == HealthInv /\ [HealthNext]_healthVars => HealthInv'
<1> SUFFICES ASSUME HealthInv, [HealthNext]_healthVars PROVE HealthInv'
  OBVIOUS
<1> USE DEF HealthInv, HealthTypeOK, WaitingInv
<1>1. CASE Expire
  BY <1>1, QuietInv DEF Expire
<1>2. CASE ClosedEarly
  BY <1>2, QuietInv DEF ClosedEarly, EndCheck
<1>3. CASE Stop
  BY <1>3, QuietInv DEF Stop
<1>4. ASSUME NEW d \in Deps, NEW c \in {"up", "down", "hung"}, Turn(d, c) PROVE HealthInv'
  BY <1>4, QuietInv DEF Turn
<1>5. CASE UNCHANGED healthVars
  BY <1>5, QuietInv DEF healthVars
<1> QED BY <1>1, <1>2, <1>3, <1>4, <1>5, StartCheckInv, TimedOutInv, PublishInv, AnswerInv,
          CheckStepInv DEF HealthNext, RunnerStep, CheckStep

\* The inductive invariant: what a check wrote down is what it met.
THEOREM HealthInvariance == HealthSpec => []HealthInv
<1>1. QED BY HealthInitInv, HealthNextInv, PTL DEF HealthSpec

\* A healthy status comes from one check that found cache and storage up
\* (health.go:63-98, 100-159).
THEOREM HealthIsEarned == HealthSpec => []HealthyIsEarned
<1>1. HealthInv => HealthyIsEarned
  BY DEF HealthInv
<1>2. QED BY <1>1, HealthInvariance, PTL
=============================================================================
