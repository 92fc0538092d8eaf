------------------------------ MODULE PublicApi ------------------------------
(***************************************************************************)
(* The public HTTP API (internal/api) over a catalog that changes: a client *)
(* that walks /v2/list along the Link headers, and one that asks for an     *)
(* image, by id, by seed, at random or with the deprecated parameters, and  *)
(* follows the redirect to the image service (internal/imageapi), which     *)
(* parses the parameters again.                                             *)
(*                                                                         *)
(* Ids are numbers in the order of the list, and so need no escaping in a   *)
(* path. Seeds choose an image as SeedResolution says; here they choose     *)
(* any. The image service reads the file of an image and never its row;     *)
(* which rows have files is Catalog's matter, and left open here.           *)
(***************************************************************************)
EXTENDS Integers, FiniteSets

CONSTANTS
    Ids,        (* ids the catalog may hold, in the order of ORDER BY id       *)
    Ours,       (* those of the author that requests name                      *)
    Own(_),     (* width and height of an image, 0 if they could not be read    *)
    Limit,      (* the page size the client asks for                           *)
    Requests,   (* the requests for an image that are looked at                *)
    MaxSize,    (* maxImageSize                                                *)
    MaxBlur,    (* maxBlurAmount                                               *)
    DefaultBlur,
    MaxInt,     (* the largest number strconv.Atoi takes                       *)
    MaxPage     (* bound: pages of a walk that are looked at                   *)

\* Numbers in a path have no sign, that of the blur may have one.
RequestSet == [route : {"id", "image", "seed", "random", "g", "author"}, id : Nat,
               w : Nat, h : Nat, ext : STRING, blur : {"absent", "bare", "number"},
               amount : Int, gray : BOOLEAN]

ASSUME ApiAssumption ==
    /\ Ids \subseteq Nat /\ IsFiniteSet(Ids) /\ Ours \subseteq Ids
    /\ \A i \in Ids : Own(i) \in 0..MaxInt
    /\ Limit \in Nat \ {0} /\ MaxPage \in Nat /\ Requests \subseteq RequestSet
    /\ MaxInt \in Nat /\ MaxSize \in 0..MaxInt /\ MaxBlur \in 0..MaxInt
    /\ DefaultBlur \in 1..MaxBlur

VARIABLES
    alive,   \* the rows of images
    walk,    \* the walk: the page to ask for, the images it was shown, ...
    visit    \* the request: its parameters, the redirect, what came of it

\* History of the walk, read by the properties only.
VARIABLES
    stable,  \* images that were there all the time
    up,      \* images before which one was deleted
    down     \* images before which one was inserted

history == <<stable, up, down>>
vars == <<alive, walk, visit, history>>

\* cut: a page was cut short, or it was of an author's list
Fresh == [state |-> "idle", page |-> 1, author |-> FALSE, seen |-> {}, twice |-> {}, cut |-> FALSE]
NoVisit == [stage |-> "idle"]

\* What the URLs of the image service may ask for: a blur has its amount.
Locations == [id : Ids, w : 0..MaxInt, h : 0..MaxInt, ext : {".jpg", ".webp"},
              blur : {"absent", "number"}, amount : 0..MaxBlur, gray : BOOLEAN]

\* A request was refused when its location does not parse, and failed when there
\* is no rendering it (unsized: because its size is 0).
Visits == [stage : {"redirected", "refused", "failed", "unsized", "served"},
           request : Requests, location : Locations]

TypeOK ==
    /\ alive \subseteq Ids
    /\ walk \in [state : {"idle", "going", "ended", "failed"}, page : 1..MaxPage + 1,
                 author : BOOLEAN, seen : SUBSET Ids, twice : SUBSET Ids, cut : BOOLEAN]
    /\ \/ visit = NoVisit
       \/ visit \in Visits
    /\ stable \subseteq alive /\ up \subseteq Ids /\ down \subseteq Ids

Init == /\ alive \in SUBSET Ids
        /\ walk = Fresh /\ visit = NoVisit
        /\ stable = {} /\ up = {} /\ down = {}

-----------------------------------------------------------------------------
(* The catalog.                                                              *)

Later(i) == {j \in Ids : j > i}

Insert(i) ==
    /\ i \notin alive
    /\ alive' = alive \union {i} /\ down' = down \union Later(i)
    /\ UNCHANGED <<walk, visit, stable, up>>

Delete(i) ==
    /\ i \in alive
    /\ alive' = alive \ {i} /\ stable' = stable \ {i} /\ up' = up \union Later(i)
    /\ UNCHANGED <<walk, visit, down>>

-----------------------------------------------------------------------------
(* listHandler.                                                              *)

\* The client asks for the first page, of all images or of an author's.
StartWalk(a) ==
    /\ walk.state # "going"
    /\ walk' = [Fresh EXCEPT !.state = "going", !.author = a]
    /\ stable' = alive /\ up' = {} /\ down' = {}
    /\ UNCHANGED <<alive, visit>>

\* How many of the images S come before i.
Before(S, i) == Cardinality({j \in S : j < i})

\* ORDER BY id LIMIT limit OFFSET limit * (page - 1) of the images S.
Page(S, p) == {i \in S : Before(S, i) \div Limit = p - 1}

\* Mutant of HasNext: the last page has a next one, as the first always has.
HasNextAlways(shown) == TRUE

\* getLinkHeader: page 1 names a next page even when it is the last.
HasNext(shown) == walk.page = 1 \/ Cardinality(shown) >= Limit

\* The client is shown these images and follows rel="next", which does not keep
\* the author.
Show(shown, cut) ==
    /\ walk' = [state |-> IF HasNext(shown) THEN "going" ELSE "ended",
                page |-> walk.page + 1, author |-> FALSE,
                seen |-> walk.seen \union shown,
                twice |-> walk.twice \union (walk.seen \intersect shown),
                cut |-> walk.cut \/ cut \/ walk.author]
    /\ UNCHANGED <<alive, visit, history>>

Asked == walk.state = "going" /\ walk.page <= MaxPage
Listed == Page(IF walk.author THEN alive \intersect Ours ELSE alive, walk.page)

\* Mutant of Fetch: the offset is one short of the images before the page.
FetchOverlapping ==
    Asked /\ Show({i \in alive : LET n == Before(alive, i) IN
                      /\ n >= Limit * (walk.page - 1) - (IF walk.page = 1 THEN 0 ELSE 1)
                      /\ n < Limit * walk.page}, FALSE)

\* Mutant of Fetch: pages are counted from 0 by the query and from 1 by the links.
FetchSkipping == Asked /\ Show(Page(alive, walk.page + 1), FALSE)

Fetch == Asked /\ Show(Listed, FALSE)

\* The connection breaks while rows are read: rows.Err is not looked at, and the
\* page ends early.
FetchCut == Asked /\ \E k \in Listed : Show({i \in Listed : i < k}, TRUE)

\* The query fails.
FetchFails == /\ Asked /\ walk' = [walk EXCEPT !.state = "failed"]
              /\ UNCHANGED <<alive, visit, history>>

-----------------------------------------------------------------------------
(* Parameters of a request: sizes, an extension, blur (absent; bare, without  *)
(* a number that Atoi takes; or with one, its amount) and grayscale.         *)

Lower(ext) == CASE ext = ".JPG" -> ".jpg" [] ext = ".WEBP" -> ".webp" [] OTHER -> ext

\* params.GetParams returns no error.
Parses(q) == /\ q.w <= MaxInt /\ q.h <= MaxInt
             /\ Lower(q.ext) \in {"", ".jpg", ".webp"}

GetParams(q) ==
    [w |-> q.w, h |-> q.h,
     ext |-> IF q.ext = "" THEN ".jpg" ELSE Lower(q.ext),
     blur |-> q.blur # "absent",
     amount |-> CASE q.blur = "absent" -> 0 [] q.blur = "bare" -> DefaultBlur
                  [] q.blur = "number" -> q.amount,
     gray |-> q.gray]

\* validateImageParams
Valid(p) == /\ p.w <= MaxSize /\ p.h <= MaxSize
            /\ p.blur => p.amount \in 1..MaxBlur

\* The images the handlers of the routes choose from; the ?author of the random
\* route falls back to all images.
Choice(q) ==
    LET ours == alive \intersect Ours IN
    CASE q.route \in {"id", "image"} -> alive \intersect {q.id}
      [] q.route \in {"seed", "random", "g"} -> alive
      [] q.route = "author" -> IF ours = {} THEN alive ELSE ours

\* Mutant of Location: the size is passed on as it was asked for.
LocationUnsized(q, p, i) ==
    [id |-> i, w |-> p.w, h |-> p.h, ext |-> p.ext,
     blur |-> IF p.blur THEN "number" ELSE "absent", amount |-> p.amount,
     gray |-> p.gray \/ q.route = "g"]

\* validateAndRedirect: the URL of the image service, with the image's own size
\* for 0; the deprecated /g/ route forces grayscale.
Location(q, p, i) ==
    [id |-> i, w |-> IF p.w = 0 THEN Own(i) ELSE p.w, h |-> IF p.h = 0 THEN Own(i) ELSE p.h,
     ext |-> p.ext, blur |-> IF p.blur THEN "number" ELSE "absent", amount |-> p.amount,
     gray |-> p.gray \/ q.route = "g"]

\* A request that is redirected. One that is not changes nothing: 400 when it does
\* not parse or is not valid, 404 or 500 when there is no image to choose.
Redirect(q) ==
    /\ visit.stage # "redirected" /\ Parses(q) /\ Valid(GetParams(q))
    /\ \E i \in Choice(q) :
         visit' = [stage |-> "redirected", request |-> q,
                   location |-> Location(q, GetParams(q), i)]
    /\ UNCHANGED <<alive, walk, history>>

\* What imageHandler may answer to l: it parses the parameters again, and hands
\* them to the processor, which has no image of them if the file is not there or
\* cannot be read, if the queue is full or the request has been given up. Else
\* libvips refuses a width or height below 1.
Answers(l) ==
    LET p == GetParams(l) IN
    IF ~Parses(l) THEN {"refused"}
    ELSE {"failed", IF p.w > 0 /\ p.h > 0 THEN "served" ELSE "unsized"}

\* The client follows the redirect, whatever has become of the image by now.
Follow ==
    /\ visit.stage = "redirected"
    /\ \E a \in Answers(visit.location) : visit' = [visit EXCEPT !.stage = a]
    /\ UNCHANGED <<alive, walk, history>>

-----------------------------------------------------------------------------
WalkStep == Fetch \/ FetchCut \/ FetchFails

Next == \/ \E i \in Ids : Insert(i) \/ Delete(i)
        \/ \E a \in BOOLEAN : StartWalk(a)
        \/ WalkStep
        \/ \E q \in Requests : Redirect(q)
        \/ Follow

Spec == Init /\ [][Next]_vars

\* The client goes on with its walk.
FairSpec == Spec /\ WF_vars(WalkStep)

-----------------------------------------------------------------------------
(* Properties.                                                               *)

\* Paging is by offset, over a catalog that changes between pages. A walk along
\* the Link headers still shows every image that was there all the time, if none
\* before it was deleted meanwhile, whatever was inserted (list.go:99, 135). (Not
\* if a page was cut short, and not for an author's list, list.go:163-176.)
WalkIsComplete ==
    walk.state = "ended" /\ ~walk.cut => stable \ up \subseteq walk.seen

\* And it shows no image twice if none before it was inserted meanwhile.
WalkRepeatsNothing == ~walk.author /\ ~walk.cut => walk.twice \subseteq down

\* Every walk ends.
WalkEnds == walk.state = "going" ~> walk.state # "going"

\* The reference for a redirect: what the client asked for, in its own terms.
AskedFor(q, p, i) ==
    /\ p.w = IF q.w = 0 THEN Own(i) ELSE q.w
    /\ p.h = IF q.h = 0 THEN Own(i) ELSE q.h
    /\ p.w <= MaxSize \/ p.w = Own(i)
    /\ p.ext = IF Lower(q.ext) = ".webp" THEN ".webp" ELSE ".jpg"
    /\ p.blur = (q.blur # "absent")
    /\ p.blur => p.amount = IF q.blur = "number" THEN q.amount ELSE DefaultBlur
    /\ p.gray = (q.gray \/ q.route = "g")

\* The image service takes every redirect the API hands out for a request it can
\* read, does with it what the client asked the API for, and fails on its size only
\* where the client left a size open of an image whose own is not known (0 is
\* stored). It may fail on the file or on its load, which the redirect has no part in
\* (api/image.go:150-188, params.go, imageapi/image.go:26-112, vips-bridge.c:54).
RedirectsAreServed ==
    /\ visit.stage # "refused"
    /\ visit.stage = "unsized" => /\ Own(visit.location.id) = 0
                                  /\ visit.request.w = 0 \/ visit.request.h = 0
    /\ visit.stage = "served" =>
         AskedFor(visit.request, GetParams(visit.location), visit.location.id)

\* What a walk has seen by the time it asks for the next page: of what was there
\* all the time, all that is before that page; and of what nothing was inserted
\* before, nothing that is not.
SeenInv ==
    /\ walk.state = "going" /\ ~walk.cut =>
         \A i \in stable \ up : Before(alive, i) < Limit * (walk.page - 1) => i \in walk.seen
    /\ ~walk.author /\ ~walk.cut =>
         \A i \in walk.seen \ down : Before(alive, i) < Limit * (walk.page - 1)

\* A redirect asks for what the client asked for.
VisitInv ==
    visit.stage # "idle" =>
        AskedFor(visit.request, GetParams(visit.location), visit.location.id)

IInv == TypeOK /\ SeenInv /\ WalkIsComplete /\ WalkRepeatsNothing /\ VisitInv /\ RedirectsAreServed
=============================================================================
