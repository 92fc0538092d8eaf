---------------------------- MODULE SeedResolution ----------------------------
(***************************************************************************)
(* How a seed is turned into an image: GetRandomWithSeedAndTag of          *)
(* internal/database/postgres/postgres.go, against the admin operations of *)
(* internal/admin/admin.go that change images, tags and stored             *)
(* resolutions. Each SQL statement is one step; nothing but the merge runs *)
(* in a transaction.                                                       *)
(***************************************************************************)
EXTENDS Naturals, FiniteSets

CONSTANTS Requests,    (* the calls of GetRandomWithSeedAndTag               *)
          Seeds, Tags, (* the seeds and the non-empty tags requests may name *)
          Images,      (* image ids                                          *)
          NoTag,       (* the empty tag                                      *)
          None,        (* SQL NULL, and "no image yet" in a call             *)
          Absent,      (* no row in seed_resolutions                         *)
          Pick(_, _),  (* Pick(s, P): what the seeded generator picks from P *)
          Prefixes(_), (* Prefixes(P): what is read of P, in the order of    *)
                       (* the ids, when the rows break off before the end    *)
          Faults       (* whether a query may fail                           *)

ASSUME SeedAssumption ==
    /\ NoTag \notin Tags
    /\ None \notin Images /\ Absent \notin Images /\ None # Absent
    /\ \A s \in Seeds : \A P \in SUBSET Images : P # {} => Pick(s, P) \in P
    /\ \A P \in SUBSET Images : \A Q \in Prefixes(P) : Q \subseteq P /\ Q # P
    /\ Faults \in BOOLEAN

Slots == Seeds \X (Tags \union {NoTag})

VARIABLES
    alive,     \* the rows of images
    tags,      \* the tags column
    row,       \* seed_resolutions: row[<<seed, tag>>]
    pc,        \* pc[r]: the statement call r is at
    slot,      \* slot[r]: the seed and tag r asks for
    img,       \* img[r]: the image r has looked up or picked
    effective, \* effective[r]: effectiveTag
    merge      \* the merge transaction, or NoMerge

catalog == <<alive, tags>>
calls == <<pc, slot, img, effective>>
vars == <<alive, tags, row, pc, slot, img, effective, merge>>

NoMerge == [stage |-> "none", winner |-> None, losers |-> {}, tags |-> {}, rows |-> {}]

CallState == {"idle", "lookup", "fetch", "pickTagged", "pickAny", "count",
              "store", "storeTag", "answered", "failed"}

TypeOK ==
    /\ alive \subseteq Images
    /\ tags \in [Images -> SUBSET Tags]
    /\ row \in [Slots -> Images \union {None, Absent}]
    /\ pc \in [Requests -> CallState]
    /\ slot \in [Requests -> Slots]
    /\ img \in [Requests -> Images \union {None}]
    /\ effective \in [Requests -> Tags \union {NoTag}]
    /\ merge \in [stage : {"none", "begun", "rewritten"},
                  winner : Images \union {None}, losers : SUBSET Images,
                  tags : SUBSET Tags, rows : SUBSET Slots]

Init ==
    /\ alive \in SUBSET Images
    /\ tags \in [Images -> SUBSET Tags]
    /\ \A i \in Images \ alive : tags[i] = {}
    /\ row = [x \in Slots |-> Absent]
    /\ pc = [r \in Requests |-> "idle"]
    /\ \E x \in Slots : slot = [r \in Requests |-> x]
    /\ img = [r \in Requests |-> None]
    /\ effective = [r \in Requests |-> NoTag]
    /\ merge = NoMerge

Seed(r) == slot[r][1]
Tag(r) == slot[r][2]

Tagged(t) == {i \in alive : t \in tags[i]}

\* Rows and images the merge transaction has locked until it commits.
Locked(x) == merge.stage = "rewritten" /\ x \in merge.rows
ImageLocked(i) == merge.stage = "rewritten" /\ i = merge.winner

-----------------------------------------------------------------------------
(* GetRandomWithSeedAndTag.                                                  *)

Goto(r, from, to) == /\ pc[r] = from
                     /\ pc' = [pc EXCEPT ![r] = to]

FirstPick(r) == IF Tag(r) = NoTag THEN "pickAny" ELSE "pickTagged"

\* A request for slot x; what slot held before is not read.
Start(r, x) ==
    /\ Goto(r, "idle", "lookup")
    /\ slot' = [slot EXCEPT ![r] = x]
    /\ UNCHANGED <<catalog, row, img, effective, merge>>

\* Mutant of Lookup: the row is looked up by the seed alone.
LookupBySeed(r) ==
    LET stored == row[<<Seed(r), NoTag>>] IN
    /\ Goto(r, "lookup", IF stored \in Images THEN "fetch" ELSE FirstPick(r))
    /\ img' = [img EXCEPT ![r] = IF stored \in Images THEN stored ELSE None]
    /\ UNCHANGED <<catalog, row, slot, effective, merge>>

\* SELECT image_id: no row, and NULL, both leave storedImageID nil.
Lookup(r) ==
    LET stored == row[slot[r]] IN
    /\ Goto(r, "lookup", IF stored \in Images THEN "fetch" ELSE FirstPick(r))
    /\ img' = [img EXCEPT ![r] = IF stored \in Images THEN stored ELSE None]
    /\ UNCHANGED <<catalog, row, slot, effective, merge>>

\* SELECT the stored image: alive it is the answer, else resolve again.
Fetch(r) ==
    /\ Goto(r, "fetch", IF img[r] \in alive THEN "answered" ELSE FirstPick(r))
    /\ UNCHANGED <<catalog, row, slot, img, effective, merge>>

\* getRandomWithSeedAndTag over the images that carry the tag; when there are
\* none, over all images.
PickTagged(r) ==
    LET pool == Tagged(Tag(r)) IN
    /\ Goto(r, "pickTagged", IF pool = {} THEN "pickAny" ELSE "count")
    /\ img' = [img EXCEPT ![r] = IF pool = {} THEN None ELSE Pick(Seed(r), pool)]
    /\ UNCHANGED <<catalog, row, slot, effective, merge>>

\* Mutant of PickAny: no ORDER BY id under the seeded index.
PickAnyUnordered(r) ==
    /\ Goto(r, "pickAny", IF alive = {} THEN "failed"
                          ELSE IF Tag(r) = NoTag THEN "store" ELSE "count")
    /\ \E i \in IF alive = {} THEN {None} ELSE alive : img' = [img EXCEPT ![r] = i]
    /\ UNCHANGED <<catalog, row, slot, effective, merge>>

\* Mutant of PickAny: an empty table is asked again and again.
PickAnyRetrying(r) ==
    /\ alive # {}
    /\ Goto(r, "pickAny", IF Tag(r) = NoTag THEN "store" ELSE "count")
    /\ img' = [img EXCEPT ![r] = Pick(Seed(r), alive)]
    /\ UNCHANGED <<catalog, row, slot, effective, merge>>

PickAny(r) ==
    /\ Goto(r, "pickAny", IF alive = {} THEN "failed"
                          ELSE IF Tag(r) = NoTag THEN "store" ELSE "count")
    /\ img' = [img EXCEPT ![r] = IF alive = {} THEN None ELSE Pick(Seed(r), alive)]
    /\ UNCHANGED <<catalog, row, slot, effective, merge>>

\* pickWithTag counts the tag again to learn whether the pick fell back.
Count(r) ==
    /\ Goto(r, "count", "store")
    /\ effective' = [effective EXCEPT ![r] = IF Tagged(Tag(r)) = {} THEN NoTag ELSE Tag(r)]
    /\ UNCHANGED <<catalog, row, slot, img, merge>>

\* INSERT ... ON CONFLICT DO UPDATE; the foreign key rejects a dead image, and
\* the error is dropped. Rows a merge has rewritten stay locked until it ends.
Put(x, i) ==
    /\ ~Locked(x)
    /\ row' = IF i \in alive THEN [row EXCEPT ![x] = i] ELSE row

Store(r) ==
    /\ Goto(r, "store", IF effective[r] = Tag(r) THEN "answered" ELSE "storeTag")
    /\ Put(<<Seed(r), effective[r]>>, img[r])
    /\ UNCHANGED <<catalog, slot, img, effective, merge>>

StoreTag(r) ==
    /\ Goto(r, "storeTag", "answered")
    /\ Put(slot[r], img[r])
    /\ UNCHANGED <<catalog, slot, img, effective, merge>>

\* A query fails. The lookup, the fetch and the count drop the error and read
\* as "no row", "no image" and zero; the pool query fails the call; the stores
\* drop the error, whether or not the row was written (Store itself, when it was).
QueryFails(r) ==
    /\ Faults
    /\ \/ pc[r] \in {"lookup", "fetch"} /\ Goto(r, pc[r], FirstPick(r)) /\ UNCHANGED effective
       \/ pc[r] \in {"pickTagged", "pickAny"} /\ Goto(r, pc[r], "failed") /\ UNCHANGED effective
       \/ Goto(r, "count", "store") /\ effective' = [effective EXCEPT ![r] = NoTag]
       \/ /\ Goto(r, "store", IF effective[r] = Tag(r) THEN "answered" ELSE "storeTag")
          /\ UNCHANGED effective
       \/ Goto(r, "storeTag", "answered") /\ UNCHANGED effective
    /\ UNCHANGED <<catalog, row, slot, img, merge>>

\* A pool query breaks while its rows are read: rows.Next returns false, nobody
\* asks rows.Err, and the pick is made from the rows that came. None of a tag's
\* reads as a tag nobody carries, none at all as an empty table.
PoolCut(r) ==
    /\ Faults
    /\ \/ /\ pc[r] = "pickTagged"
          /\ \E P \in Prefixes(Tagged(Tag(r))) :
                /\ Goto(r, "pickTagged", IF P = {} THEN "pickAny" ELSE "count")
                /\ img' = [img EXCEPT ![r] = IF P = {} THEN None ELSE Pick(Seed(r), P)]
       \/ /\ pc[r] = "pickAny"
          /\ \E P \in Prefixes(alive) :
                /\ Goto(r, "pickAny", IF P = {} THEN "failed"
                                      ELSE IF Tag(r) = NoTag THEN "store" ELSE "count")
                /\ img' = [img EXCEPT ![r] = IF P = {} THEN None ELSE Pick(Seed(r), P)]
    /\ UNCHANGED <<catalog, row, slot, effective, merge>>

-----------------------------------------------------------------------------
(* The admin and upload handlers.                                            *)

\* handleUpload: INSERT ... ON CONFLICT DO UPDATE, with any tags. The tags that
\* no seed request names are left out: an empty T stands for an image that has
\* others only (an upload without any tag is refused, see Catalog!StoreFails).
Upload(i, T) ==
    /\ ~ImageLocked(i)
    /\ alive' = alive \union {i}
    /\ tags' = [tags EXCEPT ![i] = T]
    /\ UNCHANGED <<row, calls, merge>>

UpdateTags(i, T) ==
    /\ i \in alive /\ ~ImageLocked(i)
    /\ tags' = [tags EXCEPT ![i] = T]
    /\ UNCHANGED <<alive, row, calls, merge>>

\* Mutant of Without: no foreign key, the rows keep naming what is gone.
WithoutForeignKey(D, rows) == rows

\* The foreign key of seed_resolutions is ON DELETE SET NULL.
Without(D, rows) == [x \in Slots |-> IF rows[x] \in D THEN None ELSE rows[x]]

DeleteImage(i) ==
    /\ i \in alive /\ ~ImageLocked(i)
    /\ \A x \in Slots : row[x] = i => ~Locked(x)
    /\ alive' = alive \ {i}
    /\ tags' = [tags EXCEPT ![i] = {}]
    /\ row' = Without({i}, row)
    /\ UNCHANGED <<calls, merge>>

\* The seed pages delete rows: of one seed, of one tag, untagged ones, or all.
ClearSets == {{x \in Slots : x[1] = s} : s \in Seeds}
             \union {{x \in Slots : x[2] = t} : t \in Tags \union {NoTag}}
             \union {Slots}

Clear(C) ==
    /\ \E x \in C : row[x] # Absent
    /\ \A x \in C : row[x] # Absent => ~Locked(x)
    /\ row' = [x \in Slots |-> IF x \in C THEN Absent ELSE row[x]]
    /\ UNCHANGED <<catalog, calls, merge>>

\* handleMerge: the tags are read, inside the transaction.
MergeBegin(w, L) ==
    /\ merge.stage = "none"
    /\ w \in alive /\ L \subseteq alive \ {w} /\ L # {}
    /\ merge' = [stage |-> "begun", winner |-> w, losers |-> L, rows |-> {},
                 tags |-> UNION {tags[i] : i \in L \union {w}}]
    /\ UNCHANGED <<catalog, row, calls>>

\* The winner's tags and the seeds of the losers are updated; others see it at
\* the commit. The updates lock the rows they found. If the winner was deleted
\* since, its update finds no row, and the foreign key rejects a rewrite.
MergeRewrite ==
    LET found == {x \in Slots : row[x] \in merge.losers} IN
    /\ merge.stage = "begun"
    /\ merge.winner \in alive \/ found = {}
    /\ merge' = [merge EXCEPT !.stage = "rewritten", !.rows = found,
                              !.winner = IF @ \in alive THEN @ ELSE None]
    /\ UNCHANGED <<catalog, row, calls>>

\* Mutant of MergeCommit: the rows of the losers are not rewritten to the winner.
MergeCommitForgetting ==
    /\ merge.stage = "rewritten"
    /\ alive' = alive \ merge.losers
    /\ tags' = [i \in Images |-> IF i \in merge.losers THEN {}
                                 ELSE IF i = merge.winner THEN merge.tags
                                 ELSE tags[i]]
    /\ row' = Without(merge.losers, row)
    /\ merge' = NoMerge
    /\ UNCHANGED calls

\* The losers are deleted, with SET NULL on every row that names one by now,
\* and the transaction commits.
MergeCommit ==
    LET rewritten == [x \in Slots |-> IF x \in merge.rows THEN merge.winner ELSE row[x]] IN
    /\ merge.stage = "rewritten"
    /\ alive' = alive \ merge.losers
    /\ tags' = [i \in Images |-> IF i \in merge.losers THEN {}
                                 ELSE IF i = merge.winner THEN merge.tags
                                 ELSE tags[i]]
    /\ row' = Without(merge.losers, rewritten)
    /\ merge' = NoMerge
    /\ UNCHANGED calls

\* The deferred rollback, when a statement fails or the request is cancelled.
MergeRollback ==
    /\ merge.stage # "none"
    /\ merge' = NoMerge
    /\ UNCHANGED <<catalog, row, calls>>

-----------------------------------------------------------------------------

Statement(r) == \/ Lookup(r) \/ Fetch(r) \/ PickTagged(r) \/ PickAny(r) \/ Count(r)
                \/ Store(r) \/ StoreTag(r)

CallStep(r) == Statement(r) \/ QueryFails(r) \/ PoolCut(r)

CatalogStep ==
    \/ \E i \in Images : \E T \in SUBSET Tags : Upload(i, T) \/ UpdateTags(i, T)
    \/ \E i \in Images : DeleteImage(i)

MergeStep ==
    \/ \E w \in Images : \E L \in SUBSET Images : MergeBegin(w, L)
    \/ MergeRewrite \/ MergeCommit \/ MergeRollback

AdminStep == CatalogStep \/ MergeStep \/ \E C \in ClearSets : Clear(C)

Next == \/ \E r \in Requests : CallStep(r) \/ \E x \in Slots : Start(r, x)
        \/ AdminStep

Spec == Init /\ [][Next]_vars

\* A started call runs on, and no query owes it a failure; a transaction that was
\* begun ends, and a store that waits for a row lock gets it in its turn (Postgres
\* queues lock requests).
FairSpec == /\ Spec
            /\ \A r \in Requests : WF_vars(Statement(r)) /\ SF_vars(Store(r) \/ StoreTag(r))
            /\ WF_vars(MergeRewrite \/ MergeCommit \/ MergeRollback)

-----------------------------------------------------------------------------
(* Properties.                                                               *)

\* A stored resolution names an existing image or is NULL, whatever deletes,
\* merges and late stores come in between (postgres.go:47, ON DELETE SET NULL).
RowsAlive == \A x \in Slots : row[x] \in alive \union {None, Absent}

\* What keeps a merge's rewrite valid until it commits: the winner is none of the
\* losers, it is still there when rows were rewritten to it, and these rows name
\* losers as long as others see them.
MergeInv ==
    /\ merge.stage # "none" => merge.winner \notin merge.losers
    /\ merge.stage = "rewritten" => \/ merge.winner \in alive
                                    \/ merge.winner = None /\ merge.rows = {}
    /\ merge.stage = "rewritten" => \A x \in merge.rows : row[x] \in merge.losers

\* A call stores under its own tag or under the empty one.
EffectiveInv ==
    \A r \in Requests : /\ effective[r] \in {NoTag, Tag(r)}
                        /\ pc[r] = "idle" => effective[r] = NoTag

IInv == TypeOK /\ RowsAlive /\ MergeInv /\ EffectiveInv

\* x is resolved to i, and no call that looked x up earlier is still to store.
Settled(x, i) ==
    /\ row[x] = i
    /\ \A r \in Requests : slot[r] = x =>
          \/ pc[r] \in {"idle", "lookup", "answered", "failed"}
          \/ pc[r] = "fetch" /\ img[r] = i

\* What may take i away from slot x: i is deleted, x is cleared, or i is merged
\* away. A merge leaves x with its winner if it found x when it rewrote the rows.
Removal(x, i) ==
    \/ DeleteImage(i)
    \/ \E C \in ClearSets : x \in C /\ Clear(C)
    \/ /\ MergeCommit
       /\ i \in merge.losers
       /\ x \in merge.rows => row'[x] = merge.winner

Sticks(x) == \A i \in Images : Settled(x, i) => Settled(x, i)' \/ Removal(x, i)

\* A call for x cannot read what is stored.
ReadFails(x) == \E r \in Requests : /\ slot[r] = x /\ pc[r] \in {"lookup", "fetch"}
                                    /\ QueryFails(r)

\* Once a tagged seed is settled it stays what it is, for all later calls, until
\* that image is deleted, that row is cleared, reading it fails, or the image is
\* merged away, and then it follows to the winner: uploads and tag edits, stores of
\* slow calls, what is done to other images and rows and failures anywhere else do
\* not move it ("If a stored (seed, tag) resolution exists and the image is still
\* alive, return it", postgres.go:178; the rewrite is admin.go:799-811).
TaggedSeedsStick == [][\A x \in Seeds \X Tags : Sticks(x) \/ ReadFails(x)]_vars

\* Every call returns, with an image or an error, also while merges hold row locks.
EveryCallReturns == \A r \in Requests : pc[r] = "lookup" ~> pc[r] \in {"answered", "failed"}
=============================================================================
