---------------------------- MODULE SeedAgreement ----------------------------
(***************************************************************************)
(* What the calls of SeedResolution owe each other while the catalog stays *)
(* as it is: one image for one seed and tag. A history variable remembers  *)
(* for which slots a broken query may have made it another one.            *)
(***************************************************************************)
EXTENDS SeedResolution

VARIABLE doubt \* the slots that broken queries may have resolved otherwise

quietVars == <<vars, doubt>>

\* The slots that a call of r may resolve otherwise by the query that breaks now: a
\* pool cut short gives its own slot another pick, of all images also the seed
\* alone; a count that fails stores the pick for a tag under the empty tag.
CutShort(r) == IF pc[r] = "pickTagged" THEN {slot[r]} ELSE {slot[r], <<Seed(r), NoTag>>}
Miscounted(r) == IF pc[r] = "count" THEN {<<Seed(r), NoTag>>} ELSE {}

Doubting(r) == \/ PoolCut(r) /\ doubt' = doubt \union CutShort(r)
               \/ QueryFails(r) /\ doubt' = doubt \union Miscounted(r)

Undoubted == /\ \/ \E r \in Requests : Statement(r) \/ \E x \in Slots : Start(r, x)
                \/ AdminStep
             /\ UNCHANGED doubt

\* The catalog stays as it is; seeds may be cleared.
QuietNext == /\ Undoubted \/ \E r \in Requests : Doubting(r)
             /\ UNCHANGED <<catalog, merge>>

QuietSpec == /\ Init /\ doubt = {}
             /\ [][QuietNext]_quietVars

-----------------------------------------------------------------------------
(* Properties.                                                               *)

\* The slots no broken query has touched: no pool was cut short for them and, for
\* the slot of the empty tag, no count failed, which makes of a pick for a tag the
\* resolution of the seed alone.
Steady == Slots \ doubt

\* Two answers for one seed and tag are the same image ("Always the same image
\* for seed `hello`", RAILWAY.md:74), however the calls overlap and whatever is
\* cleared meanwhile, unless a broken query touched that slot. (Stated for
\* QuietSpec: uploads, tag edits and deletes change what a seed without a
\* resolution is resolved to.)
SameImage == \A q, r \in Requests :
    /\ pc[q] = "answered" /\ pc[r] = "answered"
    /\ slot[q] = slot[r] /\ slot[q] \in Steady
    => img[q] = img[r]

-----------------------------------------------------------------------------
(* Why it holds.                                                             *)

\* What a call for x picks from, and that i is its pick.
Pool(x) == IF x[2] \in Tags /\ Tagged(x[2]) # {} THEN Tagged(x[2]) ELSE alive
Chosen(x, i) == Pool(x) # {} /\ i = Pick(x[1], Pool(x))

\* The tag a call stores its pick under.
EffectiveTag(x) == IF x[2] \in Tags /\ Tagged(x[2]) # {} THEN x[2] ELSE NoTag

\* What call r has in hand is what its slot resolves to, and it stores under the
\* empty tag only what the seed alone resolves to.
Follows(r) ==
    /\ pc[r] \in {"pickTagged", "count"} => Tag(r) # NoTag
    /\ pc[r] \in {"lookup", "fetch", "pickTagged", "pickAny"} => effective[r] = NoTag
    /\ slot[r] \in Steady =>
          /\ pc[r] \in {"fetch", "count", "store", "storeTag", "answered"} => Chosen(slot[r], img[r])
          /\ pc[r] = "pickAny" => EffectiveTag(slot[r]) = NoTag
    /\ pc[r] \in {"store", "storeTag"} /\ <<Seed(r), NoTag>> \in Steady
       => effective[r] = EffectiveTag(slot[r])

\* So is what is stored for it.
StoredInv == \A x \in Steady : row[x] \in {None, Absent} \/ Chosen(x, row[x])

\* A broken query for a tag nobody carries is one for the seed alone.
DoubtInv == \A x \in doubt : <<x[1], NoTag>> \in doubt \/ EffectiveTag(x) # NoTag

QuietInv == StoredInv /\ DoubtInv /\ \A r \in Requests : Follows(r)
=============================================================================
