------------------------ MODULE SeedResolution_proofs ------------------------
(***************************************************************************)
(* What holds of stored seed resolutions for every set of calls, seeds,    *)
(* tags and images, and for every deterministic pick.                      *)
(***************************************************************************)
EXTENDS SeedAgreement, TLAPS

LEMMA InitInv == Init => IInv
<1> SUFFICES ASSUME Init PROVE IInv
  OBVIOUS
<1>1. merge \in [stage : {"none", "begun", "rewritten"},
                 winner : Images \union {None}, losers : SUBSET Images,
                 tags : SUBSET Tags, rows : SUBSET Slots]
  BY DEF Init, NoMerge
<1>2. TypeOK
  BY <1>1 DEF Init, TypeOK, CallState
<1> QED BY <1>2 DEF IInv, Init, RowsAlive, MergeInv, NoMerge, EffectiveInv

\* A call's move keeps the types of what only calls write.
LEMMA CallTypes ==
  ASSUME IInv, NEW r \in Requests, CallStep(r) \/ \E x \in Slots : Start(r, x)
  PROVE  /\ pc' \in [Requests -> CallState]
         /\ slot' \in [Requests -> Slots]
         /\ img' \in [Requests -> Images \union {None}]
         /\ effective' \in [Requests -> Tags \union {NoTag}]
<1> USE DEF IInv, TypeOK, Goto, CallState, FirstPick
<1>1. Tag(r) \in Tags \union {NoTag} /\ Seed(r) \in Seeds
  BY DEF Tag, Seed, Slots
<1>2. CASE \E x \in Slots : Start(r, x)
  BY <1>2 DEF Start
<1>3. CASE Lookup(r)
  BY <1>3 DEF Lookup
<1>4. CASE Fetch(r)
  BY <1>4 DEF Fetch
<1>5. CASE PickTagged(r)
  <2>1. Tagged(Tag(r)) # {} => Pick(Seed(r), Tagged(Tag(r))) \in Images
    BY <1>1, SeedAssumption DEF Tagged
  <2> QED BY <1>5, <2>1 DEF PickTagged
<1>6. CASE PickAny(r)
  <2>1. alive # {} => Pick(Seed(r), alive) \in Images
    BY <1>1, SeedAssumption
  <2> QED BY <1>6, <2>1 DEF PickAny
<1>7. CASE Count(r)
  BY <1>1, <1>7 DEF Count
<1>8. CASE Store(r) \/ StoreTag(r)
  BY <1>8 DEF Store, StoreTag
<1>9. CASE QueryFails(r)
  BY <1>9 DEF QueryFails
<1>10. CASE PoolCut(r)
  <2>1. \A P \in Prefixes(Tagged(Tag(r))) : P # {} => Pick(Seed(r), P) \in Images
    BY <1>1, SeedAssumption DEF Tagged
  <2>2. \A P \in Prefixes(alive) : P # {} => Pick(Seed(r), P) \in Images
    BY <1>1, SeedAssumption
  <2> QED BY <1>10, <2>1, <2>2 DEF PoolCut
<1> QED BY <1>2, <1>3, <1>4, <1>5, <1>6, <1>7, <1>8, <1>9, <1>10 DEF CallStep, Statement

\* A call's move keeps what it may store under.
LEMMA CallEffective ==
  ASSUME IInv, NEW r \in Requests, CallStep(r) \/ \E x \in Slots : Start(r, x)
  PROVE  EffectiveInv'
<1> USE DEF IInv, TypeOK, Goto, FirstPick, EffectiveInv, Tag
<1>1. CASE \E x \in Slots : Start(r, x)
  BY <1>1 DEF Start
<1>2. CASE Count(r)
  BY <1>2 DEF Count
<1>3. CASE QueryFails(r)
  BY <1>3 DEF QueryFails
<1>4. CASE \/ Lookup(r) \/ Fetch(r) \/ PickTagged(r) \/ PickAny(r) \/ PoolCut(r)
           \/ Store(r) \/ StoreTag(r)
  <2>1. PICK to \in CallState \ {"idle"} : pc' = [pc EXCEPT ![r] = to]
    BY <1>4 DEF Lookup, Fetch, PickTagged, PickAny, PoolCut, Store, StoreTag, CallState
  <2>2. UNCHANGED <<slot, effective>>
    BY <1>4 DEF Lookup, Fetch, PickTagged, PickAny, PoolCut, Store, StoreTag
  <2> QED BY <2>1, <2>2
<1> QED BY <1>1, <1>2, <1>3, <1>4 DEF CallStep, Statement

\* Calls write rows with images that are alive, and touch nothing else.
LEMMA CallInv ==
  ASSUME IInv, NEW r \in Requests, CallStep(r) \/ \E x \in Slots : Start(r, x)
  PROVE  IInv'
<1>1. UNCHANGED <<alive, tags, merge>>
  BY DEF CallStep, Statement, Start, Lookup, Fetch, PickTagged, PickAny, Count, Store, StoreTag,
         QueryFails, PoolCut, catalog
<1>2. UNCHANGED row \/ \E x \in Slots, i \in alive : ~Locked(x) /\ row' = [row EXCEPT ![x] = i]
  <2>1. CASE Store(r) \/ StoreTag(r)
    <3>1. slot[r] \in Slots /\ <<Seed(r), effective[r]>> \in Slots
      BY DEF IInv, TypeOK, Slots, Seed
    <3> QED BY <2>1, <3>1 DEF Store, StoreTag, Put
  <2> QED BY <2>1 DEF CallStep, Statement, Start, Lookup, Fetch, PickTagged, PickAny, Count, QueryFails,
                    PoolCut
<1>3. row' \in [Slots -> Images \union {None, Absent}] /\ RowsAlive'
  BY <1>1, <1>2 DEF IInv, TypeOK, RowsAlive
<1>4. TypeOK'
  BY <1>1, <1>3, CallTypes DEF IInv, TypeOK
<1>5. MergeInv'
  BY <1>1, <1>2 DEF IInv, TypeOK, MergeInv, Locked
<1> QED BY <1>1, <1>3, <1>4, <1>5, CallEffective DEF IInv

\* SET NULL leaves rows that name survivors, NULL or nothing.
LEMMA WithoutFacts ==
  ASSUME NEW D, NEW A, NEW rows \in [Slots -> Images \union {None, Absent}],
         \A x \in Slots : rows[x] \in A \union {None, Absent}
  PROVE  /\ Without(D, rows) \in [Slots -> Images \union {None, Absent}]
         /\ \A x \in Slots : Without(D, rows)[x] \in (A \ D) \union {None, Absent}
  BY DEF Without

LEMMA CatalogInv ==
  ASSUME IInv, CatalogStep
  PROVE  IInv'
<1> USE DEF IInv
<1>1. ASSUME NEW i \in Images, NEW T \in SUBSET Tags, Upload(i, T) \/ UpdateTags(i, T)
      PROVE  IInv'
  <2>1. /\ alive \subseteq alive' /\ alive' \subseteq Images
        /\ tags' \in [Images -> SUBSET Tags]
        /\ UNCHANGED <<row, pc, slot, img, effective, merge>>
    BY <1>1 DEF Upload, UpdateTags, TypeOK, calls
  <2>2. TypeOK'
    BY <2>1 DEF TypeOK
  <2> QED BY <2>1, <2>2 DEF RowsAlive, MergeInv, EffectiveInv, Tag
<1>2. ASSUME NEW i \in Images, DeleteImage(i)
      PROVE  IInv'
  <2>1. /\ alive' = alive \ {i} /\ ~ImageLocked(i)
        /\ tags' \in [Images -> SUBSET Tags]
        /\ row' = Without({i}, row)
        /\ UNCHANGED <<pc, slot, img, effective, merge>>
    BY <1>2 DEF DeleteImage, TypeOK, calls
  <2>2. /\ row' \in [Slots -> Images \union {None, Absent}]
        /\ \A x \in Slots : row'[x] \in (alive \ {i}) \union {None, Absent}
    BY <2>1, WithoutFacts DEF TypeOK, RowsAlive
  <2>3. TypeOK'
    BY <2>1, <2>2 DEF TypeOK
  <2>4. MergeInv'
    <3>1. \A x \in Slots : Locked(x) => row'[x] = row[x]
      BY <1>2, <2>1 DEF DeleteImage, Without
    <3> QED BY <2>1, <3>1 DEF MergeInv, ImageLocked, Locked, TypeOK
  <2> QED BY <2>1, <2>2, <2>3, <2>4 DEF RowsAlive, EffectiveInv, Tag
<1> QED BY <1>1, <1>2 DEF CatalogStep

LEMMA ClearInv ==
  ASSUME IInv, NEW C \in ClearSets, Clear(C)
  PROVE  IInv'
<1>1. /\ row' = [x \in Slots |-> IF x \in C THEN Absent ELSE row[x]]
      /\ UNCHANGED <<alive, tags, pc, slot, img, effective, merge>>
  BY DEF Clear, catalog, calls
<1>2. row' \in [Slots -> Images \union {None, Absent}] /\ RowsAlive'
  BY <1>1 DEF IInv, TypeOK, RowsAlive
<1>3. TypeOK'
  BY <1>1, <1>2 DEF IInv, TypeOK
<1>4. MergeInv'
  <2>1. merge.stage = "rewritten" => merge.rows \subseteq Slots
    BY DEF IInv, TypeOK
  <2>2. \A x \in Slots : Locked(x) => row'[x] = row[x]
    BY <1>1 DEF Clear
  <2> QED BY <1>1, <2>1, <2>2 DEF IInv, MergeInv, Locked
<1> QED BY <1>1, <1>2, <1>3, <1>4 DEF IInv, EffectiveInv, Tag

LEMMA MergeStepInv ==
  ASSUME IInv, MergeStep
  PROVE  IInv'
<1> USE DEF IInv
<1> DEFINE MergeType == [stage : {"none", "begun", "rewritten"},
                         winner : Images \union {None}, losers : SUBSET Images,
                         tags : SUBSET Tags, rows : SUBSET Slots]
<1>1. ASSUME NEW w \in Images, NEW L \in SUBSET Images, MergeBegin(w, L)
      PROVE  IInv'
  <2>1. UNION {tags[i] : i \in L \union {w}} \subseteq Tags
    BY DEF TypeOK
  <2>2. /\ merge' \in MergeType /\ merge'.stage = "begun"
        /\ merge'.winner = w /\ merge'.losers = L
        /\ w \notin L
        /\ UNCHANGED <<alive, tags, row, pc, slot, img, effective>>
    BY <1>1, <2>1 DEF MergeBegin, catalog, calls
  <2>3. TypeOK'
    BY <2>2 DEF TypeOK
  <2> QED BY <2>2, <2>3 DEF RowsAlive, MergeInv, EffectiveInv, Tag
<1>2. CASE MergeRewrite
  <2> DEFINE found == {x \in Slots : row[x] \in merge.losers}
  <2> DEFINE w == IF merge.winner \in alive THEN merge.winner ELSE None
  <2>1. /\ merge \in MergeType
        /\ merge' = [merge EXCEPT !.stage = "rewritten", !.rows = found, !.winner = w]
        /\ merge.winner \in alive \/ found = {}
        /\ merge.stage = "begun"
        /\ UNCHANGED <<alive, tags, row, pc, slot, img, effective>>
    BY <1>2 DEF MergeRewrite, TypeOK, catalog, calls
  <2>2. /\ merge' \in MergeType /\ merge'.stage = "rewritten"
        /\ merge'.rows = found /\ merge'.winner = w /\ merge'.losers = merge.losers
    BY <2>1
  <2>3. TypeOK'
    BY <2>1, <2>2 DEF TypeOK
  <2>4. MergeInv'
    BY <2>1, <2>2, SeedAssumption DEF MergeInv
  <2> QED BY <2>1, <2>3, <2>4 DEF RowsAlive, EffectiveInv, Tag
<1>3. CASE MergeCommit
  <2> DEFINE rewritten == [x \in Slots |-> IF x \in merge.rows THEN merge.winner ELSE row[x]]
  <2>1. /\ merge \in MergeType /\ merge.stage = "rewritten"
        /\ alive' = alive \ merge.losers
        /\ row' = Without(merge.losers, rewritten)
        /\ merge' = NoMerge
        /\ UNCHANGED <<pc, slot, img, effective>>
    BY <1>3 DEF MergeCommit, TypeOK, calls
  <2>2. tags' \in [Images -> SUBSET Tags]
    BY <1>3 DEF MergeCommit, TypeOK
  <2>3. /\ rewritten \in [Slots -> Images \union {None, Absent}]
        /\ \A x \in Slots : rewritten[x] \in alive \union {None, Absent}
    BY <2>1 DEF TypeOK, RowsAlive, MergeInv
  <2> HIDE DEF rewritten
  <2>4. /\ row' \in [Slots -> Images \union {None, Absent}]
        /\ \A x \in Slots : row'[x] \in (alive \ merge.losers) \union {None, Absent}
    BY <2>1, <2>3, WithoutFacts
  <2>5. merge' \in MergeType /\ merge'.stage = "none"
    BY <2>1 DEF NoMerge
  <2>6. TypeOK'
    BY <2>1, <2>2, <2>4, <2>5 DEF TypeOK
  <2> QED BY <2>1, <2>4, <2>5, <2>6 DEF RowsAlive, MergeInv, EffectiveInv, Tag
<1>4. CASE MergeRollback
  <2>1. /\ merge' \in MergeType /\ merge'.stage = "none"
        /\ UNCHANGED <<alive, tags, row, pc, slot, img, effective>>
    BY <1>4 DEF MergeRollback, NoMerge, catalog, calls
  <2>2. TypeOK'
    BY <2>1 DEF TypeOK
  <2> QED BY <2>1, <2>2 DEF RowsAlive, MergeInv, EffectiveInv, Tag
<1> QED BY <1>1, <1>2, <1>3, <1>4 DEF MergeStep

LEMMA NextInv == IInv /\ [Next]_vars => IInv'
<1> SUFFICES ASSUME IInv, [Next]_vars PROVE IInv'
  OBVIOUS
<1>1. ASSUME NEW r \in Requests, CallStep(r) \/ \E x \in Slots : Start(r, x) PROVE IInv'
  BY <1>1, CallInv
<1>2. CASE AdminStep
  BY <1>2, CatalogInv, MergeStepInv, ClearInv DEF AdminStep
<1>3. CASE UNCHANGED vars
  BY <1>3 DEF vars, IInv, TypeOK, RowsAlive, MergeInv, EffectiveInv, Tag
<1> QED BY <1>1, <1>2, <1>3 DEF Next

\* The types, the foreign key and the merge's locks hold throughout.
THEOREM Invariance == Spec => []IInv
<1> QED BY InitInv, NextInv, PTL DEF Spec

\* No stored resolution ever names an image that is gone, whichever deletes,
\* merges, failed queries and late stores come together.
THEOREM ResolutionsStayAlive == Spec => []RowsAlive
<1>1. IInv => RowsAlive
  BY DEF IInv
<1> QED BY <1>1, Invariance, PTL

\* Only a call for the slot itself can overwrite a tagged slot, and a settled
\* slot has no such call left.
LEMMA SettledStep ==
  ASSUME IInv, [Next]_vars, NEW x \in Seeds \X Tags, NEW i \in Images, Settled(x, i),
         ~ReadFails(x)
  PROVE  Settled(x, i)' \/ Removal(x, i)
<1>0. x \in Slots /\ x[2] # NoTag /\ i # None /\ i # Absent
  BY SeedAssumption DEF Slots
<1>1. ASSUME NEW r \in Requests, CallStep(r) \/ \E y \in Slots : Start(r, y)
      PROVE  Settled(x, i)'
  <2> USE DEF Goto
  <2>1. ASSUME slot[r] = x, pc[r] \notin {"idle", "lookup"},
               ~(pc[r] = "fetch" /\ img[r] = i)
        PROVE  FALSE
    BY <1>1, <2>1 DEF Settled, CallStep, Statement, Start, Lookup, Fetch, PickTagged, PickAny, Count,
                      Store, StoreTag, QueryFails, PoolCut
  <2>2. row'[x] = i
    <3>1. CASE Store(r)
      <4>1. <<Seed(r), effective[r]>> # x
        <5> SUFFICES ASSUME <<Seed(r), effective[r]>> = x PROVE FALSE
          OBVIOUS
        <5>1. effective[r] = Tag(r)
          BY <1>0 DEF IInv, EffectiveInv
        <5>2. slot[r] = x
          BY <5>1 DEF IInv, TypeOK, Slots, Seed, Tag
        <5> QED BY <2>1, <3>1, <5>2 DEF Store
      <4> QED BY <1>0, <3>1, <4>1 DEF Store, Put, Settled, IInv, TypeOK
    <3>2. CASE StoreTag(r)
      <4>1. slot[r] # x
        BY <2>1, <3>2 DEF StoreTag
      <4> QED BY <1>0, <3>2, <4>1 DEF StoreTag, Put, Settled, IInv, TypeOK
    <3>3. CASE ~Store(r) /\ ~StoreTag(r)
      BY <1>1, <3>3 DEF Settled, CallStep, Statement, Start, Lookup, Fetch, PickTagged, PickAny, Count,
                        QueryFails, PoolCut
    <3> QED BY <3>1, <3>2, <3>3
  <2>3. \A q \in Requests : q # r => UNCHANGED <<pc[q], slot[q], img[q]>>
    BY <1>1 DEF CallStep, Statement, Start, Lookup, Fetch, PickTagged, PickAny, Count, Store, StoreTag,
                QueryFails, PoolCut, IInv, TypeOK
  <2>4. slot'[r] = x => \/ pc'[r] \in {"idle", "lookup", "answered", "failed"}
                        \/ pc'[r] = "fetch" /\ img'[r] = i
    <3>1. CASE \E y \in Slots : Start(r, y)
      BY <3>1 DEF Start, IInv, TypeOK
    <3>2. CASE Lookup(r)
      BY <3>2 DEF Lookup, Settled, IInv, TypeOK
    <3>3. CASE Fetch(r)
      <4>1. i \in alive
        BY <1>0 DEF Settled, IInv, RowsAlive
      <4> QED BY <2>1, <3>3, <4>1 DEF Fetch, IInv, TypeOK
    <3>4. CASE PickTagged(r) \/ PickAny(r) \/ PoolCut(r) \/ Count(r) \/ Store(r) \/ StoreTag(r)
      <4>1. slot[r] # x
        BY <2>1, <3>4 DEF PickTagged, PickAny, PoolCut, Count, Store, StoreTag
      <4> QED BY <3>4, <4>1 DEF PickTagged, PickAny, PoolCut, Count, Store, StoreTag
    <3>5. CASE QueryFails(r)
      <4>1. slot[r] = x => pc[r] \notin {"lookup", "fetch"}
        BY <3>5 DEF ReadFails
      <4>2. slot[r] # x
        BY <2>1, <3>5, <4>1 DEF QueryFails
      <4> QED BY <3>5, <4>2 DEF QueryFails
    <3> QED BY <1>1, <3>1, <3>2, <3>3, <3>4, <3>5 DEF CallStep, Statement
  <2> QED BY <2>2, <2>3, <2>4 DEF Settled
<1>2. CASE (\E j \in Images : \E T \in SUBSET Tags : Upload(j, T) \/ UpdateTags(j, T))
           \/ (\E w \in Images : \E L \in SUBSET Images : MergeBegin(w, L))
           \/ MergeRewrite \/ MergeRollback \/ UNCHANGED vars
  <2>1. UNCHANGED <<row, pc, slot, img>>
    BY <1>2 DEF Upload, UpdateTags, MergeBegin, MergeRewrite, MergeRollback, vars, calls
  <2> QED BY <2>1 DEF Settled
<1>3. ASSUME UNCHANGED <<pc, slot, img>>, row'[x] = i PROVE Settled(x, i)'
  BY <1>3 DEF Settled
<1>4. ASSUME NEW j \in Images, DeleteImage(j) PROVE Settled(x, i)' \/ Removal(x, i)
  <2>1. CASE j = i
    BY <1>4, <2>1 DEF Removal
  <2>2. CASE j # i
    <3>1. row'[x] = i /\ UNCHANGED <<pc, slot, img>>
      BY <1>0, <1>4, <2>2 DEF DeleteImage, Without, Settled, calls
    <3> QED BY <1>3, <3>1
  <2> QED BY <2>1, <2>2
<1>5. ASSUME NEW C \in ClearSets, Clear(C) PROVE Settled(x, i)' \/ Removal(x, i)
  <2>1. CASE x \in C
    BY <1>5, <2>1 DEF Removal
  <2>2. CASE x \notin C
    <3>1. row'[x] = i /\ UNCHANGED <<pc, slot, img>>
      BY <1>0, <1>5, <2>2 DEF Clear, Settled, calls
    <3> QED BY <1>3, <3>1
  <2> QED BY <2>1, <2>2
<1>6. CASE MergeCommit
  <2>1. /\ merge.stage = "rewritten" /\ UNCHANGED <<pc, slot, img>>
        /\ row' = Without(merge.losers, [y \in Slots |-> IF y \in merge.rows THEN merge.winner
                                                       ELSE row[y]])
    BY <1>6 DEF MergeCommit, calls
  <2>2. /\ merge.winner \notin merge.losers
        /\ x \in merge.rows => i \in merge.losers
    BY <2>1 DEF IInv, MergeInv, Settled
  <2>3. CASE i \in merge.losers
    <3>1. x \in merge.rows => row'[x] = merge.winner
      BY <1>0, <2>1, <2>2 DEF Without
    <3> QED BY <1>6, <2>3, <3>1 DEF Removal
  <2>4. CASE i \notin merge.losers
    <3>1. row'[x] = i
      BY <1>0, <2>1, <2>2, <2>4 DEF Without, Settled
    <3> QED BY <1>3, <2>1, <3>1
  <2> QED BY <2>3, <2>4
<1> QED BY <1>1, <1>2, <1>4, <1>5, <1>6 DEF Next, AdminStep, CatalogStep, MergeStep

\* A settled tagged seed keeps its image until that image or that row is taken away,
\* or reading it fails; merged away, it follows to the winner.
THEOREM SeedsStick == Spec => TaggedSeedsStick
<1>1. ASSUME IInv, [Next]_vars
      PROVE  [\A x \in Seeds \X Tags : Sticks(x) \/ ReadFails(x)]_vars
  BY <1>1, SettledStep DEF Sticks
<1> QED BY <1>1, Invariance, PTL DEF Spec, TaggedSeedsStick

-----------------------------------------------------------------------------
(* While the catalog stays as it is.                                         *)

\* The pool depends on the tags in the catalog only.
LEMMA PoolKept ==
  ASSUME UNCHANGED <<alive, tags>>, NEW x PROVE Pool(x)' = Pool(x) /\ EffectiveTag(x)' = EffectiveTag(x)
  BY DEF Pool, EffectiveTag, Tagged

\* A query that breaks only adds doubts.
LEMMA DoubtsGrow ==
  ASSUME [QuietNext]_quietVars PROVE doubt \subseteq doubt' /\ Steady' \subseteq Steady
  BY DEF QuietNext, Doubting, Undoubted, quietVars, Steady

\* The resolution of the seed alone is in doubt with that of a tag nobody carries.
LEMMA FallsBack ==
  ASSUME IInv, DoubtInv, NEW r \in Requests, <<Seed(r), NoTag>> \in Steady,
         EffectiveTag(slot[r]) = NoTag
  PROVE  slot[r] \in Steady
<1>1. slot[r] \in Slots /\ slot[r][1] = Seed(r)
  BY DEF IInv, TypeOK, Seed
<1> QED BY <1>1 DEF DoubtInv, Steady

\* The pick of a call is the resolution of the slot it stores it under.
LEMMA StoredUnder ==
  ASSUME IInv, QuietInv, NEW r \in Requests, pc[r] = "store", NEW x \in Steady,
         x = <<Seed(r), effective[r]>>
  PROVE  Chosen(x, img[r])
<1>1. slot[r] \in Slots /\ slot[r] = <<Seed(r), Tag(r)>> /\ Tag(r) \in Tags \union {NoTag}
  BY DEF IInv, TypeOK, Slots, Seed, Tag
<1>2. effective[r] \in {NoTag, Tag(r)}
  BY DEF IInv, EffectiveInv
<1>3. CASE effective[r] = Tag(r)
  BY <1>1, <1>3 DEF QuietInv, Follows
<1>4. CASE effective[r] # Tag(r)
  <2>1. EffectiveTag(slot[r]) = NoTag
    BY <1>2, <1>4 DEF QuietInv, Follows
  <2>2. slot[r] \in Steady
    BY <1>2, <1>4, <2>1, FallsBack DEF QuietInv
  <2>3. Pool(slot[r]) = alive /\ Pool(x) = alive /\ x[1] = slot[r][1]
    BY <1>1, <1>2, <1>4, <2>1, SeedAssumption DEF Pool, EffectiveTag
  <2> QED BY <2>2, <2>3 DEF QuietInv, Follows, Chosen
<1> QED BY <1>3, <1>4

\* A call stores what the slot resolves to.
LEMMA QuietRows ==
  ASSUME IInv, QuietInv, NEW r \in Requests, Store(r) \/ StoreTag(r), NEW x \in Steady
  PROVE  row'[x] \in {None, Absent} \/ Chosen(x, row'[x])
<1>0. x \in Slots /\ row \in [Slots -> Images \union {None, Absent}]
  BY DEF IInv, TypeOK, Steady
<1>1. CASE Store(r)
  <2>1. x = <<Seed(r), effective[r]>> => Chosen(x, img[r])
    BY <1>1, StoredUnder DEF Store, Goto
  <2> QED BY <1>0, <1>1, <2>1 DEF Store, Put, QuietInv, StoredInv
<1>2. CASE StoreTag(r)
  <2>1. x = slot[r] => Chosen(x, img[r])
    BY <1>2 DEF StoreTag, Goto, QuietInv, Follows
  <2> QED BY <1>0, <1>2, <2>1 DEF StoreTag, Put, QuietInv, StoredInv
<1> QED BY <1>1, <1>2

\* A step of r leaves every other call where it is.
LEMMA OthersFollow ==
  ASSUME QuietInv, NEW r \in Requests, UNCHANGED <<alive, tags>>, Steady' \subseteq Steady,
         Follows(r)',
         \A q \in Requests \ {r} : UNCHANGED <<pc[q], slot[q], img[q], effective[q]>>
  PROVE  \A q \in Requests : Follows(q)'
<1> SUFFICES ASSUME NEW q \in Requests \ {r} PROVE Follows(q)'
  OBVIOUS
<1>1. Follows(q)
  BY DEF QuietInv
<1>2. UNCHANGED <<Pool(slot[q]), EffectiveTag(slot[q]), Tag(q), Seed(q)>>
  BY PoolKept DEF Tag, Seed
<1> QED BY <1>1, <1>2 DEF Follows, Chosen

LEMMA FirstPickFollows ==
  ASSUME IInv, NEW r \in Requests
  PROVE  /\ FirstPick(r) \in {"pickAny", "pickTagged"}
         /\ FirstPick(r) = "pickTagged" => Tag(r) # NoTag
         /\ FirstPick(r) = "pickAny" => EffectiveTag(slot[r]) = NoTag
  BY SeedAssumption DEF FirstPick, EffectiveTag, Tag

\* A step of r that breaks no query leaves it with what its slot resolves to.
LEMMA CallFollows ==
  ASSUME IInv, QuietInv, NEW r \in Requests, Statement(r) \/ \E x \in Slots : Start(r, x),
         UNCHANGED <<alive, tags, doubt>>
  PROVE  Follows(r)'
<1> USE DEF Goto, IInv, TypeOK
<1>0. Follows(r) /\ (slot[r] \in Steady => row[slot[r]] \in {None, Absent} \/ Chosen(slot[r], row[slot[r]]))
  BY DEF QuietInv, StoredInv
<1>1. /\ \A x \in Slots : /\ \A i : Chosen(x, i)' <=> Chosen(x, i)
                          /\ EffectiveTag(x)' = EffectiveTag(x)
      /\ Steady' = Steady /\ Steady \subseteq Slots
  BY PoolKept DEF Chosen, Steady
<1>2. slot[r] \in Slots /\ Tag(r) \in Tags \union {NoTag} /\ None \notin Images /\ Absent \notin Images
  BY SeedAssumption DEF Slots, Tag
<1>3. CASE \E x \in Slots : Start(r, x)
  <2>1. pc[r] = "idle" /\ pc'[r] = "lookup" /\ effective' = effective
    BY <1>3 DEF Start
  <2> QED BY <2>1 DEF EffectiveInv, Follows
<1>4. ASSUME UNCHANGED slot PROVE UNCHANGED <<Tag(r), Seed(r)>>
  BY <1>4 DEF Tag, Seed
<1>5. CASE Lookup(r)
  BY <1>0, <1>1, <1>2, <1>4, <1>5, FirstPickFollows DEF Lookup, Follows
<1>6. CASE Fetch(r)
  BY <1>0, <1>1, <1>2, <1>4, <1>6, FirstPickFollows DEF Fetch, Follows
<1>7. CASE PickTagged(r)
  <2> DEFINE pool == Tagged(Tag(r))
  <2>1. CASE pool = {}
    <3>1. pc'[r] = "pickAny" /\ pc[r] = "pickTagged" /\ UNCHANGED <<slot, effective>>
      BY <1>7, <2>1 DEF PickTagged
    <3>2. EffectiveTag(slot[r]) = NoTag
      BY <2>1 DEF EffectiveTag, Tag
    <3> QED BY <1>0, <1>1, <1>2, <1>4, <3>1, <3>2 DEF Follows
  <2>2. CASE pool # {}
    <3>1. /\ pc'[r] = "count" /\ pc[r] = "pickTagged" /\ UNCHANGED <<slot, effective>>
          /\ img'[r] = Pick(Seed(r), pool)
      BY <1>7, <2>2 DEF PickTagged
    <3>2. Tag(r) # NoTag /\ Pool(slot[r]) = pool
      BY <1>0, <1>2, <2>2, <3>1 DEF Follows, Pool, Tag
    <3>3. Chosen(slot[r], img'[r])
      BY <2>2, <3>1, <3>2 DEF Chosen, Seed
    <3> QED BY <1>1, <1>2, <1>4, <3>1, <3>2, <3>3 DEF Follows
  <2> QED BY <2>1, <2>2
<1>8. CASE PickAny(r)
  <2>1. CASE alive = {}
    BY <1>4, <1>8, <2>1 DEF PickAny, Follows
  <2>2. CASE alive # {}
    <3>1. /\ pc'[r] = IF Tag(r) = NoTag THEN "store" ELSE "count"
          /\ pc[r] = "pickAny" /\ UNCHANGED <<slot, effective>>
          /\ img'[r] = Pick(Seed(r), alive)
      BY <1>8, <2>2 DEF PickAny
    <3>2. /\ effective[r] = NoTag
          /\ slot[r] \in Steady => EffectiveTag(slot[r]) = NoTag
      BY <1>0, <3>1 DEF Follows
    <3>3. slot[r] \in Steady => Pool(slot[r]) = alive
      BY <3>2, SeedAssumption DEF Pool, EffectiveTag
    <3>4. slot[r] \in Steady => Chosen(slot[r], img'[r])
      BY <2>2, <3>1, <3>3 DEF Chosen, Seed
    <3>5. Tag(r) = NoTag => EffectiveTag(slot[r]) = NoTag
      BY SeedAssumption DEF EffectiveTag, Tag
    <3> QED BY <1>1, <1>2, <1>4, <3>1, <3>2, <3>4, <3>5 DEF Follows
  <2> QED BY <2>1, <2>2
<1>9. CASE Count(r)
  <2>1. (IF Tagged(Tag(r)) = {} THEN NoTag ELSE Tag(r)) = EffectiveTag(slot[r])
    BY <1>0, <1>2, <1>9 DEF Count, Follows, EffectiveTag, Tag
  <2> QED BY <1>0, <1>1, <1>2, <1>4, <2>1, <1>9 DEF Count, Follows
<1>10. CASE Store(r) \/ StoreTag(r)
  BY <1>0, <1>1, <1>2, <1>4, <1>10 DEF Store, StoreTag, Follows
<1> QED BY <1>3, <1>5, <1>6, <1>7, <1>8, <1>9, <1>10 DEF Statement

\* Nor does a query that breaks, but for the slots it puts in doubt.
LEMMA BrokenFollows ==
  ASSUME IInv, QuietInv, NEW r \in Requests, Doubting(r), UNCHANGED <<alive, tags>>
  PROVE  Follows(r)'
<1> USE DEF Goto, IInv, TypeOK
<1>0. Follows(r) /\ UNCHANGED slot
  BY DEF QuietInv, Doubting, PoolCut, QueryFails
<1>1. /\ \A x \in Slots : /\ \A i : Chosen(x, i)' <=> Chosen(x, i)
                          /\ EffectiveTag(x)' = EffectiveTag(x)
      /\ Steady' = Slots \ doubt' /\ Steady' \subseteq Steady /\ Steady \subseteq Slots
  BY PoolKept DEF Chosen, Doubting, Steady
<1>2. slot[r] \in Slots /\ Tag(r) \in Tags \union {NoTag} /\ UNCHANGED <<Tag(r), Seed(r)>>
  BY <1>0 DEF Slots, Tag, Seed
<1>3. CASE PoolCut(r) /\ doubt' = doubt \union CutShort(r)
  <2>1. pc[r] \in {"pickTagged", "pickAny"} /\ effective'[r] = effective[r] /\ slot[r] \in doubt'
    BY <1>3 DEF PoolCut, CutShort
  <2>2. CASE pc[r] = "pickTagged"
    <3>1. pc'[r] \in {"pickAny", "count"}
      BY <1>3, <2>2 DEF PoolCut
    <3> QED BY <1>0, <1>1, <1>2, <2>1, <2>2, <3>1 DEF Follows
  <2>3. CASE pc[r] = "pickAny"
    <3>1. /\ pc'[r] \in {"failed", "store", "count"}
          /\ pc'[r] = "count" => Tag(r) # NoTag
          /\ <<Seed(r), NoTag>> \in doubt'
      BY <1>3, <2>3 DEF PoolCut, CutShort
    <3> QED BY <1>0, <1>1, <1>2, <2>1, <2>3, <3>1 DEF Follows
  <2> QED BY <2>1, <2>2, <2>3
<1>4. CASE QueryFails(r) /\ doubt' = doubt \union Miscounted(r)
  <2>2. CASE pc[r] = "count"
    <3>1. <<Seed(r), NoTag>> \in doubt' /\ pc'[r] = "store" /\ img' = img
      BY <1>4, <2>2 DEF QueryFails, Miscounted
    <3> QED BY <1>0, <1>1, <1>2, <2>2, <3>1 DEF Follows
  <2>3. CASE pc[r] # "count"
    BY <1>0, <1>1, <1>2, <1>4, <2>3, FirstPickFollows DEF QueryFails, Follows
  <2> QED BY <2>2, <2>3
<1> QED BY <1>3, <1>4 DEF Doubting

\* What a broken query puts in doubt, it puts in doubt for the seed alone if no
\* image carries the tag.
LEMMA BrokenDoubts ==
  ASSUME IInv, QuietInv, NEW r \in Requests, Doubting(r), UNCHANGED <<alive, tags>>
  PROVE  DoubtInv'
<1> USE DEF Goto, IInv, TypeOK
<1>1. \A x : EffectiveTag(x)' = EffectiveTag(x)
  BY PoolKept
<1>2. doubt \subseteq doubt'
  BY DEF Doubting
<1>3. \A x \in doubt' \ doubt : <<x[1], NoTag>> \in doubt' \/ EffectiveTag(x) # NoTag
  <2>1. CASE PoolCut(r) /\ pc[r] = "pickTagged"
    <3>1. Tagged(Tag(r)) # {}
      <4>1. PICK P \in Prefixes(Tagged(Tag(r))) : TRUE
        BY <2>1 DEF PoolCut
      <4>2. Tagged(Tag(r)) \in SUBSET Images
        BY DEF Tagged
      <4>3. P \subseteq Tagged(Tag(r)) /\ P # Tagged(Tag(r))
        BY <4>1, <4>2, SeedAssumption
      <4> QED BY <4>3
    <3>2. Tag(r) \in Tags
      <4>1. Tag(r) \in Tags \union {NoTag} /\ Tag(r) # NoTag
        BY <2>1 DEF QuietInv, Follows, Slots, Tag
      <4> QED BY <4>1
    <3>3. EffectiveTag(slot[r]) # NoTag
      BY <3>1, <3>2, SeedAssumption DEF EffectiveTag, Tag
    <3>4. doubt' \subseteq doubt \union {slot[r]}
      BY <2>1 DEF Doubting, CutShort, Miscounted
    <3> QED BY <3>3, <3>4
  <2>2. CASE ~(PoolCut(r) /\ pc[r] = "pickTagged")
    <3>1. \/ doubt' = doubt \union {slot[r], <<Seed(r), NoTag>>}
          \/ doubt' = doubt \union {<<Seed(r), NoTag>>}
          \/ doubt' = doubt
      BY <2>2 DEF Doubting, CutShort, Miscounted
    <3>2. slot[r][1] = Seed(r) /\ <<Seed(r), NoTag>>[1] = Seed(r)
      BY DEF Seed
    <3> QED BY <3>1, <3>2
  <2> QED BY <2>1, <2>2
<1> QED BY <1>1, <1>2, <1>3 DEF QuietInv, DoubtInv

LEMMA InitQuiet == Init /\ doubt = {} => QuietInv
  BY DEF Init, QuietInv, StoredInv, DoubtInv, Follows, Steady

LEMMA NextQuiet == IInv /\ QuietInv /\ [QuietNext]_quietVars => QuietInv'
<1> SUFFICES ASSUME IInv, QuietInv, [QuietNext]_quietVars PROVE QuietInv'
  OBVIOUS
<1>0. UNCHANGED <<alive, tags>> /\ Steady' \subseteq Steady
  BY DoubtsGrow DEF QuietNext, quietVars, vars, catalog
<1>1. \A x : (\A i : Chosen(x, i)' <=> Chosen(x, i)) /\ EffectiveTag(x)' = EffectiveTag(x)
  BY <1>0, PoolKept DEF Chosen
<1>2. UNCHANGED row => StoredInv'
  BY <1>0, <1>1 DEF QuietInv, StoredInv
<1>3. UNCHANGED doubt => DoubtInv'
  BY <1>1 DEF QuietInv, DoubtInv
<1>4. ASSUME NEW r \in Requests, CallStep(r) \/ \E x \in Slots : Start(r, x)
      PROVE  \A q \in Requests \ {r} : UNCHANGED <<pc[q], slot[q], img[q], effective[q]>>
  BY <1>4 DEF CallStep, Statement, Start, Lookup, Fetch, PickTagged, PickAny, Count, Store, StoreTag,
              QueryFails, PoolCut, Goto, IInv, TypeOK
<1>5. ASSUME NEW r \in Requests, Doubting(r) PROVE QuietInv'
  <2>1. \A q \in Requests : Follows(q)'
    BY <1>0, <1>4, <1>5, BrokenFollows, OthersFollow DEF Doubting, CallStep
  <2>2. UNCHANGED row
    BY <1>5 DEF Doubting, QueryFails, PoolCut
  <2> QED BY <1>0, <1>2, <1>5, <2>1, <2>2, BrokenDoubts DEF QuietInv
<1>6. ASSUME NEW r \in Requests, Statement(r) \/ \E x \in Slots : Start(r, x), UNCHANGED doubt
      PROVE  QuietInv'
  <2>1. \A q \in Requests : Follows(q)'
    BY <1>0, <1>4, <1>6, CallFollows, OthersFollow DEF CallStep
  <2>2. StoredInv'
    <3>1. CASE Store(r) \/ StoreTag(r)
      BY <1>0, <1>1, <3>1, QuietRows DEF StoredInv
    <3>2. CASE ~(Store(r) \/ StoreTag(r))
      BY <1>2, <1>6, <3>2 DEF Statement, Start, Lookup, Fetch, PickTagged, PickAny, Count
    <3> QED BY <3>1, <3>2
  <2> QED BY <1>3, <1>6, <2>1, <2>2 DEF QuietInv
<1>7. ASSUME UNCHANGED <<pc, slot, img, effective>> PROVE \A q \in Requests : Follows(q)'
  <2>1. \A q \in Requests : UNCHANGED <<EffectiveTag(slot[q]), Tag(q), Seed(q)>>
    BY <1>0, <1>7, PoolKept DEF Tag, Seed
  <2> QED BY <1>0, <1>1, <1>7, <2>1 DEF QuietInv, Follows
<1>8. ASSUME NEW C \in ClearSets, Clear(C), UNCHANGED doubt PROVE QuietInv'
  <2>1. UNCHANGED <<pc, slot, img, effective>>
    BY <1>8 DEF Clear, calls
  <2>2. \A x \in Slots : row'[x] \in {Absent, row[x]}
    BY <1>8 DEF Clear
  <2>3. StoredInv'
    BY <1>0, <1>1, <2>2 DEF QuietInv, StoredInv, Steady
  <2> QED BY <1>3, <1>7, <1>8, <2>1, <2>3 DEF QuietInv
<1>9. CASE UNCHANGED quietVars
  BY <1>2, <1>3, <1>7, <1>9 DEF quietVars, vars, QuietInv
<1>10. CASE (CatalogStep \/ MergeStep) /\ UNCHANGED <<catalog, merge, doubt>>
  <2>1. UNCHANGED <<pc, slot, img, effective>>
    BY <1>10 DEF CatalogStep, MergeStep, Upload, UpdateTags, DeleteImage, MergeBegin, MergeRewrite,
                MergeCommit, MergeRollback, calls
  <2>2. UNCHANGED row
    <3>1. ~(\E i \in Images : DeleteImage(i))
      BY <1>0 DEF DeleteImage
    <3>2. ~MergeCommit
      <4>1. NoMerge.stage = "none"
        BY DEF NoMerge
      <4> QED BY <1>10, <4>1 DEF MergeCommit
    <3> QED BY <1>10, <3>1, <3>2 DEF CatalogStep, MergeStep, Upload, UpdateTags, MergeBegin, MergeRewrite,
                                    MergeRollback
  <2> QED BY <1>2, <1>3, <1>7, <1>10, <2>1, <2>2 DEF QuietInv
<1> QED BY <1>5, <1>6, <1>8, <1>9, <1>10 DEF QuietNext, Undoubted, AdminStep

\* What QuietSpec allows is what Spec allows.
LEMMA QuietIsNext == [QuietNext]_quietVars => [Next]_vars
  BY DEF QuietNext, Doubting, Undoubted, quietVars, Next, CallStep

\* While the catalog stays as it is, what is stored for a seed and a tag, and what
\* every call has in hand, is what they resolve to: only the stores of calls that
\* have read the same catalog come in between, and clears. A broken query undoes
\* this for the slots it puts in doubt, and for no others.
THEOREM QuietInvariance == QuietSpec => []QuietInv
<1>1. IInv /\ [QuietNext]_quietVars => IInv'
  BY NextInv, QuietIsNext
<1> QED BY InitInv, InitQuiet, NextQuiet, <1>1, PTL DEF QuietSpec

\* All calls for one seed and tag answer with the same image, whether it was
\* stored before or each of them picked it (postgres.go:182-249): for every pick
\* that depends on the seed and the pool alone, unless a pool was cut short for
\* that seed and tag or, of the empty tag, a count failed.
THEOREM SameSeedSameImage == QuietSpec => []SameImage
<1>1. QuietInv => SameImage
  BY DEF QuietInv, Follows, Chosen, SameImage
<1> QED BY <1>1, QuietInvariance, PTL
=============================================================================
