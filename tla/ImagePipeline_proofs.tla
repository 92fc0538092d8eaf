------------------------ MODULE ImagePipeline_proofs ------------------------
(***************************************************************************)
(* What holds of the source cache and of the workers over it, for every set *)
(* of workers, images and variants.                                        *)
(***************************************************************************)
EXTENDS ImagePipeline, TLAPS

-----------------------------------------------------------------------------
(* The source cache.                                                         *)

InFlight == {"leading", "loaded", "stored"}

LEMMA InitInv == Init => IInv
  BY CacheAssumption DEF Init, IInv, TypeOK, Kind, FlightInv, AgeInv, ReadsNeverGoBack

\* Two callers in flight for one key are the same caller.
LEMMA OneFlight ==
  ASSUME FlightInv, NEW c \in Callers, NEW o \in Callers,
         pc[c] \in InFlight, pc[o] \in InFlight, key[c] = key[o]
  PROVE  c = o
  BY DEF FlightInv, InFlight

LEMMA BeginInv == ASSUME IInv, NEW c \in Callers, NEW k \in Keys, Begin(c, k) PROVE IInv'
<1> USE DEF Begin, Goto, IInv
<1>1. TypeOK'
  BY DEF TypeOK
<1>2. FlightInv'
  BY CacheAssumption DEF FlightInv, TypeOK
<1>3. AgeInv' /\ ReadsNeverGoBack'
  BY DEF AgeInv, ReadsNeverGoBack, TypeOK
<1> QED BY <1>1, <1>2, <1>3

LEMMA LookupInv == ASSUME IInv, NEW c \in Callers, Lookup(c) PROVE IInv'
<1> USE DEF Lookup, Goto, history, IInv
<1>1. TypeOK'
  BY DEF TypeOK
<1>2. FlightInv'
  BY DEF FlightInv, TypeOK
<1>3. AgeInv'
  BY DEF AgeInv, TypeOK
<1>4. ReadsNeverGoBack'
  BY DEF AgeInv, ReadsNeverGoBack, TypeOK
<1> QED BY <1>1, <1>2, <1>3, <1>4

LEMMA DoInv == ASSUME IInv, NEW c \in Callers, Do(c) PROVE IInv'
<1> USE DEF Do, Goto, history, IInv
<1>1. TypeOK'
  BY DEF TypeOK
<1>2. FlightInv'
  BY CacheAssumption DEF FlightInv, TypeOK
<1>3. AgeInv' /\ ReadsNeverGoBack'
  BY DEF AgeInv, ReadsNeverGoBack, TypeOK
<1> QED BY <1>1, <1>2, <1>3

LEMMA LoadInv == ASSUME IInv, NEW c \in Callers, Load(c) PROVE IInv'
<1> USE DEF Load, Goto, history, IInv
<1>1. TypeOK'
  BY DEF TypeOK
<1>2. FlightInv'
  BY DEF FlightInv, TypeOK
<1>3. AgeInv' /\ ReadsNeverGoBack'
  BY DEF AgeInv, ReadsNeverGoBack, TypeOK
<1> QED BY <1>1, <1>2, <1>3

\* Set leaves the flight up, so the contents of no other caller of the key in
\* flight can be affected: there is none.
LEMMA SetInv == ASSUME IInv, NEW c \in Callers, Set(c) PROVE IInv'
<1> USE DEF Set, Goto, history, IInv
<1>1. TypeOK'
  BY DEF TypeOK
<1>2. FlightInv'
  BY DEF FlightInv, TypeOK
<1>3. \A o \in Callers : pc[o] \in InFlight /\ key[o] = key[c] => o = c
  BY OneFlight DEF InFlight
<1>4. AgeInv' /\ ReadsNeverGoBack'
  BY <1>3 DEF AgeInv, ReadsNeverGoBack, TypeOK, InFlight
<1> QED BY <1>1, <1>2, <1>4

\* A landing flight hands out contents as old as the cache, or an error.
LEMMA LandInv ==
  ASSUME IInv, NEW c \in Callers, NEW from \in InFlight, NEW d \in Nat, Land(c, from, d),
         d = 0 \/ d = cache[key[c]]
  PROVE  IInv'
<1> USE DEF Land, history, IInv
<1>1. TypeOK'
  BY DEF TypeOK
<1>2. \A o \in Callers : pc[o] \in InFlight /\ key[o] = key[c] => o = c
  BY OneFlight DEF InFlight
<1>3. FlightInv'
  BY <1>2, CacheAssumption DEF FlightInv, TypeOK, InFlight
<1>4. AgeInv' /\ ReadsNeverGoBack'
  BY <1>2 DEF AgeInv, ReadsNeverGoBack, TypeOK, InFlight
<1> QED BY <1>1, <1>3, <1>4

LEMMA ReturnInv == ASSUME IInv, NEW c \in Callers, Return(c) PROVE IInv'
<1> USE DEF Return, Goto, IInv
<1>1. TypeOK'
  BY DEF TypeOK
<1>2. FlightInv'
  BY DEF FlightInv, TypeOK
<1>3. AgeInv' /\ ReadsNeverGoBack'
  BY DEF AgeInv, ReadsNeverGoBack, TypeOK
<1> QED BY <1>1, <1>2, <1>3

LEMMA ChangeInv == ASSUME IInv, NEW k \in Keys, NEW kind \in Kind, Change(k, kind) PROVE IInv'
<1> USE DEF Change, history, IInv
<1>1. TypeOK'
  BY DEF TypeOK
<1>2. FlightInv'
  BY DEF FlightInv
<1>3. AgeInv' /\ ReadsNeverGoBack'
  BY DEF AgeInv, ReadsNeverGoBack, TypeOK
<1> QED BY <1>1, <1>2, <1>3

LEMMA NextInv == IInv /\ [Next]_vars => IInv'
<1> SUFFICES ASSUME IInv, [Next]_vars PROVE IInv'
  OBVIOUS
<1>1. ASSUME NEW c \in Callers, GetStep(c) PROVE IInv'
  <2>1. CASE LoadFails(c)
    BY <2>1, LandInv DEF LoadFails, InFlight
  <2>2. CASE Finish(c)
    <3>1. data[c] \in Nat /\ data[c] = cache[key[c]]
      BY <2>2 DEF Finish, Land, IInv, AgeInv, TypeOK
    <3>2. QED BY <2>2, <3>1, LandInv DEF Finish, InFlight
  <2>3. QED BY <1>1, <2>1, <2>2, LookupInv, DoInv, LoadInv, SetInv, ReturnInv DEF GetStep
<1>2. ASSUME NEW k \in Keys, Truncate(k) \/ Fill(k) \/ Remove(k) PROVE IInv'
  BY <1>2, ChangeInv DEF Truncate, Fill, Remove, Kind
<1>3. CASE UNCHANGED vars
  BY <1>3 DEF vars, history, IInv, TypeOK, FlightInv, AgeInv, ReadsNeverGoBack
<1> QED BY <1>1, <1>2, <1>3, BeginInv DEF Next

\* The inductive invariant: one flight per key, and the ages in order
\* returned <= cached <= loaded <= stored.
THEOREM Invariance == Spec => []IInv
<1>1. QED BY InitInv, NextInv, PTL DEF Spec

\* Reads of an image never go back to older contents (cache.go:31-61).
THEOREM ReadsAreMonotone == Spec => []ReadsNeverGoBack
<1>1. IInv => ReadsNeverGoBack
  BY DEF IInv
<1>2. QED BY <1>1, Invariance, PTL

\* No Set replaces cached contents by older ones (cache.go:51).
THEOREM CacheIsMonotone == Spec => CacheNeverGoesBack
<1>1. IInv /\ [Next]_vars => [\A k \in Keys : cache'[k] >= cache[k]]_vars
  <2> SUFFICES ASSUME IInv, Next PROVE \A k \in Keys : cache'[k] >= cache[k]
    OBVIOUS
  <2> USE DEF IInv, TypeOK
  <2>1. ASSUME NEW c \in Callers, Set(c) PROVE \A k \in Keys : cache'[k] >= cache[k]
    BY <2>1 DEF Set, Goto, AgeInv
  <2>2. ASSUME NEW c \in Callers, GetStep(c), ~Set(c) PROVE \A k \in Keys : cache'[k] >= cache[k]
    BY <2>2 DEF GetStep, Lookup, Do, Load, LoadFails, Finish, Land, Return
  <2>3. QED BY <2>1, <2>2 DEF Next, Begin, Truncate, Fill, Remove, Change
<1>2. QED BY <1>1, Invariance, PTL DEF Spec, CacheNeverGoesBack

-----------------------------------------------------------------------------
(* Refinement: every step of a worker is a step of the source cache or none. *)

LEMMA StepSimulation == [PipelineNext]_pipelineVars => [Next]_vars
<1> SUFFICES ASSUME [PipelineNext]_pipelineVars PROVE [Next]_vars
  OBVIOUS
<1>1. ASSUME NEW w \in Callers, WorkerStep(w), ~GetOn(w), ~GetReturns(w) PROVE UNCHANGED vars
  BY <1>1 DEF WorkerStep, Resize, LoadFrames, Thumbnail, Blur, Grayscale, Save, Add, Call
<1>2. ASSUME NEW w \in Callers, GetOn(w) \/ GetReturns(w) PROVE Next
  BY <1>2 DEF GetOn, GetReturns, Next, GetStep
<1>3. ASSUME NEW w \in Callers, NEW k \in Keys, NEW v \in Variants, Miss(w, k, v) PROVE Next
  BY <1>3 DEF Miss, Next
<1>4. ASSUME NEW k \in Keys, NEW v \in Variants, Evict(k, v) PROVE UNCHANGED vars
  BY <1>4 DEF Evict
<1>5. CASE Storage
  BY <1>5 DEF Storage, Next
<1>6. CASE UNCHANGED pipelineVars
  BY <1>6 DEF pipelineVars
<1> QED BY <1>1, <1>2, <1>3, <1>4, <1>5, <1>6 DEF PipelineNext

-----------------------------------------------------------------------------
(* The inductive invariant.                                                  *)

\* What a step does to the source cache keeps its invariant, and no entry of it
\* gets older.
LEMMA SourceStep ==
  ASSUME PipelineInv, [PipelineNext]_pipelineVars
  PROVE  IInv' /\ \A k \in Keys : cache[k] <= cache'[k]
<1>1. [Next]_vars
  BY StepSimulation
<1>2. IInv'
  BY <1>1, NextInv DEF PipelineInv
<1>3. CASE UNCHANGED vars
  BY <1>2, <1>3 DEF vars, PipelineInv, IInv, TypeOK
<1>4. CASE Next
  <2> USE DEF PipelineInv, IInv, TypeOK
  <2>1. ASSUME NEW c \in Callers, Set(c) PROVE \A k \in Keys : cache[k] <= cache'[k]
    BY <2>1 DEF Set, Goto, AgeInv
  <2>2. ASSUME NEW c \in Callers, GetStep(c), ~Set(c) PROVE UNCHANGED cache
    BY <2>2 DEF GetStep, Lookup, Do, Load, LoadFails,
       Finish, Land, Return
  <2>3. ASSUME NEW c \in Callers, NEW k \in Keys, Begin(c, k) PROVE UNCHANGED cache
    BY <2>3 DEF Begin
  <2>4. ASSUME NEW k \in Keys, Truncate(k) \/ Fill(k) \/ Remove(k)
        PROVE  UNCHANGED cache
    BY <2>4 DEF Truncate, Fill, Remove, Change
  <2>5. (\A k \in Keys : cache[k] <= cache'[k]) \/ UNCHANGED cache
    BY <1>4, <2>1, <2>2, <2>3, <2>4 DEF Next
  <2>6. QED BY <1>2, <2>5
<1> QED BY <1>1, <1>2, <1>3, <1>4

\* The parts of the invariant beyond the source cache's own.
Own == /\ rendered \in [Keys -> [Variants -> Nat]]
       /\ stage \in [Callers -> {"idle", "get", "resize", "thumbnail", "blur", "grayscale",
                                 "save", "add"}]
       /\ variant \in [Callers -> Variants]
       /\ source \in [Callers -> Nat]
       /\ live \in [Callers -> SUBSET Handles]
       /\ HandlesInv /\ RenderedNotNewer /\ StageInv

LEMMA Parts == PipelineInv <=> IInv /\ Own
  BY DEF PipelineInv, PipelineTypeOK, Own, IInv

LEMMA PipelineInitInv == PipelineInit => PipelineInv
<1> SUFFICES ASSUME PipelineInit PROVE PipelineInv
  OBVIOUS
<1>1. IInv
  BY InitInv DEF PipelineInit
<1>2. Own
  BY DEF PipelineInit, Init, Own, HandlesInv, RenderedNotNewer, StageInv, Effects
<1> QED BY <1>1, <1>2, Parts

\* A step of Get changes nothing that Own is about but the age of the cache.
LEMMA GetOnInv ==
  ASSUME PipelineInv, NEW w \in Callers, GetOn(w), \A k \in Keys : cache[k] <= cache'[k]
  PROVE  Own'
<1> USE DEF PipelineInv, IInv, PipelineTypeOK, TypeOK
<1>1. UNCHANGED <<rendered, stage, variant, source, live, key>>
  BY DEF GetOn, render, GetStep, Lookup, Do, Load, LoadFails,
     Set, Finish, Land, Return
<1>2. cache' \in [Keys -> Nat]
  BY DEF GetOn, GetStep, Lookup, Do, Load, LoadFails,
     Set, Finish, Land, Return
<1>3. HandlesInv' /\ RenderedNotNewer'
  BY <1>1, <1>2 DEF HandlesInv, RenderedNotNewer, Blurred
<1>4. \A c \in Callers : pc'[c] = "idle" <=> pc[c] = "idle"
  BY DEF GetOn, GetStep, Lookup, Do, Load, LoadFails,
     Set, Finish, Land, Return, Goto
<1>5. StageInv'
  BY <1>1, <1>4 DEF StageInv, Effects
<1> QED BY <1>1, <1>3, <1>5 DEF Own

\* The steps outside Get: what they add to the rendered images is not newer than
\* the source, and every call takes one image for another.
LEMMA MissInv ==
  ASSUME PipelineInv, NEW w \in Callers, NEW k \in Keys, NEW v \in Variants, Miss(w, k, v)
  PROVE  Own'
<1> USE DEF Miss, Enter, Begin, Goto, PipelineInv, PipelineTypeOK, TypeOK
<1>1. HandlesInv'
  BY DEF HandlesInv, Blurred
<1>2. RenderedNotNewer'
  BY DEF RenderedNotNewer
<1>3. StageInv'
  BY DEF StageInv, Effects
<1> QED BY <1>1, <1>2, <1>3 DEF Own

LEMMA GetReturnsInv == ASSUME PipelineInv, NEW w \in Callers, GetReturns(w) PROVE Own'
<1> USE DEF GetReturns, Enter, Return, Goto, PipelineInv, PipelineTypeOK, TypeOK
<1>1. HandlesInv'
  BY DEF HandlesInv, Blurred
<1>2. RenderedNotNewer'
  BY DEF RenderedNotNewer, IInv, AgeInv
<1>3. StageInv'
  BY DEF StageInv, Effects
<1> QED BY <1>1, <1>2, <1>3 DEF Own

\* One libvips call: from is neither idle nor within Get, to has the images H.
LEMMA CallInv ==
  ASSUME PipelineInv, NEW w \in Callers, NEW H \in SUBSET Handles,
         NEW from \in {"resize", "thumbnail", "blur", "grayscale", "save"},
         NEW to \in {"thumbnail", "blur", "grayscale", "save", "add"},
         Call(w, from, to, H),
         /\ to = "add" => H = {}
         /\ to = "thumbnail" => H = {"loaded"}
         /\ to = "blur" => H = {"resized"}
         /\ to = "grayscale" => H = {Blurred(w)}
         /\ to = "save" => H = {IF "grayscale" \in variant[w] THEN "grayscale" ELSE Blurred(w)}
         /\ to \in Effects => to \in variant[w]
  PROVE  Own'
<1> USE DEF Call, Enter, vars, PipelineInv, PipelineTypeOK, TypeOK
<1>1. /\ stage' \in [Callers -> {"idle", "get", "resize", "thumbnail", "blur", "grayscale",
                                 "save", "add"}]
      /\ live' \in [Callers -> SUBSET Handles]
  <2>1. /\ \E s \in {to, "idle"} : stage' = [stage EXCEPT ![w] = s]
        /\ \E L \in {H, {}} : live' = [live EXCEPT ![w] = L]
    OBVIOUS
  <2>2. /\ stage \in [Callers -> {"idle", "get", "resize", "thumbnail", "blur", "grayscale",
                                  "save", "add"}]
        /\ live \in [Callers -> SUBSET Handles]
    OBVIOUS
  <2> HIDE DEF Call, Enter, vars, PipelineInv, PipelineTypeOK, TypeOK
  <2> QED BY <2>1, <2>2
<1>2. HandlesInv'
  <2>1. \A o \in Callers \ {w} : stage'[o] = stage[o] /\ live'[o] = live[o]
    OBVIOUS
  <2>2. \/ stage'[w] = "idle" /\ live'[w] = {}
        \/ stage'[w] = to /\ live'[w] = H
    OBVIOUS
  <2>3. UNCHANGED variant
    OBVIOUS
  <2>4. Blurred(w)' = Blurred(w) /\ \A o \in Callers : Blurred(o)' = Blurred(o)
    BY <2>3 DEF Blurred
  <2> HIDE DEF Call, Enter, vars, PipelineInv, PipelineTypeOK, TypeOK
  <2>5. HandlesInv
    BY DEF PipelineInv
  <2> QED BY <2>1, <2>2, <2>3, <2>4, <2>5 DEF HandlesInv
<1>3. RenderedNotNewer'
  BY DEF RenderedNotNewer
<1>4. StageInv'
  BY DEF StageInv, Effects
<1> QED BY <1>1, <1>2, <1>3, <1>4 DEF Own

LEMMA LibvipsInv ==
  ASSUME PipelineInv, NEW w \in Callers,
         Resize(w) \/ LoadFrames(w) \/ Thumbnail(w) \/ Blur(w) \/ Grayscale(w) \/ Save(w)
  PROVE  Own'
<1>1. stage[w] \in Effects => stage[w] \in variant[w]
  BY DEF PipelineInv, StageInv
<1>2. CASE Resize(w) \/ Thumbnail(w)
  BY <1>2, CallInv DEF Resize, Thumbnail, AfterResize, Handles, Blurred, Effects
<1>3. CASE LoadFrames(w)
  BY <1>3, CallInv DEF LoadFrames, Handles, Effects
<1>4. CASE Blur(w)
  <2>1. "blur" \in variant[w]
    BY <1>1, <1>4 DEF Blur, Call, Enter, Effects
  <2>2. QED BY <1>4, <2>1, CallInv DEF Blur, Handles, Blurred, Effects
<1>5. CASE Grayscale(w)
  <2>1. stage[w] = "grayscale" /\ "grayscale" \in variant[w]
    BY <1>1, <1>5 DEF Grayscale, Call, Enter, Effects
  <2>2. QED BY <1>5, <2>1, CallInv DEF Grayscale, Handles, Effects
<1>6. CASE Save(w)
  BY <1>6, CallInv DEF Save, Effects
<1> QED BY <1>2, <1>3, <1>4, <1>5, <1>6

LEMMA AddInv == ASSUME PipelineInv, NEW w \in Callers, Add(w) PROVE Own'
<1> USE DEF Add, Enter, vars, PipelineInv, PipelineTypeOK, TypeOK
<1>1. HandlesInv' /\ StageInv'
  BY DEF HandlesInv, StageInv, Blurred, Effects
<1>2. [rendered[key[w]] EXCEPT ![variant[w]] = source[w]] \in [Variants -> Nat]
  OBVIOUS
<1>3. rendered' \in [Keys -> [Variants -> Nat]]
  BY <1>2
<1>4. \A k \in Keys, v \in Variants :
         rendered'[k][v] = rendered[k][v] \/ (k = key[w] /\ rendered'[k][v] = source[w])
  <2>1. CASE rendered' = [rendered EXCEPT ![key[w]] = [@ EXCEPT ![variant[w]] = source[w]]]
    BY <2>1
  <2>2. CASE UNCHANGED rendered
    BY <2>2
  <2> QED BY <2>1, <2>2
<1>5. RenderedNotNewer'
  BY <1>4 DEF RenderedNotNewer
<1> QED BY <1>1, <1>3, <1>5 DEF Own

LEMMA EvictInv == ASSUME PipelineInv, NEW k \in Keys, NEW v \in Variants, Evict(k, v) PROVE Own'
<1> USE DEF Evict, render, vars, PipelineInv, PipelineTypeOK, TypeOK
<1>1. rendered' \in [Keys -> [Variants -> Nat]]
  OBVIOUS
<1>2. HandlesInv' /\ StageInv' /\ RenderedNotNewer'
  BY DEF HandlesInv, StageInv, RenderedNotNewer, Blurred, Effects
<1> QED BY <1>1, <1>2 DEF Own

LEMMA StorageInv == ASSUME PipelineInv, Storage PROVE Own'
<1>1. UNCHANGED <<cache, pc, key, rendered, stage, variant, source, live>>
  BY DEF Storage, render, Truncate, Fill, Remove, Change
<1>2. Own
  BY Parts
<1> QED BY <1>1, <1>2 DEF Own, HandlesInv, StageInv, RenderedNotNewer, Blurred

LEMMA PipelineNextInv == PipelineInv /\ [PipelineNext]_pipelineVars => PipelineInv'
<1> SUFFICES ASSUME PipelineInv, [PipelineNext]_pipelineVars PROVE PipelineInv'
  OBVIOUS
<1>1. IInv' /\ \A k \in Keys : cache[k] <= cache'[k]
  BY SourceStep
<1>2. Own'
  <2>1. ASSUME NEW w \in Callers, WorkerStep(w) PROVE Own'
    BY <1>1, <2>1, GetOnInv, GetReturnsInv, LibvipsInv, AddInv DEF WorkerStep
  <2>2. CASE UNCHANGED pipelineVars
    <3>1. Own
      BY Parts
    <3>2. QED BY <2>2, <3>1 DEF pipelineVars, vars, render, Own, HandlesInv, StageInv,
             RenderedNotNewer, Blurred
  <2>3. QED BY <2>1, <2>2, MissInv, EvictInv, StorageInv DEF PipelineNext
<1>3. (IInv /\ Own)'
  BY <1>1, <1>2
<1> QED BY <1>3, Parts, PTL

-----------------------------------------------------------------------------

\* The inductive invariant: the one of the source cache, and that each worker
\* holds exactly the image its stage needs.
THEOREM PipelineInvariance == PipelineSpec => []PipelineInv
<1>1. QED BY PipelineInitInv, PipelineNextInv, PTL DEF PipelineSpec

\* Every libvips image is released once, on every path through ProcessImage
\* (image/vips/vips.go:56-169, internal/vips/vips.go:87-294).
THEOREM HandlesReleased == PipelineSpec => []HandlesInv
<1>1. PipelineInv => HandlesInv
  BY DEF PipelineInv
<1>2. QED BY <1>1, PipelineInvariance, PTL

\* What is rendered is never newer than its source in the cache
\* (image/vips/vips.go:81-95, imageapi/image.go:86-118).
THEOREM RenderedIsNotNewer == PipelineSpec => []RenderedNotNewer
<1>1. PipelineInv => RenderedNotNewer
  BY DEF PipelineInv
<1>2. QED BY <1>1, PipelineInvariance, PTL

\* The workers refine the source cache: what the theorems above say of it holds
\* of the workers' cache as well.
THEOREM SourceCacheImplemented == PipelineSpec => UsesSourceCache
<1>1. PipelineInit => Init
  BY DEF PipelineInit
<1>2. [PipelineNext]_pipelineVars => [Next]_vars
  BY StepSimulation
<1>3. QED BY <1>1, <1>2, PTL DEF PipelineSpec, UsesSourceCache, Spec
=============================================================================
