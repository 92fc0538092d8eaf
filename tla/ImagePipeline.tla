---------------------------- MODULE ImagePipeline ----------------------------
(***************************************************************************)
(* From a source image to a rendered one: a request that missed in the LRU  *)
(* cache of rendered images (imageapi/image.go), together with the worker   *)
(* that handles it (taskProcessor of image/vips/vips.go), reads the source  *)
(* through the source cache, calls libvips (internal/vips) step by step and *)
(* keeps the result. It extends SourceCache: the workers are its callers,   *)
(* and whatever they do about a source is a step of it.                     *)
(*                                                                         *)
(* A variant is the set of effects a request asks for; the size and the     *)
(* output format make no difference here. Rendered contents have the number *)
(* of the source they were rendered from.                                   *)
(***************************************************************************)
EXTENDS SourceCache

CONSTANT Variants  (* variants that are asked for, subsets of Effects *)

Effects == {"blur", "grayscale"}

ASSUME PipelineAssumption == Variants \subseteq SUBSET Effects

VARIABLES
    rendered,  \* rendered[k][v]: the LRU cache of rendered images, 0 for none
    stage,     \* stage[w]: what w does next
    variant,   \* variant[w]: the variant it renders
    source,    \* source[w]: the contents it renders
    live       \* live[w]: libvips images of w that were not released

render == <<stage, variant, source, live>>
pipelineVars == <<vars, rendered, render>>

Handles == {"loaded", "resized", "blur", "grayscale"}

PipelineTypeOK ==
    /\ TypeOK
    /\ rendered \in [Keys -> [Variants -> Nat]]
    /\ stage \in [Callers -> {"idle", "get", "resize", "thumbnail", "blur", "grayscale",
                              "save", "add"}]
    /\ variant \in [Callers -> Variants]
    /\ source \in [Callers -> Nat]
    /\ live \in [Callers -> SUBSET Handles]

PipelineInit ==
    /\ Init
    /\ rendered = [k \in Keys |-> [v \in Variants |-> 0]]
    /\ stage = [w \in Callers |-> "idle"]
    /\ variant \in [Callers -> Variants]
    /\ source = [w \in Callers |-> 0]
    /\ live = [w \in Callers |-> {}]

Enter(w, from, to) == stage[w] = from /\ stage' = [stage EXCEPT ![w] = to]

-----------------------------------------------------------------------------
(* The source.                                                               *)

\* A request for variant v of k finds nothing rendered; its task reaches a worker.
Miss(w, k, v) ==
    /\ rendered[k][v] = 0
    /\ Enter(w, "idle", "get")
    /\ variant' = [variant EXCEPT ![w] = v]
    /\ Begin(w, k)
    /\ UNCHANGED <<rendered, source, live>>

\* Mutant of GetReturns: when there is an error, the file itself is read instead.
GetReturnsUncached(w) ==
    /\ Return(w)
    /\ source' = [source EXCEPT ![w] = IF data[w] = 0 THEN file[key[w]].gen ELSE data[w]]
    /\ Enter(w, "get", IF source'[w] = 0 THEN "idle" ELSE "resize")
    /\ UNCHANGED <<rendered, variant, live>>

\* cache.Get returns: the source, or an error, which ends the task.
GetReturns(w) ==
    /\ Return(w)
    /\ Enter(w, "get", IF data[w] = 0 THEN "idle" ELSE "resize")
    /\ source' = [source EXCEPT ![w] = data[w]]
    /\ UNCHANGED <<rendered, variant, live>>

\* Mutant of GetOn: a task that is no longer wanted leaves Get where it is.
GetAbandoned(w) ==
    /\ \/ GetStep(w) /\ pc[w] # "answered" /\ UNCHANGED stage
       \/ /\ pc[w] = "loaded" /\ pc' = [pc EXCEPT ![w] = "idle"]
          /\ Enter(w, "get", "idle")
          /\ UNCHANGED <<file, cache, flight, key, data, history>>
    /\ UNCHANGED <<rendered, variant, source, live>>

\* The steps of cache.Get before it returns.
GetOn(w) == /\ GetStep(w) /\ pc[w] # "answered"
            /\ UNCHANGED <<rendered, render>>

-----------------------------------------------------------------------------
(* libvips. A call makes a new image or fails; the Go functions release the   *)
(* image they were given either way.                                         *)

AfterResize(w) == IF "blur" \in variant[w] THEN "blur"
                  ELSE IF "grayscale" \in variant[w] THEN "grayscale" ELSE "save"

\* The call takes w from a stage to the next with the images H, or fails.
Call(w, from, to, H) ==
    /\ \/ Enter(w, from, to) /\ live' = [live EXCEPT ![w] = H]
       \/ Enter(w, from, "idle") /\ live' = [live EXCEPT ![w] = {}]
    /\ UNCHANGED <<vars, rendered, variant, source>>

\* ResizeImage: load and resize in one call.
Resize(w) == Call(w, "resize", AfterResize(w), {"resized"})

\* ResizeAnimated loads all frames of a GIF before it resizes them. When the
\* first loader refuses it and the fallback does not (vips-bridge.c:64), the call
\* fails and loses the image; as nobody is given it, it is not one of live.
LoadFrames(w) == Call(w, "resize", "thumbnail", {"loaded"})
Thumbnail(w) == Call(w, "thumbnail", AfterResize(w), {"resized"})

\* Mutant of Blur: an error leaves the image it was given.
BlurLeaking(w) ==
    /\ \/ /\ Enter(w, "blur", IF "grayscale" \in variant[w] THEN "grayscale" ELSE "save")
          /\ live' = [live EXCEPT ![w] = {"blur"}]
       \/ Enter(w, "blur", "idle") /\ UNCHANGED live
    /\ UNCHANGED <<vars, rendered, variant, source>>

Blur(w) == Call(w, "blur", IF "grayscale" \in variant[w] THEN "grayscale" ELSE "save", {"blur"})

Grayscale(w) == Call(w, "grayscale", "save", {"grayscale"})

\* setUserComment changes the image in place; saving it releases it.
Save(w) == Call(w, "save", "add", {})

-----------------------------------------------------------------------------
(* The rendered images.                                                      *)

\* imageCache.Add; without it the request has given up before the task was done.
Add(w) ==
    /\ Enter(w, "add", "idle")
    /\ \/ rendered' = [rendered EXCEPT ![key[w]] = [@ EXCEPT ![variant[w]] = source[w]]]
       \/ UNCHANGED rendered
    /\ UNCHANGED <<vars, variant, source, live>>

\* Mutant of Evict: entries stay as long as their source is in the cache.
EvictNever(k, v) ==
    /\ rendered[k][v] # 0 /\ cache[k] = 0
    /\ rendered' = [rendered EXCEPT ![k] = [@ EXCEPT ![v] = 0]]
    /\ UNCHANGED <<vars, render>>

\* The LRU cache drops an entry after imageCacheTTL, or for want of room.
Evict(k, v) ==
    /\ rendered[k][v] # 0
    /\ rendered' = [rendered EXCEPT ![k] = [@ EXCEPT ![v] = 0]]
    /\ UNCHANGED <<vars, render>>

-----------------------------------------------------------------------------
Storage == /\ \E k \in Keys : Truncate(k) \/ Fill(k) \/ Remove(k)
           /\ UNCHANGED <<rendered, render>>

WorkerStep(w) == \/ GetOn(w) \/ GetReturns(w) \/ Resize(w) \/ LoadFrames(w) \/ Thumbnail(w)
                 \/ Blur(w) \/ Grayscale(w) \/ Save(w) \/ Add(w)

PipelineNext ==
    \/ \E w \in Callers : WorkerStep(w) \/ \E k \in Keys, v \in Variants : Miss(w, k, v)
    \/ \E k \in Keys, v \in Variants : Evict(k, v)
    \/ Storage

PipelineSpec == PipelineInit /\ [][PipelineNext]_pipelineVars

\* Workers go on; entries of the LRU cache expire.
PipelineFairSpec ==
    /\ PipelineSpec
    /\ \A w \in Callers : WF_pipelineVars(WorkerStep(w))
    /\ \A k \in Keys, v \in Variants : WF_pipelineVars(Evict(k, v))

-----------------------------------------------------------------------------
(* Properties.                                                               *)

Blurred(w) == IF "blur" \in variant[w] THEN "blur" ELSE "resized"

\* A worker holds one libvips image at a time, the one its next call needs, and
\* none when the task is done, on whichever path: none that the Go code was given is
\* leaked, and none is used after it was released.
HandlesInv ==
    \A w \in Callers :
        /\ stage[w] \in {"idle", "get", "resize", "add"} => live[w] = {}
        /\ stage[w] = "thumbnail" => live[w] = {"loaded"}
        /\ stage[w] = "blur" => live[w] = {"resized"}
        /\ stage[w] = "grayscale" => live[w] = {Blurred(w)}
        /\ stage[w] = "save" => live[w] = {IF "grayscale" \in variant[w] THEN "grayscale"
                                           ELSE Blurred(w)}

\* Nothing rendered is newer than the source in the source cache: once evicted
\* and rendered again, no variant of an image shows older contents than before.
RenderedNotNewer ==
    /\ \A k \in Keys, v \in Variants : rendered[k][v] <= cache[k]
    /\ \A w \in Callers : stage[w] \notin {"idle", "get"} => source[w] <= cache[key[w]]

\* A worker is in Get exactly while SourceCache says so, and at an effect only if
\* it was asked for.
StageInv == \A w \in Callers : /\ stage[w] = "get" <=> pc[w] # "idle"
                               /\ stage[w] \in Effects => stage[w] \in variant[w]

PipelineInv == PipelineTypeOK /\ IInv /\ HandlesInv /\ RenderedNotNewer /\ StageInv

\* The workers use the source cache as SourceCache describes it: whatever they
\* do besides, a behaviour of theirs is one of its specification.
UsesSourceCache == Spec

\* In the end all variants of an image show the same contents, those in the
\* source cache, though renders of older contents may be added late: only the
\* eviction of the LRU cache brings this about.
VariantsConverge ==
    \A k \in Keys : <>[](\A v \in Variants : rendered[k][v] \in {0, cache[k]})
=============================================================================
