------------------------------ MODULE ImageStore ------------------------------
(***************************************************************************)
(* What the catalog promises about its images, with no row, file, request  *)
(* or storage in sight: a new image appears at once, with the contents     *)
(* that were uploaded with it, and goes at once; one that is replaced has   *)
(* new contents first and its new description after them, and nobody comes *)
(* in between.                                                             *)
(***************************************************************************)
CONSTANTS Ids, Uploads,
          Old, None  (* contents from before; no image *)

VARIABLES
    meta,   \* meta[i]: the upload that image i is described as, None if there is no image i
    shown,  \* shown[i]: the upload whose contents readers of image i get
    half,   \* half[i]: uploads that have replaced image i but for its description
    lost,   \* ids of which nothing is promised any more
    failed  \* whether a step has failed or the process has died

vars == <<meta, shown, half, lost, failed>>

\* f with v for the ids of I.
With(f, I, v) == [i \in Ids |-> IF i \in I THEN v ELSE f[i]]

Init == /\ meta \in [Ids -> {Old, None}] /\ shown = meta
        /\ half = [i \in Ids |-> {}]
        /\ lost = {} /\ failed = FALSE

\* A new image, with its own contents. After a failure, those of an earlier
\* upload that was not completed or not removed may be found in their place.
Add(u, i) ==
    /\ i \notin lost /\ meta[i] = None
    /\ meta' = With(meta, {i}, u)
    /\ \E c \in IF failed THEN Uploads \union {Old} ELSE {u} : shown' = With(shown, {i}, c)
    /\ UNCHANGED <<half, lost, failed>>

\* The contents of an image are replaced; another format may leave the old ones
\* in front of readers.
Replace(u, i) ==
    /\ meta[i] # None /\ half[i] = {}
    /\ shown' \in {shown, With(shown, {i}, u)}
    /\ half' = With(half, {i}, {u})
    /\ UNCHANGED <<meta, lost, failed>>

\* The one upload that has replaced them describes them.
Describe(u, i) ==
    /\ half[i] = {u}
    /\ meta' = With(meta, {i}, u)
    /\ half' = With(half, {i}, {})
    /\ UNCHANGED <<shown, lost, failed>>

\* All images of I go at once, and none of them is being replaced; whoever removed
\* them may take this for a failure.
Remove(I) ==
    /\ I \intersect lost = {} /\ \A i \in I : half[i] = {}
    /\ meta' = With(meta, I, None) /\ shown' = With(shown, I, None)
    /\ failed' = TRUE \/ UNCHANGED failed
    /\ UNCHANGED <<half, lost>>

\* A step fails, that of the uploads of I that were replacing an image; or it has
\* replaced the contents of i nevertheless.
Fail(I) == /\ failed' = TRUE
           /\ half' = With(half, I, {})
           /\ UNCHANGED <<meta, shown, lost>>

FailReplacing(u, i) == /\ meta[i] # None /\ half[i] = {} /\ failed' = TRUE
                       /\ shown' = With(shown, {i}, u)
                       /\ UNCHANGED <<meta, half, lost>>

\* Nothing is promised of I any more.
Lose(I) == /\ lost' = lost \union I
           /\ meta' = With(meta, I, None) /\ shown' = With(shown, I, None)
           /\ half' = With(half, I, {})
           /\ failed' = TRUE \/ UNCHANGED failed

Next == \/ \E u \in Uploads, i \in Ids : \/ Add(u, i) \/ Replace(u, i) \/ Describe(u, i)
                                         \/ FailReplacing(u, i)
        \/ \E I \in SUBSET Ids : Remove(I) \/ Fail(I) \/ Lose(I)

Spec == Init /\ [][Next]_vars
=============================================================================
