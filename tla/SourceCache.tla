----------------------------- MODULE SourceCache -----------------------------
(***************************************************************************)
(* Auto.Get of internal/cache/cache.go over the in-memory provider: the    *)
(* cache of source images that the workers read through. A miss is loaded  *)
(* from storage by one caller per key (singleflight) and shared by all who *)
(* asked meanwhile. Nothing ever leaves the cache.                         *)
(*                                                                         *)
(* Contents are numbered: gen counts the changes of a file in storage, and *)
(* a reader holds the number of the contents it read.                      *)
(***************************************************************************)
EXTENDS Naturals

CONSTANTS Callers,   (* the goroutines that call Get: the queue's workers   *)
          Keys,      (* image ids                                           *)
          NoCaller,  (* no flight for a key                                 *)
          MaxGen     (* bound: changes to a file that are looked at         *)

ASSUME CacheAssumption == NoCaller \notin Callers /\ MaxGen \in Nat

VARIABLES
    file,    \* file[k]: k in storage, [gen |-> changes so far, kind |-> ...]
    cache,   \* cache[k]: the contents in the memory provider, 0 for none
    flight,  \* flight[k]: the caller whose load of k is in flight
    pc,      \* pc[c]: where caller c is in Get
    key,     \* key[c]: the key it asks for
    data     \* data[c]: the contents it has, 0 for none or an error

\* History, read by the properties only.
VARIABLES
    seen,    \* seen[k]: the newest contents any Get of k has returned
    floor    \* floor[c]: seen when c's Get began

history == <<seen, floor>>
vars == <<file, cache, flight, pc, key, data, history>>

Kind == {"absent", "partial", "whole"}

TypeOK ==
    /\ file \in [Keys -> [gen : Nat, kind : Kind]]
    /\ cache \in [Keys -> Nat]
    /\ flight \in [Keys -> Callers \union {NoCaller}]
    /\ pc \in [Callers -> {"idle", "begun", "missed", "leading", "loaded", "stored",
                           "joined", "answered"}]
    /\ key \in [Callers -> Keys]
    /\ data \in [Callers -> Nat]
    /\ seen \in [Keys -> Nat]
    /\ floor \in [Callers -> Nat]

Init ==
    /\ \E present \in SUBSET Keys :
         file = [k \in Keys |-> IF k \in present THEN [gen |-> 1, kind |-> "whole"]
                                ELSE [gen |-> 0, kind |-> "absent"]]
    /\ cache = [k \in Keys |-> 0]
    /\ flight = [k \in Keys |-> NoCaller]
    /\ pc = [c \in Callers |-> "idle"]
    /\ key \in [Callers -> Keys]
    /\ data = [c \in Callers |-> 0]
    /\ seen = [k \in Keys |-> 0]
    /\ floor = [c \in Callers |-> 0]

-----------------------------------------------------------------------------
(* Get.                                                                      *)

Goto(c, from, to) == /\ pc[c] = from
                     /\ pc' = [pc EXCEPT ![c] = to]

Begin(c, k) ==
    /\ Goto(c, "idle", "begun")
    /\ key' = [key EXCEPT ![c] = k]
    /\ data' = [data EXCEPT ![c] = 0]
    /\ floor' = [floor EXCEPT ![c] = seen[k]]
    /\ UNCHANGED <<file, cache, flight, seen>>

\* Provider.Get, under the read lock: a hit is the answer.
Lookup(c) ==
    /\ Goto(c, "begun", IF cache[key[c]] # 0 THEN "answered" ELSE "missed")
    /\ data' = [data EXCEPT ![c] = cache[key[c]]]
    /\ UNCHANGED <<file, cache, flight, key, history>>

\* lookupGroup.Do: lead the key's flight, or join the one that is up.
Do(c) ==
    LET k == key[c] IN
    /\ Goto(c, "missed", IF flight[k] = NoCaller THEN "leading" ELSE "joined")
    /\ flight' = [flight EXCEPT ![k] = IF @ = NoCaller THEN c ELSE @]
    /\ UNCHANGED <<file, cache, key, data, history>>

\* Mutant of Load: the flight is over once the data is there, before it is cached.
LoadEndingFlight(c) ==
    /\ file[key[c]].kind # "absent"
    /\ Goto(c, "leading", "loaded")
    /\ data' = [data EXCEPT ![c] = file[key[c]].gen]
    /\ flight' = [flight EXCEPT ![key[c]] = NoCaller]
    /\ UNCHANGED <<file, cache, key, history>>

\* The Loader reads storage, whole or in the middle of being written.
Load(c) ==
    /\ file[key[c]].kind # "absent"
    /\ Goto(c, "leading", "loaded")
    /\ data' = [data EXCEPT ![c] = file[key[c]].gen]
    /\ UNCHANGED <<file, cache, flight, key, history>>

\* Provider.Set, under the write lock; the memory provider has no error to return.
Set(c) ==
    /\ Goto(c, "loaded", "stored")
    /\ cache' = [cache EXCEPT ![key[c]] = data[c]]
    /\ UNCHANGED <<file, flight, key, data, history>>

\* The flight ends: all who joined it get its result, d, or its error.
Land(c, from, d) ==
    LET joined == {o \in Callers : pc[o] = "joined" /\ key[o] = key[c]} IN
    /\ pc[c] = from
    /\ pc' = [o \in Callers |-> IF o \in joined \union {c} THEN "answered" ELSE pc[o]]
    /\ data' = [o \in Callers |-> IF o \in joined \union {c} THEN d ELSE data[o]]
    /\ flight' = [flight EXCEPT ![key[c]] = NoCaller]
    /\ UNCHANGED <<file, cache, key, history>>

\* Mutant of LoadFails: the error leaves the flight up.
LoadFailsInFlight(c) ==
    /\ Goto(c, "leading", "answered")
    /\ UNCHANGED <<file, cache, flight, key, data, history>>

\* Not found, or storage fails: nothing is cached.
LoadFails(c) == Land(c, "leading", 0)

Finish(c) == Land(c, "stored", data[c])

Return(c) ==
    /\ Goto(c, "answered", "idle")
    /\ seen' = [seen EXCEPT ![key[c]] = IF data[c] > @ THEN data[c] ELSE @]
    /\ UNCHANGED <<file, cache, flight, key, data, floor>>

-----------------------------------------------------------------------------
(* Storage, as the upload and delete handlers change it.                     *)

Change(k, kind) ==
    /\ file[k].gen < MaxGen
    /\ file' = [file EXCEPT ![k] = [gen |-> @.gen + 1, kind |-> kind]]
    /\ UNCHANGED <<cache, flight, pc, key, data, history>>

\* os.WriteFile and the SFTP client open the file truncated and then fill it.
Truncate(k) == Change(k, "partial")
Fill(k) == file[k].kind = "partial" /\ Change(k, "whole")
Remove(k) == file[k].kind # "absent" /\ Change(k, "absent")

-----------------------------------------------------------------------------

GetStep(c) == \/ Lookup(c) \/ Do(c) \/ Load(c) \/ LoadFails(c) \/ Set(c)
              \/ Finish(c) \/ Return(c)

Next == \/ \E c \in Callers : GetStep(c) \/ \E k \in Keys : Begin(c, k)
        \/ \E k \in Keys : Truncate(k) \/ Fill(k) \/ Remove(k)

Spec == Init /\ [][Next]_vars

\* A Get that has begun runs on; storage answers every read.
FairSpec == Spec /\ \A c \in Callers : WF_vars(GetStep(c))

-----------------------------------------------------------------------------
(* Properties.                                                               *)

\* Who has a flight leads it, for the key it asked for, and nobody else does.
FlightInv ==
    /\ \A c \in Callers : pc[c] \in {"leading", "loaded", "stored"} => flight[key[c]] = c
    /\ \A k \in Keys : flight[k] \in Callers =>
           key[flight[k]] = k /\ pc[flight[k]] \in {"leading", "loaded", "stored"}
    /\ \A c \in Callers : pc[c] = "joined" => flight[key[c]] \in Callers

\* How old anything a Get holds can be: what a flight loaded is no older than
\* what is cached, and what is cached is no older than what was ever returned.
AgeInv ==
    /\ \A k \in Keys : seen[k] <= cache[k] /\ cache[k] <= file[k].gen
    /\ \A c \in Callers :
         /\ floor[c] <= seen[key[c]]
         /\ pc[c] = "loaded" => cache[key[c]] <= data[c] /\ data[c] <= file[key[c]].gen
         /\ pc[c] \in {"stored", "answered"} => data[c] <= cache[key[c]]
         /\ pc[c] = "stored" => data[c] = cache[key[c]]

\* Once contents of an image have been returned, a Get that begins later never
\* returns older ones, whichever callers lead, join or hit, and however storage
\* changes meanwhile: the reason the Set of cache.go:51 is inside the flight.
ReadsNeverGoBack ==
    \A c \in Callers : pc[c] = "answered" => data[c] = 0 \/ data[c] >= floor[c]

IInv == TypeOK /\ FlightInv /\ AgeInv /\ ReadsNeverGoBack

\* The cache never replaces contents by older ones, though loads and Sets of
\* one key by different callers are separate steps (cache.go:44-51).
CacheNeverGoesBack == [][\A k \in Keys : cache'[k] >= cache[k]]_vars

\* Every Get returns, also those that joined the flight of a load that failed.
EveryGetReturns == \A c \in Callers : pc[c] = "begun" ~> pc[c] = "idle"
=============================================================================
