--------------------------------- MODULE Tags ---------------------------------
(***************************************************************************)
(* The tags of images and the registry of tag names and aliases: what the  *)
(* upload, edit and merge handlers (internal/admin/admin.go, uploadapi) do  *)
(* with ResolveTags of internal/database/postgres/postgres.go, while the    *)
(* registry changes, with the rows a merge locks and the connections of the *)
(* pool. A merge keeps a connection for its transaction and asks the pool   *)
(* for another one for each statement of ResolveTags.                       *)
(*                                                                         *)
(* Names are trimmed and in lower case, as every handler makes them. The    *)
(* order of an image's tags is left out.                                    *)
(***************************************************************************)
EXTENDS Naturals, FiniteSets

CONSTANTS
    Edits,    (* calls that store one image's tags: uploads and edits         *)
    Merges,   (* calls of handleMerge                                         *)
    Images,
    Entries,  (* ids in tag_registry                                          *)
    Rows,     (* the rows it may have: [name |-> ..., aliases |-> ...]        *)
    Inputs,   (* the sets of tags an upload or an edit may come with          *)
    None,     (* SQL's "no rows", and no call, image or tag                    *)
    Conns     (* the size of the pool                                         *)

Names == {row.name : row \in Rows} \union (UNION {row.aliases : row \in Rows})
         \union (UNION Inputs)
Calls == Edits \union Merges

ASSUME TagsAssumption ==
    /\ None \notin Rows /\ None \notin Calls /\ None \notin Images /\ None \notin Names
    /\ Edits \intersect Merges = {}
    /\ Conns \in Nat \ {0}

VARIABLES
    registry,  \* tag_registry: registry[e], None when there is none
    alive,     \* the rows of images
    tags,      \* the tags column
    conns,     \* the calls that hold a connection
    lock,      \* lock[i]: the merge that has locked row i
    pc,        \* pc[c]: what c does next
    image,     \* image[c]: the image c stores tags for; a merge's winner
    losers,    \* losers[c]: the images a merge takes away
    unread,    \* unread[c]: those whose tags it has yet to read
    todo,      \* todo[c]: the tags c has yet to resolve
    tag,       \* tag[c]: the one it is resolving
    done       \* done[c]: what it resolved, <<tag, resolved>>

\* History, read by the properties only.
VARIABLES
    meant,     \* meant[c]: what tag[c] has meant since its resolution began
    doubt,     \* doubt[c]: changes of the registry since then, 2 for more or a fault
    edited     \* edited[c]: whether the images of merge c have changed since it read them

rows == <<alive, tags, lock>>
work == <<image, losers, unread, todo, tag, done>>
history == <<meant, doubt, edited>>
vars == <<registry, rows, conns, pc, work, history>>

CallState == {"idle", "read", "resolve", "alias", "waiting", "delete"}

TypeOK ==
    /\ registry \in [Entries -> Rows \union {None}]
    /\ alive \subseteq Images /\ tags \in [Images -> SUBSET Names]
    /\ conns \subseteq Calls /\ lock \in [Images -> Calls \union {None}]
    /\ pc \in [Calls -> CallState]
    /\ image \in [Calls -> Images \union {None}] /\ losers \in [Calls -> SUBSET Images]
    /\ unread \in [Calls -> SUBSET Images]
    /\ todo \in [Calls -> SUBSET Names] /\ tag \in [Calls -> Names \union {None}]
    /\ done \in [Calls -> SUBSET (Names \X Names)]
    /\ meant \in [Calls -> SUBSET Names] /\ doubt \in [Calls -> 0..2]
    /\ edited \in [Merges -> BOOLEAN]

Init ==
    /\ registry = [e \in Entries |-> None]
    /\ alive \in SUBSET Images
    /\ tags \in [Images -> Inputs] /\ \A i \in Images \ alive : tags[i] = {}
    /\ conns = {} /\ lock = [i \in Images |-> None]
    /\ pc = [c \in Calls |-> "idle"]
    /\ image = [c \in Calls |-> None]
    /\ losers = [c \in Calls |-> {}] /\ unread = [c \in Calls |-> {}]
    /\ todo = [c \in Calls |-> {}] /\ done = [c \in Calls |-> {}]
    /\ tag = [c \in Calls |-> None]
    /\ meant = [c \in Calls |-> {}] /\ doubt = [c \in Calls |-> 0]
    /\ edited = [c \in Merges |-> FALSE]

Goto(c, from, to) == pc[c] = from /\ pc' = [pc EXCEPT ![c] = to]

\* The pool has a connection for one more statement.
Free == Cardinality(conns) < Conns

\* Row i is locked by another call than c.
Blocked(i, c) == lock[i] \notin {None, c}

-----------------------------------------------------------------------------
(* The registry.                                                             *)

Present(R) == {e \in Entries : R[e] # None}
IsName(R, n) == \E e \in Present(R) : R[e].name = n
AliasOf(R, n) == {R[e].name : e \in {e \in Present(R) : n \in R[e].aliases}}

\* What a tag means: itself if it is a name, else the name of an entry with that
\* alias (any, if there are several), else itself.
Meanings(R, n) == IF IsName(R, n) \/ AliasOf(R, n) = {} THEN {n} ELSE AliasOf(R, n)

\* The registry becomes R; what is being resolved may mean something else now.
Register(R) ==
    /\ Free
    /\ registry' = R
    /\ meant' = [c \in Calls |-> IF pc[c] = "alias"
                                 THEN meant[c] \union Meanings(R, tag[c]) ELSE meant[c]]
    /\ doubt' = [c \in Calls |-> IF pc[c] = "alias" /\ doubt[c] < 2
                                 THEN doubt[c] + 1 ELSE doubt[c]]
    /\ UNCHANGED <<rows, conns, pc, work, edited>>

\* Mutant of PutEntry: no UNIQUE on the name.
PutEntryAnyName(e, row) == registry[e] # row /\ Register([registry EXCEPT ![e] = row])

\* CreateTag and UpdateTag: the name is UNIQUE, aliases are not looked at.
PutEntry(e, row) ==
    /\ \A f \in Present(registry) \ {e} : registry[f].name # row.name
    /\ registry[e] # row
    /\ Register([registry EXCEPT ![e] = row])

DeleteEntry(e) == registry[e] # None /\ Register([registry EXCEPT ![e] = None])

-----------------------------------------------------------------------------
(* ResolveTags.                                                              *)

\* The query for one more tag of the loop ends with the tag's name, n.
ResolvesTo(c, t, n) ==
    /\ done' = [done EXCEPT ![c] = @ \union {<<t, n>>}]
    /\ todo' = [todo EXCEPT ![c] = @ \ {t}]
    /\ tag' = [tag EXCEPT ![c] = None]
    /\ meant' = [meant EXCEPT ![c] = {}] /\ doubt' = [doubt EXCEPT ![c] = 0]
    /\ UNCHANGED <<registry, rows, conns, image, losers, unread, edited>>

\* It ends with no rows: the next one is for an alias.
NoName(c, t, d) ==
    /\ Goto(c, "resolve", "alias")
    /\ tag' = [tag EXCEPT ![c] = t]
    /\ meant' = [meant EXCEPT ![c] = Meanings(registry, t)]
    /\ doubt' = [doubt EXCEPT ![c] = d]
    /\ UNCHANGED <<registry, rows, conns, image, losers, unread, todo, done, edited>>

\* Mutant of QueryName: an alias goes before a name.
QueryAliasFirst(c, t) ==
    /\ Free /\ pc[c] = "resolve" /\ t \in todo[c] /\ UNCHANGED pc
    /\ \E n \in IF AliasOf(registry, t) = {} THEN {t} ELSE AliasOf(registry, t) :
         ResolvesTo(c, t, n)

\* SELECT name ... WHERE name = $1
QueryName(c, t) ==
    /\ Free /\ pc[c] = "resolve" /\ t \in todo[c]
    /\ \/ IsName(registry, t) /\ ResolvesTo(c, t, t) /\ UNCHANGED pc
       \/ ~IsName(registry, t) /\ NoName(c, t, 0)

\* SELECT name ... WHERE $1 = ANY(aliases): some row; without one the tag stays.
QueryAlias(c) ==
    LET found == AliasOf(registry, tag[c]) IN
    /\ Free /\ Goto(c, "alias", "resolve")
    /\ \E n \in IF found = {} THEN {tag[c]} ELSE found : ResolvesTo(c, tag[c], n)

\* A failed query reads as "no rows".
QueryFails(c) ==
    \/ pc[c] = "resolve" /\ \E t \in todo[c] : NoName(c, t, 2)
    \/ Goto(c, "alias", "resolve") /\ ResolvesTo(c, tag[c], tag[c])

\* ResolveTags returns.
Resolved(c) == pc[c] = "resolve" /\ todo[c] = {}

\* The tags ResolveTags returns.
Out(c) == {p[2] : p \in done[c]}

-----------------------------------------------------------------------------
(* The upload and edit handlers.                                             *)

\* c begins with image i, losers L (those of a merge) and tags T to resolve.
Start(c, at, i, L, T) ==
    /\ Goto(c, "idle", at)
    /\ image' = [image EXCEPT ![c] = i]
    /\ losers' = [losers EXCEPT ![c] = L]
    /\ unread' = [unread EXCEPT ![c] = IF L = {} THEN {} ELSE L \union {i}]
    /\ todo' = [todo EXCEPT ![c] = T]
    /\ UNCHANGED <<registry, rows, tag, done, meant, doubt>>

BeginEdit(c, i, T) == Start(c, "resolve", i, {}, T) /\ UNCHANGED <<conns, edited>>

\* The statement that stores has its connection; it waits for a locked row.
BeginStore(c) ==
    /\ c \in Edits /\ Free /\ Resolved(c)
    /\ pc' = [pc EXCEPT ![c] = "waiting"]
    /\ conns' = conns \union {c}
    /\ UNCHANGED <<registry, rows, work, history>>

\* The call ends: its connection is back in the pool, its locks and what it knew
\* are gone.
End(c) ==
    /\ pc' = [pc EXCEPT ![c] = "idle"]
    /\ conns' = conns \ {c}
    /\ lock' = [i \in Images |-> IF lock[i] = c THEN None ELSE lock[i]]
    /\ image' = [image EXCEPT ![c] = None] /\ losers' = [losers EXCEPT ![c] = {}]
    /\ unread' = [unread EXCEPT ![c] = {}] /\ todo' = [todo EXCEPT ![c] = {}]
    /\ tag' = [tag EXCEPT ![c] = None] /\ done' = [done EXCEPT ![c] = {}]
    /\ meant' = [meant EXCEPT ![c] = {}] /\ doubt' = [doubt EXCEPT ![c] = 0]
    /\ UNCHANGED registry

\* Image i changes; merges that have read it, and not locked it yet, do not see it:
\* a winner until it is updated, a loser until the merge deletes it.
Stale(c, i) == /\ pc[c] # "idle" /\ i \notin unread[c]
               /\ i \in losers[c] \/ (i = image[c] /\ pc[c] # "delete")
Touch(S) == edited' = [c \in Merges |-> pc'[c] # "idle" /\ (edited[c] \/ \E i \in S : Stale(c, i))]

\* UPDATE (of a row that may be gone) or INSERT ... ON CONFLICT (which makes one).
\* No tags at all are NULL, which the column refuses.
Store(c) ==
    LET stored == alive \union {image[c]} IN
    /\ pc[c] = "waiting" /\ ~Blocked(image[c], c) /\ End(c)
    /\ \/ /\ Out(c) # {} /\ alive' \in {alive, stored}
          /\ tags' = [tags EXCEPT ![image[c]] = IF image[c] \in alive' THEN Out(c) ELSE @]
       \/ Out(c) = {} /\ UNCHANGED <<alive, tags>>
    /\ Touch({image[c]})

\* handleDelete, on a connection of its own.
Delete(i) ==
    /\ Free /\ i \in alive /\ lock[i] = None
    /\ alive' = alive \ {i}
    /\ tags' = [tags EXCEPT ![i] = {}]
    /\ UNCHANGED <<registry, conns, lock, pc, work, meant, doubt>>
    /\ Touch({i})

-----------------------------------------------------------------------------
(* handleMerge.                                                              *)

\* Begin, with winner w and the losers L without repetition and without w.
BeginMerge(c, w, L) ==
    /\ Free /\ L # {} /\ w \notin L
    /\ Start(c, "read", w, L, {})
    /\ conns' = conns \union {c}
    /\ UNCHANGED edited

\* SELECT tags of the winner, then of each loser.
ReadTags(c, i) ==
    /\ pc[c] = "read" /\ i \in unread[c] \intersect alive
    /\ i = image[c] \/ image[c] \notin unread[c]
    /\ unread' = [unread EXCEPT ![c] = @ \ {i}]
    /\ todo' = [todo EXCEPT ![c] = @ \union tags[i]]
    /\ pc' = [pc EXCEPT ![c] = IF unread[c] = {i} THEN "resolve" ELSE @]
    /\ UNCHANGED <<registry, rows, conns, image, losers, tag, done, history>>

\* Mutant of NotFound: it returns without the deferred rollback.
NotFoundLeaking(c) ==
    /\ pc[c] = "read" /\ \E i \in unread[c] : i \notin alive
    /\ pc' = [pc EXCEPT ![c] = "idle"]
    /\ UNCHANGED <<registry, rows, conns, work, history>>

\* A winner or loser that is not there ends the merge.
NotFound(c) ==
    /\ pc[c] = "read" /\ \E i \in unread[c] : i \notin alive
    /\ End(c) /\ Touch({}) /\ UNCHANGED <<alive, tags>>

\* Mutant of UpdateWinner: on a connection of the pool, not in the transaction.
UpdateWinnerOutside(c) ==
    /\ c \in Merges /\ Resolved(c) /\ ~Blocked(image[c], c)
    /\ pc' = [pc EXCEPT ![c] = "delete"]
    /\ tags' = [tags EXCEPT ![image[c]] = IF image[c] \in alive THEN Out(c) ELSE @]
    /\ UNCHANGED <<registry, alive, lock, conns, work, history>>

\* UPDATE of the winner's tags: its row, if it is still there, is locked.
UpdateWinner(c) ==
    /\ c \in Merges /\ Resolved(c) /\ ~Blocked(image[c], c)
    /\ pc' = [pc EXCEPT ![c] = "delete"]
    /\ lock' = [lock EXCEPT ![image[c]] = IF image[c] \in alive THEN c ELSE @]
    /\ UNCHANGED <<registry, alive, tags, conns, work, history>>

\* The losers are deleted and the transaction commits.
Commit(c) ==
    /\ pc[c] = "delete" /\ \A i \in losers[c] : ~Blocked(i, c)
    /\ alive' = alive \ losers[c]
    /\ tags' = [i \in Images |-> IF i \in losers[c] THEN {}
                                 ELSE IF lock[i] = c THEN Out(c) ELSE tags[i]]
    /\ End(c) /\ Touch(losers[c] \union {image[c]})

\* The client is gone or the database fails: what is to do fails, and a
\* transaction is rolled back. Also the victim PostgreSQL picks of merges that
\* wait for each other. (A statement or commit whose error comes after it was
\* applied is Store or Commit: what the call answers is not looked at.)
GiveUp(c) == pc[c] # "idle" /\ End(c) /\ Touch({}) /\ UNCHANGED <<alive, tags>>

\* c waits for a row that merge d has locked.
WaitsFor(c, d) == pc[c] = "delete" /\ d # c /\ \E i \in losers[c] : lock[i] = d

\* c waits for itself through others: it is in every set of merges that has
\* those c waits for, and those its members wait for.
Deadlocked(c) ==
    \A S \in SUBSET Merges :
        (\A d \in Merges : WaitsFor(c, d) \/ (\E e \in S : WaitsFor(e, d)) => d \in S) => c \in S
Victim(c) == c \in Merges /\ Deadlocked(c) /\ GiveUp(c)

-----------------------------------------------------------------------------
Step(c) == \/ QueryAlias(c) \/ \E t \in Names : QueryName(c, t)
           \/ BeginStore(c) \/ Store(c) \/ \E i \in Images : ReadTags(c, i)
           \/ NotFound(c) \/ UpdateWinner(c) \/ Commit(c) \/ Victim(c)

Next ==
    \/ \E c \in Calls : Step(c) \/ QueryFails(c) \/ GiveUp(c)
    \/ \E c \in Edits, i \in Images, T \in Inputs : BeginEdit(c, i, T)
    \/ \E c \in Merges, w \in Images, L \in SUBSET Images : BeginMerge(c, w, L)
    \/ \E e \in Entries : DeleteEntry(e) \/ \E row \in Rows : PutEntry(e, row)
    \/ \E i \in Images : Delete(i)

Spec == Init /\ [][Next]_vars

-----------------------------------------------------------------------------
(* Properties.                                                               *)

\* A connection is held by a merge from its Begin on and by a statement that
\* stores, by nobody else: none is lost, on any return of a handler.
PoolInv == conns = {c \in Calls : pc[c] = "waiting"} \union {c \in Merges : pc[c] # "idle"}

\* A row is locked by a merge that is about to delete its losers, and is there.
LockInv == \A i \in Images : lock[i] # None =>
    i \in alive /\ lock[i] \in Merges /\ pc[lock[i]] = "delete" /\ image[lock[i]] = i

\* No two entries have one name.
UniqueNames == \A e, f \in Present(registry) : registry[e].name = registry[f].name => e = f

\* What a call under way has to do.
WorkInv == \A c \in Calls :
    /\ pc[c] # "idle" => image[c] \in Images /\ image[c] \notin losers[c]
    /\ pc[c] = "read" => unread[c] # {}
    /\ pc[c] = "alias" => tag[c] \in todo[c]
    /\ pc[c] \notin {"idle", "read"} => unread[c] = {}
    /\ pc[c] \in {"waiting", "delete"} => todo[c] = {}
    /\ pc[c] = "waiting" => c \in Edits
    /\ pc[c] \in {"read", "delete"} => c \in Merges

\* The types, and the four above: connections, locks and names are kept in order
\* on every path through the handlers.
IInv == TypeOK /\ PoolInv /\ LockInv /\ UniqueNames /\ WorkInv

\* ResolveTag asks for a name and then for an alias, in two statements. If not
\* more than one change of the registry comes in between, and no query fails,
\* its answer is still what the tag meant at some moment of the call
\* (postgres.go:639-654).
AnswerWasMeant ==
    [][\A c \in Calls : \A p \in done'[c] \ done[c] :
          p[2] \in Meanings(registry, p[1]) \union meant[c] \/ doubt[c] = 2 \/ QueryFails(c)]_vars

\* A merge leaves its winner, and every tag the winner or a loser had, as
\* ResolveTags has it, unless one of them was changed after the merge read it and
\* before it locked it (READ COMMITTED): the winner is locked by the first write
\* (admin.go:769-793), a loser by no statement before its DELETE (776-814), so that
\* what an edit gives a loser after the first write is lost as well. What is
\* resolved and written in between, by whatever else, loses nothing.
MergeKeepsTags ==
    [][\A c \in Merges : (Commit(c) /\ ~edited[c]) =>
          /\ image[c] \in alive'
          /\ \A i \in losers[c] \union {image[c]} : \A t \in tags[i] :
                \E p \in done[c] : p[1] = t /\ p[2] \in tags'[image[c]]]_vars

\* What the call knows of the tag it asks an alias for: all it has meant, and
\* that those with the alias were its meaning before somebody took it for a name.
MeantInv == \A c \in Calls : pc[c] = "alias" =>
    /\ doubt[c] = 0 => ~IsName(registry, tag[c])
    /\ doubt[c] < 2 => Meanings(registry, tag[c]) \subseteq meant[c]
    /\ doubt[c] < 2 => AliasOf(registry, tag[c]) \subseteq meant[c]

\* While none of the images a merge has read was changed, they are there, and
\* their tags are resolved or yet to be; and it locks its winner.
Kept(c) ==
    /\ \A i \in (losers[c] \union {image[c]}) \ unread[c] :
         i \in alive /\ \A t \in tags[i] : t \in todo[c] \/ \E p \in done[c] : p[1] = t
    /\ pc[c] = "delete" => lock[image[c]] = c
KeepInv == \A c \in Merges : pc[c] # "idle" /\ ~edited[c] => Kept(c)

\* The pool never lends more connections than it has.
PoolBound == IsFiniteSet(conns) /\ Cardinality(conns) <= Conns

TagInv == IInv /\ MeantInv /\ KeepInv /\ PoolBound

\* Merges hold all connections and wait for one more in ResolveTags (admin.go:788).
Exhausted == ~Free /\ \A c \in conns : pc[c] = "alias" \/ (pc[c] = "resolve" /\ todo[c] # {})

\* What c has to do next can be done: the guards of Step(c).
CanGo(c) ==
    \/ pc[c] = "read"
    \/ Free /\ (pc[c] = "alias" \/ (pc[c] = "resolve" /\ todo[c] # {}))
    \/ Resolved(c) /\ IF c \in Merges THEN ~Blocked(image[c], c) ELSE Free
    \/ pc[c] = "waiting" /\ ~Blocked(image[c], c)
    \/ pc[c] = "delete" /\ (Deadlocked(c) \/ \A i \in losers[c] : ~Blocked(i, c))

\* Nothing else brings the calls to a stop: unless Exhausted, one of those that
\* are under way can go on, whoever holds connections and locks; of merges that
\* wait for each other's rows one is in a circle, which PostgreSQL breaks.
OnlyMergesHang ==
    Exhausted \/ (\A c \in Calls : pc[c] = "idle") \/ \E c \in Calls : CanGo(c)
=============================================================================
