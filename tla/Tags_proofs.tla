----------------------------- MODULE Tags_proofs -----------------------------
(***************************************************************************)
(* What holds of the tags and their registry for every set of edits,       *)
(* merges, images, entries and rows, and every size of the pool.           *)
(***************************************************************************)
EXTENDS Tags, FiniteSetTheorems, TLAPS

-----------------------------------------------------------------------------
(* What a tag may mean.                                                      *)

LEMMA RegistryNames ==
  ASSUME NEW R \in [Entries -> Rows \union {None}]
  PROVE  /\ Present(R) \subseteq Entries
         /\ \A e \in Present(R) : R[e] \in Rows /\ R[e].name \in Names /\ R[e].aliases \subseteq Names
  BY TagsAssumption DEF Present, Names

LEMMA MeaningsAreNames ==
  ASSUME NEW R \in [Entries -> Rows \union {None}], NEW n \in Names
  PROVE  /\ AliasOf(R, n) \subseteq Names
         /\ Meanings(R, n) \subseteq Names
  BY RegistryNames DEF AliasOf, Meanings

\* A change of one entry that makes n a name gives nobody else the alias n.
LEMMA NewNameKeepsAliases ==
  ASSUME NEW R \in [Entries -> Rows \union {None}], NEW e \in Entries, NEW row \in Rows, NEW n,
         ~IsName(R, n), IsName([R EXCEPT ![e] = row], n)
  PROVE  AliasOf([R EXCEPT ![e] = row], n) \subseteq AliasOf(R, n) \union {n}
<1> DEFINE S == [R EXCEPT ![e] = row]
<1>1. Present(S) = Present(R) \union {e} /\ S[e] = row
  BY TagsAssumption DEF Present
<1>2. \A f \in Present(S) \ {e} : f \in Present(R) /\ S[f] = R[f]
  BY <1>1 DEF Present
<1>3. row.name = n
  BY <1>1, <1>2 DEF IsName
<1> HIDE DEF S
<1>4. ASSUME NEW f \in Present(S), n \in S[f].aliases PROVE S[f].name \in AliasOf(R, n) \union {n}
  <2>1. CASE f = e
    BY <1>1, <1>3, <2>1
  <2>2. CASE f # e
    BY <1>2, <1>4, <2>2 DEF AliasOf
  <2> QED BY <2>1, <2>2
<1>5. AliasOf(S, n) \subseteq AliasOf(R, n) \union {n}
  BY <1>4 DEF AliasOf
<1> QED BY <1>5 DEF S

\* Taking an entry away makes nothing a name.
LEMMA NoNewName ==
  ASSUME NEW R \in [Entries -> Rows \union {None}], NEW e \in Entries, NEW n, ~IsName(R, n)
  PROVE  ~IsName([R EXCEPT ![e] = None], n)
  BY DEF IsName, Present

-----------------------------------------------------------------------------
(* The inductive invariant: types, connections, locks, names.                *)

LEMMA InitInv == Init => TagInv
<1> SUFFICES ASSUME Init PROVE TagInv
  OBVIOUS
<1> USE DEF Init
<1>1. \A T \in Inputs : T \subseteq Names
  BY DEF Names
<1>2. TypeOK
  BY <1>1 DEF TypeOK, CallState, Calls
<1>3. PoolInv /\ LockInv /\ UniqueNames /\ WorkInv
  BY DEF PoolInv, LockInv, UniqueNames, WorkInv, Present, Calls
<1>4. MeantInv /\ KeepInv
  BY DEF MeantInv, KeepInv, Calls
<1>5. PoolBound
  BY TagsAssumption, FS_EmptySet DEF PoolBound
<1> QED BY <1>2, <1>3, <1>4, <1>5 DEF TagInv, IInv

LEMMA RegisterInv ==
  ASSUME IInv, NEW R \in [Entries -> Rows \union {None}], Register(R),
         \A e, f \in Present(R) : R[e].name = R[f].name => e = f
  PROVE  IInv'
<1> USE DEF Register, IInv, rows, work
<1>1. \A c \in Calls : pc[c] = "alias" => Meanings(R, tag[c]) \subseteq Names
  BY MeaningsAreNames DEF WorkInv, TypeOK
<1>2. TypeOK'
  BY <1>1 DEF TypeOK
<1>3. PoolInv' /\ LockInv' /\ WorkInv' /\ UniqueNames'
  BY DEF PoolInv, LockInv, WorkInv, UniqueNames
<1> QED BY <1>2, <1>3

LEMMA ResolvesToInv ==
  ASSUME IInv, NEW c \in Calls, NEW t \in todo[c], NEW n \in Names, ResolvesTo(c, t, n),
         pc[c] \in {"resolve", "alias"}, pc' = [pc EXCEPT ![c] = "resolve"]
  PROVE  IInv'
<1> USE DEF ResolvesTo, IInv, rows
<1>1. TypeOK'
  BY DEF TypeOK, CallState
<1>2. PoolInv' /\ LockInv' /\ UniqueNames'
  BY DEF PoolInv, LockInv, UniqueNames, TypeOK, Calls
<1>3. WorkInv'
  BY DEF WorkInv, TypeOK
<1> QED BY <1>1, <1>2, <1>3

LEMMA NoNameInv ==
  ASSUME IInv, NEW c \in Calls, NEW t \in todo[c], NEW d \in {0, 2}, NoName(c, t, d)
  PROVE  IInv'
<1> USE DEF NoName, Goto, IInv, rows
<1>1. Meanings(registry, t) \subseteq Names
  BY MeaningsAreNames DEF TypeOK
<1>2. TypeOK'
  BY <1>1 DEF TypeOK, CallState
<1>3. PoolInv' /\ LockInv' /\ UniqueNames'
  BY DEF PoolInv, LockInv, UniqueNames, TypeOK, Calls
<1>4. WorkInv'
  BY DEF WorkInv, TypeOK
<1> QED BY <1>2, <1>3, <1>4

LEMMA StartInv ==
  ASSUME IInv, NEW c \in Calls, NEW at \in {"read", "resolve"}, NEW i \in Images,
         NEW L \in SUBSET Images, NEW T \in SUBSET Names, Start(c, at, i, L, T), i \notin L,
         UNCHANGED edited,
         \/ c \in Edits /\ at = "resolve" /\ L = {} /\ UNCHANGED conns
         \/ c \in Merges /\ at = "read" /\ L # {} /\ conns' = conns \union {c}
  PROVE  IInv'
<1> USE DEF Start, Goto, IInv, rows
<1>1. TypeOK'
  BY DEF TypeOK, CallState
<1>2. PoolInv'
  BY TagsAssumption DEF PoolInv, TypeOK, Calls
<1>3. LockInv' /\ UniqueNames' /\ WorkInv'
  BY DEF LockInv, UniqueNames, WorkInv, TypeOK, Calls
<1> QED BY <1>1, <1>2, <1>3

LEMMA BeginStoreInv == ASSUME IInv, NEW c \in Calls, BeginStore(c) PROVE IInv'
<1> USE DEF BeginStore, Resolved, IInv, rows, work, history
<1>1. TypeOK'
  BY DEF TypeOK, CallState
<1>2. PoolInv'
  BY TagsAssumption DEF PoolInv, TypeOK, Calls
<1>3. LockInv' /\ UniqueNames' /\ WorkInv'
  BY DEF LockInv, UniqueNames, WorkInv, TypeOK, Calls
<1> QED BY <1>1, <1>2, <1>3

\* A call that ends gives back what it held; the rows others have locked are there.
LEMMA EndInv ==
  ASSUME IInv, NEW c \in Calls, pc[c] # "idle", End(c), NEW S, Touch(S),
         alive' \subseteq Images, tags' \in [Images -> SUBSET Names],
         \A i \in Images : lock[i] \notin {None, c} => i \in alive'
  PROVE  IInv'
<1> USE DEF End, IInv
<1>1. edited' \in [Merges -> BOOLEAN]
  BY DEF Touch, Stale, TypeOK
<1>2. TypeOK'
  BY <1>1 DEF TypeOK, CallState
<1>3. PoolInv'
  BY DEF PoolInv, TypeOK, Calls
<1>4. LockInv'
  BY TagsAssumption DEF LockInv, TypeOK, Calls
<1>5. UniqueNames' /\ WorkInv'
  BY DEF UniqueNames, WorkInv, TypeOK, Calls
<1> QED BY <1>2, <1>3, <1>4, <1>5

LEMMA OutNames == ASSUME TypeOK, NEW c \in Calls PROVE Out(c) \subseteq Names
  BY DEF TypeOK, Out

LEMMA StoreInv == ASSUME IInv, NEW c \in Calls, Store(c) PROVE IInv'
<1> USE DEF Store, IInv
<1>1. image[c] \in Images
  BY DEF WorkInv
<1>2. Out(c) \subseteq Names
  BY OutNames
<1>3. alive' \subseteq Images /\ tags' \in [Images -> SUBSET Names]
  BY <1>1, <1>2 DEF TypeOK
<1>4. \A i \in Images : lock[i] # None => i \in alive'
  BY DEF LockInv
<1> QED BY <1>3, <1>4, EndInv

LEMMA DeleteInv == ASSUME IInv, NEW i \in Images, Delete(i) PROVE IInv'
<1> USE DEF Delete, work, IInv
<1>1. edited' \in [Merges -> BOOLEAN]
  BY DEF Touch, Stale, TypeOK
<1>2. TypeOK'
  BY <1>1 DEF TypeOK
<1> QED BY <1>2 DEF PoolInv, LockInv, UniqueNames, WorkInv

LEMMA ReadTagsInv == ASSUME IInv, NEW c \in Calls, NEW i \in Images, ReadTags(c, i) PROVE IInv'
<1> USE DEF ReadTags, IInv, rows, history
<1>1. tags[i] \subseteq Names
  BY DEF TypeOK
<1>2. TypeOK'
  BY <1>1 DEF TypeOK, CallState
<1>3. pc' \in {pc, [pc EXCEPT ![c] = "resolve"]} /\ (pc' # pc => unread'[c] = {})
  BY DEF TypeOK
<1>4. PoolInv' /\ LockInv' /\ UniqueNames'
  BY <1>3 DEF PoolInv, LockInv, UniqueNames, TypeOK, Calls
<1>5. WorkInv'
  BY <1>3 DEF WorkInv, TypeOK
<1> QED BY <1>2, <1>4, <1>5

LEMMA UpdateWinnerInv == ASSUME IInv, NEW c \in Calls, UpdateWinner(c) PROVE IInv'
<1> USE DEF UpdateWinner, Resolved, Blocked, IInv, work, history
<1>1. image[c] \in Images
  BY DEF WorkInv
<1>2. TypeOK'
  BY <1>1 DEF TypeOK, CallState
<1>3. PoolInv' /\ UniqueNames' /\ WorkInv'
  BY DEF PoolInv, UniqueNames, WorkInv, TypeOK, Calls
<1>4. LockInv'
  BY <1>1 DEF LockInv, TypeOK
<1> QED BY <1>2, <1>3, <1>4

LEMMA CommitInv == ASSUME IInv, NEW c \in Calls, Commit(c) PROVE IInv'
<1> USE DEF Commit, IInv
<1>1. Out(c) \subseteq Names
  BY OutNames
<1>2. alive' \subseteq Images /\ tags' \in [Images -> SUBSET Names]
  BY <1>1 DEF TypeOK
<1>3. \A i \in Images : lock[i] \notin {None, c} => i \in alive'
  BY DEF LockInv, Blocked
<1> QED BY <1>2, <1>3, EndInv

LEMMA GiveUpInv == ASSUME IInv, NEW c \in Calls, GiveUp(c) \/ NotFound(c) PROVE IInv'
<1> USE DEF IInv
<1>1. pc[c] # "idle" /\ End(c) /\ Touch({}) /\ UNCHANGED <<alive, tags>>
  BY DEF GiveUp, NotFound
<1>2. \A i \in Images : lock[i] # None => i \in alive'
  BY <1>1 DEF LockInv
<1> QED BY <1>1, <1>2, EndInv DEF TypeOK

\* A change of the registry leaves its names unique.
LEMMA RegistryInv ==
  ASSUME IInv, NEW e \in Entries, DeleteEntry(e) \/ \E row \in Rows : PutEntry(e, row)
  PROVE  IInv'
<1>1. ASSUME NEW row \in Rows, PutEntry(e, row) PROVE IInv'
  <2> DEFINE R == [registry EXCEPT ![e] = row]
  <2>1. R \in [Entries -> Rows \union {None}] /\ Register(R)
    BY <1>1 DEF PutEntry, IInv, TypeOK
  <2>2. \A f \in Present(R) : f = e \/ (f \in Present(registry) \ {e} /\ R[f] = registry[f])
    BY DEF Present, IInv, TypeOK
  <2>3. R[e] = row
    BY DEF IInv, TypeOK
  <2>4. \A f \in Present(registry) \ {e} : registry[f].name # row.name
    BY <1>1 DEF PutEntry
  <2>5. UniqueNames
    BY DEF IInv
  <2> HIDE DEF R
  <2>6. \A f, g \in Present(R) : R[f].name = R[g].name => f = g
    BY <2>2, <2>3, <2>4, <2>5 DEF UniqueNames
  <2> QED BY <2>1, <2>6, RegisterInv DEF R
<1>2. CASE DeleteEntry(e)
  <2> DEFINE R == [registry EXCEPT ![e] = None]
  <2>1. R \in [Entries -> Rows \union {None}] /\ Register(R)
    BY <1>2 DEF DeleteEntry, IInv, TypeOK
  <2>2. \A f \in Present(R) : f \in Present(registry) /\ R[f] = registry[f]
    BY DEF Present, IInv, TypeOK
  <2>3. \A f, g \in Present(R) : R[f].name = R[g].name => f = g
    BY <2>2 DEF IInv, UniqueNames
  <2> QED BY <2>1, <2>3, RegisterInv
<1> QED BY <1>1, <1>2

\* A query of ResolveTags, answered or failed.
LEMMA QueryInv ==
  ASSUME IInv, NEW c \in Calls, QueryAlias(c) \/ QueryFails(c) \/ \E t \in Names : QueryName(c, t)
  PROVE  IInv'
<1> USE DEF Goto
<1>1. ASSUME NEW t \in Names, QueryName(c, t) PROVE IInv'
  <2>1. CASE ~IsName(registry, t)
    BY <1>1, <2>1, NoNameInv DEF QueryName
  <2>2. CASE IsName(registry, t)
    <3>1. pc' = [pc EXCEPT ![c] = "resolve"]
      BY <1>1, <2>2 DEF QueryName, IInv, TypeOK
    <3> QED BY <1>1, <2>2, <3>1, ResolvesToInv DEF QueryName
  <2> QED BY <2>1, <2>2
<1>2. CASE QueryAlias(c)
  <2>1. tag[c] \in todo[c] /\ tag[c] \in Names
    BY <1>2 DEF QueryAlias, IInv, WorkInv, TypeOK
  <2>2. AliasOf(registry, tag[c]) \subseteq Names
    BY <2>1, MeaningsAreNames DEF IInv, TypeOK
  <2> QED BY <1>2, <2>1, <2>2, ResolvesToInv DEF QueryAlias
<1>3. CASE QueryFails(c)
  <2>1. pc[c] = "alias" => tag[c] \in todo[c] /\ tag[c] \in Names
    BY DEF IInv, WorkInv, TypeOK
  <2> QED BY <1>3, <2>1, NoNameInv, ResolvesToInv DEF QueryFails
<1> QED BY <1>1, <1>2, <1>3

LEMMA BeginInv ==
  ASSUME IInv,
         \/ \E c \in Edits, i \in Images, T \in Inputs : BeginEdit(c, i, T)
         \/ \E c \in Merges, w \in Images, L \in SUBSET Images : BeginMerge(c, w, L)
  PROVE  IInv'
<1>1. ASSUME NEW c \in Edits, NEW i \in Images, NEW T \in Inputs, BeginEdit(c, i, T) PROVE IInv'
  <2>1. c \in Calls /\ T \subseteq Names
    BY DEF Calls, Names
  <2> QED BY <1>1, <2>1, StartInv DEF BeginEdit
<1>2. ASSUME NEW c \in Merges, NEW w \in Images, NEW L \in SUBSET Images, BeginMerge(c, w, L)
      PROVE  IInv'
  <2>1. c \in Calls
    BY DEF Calls
  <2> QED BY <1>2, <2>1, StartInv DEF BeginMerge
<1> QED BY <1>1, <1>2

LEMMA NextIInv == IInv /\ [Next]_vars => IInv'
<1> SUFFICES ASSUME IInv, [Next]_vars PROVE IInv'
  OBVIOUS
<1>1. ASSUME NEW c \in Calls, Step(c) \/ QueryFails(c) \/ GiveUp(c) PROVE IInv'
  BY <1>1, QueryInv, BeginStoreInv, StoreInv, ReadTagsInv, UpdateWinnerInv, CommitInv, GiveUpInv
     DEF Step, Victim
<1>2. CASE UNCHANGED vars
  BY <1>2 DEF vars, rows, work, history, IInv, TypeOK, PoolInv, LockInv, UniqueNames, WorkInv
<1> QED BY <1>1, <1>2, BeginInv, RegistryInv, DeleteInv DEF Next

-----------------------------------------------------------------------------
(* What a tag has meant since its resolution began.                          *)

LEMMA MeantKept ==
  ASSUME MeantInv, UNCHANGED registry,
         \A c \in Calls : pc'[c] = "alias" => pc[c] = "alias" /\ UNCHANGED <<tag[c], meant[c], doubt[c]>>
  PROVE  MeantInv'
  BY DEF MeantInv

\* The first query has found no name: what the tag means is what aliases say.
LEMMA NoNameMeant ==
  ASSUME IInv, MeantInv, NEW c \in Calls, NEW t, NEW d \in {0, 2}, NoName(c, t, d),
         d = 0 => ~IsName(registry, t)
  PROVE  MeantInv'
<1> USE DEF NoName, Goto
<1>1. ASSUME NEW o \in Calls, o # c PROVE UNCHANGED <<pc[o], tag[o], meant[o], doubt[o]>>
  BY <1>1 DEF IInv, TypeOK
<1>2. tag'[c] = t /\ meant'[c] = Meanings(registry, t) /\ doubt'[c] = d
  BY DEF IInv, TypeOK
<1>3. d = 0 => AliasOf(registry, t) \subseteq Meanings(registry, t)
  BY DEF Meanings
<1>4. registry' = registry /\ (d = 0 \/ ~(d < 2))
  OBVIOUS
<1> HIDE DEF NoName
<1>5. ASSUME NEW o \in Calls, pc'[o] = "alias"
      PROVE  /\ doubt'[o] = 0 => ~IsName(registry', tag'[o])
             /\ doubt'[o] < 2 => Meanings(registry', tag'[o]) \subseteq meant'[o]
             /\ doubt'[o] < 2 => AliasOf(registry', tag'[o]) \subseteq meant'[o]
  <2>1. CASE o = c
    BY <1>2, <1>3, <1>4, <2>1
  <2>2. CASE o # c
    BY <1>1, <1>4, <1>5, <2>2 DEF MeantInv
  <2> QED BY <2>1, <2>2
<1> QED BY <1>5 DEF MeantInv

\* The first change of the registry since then.
LEMMA RegisterMeant ==
  ASSUME IInv, MeantInv, NEW e \in Entries, NEW row \in Rows \union {None},
         Register([registry EXCEPT ![e] = row])
  PROVE  MeantInv'
<1> DEFINE R == [registry EXCEPT ![e] = row]
<1>1. registry' = R /\ pc' = pc /\ tag' = tag
  BY DEF Register, work
<1>2. ASSUME NEW c \in Calls, pc[c] = "alias", doubt'[c] < 2
      PROVE  /\ doubt'[c] # 0
             /\ Meanings(R, tag[c]) \subseteq meant'[c]
             /\ AliasOf(R, tag[c]) \subseteq meant'[c]
  <2>1. meant'[c] = meant[c] \union Meanings(R, tag[c]) /\ doubt[c] = 0 /\ doubt'[c] = 1
    BY <1>2 DEF Register, IInv, TypeOK
  <2>2. ~IsName(registry, tag[c]) /\ AliasOf(registry, tag[c]) \subseteq meant[c]
    BY <1>2, <2>1 DEF MeantInv
  <2>3. ~IsName(R, tag[c]) => AliasOf(R, tag[c]) \subseteq Meanings(R, tag[c])
    BY DEF Meanings
  <2>4. IsName(R, tag[c]) => AliasOf(R, tag[c]) \subseteq meant'[c]
    <3> SUFFICES ASSUME IsName(R, tag[c]) PROVE AliasOf(R, tag[c]) \subseteq meant'[c]
      OBVIOUS
    <3>1. row \in Rows
      BY <2>2, NoNewName DEF IInv, TypeOK
    <3>2. AliasOf(R, tag[c]) \subseteq AliasOf(registry, tag[c]) \union {tag[c]}
      BY <2>2, <3>1, NewNameKeepsAliases DEF IInv, TypeOK
    <3>3. tag[c] \in Meanings(R, tag[c])
      BY DEF Meanings
    <3> QED BY <2>1, <2>2, <3>2, <3>3
  <2> HIDE DEF R
  <2>5. Meanings(R, tag[c]) \subseteq meant'[c]
    BY <2>1
  <2>6. AliasOf(R, tag[c]) \subseteq meant'[c]
    BY <2>3, <2>4, <2>5
  <2> QED BY <2>1, <2>5, <2>6
<1> HIDE DEF R
<1>3. ASSUME NEW c \in Calls, pc'[c] = "alias"
      PROVE  /\ doubt'[c] = 0 => ~IsName(registry', tag'[c])
             /\ doubt'[c] < 2 => Meanings(registry', tag'[c]) \subseteq meant'[c]
             /\ doubt'[c] < 2 => AliasOf(registry', tag'[c]) \subseteq meant'[c]
  BY <1>1, <1>2, <1>3
<1> QED BY <1>3 DEF MeantInv

LEMMA NextMeant == IInv /\ MeantInv /\ [Next]_vars => MeantInv'
<1> SUFFICES ASSUME IInv, MeantInv, [Next]_vars PROVE MeantInv'
  OBVIOUS
<1> USE DEF Goto
<1>1. ASSUME NEW c \in Calls, Step(c) \/ QueryFails(c) \/ GiveUp(c) PROVE MeantInv'
  <2>1. ASSUME NEW t, NEW n, ResolvesTo(c, t, n), pc'[c] # "alias", \A o \in Calls \ {c} : pc'[o] = pc[o]
        PROVE  MeantInv'
    BY <2>1, MeantKept DEF ResolvesTo, IInv, TypeOK
  <2>2. CASE (\E t \in Names : QueryName(c, t)) \/ QueryAlias(c) \/ QueryFails(c)
    BY <2>1, <2>2, NoNameMeant DEF QueryName, QueryAlias, QueryFails, IInv, TypeOK
  <2>3. CASE BeginStore(c) \/ (\E i \in Images : ReadTags(c, i)) \/ UpdateWinner(c)
    BY <2>3, MeantKept DEF BeginStore, ReadTags, UpdateWinner, work, history, IInv, TypeOK
  <2>4. CASE Store(c) \/ NotFound(c) \/ Commit(c) \/ GiveUp(c)
    <3>1. End(c)
      BY <2>4 DEF Store, NotFound, Commit, GiveUp
    <3> QED BY <3>1, MeantKept DEF End, IInv, TypeOK
  <2> QED BY <1>1, <2>2, <2>3, <2>4 DEF Step, Victim
<1>2. ASSUME NEW e \in Entries, DeleteEntry(e) \/ \E row \in Rows : PutEntry(e, row) PROVE MeantInv'
  BY <1>2, RegisterMeant DEF DeleteEntry, PutEntry
<1>3. CASE \/ \E c \in Edits, i \in Images, T \in Inputs : BeginEdit(c, i, T)
           \/ \E c \in Merges, w \in Images, L \in SUBSET Images : BeginMerge(c, w, L)
  BY <1>3, MeantKept DEF BeginEdit, BeginMerge, Start, IInv, TypeOK
<1>4. CASE (\E i \in Images : Delete(i)) \/ UNCHANGED vars
  BY <1>4, MeantKept DEF Delete, vars, rows, work, history
<1> QED BY <1>1, <1>2, <1>3, <1>4 DEF Next

-----------------------------------------------------------------------------
(* What a merge knows of the images it has read.                             *)

\* Calls end and the images in S change. A merge that goes on has seen no change
\* of an image it has read, but perhaps of its winner, once it is to delete: and
\* a row it has locked is left alone.
LEMMA TouchKept ==
  ASSUME IInv, KeepInv, NEW S \in SUBSET Images, Touch(S),
         \A i \in Images \ S : (i \in alive => i \in alive') /\ tags'[i] = tags[i],
         \A d \in Merges : pc'[d] # "idle" =>
            /\ UNCHANGED <<pc[d], image[d], losers[d], unread[d], todo[d], done[d]>>
            /\ \A i \in Images : lock[i] = d =>
                  lock'[i] = d /\ (i \in alive => i \in alive') /\ tags'[i] = tags[i]
  PROVE  KeepInv'
<1> SUFFICES ASSUME NEW d \in Merges, pc'[d] # "idle", ~edited'[d] PROVE Kept(d)'
  BY DEF KeepInv
<1>1. ~edited[d] /\ \A i \in S : ~Stale(d, i)
  BY DEF Touch
<1>2. UNCHANGED <<pc[d], image[d], losers[d], unread[d], todo[d], done[d]>>
  OBVIOUS
<1>3. Kept(d)
  BY <1>1, <1>2 DEF KeepInv
<1>4. d \in Calls /\ image[d] \in Images /\ losers[d] \subseteq Images
  BY <1>2 DEF IInv, WorkInv, TypeOK, Calls
<1>5. \A i \in (losers[d] \union {image[d]}) \ unread[d] : i \in alive' /\ tags'[i] = tags[i]
  <2> SUFFICES ASSUME NEW i \in (losers[d] \union {image[d]}) \ unread[d]
               PROVE  i \in alive' /\ tags'[i] = tags[i]
    OBVIOUS
  <2>1. i \in Images /\ i \in alive
    BY <1>3, <1>4 DEF Kept
  <2>2. i \in S => i = image[d] /\ pc[d] = "delete"
    BY <1>1, <1>2 DEF Stale
  <2>3. i \in S => lock[i] = d
    BY <1>3, <2>2 DEF Kept
  <2> QED BY <2>1, <2>3
<1>6. pc[d] = "delete" => lock'[image[d]] = d
  BY <1>3, <1>4 DEF Kept
<1> QED BY <1>2, <1>3, <1>5, <1>6 DEF Kept

\* A call that ends, whatever it has done to the images in S.
LEMMA EndKept ==
  ASSUME IInv, KeepInv, NEW c \in Calls, End(c), NEW S \in SUBSET Images, Touch(S),
         \A i \in Images \ S : (i \in alive => i \in alive') /\ tags'[i] = tags[i],
         \A i \in Images : lock[i] \notin {None, c} =>
            (i \in alive => i \in alive') /\ tags'[i] = tags[i]
  PROVE  KeepInv'
<1>1. ASSUME NEW d \in Merges, pc'[d] # "idle"
      PROVE  /\ UNCHANGED <<pc[d], image[d], losers[d], unread[d], todo[d], done[d]>>
             /\ \A i \in Images : lock[i] = d =>
                   lock'[i] = d /\ (i \in alive => i \in alive') /\ tags'[i] = tags[i]
  <2>1. d \in Calls /\ d # c /\ d # None
    BY <1>1, TagsAssumption DEF End, IInv, TypeOK, Calls
  <2>2. UNCHANGED <<pc[d], image[d], losers[d], unread[d], todo[d], done[d]>>
    BY <2>1 DEF End, IInv, TypeOK
  <2>3. \A i \in Images : lock[i] = d => lock'[i] = d
    BY <2>1 DEF End
  <2> QED BY <2>1, <2>2, <2>3
<1> QED BY <1>1, TouchKept

\* A step of one call that changes no image.
LEMMA StepKept ==
  ASSUME KeepInv, NEW c \in Calls, UNCHANGED <<alive, tags, edited>>,
         \A d \in Merges \ {c} :
            /\ UNCHANGED <<pc[d], image[d], losers[d], unread[d], todo[d], done[d]>>
            /\ \A i \in Images : lock[i] = d => lock'[i] = d,
         \A d \in Merges : pc[d] # "idle" => image[d] \in Images,
         c \in Merges /\ pc'[c] # "idle" /\ ~edited[c] => Kept(c)'
  PROVE  KeepInv'
<1> SUFFICES ASSUME NEW d \in Merges \ {c}, pc'[d] # "idle", ~edited'[d] PROVE Kept(d)'
  BY DEF KeepInv
<1> QED BY DEF KeepInv, Kept

LEMMA StoreKept == ASSUME IInv, KeepInv, NEW c \in Calls, Store(c) PROVE KeepInv'
<1> DEFINE S == {image[c]}
<1>1. image[c] \in Images
  BY DEF Store, IInv, WorkInv
<1>2. \A i \in Images \ S : (i \in alive => i \in alive') /\ tags'[i] = tags[i]
  BY <1>1 DEF Store, IInv, TypeOK
<1>3. \A i \in Images : lock[i] \notin {None, c} => i \notin S
  BY DEF Store, Blocked
<1> QED BY <1>1, <1>2, <1>3, EndKept DEF Store

LEMMA CommitKept == ASSUME IInv, KeepInv, NEW c \in Calls, Commit(c) PROVE KeepInv'
<1> DEFINE S == losers[c] \union {image[c]}
<1>1. S \subseteq Images
  BY DEF Commit, IInv, WorkInv, TypeOK
<1>2. c # None /\ \A i \in Images : lock[i] = c => i = image[c]
  BY TagsAssumption DEF IInv, LockInv
<1>3. \A i \in Images : i \notin losers[c] /\ lock[i] # c =>
         (i \in alive => i \in alive') /\ tags'[i] = tags[i]
  BY DEF Commit
<1>4. \A i \in Images : lock[i] \notin {None, c} => i \notin losers[c]
  BY DEF Commit, Blocked
<1>5. End(c) /\ Touch(S)
  BY DEF Commit
<1> HIDE DEF S
<1>6. \A i \in Images \ S : i \notin losers[c] /\ lock[i] # c
  BY <1>2 DEF S
<1> QED BY <1>1, <1>3, <1>4, <1>5, <1>6, EndKept

LEMMA DeleteKept == ASSUME IInv, KeepInv, NEW i \in Images, Delete(i) PROVE KeepInv'
<1> DEFINE S == {i}
<1>1. \A j \in Images \ S : (j \in alive => j \in alive') /\ tags'[j] = tags[j]
  BY DEF Delete, IInv, TypeOK
<1>2. UNCHANGED <<pc, image, losers, unread, todo, done, lock>> /\ Touch(S) /\ lock[i] = None
  BY DEF Delete, work
<1>3. ASSUME NEW d \in Merges, NEW j \in Images, lock[j] = d PROVE j # i
  BY <1>2, <1>3, TagsAssumption DEF Calls
<1> HIDE DEF S
<1>4. \A d \in Merges : \A j \in Images : lock[j] = d =>
         lock'[j] = d /\ (j \in alive => j \in alive') /\ tags'[j] = tags[j]
  BY <1>1, <1>2, <1>3 DEF S
<1> QED BY <1>1, <1>2, <1>4, TouchKept DEF S

LEMMA GiveUpKept == ASSUME IInv, KeepInv, NEW c \in Calls, GiveUp(c) \/ NotFound(c) PROVE KeepInv'
<1>1. End(c) /\ Touch({}) /\ UNCHANGED <<alive, tags>>
  BY DEF GiveUp, NotFound
<1> QED BY <1>1, EndKept

\* A tag that is resolved is not lost: it is among what is done.
LEMMA ResolvesToKept ==
  ASSUME IInv, KeepInv, NEW c \in Calls, NEW t, NEW n, ResolvesTo(c, t, n),
         pc[c] \in {"resolve", "alias"}, pc' = [pc EXCEPT ![c] = "resolve"]
  PROVE  KeepInv'
<1> USE DEF ResolvesTo, rows
<1>1. /\ todo'[c] = todo[c] \ {t} /\ done'[c] = done[c] \union {<<t, n>>}
      /\ \A d \in Merges \ {c} : UNCHANGED <<pc[d], todo[d], done[d]>>
      /\ pc'[c] = "resolve"
  BY DEF IInv, TypeOK, Calls
<1>2. \A d \in Merges : pc[d] # "idle" => image[d] \in Images
  BY DEF IInv, WorkInv, Calls
<1>3. ASSUME c \in Merges, ~edited[c] PROVE Kept(c)'
  <2>1. Kept(c)
    BY <1>3 DEF KeepInv
  <2>2. \A s \in todo[c] : s \in todo'[c] \/ \E p \in done'[c] : p[1] = s
    <3> SUFFICES ASSUME NEW s \in todo[c], s = t PROVE \E p \in done'[c] : p[1] = s
      BY <1>1
    <3>1. <<t, n>> \in done'[c] /\ <<t, n>>[1] = s
      BY <1>1
    <3> HIDE DEF ResolvesTo
    <3> QED BY <3>1
  <2>3. done[c] \subseteq done'[c]
    BY <1>1
  <2> QED BY <1>1, <2>1, <2>2, <2>3 DEF Kept
<1> QED BY <1>1, <1>2, <1>3, StepKept

LEMMA ReadTagsKept == ASSUME IInv, KeepInv, NEW c \in Calls, NEW i \in Images, ReadTags(c, i) PROVE KeepInv'
<1> USE DEF ReadTags, rows, history
<1>1. /\ unread'[c] = unread[c] \ {i} /\ todo'[c] = todo[c] \union tags[i]
      /\ \A d \in Merges \ {c} : UNCHANGED <<pc[d], unread[d], todo[d]>>
      /\ pc'[c] \in {"read", "resolve"}
  BY DEF IInv, TypeOK, Calls
<1>2. \A d \in Merges : pc[d] # "idle" => image[d] \in Images
  BY DEF IInv, WorkInv, Calls
<1>3. ASSUME c \in Merges, ~edited[c] PROVE Kept(c)'
  <2>1. Kept(c)
    BY <1>3 DEF KeepInv
  <2> QED BY <1>1, <2>1 DEF Kept
<1> QED BY <1>1, <1>2, <1>3, StepKept

\* It has read all its images by then: the winner is there, and its row is locked.
LEMMA UpdateWinnerKept == ASSUME IInv, KeepInv, NEW c \in Calls, UpdateWinner(c) PROVE KeepInv'
<1> USE DEF UpdateWinner, Resolved, work, history
<1>1. pc'[c] = "delete" /\ image[c] \in Images /\ unread[c] = {}
  BY DEF IInv, WorkInv, TypeOK
<1>2. \A d \in Merges : pc[d] # "idle" => image[d] \in Images
  BY DEF IInv, WorkInv, Calls
<1>3. \A d \in Merges \ {c} : UNCHANGED pc[d] /\ \A i \in Images : lock[i] = d => lock'[i] = d
  BY <1>1, TagsAssumption DEF Blocked, IInv, TypeOK, Calls
<1>4. ASSUME ~edited[c] PROVE Kept(c)'
  <2>1. Kept(c)
    BY <1>4 DEF KeepInv
  <2>2. image[c] \in alive
    BY <1>1, <2>1 DEF Kept
  <2>3. lock'[image[c]] = c
    BY <1>1, <2>2 DEF IInv, TypeOK
  <2> QED BY <2>1, <2>3 DEF Kept
<1> QED BY <1>2, <1>3, <1>4, StepKept

LEMMA NextKept == IInv /\ KeepInv /\ [Next]_vars => KeepInv'
<1> SUFFICES ASSUME IInv, KeepInv, [Next]_vars PROVE KeepInv'
  OBVIOUS
<1> USE DEF Goto
<1>a. \A d \in Merges : pc[d] # "idle" => image[d] \in Images
  BY DEF IInv, WorkInv, Calls
<1>1. ASSUME NEW c \in Calls, Step(c) \/ QueryFails(c) \/ GiveUp(c) PROVE KeepInv'
  <2>1. ASSUME NEW t, NEW d, NoName(c, t, d) PROVE KeepInv'
    <3>1. pc'[c] = "alias" /\ \A o \in Merges \ {c} : UNCHANGED pc[o]
      BY <2>1 DEF NoName, IInv, TypeOK, Calls
    <3> QED BY <1>a, <2>1, <3>1, StepKept DEF NoName, rows, KeepInv, Kept
  <2>2. CASE (\E t \in Names : QueryName(c, t)) \/ QueryAlias(c) \/ QueryFails(c)
    <3>1. pc[c] = "resolve" /\ pc' = pc => pc' = [pc EXCEPT ![c] = "resolve"]
      BY DEF IInv, TypeOK
    <3> QED BY <2>1, <2>2, <3>1, ResolvesToKept DEF QueryName, QueryAlias, QueryFails
  <2>3. CASE BeginStore(c)
    <3>1. c \notin Merges /\ \A o \in Merges : UNCHANGED pc[o]
      BY <2>3, TagsAssumption DEF BeginStore, IInv, TypeOK
    <3> QED BY <1>a, <2>3, <3>1, StepKept DEF BeginStore, rows, work, history
  <2> QED BY <1>1, <2>2, <2>3, StoreKept, ReadTagsKept, UpdateWinnerKept, CommitKept, GiveUpKept
          DEF Step, Victim
<1>2. ASSUME NEW R, Register(R) PROVE KeepInv'
  BY <1>2 DEF Register, rows, work, KeepInv, Kept
<1>3. ASSUME NEW c \in Edits, NEW i \in Images, NEW T, BeginEdit(c, i, T) PROVE KeepInv'
  <2>1. c \in Calls /\ c \notin Merges
    BY TagsAssumption DEF Calls
  <2>2. \A o \in Merges : UNCHANGED <<pc[o], image[o], losers[o], unread[o], todo[o], done[o]>>
    BY <1>3, <2>1 DEF BeginEdit, Start, IInv, TypeOK, Calls
  <2> QED BY <1>a, <1>3, <2>1, <2>2, StepKept DEF BeginEdit, Start, rows
<1>4. ASSUME NEW c \in Merges, NEW w \in Images, NEW L \in SUBSET Images, BeginMerge(c, w, L)
      PROVE  KeepInv'
  <2>1. c \in Calls
    BY DEF Calls
  <2>2. \A o \in Merges \ {c} : UNCHANGED <<pc[o], image[o], losers[o], unread[o], todo[o], done[o]>>
    BY <1>4, <2>1 DEF BeginMerge, Start, IInv, TypeOK, Calls
  <2>3. pc'[c] = "read" /\ losers'[c] = L /\ image'[c] = w /\ unread'[c] = L \union {w}
    BY <1>4, <2>1 DEF BeginMerge, Start, IInv, TypeOK
  <2>4. Kept(c)'
    BY <2>3 DEF Kept
  <2> QED BY <1>a, <1>4, <2>1, <2>2, <2>4, StepKept DEF BeginMerge, Start, rows
<1>5. CASE UNCHANGED vars
  BY <1>5 DEF vars, rows, work, history, KeepInv, Kept
<1> QED BY <1>1, <1>2, <1>3, <1>4, <1>5, DeleteKept DEF Next, DeleteEntry, PutEntry

-----------------------------------------------------------------------------
(* The pool.                                                                 *)

\* Connections are lent one at a time, while there are some.
LEMMA LentOneByOne ==
  ASSUME [Next]_vars
  PROVE  \/ conns' = conns
         \/ \E c \in Calls : conns' = conns \ {c}
         \/ \E c \in Calls : Free /\ conns' = conns \union {c}
<1> USE DEF rows, work, history
<1>1. ASSUME NEW c \in Calls, QueryAlias(c) \/ QueryFails(c) \/ \E t \in Names : QueryName(c, t)
      PROVE  conns' = conns
  BY <1>1 DEF QueryAlias, QueryFails, QueryName, ResolvesTo, NoName
<1>2. ASSUME NEW c \in Calls, Store(c) \/ NotFound(c) \/ Commit(c) \/ Victim(c) \/ GiveUp(c)
      PROVE  conns' = conns \ {c}
  BY <1>2 DEF Store, NotFound, Commit, Victim, GiveUp, End
<1>3. ASSUME NEW c \in Calls, UpdateWinner(c) \/ \E i \in Images : ReadTags(c, i)
      PROVE  conns' = conns
  BY <1>3 DEF UpdateWinner, ReadTags
<1>4. ASSUME NEW c \in Calls, BeginStore(c) PROVE Free /\ conns' = conns \union {c}
  BY <1>4 DEF BeginStore
<1>5. ASSUME NEW c \in Merges, NEW w \in Images, NEW L \in SUBSET Images, BeginMerge(c, w, L)
      PROVE  c \in Calls /\ Free /\ conns' = conns \union {c}
  BY <1>5 DEF BeginMerge, Calls
<1>6. CASE \/ \E e \in Entries : DeleteEntry(e) \/ \E row \in Rows : PutEntry(e, row)
           \/ \E i \in Images : Delete(i)
           \/ \E c \in Edits, i \in Images, T \in Inputs : BeginEdit(c, i, T)
           \/ UNCHANGED vars
  BY <1>6 DEF DeleteEntry, PutEntry, Register, Delete, BeginEdit, vars
<1> QED BY <1>1, <1>2, <1>3, <1>4, <1>5, <1>6 DEF Next, Step

LEMMA NextPool == PoolBound /\ [Next]_vars => PoolBound'
<1> SUFFICES ASSUME PoolBound, [Next]_vars PROVE PoolBound'
  OBVIOUS
<1> USE TagsAssumption DEF PoolBound
<1>1. Cardinality(conns) \in Nat
  BY FS_CardinalityType
<1>2. ASSUME NEW c, conns' = conns \ {c} PROVE PoolBound'
  <2>1. IsFiniteSet(conns \ {c}) /\ Cardinality(conns \ {c}) <= Cardinality(conns)
    BY FS_Subset
  <2>2. Cardinality(conns \ {c}) \in Nat
    BY <2>1, FS_CardinalityType
  <2> QED BY <1>1, <1>2, <2>1, <2>2
<1>3. ASSUME NEW c, Free, conns' = conns \union {c} PROVE PoolBound'
  <2>1. IsFiniteSet(conns \union {c}) /\ Cardinality(conns \union {c}) <= Cardinality(conns) + 1
    BY <1>1, FS_AddElement
  <2>2. Cardinality(conns \union {c}) \in Nat
    BY <2>1, FS_CardinalityType
  <2> QED BY <1>1, <1>3, <2>1, <2>2 DEF Free
<1> QED BY <1>2, <1>3, LentOneByOne

-----------------------------------------------------------------------------
(* Who can go on.                                                            *)

\* A row is locked by a merge that is deleting.
LEMMA BlockedByDeleting ==
  ASSUME IInv, NEW c \in Calls, NEW i \in Images, Blocked(i, c)
  PROVE  lock[i] \in Merges /\ pc[lock[i]] = "delete" /\ lock[i] # c
  BY DEF IInv, LockInv, Blocked

\* A call that is under way, and that the pool does not keep waiting, can go on,
\* or a merge is deleting.
LEMMA GoesOnOrDeleting ==
  ASSUME IInv, NEW c \in Calls, pc[c] # "idle",
         Free \/ ~(\/ pc[c] = "alias"
                   \/ pc[c] = "resolve" /\ todo[c] # {}
                   \/ pc[c] = "resolve" /\ c \notin Merges)
  PROVE  CanGo(c) \/ \E d \in Merges : pc[d] = "delete"
<1>1. pc[c] \in {"read", "resolve", "alias", "waiting", "delete"}
  BY DEF IInv, TypeOK, CallState
<1>2. image[c] \in Images
  BY DEF IInv, WorkInv
<1>3. CASE pc[c] = "delete"
  BY <1>3 DEF IInv, WorkInv
<1>4. CASE pc[c] \in {"read", "alias"}
  BY <1>4 DEF CanGo
<1>5. CASE pc[c] \in {"resolve", "waiting"}
  BY <1>2, <1>5, BlockedByDeleting DEF CanGo, Resolved
<1> QED BY <1>1, <1>3, <1>4, <1>5

\* S has the merges c waits for, and those its members wait for.
Closed(S, c) == \A d \in Merges : WaitsFor(c, d) \/ (\E e \in S : WaitsFor(e, d)) => d \in S

\* The merges c waits for, and those they wait for, and so on.
Reach(c) == {d \in Merges : \A S \in SUBSET Merges : Closed(S, c) => d \in S}

\* Who waits for d reaches d, and all that d reaches.
LEMMA ReachThrough ==
  ASSUME NEW c \in Merges, NEW d \in Merges, WaitsFor(c, d)
  PROVE  d \in Reach(c) /\ Reach(d) \subseteq Reach(c)
<1>1. d \in Reach(c)
  BY DEF Reach, Closed
<1>2. ASSUME NEW S \in SUBSET Merges, Closed(S, c) PROVE Closed(S, d)
  BY <1>2 DEF Closed
<1> QED BY <1>1, <1>2 DEF Reach

\* If finitely many merges wait for each other and for nobody else, then one of
\* them waits for itself: one that reaches least.
LEMMA CircleOfMerges ==
  ASSUME NEW D \in SUBSET Merges, IsFiniteSet(D), D # {},
         \A c \in D : \E d \in D : WaitsFor(c, d),
         \A c, d \in Merges : WaitsFor(c, d) => d \in D
  PROVE  \E c \in D : Deadlocked(c)
<1> DEFINE T == {Reach(c) : c \in D}
<1>1. \A c \in D : Reach(c) \in SUBSET D
  BY DEF Reach, Closed
<1>2. PICK x \in T : \A y \in T : <<y, x>> \notin StrictSubsetOrdering(D)
  <2>1. IsWellFoundedOn(StrictSubsetOrdering(D), SUBSET D)
    BY FS_StrictSubsetOrderingWellFounded, FS_FiniteSubsetsOfFinite
  <2>2. T \subseteq SUBSET D /\ T # {}
    BY <1>1
  <2> HIDE DEF T
  <2> QED BY <2>1, <2>2, WFMin
<1>3. PICK c \in D : x = Reach(c)
  OBVIOUS
<1>4. PICK d \in D : WaitsFor(c, d)
  OBVIOUS
<1>5. d \in Reach(c) /\ Reach(d) \subseteq Reach(c)
  BY <1>4, ReachThrough
<1>6. Reach(d) = Reach(c)
  BY <1>1, <1>2, <1>3, <1>5 DEF StrictSubsetOrdering
<1>7. Deadlocked(d)
  BY <1>5, <1>6 DEF Reach, Closed, Deadlocked
<1> QED BY <1>7

\* Of merges that are deleting, one can commit or is in a circle.
LEMMA DeletingGoesOn ==
  ASSUME TagInv, NEW c \in Merges, pc[c] = "delete"
  PROVE  \E d \in Calls : CanGo(d)
<1> DEFINE D == {d \in Merges : pc[d] = "delete"}
<1>1. SUFFICES ASSUME \A d \in Calls : ~CanGo(d) PROVE FALSE
  OBVIOUS
<1>2. IsFiniteSet(D) /\ D # {} /\ D \subseteq Calls
  BY FS_Subset DEF TagInv, IInv, PoolInv, PoolBound, Calls
<1>3. \A d, e \in Merges : WaitsFor(d, e) => e \in D
  BY TagsAssumption DEF WaitsFor, TagInv, IInv, LockInv, TypeOK, Calls
<1>4. ASSUME NEW d \in D PROVE \E e \in D : WaitsFor(d, e)
  <2>1. PICK i \in losers[d] : Blocked(i, d)
    BY <1>1, <1>2 DEF CanGo
  <2>2. i \in Images
    BY <1>2, <2>1 DEF TagInv, IInv, TypeOK
  <2>3. lock[i] \in D /\ lock[i] # d
    BY <1>2, <2>1, <2>2, BlockedByDeleting DEF TagInv
  <2> QED BY <2>1, <2>3 DEF WaitsFor
<1>5. PICK d \in D : Deadlocked(d)
  <2> HIDE DEF D
  <2> QED BY <1>2, <1>3, <1>4, CircleOfMerges DEF D
<1> QED BY <1>1, <1>2, <1>5 DEF CanGo

-----------------------------------------------------------------------------
(* The theorems.                                                             *)

LEMMA NextInv == TagInv /\ [Next]_vars => TagInv'
  BY NextIInv, NextMeant, NextKept, NextPool DEF TagInv

\* On every path through the handlers, with every failure of a query and every
\* client that goes away, the pool gets back what it gave (PoolInv), a row is
\* locked by a merge that is about to delete (LockInv), and no two entries of the
\* registry have one name.
THEOREM Invariance == Spec => []IInv
<1>1. TagInv => IInv
  BY DEF TagInv
<1> QED BY InitInv, NextInv, <1>1, PTL DEF Spec

\* The answer of ResolveTag was the meaning of the tag at some moment of its two
\* queries, unless a query failed or the registry changed twice in between
\* (postgres.go:639-654).
THEOREM AnswersWereMeant == Spec => AnswerWasMeant
<1>1. TagInv /\ [Next]_vars =>
        [\A c \in Calls : \A p \in done'[c] \ done[c] :
            p[2] \in Meanings(registry, p[1]) \union meant[c] \/ doubt[c] = 2 \/ QueryFails(c)]_vars
  <2> SUFFICES ASSUME TagInv, Next, NEW c \in Calls, NEW p \in done'[c] \ done[c]
               PROVE  \/ p[2] \in Meanings(registry, p[1]) \union meant[c]
                      \/ doubt[c] = 2 \/ QueryFails(c)
    BY DEF vars
  <2> USE DEF TagInv
  <2>1. ASSUME NEW o \in Calls, NEW t, NEW n, ResolvesTo(o, t, n) PROVE o = c /\ p[1] = t /\ p[2] = n
    <3>1. done' = [done EXCEPT ![o] = done[o] \union {<<t, n>>}]
      BY <2>1 DEF ResolvesTo
    <3>2. o = c /\ p = <<t, n>>
      BY <3>1 DEF IInv, TypeOK
    <3> QED BY <3>2
  <2>2. ASSUME UNCHANGED done PROVE FALSE
    BY <2>2
  <2>3. ASSUME NEW o \in Calls, done'[o] = {}, \A q \in Calls \ {o} : done'[q] = done[q] PROVE FALSE
    BY <2>3
  <2>4. ASSUME NEW o \in Calls, End(o) PROVE FALSE
    BY <2>3, <2>4 DEF End, IInv, TypeOK
  <2>5. ASSUME NEW o \in Calls, QueryFails(o) PROVE QueryFails(c)
    BY <2>1, <2>2, <2>5 DEF QueryFails, NoName
  <2>6. ASSUME NEW o \in Calls, NEW t \in Names, QueryName(o, t)
        PROVE  p[2] \in Meanings(registry, p[1])
    BY <2>1, <2>2, <2>6 DEF QueryName, NoName, Meanings
  <2>7. ASSUME NEW o \in Calls, QueryAlias(o)
        PROVE  p[2] \in Meanings(registry, p[1]) \union meant[c] \/ doubt[c] = 2
    <3>1. PICK n \in IF AliasOf(registry, tag[o]) = {} THEN {tag[o]} ELSE AliasOf(registry, tag[o]) :
            ResolvesTo(o, tag[o], n)
      BY <2>7 DEF QueryAlias
    <3>2. o = c /\ p[1] = tag[c] /\ p[2] = n
      BY <2>1, <3>1
    <3>3. CASE AliasOf(registry, tag[c]) = {}
      BY <3>1, <3>2, <3>3 DEF Meanings
    <3>4. CASE n \in AliasOf(registry, tag[c])
      <4>1. pc[c] = "alias" /\ doubt[c] \in 0..2
        BY <2>7, <3>2 DEF QueryAlias, Goto, IInv, TypeOK
      <4> QED BY <3>2, <3>4, <4>1 DEF MeantInv
    <3> QED BY <3>1, <3>2, <3>3, <3>4
  <2>8. \A o \in Calls : ~(Store(o) \/ NotFound(o) \/ Commit(o) \/ GiveUp(o) \/ Victim(o))
    BY <2>4 DEF Store, NotFound, Commit, GiveUp, Victim
  <2>9. \A o \in Calls : ~(BeginStore(o) \/ UpdateWinner(o) \/ \E i \in Images : ReadTags(o, i))
    BY <2>2 DEF BeginStore, UpdateWinner, ReadTags, work
  <2> QED BY <2>2, <2>5, <2>6, <2>7, <2>8, <2>9
          DEF Next, Step, BeginEdit, BeginMerge, Start, DeleteEntry, PutEntry, Register, Delete, work
<1> QED BY InitInv, NextInv, <1>1, PTL DEF Spec, AnswerWasMeant

\* A merge that commits leaves its winner, and every tag the winner or a loser had,
\* as ResolveTags has it, if the winner was not changed between its read and the
\* first write, and no loser between its read and the DELETE (admin.go:769-814).
THEOREM MergesKeepTags == Spec => MergeKeepsTags
<1>1. TagInv /\ [Next]_vars =>
        [\A c \in Merges : (Commit(c) /\ ~edited[c]) =>
          /\ image[c] \in alive'
          /\ \A i \in losers[c] \union {image[c]} : \A t \in tags[i] :
                \E p \in done[c] : p[1] = t /\ p[2] \in tags'[image[c]]]_vars
  <2> SUFFICES ASSUME TagInv, NEW c \in Merges, Commit(c), ~edited[c]
               PROVE  /\ image[c] \in alive'
                      /\ \A i \in losers[c] \union {image[c]} : \A t \in tags[i] :
                            \E p \in done[c] : p[1] = t /\ p[2] \in tags'[image[c]]
    BY DEF vars
  <2> USE DEF TagInv
  <2>1. pc[c] = "delete" /\ Kept(c)
    BY DEF Commit, KeepInv
  <2>2. /\ image[c] \in Images /\ image[c] \notin losers[c]
        /\ unread[c] = {} /\ todo[c] = {}
    BY <2>1 DEF IInv, WorkInv, Calls
  <2>3. image[c] \in alive'
    BY <2>1, <2>2 DEF Kept, Commit
  <2>4. tags'[image[c]] = Out(c)
    BY <2>1, <2>2 DEF Kept, Commit
  <2>5. \A p \in done[c] : p[2] \in tags'[image[c]]
    BY <2>4 DEF Out
  <2> QED BY <2>1, <2>2, <2>3, <2>5 DEF Kept
<1> QED BY InitInv, NextInv, <1>1, PTL DEF Spec, MergeKeepsTags

\* No call is ever in the way of all others, but for merges that have taken the
\* whole pool and ask it for more (admin.go:788): row locks are waited for only by
\* who has a connection already, whoever holds one commits or is in a circle
\* with others, and a circle has a member PostgreSQL can pick (admin.go:769-822).
THEOREM OnlyMergesMayHang == Spec => []OnlyMergesHang
<1>1. TagInv => OnlyMergesHang
  <2> SUFFICES ASSUME TagInv, ~Exhausted, NEW c \in Calls, pc[c] # "idle"
               PROVE  \E d \in Calls : CanGo(d)
    BY DEF OnlyMergesHang
  <2>1. CASE Free
    BY <2>1, GoesOnOrDeleting, DeletingGoesOn DEF TagInv
  <2>2. CASE ~Free
    <3>1. PICK d \in conns : ~(pc[d] = "alias" \/ (pc[d] = "resolve" /\ todo[d] # {}))
      BY <2>2 DEF Exhausted
    <3>2. d \in Calls /\ pc[d] # "idle" /\ (pc[d] = "resolve" => d \in Merges)
      BY <3>1 DEF TagInv, IInv, PoolInv, Calls
    <3> QED BY <3>1, <3>2, GoesOnOrDeleting, DeletingGoesOn DEF TagInv
  <2> QED BY <2>1, <2>2
<1> QED BY InitInv, NextInv, <1>1, PTL DEF Spec

\* The pool is never overdrawn: no path of a handler takes a connection that is
\* not free, or gives back one it does not have (admin.go:755-822).
THEOREM PoolIsBounded == Spec => []PoolBound
<1>1. TagInv => PoolBound
  BY DEF TagInv
<1> QED BY InitInv, NextInv, <1>1, PTL DEF Spec
=============================================================================
