--------------------------- MODULE Catalog_proofs ---------------------------
(***************************************************************************)
(* What holds of the catalog for every set of ids, extensions and requests, *)
(* any number of failures and crashes, and both kinds of storage.          *)
(***************************************************************************)
EXTENDS Catalog, FiniteSetTheorems, TLAPS

LEMMA NameInIds == ASSUME NEW i \in Ids PROVE NameOf(i) \in Ids /\ Normal[i] \in Ids
  BY CatalogAssumption DEF NameOf

\* The only file is the first.
LEMMA FirstOfOne ==
  ASSUME NEW g, NEW e \in Exts, g[e] # None, \A x \in Exts : x # e => g[x] = None
  PROVE  First(g) = g[e]
<1> DEFINE found == {x \in Exts : g[x] # None}
<1>1. found = {e} /\ e \in Nat /\ \A n \in Nat : n <= n
  <2>1. found = {e}
    OBVIOUS
  <2>2. e \in Nat
    BY CatalogAssumption
  <2> HIDE DEF found
  <2> QED BY <2>1, <2>2
<1>2. (CHOOSE x \in found : \A y \in found : x <= y) = e
  <2> HIDE DEF found
  <2> QED BY <1>1
<1> QED BY <1>1, <1>2 DEF First

\* A set of numbers has a least one: of the sets 0..x, x in S, one is least.
LEMMA LeastNumber == ASSUME NEW S \in SUBSET Nat, S # {} PROVE \E e \in S : \A x \in S : e <= x
<1> DEFINE T == {0..x : x \in S}
<1>1. PICK s \in T : \A t \in T : <<t, s>> \notin StrictSubsetOrdering(Nat)
  <2>1. \A x \in Nat : 0..x \in FiniteSubsetsOf(Nat)
    BY FS_Interval DEF FiniteSubsetsOf
  <2>2. T \subseteq FiniteSubsetsOf(Nat) /\ T # {}
    BY <2>1
  <2> HIDE DEF T
  <2> QED BY <2>2, FS_StrictSubsetOrderingWellFounded, WFMin
<1>2. PICK e \in S : s = 0..e
  OBVIOUS
<1>3. ASSUME NEW x \in S, ~(e <= x) PROVE FALSE
  <2>1. 0..x \subseteq 0..e /\ e \in 0..e /\ e \notin 0..x
    BY <1>3
  <2>2. <<0..x, 0..e>> \in StrictSubsetOrdering(Nat)
    BY <2>1 DEF StrictSubsetOrdering
  <2> QED BY <1>1, <1>2, <2>2
<1> QED BY <1>3

\* Readers find one of the files, if there is any, and none has an extension before it.
LEMMA FirstOfSome ==
  ASSUME NEW g, NEW d \in Exts, g[d] # None
  PROVE  \E e \in Exts : /\ First(g) = g[e] /\ g[e] # None
                        /\ \A x \in Exts : g[x] # None => e <= x
<1> DEFINE found == {x \in Exts : g[x] # None}
           e == CHOOSE x \in found : \A y \in found : x <= y
<1>1. found \in SUBSET Nat /\ found # {}
  BY CatalogAssumption
<1>2. e \in found /\ \A x \in found : e <= x
  <2> HIDE DEF found
  <2> QED BY <1>1, LeastNumber
<1> HIDE DEF e
<1>3. First(g) = g[e]
  BY <1>1 DEF First, e
<1> QED BY <1>2, <1>3

\* One more file is what readers find, or they find what they found before.
LEMMA FirstOfMore ==
  ASSUME NEW g \in [Exts -> Contents], NEW d \in Exts, g[d] # None, NEW e \in Exts, NEW r \in Requests
  PROVE  First([g EXCEPT ![e] = r]) \in {r, First(g)}
<1> DEFINE h == [g EXCEPT ![e] = r]
<1>1. h[e] = r /\ r # None /\ \A x \in Exts : x # e => h[x] = g[x]
  BY CatalogAssumption
<1> HIDE DEF h
<1>2. PICK a \in Exts : First(g) = g[a] /\ g[a] # None /\ \A x \in Exts : g[x] # None => a <= x
  BY FirstOfSome
<1>3. PICK b \in Exts : First(h) = h[b] /\ h[b] # None /\ \A x \in Exts : h[x] # None => b <= x
  BY <1>1, FirstOfSome
<1>4. CASE b # e
  <2>1. a <= b /\ b <= a
    BY <1>1, <1>2, <1>3, <1>4
  <2>2. a = b
    BY <2>1, CatalogAssumption
  <2> QED BY <1>1, <1>2, <1>3, <1>4, <2>2 DEF h
<1> QED BY <1>1, <1>3, <1>4 DEF h

LEMMA InitInv == Init => IInv
<1> SUFFICES ASSUME Init PROVE IInv
  OBVIOUS
<1> USE DEF Init
<1>1. (CHOOSE u \in Uploads : TRUE) \in Uploads
  <2>1. PICK e \in Exts : TRUE
    BY CatalogAssumption
  <2>2. [id |-> 1, name |-> 1, ext |-> e, tagged |-> TRUE, auto |-> TRUE] \in Uploads
    BY CatalogAssumption DEF Uploads
  <2>3. QED BY <2>2
<1>2. PICK e \in [Ids -> Exts] : file = [i \in Ids |-> [x \in Exts |->
                                    IF x = e[i] THEN row[i] ELSE None]]
  OBVIOUS
<1>3. TypeOK
  BY <1>1, <1>2 DEF TypeOK, Contents
<1>4. SoleOwner /\ NormalNames /\ Halfway
  BY DEF SoleOwner, NormalNames, Halfway, Touched, Uploading, Removing
<1>5. RowHasFile
  BY <1>2 DEF RowHasFile
<1> QED BY <1>3, <1>4, <1>5 DEF IInv

-----------------------------------------------------------------------------
(* Owners.                                                                   *)

\* Nobody comes to own what another request owns unless it is marked.
LEMMA OwnersKept ==
  ASSUME SoleOwner, NEW r \in Requests, clashed \subseteq clashed',
         \A o \in Requests \ {r} : Touched(o)' \subseteq Touched(o),
         Touched(r)' \intersect TouchedByOthers(r) \subseteq clashed'
  PROVE  SoleOwner'
<1> SUFFICES ASSUME NEW i \in Ids, i \notin clashed', NEW o \in Requests, NEW p \in Requests,
                    i \in Touched(o)', i \in Touched(p)', o # p
             PROVE  FALSE
  BY DEF SoleOwner
<1>1. CASE o # r /\ p # r
  BY <1>1 DEF SoleOwner
<1>2. CASE o = r \/ p = r
  <2>1. i \in TouchedByOthers(r)
    BY <1>2 DEF TouchedByOthers
  <2>2. i \in Touched(r)'
    BY <1>2
  <2>3. QED BY <2>1, <2>2
<1> QED BY <1>1, <1>2

\* An owner that goes on with what it owns disturbs nobody.
LEMMA OwnersShrink ==
  ASSUME SoleOwner, clashed \subseteq clashed',
         \A o \in Requests : Touched(o)' \subseteq Touched(o)
  PROVE  SoleOwner'
  BY DEF SoleOwner

-----------------------------------------------------------------------------
(* Uploads.                                                                  *)

LEMMA UploadInv ==
  ASSUME IInv, NEW r \in Requests, NEW id \in Ids, NEW name \in {id, NameOf(id)}, NEW e \in Exts,
         NEW tagged \in BOOLEAN, Upload(r, id, name, e, tagged)
  PROVE  IInv'
<1> USE DEF Upload, Goto, IInv
<1>0. name \in Ids /\ (name # id => name = Normal[id])
  BY NameInIds DEF NameOf
<1>1. TypeOK'
  <2>1. clashed' \subseteq Ids
    BY <1>0 DEF TypeOK, Clash
  <2>2. QED BY <2>1, <1>0 DEF TypeOK, Uploads
<1>2. SoleOwner'
  <2>1. \A o \in Requests \ {r} : Touched(o)' \subseteq Touched(o)
    BY DEF Touched, Uploading, Removing, TypeOK, Uploads
  <2>2. Touched(r)' = {id, name}
    BY DEF Touched, Uploading, Removing, TypeOK, Uploads
  <2>3. QED BY <2>1, <2>2, OwnersKept DEF Clash
<1>3. NormalNames'
  BY <1>0 DEF NormalNames, Uploading, Removing, TypeOK, Uploads, NameOf, Clash
<1>4. Halfway'
  BY DEF Halfway, TypeOK, Uploads, Uploading
<1>5. RowHasFile'
  BY DEF RowHasFile
<1> QED BY <1>1, <1>2, <1>3, <1>4, <1>5

LEMMA UploadAutoInv ==
  ASSUME IInv, NEW r \in Requests, NEW e \in Exts, NEW tagged \in BOOLEAN, UploadAuto(r, e, tagged)
  PROVE  IInv'
<1> USE DEF UploadAuto, Goto, IInv
<1>1. TypeOK'
  BY CatalogAssumption DEF TypeOK, Uploads
<1>2. SoleOwner'
  BY OwnersShrink DEF Touched, Uploading, Removing, TypeOK
<1>3. NormalNames' /\ Halfway'
  BY DEF NormalNames, Halfway, TypeOK, Uploads, Uploading, Removing, NameOf
<1>4. RowHasFile'
  BY DEF RowHasFile
<1> QED BY <1>1, <1>2, <1>3, <1>4

LEMMA AssignIdInv == ASSUME IInv, NEW r \in Requests, AssignId(r) PROVE IInv'
<1> USE DEF Goto, IInv
<1>1. PICK n \in Numeric, T \in SUBSET Ids :
        /\ pc[r] = "assign" /\ pc' = [pc EXCEPT ![r] = "write"]
        /\ req' = [req EXCEPT ![r] = [id |-> n, name |-> n, ext |-> @.ext,
                                      tagged |-> @.tagged, auto |-> TRUE]]
        /\ clashed' = clashed \union T
        /\ (T = {1} /\ n = 1) \/ (IsNextId(n) /\ T = Clash(r, n, n))
  <2>1. \A n \in Ids : Clash(r, n, n) \subseteq Ids
    BY DEF Clash
  <2>2. CASE \E n \in Numeric :
               /\ IsNextId(n)
               /\ req' = [req EXCEPT ![r] = [id |-> n, name |-> n, ext |-> @.ext,
                                             tagged |-> @.tagged, auto |-> TRUE]]
               /\ clashed' = clashed \union Clash(r, n, n)
    BY <2>1, <2>2, CatalogAssumption DEF AssignId
  <2>3. CASE /\ req' = [req EXCEPT ![r] = [id |-> 1, name |-> 1, ext |-> @.ext,
                                           tagged |-> @.tagged, auto |-> TRUE]]
             /\ clashed' = clashed \union {1}
    BY <2>3, CatalogAssumption DEF AssignId
  <2>4. QED BY <2>2, <2>3 DEF AssignId
<1>2. UNCHANGED <<row, file, target, todo>> /\ faults' \in Nat
  BY DEF AssignId, Fault, TypeOK
<1>3. n \in Ids /\ Normal[n] = n
  BY CatalogAssumption
<1>4. TypeOK'
  BY <1>1, <1>2, <1>3 DEF TypeOK, Uploads
<1>5. Touched(r)' = {n}
  BY <1>1, <1>2 DEF Touched, Uploading, Removing, TypeOK, Uploads
<1>6. SoleOwner'
  <2>1. \A o \in Requests \ {r} : Touched(o)' \subseteq Touched(o)
    BY <1>1, <1>2 DEF Touched, Uploading, Removing, TypeOK, Uploads
  <2>2. {n} \intersect TouchedByOthers(r) \subseteq clashed'
    BY <1>1 DEF Clash
  <2>3. QED BY <1>1, <1>5, <2>1, <2>2, OwnersKept
<1>7. NormalNames'
  BY <1>1, <1>2 DEF NormalNames, Uploading, Removing, TypeOK, Uploads, NameOf
<1>8. Halfway'
  <2>1. n \notin clashed' => row[n] = None
    <3>1. IsNextId(n) => n \notin Used
      BY <1>3, CatalogAssumption DEF IsNextId
    <3>2. QED BY <3>1, <1>1, <1>3 DEF Used
  <2>2. QED BY <1>1, <1>2, <2>1 DEF Halfway, TypeOK, Uploads, Uploading, NameOf
<1>9. RowHasFile'
  BY <1>1, <1>2 DEF RowHasFile
<1> QED BY <1>4, <1>6, <1>7, <1>8, <1>9

\* The file a request writes is its own, unless it has clashed.
LEMMA WriteFileInv == ASSUME IInv, NEW r \in Requests, WriteFile(r) PROVE IInv'
<1> USE DEF Goto, IInv
<1> DEFINE written == [file EXCEPT ![req[r].name] = [@ EXCEPT ![req[r].ext] = r]]
<1>1. /\ pc[r] = "write" /\ pc' \in {[pc EXCEPT ![r] = "store"], [pc EXCEPT ![r] = "done"]}
      /\ pc' = [pc EXCEPT ![r] = "store"] => file' = written
      /\ file' \in {file, written} /\ faults' \in Nat
      /\ UNCHANGED <<row, req, target, todo, clashed>>
  BY DEF WriteFile, Fault, TypeOK
<1>2. req[r].name \in Ids /\ req[r].ext \in Exts /\ req[r] \in Uploads
  BY DEF TypeOK, Uploads
<1>3. written \in [Ids -> [Exts -> Contents]]
  BY <1>2 DEF TypeOK, Contents
<1>4. TypeOK'
  BY <1>1, <1>3 DEF TypeOK
<1>5. SoleOwner'
  BY <1>1, OwnersShrink DEF Touched, Uploading, Removing, TypeOK
<1>6. NormalNames'
  BY <1>1 DEF NormalNames, Uploading, Removing, TypeOK, NameOf
<1>7. r # None
  BY CatalogAssumption
<1>8. \A i \in Ids, e \in Exts : file[i][e] # None => file'[i][e] # None
  BY <1>1, <1>2, <1>7 DEF TypeOK
<1>9. Halfway'
  <2>1. pc' = [pc EXCEPT ![r] = "store"] => file'[req[r].name][req[r].ext] # None
    BY <1>1, <1>2, <1>7 DEF TypeOK
  <2>2. \A o \in Requests : req[o].name \in Ids /\ req[o].ext \in Exts
    BY DEF TypeOK, Uploads
  <2>3. QED BY <1>1, <1>8, <2>1, <2>2 DEF Halfway, Uploading, TypeOK, NameOf
<1>10. RowHasFile'
  BY <1>1, <1>8 DEF RowHasFile
<1> QED BY <1>4, <1>5, <1>6, <1>9, <1>10

LEMMA StoreRowInv == ASSUME IInv, NEW r \in Requests, StoreRow(r) PROVE IInv'
<1> USE DEF StoreRow, Goto, IInv
<1>1. /\ req[r].id \in Ids /\ req[r].name \in Ids /\ req[r].ext \in Exts
      /\ {req[r].id, req[r].name} \subseteq Touched(r)
  BY DEF TypeOK, Uploads, Touched, Uploading
<1>2. TypeOK'
  BY <1>1 DEF TypeOK, Contents
<1>3. SoleOwner'
  BY OwnersShrink DEF Touched, Uploading, Removing, TypeOK
<1>4. NormalNames'
  BY DEF NormalNames, Uploading, Removing, TypeOK, NameOf
<1>5. Halfway'
  <2>1. ASSUME NEW o \in Requests, o # r PROVE req[r].id \notin Touched(o) \/ req[r].id \in clashed
    BY <1>1, <2>1 DEF SoleOwner
  <2>2. ASSUME NEW o \in Requests, o # r, Uploading(o)
        PROVE  /\ req[o].id \in clashed \/ req[o].id # req[r].id
               /\ req[o].name \in clashed \/ req[o].name # req[r].id
    BY <2>1, <2>2 DEF Touched
  <2>3. ASSUME NEW o \in Requests, o # r, pc[o] = "unlink", NEW i \in target[o] \ clashed
        PROVE  i # req[r].id
    BY <2>1, <2>3 DEF Touched, Removing
  <2>4. QED BY <1>1, <2>2, <2>3 DEF Halfway, Uploading, TypeOK, NameOf
<1>6. RowHasFile'
  <2>1. req[r].id \notin clashed => \E e \in Exts : file[req[r].id][e] # None
    BY <1>1 DEF NormalNames, Halfway, Uploading
  <2>2. QED BY <1>1, <2>1 DEF RowHasFile, TypeOK
<1> QED BY <1>2, <1>3, <1>4, <1>5, <1>6

LEMMA StoreFailsInv == ASSUME IInv, NEW r \in Requests, StoreFails(r) PROVE IInv'
<1> USE DEF StoreFails, Goto, IInv
<1>1. req[r].id \in Ids /\ req[r].name \in Ids
  BY DEF TypeOK, Uploads
<1>2. faults' \in Nat
  BY DEF Fault, TypeOK
<1>3. TypeOK'
  BY <1>1, <1>2 DEF TypeOK
<1>4. SoleOwner'
  BY OwnersShrink DEF Touched, Uploading, Removing, TypeOK
<1>5. NormalNames'
  BY DEF NormalNames, Uploading, Removing, TypeOK, NameOf
<1>6. Halfway'
  BY <1>1 DEF Halfway, Uploading, TypeOK, NameOf
<1>7. RowHasFile'
  BY DEF RowHasFile
<1> QED BY <1>3, <1>4, <1>5, <1>6, <1>7

\* What is stored and will lose its file is marked.
LEMMA StoreUnheardInv == ASSUME IInv, NEW r \in Requests, StoreUnheard(r) PROVE IInv'
<1> USE DEF StoreUnheard, Goto, IInv
<1>1. req[r].id \in Ids /\ req[r].name \in Ids /\ faults' \in Nat
  BY DEF TypeOK, Uploads, Fault
<1>2. TypeOK'
  BY <1>1 DEF TypeOK, Contents
<1>3. SoleOwner'
  BY OwnersShrink DEF Touched, Uploading, Removing, TypeOK
<1>4. NormalNames'
  BY DEF NormalNames, Uploading, Removing, TypeOK, NameOf
<1>5. Halfway'
  <2>1. \A i \in Ids \ clashed' : row'[i] = row[i]
    BY <1>1 DEF TypeOK
  <2>2. \A o \in Requests : req[o].id \in Ids /\ req[o].name \in Ids /\ target[o] \subseteq Ids
    BY DEF TypeOK, Uploads
  <2> QED BY <1>1, <2>1, <2>2 DEF Halfway, Uploading, TypeOK, NameOf
<1>6. RowHasFile'
  BY <1>1 DEF RowHasFile, TypeOK
<1> QED BY <1>2, <1>3, <1>4, <1>5, <1>6

\* What is removed is the file of an id without a row, or of one that has
\* clashed, and nobody else is between writing that file and storing its row.
LEMMA CleanUpInv == ASSUME IInv, NEW r \in Requests, CleanUp(r) PROVE IInv'
<1> USE DEF CleanUp, Goto, IInv
<1>1. req[r].name \in Ids /\ req[r].name \in Touched(r)
  BY DEF TypeOK, Uploads, Touched, Uploading
<1>2. TypeOK'
  <2>1. file' \in [Ids -> [Exts -> Contents]]
    BY <1>1 DEF TypeOK, Contents
  <2>2. faults' \in Nat
    BY DEF TypeOK, Fault
  <2>3. QED BY <2>1, <2>2 DEF TypeOK
<1>3. SoleOwner'
  BY OwnersShrink DEF Touched, Uploading, Removing, TypeOK
<1>4. NormalNames'
  BY DEF NormalNames, Uploading, Removing, TypeOK, NameOf
<1>5. \A i \in Ids : i # req[r].name => file'[i] = file[i]
  BY DEF TypeOK
<1>6. Halfway'
  <2>1. ASSUME NEW o \in Requests, o # r, Uploading(o)
        PROVE  req[o].name \in Ids /\ (req[o].name \in clashed \/ req[o].name # req[r].name)
    BY <1>1, <2>1 DEF SoleOwner, Touched, TypeOK, Uploads
  <2>2. QED BY <1>5, <2>1 DEF Halfway, Uploading, TypeOK, NameOf
<1>7. RowHasFile'
  <2>1. req[r].name \notin clashed => row[req[r].name] = None
    BY DEF Halfway
  <2>2. QED BY <1>5, <2>1 DEF RowHasFile
<1> QED BY <1>2, <1>3, <1>4, <1>6, <1>7

-----------------------------------------------------------------------------
(* Deletes and merges.                                                       *)

LEMMA RemoveInv ==
  ASSUME IInv, NEW r \in Requests, NEW to \in {"delete", "merge"}, NEW I \in SUBSET Ids, Remove(r, to, I)
  PROVE  IInv'
<1> USE DEF Remove, Goto, IInv
<1> DEFINE T == UNION {Clash(r, i, NameOf(i)) : i \in I}
<1>0. T \subseteq Ids /\ \A i \in I : Clash(r, i, NameOf(i)) \subseteq T
  BY NameInIds DEF Clash
<1>1. clashed' = clashed \union T
  OBVIOUS
<1> HIDE DEF T
<1>2. TypeOK'
  BY <1>0, <1>1 DEF TypeOK
<1>3. SoleOwner'
  <2>1. \A o \in Requests \ {r} : Touched(o)' \subseteq Touched(o)
    BY DEF Touched, Uploading, Removing, TypeOK
  <2>2. Touched(r)' = I \union {NameOf(i) : i \in I}
    BY DEF Touched, Uploading, Removing, TypeOK, NameOf
  <2>3. \A i \in I : {i, NameOf(i)} \intersect TouchedByOthers(r) \subseteq T
    BY <1>0 DEF Clash
  <2>4. QED BY <1>1, <2>1, <2>2, <2>3, OwnersKept
<1>4. NormalNames'
  <2>1. \A i \in I : i = NameOf(i) \/ {i, NameOf(i)} \subseteq T
    BY <1>0 DEF Clash, NameOf
  <2>2. QED BY <1>1, <2>1 DEF NormalNames, Uploading, Removing, TypeOK, NameOf
<1>5. Halfway'
  BY <1>1 DEF Halfway, Uploading, TypeOK, NameOf
<1>6. RowHasFile'
  BY <1>1 DEF RowHasFile
<1> QED BY <1>2, <1>3, <1>4, <1>5, <1>6

LEMMA RemoveRowsInv ==
  ASSUME IInv, NEW r \in Requests, NEW from \in {"delete", "merge"}, Goto(r, from, "unlink"),
         RemoveRows(r)
  PROVE  IInv'
<1> USE DEF RemoveRows, RowsGone, Goto, IInv
<1>1. target[r] \subseteq Ids /\ \A i \in target[r] : NameOf(i) \in Ids
  BY NameInIds DEF TypeOK
<1>2. TypeOK'
  BY <1>1 DEF TypeOK, Contents
<1>3. SoleOwner'
  BY OwnersShrink DEF Touched, Uploading, Removing, TypeOK, NameOf
<1>4. NormalNames'
  BY DEF NormalNames, Uploading, Removing, TypeOK, NameOf
<1>5. \A i \in Ids : row'[i] = row[i] \/ row'[i] = None
  OBVIOUS
<1>6. Halfway'
  <2>1. \A i \in Ids, e \in Exts : <<i, e>> \in todo'[r] => i \in {NameOf(t) : t \in target[r]}
    BY DEF TypeOK
  <2>2. \A i \in target[r] : row'[i] = None
    BY <1>1
  <2>3. \A o \in Requests : req[o].name \in Ids /\ req[o].id \in Ids
    BY DEF TypeOK, Uploads
  <2>4. \A o \in Requests : target[o] \subseteq Ids
    BY DEF TypeOK
  <2>5. \A o \in Requests : o # r => todo'[o] = todo[o] /\ pc'[o] = pc[o]
    BY DEF TypeOK
  <2>6. QED BY <1>5, <2>1, <2>2, <2>3, <2>4, <2>5 DEF Halfway, Uploading, TypeOK, NameOf
<1>7. RowHasFile'
  BY <1>5 DEF RowHasFile
<1> QED BY <1>2, <1>3, <1>4, <1>6, <1>7

LEMMA RemoveFailsInv == ASSUME IInv, NEW r \in Requests, RemoveFails(r) PROVE IInv'
<1> USE DEF RemoveFails, Goto, IInv
<1>1. faults' \in Nat
  BY DEF Fault, TypeOK
<1>2. TypeOK'
  BY <1>1 DEF TypeOK
<1>3. SoleOwner'
  BY OwnersShrink DEF Touched, Uploading, Removing, TypeOK, NameOf
<1>4. NormalNames' /\ Halfway'
  BY DEF NormalNames, Halfway, Uploading, Removing, TypeOK, NameOf
<1>5. RowHasFile'
  BY DEF RowHasFile
<1> QED BY <1>2, <1>3, <1>4, <1>5

LEMMA RemoveUnheardInv == ASSUME IInv, NEW r \in Requests, RemoveUnheard(r) PROVE IInv'
<1> USE DEF RemoveUnheard, RowsGone, Goto, IInv
<1>1. faults' \in Nat
  BY DEF Fault, TypeOK
<1>2. TypeOK'
  BY <1>1 DEF TypeOK, Contents
<1>3. SoleOwner'
  BY OwnersShrink DEF Touched, Uploading, Removing, TypeOK, NameOf
<1>4. NormalNames'
  BY DEF NormalNames, Uploading, Removing, TypeOK, NameOf
<1>5. \A i \in Ids : row'[i] = row[i] \/ row'[i] = None
  OBVIOUS
<1>6. Halfway'
  <2>1. \A o \in Requests : req[o].name \in Ids /\ req[o].id \in Ids /\ target[o] \subseteq Ids
    BY DEF TypeOK, Uploads
  <2>2. \A o \in Requests : pc'[o] = IF o = r THEN "done" ELSE pc[o]
    BY DEF TypeOK
  <2> QED BY <1>5, <2>1, <2>2 DEF Halfway, Uploading, NameOf
<1>7. RowHasFile'
  BY <1>5 DEF RowHasFile
<1> QED BY <1>2, <1>3, <1>4, <1>6, <1>7

\* A file that is removed belongs to an id that has lost its row, or has clashed.
LEMMA UnlinkInv == ASSUME IInv, NEW r \in Requests, Unlink(r) PROVE IInv'
<1> USE DEF Unlink, Goto, IInv
<1>1. /\ pc[r] = "unlink" /\ pc' \in {pc, [pc EXCEPT ![r] = "done"]}
      /\ UNCHANGED <<row, req, target, clashed>>
  OBVIOUS
<1>2. PICK i \in Ids, e \in Exts :
        /\ todo' = [todo EXCEPT ![r] = @ \ {<<i, e>>}]
        /\ \/ <<i, e>> \in todo[r] /\ file' = [file EXCEPT ![i] = [@ EXCEPT ![e] = None]]
           \/ file' = file
        /\ faults' \in Nat
  <2>0. faults' \in Nat
    <3>1. faults' = faults \/ Fault
      BY Zenon
    <3>2. QED BY <3>1 DEF Fault, TypeOK
  <2>1. ASSUME NEW i \in Ids, NEW e \in Exts, <<i, e>> \in todo[r],
               todo' = [todo EXCEPT ![r] = @ \ {<<i, e>>}],
               \/ file' = [file EXCEPT ![i] = [@ EXCEPT ![e] = None]]
               \/ file' = file
        PROVE  \E j \in Ids, x \in Exts :
                 /\ todo' = [todo EXCEPT ![r] = @ \ {<<j, x>>}]
                 /\ \/ <<j, x>> \in todo[r] /\ file' = [file EXCEPT ![j] = [@ EXCEPT ![x] = None]]
                    \/ file' = file
    BY <2>1
  <2>2. ASSUME todo[r] = {}, UNCHANGED <<file, todo>>
        PROVE  \E j \in Ids, x \in Exts : todo' = [todo EXCEPT ![r] = @ \ {<<j, x>>}] /\ file' = file
    <3>1. PICK x \in Exts : TRUE
      BY CatalogAssumption
    <3>2. 1 \in Ids
      BY CatalogAssumption
    <3>3. todo' = [todo EXCEPT ![r] = @ \ {<<1, x>>}]
      BY <2>2 DEF TypeOK
    <3>4. QED BY <2>2, <3>2, <3>3
  <2>3. CASE \E i \in Ids, e \in Exts : <<i, e>> \in todo[r] /\ todo' = [todo EXCEPT ![r] = @ \ {<<i, e>>}]
    <3>1. PICK i \in Ids, e \in Exts :
             /\ <<i, e>> \in todo[r]
             /\ todo' = [todo EXCEPT ![r] = @ \ {<<i, e>>}]
             /\ file' = [file EXCEPT ![i] = [@ EXCEPT ![e] = None]] \/ file' = file
      BY <2>3
    <3>2. QED BY <2>0, <2>1, <3>1
  <2>4. CASE todo[r] = {} /\ UNCHANGED <<file, todo>>
    BY <2>0, <2>2, <2>4
  <2>5. QED BY <2>3, <2>4
<1>3. TypeOK'
  <2>0. [file[i] EXCEPT ![e] = None] \in [Exts -> Contents]
    BY DEF TypeOK, Contents
  <2>1. file' \in [Ids -> [Exts -> Contents]]
    BY <1>2, <2>0 DEF TypeOK
  <2>2. todo' \in [Requests -> SUBSET (Ids \X Exts)]
    BY <1>2 DEF TypeOK
  <2>3. QED BY <1>1, <1>2, <2>1, <2>2 DEF TypeOK
<1>4. SoleOwner'
  BY <1>1, OwnersShrink DEF Touched, Uploading, Removing, TypeOK, NameOf
<1>5. NormalNames'
  BY <1>1 DEF NormalNames, Uploading, Removing, TypeOK, NameOf
<1>6. <<i, e>> \in todo[r] /\ i \notin clashed => i \in Touched(r) /\ row[i] = None
  <2>1. SUFFICES ASSUME <<i, e>> \in todo[r], i \notin clashed
                 PROVE  i \in Touched(r) /\ row[i] = None
    OBVIOUS
  <2>2. PICK t \in target[r] : i = NameOf(t)
    BY <1>1, <2>1 DEF Halfway
  <2>3. t = NameOf(t)
    BY <1>1, <2>1, <2>2 DEF NormalNames, Removing
  <2>4. QED BY <1>1, <2>1, <2>2, <2>3 DEF Halfway, Touched, Removing
<1>7. \A j \in Ids : file'[j] = file[j] \/ (<<i, e>> \in todo[r] /\ j = i)
  BY <1>2 DEF TypeOK
<1>8. Halfway'
  <2>1. ASSUME NEW o \in Requests, pc[o] = "store", req[o].name \notin clashed
        PROVE  file'[req[o].name] = file[req[o].name]
    <3>1. o # r /\ req[o].name \in Ids /\ req[o].name \in Touched(o)
      BY <1>1, <2>1 DEF Touched, Uploading, TypeOK, Uploads
    <3>2. req[o].name \notin Touched(r)
      BY <2>1, <3>1 DEF SoleOwner
    <3>3. QED BY <1>6, <1>7, <2>1, <3>1, <3>2
  <2>2. ASSUME NEW o \in Requests PROVE todo'[o] \subseteq todo[o]
    BY <1>2 DEF TypeOK
  <2>3. QED BY <1>1, <2>1, <2>2 DEF Halfway, Uploading, TypeOK, NameOf
<1>9. RowHasFile'
  BY <1>1, <1>6, <1>7 DEF RowHasFile
<1> QED BY <1>3, <1>4, <1>5, <1>8, <1>9

LEMMA CrashInv == ASSUME IInv, Crash PROVE IInv'
<1> USE DEF Crash, Fault, IInv
<1>1. TypeOK'
  BY DEF TypeOK
<1>2. SoleOwner'
  BY OwnersShrink DEF Touched, Uploading, Removing, TypeOK
<1>3. NormalNames' /\ Halfway'
  BY DEF NormalNames, Halfway, Uploading, Removing, TypeOK
<1>4. RowHasFile'
  BY DEF RowHasFile
<1> QED BY <1>1, <1>2, <1>3, <1>4

-----------------------------------------------------------------------------

LEMMA BeginInv == ASSUME IInv, NEW r \in Requests, Begin(r) PROVE IInv'
<1>1. ASSUME NEW i \in Ids, NEW e \in Exts, NEW tagged \in BOOLEAN,
             ApiUpload(r, i, e, tagged) \/ AdminUpload(r, i, e, tagged)
      PROVE  IInv'
  BY <1>1, UploadInv, NameInIds DEF ApiUpload, AdminUpload
<1>2. ASSUME NEW i \in Ids, Delete(r, i) PROVE IInv'
  BY <1>2, RemoveInv, NameInIds DEF Delete
<1>3. ASSUME NEW winner \in Ids, NEW L \in SUBSET Ids, Merge(r, winner, L) PROVE IInv'
  BY <1>3, RemoveInv DEF Merge
<1> QED BY <1>1, <1>2, <1>3, UploadAutoInv DEF Begin

LEMMA NextInv == IInv /\ [Next]_vars => IInv'
<1> SUFFICES ASSUME IInv, [Next]_vars PROVE IInv'
  OBVIOUS
<1>1. ASSUME NEW r \in Requests, Continue(r) PROVE IInv'
  <2>1. CASE DeleteRow(r) \/ MergeCommit(r)
    BY <2>1, RemoveRowsInv DEF DeleteRow, MergeCommit
  <2>2. QED BY <1>1, <2>1, AssignIdInv, WriteFileInv, StoreRowInv, StoreFailsInv,
               StoreUnheardInv, CleanUpInv, RemoveFailsInv, RemoveUnheardInv, UnlinkInv DEF Continue
<1>2. CASE UNCHANGED vars
  BY <1>2 DEF vars, IInv, TypeOK, SoleOwner, NormalNames, Halfway, RowHasFile, Touched, Uploading, Removing
<1> QED BY <1>1, <1>2, CrashInv, BeginInv DEF Next

-----------------------------------------------------------------------------

\* The inductive invariant: unless an id has clashed, one request at a time is
\* busy with it, its file is there from the write of an upload until the row has
\* been removed, and in between the row decides.
THEOREM Invariance == Spec => []IInv
<1>1. QED BY InitInv, NextInv, PTL DEF Spec

\* A row that readers find has a file (uploadapi.go:289-304, admin.go:394-437):
\* the order of the two halves of an upload and of a removal keeps it so through
\* every crash and every failure but two, which are marked: the clean-up takes the
\* file of an image when its overwrite fails, and when its row was stored although
\* the statement returned an error (uploadapi.go:306-316).
THEOREM RowsHaveFiles == Spec => []RowHasFile
<1>1. IInv => RowHasFile
  BY DEF IInv
<1>2. QED BY <1>1, Invariance, PTL

\* The id of NextID is free when the row is stored (postgres.go:446-455): the
\* upload replaces no image, unless somebody else has taken the id meanwhile.
THEOREM FreshIdsAreFree == Spec => AutoIdReplacesNothing
<1>1. IInv /\ [Next]_vars =>
        [\A r \in Requests :
            (StoreRow(r) \/ StoreUnheard(r)) /\ req[r].auto /\ req[r].id \notin clashed
                => row[req[r].id] = None]_vars
  <2> SUFFICES ASSUME IInv, NEW r \in Requests, StoreRow(r) \/ StoreUnheard(r), req[r].auto, req[r].id \notin clashed
               PROVE  row[req[r].id] = None
    OBVIOUS
  <2>1. Uploading(r)
    BY DEF StoreRow, StoreUnheard, Goto, Uploading
  <2>2. QED BY <2>1 DEF IInv, Halfway
<1>2. QED BY <1>1, Invariance, PTL DEF Spec, AutoIdReplacesNothing

-----------------------------------------------------------------------------
(* Nothing is left behind: the inductive invariant.                          *)

Half == {"store", "cleanup", "unlink"}

\* A step of r that touches the row and the files of its own ids only.
Step(r) ==
    /\ clashed \subseteq clashed'
    /\ faults' = 0 => faults = 0
    /\ \A o \in Requests \ {r} : /\ pc'[o] = pc[o] /\ req'[o] = req[o]
                                 /\ target'[o] = target[o] /\ todo'[o] = todo[o]
    /\ \A i \in Ids \ clashed' : i \notin Touched(r) =>
         /\ row'[i] = row[i] /\ file'[i] = file[i]
         /\ i \in Touched(r)' => pc'[r] \notin Half
    /\ pc[r] \in {"cleanup", "done"} => req'[r] = req[r] /\ pc'[r] \in {pc[r], "done"}
    /\ Uploading(r)' => \/ Uploading(r) /\ req'[r].id = req[r].id
                        \/ req'[r].id \in clashed' \/ Normal[req'[r].id] = req'[r].id
    /\ \A i \in Ids : \/ row'[i] \in {row[i], None}
                      \/ row'[i] = r /\ i = req[r].id /\ (StoreRow(r) \/ StoreUnheard(r))

\* What others have done, and what nobody is busy with, stays as it is.
LEMMA Elsewhere ==
  ASSUME TidyInv, NEW r \in Requests, Step(r), faults' = 0,
         NEW i \in Ids, i \notin clashed', i \notin Touched(r)
  PROVE  Tidy(i)'
<1> USE DEF Step
<1>1. i \notin clashed /\ Tidy(i)
  BY DEF TidyInv, WholeInv
<1>2. row'[i] = row[i] /\ file'[i] = file[i]
  OBVIOUS
<1>3. \A o \in Requests \ {r} : Touched(o)' = Touched(o)
  BY DEF Touched, Uploading, Removing, NameOf
<1>4. Settled(i)' => Settled(i)
  BY <1>3 DEF Settled
<1>5. (Settled(i) => Whole(i))'
  BY <1>1, <1>2, <1>4 DEF Tidy, Whole
<1>6. \A o \in Requests : i \in Touched(o)' => HalfDone(o, i)'
  BY <1>1, <1>2, <1>3 DEF Tidy, HalfDone, Half
<1>7. \A o \in Requests : Settled(i)' /\ Given(o, i)' =>
                            \A e \in Exts : e # req'[o].ext => file'[i][e] = None
  <2>1. ASSUME NEW o \in Requests, Given(o, i)' PROVE Given(o, i) /\ req'[o] = req[o]
    BY <1>2, <2>1 DEF Given, TidyInv, GivenInv
  <2>2. QED BY <1>1, <1>2, <1>4, <2>1 DEF Tidy
<1> QED BY <1>5, <1>6, <1>7 DEF Tidy

\* Of an id that has not clashed a request is the only one to keep it from being whole.
LEMMA OwnTidy ==
  ASSUME TidyInv, NEW r \in Requests, Step(r), NEW i \in Ids, i \notin clashed', i \in Touched(r)
  PROVE  /\ \A o \in Requests \ {r} : i \notin Touched(o) /\ i \notin Touched(o)'
         /\ Settled(i) <=> pc[r] \notin Half
         /\ Settled(i)' <=> (pc'[r] \in Half => i \notin Touched(r)')
<1> USE DEF Step
<1>1. i \notin clashed
  OBVIOUS
<1>2. \A o \in Requests \ {r} : Touched(o)' = Touched(o)
  BY DEF Touched, Uploading, Removing, NameOf
<1>3. \A o \in Requests \ {r} : i \notin Touched(o)
  BY <1>1 DEF TidyInv, IInv, SoleOwner
<1> QED BY <1>2, <1>3 DEF Settled, Half

LEMMA GivenKept ==
  ASSUME TidyInv, NEW r \in Requests, Step(r)
  PROVE  GivenInv'
<1> USE DEF Step, StoreRow, StoreUnheard, Goto, TidyInv, GivenInv
<1>0. \A o \in Requests : o # None
  BY CatalogAssumption
<1>1. \A i \in Ids, o \in Requests : row'[i] = o =>
         row[i] = o \/ (o = r /\ i = req[r].id /\ (StoreRow(r) \/ StoreUnheard(r)))
  BY <1>0
<1>2. /\ StoreRow(r) => pc'[r] = "done"
      /\ StoreUnheard(r) => pc'[r] = "cleanup" /\ faults' # 0 /\ req[r].id \in clashed'
      /\ StoreRow(r) \/ StoreUnheard(r) => pc[r] = "store" /\ req' = req
  BY DEF IInv, TypeOK, Fault
<1>3. \A i \in Ids, o \in Requests :
         row'[i] = o => pc'[o] = "done" \/ (pc'[o] = "cleanup" /\ faults' # 0)
  <2> SUFFICES ASSUME NEW i \in Ids, NEW o \in Requests, row'[i] = o, pc'[o] # "done"
               PROVE  pc'[o] = "cleanup" /\ faults' # 0
    OBVIOUS
  <2>1. CASE row[i] = o
    BY <2>1
  <2>2. CASE row[i] # o
    BY <1>1, <1>2, <2>2
  <2> QED BY <2>1, <2>2
<1>4. \A o \in Requests : Uploading(o)' /\ req'[o].id \notin clashed' => Normal[req'[o].id] = req'[o].id
  BY DEF Uploading
<1>5. ASSUME NEW i \in Ids \ clashed', row'[i] # None PROVE Normal[i] = i
  <2>1. CASE i = req[r].id /\ (StoreRow(r) \/ StoreUnheard(r))
    BY <1>2, <1>5, <2>1 DEF Uploading
  <2>2. CASE row'[i] = row[i]
    BY <1>5, <2>2
  <2>3. QED BY <1>5, <2>1, <2>2
<1> QED BY <1>3, <1>4, <1>5

\* What is left to show of a step: that it does right by its own ids.
LEMMA TidyStep ==
  ASSUME TidyInv, IInv', NEW r \in Requests, Step(r),
         faults' = 0 => \A i \in Ids \ clashed' : i \in Touched(r) => Tidy(i)'
  PROVE  TidyInv'
<1>1. faults' = 0 => \A i \in Ids \ clashed' : Tidy(i)'
  BY Elsewhere DEF Step
<1> QED BY <1>1, GivenKept DEF TidyInv, WholeInv

LEMMA InitTidy == Init => TidyInv
<1> SUFFICES ASSUME Init PROVE WholeInv /\ GivenInv
  BY InitInv DEF TidyInv
<1> USE DEF Init
<1>1. PICK e \in [Ids -> Exts] : file = [i \in Ids |-> [x \in Exts |->
                                    IF x = e[i] THEN row[i] ELSE None]]
  OBVIOUS
<1>2. \A i \in Ids, o \in Requests : row[i] # o
  BY CatalogAssumption
<1>3. \A o \in Requests : Touched(o) = {} /\ ~Uploading(o)
  BY DEF Touched, Uploading, Removing
<1>4. \A i \in Ids : Whole(i)
  BY <1>1 DEF Whole
<1>5. \A i \in Ids : Tidy(i)
  BY <1>2, <1>3, <1>4 DEF Tidy, Given
<1> QED BY <1>2, <1>3, <1>5 DEF WholeInv, GivenInv, Given

LEMMA UploadTidy ==
  ASSUME TidyInv, NEW r \in Requests, NEW id \in Ids, NEW name \in {id, NameOf(id)}, NEW e \in Exts,
         NEW tagged \in BOOLEAN, Upload(r, id, name, e, tagged)
  PROVE  TidyInv'
<1> USE DEF Upload, Goto
<1>1. Touched(r) = {}
  BY DEF Touched, Uploading, Removing
<1>2. IInv /\ TypeOK
  BY DEF TidyInv, IInv
<1>3. Normal[id] # id => id \in clashed'
  BY DEF Clash
<1>4. Step(r)
  BY <1>2, <1>3 DEF Step, Half, TypeOK, Uploading
<1> QED BY <1>1, <1>2, <1>4, UploadInv, TidyStep

LEMMA UploadAutoTidy ==
  ASSUME TidyInv, NEW r \in Requests, NEW e \in Exts, NEW tagged \in BOOLEAN, UploadAuto(r, e, tagged)
  PROVE  TidyInv'
<1> USE DEF UploadAuto, Goto
<1>1. Touched(r) = {}
  BY DEF Touched, Uploading, Removing
<1>2. IInv /\ TypeOK
  BY DEF TidyInv, IInv
<1>3. Step(r)
  BY <1>2 DEF Step, Half, TypeOK, Uploading
<1> QED BY <1>1, <1>2, <1>3, UploadAutoInv, TidyStep

LEMMA AssignIdTidy == ASSUME TidyInv, NEW r \in Requests, AssignId(r) PROVE TidyInv'
<1> USE DEF Goto
<1>1. /\ pc[r] = "assign" /\ pc' = [pc EXCEPT ![r] = "write"]
      /\ UNCHANGED <<row, file, target, todo>>
  BY DEF AssignId
<1>2. \E n \in Numeric : req' = [req EXCEPT ![r] = [id |-> n, name |-> n, ext |-> @.ext,
                                                    tagged |-> @.tagged, auto |-> TRUE]]
  BY CatalogAssumption DEF AssignId
<1>3. clashed \subseteq clashed' /\ (faults' = 0 => faults = 0)
  BY DEF AssignId, Fault, TidyInv, IInv, TypeOK
<1>4. Touched(r) = {}
  BY <1>1 DEF Touched, Uploading, Removing
<1>5. IInv /\ TypeOK
  BY DEF TidyInv, IInv
<1>6. Normal[req'[r].id] = req'[r].id
  BY <1>2, <1>5, CatalogAssumption DEF TypeOK
<1>7. Step(r)
  BY <1>1, <1>2, <1>3, <1>5, <1>6 DEF Step, Half, TypeOK, Uploading
<1> QED BY <1>4, <1>5, <1>7, AssignIdInv, TidyStep

\* The first half of an upload: what was there is whole, so without a row there
\* is no file but the one that is written.
LEMMA WriteFileTidy == ASSUME TidyInv, NEW r \in Requests, WriteFile(r) PROVE TidyInv'
<1> USE DEF Goto
<1>1. IInv /\ TypeOK /\ r # None
  BY CatalogAssumption DEF TidyInv, IInv
<1>2. req[r].name \in Ids /\ req[r].ext \in Exts /\ req[r].name \in Touched(r)
  BY <1>1 DEF TypeOK, Uploads, Touched, Uploading, WriteFile
<1>3. /\ pc[r] = "write" /\ pc' \in {[pc EXCEPT ![r] = "store"], [pc EXCEPT ![r] = "done"]}
      /\ UNCHANGED <<row, req, target, todo, clashed>>
      /\ faults' = 0 => /\ faults = 0 /\ pc' = [pc EXCEPT ![r] = "store"]
                        /\ file' = [file EXCEPT ![req[r].name] = [@ EXCEPT ![req[r].ext] = r]]
  BY <1>1 DEF WriteFile, Fault, TypeOK
<1>4. \A i \in Ids : i # req[r].name => file'[i] = file[i]
  BY <1>1, <1>2 DEF WriteFile, TypeOK
<1>5. Touched(r)' \subseteq Touched(r)
  BY <1>1, <1>3 DEF Touched, Uploading, Removing, TypeOK
<1>6. Step(r)
  BY <1>1, <1>2, <1>3, <1>4, <1>5 DEF Step, TypeOK, Uploading
<1>7. ASSUME faults' = 0, NEW i \in Ids \ clashed', i \in Touched(r) PROVE Tidy(i)'
  <2>1. i = req[r].name
    BY <1>1, <1>3, <1>7 DEF IInv, NormalNames, Touched, Uploading, Removing
  <2>2. pc'[r] = "store" /\ Touched(r)' = Touched(r)
    BY <1>1, <1>3, <1>7 DEF TypeOK, Touched, Uploading, Removing
  <2>3. ~Settled(i)' /\ Settled(i) /\ \A o \in Requests : i \in Touched(o)' => o = r
    BY <1>3, <1>6, <1>7, <2>2, OwnTidy DEF Half
  <2>4. file'[i] = [file[i] EXCEPT ![req[r].ext] = r]
    BY <1>1, <1>2, <1>3, <1>7, <2>1 DEF TypeOK
  <2>5. Whole(i)
    BY <1>3, <1>7, <2>3 DEF TidyInv, WholeInv, Tidy
  <2>6. HalfDone(r, i)'
    BY <1>1, <1>2, <1>3, <2>2, <2>4, <2>5 DEF HalfDone, Whole, TypeOK
  <2> QED BY <2>3, <2>6 DEF Tidy
<1> QED BY <1>1, <1>6, <1>7, WriteFileInv, TidyStep

\* The second half: the row describes the file that was written, and where there
\* was no row there is no other.
LEMMA StoreRowTidy == ASSUME TidyInv, NEW r \in Requests, StoreRow(r) PROVE TidyInv'
<1>1. IInv /\ TypeOK /\ r # None
  BY CatalogAssumption DEF TidyInv, IInv
<1>2. /\ pc[r] = "store" /\ pc' = [pc EXCEPT ![r] = "done"]
      /\ row' = [row EXCEPT ![req[r].id] = r]
      /\ UNCHANGED <<file, req, target, todo, faults, clashed>>
  BY DEF StoreRow, Goto
<1>3. req[r].id \in Ids /\ req[r].ext \in Exts /\ req[r].id \in Touched(r) /\ Uploading(r)
  BY <1>1, <1>2 DEF TypeOK, Uploads, Touched, Uploading
<1>4. Touched(r)' = {}
  BY <1>1, <1>2 DEF Touched, Uploading, Removing, TypeOK
<1>5. Step(r)
  BY <1>1, <1>2, <1>3, <1>4 DEF Step, TypeOK, Uploading
<1>6. ASSUME faults' = 0, NEW i \in Ids \ clashed', i \in Touched(r) PROVE Tidy(i)'
  <2>1. i = req[r].id
    BY <1>1, <1>2, <1>6 DEF IInv, NormalNames, Touched, Uploading, Removing
  <2>2. \A o \in Requests : i \notin Touched(o)'
    BY <1>4, <1>5, <1>6, OwnTidy
  <2>3. file'[i][req[r].ext] = r /\ (row[i] = None => \A e \in Exts : e # req[r].ext => file'[i][e] = None)
    BY <1>2, <1>6, <2>1 DEF TidyInv, WholeInv, Tidy, HalfDone
  <2>4. row'[i] = r
    BY <1>1, <1>2, <1>3, <2>1 DEF TypeOK
  <2>5. Whole(i)'
    BY <1>1, <1>3, <2>3, <2>4 DEF Whole
  <2>6. ASSUME NEW o \in Requests, Given(o, i)' PROVE o = r /\ row[i] = None
    BY <1>1, <1>2, <1>3, <1>6, <2>1, <2>4, <2>6 DEF Given, IInv, Halfway
  <2> QED BY <1>2, <2>2, <2>3, <2>5, <2>6 DEF Tidy
<1> QED BY <1>1, <1>5, <1>6, StoreRowInv, TidyStep

LEMMA StoreFailsTidy == ASSUME TidyInv, NEW r \in Requests, StoreFails(r) PROVE TidyInv'
<1>1. IInv /\ TypeOK
  BY DEF TidyInv, IInv
<1>2. /\ pc[r] = "store" /\ pc' = [pc EXCEPT ![r] = "cleanup"]
      /\ clashed' = clashed \union {i \in {req[r].id, req[r].name} : row[i] # None}
      /\ UNCHANGED <<row, file, req, target, todo>>
      /\ faults' = 0 => faults = 0
  BY <1>1 DEF StoreFails, Goto, Fault, TypeOK
<1>3. Touched(r)' = {req[r].id, req[r].name} /\ Touched(r) = {req[r].id, req[r].name}
  BY <1>1, <1>2 DEF Touched, Uploading, Removing, TypeOK
<1>4. Step(r)
  BY <1>1, <1>2, <1>3 DEF Step, TypeOK, Uploading
<1>5. ASSUME faults' = 0, NEW i \in Ids \ clashed', i \in Touched(r) PROVE Tidy(i)'
  <2>1. row[i] = None /\ i \notin clashed
    BY <1>2, <1>3, <1>5
  <2>2. ~Settled(i)' /\ \A o \in Requests \ {r} : i \notin Touched(o)'
    BY <1>1, <1>2, <1>3, <1>4, <1>5, OwnTidy DEF Half, TypeOK
  <2>3. HalfDone(r, i)'
    BY <1>1, <1>2, <1>5, <2>1 DEF TidyInv, WholeInv, Tidy, HalfDone, TypeOK
  <2> QED BY <2>2, <2>3 DEF Tidy
<1> QED BY <1>1, <1>4, <1>5, StoreFailsInv, TidyStep

LEMMA CleanUpTidy == ASSUME TidyInv, NEW r \in Requests, CleanUp(r) PROVE TidyInv'
<1>1. IInv /\ TypeOK
  BY DEF TidyInv, IInv
<1>2. /\ pc[r] = "cleanup" /\ pc' = [pc EXCEPT ![r] = "done"]
      /\ UNCHANGED <<row, req, target, todo, clashed>>
      /\ faults' = 0 => /\ faults = 0
                        /\ file' = [file EXCEPT ![req[r].name] = [e \in Exts |->
                                      IF Sftp \/ e = req[r].ext THEN None ELSE @[e]]]
      /\ \A i \in Ids : i # req[r].name => file'[i] = file[i]
  BY <1>1 DEF CleanUp, Goto, Fault, TypeOK
<1>3. Touched(r)' = {} /\ Touched(r) = {req[r].id, req[r].name} /\ req[r].name \in Ids
  BY <1>1, <1>2 DEF Touched, Uploading, Removing, TypeOK, Uploads
<1>4. Step(r)
  BY <1>1, <1>2, <1>3 DEF Step, TypeOK, Uploading
<1>5. ASSUME faults' = 0, NEW i \in Ids \ clashed', i \in Touched(r) PROVE Tidy(i)'
  <2>1. i = req[r].name /\ i \notin clashed /\ faults = 0
    BY <1>1, <1>2, <1>5 DEF IInv, NormalNames, Touched, Uploading, Removing
  <2>2. row'[i] = None
    BY <1>1, <1>2, <2>1 DEF IInv, Halfway
  <2>3. \A o \in Requests : i \notin Touched(o)'
    BY <1>3, <1>4, <1>5, OwnTidy
  <2>4. \A e \in Exts : e # req[r].ext => file[i][e] = None
    BY <1>2, <1>3, <2>1, <2>2 DEF TidyInv, WholeInv, Tidy, HalfDone
  <2>5. \A e \in Exts : file'[i][e] = None
    BY <1>1, <1>2, <1>3, <1>5, <2>1, <2>4 DEF TypeOK
  <2>6. Whole(i)'
    BY <2>2, <2>5, CatalogAssumption DEF Whole
  <2> QED BY <2>3, <2>5, <2>6 DEF Tidy
<1> QED BY <1>1, <1>4, <1>5, CleanUpInv, TidyStep

LEMMA RemoveTidy ==
  ASSUME TidyInv, NEW r \in Requests, NEW to \in {"delete", "merge"}, NEW I \in SUBSET Ids, Remove(r, to, I)
  PROVE  TidyInv'
<1> USE DEF Remove, Goto
<1>1. Touched(r) = {} /\ clashed \subseteq clashed'
  BY DEF Touched, Uploading, Removing
<1>2. IInv /\ TypeOK
  BY DEF TidyInv, IInv
<1>3. Step(r)
  BY <1>1, <1>2 DEF Step, Half, TypeOK, Uploading
<1> QED BY <1>1, <1>2, <1>3, RemoveInv, TidyStep

\* The first half of a removal: every file the image may have is yet to go.
LEMMA RemoveRowsTidy ==
  ASSUME TidyInv, NEW r \in Requests, NEW from \in {"delete", "merge"}, Goto(r, from, "unlink"),
         RemoveRows(r)
  PROVE  TidyInv'
<1>1. IInv /\ TypeOK
  BY DEF TidyInv, IInv
<1>2. /\ pc[r] = from /\ pc' = [pc EXCEPT ![r] = "unlink"]
      /\ row' = [i \in Ids |-> IF i \in target[r] THEN None ELSE row[i]]
      /\ todo' = [todo EXCEPT ![r] = {NameOf(i) : i \in target[r]} \X Exts]
      /\ UNCHANGED <<file, req, target, faults, clashed>>
  BY DEF RemoveRows, RowsGone, Goto
<1>3. Touched(r)' = Touched(r) /\ target[r] \subseteq Touched(r) /\ target[r] \subseteq Ids
  BY <1>1, <1>2 DEF Touched, Uploading, Removing, TypeOK, NameOf
<1>4. Step(r)
  BY <1>1, <1>2, <1>3 DEF Step, TypeOK, Uploading
<1>5. ASSUME faults' = 0, NEW i \in Ids \ clashed', i \in Touched(r) PROVE Tidy(i)'
  <2>1. i \in target[r] /\ i = NameOf(i)
    BY <1>1, <1>2, <1>5 DEF IInv, NormalNames, Touched, Uploading, Removing
  <2>2. ~Settled(i)' /\ \A o \in Requests \ {r} : i \notin Touched(o)'
    BY <1>1, <1>2, <1>3, <1>4, <1>5, OwnTidy DEF Half, TypeOK
  <2>3. \A e \in Exts : <<i, e>> \in todo'[r]
    BY <1>1, <1>2, <2>1 DEF TypeOK
  <2>4. HalfDone(r, i)'
    BY <1>1, <1>2, <2>3 DEF HalfDone, TypeOK
  <2> QED BY <2>2, <2>4 DEF Tidy
<1> QED BY <1>1, <1>4, <1>5, RemoveRowsInv, TidyStep

LEMMA RemoveFailsTidy == ASSUME TidyInv, NEW r \in Requests, RemoveFails(r) PROVE TidyInv'
<1> USE DEF RemoveFails, Goto, Fault
<1>1. IInv /\ TypeOK
  BY DEF TidyInv, IInv
<1>2. faults' # 0
  BY <1>1 DEF TypeOK
<1>3. Touched(r)' = {}
  BY <1>1 DEF Touched, Uploading, Removing, TypeOK
<1>4. Step(r)
  BY <1>1, <1>2, <1>3 DEF Step, TypeOK, Uploading
<1> QED BY <1>1, <1>2, <1>4, RemoveFailsInv, TidyStep

\* A step that fails and touches the rows of its own ids only.
LEMMA FaultTidy ==
  ASSUME TidyInv, IInv', NEW r \in Requests, Step(r), Fault
  PROVE  TidyInv'
<1>1. faults' # 0
  BY DEF Fault, TidyInv, IInv, TypeOK
<1> QED BY <1>1, TidyStep

LEMMA StoreUnheardTidy == ASSUME TidyInv, NEW r \in Requests, StoreUnheard(r) PROVE TidyInv'
<1>1. IInv /\ TypeOK
  BY DEF TidyInv, IInv
<1>2. /\ pc[r] = "store" /\ pc' = [pc EXCEPT ![r] = "cleanup"]
      /\ row' = [row EXCEPT ![req[r].id] = r] /\ req[r].id \in Ids
      /\ clashed' = clashed \union {req[r].id, req[r].name}
      /\ UNCHANGED <<file, req, target, todo>>
      /\ Fault /\ faults' # 0
  BY <1>1 DEF StoreUnheard, Goto, Fault, TypeOK, Uploads
<1>3. Touched(r)' = Touched(r)
  BY <1>1, <1>2 DEF Touched, Uploading, Removing, TypeOK
<1>4. Step(r)
  BY <1>1, <1>2, <1>3 DEF Step, TypeOK, Uploading
<1> QED BY <1>1, <1>2, <1>4, StoreUnheardInv, FaultTidy

LEMMA RemoveUnheardTidy == ASSUME TidyInv, NEW r \in Requests, RemoveUnheard(r) PROVE TidyInv'
<1>1. IInv /\ TypeOK
  BY DEF TidyInv, IInv
<1>2. /\ pc[r] \in {"delete", "merge"} /\ pc' = [pc EXCEPT ![r] = "done"]
      /\ row' = [i \in Ids |-> IF i \in target[r] THEN None ELSE row[i]]
      /\ UNCHANGED <<file, req, target, todo, clashed>>
      /\ Fault /\ faults' # 0
  BY <1>1 DEF RemoveUnheard, RowsGone, Removing, Goto, Fault, TypeOK
<1>3. Touched(r)' = {} /\ target[r] \subseteq Touched(r)
  BY <1>1, <1>2 DEF Touched, Uploading, Removing, TypeOK
<1>4. Step(r)
  BY <1>1, <1>2, <1>3 DEF Step, TypeOK, Uploading
<1> QED BY <1>1, <1>2, <1>4, RemoveUnheardInv, FaultTidy

\* One file less to remove; when none is left, none is there.
LEMMA UnlinkTidy == ASSUME TidyInv, NEW r \in Requests, Unlink(r) PROVE TidyInv'
<1>1. IInv /\ TypeOK
  BY DEF TidyInv, IInv
<1>2. pc[r] = "unlink" /\ UNCHANGED <<row, req, target, clashed>>
  BY DEF Unlink
<1>3. ASSUME NEW j \in Ids, NEW e \in Exts, <<j, e>> \in todo[r],
             todo' = [todo EXCEPT ![r] = @ \ {<<j, e>>}], pc' = pc,
             \/ file' = [file EXCEPT ![j] = [@ EXCEPT ![e] = None]] /\ UNCHANGED faults
             \/ Fault /\ UNCHANGED file
      PROVE  TidyInv'
  <2>1. j \in clashed \/ j \in Touched(r)
    <3>1. PICK t \in target[r] : j = NameOf(t)
      BY <1>1, <1>2, <1>3 DEF IInv, Halfway
    <3>2. QED BY <1>2, <3>1 DEF Touched, Removing
  <2>2. faults' = 0 => /\ faults = 0
                       /\ file' = [file EXCEPT ![j] = [@ EXCEPT ![e] = None]]
    BY <1>1, <1>3 DEF Fault, TypeOK
  <2>3. \A i \in Ids : i # j => file'[i] = file[i]
    BY <1>1, <1>3 DEF TypeOK
  <2>4. Touched(r)' = Touched(r)
    BY <1>2, <1>3 DEF Touched, Uploading, Removing, NameOf
  <2>5. Step(r)
    BY <1>1, <1>2, <1>3, <2>1, <2>2, <2>3, <2>4 DEF Step, TypeOK, Uploading
  <2>6. ASSUME faults' = 0, NEW i \in Ids \ clashed', i \in Touched(r) PROVE Tidy(i)'
    <3>1. ~Settled(i)' /\ \A o \in Requests \ {r} : i \notin Touched(o)'
      BY <1>2, <1>3, <2>4, <2>5, <2>6, OwnTidy DEF Half
    <3>2. HalfDone(r, i)
      BY <1>2, <2>2, <2>6 DEF TidyInv, WholeInv, Tidy
    <3>3. todo'[r] = todo[r] \ {<<j, e>>}
      BY <1>1, <1>3 DEF TypeOK
    <3>4. \A x \in Exts : file'[i][x] # None => file[i][x] # None /\ <<i, x>> # <<j, e>>
      BY <1>1, <1>3, <2>2, <2>6 DEF TypeOK
    <3>5. HalfDone(r, i)'
      BY <1>2, <1>3, <3>2, <3>3, <3>4 DEF HalfDone
    <3> QED BY <3>1, <3>5 DEF Tidy
  <2> QED BY <1>1, <2>5, <2>6, UnlinkInv, TidyStep
<1>4. ASSUME todo[r] = {}, pc' = [pc EXCEPT ![r] = "done"], UNCHANGED <<file, todo, faults>>
      PROVE  TidyInv'
  <2>1. Touched(r)' = {}
    BY <1>1, <1>4 DEF Touched, Uploading, Removing, TypeOK
  <2>2. Step(r)
    BY <1>1, <1>2, <1>4, <2>1 DEF Step, TypeOK, Uploading
  <2>3. ASSUME faults' = 0, NEW i \in Ids \ clashed', i \in Touched(r) PROVE Tidy(i)'
    <3>1. \A o \in Requests : i \notin Touched(o)'
      BY <2>1, <2>2, <2>3, OwnTidy
    <3>2. \A e \in Exts : file'[i][e] = None
      BY <1>2, <1>4, <2>3 DEF TidyInv, WholeInv, Tidy, HalfDone
    <3>3. row'[i] = None
      BY <1>1, <1>2, <2>3 DEF IInv, NormalNames, Halfway, Touched, Uploading, Removing
    <3>4. Whole(i)'
      BY <3>2, <3>3, CatalogAssumption DEF Whole
    <3> QED BY <3>1, <3>2, <3>4 DEF Tidy
  <2> QED BY <1>1, <2>2, <2>3, UnlinkInv, TidyStep
<1> QED BY <1>2, <1>3, <1>4 DEF Unlink, Goto

LEMMA CrashTidy == ASSUME TidyInv, Crash PROVE TidyInv'
<1> USE DEF Crash, Fault
<1>1. IInv /\ TypeOK
  BY DEF TidyInv, IInv
<1>2. WholeInv'
  BY <1>1 DEF WholeInv, TypeOK
<1>3. GivenInv'
  BY <1>1 DEF TidyInv, GivenInv, Given, Uploading, TypeOK
<1> QED BY <1>1, <1>2, <1>3, CrashInv DEF TidyInv

LEMMA NextTidy == TidyInv /\ [Next]_vars => TidyInv'
<1> SUFFICES ASSUME TidyInv, [Next]_vars PROVE TidyInv'
  OBVIOUS
<1>1. ASSUME NEW r \in Requests, Begin(r) PROVE TidyInv'
  <2>1. ASSUME NEW i \in Ids, NEW e \in Exts, NEW tagged \in BOOLEAN,
               ApiUpload(r, i, e, tagged) \/ AdminUpload(r, i, e, tagged)
        PROVE  TidyInv'
    BY <2>1, UploadTidy, NameInIds DEF ApiUpload, AdminUpload
  <2>2. ASSUME NEW i \in Ids, Delete(r, i) PROVE TidyInv'
    BY <2>2, RemoveTidy, NameInIds DEF Delete
  <2>3. ASSUME NEW winner \in Ids, NEW L \in SUBSET Ids, Merge(r, winner, L) PROVE TidyInv'
    BY <2>3, RemoveTidy DEF Merge
  <2> QED BY <1>1, <2>1, <2>2, <2>3, UploadAutoTidy DEF Begin
<1>2. ASSUME NEW r \in Requests, Continue(r) PROVE TidyInv'
  <2>1. CASE DeleteRow(r) \/ MergeCommit(r)
    BY <2>1, RemoveRowsTidy DEF DeleteRow, MergeCommit
  <2>2. QED BY <1>2, <2>1, AssignIdTidy, WriteFileTidy, StoreRowTidy, StoreFailsTidy,
               StoreUnheardTidy, CleanUpTidy, RemoveFailsTidy, RemoveUnheardTidy, UnlinkTidy DEF Continue
<1>3. CASE UNCHANGED vars
  <2>1. IInv'
    BY <1>3, NextInv DEF TidyInv
  <2>2. \A i \in Ids : Tidy(i)' <=> Tidy(i)
    BY <1>3 DEF vars, Tidy, Settled, Whole, HalfDone, Given, Touched, Uploading, Removing, NameOf
  <2> QED BY <1>3, <2>1, <2>2 DEF vars, TidyInv, WholeInv, GivenInv, Given, Uploading
<1> QED BY <1>1, <1>2, <1>3, CrashTidy DEF Next

-----------------------------------------------------------------------------

\* Until something fails, an image nobody has disturbed is whole whenever no
\* request is between its two halves, and what a request in between has left to
\* do is all that is missing.
THEOREM Tidiness == Spec => []TidyInv
<1>1. QED BY InitTidy, NextTidy, PTL DEF Spec

LEMMA QuietIsTidy ==
  ASSUME TidyInv, NEW i \in Ids, Quiet(i)
  PROVE  Tidy(i) /\ Settled(i) /\ i \notin clashed
  BY DEF TidyInv, WholeInv, Quiet, Settled

\* Without failures nothing is left behind: the clean-up of an upload that could
\* not be stored (uploadapi.go:296-304) and the removals after a delete or a
\* merge (admin.go:394-437) leave no file without a row, and a row has the file
\* of the upload it describes.
THEOREM NoOrphans == Spec => []NothingLeftBehind
<1>1. TidyInv => NothingLeftBehind
  BY QuietIsTidy DEF NothingLeftBehind, Tidy, Whole
<1>2. QED BY <1>1, Tidiness, PTL

\* An upload that NextID has given its id is what readers get under it
\* (postgres.go:446-455, StoredExtension): the id was free, so there is no file
\* of another extension that readers would find before its own.
THEOREM GivenIdsServeTheirUpload == Spec => []AutoServesItself
<1>1. TidyInv => AutoServesItself
  <2> SUFFICES ASSUME TidyInv, NEW r \in Requests, req[r].auto, Quiet(req[r].id), row[req[r].id] = r
               PROVE  Served(req[r].id) = r
    BY DEF AutoServesItself
  <2> DEFINE i == req[r].id
  <2>1. i \in Ids /\ req[r].ext \in Exts /\ r # None
    BY CatalogAssumption DEF TidyInv, IInv, TypeOK, Uploads
  <2>2. Tidy(i) /\ Settled(i) /\ i \notin clashed
    BY <2>1, QuietIsTidy
  <2>3. Given(r, i)
    BY DEF Given
  <2>4. Normal[i] = i
    BY <2>1, <2>2 DEF TidyInv, GivenInv
  <2>5. \A e \in Exts : e # req[r].ext => file[i][e] = None
    BY <2>2, <2>3 DEF Tidy
  <2>6. file[i][req[r].ext] = r
    BY <2>1, <2>2, <2>5 DEF Tidy, Whole
  <2>7. First(file[i]) = r
    BY <2>1, <2>5, <2>6, FirstOfOne
  <2> QED BY <2>4, <2>7 DEF Served
<1>2. QED BY <1>1, Tidiness, PTL

-----------------------------------------------------------------------------
(* Rows and files implement ImageStore.                                      *)

meta == [i \in Ids |-> MetaOf(i)]
shown == [i \in Ids |-> ShownOf(i)]
half == [i \in Ids |-> HalfOf(i)]

\* Clients see no difference in image i.
Unseen(i) == MetaOf(i)' = MetaOf(i) /\ ShownOf(i)' = ShownOf(i) /\ HalfOf(i)' = HalfOf(i)

WritesRow(r, i) == pc[r] = "store" /\ req[r].id = i

\* Of an id that has not clashed they see the row, and, if there is one, the files
\* under the id and who is about to write the row.
LEMMA SeenImage ==
  ASSUME TidyInv, NEW i \in Ids, i \notin clashed
  PROVE  /\ MetaOf(i) = row[i]
         /\ row[i] = None => ShownOf(i) = None /\ HalfOf(i) = {}
         /\ row[i] # None => /\ ShownOf(i) = First(file[i])
                             /\ HalfOf(i) = {r \in Requests : WritesRow(r, i)}
                             /\ \E e \in Exts : file[i][e] # None
  BY DEF MetaOf, ShownOf, HalfOf, Served, WritesRow, TidyInv, GivenInv, IInv, RowHasFile

LEMMA UnseenImage ==
  ASSUME TidyInv, TidyInv', NEW i \in Ids, clashed \subseteq clashed',
         i \notin clashed => /\ i \notin clashed' /\ row'[i] = row[i]
                             /\ row[i] # None => /\ file'[i] = file[i]
                                                 /\ \A r \in Requests : WritesRow(r, i)' <=> WritesRow(r, i)
  PROVE  Unseen(i)
<1>1. CASE i \in clashed
  BY <1>1 DEF Unseen, MetaOf, ShownOf, HalfOf
<1>2. CASE i \notin clashed
  <2>1. i \notin clashed' /\ Normal' = Normal
    BY <1>2
  <2>2. ShownOf(i)' = IF row'[i] = None THEN None ELSE First(file'[i])
    BY <2>1 DEF ShownOf, Served, TidyInv, GivenInv
  <2>3. ShownOf(i) = IF row[i] = None THEN None ELSE First(file[i])
    BY <1>2, SeenImage
  <2>4. MetaOf(i)' = row'[i] /\ MetaOf(i) = row[i]
    BY <1>2, <2>1 DEF MetaOf
  <2>5. HalfOf(i)' = HalfOf(i)
    BY <1>2, <2>1 DEF HalfOf, WritesRow
  <2> QED BY <1>2, <2>2, <2>3, <2>4, <2>5 DEF Unseen
<1> QED BY <1>1, <1>2

\* Only the one that is busy with an id writes its row.
LEMMA OneWriter ==
  ASSUME IInv, NEW i \in Ids \ clashed, NEW r \in Requests, i \in Touched(r),
         NEW o \in Requests, WritesRow(o, i)
  PROVE  o = r
  BY DEF WritesRow, IInv, SoleOwner, Touched, Uploading

LEMMA ImagesInit == Init => Images!Init
<1> SUFFICES ASSUME Init PROVE Images!Init
  OBVIOUS
<1>1. TidyInv /\ clashed = {} /\ ~(faults # 0)
  BY InitTidy DEF Init
<1>2. ASSUME NEW i \in Ids PROVE MetaOf(i) \in {Old, None} /\ ShownOf(i) = MetaOf(i) /\ HalfOf(i) = {}
  <2>1. PICK e \in [Ids -> Exts] : file = [j \in Ids |-> [x \in Exts |->
                                      IF x = e[j] THEN row[j] ELSE None]]
    BY DEF Init
  <2>2. row[i] # None => First(file[i]) = row[i]
    <3>1. e[i] \in Exts /\ file[i][e[i]] = row[i] /\ \A x \in Exts : x # e[i] => file[i][x] = None
      BY <2>1
    <3> QED BY <3>1, FirstOfOne
  <2>3. HalfOf(i) = {}
    BY DEF HalfOf, Init
  <2> QED BY <1>1, <2>2, <2>3, SeenImage DEF Init
<1> QED BY <1>1, <1>2 DEF Images!Init

\* A step that clients see only what is lost of.
LEMMA LoseStep ==
  ASSUME TidyInv, clashed \subseteq clashed', clashed' \subseteq Ids, \A i \in Ids \ clashed' : Unseen(i),
         faults' = faults \/ Fault
  PROVE  Images!Lose(clashed')
<1>1. \A i \in clashed' : MetaOf(i)' = None /\ ShownOf(i)' = None /\ HalfOf(i)' = {}
  BY DEF MetaOf, ShownOf, HalfOf
<1>2. \A i \in Ids : /\ MetaOf(i)' = IF i \in clashed' THEN None ELSE MetaOf(i)
                     /\ ShownOf(i)' = IF i \in clashed' THEN None ELSE ShownOf(i)
                     /\ HalfOf(i)' = IF i \in clashed' THEN {} ELSE HalfOf(i)
  BY <1>1 DEF Unseen
<1>3. (faults' # 0) = TRUE \/ (faults # 0)' = (faults # 0)
  <2>1. faults' = faults \/ faults' # 0
    BY DEF Fault, TidyInv, IInv, TypeOK
  <2> QED BY <2>1
<1>4. clashed' = clashed \union clashed'
  OBVIOUS
<1> QED BY <1>2, <1>3, <1>4 DEF Images!Lose, Images!With

\* Requests begin, fail and clean up unseen, but for what is lost.
LEMMA UnseenStep ==
  ASSUME TidyInv, TidyInv', clashed \subseteq clashed', faults' = faults \/ Fault, NEW r \in Requests,
         row' = row, UNCHANGED file,
         \A o \in Requests \ {r} : pc'[o] = pc[o] /\ req'[o] = req[o],
         pc'[r] # "store",
         pc[r] = "store" => req[r].id \in clashed' \/ row[req[r].id] = None
  PROVE  Images!Lose(clashed')
<1>1. ASSUME NEW i \in Ids \ clashed' PROVE Unseen(i)
  <2>1. ASSUME row[i] # None, NEW o \in Requests PROVE WritesRow(o, i)' <=> WritesRow(o, i)
    BY <1>1, <2>1 DEF WritesRow
  <2> QED BY <1>1, <2>1, UnseenImage
<1> QED BY <1>1, LoseStep DEF TidyInv, IInv, TypeOK

LEMMA AssignUnseen ==
  ASSUME TidyInv, TidyInv', NEW r \in Requests, AssignId(r)
  PROVE  Images!Lose(clashed')
<1>1. /\ pc[r] = "assign" /\ pc' = [pc EXCEPT ![r] = "write"] /\ UNCHANGED <<row, file>>
      /\ \E n : req' = [req EXCEPT ![r] = [id |-> n, name |-> n, ext |-> @.ext,
                                            tagged |-> @.tagged, auto |-> TRUE]]
      /\ clashed \subseteq clashed'
      /\ faults' = faults \/ Fault
  BY DEF AssignId, Goto
<1>2. pc \in [Requests -> {"idle", "assign", "write", "store", "cleanup", "delete", "merge", "unlink", "done"}]
      /\ req \in [Requests -> Uploads]
  BY DEF TidyInv, IInv, TypeOK
<1>3. \A o \in Requests \ {r} : pc'[o] = pc[o] /\ req'[o] = req[o]
  BY <1>1, <1>2
<1>4. pc'[r] # "store" /\ pc[r] # "store"
  BY <1>1, <1>2
<1>5. row' = row /\ file' = file /\ clashed \subseteq clashed' /\ (faults' = faults \/ Fault)
  BY <1>1
<1> QED BY <1>3, <1>4, <1>5, UnseenStep

LEMMA BeginUnseen ==
  ASSUME TidyInv, TidyInv', NEW r \in Requests, Begin(r)
  PROVE  Images!Lose(clashed')
<1> USE DEF Goto, TidyInv, IInv, TypeOK
<1>1. ASSUME NEW id \in Ids, NEW name \in Ids, NEW e \in Exts, NEW tagged \in BOOLEAN,
             Upload(r, id, name, e, tagged)
      PROVE  Images!Lose(clashed')
  BY <1>1, UnseenStep DEF Upload
<1>2. ASSUME NEW e \in Exts, NEW tagged \in BOOLEAN, UploadAuto(r, e, tagged)
      PROVE  Images!Lose(clashed')
  BY <1>2, UnseenStep DEF UploadAuto
<1>3. ASSUME NEW to \in {"delete", "merge"}, NEW I \in SUBSET Ids, Remove(r, to, I)
      PROVE  Images!Lose(clashed')
  BY <1>3, UnseenStep DEF Remove
<1>4. ASSUME NEW i \in Ids, NEW e \in Exts, NEW tagged \in BOOLEAN,
             ApiUpload(r, i, e, tagged) \/ AdminUpload(r, i, e, tagged)
      PROVE  Images!Lose(clashed')
  BY <1>1, <1>4, NameInIds DEF ApiUpload, AdminUpload
<1>5. ASSUME NEW i \in Ids, Delete(r, i) PROVE Images!Lose(clashed')
  BY <1>3, <1>5, NameInIds DEF Delete
<1>6. ASSUME NEW winner \in Ids, NEW L \in SUBSET Ids, Merge(r, winner, L) PROVE Images!Lose(clashed')
  BY <1>3, <1>6 DEF Merge
<1> QED BY <1>2, <1>4, <1>5, <1>6 DEF Begin

\* What is written under the id of an image replaces it, from then on or, if the
\* write has failed, perhaps; under another id nobody sees it yet.
LEMMA WriteFileSeen ==
  ASSUME TidyInv, TidyInv', NEW r \in Requests, WriteFile(r)
  PROVE  [Images!Next]_Images!vars
<1> DEFINE n == req[r].name
           written == [file EXCEPT ![n] = [@ EXCEPT ![req[r].ext] = r]]
           Goal == [Images!Next]_Images!vars
<1>1. IInv /\ TypeOK /\ IInv'
  BY DEF TidyInv, IInv
<1>2. n \in Ids /\ req[r].ext \in Exts /\ n \in Touched(r) /\ pc[r] = "write"
  BY <1>1 DEF TypeOK, Uploads, Touched, Uploading, WriteFile, Goto
<1>3. /\ UNCHANGED <<row, req, clashed>> /\ (faults' = faults \/ Fault)
      /\ \A o \in Requests \ {r} : pc'[o] = pc[o]
      /\ \A i \in Ids \ {n} : file'[i] = file[i]
  BY <1>1, <1>2 DEF WriteFile, Goto, TypeOK
<1>4. n \notin clashed => req[r].id = n
  BY <1>1, <1>2 DEF IInv, NormalNames, Uploading
<1>5. n \in clashed => req[r].id \in clashed
  BY <1>1, <1>2 DEF IInv, NormalNames, Uploading
<1>6. ASSUME NEW i \in Ids, i # n \/ n \in clashed \/ row[n] = None PROVE Unseen(i)
  <2>1. ASSUME i \notin clashed, NEW o \in Requests, row[i] # None PROVE WritesRow(o, i)' <=> WritesRow(o, i)
    BY <1>2, <1>3, <1>4, <1>5, <1>6, <2>1 DEF WritesRow
  <2> QED BY <1>3, <1>6, <2>1, UnseenImage
<1>7. CASE n \in clashed \/ row[n] = None
  BY <1>1, <1>3, <1>6, <1>7, LoseStep DEF Images!Next, TypeOK
<1>8. CASE n \notin clashed /\ row[n] # None
  <2>1. \A o \in Requests : ~WritesRow(o, n)
    BY <1>1, <1>2, <1>8, OneWriter DEF WritesRow
  <2>2. HalfOf(n) = {} /\ MetaOf(n) # None /\ ShownOf(n) = First(file[n])
    BY <1>2, <1>8, <2>1, SeenImage
  <2>3. MetaOf(n)' = MetaOf(n)
    BY <1>3 DEF MetaOf
  <2>4. ShownOf(n)' = First(file'[n]) /\ HalfOf(n)' = {o \in Requests : WritesRow(o, n)'}
    BY <1>2, <1>3, <1>8 DEF ShownOf, HalfOf, Served, WritesRow, TidyInv, GivenInv
  <2>5. First(written[n]) \in {r, First(file[n])}
    <3>1. file[n] \in [Exts -> Contents] /\ \E e \in Exts : file[n][e] # None
      BY <1>1, <1>2, <1>8 DEF TypeOK, IInv, RowHasFile
    <3>2. written[n] = [file[n] EXCEPT ![req[r].ext] = r]
      BY <1>1, <1>2 DEF TypeOK
    <3> QED BY <1>2, <3>1, <3>2, FirstOfMore
  <2>6. CASE pc' = [pc EXCEPT ![r] = "store"] /\ file' = written /\ UNCHANGED faults
    <3>1. HalfOf(n)' = {r}
      BY <1>1, <1>3, <1>4, <1>8, <2>1, <2>4, <2>6 DEF WritesRow, TypeOK
    <3>2. ShownOf(n)' \in {r, ShownOf(n)}
      BY <2>2, <2>4, <2>5, <2>6
    <3>3. Images!Replace(r, n)
      BY <1>2, <1>3, <1>6, <2>2, <2>3, <2>6, <3>1, <3>2 DEF Images!Replace, Images!With, Unseen
    <3> QED BY <1>2, <3>3 DEF Images!Next
  <2>7. CASE pc' = [pc EXCEPT ![r] = "done"] /\ file' \in {file, written} /\ Fault
    <3>1. HalfOf(n)' = HalfOf(n)
      BY <1>1, <1>3, <2>1, <2>2, <2>4, <2>7 DEF WritesRow, TypeOK
    <3>2. CASE ShownOf(n)' = ShownOf(n)
      <4>1. Unseen(n)
        BY <2>3, <3>1, <3>2 DEF Unseen
      <4>2. ASSUME NEW i \in Ids PROVE Unseen(i)
        BY <1>6, <4>1
      <4> QED BY <1>1, <1>3, <4>2, LoseStep DEF Images!Next, TypeOK
    <3>3. CASE ShownOf(n)' = r
      <4>1. (faults # 0)' = TRUE
        BY <1>1, <2>7 DEF Fault, TypeOK
      <4>2. Images!FailReplacing(r, n)
        BY <1>2, <1>3, <1>6, <2>2, <2>3, <3>1, <3>3, <4>1 DEF Images!FailReplacing, Images!With, Unseen
      <4> QED BY <1>2, <4>2 DEF Images!Next
    <3> QED BY <2>2, <2>4, <2>5, <2>7, <3>2, <3>3
  <2> QED BY <2>6, <2>7 DEF WriteFile, Goto
<1> QED BY <1>7, <1>8


\* A row that is stored is a new image with the contents of its upload, or describes
\* what has replaced those of an image.
LEMMA StoreRowSeen ==
  ASSUME TidyInv, TidyInv', NEW r \in Requests, StoreRow(r)
  PROVE  [Images!Next]_Images!vars
<1> DEFINE n == req[r].id
           e == req[r].ext
<1>1. IInv /\ TypeOK
  BY DEF TidyInv, IInv
<1>2. /\ n \in Ids /\ e \in Exts /\ n \in Touched(r)
      /\ pc[r] = "store" /\ pc' = [pc EXCEPT ![r] = "done"]
      /\ r # None /\ UNCHANGED <<file, req, faults, clashed>>
  BY <1>1, CatalogAssumption DEF TypeOK, Uploads, Touched, Uploading, StoreRow, Goto
<1>3. row'[n] = r /\ \A i \in Ids \ {n} : row'[i] = row[i]
  BY <1>1, <1>2 DEF StoreRow, TypeOK
<1>4. \A o \in Requests : pc'[o] = IF o = r THEN "done" ELSE pc[o]
  BY <1>1, <1>2 DEF TypeOK
<1>5. ASSUME NEW i \in Ids, i # n \/ n \in clashed PROVE Unseen(i)
  <2>1. CASE i # n
    <3>1. ASSUME NEW o \in Requests PROVE WritesRow(o, i)' <=> WritesRow(o, i)
      BY <1>2, <1>4, <2>1 DEF WritesRow
    <3> QED BY <1>2, <1>3, <2>1, <3>1, UnseenImage
  <2>2. CASE i = n /\ n \in clashed
    BY <1>2, <2>2, UnseenImage
  <2> QED BY <1>5, <2>1, <2>2
<1>6. CASE n \in clashed
  <2>1. Images!Lose(clashed')
    BY <1>1, <1>2, <1>5, <1>6, LoseStep DEF TypeOK
  <2> QED BY <1>1, <1>2, <2>1 DEF Images!Next, TypeOK
<1>7. CASE n \notin clashed
  <2>1. WritesRow(r, n) /\ \A o \in Requests : WritesRow(o, n) => o = r
    BY <1>1, <1>2, <1>7, OneWriter DEF WritesRow
  <2>2. MetaOf(n)' = r /\ ShownOf(n)' = First(file[n]) /\ HalfOf(n)' = {}
    <3>1. \A o \in Requests : ~WritesRow(o, n)'
      BY <1>2, <1>4, <2>1 DEF WritesRow
    <3> QED BY <1>2, <1>3, <1>7, <3>1 DEF MetaOf, ShownOf, HalfOf, Served, WritesRow, TidyInv, GivenInv
  <2>3. CASE row[n] = None
    <3>1. req[r].name = n
      BY <1>1, <1>2, <1>7 DEF IInv, NormalNames, Uploading
    <3>2. First(file[n]) \in IF faults # 0 THEN Requests \union {Old} ELSE {r}
      <4>1. CASE faults # 0
        <5>1. file[n][e] # None
          BY <1>1, <1>2, <1>7, <3>1 DEF IInv, Halfway
        <5>2. PICK x \in Exts : First(file[n]) = file[n][x] /\ file[n][x] # None
          BY <1>2, <5>1, FirstOfSome
        <5> QED BY <1>1, <1>2, <4>1, <5>2 DEF TypeOK, Contents
      <4>2. CASE faults = 0
        <5>1. HalfDone(r, n)
          BY <1>2, <1>7, <4>2 DEF TidyInv, WholeInv, Tidy
        <5>2. file[n][e] = r /\ \A x \in Exts : x # e => file[n][x] = None
          BY <1>2, <2>3, <5>1 DEF HalfDone
        <5> QED BY <1>2, <4>2, <5>2, FirstOfOne
      <4> QED BY <4>1, <4>2
    <3>3. MetaOf(n) = None /\ HalfOf(n) = {}
      BY <1>2, <1>7, <2>3, SeenImage
    <3>4. Images!Add(r, n)
      BY <1>2, <1>5, <1>7, <2>2, <3>2, <3>3 DEF Images!Add, Images!With, Unseen
    <3> QED BY <1>2, <3>4 DEF Images!Next
  <2>4. CASE row[n] # None
    <3>1. HalfOf(n) = {r} /\ ShownOf(n) = First(file[n])
      BY <1>2, <1>7, <2>1, <2>4, SeenImage
    <3>2. Images!Describe(r, n)
      BY <1>2, <1>5, <2>2, <3>1 DEF Images!Describe, Images!With, Unseen
    <3> QED BY <1>2, <3>2 DEF Images!Next
  <2> QED BY <2>3, <2>4
<1> QED BY <1>6, <1>7

\* An upload that fails loses the image it has written over, and nothing else that
\* clients see.
LEMMA StoreFailsUnseen ==
  ASSUME TidyInv, TidyInv', NEW r \in Requests, StoreFails(r)
  PROVE  Images!Lose(clashed')
<1>1. IInv /\ TypeOK
  BY DEF TidyInv, IInv
<1>2. /\ UNCHANGED <<row, file, req>> /\ (faults' = faults \/ Fault)
      /\ pc' = [pc EXCEPT ![r] = "cleanup"]
      /\ clashed \subseteq clashed'
      /\ req[r].id \in clashed' \/ row[req[r].id] = None
  BY DEF StoreFails, Goto
<1>3. pc'[r] = "cleanup" /\ \A o \in Requests \ {r} : pc'[o] = pc[o] /\ req'[o] = req[o]
  BY <1>1, <1>2 DEF TypeOK
<1> QED BY <1>2, <1>3, UnseenStep

\* Nothing is promised of an image whose upload has got no answer.
LEMMA StoreUnheardUnseen ==
  ASSUME TidyInv, TidyInv', NEW r \in Requests, StoreUnheard(r)
  PROVE  Images!Lose(clashed')
<1>1. IInv /\ TypeOK
  BY DEF TidyInv, IInv
<1>2. /\ UNCHANGED <<file, req>> /\ Fault
      /\ pc[r] = "store" /\ pc' = [pc EXCEPT ![r] = "cleanup"]
      /\ clashed \subseteq clashed' /\ req[r].id \in clashed'
      /\ \A i \in Ids \ clashed' : row'[i] = row[i]
  BY <1>1 DEF StoreUnheard, Goto, TypeOK
<1>3. ASSUME NEW i \in Ids \ clashed' PROVE Unseen(i)
  <2>1. ASSUME NEW o \in Requests PROVE WritesRow(o, i)' <=> WritesRow(o, i)
    BY <1>1, <1>2, <1>3, <2>1 DEF WritesRow, TypeOK
  <2> QED BY <1>2, <1>3, <2>1, UnseenImage
<1> QED BY <1>2, <1>3, LoseStep DEF TidyInv, IInv, TypeOK

\* The file that is cleaned up is not that of an image.
LEMMA CleanUpUnseen ==
  ASSUME TidyInv, TidyInv', NEW r \in Requests, CleanUp(r)
  PROVE  Images!Lose(clashed')
<1> DEFINE n == req[r].name
<1>1. IInv /\ TypeOK
  BY DEF TidyInv, IInv
<1>2. /\ n \in Ids /\ pc[r] = "cleanup" /\ pc' = [pc EXCEPT ![r] = "done"]
      /\ UNCHANGED <<row, req, clashed>> /\ (faults' = faults \/ Fault)
      /\ \A i \in Ids \ {n} : file'[i] = file[i]
  BY <1>1 DEF CleanUp, Goto, TypeOK, Uploads
<1>3. n \notin clashed => row[n] = None
  BY <1>1, <1>2 DEF IInv, Halfway
<1>4. \A o \in Requests : pc'[o] = IF o = r THEN "done" ELSE pc[o]
  BY <1>1, <1>2 DEF TypeOK
<1>5. ASSUME NEW i \in Ids PROVE Unseen(i)
  <2>1. ASSUME NEW o \in Requests PROVE WritesRow(o, i)' <=> WritesRow(o, i)
    BY <1>2, <1>4 DEF WritesRow
  <2> QED BY <1>2, <1>3, <2>1, UnseenImage
<1> QED BY <1>1, <1>2, <1>5, LoseStep DEF TypeOK

-----------------------------------------------------------------------------
(* Removals and crashes, as clients see them.                                *)

\* The rows of a delete or a merge go at once, and nobody is between the halves of
\* an overwrite of one of them.
LEMMA RowsGoneSeen ==
  ASSUME TidyInv, TidyInv', NEW r \in Requests, pc[r] \in {"delete", "merge"},
         NEW to \in {"unlink", "done"}, pc' = [pc EXCEPT ![r] = to],
         RowsGone(r), UNCHANGED <<file, req, clashed>>, faults' = faults \/ Fault
  PROVE  [Images!Next]_Images!vars
<1> DEFINE I == target[r] \ clashed
<1>1. IInv /\ TypeOK
  BY DEF TidyInv, IInv
<1>2. row' = [i \in Ids |-> IF i \in target[r] THEN None ELSE row[i]]
  BY DEF RowsGone
<1>0. (faults' # 0) = TRUE \/ (faults # 0)' = (faults # 0)
  <2>1. faults' = faults \/ faults' # 0
    BY <1>1 DEF Fault, TypeOK
  <2> QED BY <2>1
<1>3. target[r] \in SUBSET Ids /\ \A o \in Requests : pc'[o] = IF o = r THEN to ELSE pc[o]
  BY <1>1, <1>2 DEF TypeOK
<1>4. ASSUME NEW i \in Ids, i \notin I PROVE Unseen(i)
  <2>1. ASSUME NEW o \in Requests PROVE WritesRow(o, i)' <=> WritesRow(o, i)
    BY <1>2, <1>3 DEF WritesRow
  <2> QED BY <1>2, <1>4, <2>1, UnseenImage
<1>5. ASSUME NEW i \in I
      PROVE  /\ i \notin clashed /\ HalfOf(i) = {}
             /\ MetaOf(i)' = None /\ ShownOf(i)' = None /\ HalfOf(i)' = {}
  <2>1. i \in Ids \ clashed /\ i \in Touched(r)
    BY <1>2, <1>3 DEF Touched, Removing
  <2>2. \A o \in Requests : ~WritesRow(o, i)
    BY <1>1, <1>2, <2>1, OneWriter DEF WritesRow
  <2>3. HalfOf(i) = {}
    BY <2>2 DEF HalfOf, WritesRow
  <2> QED BY <1>2, <2>1, <2>3 DEF MetaOf, ShownOf, HalfOf
<1>6. Images!Remove(I)
  BY <1>0, <1>2, <1>3, <1>4, <1>5 DEF Images!Remove, Images!With, Unseen
<1> QED BY <1>3, <1>6 DEF Images!Next

LEMMA RemoveRowsSeen ==
  ASSUME TidyInv, TidyInv', NEW r \in Requests,
         DeleteRow(r) \/ MergeCommit(r) \/ RemoveUnheard(r)
  PROVE  [Images!Next]_Images!vars
<1>1. CASE DeleteRow(r) \/ MergeCommit(r)
  BY <1>1, RowsGoneSeen DEF DeleteRow, MergeCommit, RemoveRows, Goto
<1>2. CASE RemoveUnheard(r)
  <2>1. pc[r] \in {"delete", "merge"}
    BY <1>2 DEF RemoveUnheard, Removing
  <2> QED BY <1>2, <2>1, RowsGoneSeen DEF RemoveUnheard, Goto
<1> QED BY <1>1, <1>2

LEMMA RemoveFailsUnseen ==
  ASSUME TidyInv, TidyInv', NEW r \in Requests, RemoveFails(r)
  PROVE  Images!Lose(clashed')
<1>1. IInv /\ TypeOK
  BY DEF TidyInv, IInv
<1>2. /\ UNCHANGED <<row, file, req, clashed>> /\ (faults' = faults \/ Fault)
      /\ pc[r] # "store" /\ pc' = [pc EXCEPT ![r] = "done"]
  BY DEF RemoveFails, Goto, Removing
<1>3. pc'[r] = "done" /\ \A o \in Requests \ {r} : pc'[o] = pc[o] /\ req'[o] = req[o]
  BY <1>1, <1>2 DEF TypeOK
<1> QED BY <1>2, <1>3, UnseenStep


\* A file that is removed is not that of an image, as the row has gone before it.
LEMMA UnlinkUnseen ==
  ASSUME TidyInv, TidyInv', NEW r \in Requests, Unlink(r)
  PROVE  Images!Lose(clashed')
<1>1. IInv /\ TypeOK
  BY DEF TidyInv, IInv
<1>2. /\ pc[r] = "unlink" /\ pc' \in {pc, [pc EXCEPT ![r] = "done"]}
      /\ UNCHANGED <<row, req, clashed>>
  BY DEF Unlink, Goto
<1>3. faults' = faults \/ Fault
  BY Zenon DEF Unlink
<1>4. \A o \in Requests : (pc'[o] = "store") <=> (pc[o] = "store")
  BY <1>1, <1>2 DEF TypeOK
<1>5. ASSUME NEW i \in Ids, i \notin clashed, file'[i] # file[i] PROVE row[i] = None
  <2>1. \E e \in Exts : <<i, e>> \in todo[r]
    BY <1>1, <1>5 DEF Unlink, TypeOK
  <2>2. PICK t \in target[r] : i = NameOf(t)
    BY <1>1, <1>2, <2>1 DEF IInv, Halfway
  <2>3. t = NameOf(t)
    BY <1>1, <1>2, <1>5, <2>2 DEF IInv, NormalNames, Removing
  <2> QED BY <1>1, <1>2, <1>5, <2>2, <2>3 DEF IInv, Halfway
<1>6. ASSUME NEW i \in Ids PROVE Unseen(i)
  <2>1. ASSUME NEW o \in Requests PROVE WritesRow(o, i)' <=> WritesRow(o, i)
    BY <1>2, <1>4 DEF WritesRow
  <2> QED BY <1>2, <1>5, <2>1, UnseenImage
<1> QED BY <1>1, <1>2, <1>3, <1>6, LoseStep DEF TypeOK

\* A crash leaves every image as it is, but for the uploads that will not describe
\* what they have replaced.
LEMMA CrashSeen == ASSUME TidyInv, Crash PROVE Images!Fail(Ids)
<1>1. TypeOK
  BY DEF TidyInv, IInv
<1>2. ASSUME NEW i \in Ids
      PROVE  MetaOf(i)' = MetaOf(i) /\ ShownOf(i)' = ShownOf(i) /\ HalfOf(i)' = {}
  BY <1>1 DEF MetaOf, ShownOf, HalfOf, Served, Crash, TypeOK
<1>3. (faults # 0)' = TRUE /\ clashed' = clashed
  BY <1>1 DEF Crash, Fault, TypeOK
<1> QED BY <1>2, <1>3 DEF Images!Fail, Images!With

LEMMA NextSeen ==
  ASSUME TidyInv, TidyInv', [Next]_vars
  PROVE  [Images!Next]_Images!vars
<1>1. clashed' \in SUBSET Ids
  BY DEF TidyInv, IInv, TypeOK
<1>2. ASSUME Images!Lose(clashed') PROVE [Images!Next]_Images!vars
  BY <1>1, <1>2 DEF Images!Next
<1>3. CASE Crash
  BY <1>3, CrashSeen DEF Images!Next
<1>4. ASSUME NEW r \in Requests, Begin(r) PROVE [Images!Next]_Images!vars
  BY <1>2, <1>4, BeginUnseen
<1>5. ASSUME NEW r \in Requests, Continue(r) PROVE [Images!Next]_Images!vars
  <2>1. CASE \/ AssignId(r) \/ StoreFails(r) \/ StoreUnheard(r) \/ CleanUp(r)
             \/ RemoveFails(r) \/ Unlink(r)
    BY <1>2, <2>1, AssignUnseen, StoreFailsUnseen, StoreUnheardUnseen, CleanUpUnseen,
       RemoveFailsUnseen, UnlinkUnseen
  <2>2. CASE WriteFile(r)
    BY <2>2, WriteFileSeen
  <2>3. CASE StoreRow(r)
    BY <2>3, StoreRowSeen
  <2>4. CASE DeleteRow(r) \/ MergeCommit(r) \/ RemoveUnheard(r)
    BY <2>4, RemoveRowsSeen
  <2> QED BY <1>5, <2>1, <2>2, <2>3, <2>4 DEF Continue
<1>6. CASE UNCHANGED vars
  BY <1>6 DEF vars, MetaOf, ShownOf, HalfOf, Served, Images!vars
<1> QED BY <1>3, <1>4, <1>5, <1>6 DEF Next

\* The catalog implements ImageStore, whatever steps fail and wherever the process
\* dies, for every image that no clash and no clean-up has hit: clients see a new image with the contents that were uploaded with it from
\* the moment its row is stored (uploadapi.go:296-311, postgres.go:446-455), none of a
\* deleted or merged one from the moment its row is gone (admin.go:394-437), and of
\* an overwrite first the contents and then the description, with nobody in between.
THEOREM CatalogImplementsImageStore == Spec => StoresImages
<1>1. QED BY InitTidy, ImagesInit, NextTidy, NextSeen, PTL DEF Spec, StoresImages, Images!Spec
=============================================================================
