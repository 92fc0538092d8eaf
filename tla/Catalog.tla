------------------------------- MODULE Catalog -------------------------------
(***************************************************************************)
(* An image of the catalog is a row of the images table and a file in      *)
(* storage, under the image's id and the extension of its format. Nothing  *)
(* ties the two together: uploads (uploadapi.go, admin.go) write the file  *)
(* first and the row after it, deletes and merges (admin.go) remove the    *)
(* row first and the files after it, and every step may fail or be the     *)
(* last one before the process dies.                                       *)
(*                                                                         *)
(* Ids are numbers. Contents are named by the request that brought them.   *)
(***************************************************************************)
EXTENDS Integers, FiniteSets

CONSTANTS Requests,  (* upload, delete and merge requests                        *)
          Ids,       (* the ids in use                                           *)
          Numeric,   (* those that are all digits                                *)
          Top,       (* the largest id PostgreSQL casts to integer               *)
          Normal,    (* Normal[i]: i without a known extension                   *)
          Exts,      (* extensions, numbered in the order readers try them       *)
          Sftp,      (* TRUE: files live on an SFTP server, FALSE: in a directory *)
          MaxFaults, (* bound: failed steps and crashes that are looked at       *)
          Old, None  (* contents from before; no row, no file                    *)

ASSUME CatalogAssumption ==
    /\ Ids \subseteq Nat /\ Numeric \subseteq Ids /\ 1 \in Numeric
    /\ Normal \in [Ids -> Ids] /\ \A i \in Numeric : Normal[i] = i
    /\ Exts \subseteq Nat /\ Exts # {}
    /\ Sftp \in BOOLEAN /\ Top \in Nat /\ MaxFaults \in Nat
    /\ Old \notin Requests /\ None \notin Requests \union {Old}

VARIABLES
    row,     \* row[i]: whose contents the row of id i describes
    file,    \* file[i][e]: whose contents the file of id i with extension e has
    pc,      \* pc[r]: the next step of request r
    req,     \* req[r]: the upload r is: id of its row, name and ext of its file
    target,  \* target[r]: the ids whose images r removes
    todo,    \* todo[r]: the files r has yet to remove
    faults   \* failed steps and crashes so far

\* History, read by the properties only.
VARIABLES
    clashed  \* ids that two requests were busy with at the same time, or that
             \* one of the events named at their place in this module has hit

vars == <<row, file, pc, req, target, todo, faults, clashed>>

Contents == Requests \union {Old, None}
Uploads == [id : Ids, name : Ids, ext : Exts, tagged : BOOLEAN, auto : BOOLEAN]

TypeOK ==
    /\ row \in [Ids -> Contents] /\ file \in [Ids -> [Exts -> Contents]]
    /\ pc \in [Requests -> {"idle", "assign", "write", "store", "cleanup",
                            "delete", "merge", "unlink", "done"}]
    /\ req \in [Requests -> Uploads]
    /\ target \in [Requests -> SUBSET Ids]
    /\ todo \in [Requests -> SUBSET (Ids \X Exts)]
    /\ faults \in Nat
    /\ clashed \in SUBSET Ids

\* A catalog of whole images under normal ids.
Init ==
    /\ row \in [Ids -> {Old, None}]
    /\ \A i \in Ids : row[i] = Old => Normal[i] = i
    /\ \E e \in [Ids -> Exts] : file = [i \in Ids |-> [x \in Exts |->
                                    IF x = e[i] THEN row[i] ELSE None]]
    /\ pc = [r \in Requests |-> "idle"]
    /\ req = [r \in Requests |-> CHOOSE u \in Uploads : TRUE]
    /\ target = [r \in Requests |-> {}]
    /\ todo = [r \in Requests |-> {}]
    /\ faults = 0
    /\ clashed = {}

-----------------------------------------------------------------------------
(* Requests and what they are busy with.                                     *)

\* Of an id's files readers take that with the first extension.
First(files) ==
    LET found == {e \in Exts : files[e] # None}
    IN  IF found = {} THEN None ELSE files[CHOOSE e \in found : \A x \in found : e <= x]

\* Get of both storages and StoredExtension.
Served(i) == First(file[Normal[i]])

\* The name an admin's id has in storage: only the SFTP provider normalises it.
NameOf(i) == IF Sftp THEN Normal[i] ELSE i

Uploading(r) == pc[r] \in {"write", "store", "cleanup"}
Removing(r) == pc[r] \in {"delete", "merge", "unlink"}

Touched(r) == (IF Uploading(r) THEN {req[r].id, req[r].name} ELSE {})
              \union (IF Removing(r) THEN target[r] \union {NameOf(i) : i \in target[r]} ELSE {})

TouchedByOthers(r) == UNION {Touched(o) : o \in Requests \ {r}}

\* What a request for the row of id and the files called name clashes with. A
\* row under a name that is not normal is a clash: readers look elsewhere.
Clash(r, id, name) == ({id, name} \intersect TouchedByOthers(r))
                      \union (IF Normal[id] # id THEN {id, name} ELSE {})

Goto(r, from, to) == pc[r] = from /\ pc' = [pc EXCEPT ![r] = to]

Fault == faults < MaxFaults /\ faults' = faults + 1

-----------------------------------------------------------------------------
(* Uploads: finishUpload of the upload API, handleUpload of the admin panel.  *)
(* Requests that are refused before they write anything change nothing.       *)

Upload(r, id, name, e, tagged) ==
    /\ Goto(r, "idle", "write")
    /\ req' = [req EXCEPT ![r] = [id |-> id, name |-> name, ext |-> e,
                                  tagged |-> tagged, auto |-> FALSE]]
    /\ clashed' = clashed \union Clash(r, id, name)
    /\ UNCHANGED <<row, file, target, todo, faults>>

\* finishUpload drops a known extension from the id, and is handed one by every
\* mode of the upload API.
ApiUpload(r, i, e, tagged) == Upload(r, Normal[i], NameOf(Normal[i]), e, tagged)

AdminUpload(r, i, e, tagged) == Upload(r, i, NameOf(i), e, tagged)

\* No id given: finishUpload is reached with the id that NextID finds.
UploadAuto(r, e, tagged) ==
    /\ Goto(r, "idle", "assign")
    /\ req' = [req EXCEPT ![r] = [id |-> 1, name |-> 1, ext |-> e,
                                  tagged |-> tagged, auto |-> TRUE]]
    /\ UNCHANGED <<row, file, target, todo, faults, clashed>>

Used == {i \in Numeric : row[i] # None}

\* Mutant of IsNextId: counts the images instead of looking for the largest id.
IsNextIdByCount(n) == n = Cardinality(Used) + 1

\* max(numeric id) + 1, or 1 if the table is empty.
IsNextId(n) == /\ \A i \in Used : i < n
               /\ n = 1 \/ n - 1 \in Used

\* NextID: every error reads as an empty table, that of the cast as well. An id
\* handed out after an error is a clash, as nobody has looked whether it is free.
AssignId(r) ==
    LET Assign(n, T) == /\ req' = [req EXCEPT ![r] = [id |-> n, name |-> n, ext |-> @.ext,
                                                      tagged |-> @.tagged, auto |-> TRUE]]
                        /\ clashed' = clashed \union T
    IN  /\ Goto(r, "assign", "write")
        /\ \/ /\ \A i \in Used : i <= Top
              /\ \E n \in Numeric : IsNextId(n) /\ Assign(n, Clash(r, n, n))
              /\ UNCHANGED faults
           \/ (\E i \in Used : i > Top) /\ Assign(1, {1}) /\ UNCHANGED faults
           \/ Fault /\ Assign(1, {1})
        /\ UNCHANGED <<row, file, target, todo>>

\* PutWithExt, os.WriteFile: a failed write may have replaced the old contents.
WriteFile(r) ==
    LET written == [file EXCEPT ![req[r].name] = [@ EXCEPT ![req[r].ext] = r]]
    IN  /\ \/ Goto(r, "write", "store") /\ file' = written /\ UNCHANGED faults
           \/ Goto(r, "write", "done") /\ file' \in {file, written} /\ Fault
        /\ UNCHANGED <<row, req, target, todo, clashed>>

\* Mutant of StoreRow: ON CONFLICT DO NOTHING.
StoreRowOnce(r) ==
    /\ req[r].tagged
    /\ Goto(r, "store", "done")
    /\ row' = [row EXCEPT ![req[r].id] = IF @ = None THEN r ELSE @]
    /\ UNCHANGED <<file, req, target, todo, faults, clashed>>

\* INSERT ... ON CONFLICT DO UPDATE.
StoreRow(r) ==
    /\ req[r].tagged
    /\ Goto(r, "store", "done")
    /\ row' = [row EXCEPT ![req[r].id] = r]
    /\ UNCHANGED <<file, req, target, todo, faults, clashed>>

\* The statement fails and nothing is stored, as always when there are no tags:
\* ResolveTags makes nil of them, which is NULL for a column that is NOT NULL. If r
\* has written over the file of an image, that image is about to lose it: a clash.
StoreFails(r) ==
    /\ Goto(r, "store", "cleanup")
    /\ IF req[r].tagged THEN Fault ELSE UNCHANGED faults
    /\ clashed' = clashed \union {i \in {req[r].id, req[r].name} : row[i] # None}
    /\ UNCHANGED <<row, file, req, target, todo>>

\* The row is stored, but its answer does not come: the client has left, which
\* ends the context of the statement, or the connection is gone. An error like any
\* other to the handler, which removes the file of a stored row: a clash.
StoreUnheard(r) ==
    /\ req[r].tagged
    /\ Goto(r, "store", "cleanup")
    /\ Fault
    /\ row' = [row EXCEPT ![req[r].id] = r]
    /\ clashed' = clashed \union {req[r].id, req[r].name}
    /\ UNCHANGED <<file, req, target, todo>>

\* Mutant of CleanUp: forgets the file.
CleanUpForgotten(r) ==
    /\ Goto(r, "cleanup", "done")
    /\ UNCHANGED <<row, file, req, target, todo, faults, clashed>>

\* Delete of the SFTP provider removes every extension, os.Remove the file that
\* was written; that this fails goes unnoticed.
CleanUp(r) ==
    /\ Goto(r, "cleanup", "done")
    /\ \/ /\ file' = [file EXCEPT ![req[r].name] = [e \in Exts |->
                        IF Sftp \/ e = req[r].ext THEN None ELSE @[e]]]
          /\ UNCHANGED faults
       \/ Fault /\ UNCHANGED file
    /\ UNCHANGED <<row, req, target, todo, clashed>>

-----------------------------------------------------------------------------
(* handleDelete and handleMerge of the admin panel.                          *)

Remove(r, to, I) ==
    /\ Goto(r, "idle", to)
    /\ target' = [target EXCEPT ![r] = I]
    /\ clashed' = clashed \union UNION {Clash(r, i, NameOf(i)) : i \in I}
    /\ UNCHANGED <<row, file, req, todo, faults>>

Delete(r, i) == Remove(r, "delete", {Normal[i]})

\* Winner and losers are read at the beginning of the transaction; without one
\* of them the merge is refused.
Merge(r, winner, L) ==
    /\ winner \notin L /\ L # {}
    /\ \A i \in L \union {winner} : row[i] # None
    /\ Remove(r, "merge", L)

\* Mutant of RemoveRows: knows of the last extension only.
RemoveRowsOneExt(r) ==
    /\ row' = [i \in Ids |-> IF i \in target[r] THEN None ELSE row[i]]
    /\ todo' = [todo EXCEPT ![r] = {NameOf(i) : i \in target[r]}
                                     \X {e \in Exts : \A x \in Exts : x <= e}]
    /\ UNCHANGED <<file, req, target, faults, clashed>>

RowsGone(r) == row' = [i \in Ids |-> IF i \in target[r] THEN None ELSE row[i]]

\* DELETE FROM images, and the files to remove after it.
RemoveRows(r) ==
    /\ RowsGone(r)
    /\ todo' = [todo EXCEPT ![r] = {NameOf(i) : i \in target[r]} \X Exts]
    /\ UNCHANGED <<file, req, target, faults, clashed>>

\* Mutant of DeleteRow: the files go first.
DeleteRowLast(r) ==
    /\ Goto(r, "delete", "unlink")
    /\ file' = [i \in Ids |-> IF i \in target[r] THEN [e \in Exts |-> None] ELSE file[i]]
    /\ UNCHANGED <<row, todo, req, target, faults, clashed>>

DeleteRow(r) == Goto(r, "delete", "unlink") /\ RemoveRows(r)

MergeCommit(r) == Goto(r, "merge", "unlink") /\ RemoveRows(r)

\* The statement or the commit fails: nothing has changed.
RemoveFails(r) ==
    /\ Removing(r) /\ pc[r] # "unlink"
    /\ Goto(r, pc[r], "done")
    /\ Fault
    /\ UNCHANGED <<row, file, req, target, todo, clashed>>

\* The rows are gone, but the answer does not come: the files stay.
RemoveUnheard(r) ==
    /\ Removing(r) /\ pc[r] # "unlink"
    /\ Goto(r, pc[r], "done")
    /\ RowsGone(r)
    /\ Fault
    /\ UNCHANGED <<file, req, target, todo, clashed>>

\* One file after the other; that a file could not be removed goes unnoticed.
Unlink(r) ==
    /\ pc[r] = "unlink"
    /\ \/ \E i \in Ids, e \in Exts :
             /\ <<i, e>> \in todo[r]
             /\ todo' = [todo EXCEPT ![r] = @ \ {<<i, e>>}]
             /\ \/ file' = [file EXCEPT ![i] = [@ EXCEPT ![e] = None]] /\ UNCHANGED faults
                \/ Fault /\ file[i][e] # None /\ UNCHANGED file
             /\ UNCHANGED pc
       \/ todo[r] = {} /\ Goto(r, "unlink", "done") /\ UNCHANGED <<file, todo, faults>>
    /\ UNCHANGED <<row, req, target, clashed>>

-----------------------------------------------------------------------------
\* The process dies and is started again: requests in progress are gone.
Crash ==
    /\ Fault
    /\ pc' = [r \in Requests |-> IF pc[r] = "idle" THEN "idle" ELSE "done"]
    /\ UNCHANGED <<row, file, req, target, todo, clashed>>

Begin(r) == \/ \E i \in Ids, e \in Exts, tagged \in BOOLEAN :
                  ApiUpload(r, i, e, tagged) \/ AdminUpload(r, i, e, tagged)
            \/ \E e \in Exts, tagged \in BOOLEAN : UploadAuto(r, e, tagged)
            \/ \E i \in Ids : Delete(r, i)
            \/ \E winner \in Ids, L \in SUBSET Ids : Merge(r, winner, L)

Continue(r) == \/ AssignId(r) \/ WriteFile(r) \/ StoreRow(r) \/ StoreFails(r) \/ StoreUnheard(r)
               \/ CleanUp(r) \/ DeleteRow(r) \/ MergeCommit(r) \/ RemoveFails(r)
               \/ RemoveUnheard(r) \/ Unlink(r)

Next == Crash \/ \E r \in Requests : Begin(r) \/ Continue(r)

Spec == Init /\ [][Next]_vars

-----------------------------------------------------------------------------
(* Properties.                                                               *)

\* Readers never find the row of an image without a file: files are there before
\* their row and rows go before their files, whatever step fails and wherever
\* the process dies. Ids that two requests were busy with at once are excepted,
\* and those that lost their file to a clean-up: after a failed overwrite, and
\* after an INSERT that was applied and still returned an error.
RowHasFile ==
    \A i \in Ids \ clashed : row[i] # None => \E e \in Exts : file[i][e] # None

Quiet(i) == faults = 0 /\ i \notin clashed /\ \A r \in Requests : i \notin Touched(r)

\* Without failures nothing is left behind: a file no request is busy with has
\* a row, as uploads that cannot be stored and removals clean up after them, and
\* among the files of an image is that of the upload its row describes.
NothingLeftBehind ==
    \A i \in Ids : Quiet(i) =>
        /\ (\E e \in Exts : file[i][e] # None) => row[i] # None
        /\ \E e \in Exts : file[i][e] = row[i]

\* An upload that was given its id is what readers get under this id: no file of
\* an earlier image with another extension comes before its own.
AutoServesItself ==
    \A r \in Requests :
        req[r].auto /\ Quiet(req[r].id) /\ row[req[r].id] = r => Served(req[r].id) = r

\* An upload that was given its id replaces nobody's image, unless the id was
\* given to two uploads at once or without knowing the ids in use.
AutoIdReplacesNothing ==
    [][\A r \in Requests :
          (StoreRow(r) \/ StoreUnheard(r)) /\ req[r].auto /\ req[r].id \notin clashed
              => row[req[r].id] = None]_vars

\* Image i as clients see it: what its row describes, what readers find under its
\* id, and who is between the file and the row of an overwrite.
MetaOf(i) == IF i \in clashed THEN None ELSE row[i]
ShownOf(i) == IF i \in clashed \/ row[i] = None THEN None ELSE Served(i)
HalfOf(i) == IF i \in clashed \/ row[i] = None THEN {}
             ELSE {r \in Requests : pc[r] = "store" /\ req[r].id = i}

Images == INSTANCE ImageStore WITH
    Uploads <- Requests,
    meta <- [i \in Ids |-> MetaOf(i)], shown <- [i \in Ids |-> ShownOf(i)],
    half <- [i \in Ids |-> HalfOf(i)], lost <- clashed, failed <- faults # 0

\* Rows and files are the images of an ImageStore: a new image is there from the
\* moment its row is stored, with the contents that came with it, and gone from the
\* moment its row is; between the two halves of an overwrite nobody else writes.
StoresImages == Images!Spec

-----------------------------------------------------------------------------
(* The inductive invariant.                                                  *)

\* Whoever is busy with an id that has not clashed is so alone, and under the
\* name it has in storage.
SoleOwner == \A i \in Ids \ clashed : \A r, o \in Requests :
                 i \in Touched(r) /\ i \in Touched(o) => r = o

NormalNames == \A r \in Requests :
    LET u == req[r] IN
    /\ Uploading(r) /\ ~({u.id, u.name} \subseteq clashed) => u.id = u.name
    /\ \A i \in target[r] : Removing(r) /\ ~({i, NameOf(i)} \subseteq clashed) => i = NameOf(i)

\* Between the two halves of an upload or a removal.
Halfway == \A r \in Requests :
    LET u == req[r] IN
    /\ pc[r] = "store" /\ u.name \notin clashed => file[u.name][u.ext] # None
    /\ pc[r] = "cleanup" /\ u.name \notin clashed => row[u.name] = None
    /\ pc[r] = "unlink" =>
         /\ \A i \in Ids, e \in Exts : <<i, e>> \in todo[r] => i \in {NameOf(t) : t \in target[r]}
         /\ \A i \in target[r] \ clashed : row[i] = None
    /\ Uploading(r) /\ u.auto /\ u.id \notin clashed => row[u.id] = None

\* What the proofs need: the types, who is busy with an id, and what is half done.
IInv == TypeOK /\ SoleOwner /\ NormalNames /\ Halfway /\ RowHasFile

\* Nobody has changed one half of image i and not yet the other.
Settled(i) == \A r \in Requests : pc[r] \in {"store", "cleanup", "unlink"} => i \notin Touched(r)

\* The files of image i are those of a row, and one of them is what the row describes.
Whole(i) == /\ (\E e \in Exts : file[i][e] # None) => row[i] # None
            /\ \E e \in Exts : file[i][e] = row[i]

\* Without failures: what a request that has changed one half of i has left to do
\* is all that keeps i from being whole.
HalfDone(r, i) ==
    LET u == req[r] IN
    /\ pc[r] = "store" => file[i][u.ext] = r
    /\ pc[r] \in {"store", "cleanup"} /\ row[i] = None =>
         \A e \in Exts : e # u.ext => file[i][e] = None
    /\ pc[r] = "unlink" => \A e \in Exts : file[i][e] # None => <<i, e>> \in todo[r]

\* The upload r is what row i describes, under an id it was given.
Given(r, i) == row[i] = r /\ req[r].auto /\ req[r].id = i

Tidy(i) ==
    /\ Settled(i) => Whole(i)
    /\ \A r \in Requests : i \in Touched(r) => HalfDone(r, i)
    /\ \A r \in Requests : Settled(i) /\ Given(r, i) => \A e \in Exts : e # req[r].ext => file[i][e] = None

WholeInv == faults = 0 => \A i \in Ids \ clashed : Tidy(i)

\* The row of an upload is stored last, unless its answer is lost, and rows are
\* under ids readers look at.
GivenInv ==
    /\ \A i \in Ids, r \in Requests :
          row[i] = r => pc[r] = "done" \/ (pc[r] = "cleanup" /\ faults # 0)
    /\ \A r \in Requests : Uploading(r) /\ req[r].id \notin clashed => Normal[req[r].id] = req[r].id
    /\ \A i \in Ids \ clashed : row[i] # None => Normal[i] = i

\* What the proofs need of an undisturbed image.
TidyInv == IInv /\ WholeInv /\ GivenInv
=============================================================================
