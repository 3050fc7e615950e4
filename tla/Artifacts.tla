----------------------------- MODULE Artifacts -----------------------------
(***************************************************************************)
(* Uploading and downloading artifact versions.                            *)
(*                                                                         *)
(* service.Registry.Upload first streams the body to the storage backend,  *)
(* under a key computed from (type, name, version), and only then inserts  *)
(* the metadata row; the UNIQUE constraint of the artifacts table, not the *)
(* backend, decides whether the version is new.  When the insert fails the *)
(* object at the key is deleted.  Requests run concurrently, each step may *)
(* fail, and the process may be killed between any two steps.              *)
(*                                                                         *)
(* artifactRow[k] = u stands for the row holding the Artifact that upload  *)
(* u built: its digest is ContentOf[u], its primary key id[u].             *)
(***************************************************************************)
EXTENDS Storage, Sequences

CONSTANTS
    KeyOf,       \* the storage key each upload's type, name, version give
    Downloads,   \* download requests
    Times,       \* readings of the clock that newID turns into an id
    NoTime,
    NoRow,
    MaxCrashes   \* bound: kills of the process in one behaviour

ASSUME ArtifactsAssumption ==
    /\ KeyOf \in [Uploads -> Keys]
    /\ NoRow \notin Uploads
    /\ NoTime \notin Times
    /\ MaxCrashes \in Nat

VARIABLES
    backend,      \* "local" or "s3", chosen at startup
    artifactRow,  \* the artifacts table
    id,           \* id[u]: the ID of the row upload u inserted
    pc,           \* pc[u]: where upload u is
    reply,        \* reply[u]: the answer upload u has, or is about to give
    dpc,          \* dpc[d]: where download d is
    seen,         \* seen[d]: the row download d found
    rfd,          \* rfd[d]: the object download d reads from
    got,          \* got[d]: the pieces download d has received
    crashes,      \* kills so far
    leaked,       \* history: keys whose object nobody is left to remove
    disputed      \* history: keys stored under while taken or being stored
                  \* under, or whose insert took effect but reported failure

tableVars == <<artifactRow, id>>
uploadVars == <<pc, reply>>
downloadVars == <<dpc, seen, rfd, got>>
vars == <<object, bytes, fd, written, backend, artifactRow, id, pc, reply,
          dpc, seen, rfd, got, crashes, leaked, disputed>>

\* Upload u is inside Registry.Upload and may still touch its key.
Active(u) == pc[u] \in {"storing", "stored", "cleanup"}

UploadPC == {"idle", "storing", "stored", "saved", "cleanup", "done", "dead"}
DownloadPC == {"idle", "located", "redirected", "streaming", "fetching",
               "served", "missing", "notfound", "aborted"}

TypeOK ==
    /\ StorageTypeOK
    /\ backend \in {"local", "s3"}
    /\ artifactRow \in [Keys -> Uploads \cup {NoRow}]
    /\ id \in [Uploads -> Times \cup {NoTime}]
    /\ pc \in [Uploads -> UploadPC]
    /\ reply \in [Uploads -> {"none", "created", "conflict", "error"}]
    /\ dpc \in [Downloads -> DownloadPC]
    /\ seen \in [Downloads -> Uploads \cup {NoRow}]
    /\ rfd \in [Downloads -> Uploads \cup {NoObject}]
    /\ got \in [Downloads -> Seq(Contents \cup {Hole})]
    /\ crashes \in 0..MaxCrashes
    /\ leaked \subseteq Keys
    /\ disputed \subseteq Keys

Init ==
    /\ StorageInit
    /\ backend \in {"local", "s3"}
    /\ artifactRow = [k \in Keys |-> NoRow]
    /\ id = [u \in Uploads |-> NoTime]
    /\ pc = [u \in Uploads |-> "idle"]
    /\ reply = [u \in Uploads |-> "none"]
    /\ dpc = [d \in Downloads |-> "idle"]
    /\ seen = [d \in Downloads |-> NoRow]
    /\ rfd = [d \in Downloads |-> NoObject]
    /\ got = [d \in Downloads |-> << >>]
    /\ crashes = 0
    /\ leaked = {}
    /\ disputed = {}

-----------------------------------------------------------------------------
(***************************************************************************)
(* Upload: storing the body.                                               *)
(***************************************************************************)

\* Move upload u from one place to the next.
Goto(u, from, to) ==
    /\ pc[u] = from
    /\ pc' = [pc EXCEPT ![u] = to]

\* Upload u has its answer.
Answer(u, r) == reply' = [reply EXCEPT ![u] = r]

\* Remove the object at key k; the removal's own error is ignored by every
\* caller, so it may also do nothing.
Discard(k) ==
    \/ /\ Remove(k)
       /\ leaked' = leaked \ {k}
    \/ /\ UNCHANGED storageVars
       /\ leaked' = leaked \cup {k}

\* Store fails before it touches the key: MkdirAll, Create or CreateTemp.
StoreRefused(u) ==
    /\ Goto(u, "idle", "done")
    /\ Answer(u, "error")
    /\ UNCHANGED <<storageVars, backend, tableVars, downloadVars, crashes,
                   leaked, disputed>>

\* Store begins: local disk creates or truncates the file, S3 starts to
\* buffer the body in a temporary file.
StoreBegin(u) ==
    LET k == KeyOf[u] IN
    /\ Goto(u, "idle", "storing")
    /\ IF backend = "local"
       THEN CreateFile(u, k)
       ELSE UNCHANGED storageVars
    /\ disputed' = IF \/ artifactRow[k] # NoRow
                      \/ \E v \in Uploads : Active(v) /\ KeyOf[v] = k
                   THEN disputed \cup {k} ELSE disputed
    /\ UNCHANGED <<backend, tableVars, reply, downloadVars, crashes, leaked>>

\* Local disk: io.Copy writes a piece.
WritePiece(u) ==
    /\ backend = "local"
    /\ pc[u] = "storing"
    /\ WriteFile(u)
    /\ UNCHANGED <<backend, tableVars, uploadVars, downloadVars, crashes,
                   leaked, disputed>>

\* Local disk: io.Copy fails part-way and the file NAMED by the key is
\* removed, whoever created it.
WriteFails(u) ==
    /\ backend = "local"
    /\ Goto(u, "storing", "done")
    /\ written[u] < NPieces
    /\ Discard(KeyOf[u])
    /\ Answer(u, "error")
    /\ UNCHANGED <<backend, tableVars, downloadVars, crashes, disputed>>

\* Seeded fault: the error of io.Copy is ignored.
StoreReturnsShort(u) ==
    /\ backend = "local"
    /\ Goto(u, "storing", "stored")
    /\ UNCHANGED <<storageVars, backend, tableVars, reply, downloadVars,
                   crashes, leaked, disputed>>

\* Local disk: everything is written, Store returns.
StoreReturns(u) ==
    /\ backend = "local"
    /\ Goto(u, "storing", "stored")
    /\ written[u] = NPieces
    /\ UNCHANGED <<storageVars, backend, tableVars, reply, downloadVars,
                   crashes, leaked, disputed>>

\* S3: the body is buffered and PutObject succeeds.
PutSucceeds(u) ==
    /\ backend = "s3"
    /\ Goto(u, "storing", "stored")
    /\ PutObject(u, KeyOf[u])
    /\ UNCHANGED <<backend, tableVars, reply, downloadVars, crashes, leaked,
                   disputed>>

\* S3: buffering or PutObject fails.  A PutObject that failed may have been
\* applied all the same, and Upload returns without deleting the object.
PutFails(u) ==
    /\ backend = "s3"
    /\ Goto(u, "storing", "done")
    /\ Answer(u, "error")
    /\ \/ UNCHANGED <<storageVars, leaked>>
       \/ /\ PutObject(u, KeyOf[u])
          /\ leaked' = leaked \cup {KeyOf[u]}
    /\ UNCHANGED <<backend, tableVars, downloadVars, crashes, disputed>>

-----------------------------------------------------------------------------
(***************************************************************************)
(* Upload: inserting the row.                                              *)
(***************************************************************************)

\* Some row has the id that newID derives from clock reading t.
IdTaken(t) == \E k \in Keys : artifactRow[k] # NoRow /\ id[artifactRow[k]] = t

\* Seeded fault: INSERT OR REPLACE.
InsertOrReplace(u, t) ==
    /\ artifactRow' = [artifactRow EXCEPT ![KeyOf[u]] = u]
    /\ id' = [id EXCEPT ![u] = t]

\* INSERT INTO artifacts: neither the version nor the id is there yet.
Insert(u, t) ==
    /\ artifactRow[KeyOf[u]] = NoRow
    /\ ~ IdTaken(t)
    /\ artifactRow' = [artifactRow EXCEPT ![KeyOf[u]] = u]
    /\ id' = [id EXCEPT ![u] = t]

SaveArtifact(u) ==
    /\ Goto(u, "stored", "saved")
    /\ \E t \in Times : Insert(u, t)
    /\ Answer(u, "created")
    /\ UNCHANGED <<storageVars, backend, downloadVars, crashes, leaked,
                   disputed>>

\* UNIQUE(type, name, version) or PRIMARY KEY(id) is violated; both become
\* ErrAlreadyExists.
SaveConflicts(u) ==
    /\ Goto(u, "stored", "cleanup")
    /\ artifactRow[KeyOf[u]] # NoRow \/ \E t \in Times : IdTaken(t)
    /\ Answer(u, "conflict")
    /\ UNCHANGED <<storageVars, backend, tableVars, downloadVars, crashes,
                   leaked, disputed>>

\* The insert fails for another reason, such as the request's context being
\* cancelled by a client that left.
SaveFails(u) ==
    /\ Goto(u, "stored", "cleanup")
    /\ Answer(u, "error")
    /\ UNCHANGED <<storageVars, backend, tableVars, downloadVars, crashes,
                   leaked, disputed>>

\* The insert takes effect and an error is returned all the same: the
\* context was cancelled between the commit and the return of ExecContext.
SaveUnconfirmed(u) ==
    /\ Goto(u, "stored", "cleanup")
    /\ \E t \in Times : Insert(u, t)
    /\ Answer(u, "error")
    /\ disputed' = disputed \cup {KeyOf[u]}
    /\ UNCHANGED <<storageVars, backend, downloadVars, crashes, leaked>>

\* Seeded fault: the object of a failed insert is not deleted.
CleanupSkipped(u) ==
    /\ Goto(u, "cleanup", "done")
    /\ UNCHANGED <<storageVars, backend, tableVars, reply, downloadVars,
                   crashes, leaked, disputed>>

\* After a failed insert, Delete the object at the key and ignore the error.
Cleanup(u) ==
    /\ Goto(u, "cleanup", "done")
    /\ Discard(KeyOf[u])
    /\ UNCHANGED <<backend, tableVars, reply, downloadVars, crashes, disputed>>

\* The handler emits artifact.uploaded and answers 201.
Respond(u) ==
    /\ Goto(u, "saved", "done")
    /\ UNCHANGED <<storageVars, backend, tableVars, reply, downloadVars,
                   crashes, leaked, disputed>>

-----------------------------------------------------------------------------
(***************************************************************************)
(* Download.                                                               *)
(***************************************************************************)

\* GetVersion reads the row of (type, name, version).
Lookup(d, k) ==
    /\ dpc[d] = "idle"
    /\ IF artifactRow[k] = NoRow
       THEN /\ dpc' = [dpc EXCEPT ![d] = "notfound"]
            /\ UNCHANGED seen
       ELSE /\ dpc' = [dpc EXCEPT ![d] = "located"]
            /\ seen' = [seen EXCEPT ![d] = artifactRow[k]]
    /\ UNCHANGED <<storageVars, backend, tableVars, uploadVars, rfd, got,
                   crashes, leaked, disputed>>

\* S3 signs a URL and the client is redirected to it.
Redirect(d) ==
    /\ backend = "s3"
    /\ dpc[d] = "located"
    /\ dpc' = [dpc EXCEPT ![d] = "redirected"]
    /\ UNCHANGED <<storageVars, backend, tableVars, uploadVars, seen, rfd,
                   got, crashes, leaked, disputed>>

\* Seeded fault: the storage key does not tell versions apart.
OpenAnyObject(d) ==
    /\ dpc[d] \in {"located", "redirected"}
    /\ \E k \in Keys : /\ object[k] # NoObject
                       /\ rfd' = [rfd EXCEPT ![d] = object[k]]
    /\ dpc' = [dpc EXCEPT ![d] =
                  IF @ = "located" THEN "streaming" ELSE "fetching"]
    /\ UNCHANGED <<storageVars, backend, tableVars, uploadVars, seen, got,
                   crashes, leaked, disputed>>

\* The object at the row's storage key is opened: by the handler (local disk,
\* or S3 when signing failed), which streams it under the digest of the row,
\* or by the client that was redirected, which fetches it.
OpenObject(d) ==
    LET o == object[KeyOf[seen[d]]] IN
    /\ dpc[d] \in {"located", "redirected"}
    /\ o # NoObject
    /\ dpc' = [dpc EXCEPT ![d] =
                  IF @ = "located" THEN "streaming" ELSE "fetching"]
    /\ rfd' = [rfd EXCEPT ![d] = o]
    /\ UNCHANGED <<storageVars, backend, tableVars, uploadVars, seen, got,
                   crashes, leaked, disputed>>

\* Opening fails; the handler answers 404 whatever the error is.
OpenFails(d) ==
    /\ dpc[d] \in {"located", "redirected"}
    /\ dpc' = [dpc EXCEPT ![d] = "missing"]
    /\ UNCHANGED <<storageVars, backend, tableVars, uploadVars, seen, rfd,
                   got, crashes, leaked, disputed>>

\* io.Copy, or the redirected client, reads the next piece of the open object.
ReadPiece(d) ==
    /\ dpc[d] \in {"streaming", "fetching"}
    /\ Len(got[d]) < NPieces
    /\ got' = [got EXCEPT ![d] = Append(@, bytes[rfd[d]][Len(@) + 1])]
    /\ UNCHANGED <<storageVars, backend, tableVars, uploadVars, dpc, seen,
                   rfd, crashes, leaked, disputed>>

\* io.Copy ends.  Its error is ignored, so a read that fails part-way ends
\* the response as a complete one, short.
ServeEnds(d) ==
    /\ dpc[d] \in {"streaming", "fetching"}
    /\ dpc' = [dpc EXCEPT ![d] = "served"]
    /\ UNCHANGED <<storageVars, backend, tableVars, uploadVars, seen, rfd,
                   got, crashes, leaked, disputed>>

-----------------------------------------------------------------------------
(***************************************************************************)
(* The process is killed and started again: requests in flight are gone,   *)
(* the table and the objects are as they were.  Nothing sweeps orphans.  A *)
(* client that was redirected goes on with S3.                             *)
(***************************************************************************)
Crash ==
    /\ crashes < MaxCrashes
    /\ crashes' = crashes + 1
    /\ pc' = [u \in Uploads |->
                IF Active(u) \/ pc[u] = "saved" THEN "dead" ELSE pc[u]]
    /\ dpc' = [d \in Downloads |->
                 IF dpc[d] \in {"located", "streaming"}
                 THEN "aborted" ELSE dpc[d]]
    /\ leaked' = leaked \cup {KeyOf[u] : u \in {v \in Uploads : Active(v)}}
    /\ UNCHANGED <<storageVars, backend, tableVars, reply, seen, rfd, got,
                   disputed>>

-----------------------------------------------------------------------------
UploadNext(u) ==
    \/ StoreRefused(u)
    \/ StoreBegin(u)
    \/ WritePiece(u)
    \/ WriteFails(u)
    \/ StoreReturns(u)
    \/ PutSucceeds(u)
    \/ PutFails(u)
    \/ SaveArtifact(u)
    \/ SaveConflicts(u)
    \/ SaveFails(u)
    \/ SaveUnconfirmed(u)
    \/ Cleanup(u)
    \/ Respond(u)

DownloadNext(d) ==
    \/ \E k \in Keys : Lookup(d, k)
    \/ Redirect(d)
    \/ OpenObject(d)
    \/ OpenFails(d)
    \/ ReadPiece(d)
    \/ ServeEnds(d)

Next ==
    \/ \E u \in Uploads : UploadNext(u)
    \/ \E d \in Downloads : DownloadNext(d)
    \/ Crash

Spec == Init /\ [][Next]_vars

-----------------------------------------------------------------------------
(***************************************************************************)
(* Properties.                                                             *)
(***************************************************************************)

\* A version that has a row and whose key nobody disputed leads to exactly
\* the bytes its digest was computed from: the blob is written before the
\* row, and neither a failing request nor a kill damages it afterwards.
PublishedIntact ==
    \A k \in Keys :
        artifactRow[k] # NoRow /\ k \notin disputed
            => Holds(k, ContentOf[artifactRow[k]])

\* Every byte a download has received of an undisputed version belongs to the
\* content whose digest it announced in X-Artifact-SHA256, although the row
\* was read before the object was opened.
DownloadFaithful ==
    \A d \in Downloads :
        seen[d] # NoRow /\ KeyOf[seen[d]] \notin disputed
            => \A p \in DOMAIN got[d] : got[d][p] = ContentOf[seen[d]]

\* An object without a row either has an upload that will still insert the
\* row or delete the object, or was left behind by a kill, a removal that
\* failed, or an S3 PUT that failed after it was applied.
Owes(u) ==
    IF backend = "local" THEN Active(u) ELSE pc[u] \in {"stored", "cleanup"}
OrphanHasOwner ==
    \A k \in Keys :
        object[k] # NoObject /\ artifactRow[k] = NoRow
            => k \in leaked \/ \E u \in Uploads : KeyOf[u] = k /\ Owes(u)

\* An upload that was told 201 is the one the version's row describes: of any
\* number of uploads of a version at most one is told so, and the digest it
\* was told is the one later readers see.
CreatedMeansRow ==
    \A u \in Uploads : reply[u] = "created" => artifactRow[KeyOf[u]] = u

\* What api/openapi.yaml says of an upload: a version is immutable once
\* uploaded.  The bytes of a version whose uploader was told 201 stay there.
ImmutableOncePublished ==
    [][ \A u \in Uploads :
          reply[u] = "created" /\ Holds(KeyOf[u], ContentOf[u])
              => Holds(KeyOf[u], ContentOf[u])' ]_vars

\* What api/openapi.yaml says of X-Artifact-SHA256, in the answer of the local
\* backend: it is the digest of the file.  So no piece that the handler streams
\* under the digest of a row is of another content; a missing one is another
\* matter.
DigestOfFile ==
    \A d \in Downloads :
        backend = "local" /\ dpc[d] = "streaming" =>
            \A p \in DOMAIN got[d] : got[d][p] \in {ContentOf[seen[d]], Hole}

\* What the comment in Upload says of its Delete: it cleans up an orphaned
\* file.  So no step removes the object of a version that has a row.
RemovesOnlyOrphans ==
    [][ \A k \in Keys :
          object[k] # NoObject /\ object'[k] = NoObject
              => artifactRow[k] = NoRow ]_vars

\* What api/openapi.yaml says of the 409 answer: the version already exists.
ConflictMeansExists ==
    \A u \in Uploads :
        reply[u] = "conflict" => artifactRow[KeyOf[u]] # NoRow

============================================================================
