---------------------------- MODULE ArtifactsProof ----------------------------
(***************************************************************************)
(* The inductive invariant behind the safety properties of Artifacts.      *)
(***************************************************************************)
EXTENDS Artifacts, TLAPS

\* A file is reached, by its key or by a writer that has it open, only under
\* the key of the upload that created it: keys never share a file.
FilesOfKey ==
    /\ \A k \in Keys : object[k] # NoObject => KeyOf[object[k]] = k
    /\ \A u \in Uploads :
          backend = "local" /\ pc[u] = "storing"
              => fd[u] \in Uploads /\ KeyOf[fd[u]] = KeyOf[u]

\* A row sits under the key of the upload it describes.
RowsOfKey ==
    \A k \in Keys : artifactRow[k] # NoRow => KeyOf[artifactRow[k]] = k

\* On an undisputed key at most one upload is active, and none once the
\* version has its row.
SoleWriter ==
    \A u \in Uploads :
        Active(u) /\ KeyOf[u] \notin disputed
            => /\ artifactRow[KeyOf[u]] = NoRow
               /\ \A v \in Uploads : Active(v) /\ KeyOf[v] = KeyOf[u] => v = u

\* The sole writer's file is the one its key leads to, and holds what the
\* writer has written so far; after Store the key holds the whole body.
WrittenSoFar(u) ==
    /\ fd[u] = object[KeyOf[u]]
    /\ \A p \in 1..written[u] : bytes[fd[u]][p] = ContentOf[u]
WriterProgress ==
    \A u \in Uploads :
        /\ pc[u] = "idle" => written[u] = 0
        /\ KeyOf[u] \notin disputed =>
              /\ backend = "local" /\ pc[u] = "storing" => WrittenSoFar(u)
              /\ pc[u] = "stored" => Holds(KeyOf[u], ContentOf[u])

\* A download that found a row still finds it there; while it streams an
\* undisputed version it reads the file the key leads to.
ReaderFile ==
    \A d \in Downloads :
        /\ dpc[d] = "idle" => got[d] = << >>
        /\ seen[d] # NoRow => artifactRow[KeyOf[seen[d]]] = seen[d]
        /\ dpc[d] \in {"located", "redirected", "streaming", "fetching"} => seen[d] # NoRow
        /\ dpc[d] \in {"streaming", "fetching"}
              => /\ rfd[d] \in Uploads
                 /\ KeyOf[seen[d]] \notin disputed
                        => rfd[d] = object[KeyOf[seen[d]]]

IInv ==
    /\ TypeOK
    /\ FilesOfKey
    /\ RowsOfKey
    /\ SoleWriter
    /\ WriterProgress
    /\ ReaderFile
    /\ PublishedIntact
    /\ DownloadFaithful
    /\ OrphanHasOwner
    /\ CreatedMeansRow

-----------------------------------------------------------------------------
USE StorageAssumption, ArtifactsAssumption

\* The initial state.
LEMMA InitIInv == Init => IInv
<1> SUFFICES ASSUME Init PROVE IInv
    OBVIOUS
<1>1. TypeOK
    BY DEF Init, StorageInit, TypeOK, StorageTypeOK, Blank, Pieces, UploadPC,
           DownloadPC
<1>2. FilesOfKey /\ RowsOfKey /\ SoleWriter /\ WriterProgress /\ ReaderFile
    BY DEF Init, StorageInit, FilesOfKey, RowsOfKey, SoleWriter,
           WriterProgress, ReaderFile, Active
<1>3. /\ PublishedIntact /\ DownloadFaithful /\ OrphanHasOwner
      /\ CreatedMeansRow
    BY DEF Init, StorageInit, PublishedIntact, DownloadFaithful,
           OrphanHasOwner, CreatedMeansRow
<1> QED
    BY <1>1, <1>2, <1>3 DEF IInv

\* Creating a file and putting an object keep the types of the storage.
LEMMA CreateFileType ==
    ASSUME StorageTypeOK, NEW u \in Uploads, NEW k \in Keys, CreateFile(u, k)
    PROVE  StorageTypeOK'
<1> DEFINE o == IF object[k] = NoObject THEN u ELSE object[k]
<1>1. o \in Uploads
    BY DEF StorageTypeOK
<1>2. Blank \in [Pieces -> Contents \cup {Hole}]
    BY DEF Blank
<1>3. /\ object' = [object EXCEPT ![k] = o]
      /\ bytes' = [bytes EXCEPT ![o] = Blank]
      /\ fd' = [fd EXCEPT ![u] = o]
      /\ written' = written
    BY DEF CreateFile
<1> HIDE DEF o
<1> QED
    BY <1>1, <1>2, <1>3 DEF StorageTypeOK

\* Storing a whole object keeps the types of the storage.
LEMMA PutObjectType ==
    ASSUME StorageTypeOK, NEW u \in Uploads, NEW k \in Keys, PutObject(u, k)
    PROVE  StorageTypeOK'
<1>1. Whole(ContentOf[u]) \in [Pieces -> Contents \cup {Hole}]
    BY DEF Whole
<1> QED
    BY <1>1 DEF StorageTypeOK, PutObject

\* Every step keeps the types.  A writer's and a reader's object exist, which
\* the types alone do not say.
LEMMA TypeStep ==
    ASSUME TypeOK, FilesOfKey, ReaderFile, [Next]_vars
    PROVE  TypeOK'
<1> USE DEF TypeOK, StorageTypeOK, UploadPC, DownloadPC, tableVars,
            uploadVars, downloadVars, storageVars, Goto, Answer, Discard,
            Remove
<1>1. ASSUME NEW u \in Uploads, UploadNext(u) PROVE TypeOK'
  <2>1. CASE StoreRefused(u)
    BY <2>1 DEF StoreRefused
  <2>2. CASE StoreBegin(u)
    <3>1. KeyOf[u] \in Keys /\ Blank \in [Pieces -> Contents \cup {Hole}]
      BY DEF Blank
    <3>2. disputed' \subseteq Keys
      BY <2>2, <3>1 DEF StoreBegin
    <3>3. StorageTypeOK'
      BY <2>2, <3>1, CreateFileType DEF StoreBegin
    <3> QED
      BY <2>2, <3>2, <3>3 DEF StoreBegin
  <2>3. CASE WritePiece(u)
    <3>1. fd[u] \in Uploads /\ written[u] + 1 \in Pieces
      BY <2>3 DEF WritePiece, WriteFile, FilesOfKey, Pieces
    <3> QED
      BY <2>3, <3>1 DEF WritePiece, WriteFile, Pieces
  <2>4. CASE WriteFails(u)
    BY <2>4 DEF WriteFails
  <2>5. CASE StoreReturns(u)
    BY <2>5 DEF StoreReturns
  <2>6. CASE PutSucceeds(u)
    BY <2>6, PutObjectType DEF PutSucceeds
  <2>7. CASE PutFails(u)
    <3>1. StorageTypeOK' /\ leaked' \subseteq Keys
      BY <2>7, PutObjectType DEF PutFails
    <3> QED
      BY <2>7, <3>1 DEF PutFails
  <2>8. CASE SaveArtifact(u)
    BY <2>8 DEF SaveArtifact, Insert
  <2>9. CASE SaveConflicts(u)
    BY <2>9 DEF SaveConflicts
  <2>10. CASE SaveFails(u)
    BY <2>10 DEF SaveFails
  <2>11. CASE SaveUnconfirmed(u)
    BY <2>11 DEF SaveUnconfirmed, Insert
  <2>12. CASE Cleanup(u)
    BY <2>12 DEF Cleanup
  <2>13. CASE Respond(u)
    BY <2>13 DEF Respond
  <2> QED
    BY <1>1, <2>1, <2>2, <2>3, <2>4, <2>5, <2>6, <2>7, <2>8, <2>9, <2>10,
       <2>11, <2>12, <2>13 DEF UploadNext
<1>2. ASSUME NEW d \in Downloads, DownloadNext(d) PROVE TypeOK'
  <2>1. CASE \E k \in Keys : Lookup(d, k)
    BY <2>1 DEF Lookup
  <2>2. CASE Redirect(d)
    BY <2>2 DEF Redirect
  <2>3. CASE OpenObject(d)
    BY <2>3 DEF OpenObject, ReaderFile
  <2>4. CASE OpenFails(d)
    BY <2>4 DEF OpenFails
  <2>5. CASE ReadPiece(d)
    <3>1. rfd[d] \in Uploads /\ Len(got[d]) + 1 \in Pieces
      BY <2>5 DEF ReadPiece, ReaderFile, Pieces
    <3>2. bytes[rfd[d]][Len(got[d]) + 1] \in Contents \cup {Hole}
      BY <3>1
    <3>3. Append(got[d], bytes[rfd[d]][Len(got[d]) + 1])
              \in Seq(Contents \cup {Hole})
      BY <3>2
    <3> QED
      BY <2>5, <3>3 DEF ReadPiece
  <2>6. CASE ServeEnds(d)
    BY <2>6 DEF ServeEnds
  <2> QED
    BY <1>2, <2>1, <2>2, <2>3, <2>4, <2>5, <2>6 DEF DownloadNext
<1>3. CASE Crash
    BY <1>3 DEF Crash
<1>4. CASE UNCHANGED vars
    BY <1>4 DEF vars
<1> QED
    BY <1>1, <1>2, <1>3, <1>4 DEF Next

\* Files and rows stay with their keys.
LEMMA FilesStep ==
    ASSUME TypeOK, FilesOfKey, RowsOfKey, [Next]_vars
    PROVE  FilesOfKey' /\ RowsOfKey'
<1> USE DEF TypeOK, StorageTypeOK, tableVars, uploadVars, downloadVars,
            storageVars, Goto, Answer, FilesOfKey, RowsOfKey
<1>1. ASSUME NEW u \in Uploads, UploadNext(u) PROVE FilesOfKey' /\ RowsOfKey'
  <2>1. CASE StoreRefused(u)
    BY <2>1 DEF StoreRefused
  <2>2. CASE StoreBegin(u)
    <3> DEFINE o == IF object[KeyOf[u]] = NoObject THEN u
                                             ELSE object[KeyOf[u]]
    <3>1. KeyOf[u] \in Keys /\ o \in Uploads /\ KeyOf[o] = KeyOf[u]
      OBVIOUS
    <3>2. CASE backend = "local"
      <4>1. object' = [object EXCEPT ![KeyOf[u]] = o] /\ fd' = [fd EXCEPT ![u] = o]
        BY <2>2, <3>2 DEF StoreBegin, CreateFile
      <4> HIDE DEF o
      <4> QED
        BY <2>2, <3>1, <4>1 DEF StoreBegin
    <3>3. CASE backend # "local"
      BY <2>2, <3>3 DEF StoreBegin
    <3> QED
      BY <3>2, <3>3
  <2>3. CASE WritePiece(u)
    BY <2>3 DEF WritePiece, WriteFile
  <2>4. CASE WriteFails(u)
    BY <2>4 DEF WriteFails, Discard, Remove
  <2>5. CASE StoreReturns(u)
    BY <2>5 DEF StoreReturns
  <2>6. CASE PutSucceeds(u)
    BY <2>6 DEF PutSucceeds, PutObject
  <2>7. CASE PutFails(u)
    BY <2>7 DEF PutFails, PutObject
  <2>8. CASE SaveArtifact(u)
    BY <2>8 DEF SaveArtifact, Insert
  <2>9. CASE SaveConflicts(u)
    BY <2>9 DEF SaveConflicts
  <2>10. CASE SaveFails(u)
    BY <2>10 DEF SaveFails
  <2>11. CASE SaveUnconfirmed(u)
    BY <2>11 DEF SaveUnconfirmed, Insert
  <2>12. CASE Cleanup(u)
    BY <2>12 DEF Cleanup, Discard, Remove
  <2>13. CASE Respond(u)
    BY <2>13 DEF Respond
  <2> QED
    BY <1>1, <2>1, <2>2, <2>3, <2>4, <2>5, <2>6, <2>7, <2>8, <2>9, <2>10,
       <2>11, <2>12, <2>13 DEF UploadNext
<1>2. ASSUME NEW d \in Downloads, DownloadNext(d) PROVE FilesOfKey' /\ RowsOfKey'
    BY <1>2 DEF DownloadNext, Lookup, Redirect, OpenObject, OpenFails,
       ReadPiece, ServeEnds
<1>3. CASE Crash
    BY <1>3 DEF Crash
<1>4. CASE UNCHANGED vars
    BY <1>4 DEF vars
<1> QED
    BY <1>1, <1>2, <1>3, <1>4 DEF Next

\* A row is never replaced, and only its upload is told 201.
LEMMA CreatedStep ==
    ASSUME TypeOK, CreatedMeansRow, [Next]_vars
    PROVE  CreatedMeansRow'
<1> USE DEF TypeOK, StorageTypeOK, tableVars, uploadVars, downloadVars,
            storageVars, Goto, Answer, CreatedMeansRow
<1>1. ASSUME NEW u \in Uploads, UploadNext(u) PROVE CreatedMeansRow'
  <2>1. CASE StoreRefused(u)
    BY <2>1 DEF StoreRefused
  <2>2. CASE StoreBegin(u)
    BY <2>2 DEF StoreBegin, CreateFile
  <2>3. CASE WritePiece(u)
    BY <2>3 DEF WritePiece, WriteFile
  <2>4. CASE WriteFails(u)
    BY <2>4 DEF WriteFails, Discard, Remove
  <2>5. CASE StoreReturns(u)
    BY <2>5 DEF StoreReturns
  <2>6. CASE PutSucceeds(u)
    BY <2>6 DEF PutSucceeds, PutObject
  <2>7. CASE PutFails(u)
    BY <2>7 DEF PutFails, PutObject
  <2>8. CASE SaveArtifact(u)
    BY <2>8 DEF SaveArtifact, Insert
  <2>9. CASE SaveConflicts(u)
    BY <2>9 DEF SaveConflicts
  <2>10. CASE SaveFails(u)
    BY <2>10 DEF SaveFails
  <2>11. CASE SaveUnconfirmed(u)
    BY <2>11 DEF SaveUnconfirmed, Insert
  <2>12. CASE Cleanup(u)
    BY <2>12 DEF Cleanup, Discard, Remove
  <2>13. CASE Respond(u)
    BY <2>13 DEF Respond
  <2> QED
    BY <1>1, <2>1, <2>2, <2>3, <2>4, <2>5, <2>6, <2>7, <2>8, <2>9, <2>10,
       <2>11, <2>12, <2>13 DEF UploadNext
<1>2. ASSUME NEW d \in Downloads, DownloadNext(d) PROVE CreatedMeansRow'
    BY <1>2 DEF DownloadNext, Lookup, Redirect, OpenObject, OpenFails,
       ReadPiece, ServeEnds
<1>3. CASE Crash
    BY <1>3 DEF Crash
<1>4. CASE UNCHANGED vars
    BY <1>4 DEF vars
<1> QED
    BY <1>1, <1>2, <1>3, <1>4 DEF Next

\* An upload that joins another one on its key, or finds the row there,
\* disputes the key.
LEMMA SoleWriterStep ==
    ASSUME TypeOK, SoleWriter, [Next]_vars
    PROVE  SoleWriter'
<1> USE DEF TypeOK, StorageTypeOK, tableVars, uploadVars, downloadVars,
            storageVars, Goto, Answer, SoleWriter, Active
<1>1. ASSUME NEW u \in Uploads, UploadNext(u) PROVE SoleWriter'
  <2>1. CASE StoreRefused(u)
    BY <2>1 DEF StoreRefused
  <2>2. CASE StoreBegin(u)
    BY <2>2 DEF StoreBegin, CreateFile
  <2>3. CASE WritePiece(u)
    BY <2>3 DEF WritePiece, WriteFile
  <2>4. CASE WriteFails(u)
    BY <2>4 DEF WriteFails, Discard, Remove
  <2>5. CASE StoreReturns(u)
    BY <2>5 DEF StoreReturns
  <2>6. CASE PutSucceeds(u)
    BY <2>6 DEF PutSucceeds, PutObject
  <2>7. CASE PutFails(u)
    BY <2>7 DEF PutFails, PutObject
  <2>8. CASE SaveArtifact(u)
    BY <2>8 DEF SaveArtifact, Insert
  <2>9. CASE SaveConflicts(u)
    BY <2>9 DEF SaveConflicts
  <2>10. CASE SaveFails(u)
    BY <2>10 DEF SaveFails
  <2>11. CASE SaveUnconfirmed(u)
    BY <2>11 DEF SaveUnconfirmed, Insert
  <2>12. CASE Cleanup(u)
    BY <2>12 DEF Cleanup, Discard, Remove
  <2>13. CASE Respond(u)
    BY <2>13 DEF Respond
  <2> QED
    BY <1>1, <2>1, <2>2, <2>3, <2>4, <2>5, <2>6, <2>7, <2>8, <2>9, <2>10,
       <2>11, <2>12, <2>13 DEF UploadNext
<1>2. ASSUME NEW d \in Downloads, DownloadNext(d) PROVE SoleWriter'
    BY <1>2 DEF DownloadNext, Lookup, Redirect, OpenObject, OpenFails,
       ReadPiece, ServeEnds
<1>3. CASE Crash
    BY <1>3 DEF Crash
<1>4. CASE UNCHANGED vars
    BY <1>4 DEF vars
<1> QED
    BY <1>1, <1>2, <1>3, <1>4 DEF Next

\* Whoever puts an object at a key owes its row or its removal.
LEMMA OrphanStep ==
    ASSUME TypeOK, OrphanHasOwner, [Next]_vars
    PROVE  OrphanHasOwner'
<1> USE DEF TypeOK, StorageTypeOK, tableVars, uploadVars, downloadVars,
            storageVars, Goto, Answer, OrphanHasOwner, Owes, Active
<1>1. ASSUME NEW u \in Uploads, UploadNext(u) PROVE OrphanHasOwner'
  <2>1. CASE StoreRefused(u)
    BY <2>1 DEF StoreRefused
  <2>2. CASE StoreBegin(u)
    <3> SUFFICES ASSUME NEW k \in Keys, object'[k] # NoObject,
                        artifactRow'[k] = NoRow, k \notin leaked'
                 PROVE  \E v \in Uploads : KeyOf[v] = k /\ Owes(v)'
      OBVIOUS
    <3>1. CASE k = KeyOf[u]
      <4>1. CASE backend = "local"
        BY <2>2, <3>1, <4>1 DEF StoreBegin
      <4>2. CASE backend # "local"
        <5>1. object[k] # NoObject /\ artifactRow[k] = NoRow /\ k \notin leaked
          BY <2>2, <4>2 DEF StoreBegin
        <5>2. PICK v \in Uploads : KeyOf[v] = k /\ Owes(v)
          BY <5>1
        <5>3. Owes(v)'
          BY <2>2, <4>2, <5>2 DEF StoreBegin
        <5> QED
          BY <5>2, <5>3
      <4> QED
        BY <4>1, <4>2
    <3>2. CASE k # KeyOf[u]
      <4>1. object[k] # NoObject /\ artifactRow[k] = NoRow /\ k \notin leaked
        BY <2>2, <3>2 DEF StoreBegin, CreateFile
      <4>2. PICK v \in Uploads : KeyOf[v] = k /\ Owes(v)
        BY <4>1
      <4>3. v # u /\ Owes(v)'
        BY <2>2, <3>2, <4>2 DEF StoreBegin
      <4> QED
        BY <4>2, <4>3
    <3> QED
      BY <3>1, <3>2
  <2>3. CASE WritePiece(u)
    BY <2>3 DEF WritePiece, WriteFile
  <2>4. CASE WriteFails(u)
    <3> SUFFICES ASSUME NEW k \in Keys, object'[k] # NoObject,
                        artifactRow'[k] = NoRow, k \notin leaked'
                 PROVE  \E v \in Uploads : KeyOf[v] = k /\ Owes(v)'
      OBVIOUS
    <3>1. k # KeyOf[u]
      BY <2>4 DEF WriteFails, Discard, Remove
    <3>2. object[k] # NoObject /\ artifactRow[k] = NoRow /\ k \notin leaked
      BY <2>4, <3>1 DEF WriteFails, Discard, Remove
    <3>3. PICK v \in Uploads : KeyOf[v] = k /\ Owes(v)
      BY <3>2
    <3>4. v # u /\ Owes(v)'
      BY <2>4, <3>1, <3>3 DEF WriteFails
    <3> QED
      BY <3>3, <3>4
  <2>5. CASE StoreReturns(u)
    BY <2>5 DEF StoreReturns
  <2>6. CASE PutSucceeds(u)
    BY <2>6 DEF PutSucceeds, PutObject
  <2>7. CASE PutFails(u)
    <3> SUFFICES ASSUME NEW k \in Keys, object'[k] # NoObject,
                        artifactRow'[k] = NoRow, k \notin leaked'
                 PROVE  \E v \in Uploads : KeyOf[v] = k /\ Owes(v)'
      OBVIOUS
    <3>1. CASE k = KeyOf[u]
      <4>1. UNCHANGED <<object, leaked>>
        BY <2>7, <3>1 DEF PutFails
      <4>2. object[k] # NoObject /\ artifactRow[k] = NoRow /\ k \notin leaked
        BY <2>7, <4>1 DEF PutFails
      <4>3. PICK v \in Uploads : KeyOf[v] = k /\ Owes(v)
        BY <4>2
      <4>4. Owes(v)'
        BY <2>7, <4>3 DEF PutFails
      <4> QED
        BY <4>3, <4>4
    <3>2. CASE k # KeyOf[u]
      <4>1. object[k] # NoObject /\ artifactRow[k] = NoRow /\ k \notin leaked
        BY <2>7, <3>2 DEF PutFails, PutObject
      <4>2. PICK v \in Uploads : KeyOf[v] = k /\ Owes(v)
        BY <4>1
      <4>3. v # u /\ Owes(v)'
        BY <2>7, <3>2, <4>2 DEF PutFails
      <4> QED
        BY <4>2, <4>3
    <3> QED
      BY <3>1, <3>2
  <2>8. CASE SaveArtifact(u)
    BY <2>8 DEF SaveArtifact, Insert
  <2>9. CASE SaveConflicts(u)
    BY <2>9 DEF SaveConflicts
  <2>10. CASE SaveFails(u)
    BY <2>10 DEF SaveFails
  <2>11. CASE SaveUnconfirmed(u)
    BY <2>11 DEF SaveUnconfirmed, Insert
  <2>12. CASE Cleanup(u)
    <3> SUFFICES ASSUME NEW k \in Keys, object'[k] # NoObject,
                        artifactRow'[k] = NoRow, k \notin leaked'
                 PROVE  \E v \in Uploads : KeyOf[v] = k /\ Owes(v)'
      OBVIOUS
    <3>1. k # KeyOf[u]
      BY <2>12 DEF Cleanup, Discard, Remove
    <3>2. object[k] # NoObject /\ artifactRow[k] = NoRow /\ k \notin leaked
      BY <2>12, <3>1 DEF Cleanup, Discard, Remove
    <3>3. PICK v \in Uploads : KeyOf[v] = k /\ Owes(v)
      BY <3>2
    <3>4. v # u /\ Owes(v)'
      BY <2>12, <3>1, <3>3 DEF Cleanup
    <3> QED
      BY <3>3, <3>4
  <2>13. CASE Respond(u)
    BY <2>13 DEF Respond
  <2> QED
    BY <1>1, <2>1, <2>2, <2>3, <2>4, <2>5, <2>6, <2>7, <2>8, <2>9, <2>10,
       <2>11, <2>12, <2>13 DEF UploadNext
<1>2. ASSUME NEW d \in Downloads, DownloadNext(d) PROVE OrphanHasOwner'
  <2>1. UNCHANGED <<object, backend, artifactRow, pc, leaked>>
    BY <1>2 DEF DownloadNext, Lookup, Redirect, OpenObject, OpenFails,
       ReadPiece, ServeEnds
  <2> QED
    BY <2>1
<1>3. CASE Crash
    BY <1>3 DEF Crash
<1>4. CASE UNCHANGED vars
    BY <1>4 DEF vars
<1> QED
    BY <1>1, <1>2, <1>3, <1>4 DEF Next

\* An upload leaves the objects, the row and the uploads of other keys alone.
LEMMA OtherKey ==
    ASSUME TypeOK, FilesOfKey, NEW u \in Uploads, UploadNext(u),
           NEW k \in Keys, KeyOf[u] # k
    PROVE  /\ object'[k] = object[k]
           /\ artifactRow'[k] = artifactRow[k]
           /\ \A o \in Uploads : KeyOf[o] = k => bytes'[o] = bytes[o]
           /\ \A v \in Uploads : KeyOf[v] = k => /\ pc'[v] = pc[v]
                                                 /\ fd'[v] = fd[v]
                                                 /\ written'[v] = written[v]
<1> USE DEF TypeOK, StorageTypeOK, tableVars, uploadVars, downloadVars,
            storageVars, Goto, Answer
<1>1. CASE StoreRefused(u) \/ StoreReturns(u) \/ Respond(u)
    BY <1>1 DEF StoreRefused, StoreReturns, Respond
<1>2. CASE StoreBegin(u)
  <2> DEFINE f == IF object[KeyOf[u]] = NoObject THEN u ELSE object[KeyOf[u]]
  <2>1. f \in Uploads /\ KeyOf[f] = KeyOf[u]
    BY DEF FilesOfKey
  <2>2. CASE backend = "local"
    <3>1. /\ object' = [object EXCEPT ![KeyOf[u]] = f]
          /\ bytes' = [bytes EXCEPT ![f] = Blank]
          /\ fd' = [fd EXCEPT ![u] = f]
          /\ written' = written
      BY <1>2, <2>2 DEF StoreBegin, CreateFile
    <3> HIDE DEF f
    <3> QED
      BY <1>2, <2>1, <3>1 DEF StoreBegin
  <2>3. CASE backend # "local"
    BY <1>2, <2>3 DEF StoreBegin
  <2> QED
    BY <2>2, <2>3
<1>3. CASE WritePiece(u)
    BY <1>3 DEF WritePiece, WriteFile, FilesOfKey
<1>4. CASE WriteFails(u) \/ Cleanup(u)
    BY <1>4 DEF WriteFails, Cleanup, Discard, Remove
<1>5. CASE PutSucceeds(u) \/ PutFails(u)
    BY <1>5 DEF PutSucceeds, PutFails, PutObject
<1>6. CASE SaveArtifact(u) \/ SaveUnconfirmed(u)
    BY <1>6 DEF SaveArtifact, SaveUnconfirmed, Insert
<1>7. CASE SaveConflicts(u) \/ SaveFails(u)
    BY <1>7 DEF SaveConflicts, SaveFails
<1> QED
    BY <1>1, <1>2, <1>3, <1>4, <1>5, <1>6, <1>7 DEF UploadNext

\* What is disputed stays so.
LEMMA DisputedGrows ==
    ASSUME NEW u \in Uploads, UploadNext(u)
    PROVE  disputed \subseteq disputed'
BY DEF UploadNext, StoreRefused, StoreBegin, WritePiece, WriteFails,
       StoreReturns, PutSucceeds, PutFails, SaveArtifact, SaveConflicts,
       SaveFails, SaveUnconfirmed, Cleanup, Respond

\* A step of an upload that does not dispute a key leaves the key's object as
\* it is when the version has its row or another upload is active on the key.
LEMMA TakenKeyKept ==
    ASSUME TypeOK, FilesOfKey, SoleWriter, NEW u \in Uploads, UploadNext(u),
           NEW k \in Keys, k \notin disputed',
           \/ artifactRow[k] # NoRow
           \/ \E v \in Uploads \ {u} : Active(v) /\ KeyOf[v] = k
    PROVE  /\ object'[k] = object[k]
           /\ artifactRow'[k] = artifactRow[k]
           /\ \A o \in Uploads : KeyOf[o] = k => bytes'[o] = bytes[o]
<1>1. CASE KeyOf[u] # k
    BY <1>1, OtherKey
<1>2. CASE KeyOf[u] = k
  <2>1. ~ Active(u)
    BY <1>2, DisputedGrows DEF SoleWriter
  <2>2. ~ StoreBegin(u)
    BY <1>2, <2>1 DEF StoreBegin
  <2>3. StoreRefused(u) \/ Respond(u)
    BY <2>1, <2>2 DEF Active, UploadNext, Goto, WritePiece, WriteFails,
       StoreReturns, PutSucceeds, PutFails, SaveArtifact, SaveConflicts,
       SaveFails, SaveUnconfirmed, Cleanup
  <2> QED
    BY <2>3 DEF StoreRefused, Respond, storageVars, tableVars
<1> QED
    BY <1>1, <1>2


\* A step of upload u moves no other upload.
LEMMA OtherUpload ==
    ASSUME TypeOK, NEW u \in Uploads, UploadNext(u), NEW v \in Uploads \ {u}
    PROVE  /\ pc'[v] = pc[v]
           /\ fd'[v] = fd[v]
           /\ written'[v] = written[v]
           /\ backend' = backend
BY DEF TypeOK, StorageTypeOK, storageVars, Goto, UploadNext, StoreRefused,
       StoreBegin, CreateFile, WritePiece, WriteFile, WriteFails, Discard,
       Remove, StoreReturns, PutSucceeds, PutFails, PutObject, SaveArtifact,
       SaveConflicts, SaveFails, SaveUnconfirmed, Cleanup, Respond,
       uploadVars

\* A step of an upload keeps its own progress.
LEMMA OwnProgress ==
    ASSUME TypeOK, FilesOfKey, WriterProgress, NEW u \in Uploads,
           UploadNext(u), KeyOf[u] \notin disputed'
    PROVE  /\ backend' = "local" /\ pc'[u] = "storing" => WrittenSoFar(u)'
           /\ pc'[u] = "stored" => Holds(KeyOf[u], ContentOf[u])'
<1> USE DEF TypeOK, StorageTypeOK, storageVars, uploadVars, Goto
<1>1. CASE StoreBegin(u)
  <2>1. SUFFICES ASSUME backend' = "local" PROVE WrittenSoFar(u)'
    BY <1>1 DEF StoreBegin
  <2>2. backend = "local" /\ CreateFile(u, KeyOf[u])
    BY <1>1, <2>1 DEF StoreBegin
  <2>3. written'[u] = 0 /\ fd'[u] = object'[KeyOf[u]]
    BY <1>1, <2>2 DEF StoreBegin, CreateFile, WriterProgress
  <2> QED
    BY <2>3 DEF WrittenSoFar
<1>2. CASE WritePiece(u)
  <2>1. WrittenSoFar(u) /\ fd[u] \in Uploads /\ pc[u] = "storing"
    BY <1>2 DEF WritePiece, WriterProgress, FilesOfKey
  <2>2. fd'[u] = object'[KeyOf[u]] /\ fd'[u] = fd[u]
    BY <1>2, <2>1 DEF WritePiece, WriteFile, WrittenSoFar
  <2>3. ASSUME NEW p \in 1..written'[u] PROVE bytes'[fd[u]][p] = ContentOf[u]
    <3>1. p \in 1..written[u] \/ p = written[u] + 1
      BY <1>2, <2>3 DEF WritePiece, WriteFile
    <3>2. p \in Pieces
      BY <1>2, <3>1 DEF WritePiece, WriteFile, Pieces
    <3> QED
      BY <1>2, <2>1, <3>1, <3>2 DEF WritePiece, WriteFile, WrittenSoFar
  <2> QED
    BY <1>2, <2>1, <2>2, <2>3 DEF WritePiece, WrittenSoFar
<1>3. CASE StoreReturns(u)
  <2>1. /\ WrittenSoFar(u) /\ fd[u] \in Uploads /\ written[u] = NPieces
        /\ pc'[u] = "stored"
    BY <1>3 DEF StoreReturns, WriterProgress, FilesOfKey
  <2>2. bytes[fd[u]] = Whole(ContentOf[u])
    BY <2>1 DEF WrittenSoFar, Whole, Pieces
  <2>3. Holds(KeyOf[u], ContentOf[u])
    BY <2>1, <2>2 DEF WrittenSoFar, Holds
  <2> QED
    BY <1>3, <2>1, <2>3 DEF StoreReturns, Holds
<1>4. CASE PutSucceeds(u)
    BY <1>4 DEF PutSucceeds, PutObject, Holds
<1>5. CASE ~ (\/ StoreBegin(u) \/ WritePiece(u) \/ StoreReturns(u)
              \/ PutSucceeds(u))
    BY <1>5 DEF UploadNext, StoreRefused, WriteFails, PutFails, SaveArtifact,
       SaveConflicts, SaveFails, SaveUnconfirmed, Cleanup, Respond
<1> QED
    BY <1>1, <1>2, <1>3, <1>4, <1>5

\* Every step keeps every writer's progress on the undisputed keys.
LEMMA WriterStep ==
    ASSUME TypeOK, FilesOfKey, SoleWriter, WriterProgress, [Next]_vars
    PROVE  WriterProgress'
<1>1. ASSUME NEW u \in Uploads, UploadNext(u), NEW v \in Uploads
      PROVE  /\ pc'[v] = "idle" => written'[v] = 0
             /\ KeyOf[v] \notin disputed' =>
                  /\ backend' = "local" /\ pc'[v] = "storing"
                        => WrittenSoFar(v)'
                  /\ pc'[v] = "stored" => Holds(KeyOf[v], ContentOf[v])'
  <2>1. CASE v = u
    <3>1. pc'[u] # "idle"
      BY <1>1 DEF TypeOK, UploadNext, StoreRefused, StoreBegin, WritePiece,
         WriteFails, StoreReturns, PutSucceeds, PutFails, SaveArtifact,
         SaveConflicts, SaveFails, SaveUnconfirmed, Cleanup, Respond, Goto,
         uploadVars
    <3> QED
      BY <1>1, <2>1, <3>1, OwnProgress
  <2>2. CASE v # u
    <3>1. /\ pc'[v] = pc[v] /\ fd'[v] = fd[v] /\ written'[v] = written[v]
          /\ backend' = backend
      BY <1>1, <2>2, OtherUpload
    <3>2. SUFFICES ASSUME KeyOf[v] \notin disputed',
                          \/ backend = "local" /\ pc[v] = "storing"
                          \/ pc[v] = "stored"
                   PROVE  /\ backend' = "local" /\ pc'[v] = "storing"
                               => WrittenSoFar(v)'
                          /\ pc'[v] = "stored"
                               => Holds(KeyOf[v], ContentOf[v])'
      BY <3>1 DEF WriterProgress
    <3>3. /\ object'[KeyOf[v]] = object[KeyOf[v]]
          /\ \A o \in Uploads : KeyOf[o] = KeyOf[v] => bytes'[o] = bytes[o]
      BY <1>1, <2>2, <3>2, TakenKeyKept DEF Active
    <3>4. KeyOf[v] \notin disputed
      BY <1>1, <3>2, DisputedGrows
    <3>5. ASSUME backend = "local", pc[v] = "storing" PROVE WrittenSoFar(v)'
      BY <3>1, <3>3, <3>4, <3>5 DEF WriterProgress, WrittenSoFar, FilesOfKey
    <3>6. ASSUME pc[v] = "stored" PROVE Holds(KeyOf[v], ContentOf[v])'
      <4>1. object[KeyOf[v]] \in Uploads /\ KeyOf[object[KeyOf[v]]] = KeyOf[v]
        BY <3>4, <3>6 DEF WriterProgress, Holds, FilesOfKey, TypeOK,
           StorageTypeOK
      <4> QED
        BY <3>3, <3>4, <3>6, <4>1 DEF WriterProgress, Holds
    <3> QED
      BY <3>1, <3>5, <3>6
  <2> QED
    BY <2>1, <2>2
<1>2. ASSUME NEW d \in Downloads, DownloadNext(d) PROVE WriterProgress'
    BY <1>2 DEF DownloadNext, Lookup, Redirect, OpenObject, OpenFails,
       ReadPiece, ServeEnds, WriterProgress, WrittenSoFar, Holds,
       storageVars, uploadVars
<1>3. CASE Crash
    BY <1>3 DEF Crash, WriterProgress, WrittenSoFar, Holds, storageVars,
       Active, TypeOK
<1>4. CASE UNCHANGED vars
    BY <1>4 DEF vars, WriterProgress, WrittenSoFar, Holds
<1> QED
  <2>1. CASE \E u \in Uploads : UploadNext(u)
    BY <1>1, <2>1 DEF WriterProgress
  <2> QED
    BY <1>2, <1>3, <1>4, <2>1 DEF Next

\* A step of an upload keeps the published versions intact.
LEMMA PublishedStep ==
    ASSUME TypeOK, FilesOfKey, RowsOfKey, SoleWriter, WriterProgress,
           PublishedIntact, [Next]_vars
    PROVE  PublishedIntact'
<1>1. ASSUME NEW u \in Uploads, UploadNext(u), NEW k \in Keys,
             artifactRow'[k] # NoRow, k \notin disputed'
      PROVE  Holds(k, ContentOf[artifactRow[k]])'
  <2>1. k \notin disputed
    BY <1>1, DisputedGrows
  <2>2. CASE artifactRow[k] # NoRow
    <3>1. Holds(k, ContentOf[artifactRow[k]])
      BY <2>1, <2>2 DEF PublishedIntact
    <3>2. object[k] \in Uploads /\ KeyOf[object[k]] = k
      BY <3>1 DEF Holds, FilesOfKey, TypeOK, StorageTypeOK
    <3>3. /\ object'[k] = object[k] /\ artifactRow'[k] = artifactRow[k]
          /\ bytes'[object[k]] = bytes[object[k]]
      BY <1>1, <2>2, <3>2, TakenKeyKept
    <3> QED
      BY <3>1, <3>3 DEF Holds
  <2>3. CASE artifactRow[k] = NoRow
    <3>1. SaveArtifact(u) \/ SaveUnconfirmed(u)
      BY <1>1, <2>3 DEF UploadNext, StoreRefused, StoreBegin, WritePiece,
         WriteFails, StoreReturns, PutSucceeds, PutFails, SaveConflicts,
         SaveFails, Cleanup, Respond, tableVars
    <3>2. k = KeyOf[u] /\ artifactRow'[k] = u
      BY <1>1, <2>3, <3>1 DEF SaveArtifact, SaveUnconfirmed, Insert, TypeOK
    <3>3. SaveArtifact(u)
      BY <1>1, <3>1, <3>2 DEF SaveUnconfirmed
    <3>4. Holds(k, ContentOf[u])
      BY <2>1, <3>2, <3>3 DEF SaveArtifact, Goto, WriterProgress
    <3> QED
      BY <3>2, <3>3, <3>4 DEF SaveArtifact, storageVars, Holds
  <2> QED
    BY <2>2, <2>3
<1>2. ASSUME NEW d \in Downloads, DownloadNext(d) PROVE PublishedIntact'
    BY <1>2 DEF DownloadNext, Lookup, Redirect, OpenObject, OpenFails,
       ReadPiece, ServeEnds, PublishedIntact, Holds, storageVars, tableVars
<1>3. CASE Crash
    BY <1>3 DEF Crash, PublishedIntact, Holds, storageVars, tableVars
<1>4. CASE UNCHANGED vars
    BY <1>4 DEF vars, PublishedIntact, Holds
<1> QED
  <2>1. CASE \E u \in Uploads : UploadNext(u)
    BY <1>1, <2>1 DEF PublishedIntact
  <2> QED
    BY <1>2, <1>3, <1>4, <2>1 DEF Next

\* Rows are inserted and never changed.
LEMMA RowsKept ==
    ASSUME TypeOK, [Next]_vars
    PROVE  \A k \in Keys : artifactRow[k] # NoRow
                              => artifactRow'[k] = artifactRow[k]
BY DEF TypeOK, Next, vars, Crash, DownloadNext, Lookup, Redirect, OpenObject,
       OpenFails, ReadPiece, ServeEnds, UploadNext, StoreRefused, StoreBegin,
       WritePiece, WriteFails, StoreReturns, PutSucceeds, PutFails,
       SaveArtifact, Insert, SaveConflicts, SaveFails, SaveUnconfirmed,
       Cleanup, Respond, tableVars

\* A download goes on reading the file its version's key leads to, and what
\* it receives comes from there.
LEMMA ReaderStep ==
    ASSUME TypeOK, FilesOfKey, RowsOfKey, SoleWriter, PublishedIntact,
           ReaderFile, DownloadFaithful, [Next]_vars
    PROVE  ReaderFile' /\ DownloadFaithful'
<1> USE DEF TypeOK, StorageTypeOK, storageVars, tableVars, uploadVars,
            downloadVars
<1>1. ASSUME NEW u \in Uploads, UploadNext(u)
      PROVE  ReaderFile' /\ DownloadFaithful'
  <2>1. UNCHANGED downloadVars
    BY <1>1 DEF UploadNext, StoreRefused, StoreBegin, WritePiece, WriteFails,
       StoreReturns, PutSucceeds, PutFails, SaveArtifact, SaveConflicts,
       SaveFails, SaveUnconfirmed, Cleanup, Respond
  <2>2. ASSUME NEW d \in Downloads, seen[d] # NoRow
        PROVE  artifactRow'[KeyOf[seen[d]]] = seen[d]
    BY <2>2, RowsKept DEF ReaderFile
  <2>3. ASSUME NEW d \in Downloads, dpc[d] \in {"streaming", "fetching"},
               KeyOf[seen[d]] \notin disputed'
        PROVE  rfd[d] = object'[KeyOf[seen[d]]]
    <3>1. seen[d] \in Uploads /\ artifactRow[KeyOf[seen[d]]] # NoRow
      BY <2>3 DEF ReaderFile
    <3>2. object'[KeyOf[seen[d]]] = object[KeyOf[seen[d]]]
      BY <1>1, <2>3, <3>1, TakenKeyKept
    <3> QED
      BY <1>1, <2>3, <3>2, DisputedGrows DEF ReaderFile
  <2>4. ReaderFile'
    BY <2>1, <2>2, <2>3 DEF ReaderFile
  <2>5. DownloadFaithful'
    BY <1>1, <2>1, DisputedGrows DEF DownloadFaithful
  <2> QED
    BY <2>4, <2>5
<1>2. ASSUME NEW d \in Downloads, DownloadNext(d)
      PROVE  ReaderFile' /\ DownloadFaithful'
  <2>1. CASE \E k \in Keys : Lookup(d, k)
    <3>1. PICK k \in Keys : Lookup(d, k)
      BY <2>1
    <3>2. ReaderFile'
      BY <3>1 DEF Lookup, RowsOfKey, ReaderFile
    <3>3. got[d] = << >>
      BY <3>1 DEF Lookup, ReaderFile
    <3>4. DownloadFaithful'
      BY <3>1, <3>3 DEF Lookup, DownloadFaithful
    <3> QED
      BY <3>2, <3>4
  <2>2. CASE Redirect(d)
    BY <2>2 DEF Redirect, ReaderFile, DownloadFaithful
  <2>3. CASE OpenObject(d)
    BY <2>3 DEF OpenObject, ReaderFile, DownloadFaithful
  <2>4. CASE OpenFails(d)
    BY <2>4 DEF OpenFails, ReaderFile, DownloadFaithful
  <2>5. CASE ReadPiece(d)
    <3>1. ReaderFile'
      BY <2>5 DEF ReadPiece, ReaderFile
    <3>2. ASSUME KeyOf[seen[d]] \notin disputed
          PROVE  bytes[rfd[d]][Len(got[d]) + 1] = ContentOf[seen[d]]
      <4>1. Holds(KeyOf[seen[d]], ContentOf[seen[d]])
        BY <2>5, <3>2 DEF ReadPiece, ReaderFile, PublishedIntact
      <4>2. bytes[rfd[d]] = Whole(ContentOf[seen[d]])
        BY <2>5, <3>2, <4>1 DEF ReadPiece, ReaderFile, Holds
      <4> QED
        BY <2>5, <4>2 DEF ReadPiece, Whole, Pieces
    <3>3. DownloadFaithful'
      BY <2>5, <3>2 DEF ReadPiece, DownloadFaithful
    <3> QED
      BY <3>1, <3>3
  <2>6. CASE ServeEnds(d)
    BY <2>6 DEF ServeEnds, ReaderFile, DownloadFaithful
  <2> QED
    BY <1>2, <2>1, <2>2, <2>3, <2>4, <2>5, <2>6 DEF DownloadNext
<1>3. CASE Crash
    BY <1>3 DEF Crash, ReaderFile, DownloadFaithful
<1>4. CASE UNCHANGED vars
    BY <1>4 DEF vars, ReaderFile, DownloadFaithful
<1> QED
    BY <1>1, <1>2, <1>3, <1>4 DEF Next

-----------------------------------------------------------------------------
(***************************************************************************)
(* Theorems.                                                               *)
(***************************************************************************)

\* Every step preserves the inductive invariant, which therefore always holds.
THEOREM Inductive == Spec => []IInv
<1>1. IInv /\ [Next]_vars => IInv'
    BY TypeStep, FilesStep, CreatedStep, SoleWriterStep, OrphanStep,
       WriterStep, PublishedStep, ReaderStep DEF IInv
<1> QED
    BY InitIInv, <1>1, PTL DEF Spec

\* For any number of uploads, downloads, keys, pieces and kills, the state of
\* the storage, the artifacts table and the requests is well formed.
THEOREM TypeCorrect == Spec => []TypeOK
BY Inductive, PTL DEF IInv

\* For any number of concurrent uploads, downloads and kills, a version with
\* a row and an undisputed key leads to exactly the bytes of its digest.
THEOREM PublishedIsIntact == Spec => []PublishedIntact
BY Inductive, PTL DEF IInv

\* A download of an undisputed version only receives bytes of the content
\* whose digest it announces, whatever happens between its row read, its open
\* and its reads.
THEOREM DownloadIsFaithful == Spec => []DownloadFaithful
BY Inductive, PTL DEF IInv

\* No object stays without a row unless a kill or a failed removal or PUT
\* left it, for any interleaving of uploads on one key.
THEOREM OrphansHaveOwners == Spec => []OrphanHasOwner
BY Inductive, PTL DEF IInv

\* At most one of any number of uploads of a version is ever told 201.
THEOREM CreatedHasRow == Spec => []CreatedMeansRow
BY Inductive, PTL DEF IInv

-----------------------------------------------------------------------------
(***************************************************************************)
(* Immutability.                                                           *)
(***************************************************************************)

\* Upload u is the only one of its version.
Alone(u) == \A v \in Uploads : KeyOf[v] = KeyOf[u] => v = u

\* The version of such an upload has no row before the upload begins, and its
\* key is disputed only if its own insert reported an error.
LoneUploads ==
    \A u \in Uploads : Alone(u) =>
        /\ pc[u] = "idle" => artifactRow[KeyOf[u]] = NoRow
        /\ reply[u] = "created" => pc[u] \in {"saved", "done", "dead"}
        /\ KeyOf[u] \in disputed
              => pc[u] \in {"cleanup", "done", "dead"} /\ reply[u] # "created"

\* Every step keeps it so: only the upload itself comes to its key.
LEMMA LoneStep ==
    ASSUME TypeOK, LoneUploads, [Next]_vars
    PROVE  LoneUploads'
<1> USE DEF TypeOK, StorageTypeOK, tableVars, uploadVars, downloadVars,
            storageVars, Goto, Answer
<1>1. ASSUME NEW u \in Uploads, UploadNext(u), NEW v \in Uploads, Alone(v)
      PROVE  /\ pc'[v] = "idle" => artifactRow'[KeyOf[v]] = NoRow
             /\ reply'[v] = "created" => pc'[v] \in {"saved", "done", "dead"}
             /\ KeyOf[v] \in disputed'
                   => pc'[v] \in {"cleanup", "done", "dead"} /\ reply'[v] # "created"
  <2>0. KeyOf[u] \in Keys /\ KeyOf[v] \in Keys /\ (KeyOf[u] = KeyOf[v] => u = v)
    BY <1>1 DEF Alone
  <2>1. CASE StoreRefused(u)
    BY <2>0, <2>1, <1>1 DEF StoreRefused, LoneUploads
  <2>2. CASE StoreBegin(u)
    <3>1. ~ \E w \in Uploads : Active(w) /\ KeyOf[w] = KeyOf[u] /\ KeyOf[u] = KeyOf[v]
      BY <1>1, <2>0, <2>2 DEF StoreBegin, Alone, Active
    <3>2. u = v => disputed' = disputed
      BY <1>1, <2>2, <3>1 DEF StoreBegin, LoneUploads
    <3>3. KeyOf[v] \in disputed' => KeyOf[v] \in disputed
      BY <2>0, <2>2, <3>2 DEF StoreBegin
    <3>4. UNCHANGED <<artifactRow, reply>> /\ pc' = [pc EXCEPT ![u] = "storing"]
          /\ pc[u] = "idle"
      BY <2>2 DEF StoreBegin
    <3> QED
      BY <1>1, <2>0, <3>3, <3>4 DEF LoneUploads
  <2>3. CASE WritePiece(u)
    BY <2>0, <2>3, <1>1 DEF WritePiece, LoneUploads
  <2>4. CASE WriteFails(u)
    BY <2>0, <2>4, <1>1 DEF WriteFails, LoneUploads
  <2>5. CASE StoreReturns(u)
    BY <2>0, <2>5, <1>1 DEF StoreReturns, LoneUploads
  <2>6. CASE PutSucceeds(u)
    BY <2>0, <2>6, <1>1 DEF PutSucceeds, LoneUploads
  <2>7. CASE PutFails(u)
    BY <2>0, <2>7, <1>1 DEF PutFails, LoneUploads
  <2>8. CASE SaveArtifact(u)
    BY <2>0, <2>8, <1>1 DEF SaveArtifact, Insert, LoneUploads
  <2>9. CASE SaveConflicts(u)
    BY <2>0, <2>9, <1>1 DEF SaveConflicts, LoneUploads
  <2>10. CASE SaveFails(u)
    BY <2>0, <2>10, <1>1 DEF SaveFails, LoneUploads
  <2>11. CASE SaveUnconfirmed(u)
    BY <2>0, <2>11, <1>1 DEF SaveUnconfirmed, Insert, LoneUploads
  <2>12. CASE Cleanup(u)
    BY <2>0, <2>12, <1>1 DEF Cleanup, LoneUploads
  <2>13. CASE Respond(u)
    BY <2>0, <2>13, <1>1 DEF Respond, LoneUploads
  <2> QED
    BY <1>1, <2>1, <2>2, <2>3, <2>4, <2>5, <2>6, <2>7, <2>8, <2>9, <2>10,
       <2>11, <2>12, <2>13 DEF UploadNext
<1>2. ASSUME NEW d \in Downloads, DownloadNext(d) PROVE LoneUploads'
  BY <1>2 DEF DownloadNext, Lookup, Redirect, OpenObject, OpenFails, ReadPiece,
     ServeEnds, LoneUploads
<1>3. CASE Crash
  BY <1>3 DEF Crash, Active, LoneUploads
<1>4. CASE UNCHANGED vars
  BY <1>4 DEF vars, LoneUploads
<1> QED
  BY <1>1, <1>2, <1>3, <1>4 DEF Next, LoneUploads

\* An upload that has its 201 keeps it.
LEMMA CreatedStays ==
    ASSUME TypeOK, CreatedMeansRow, LoneUploads, [Next]_vars,
           NEW u \in Uploads, Alone(u), reply[u] = "created"
    PROVE  reply'[u] = "created"
<1>1. pc[u] \in {"saved", "done", "dead"}
  BY DEF LoneUploads
<1>2. ASSUME NEW v \in Uploads, UploadNext(v) PROVE reply'[u] = reply[u]
  BY <1>1, <1>2 DEF TypeOK, UploadNext, StoreRefused, StoreBegin, WritePiece,
     WriteFails, StoreReturns, PutSucceeds, PutFails, SaveArtifact, SaveConflicts,
     SaveFails, SaveUnconfirmed, Cleanup, Respond, Goto, Answer, uploadVars
<1>3. ASSUME NEW d \in Downloads, DownloadNext(d) PROVE reply' = reply
  BY <1>3 DEF DownloadNext, Lookup, Redirect, OpenObject, OpenFails, ReadPiece,
     ServeEnds, uploadVars
<1> QED
  BY <1>2, <1>3 DEF Next, Crash, vars

\* A version whose upload is alone keeps the bytes of an upload answered 201.
KeptUnlessReuploaded ==
    \A u \in Uploads :
        Alone(u) /\ reply[u] = "created" /\ Holds(KeyOf[u], ContentOf[u])
            => Holds(KeyOf[u], ContentOf[u])'

\* When the upload of a version was answered 201 and nobody uploads the version
\* again, its bytes stay, through every step of every other request and kill:
\* only a second upload can do the damage that openapi.yaml rules out.
THEOREM ImmutableUnlessReuploaded == Spec => [][KeptUnlessReuploaded]_vars
<1>1. Init => LoneUploads
  BY DEF Init, LoneUploads
<1>2. TypeOK /\ LoneUploads /\ [Next]_vars => LoneUploads'
  BY LoneStep
<1>3. IInv /\ LoneUploads /\ IInv' /\ LoneUploads' /\ [Next]_vars
         => KeptUnlessReuploaded
  <2> SUFFICES ASSUME IInv, LoneUploads, IInv', LoneUploads', [Next]_vars,
                      NEW u \in Uploads, Alone(u), reply[u] = "created"
               PROVE  Holds(KeyOf[u], ContentOf[u])'
    BY DEF KeptUnlessReuploaded
  <2>1. reply'[u] = "created"
    BY CreatedStays DEF IInv
  <2>2. KeyOf[u] \in Keys /\ KeyOf[u] \notin disputed'
    BY <2>1 DEF LoneUploads
  <2>3. artifactRow'[KeyOf[u]] = u /\ u # NoRow
    BY <2>1 DEF IInv, CreatedMeansRow
  <2> QED
    BY <2>2, <2>3 DEF IInv, PublishedIntact
<1> QED
  BY <1>1, <1>2, <1>3, Inductive, TypeCorrect, PTL DEF Spec

\* So when no two uploads are of one version, a version is immutable.
THEOREM ImmutableWhenUploadedOnce ==
    (\A u \in Uploads : Alone(u)) => (Spec => ImmutableOncePublished)
<1> SUFFICES ASSUME \A u \in Uploads : Alone(u)
             PROVE  Spec => ImmutableOncePublished
  OBVIOUS
<1>1. KeptUnlessReuploaded
         => \A u \in Uploads :
               reply[u] = "created" /\ Holds(KeyOf[u], ContentOf[u])
                   => Holds(KeyOf[u], ContentOf[u])'
  BY DEF KeptUnlessReuploaded
<1> QED
  BY <1>1, ImmutableUnlessReuploaded, PTL DEF ImmutableOncePublished
============================================================================
