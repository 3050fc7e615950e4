------------------------------ MODULE Storage ------------------------------
(***************************************************************************)
(* The storage backends behind storage.Backend: local disk and S3.         *)
(*                                                                         *)
(* A storage key leads to an object.  An object keeps the name of the      *)
(* upload that created it (an inode on local disk, one PUT on S3), because *)
(* a writer or a reader goes on using the object it opened after the key   *)
(* has been removed or points elsewhere.  The bytes of an object are cut   *)
(* into NPieces pieces: local disk writes and reads them one at a time,    *)
(* S3 writes them all at once.                                             *)
(*                                                                         *)
(* Only operations live here; Artifacts says when a request performs them. *)
(***************************************************************************)
EXTENDS Naturals

CONSTANTS
    Uploads,    \* upload requests; each carries one request body
    Keys,       \* storage keys; one per (type, name, version)
    Contents,   \* what a request body, and so a SHA-256, can be
    ContentOf,  \* the body each upload sends
    NPieces,    \* pieces an object's bytes are cut into
    NoObject,   \* the key leads nowhere
    Hole        \* a piece of a file nobody has written (a truncated tail)

ASSUME StorageAssumption ==
    /\ NPieces \in Nat \ {0}
    /\ ContentOf \in [Uploads -> Contents]
    /\ NoObject \notin Uploads
    /\ Hole \notin Contents

VARIABLES
    object,   \* object[k]: the object storage key k leads to
    bytes,    \* bytes[o][p]: piece p of object o
    fd,       \* fd[u]: the object the file opened by upload u's Store is
    written   \* written[u]: pieces upload u's io.Copy has written

storageVars == <<object, bytes, fd, written>>

Pieces == 1..NPieces
Blank == [p \in Pieces |-> Hole]
Whole(c) == [p \in Pieces |-> c]

StorageTypeOK ==
    /\ object \in [Keys -> Uploads \cup {NoObject}]
    /\ bytes \in [Uploads -> [Pieces -> Contents \cup {Hole}]]
    /\ fd \in [Uploads -> Uploads \cup {NoObject}]
    /\ written \in [Uploads -> 0..NPieces]

StorageInit ==
    /\ object = [k \in Keys |-> NoObject]
    /\ bytes = [u \in Uploads |-> Blank]
    /\ fd = [u \in Uploads |-> NoObject]
    /\ written = [u \in Uploads |-> 0]

\* Key k leads to an object that holds exactly the content c.
Holds(k, c) == object[k] # NoObject /\ bytes[object[k]] = Whole(c)

(***************************************************************************)
(* Local disk.                                                             *)
(***************************************************************************)

\* os.Create: an existing file is truncated in place, whoever has it open.
CreateFile(u, k) ==
    LET o == IF object[k] = NoObject THEN u ELSE object[k]
    IN  /\ object' = [object EXCEPT ![k] = o]
        /\ bytes' = [bytes EXCEPT ![o] = Blank]
        /\ fd' = [fd EXCEPT ![u] = o]
        /\ UNCHANGED written

\* Seeded fault: io.Copy goes on after the last piece.
WritePastEnd(u) ==
    /\ bytes' = [bytes EXCEPT ![fd[u]] = Whole(ContentOf[u])]
    /\ written' = [written EXCEPT ![u] = @ + 1]
    /\ UNCHANGED <<object, fd>>

\* io.Copy's next write goes to the open file, at the writer's own offset,
\* even if the name has been removed or the file truncated meanwhile.
WriteFile(u) ==
    /\ written[u] < NPieces
    /\ bytes' = [bytes EXCEPT ![fd[u]][written[u] + 1] = ContentOf[u]]
    /\ written' = [written EXCEPT ![u] = @ + 1]
    /\ UNCHANGED <<object, fd>>

(***************************************************************************)
(* S3.                                                                     *)
(***************************************************************************)

\* PutObject replaces the object at the key as a whole.
PutObject(u, k) ==
    /\ object' = [object EXCEPT ![k] = u]
    /\ bytes' = [bytes EXCEPT ![u] = Whole(ContentOf[u])]
    /\ UNCHANGED <<fd, written>>

(***************************************************************************)
(* Both.                                                                   *)
(***************************************************************************)

\* os.Remove / DeleteObject: the key leads nowhere; removing an absent key
\* succeeds.  Files that are open keep their bytes.
Remove(k) ==
    /\ object' = [object EXCEPT ![k] = NoObject]
    /\ UNCHANGED <<bytes, fd, written>>

============================================================================
