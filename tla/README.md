# Artifact registry service: TLA+ models, checks and proofs

The service keeps immutable artifact versions: an upload stores a blob and a
metadata row, a channel points at a version and can be promoted and rolled back,
and every such change is announced to webhook URLs. It is one Go process with an
SQLite file and either a local directory or an S3 bucket. HTTP requests run
concurrently, webhook deliveries run in goroutines of their own, and nothing but
the database, the blobs and SQLite's own locking is shared.

This directory models that program, checks it with TLC and proves with TLAPS,
for every value of the constants, all the safety properties that TLC finds to hold
and the refinements of both abstract specifications. Paths below are relative to
`src/`.

## 1. Inventory

| Component | State it keeps | Operations | Talks to |
|---|---|---|---|
| `service.Registry` (`internal/service/registry.go`) | none of its own | Upload, Promote, Rollback, ResolveLatest, GetVersion, ListVersions, ... | storage backend, repository |
| local backend (`internal/storage/local`) | files under a directory | Store, Open, Delete | file system |
| S3 backend (`internal/storage/s3`) | objects in a bucket | Store, Open, GetSignedURL, Delete | S3 |
| storage factory (`internal/storage`) | none | chooses the backend at startup | - |
| SQLite repository (`internal/repository/sqlite/sqlite.go`) | `artifacts`, `channels`, `channel_history` | SaveArtifact, GetArtifact, SaveChannel, GetChannel, ListChannelHistory, ListVersions | SQLite, one connection |
| delivery store (`internal/repository/sqlite/webhooks.go`) | `webhook_deliveries` | CreateDelivery, UpdateDelivery, GetDelivery, ListDeadLetters | same connection |
| dispatcher (`internal/webhooks/dispatcher.go`) | goroutines in memory | Emit, deliver, Replay | delivery store, webhook URLs |
| signer, events (`internal/webhooks/signer.go`, `webhook.go`) | none | HMAC and envelope | - |
| handlers (`internal/api/handlers.go`) | one request each | Upload, Download, Promote, Rollback, ReplayWebhook and the reads | registry, storage, dispatcher |
| router, middleware (`internal/api`) | none | routes, scope check, log | key store |
| key store (`internal/auth`) | list of keys | Allowed, Authenticated | - |
| config (`internal/config`) | environment | Load | - |
| server (`cmd/server`) | the process | start, Shutdown | everything |

How they interact: handlers call the registry; `Upload` calls the storage
backend and then the repository; `Promote` makes three repository calls;
`Rollback` makes one and calls `Promote`. After a change is committed the
handler calls `Emit`, which writes one delivery record per URL and starts one
goroutine per URL. Calls under a request use the request's context, which is
cancelled when the client leaves; the dispatcher uses a background context.

What is hard here:

* **Two stores, no transaction between them.** The blob is written before the
  row that decides whether the version is new, and is deleted by key when the
  insert fails. Concurrent uploads of one version share a file.
* **Read, then write.** `Promote`, `Rollback` and `Replay` read rows, decide and
  write in separate statements; other requests run in between.
* **Unconfirmed writes.** An insert, a commit or an S3 PUT may take effect and
  still return an error.
* **Kills.** Goroutines, the intention to emit and the intention to clean up
  are lost. The process also ends this way in an orderly stop: `main` returns
  after `Shutdown` without waiting for deliveries.
* **Events without an order.** Deliveries overtake each other, may be posted
  twice, and the event of a channel names neither type nor name of the artifact.
* **Time as text.** History is ordered by RFC3339Nano text, not by time or id.

What makes each component correct: a published version keeps its bytes and is
served with the right digest; 201 and 409 mean what they say; no object without
a row is left unaccounted for (uploads). Pointer and history agree, lead to
artifacts, and give one level of rollback (channels). Every committed event is
tried at every URL, a record's status is true, and an unfinished record is still
being worked on (webhooks). A consumer that reads again on every event ends with
the current pointer (the service as a whole). A key passes what the strongest of
its lists covers, and a refusal says why (access). `PROJECT.json` lists the hazards line by line with
the properties that watch them.

## 2. Modules

| Module | Role |
|---|---|
| `Storage` | the two backends: which object a key leads to, the bytes of objects, open files |
| `Artifacts` | extends `Storage`: upload and download requests, the `artifacts` table, kills |
| `MCArtifacts` | instance for TLC |
| `ArtifactsProof` | inductive invariant, theorems |
| `Timestamps` | RFC3339Nano text and its byte order |
| `ChannelSwap` | abstract specification: what a channel promises |
| `Channels` | promote and rollback requests, the two channel tables, kills; refines `ChannelSwap` |
| `HistoryOrder` | `Channels` with stamps that are text: how a listing relates to time |
| `MCChannels` | instance for TLC, with stamps ordered as text or as times |
| `ChannelsProof` | inductive invariant, lemmas about `ORDER BY`, theorems |
| `ChannelSwapProof` | `Channels` implements `ChannelSwap` when requests take turns |
| `HistoryOrderProof` | texts of any base against time, theorems about listings |
| `DeliveryLifecycle` | abstract specification: what a delivery promises |
| `Dispatcher` | Emit, deliver, Replay, the delivery table, kills; refines `DeliveryLifecycle` |
| `MCDispatcher` | instance for TLC |
| `DispatcherProof` | inductive invariant, theorems |
| `LifecycleProof` | `Dispatcher` implements `DeliveryLifecycle` when replays take turns |
| `Access` | key lists, key store, the scope each route requires |
| `AccessProof` | theorems about every environment |
| `Service` | composition of `Channels`, `Dispatcher` and `Access` with the consumers of the webhooks |
| `MCService` | instance for TLC |
| `ServiceProof` | the service runs its parts as they are; theorems about consumers |

Operators commented *Seeded fault* in a module stand next to the definition they
damage. No specification uses them; substituting one for its neighbour shows
that a property notices the bug.

### Storage and Artifacts

A storage key leads to an object (`object[k]`), and an object is named after the
upload that created it, because a file that is open survives the removal of its
name. `bytes` cuts an object's content into `NPieces` pieces. On local disk
`CreateFile` is `os.Create` (it truncates in place, so a second upload of the key
gets the *same* file), `WriteFile` is one write of `io.Copy` at the writer's own
offset, `Remove` removes the name. On S3 `PutObject` replaces the object whole.

An upload request `u` moves through `pc[u]`:

| Action | Code |
|---|---|
| `StoreRefused`, `StoreBegin` | `Upload` up to `Store`; `MkdirAll`, `Create` or `CreateTemp` |
| `WritePiece`, `WriteFails`, `StoreReturns` | `Local.Store`; a failed copy removes the file by name |
| `PutSucceeds`, `PutFails` | `Backend.Store`; a failed PUT may have been applied |
| `SaveArtifact` | the INSERT; `Insert` is the two uniqueness constraints, and the id is a reading of the clock |
| `SaveConflicts`, `SaveFails`, `SaveUnconfirmed` | unique violation; other error; took effect but reported an error |
| `Cleanup` | `Delete` of the key, whose error is ignored |
| `Respond` | emit, answer 201 |

A download looks up the row (`Lookup`), is redirected to a signed URL or has the
object opened (`Redirect`, `OpenObject`, `OpenFails`), and reads piece by piece
(`ReadPiece`, `ServeEnds`). `Crash` ends every request in flight; a client that
was redirected to S3 goes on.

A row is represented by the upload that built it: its digest is the content
`ContentOf[u]` of that upload's body. That body and digest agree is not
assumed away: `PublishedIntact` compares the row's content with the bytes the
key really leads to.

Two history variables say which cases the code does *not* protect. `disputed`
holds the keys that were stored under while they had a row or another active
upload, or whose insert took effect but reported failure. `leaked` holds the
keys left with nobody to remove the object. No action reads either of them.

### Timestamps, Channels and ChannelSwap

A resolve request reads the pointer (`ResolveBegin`) and then the artifact
(`ResolveEnds`). A promote or rollback request `r` moves through `pc[r]`: `RollbackBegin` reads
the history and picks its second row; `PromoteBegin` has its target from the
URL; both then take `GetArtifact`, `GetChannel`, `TakeTime`, and `SaveChannel` or
`SaveChannelFails`. `Commit` is the transaction: pointer and history row
together. `SaveChannelFails` may have committed. `Publish` is any upload that
inserts a row, `Tick` the clock. A request that failed between two reads is
`QueryFails`. One channel of one (type, name) is modelled; no statement touches
the rows of two.

Two history variables say what a request could know. `base[r]` is the number of
rows its channel had when it began, and `blind` holds the requests whose
`GetChannel` failed, after which `Promote` goes on as if there were no previous
version. No action reads either of them. `FromWasHeld` measures a from_version by
them: it is a version the channel pointed to between the beginning of its request
and its save, and it is empty only if the channel was so at such a moment or the
request is blind.

`Listed(h, n)` is row `n` of `ORDER BY promoted_at DESC`. Equal stamps come out
later row first, because SQLite walks `idx_channel_history_lookup` backwards and
its entries end in the row id. `TextRank` says how stamps compare: `TextOrder`
derives it from `Timestamps.Text` (a fraction of two digits in base `Base`
instead of nine in base ten, with its trailing zeros cut), `TimeOrder` is the
order a reader would expect. `ListingExplained` (in `HistoryOrder`) says exactly
where the two part: within one second, when the digits one stamp shows begin the
digits of the other.

`ChannelSwap` promises that promoting moves the pointer and remembers the
version left behind, and that rolling back swaps the two. The refinement mapping
takes `current` from the pointer, `previous` from the last history row but one,
and `lastOp` from the request that saved the last row. A save is the only step
that is not a stutter.

### Dispatcher

A delivery is an event and the number of a URL. `Commit(e)` is the change being
committed; `EmitTo` is one turn of `Emit`'s loop: the insert, which may fail, and
the goroutine. A goroutine (`wpc`) alternates `Post` and `RecordFailed` until
`RecordDelivered`, or until its attempts are spent and `RecordDeadLetter`. Each
status write may fail. `ReplayCheck` is the read and the test of the status,
`ReplayReset` the update and the goroutine, `ReplayResetFails` an update that
reported an error, applied or not. `Crash` ends handlers, goroutines and replays
and keeps the records.

`DeliveryLifecycle` keeps of a delivery its status and whether it is busy. The
refinement mapping takes `busy` from the goroutines: some goroutine of the
delivery is alive. While replays do not overlap every step of `Dispatcher` is a
step of it, so at most one goroutine works on a delivery, `delivered` is final,
and `dead_letter` is left only for a replay. With overlapping replays this is
false, which `replay_race` shows.

History variables: `acked` (goroutines that were answered 2xx), `unwritten`
(deliveries whose record, final status or reset could not be written), `killed`
(deliveries whose handler or goroutine was killed). No action reads them.

### Access

`loadKeys` builds the key list as `config` does: admin entries, write entries,
read entries, each list split, trimmed and without empty items (`splitKeys`; an
unset variable is one empty item). `Allowed` stops at the first entry with the
key, `Authenticated` asks for any, `requireScope` turns the two into handler, 401
or 403, and `ScopeOf` is the table of routes. The only variable is `env`, the
environment of the running process, which is read again at a restart. The order
inside a list decides nothing, since its entries carry the same scopes, so a list
is a set and the store a sequence of three blocks.

### Service

`Service` instantiates `Channels` and `Dispatcher` over one set of requests: a
request is also the event it emits. `Save` is `SaveChannel` together with
`Dispatcher!Commit`; `Respond` waits for `Emit` to return; a save that reports an
error announces nothing, whether it took effect or not; a kill ends both sides and
reads the environment again. A handler starts only if the request's key passes.
Channels are the (type, name) pairs under ONE channel name, so all events carry
the same aggregate key. The clock stands still: stamps only order the listing from
which a rollback takes its target, and what consumers learn is the same for every
target. `GetChannel` does not fail there, which changes from_version only.

The consumer is not part of `src/`. It does what `internal/webhooks/webhook.go:12-20`
demands: on an event it marks every pair of the channel as unread (`Take`, since
the event does not say which pair moved), and reads each with `GET
/v1/channels/{channel}/state/...` (`Reconcile`). A post that fails may have been
taken.

### What the models assume of the outside

* A failed S3 PUT or an unconfirmed SQLite statement took effect before its error
  came back, or never does; it is not applied later.
* A file that is open keeps its bytes after its name is removed (POSIX).
* SQLite runs one statement or transaction at a time: the pool has one
  connection (`SetMaxOpenConns(1)`).
* The clock does not go back (`Channels`); two readings may be equal.
* Different versions have different storage keys. On local disk this takes
  identifiers other than `.` and `..`, which `filepath.Join` would fold.
* A consumer reads after it has received: it does not apply the answer to a read
  that it sent before the event came.

## 3. Runs

Every `.cfg` turns deadlock checking off: each request is made once, and when all
are answered and no goroutine is left the service is idle, which is not an error.
Symmetry is used only in runs that check invariants, or a refinement between
specifications without fairness, and only over sets whose members are compared
for equality alone; the mappings that configurations give to constants do not
tell those members apart.

| Run | Instance | Result |
|---|---|---|
| `artifacts` | 3 uploads (2 of one version, with different bodies), 2 keys, 2 pieces, 1 download, 2 clock readings, 1 kill, both backends | `TypeOK`, `PublishedIntact`, `DownloadFaithful`, `OrphanHasOwner`, `CreatedMeansRow` hold (1.7 million states) |
| `artifacts_immutable` | same | `ImmutableOncePublished` **violated** |
| `artifacts_conflict` | same | `ConflictMeansExists` **violated** |
| `channels` | 3 requests, 1 channel, 2 versions, clock 0..4 (two seconds), text order | `TypeOK`, `PointerIsLastRow`, `NeverDangles`, `FromWasHeld`, `ResolveFindsArtifact`, `ListingExplained`, `SpacedHistoryListedBack` hold (1.2 million states) |
| `channels_serial` | 4 requests one after the other, 2 versions, clock 0..1, time order, failing reads | `SwapSpec`, `HeadIsCurrent`, `FromWasHeld` hold (3.0 million states) |
| `from_version` | 3 requests, time order, no failing reads | `FromWasCurrent` **violated** |
| `history_head` | 3 requests one after the other, clock 0..3, text order | `HeadIsCurrent` **violated** |
| `dispatcher` | 2 events of one aggregate, 1 URL, 2 replays that may overlap, 2 attempts, 1 kill | `TypeOK`, `DeliveredWasAcked`, `DeadLetterExhausted`, `NoSilentDrop`, `HintsContiguous` hold |
| `delivery` | 1 event, 2 URLs, 2 replays that do not overlap, 2 attempts, 1 kill, fairness | `EveryUrlTried`, `PendingSettles`, `LifecycleSpec`, `ReplaysDeadLetter` hold |
| `service` | 2 requests, 2 pairs, 1 version, 1 URL, 1 attempt, 1 kill, 3 environments with 8 keys | `ScopesAreAdditive`, `RefusalTellsWhy`, `ConsumersCatchUp`, `HintsFollowAnswers`, `MoveNotForgotten` hold (1.1 million states) |
| `replay_race` | 1 event, 1 URL, 2 replays | `ReplaysDeadLetter` **violated** |
| `stuck_pending` | 1 event, 1 URL, 1 replay, 1 kill | `UnfinishedIsRetried` **violated** |

**Why the bounds are enough.** `artifacts`: two uploads of one key give every
race for a version, a third of another key gives the collision of ids and shows
that keys do not interfere; two pieces are the least that let two writers
interleave in a file and a reader see a mixture; two clock readings let ids
collide or not. `channels`: of three requests, one may begin and two others save
before it reads the channel, or after, so a from_version can be as stale as the
property allows and staler; five readings of the clock with digits in base two hold
every fraction of a second and the next second, so all ways in which text and time
disagree occur. Three requests are too few for one thing: a rollback gets past its
look at the history only when there are two rows, and each request saves one, so a
rollback that another request overtakes after that takes four. `MCRollbackLookup.cfg`
and `MCRollbackRace.cfg` (below) have four, and the theorem `RollbacksFindArtifacts`
covers any number. `channels_serial` has four, so that a rollback of a rollback and a
promotion after it occur, and reads that fail; two versions distinguish the oldest,
the previous and the current row of a history such as v1, v2, v1. `service`: two requests are the
least that overtake each other, on one pair or on two that an event cannot tell
apart; one version is enough because a pointer also names the request that saved
it; one attempt, because retries are the business of `dispatcher`, and a consumer
that missed a post differs from one that was tried twice in vain only in the
count; the eight keys stand in the three lists in every combination. `dispatcher`: two
attempts are the least with a retry in between (the code has five, and the loop
looks only at whether there is another one); two replays are the least that race;
one kill separates all that comes before from all that comes after.

**Bounds.** `MaxCrashes` (kills), `MaxTime` (clock), the finite sets of requests.
`MaxAttempts` is not a bound of the model but the length of the backoff table.

**Fairness** (`FairSpec` of `Dispatcher`). Weak fairness of `EmitNext(e)` and of
`WorkNext(w)`: a handler that has committed runs `Emit` to its end, since `Emit`
does not wait for anything but the database, and a goroutine goes on because
`post` has a five-second client timeout and a background context, and the backoff
delays are finite. Nothing is assumed of the environment: nobody has to upload,
replay, answer 2xx or kill. The liveness properties except deliveries that a kill
or a failed write broke off (`killed`, `unwritten`): those the code really drops,
as `stuck_pending` shows. `Service` states what its consumers learn as an invariant,
`MoveNotForgotten`: the current pointer of a pair is known, or something is still
under way that will make it known, or the delivery was broken off. Under the same
fairness, with consumers that read, this something happens.

### What the violated properties say

* `ImmutableOncePublished`: a re-upload answered 409 has overwritten and deleted
  the published object (`service/registry.go:63` and `:83`), against
  `api/openapi.yaml:350`.
* `ConflictMeansExists`: an id made of the clock alone collides, and the
  collision is reported as an existing version (`service/registry.go:207`,
  `repository/sqlite/sqlite.go:98`), against `api/openapi.yaml:264`.
* `FromWasCurrent`: overlapping promotions record and emit a stale `from_version`
  (`service/registry.go:102`), against `webhooks/webhook.go:66`.
* `HeadIsCurrent`: cut fractions sort wrongly, so `history[0]` is not the current
  pointer (`repository/sqlite/sqlite.go:187`), against `service/registry.go:129`. A
  later rollback then goes to the wrong version.
* `ReplaysDeadLetter`: two replays of one record are both accepted
  (`webhooks/dispatcher.go:126`), against `api/openapi.yaml:682`.
* `UnfinishedIsRetried`: nothing resumes deliveries after a kill
  (`webhooks/dispatcher.go:111`), against the package comment of
  `webhooks/webhook.go:6`.

The properties that hold say what is left: outside `disputed` keys a version is
never damaged; the pointer, however stale its `from_version`, agrees with the
history and leads to an artifact; a rollback works as promised when requests do
not overlap and stamps sort as times, and stamps of different seconds always do; a
record's final status is true; a consumer that reads again on every event misses a
confirmed move only if a kill came in between or every attempt failed.

### Further configurations

These configurations are kept beside the runs for questions that arise from them.
The first answers for four requests what no smaller instance can. The others each
give a second line of the code at which a documented promise fails, most of them
behind an exception that a property of a run makes.

| Configuration | Instance | Result |
|---|---|---|
| `MCRollbackLookup.cfg` | `MCChannels`: 4 requests, clock stands still | `RollbackFindsArtifact` holds (840,000 states) |
| `MCRollbackRace.cfg` | same | `RollbackSwaps` **violated** |
| `MCPreviousAbsent.cfg` | `MCChannels`: 3 requests one after the other, failing reads | `AbsentOnlyAtFirst` **violated** |
| `MCHistoryOverlap.cfg` | `MCChannels`: 3 requests, clock 0..1, time order | `HeadIsCurrent` **violated** |
| `MCCleanup.cfg` | `MCArtifacts`, as `artifacts` | `RemovesOnlyOrphans` **violated** |
| `MCDownloadDigest.cfg` | `MCArtifacts`, as `artifacts` | `DigestOfFile` **violated** |
| `MCUnannounced.cfg` | `MCService`, as `service` | `StateChangesEmit` **violated** |

* `RollbackFindsArtifact` holds however many requests move the channel after the
  rollback has read the history: of the four requests two make the rows, one rolls
  back, and one moves the channel before the rollback looks its target up. What a
  rollback looks up does not depend on stamps, so the clock stands still.
* `RollbackSwaps`: a rollback goes where the history it read first says, although
  the channel has moved since (`service/registry.go:125`), against
  `api/openapi.yaml:587`: "Swaps the current version with `previous_version`."
* `AbsentOnlyAtFirst`: `Promote` takes every error of `GetChannel` for a channel
  without a previous version, so a promotion that cannot read the row records and
  emits that there was none (`service/registry.go:102`), against
  `api/openapi.yaml:182`: "Absent when no prior promotion exists."
* `HeadIsCurrent`: of two overlapping promotions the one that saves last may have
  taken the older stamp (`service/registry.go:113`), against `service/registry.go:129`.
* `RemovesOnlyOrphans`: `Upload` deletes the object of a row that exists, its own
  when an insert took effect and reported an error, or the published one after a
  conflict (`service/registry.go:83`), against the comment at `:82`.
* `DigestOfFile`: on local disk a re-upload truncates and refills the published
  file, and a download streams it under the digest of the row
  (`storage/local/local.go:31`), against `api/openapi.yaml:519`.
* `StateChangesEmit`: a save that committed and reported an error moves the channel
  without an event (`service/registry.go:116`), against `api/openapi.yaml:13`. A
  kill between the save and `Emit` does the same.

The exceptions in the properties that hold, `disputed`, `leaked`, `killed`,
`unwritten`, `blind` and `reply`, are the outcomes that the code does not prevent.
Where a document promises better, a property without the exception is violated:
`ImmutableOncePublished`, `RemovesOnlyOrphans` and `DigestOfFile` for `disputed`,
`UnfinishedIsRetried` for `killed`, `AbsentOnlyAtFirst` for `blind`,
`StateChangesEmit` for `reply`. Nothing promises that no object is left over
(`leaked`) or that a status that cannot be written is not lost (`unwritten`).

## 4. Proofs

`ArtifactsProof` proves, for every number of uploads, downloads, keys, contents,
pieces and kills, from `StorageAssumption` and `ArtifactsAssumption` only:

| Theorem | Statement |
|---|---|
| `TypeCorrect` | `Spec => []TypeOK` |
| `PublishedIsIntact` | `Spec => []PublishedIntact` |
| `DownloadIsFaithful` | `Spec => []DownloadFaithful` |
| `OrphansHaveOwners` | `Spec => []OrphanHasOwner` |
| `CreatedHasRow` | `Spec => []CreatedMeansRow` |
| `ImmutableUnlessReuploaded` | `Spec => [][KeptUnlessReuploaded]_vars` |
| `ImmutableWhenUploadedOnce` | no two uploads of one version: `Spec => ImmutableOncePublished` |

The first five follow from `Inductive`, `Spec => []IInv`. `PublishedIntact` alone is not
inductive: a row may be inserted only because `Store` has written the whole body
(`WriterProgress`), which stays true only while no one else writes the file
(`SoleWriter`: on an undisputed key one active upload, and none once there is a
row), which concerns the right file only because keys never share one
(`FilesOfKey`). `SoleWriter` is where `disputed` works: a second upload of the key
marks it. `DownloadFaithful` needs that a row never changes and that the reader's
file is the one its key leads to (`ReaderFile`), and then `PublishedIntact` says
what is in it. The lemmas follow this order: `TypeStep`, `FilesStep`,
`SoleWriterStep`, `OrphanStep`, `CreatedStep`; then `OtherKey` and `TakenKeyKept`
say what steps of other uploads leave alone, `OtherUpload` and `OwnProgress` split
the steps of one key's writer, and `WriterStep`, `PublishedStep` and `ReaderStep`
put them together. The last two bound the cause of a violated property:
`KeptUnlessReuploaded` is `ImmutableOncePublished` for the versions that one upload
names (`Alone`), whatever the other uploads, failures and kills do, so only a second
upload of the version damages it. They need that nobody but the upload itself
disputes its key (`LoneUploads`, `LoneStep`) and that a 201 is final
(`CreatedStays`); `PublishedIntact` says the rest.

`AccessProof` proves, for all sets of keys and texts and every environment, from
`AccessAssumption` only:

| Theorem | Statement |
|---|---|
| `ScopesAdd` | `AccessSpec => []ScopesAreAdditive` |
| `RefusalsTell` | `AccessSpec => []RefusalTellsWhy` |

The argument: `splitKeys` yields exactly the keys that were listed
(`SplitKeysLists`); the first block with a key covers what any later block does
(`AllowedByStrongest`), which is where the order of `loadKeys` matters;
`Authenticated` means that the key is listed (`AuthenticatedIsListed`). The
environment never leaves `Envs` (`EnvIsOne`).

`ChannelsProof` proves, for any number of requests, channels and versions, any
clock and any order of stamps that tells them apart, from `ChannelsAssumption` only:

| Theorem | Statement |
|---|---|
| `TypeCorrect` | `Spec => []TypeOK` |
| `PointerAgreesWithHistory` | `Spec => []PointerIsLastRow` |
| `HistoryNeverDangles` | `Spec => []NeverDangles` |
| `FromVersionWasHeld` | `Spec => []FromWasHeld` |
| `RollbacksFindArtifacts` | `Spec => []RollbackFindsArtifact` |
| `ResolvesFindArtifacts` | `Spec => []ResolveFindsArtifact` |

They follow from `Inductive`, `Spec => []IInv`. What is saved comes from what was
read earlier, so `IInv` adds what remains true of it: a version a request has
found is published (`TargetsPublished`), a prevVersion it has read is what the
channel held after some row since the request began (`FromSeen`), because artifacts
and rows are never deleted; a request that has a row is past its reads, so what it
saw is settled (`RowsSettled`); and where a request is says which operation it
performs (`OpAtPC`). Even `TypeOK`
needs a lemma: that a rollback's target is a row at all takes `ListingPlaces`,
which says that in a listing every place 0, 1, ... is taken by some row. It counts:
`ListedBefore` is a strict order of the rows, so different rows have different
places, and as many rows as places leave no place empty.

`ChannelSwapProof` adds what holds of requests that take turns:

| Theorem | Statement |
|---|---|
| `ImplementsSwap` | `Serial /\ StampsSortInTime => (Spec => SwapSpec)` |
| `HeadIsCurrentInTime` | `Serial /\ StampsSortInTime => (Spec => []HeadIsCurrent)` |
| `RollbackSwapsInTurn` | `Serial /\ StampsSortInTime => (Spec => RollbackSwaps)` |
| `FromIsCurrentInTurn` | `Serial /\ ~ReadErrors => (Spec => FromWasCurrent)` |
| `AbsentOnlyAtFirstInTurn` | `Serial /\ ~ReadErrors => (Spec => []AbsentOnlyAtFirst)` |

`Serial` is the constant that keeps requests from overlapping, and
`StampsSortInTime` says that `TextRank` grows with time. `SerialInv` strengthens
`IInv`: stamps grow along a history (`StampsInOrder`), so a listing is the history
from its end (`ListedBack`), and what a rollback found is still the row before the
last when it saves (`RollsBackOne`); a request that can read the channel remembers
what it points to until it saves (`FromIsCurrent`). All but the first are about
properties that a run or a further configuration shows violated, and about the same
program. They say which causes there can be: of a wrong `history[0]` and of a
rollback that does not swap, overlap and the order of text; of a stale or missing
previous version, overlap and a read of the channel that fails. Each of the five
configurations (`history_head`, `from_version`, `MCHistoryOverlap.cfg`,
`MCRollbackRace.cfg`, `MCPreviousAbsent.cfg`) sets the constants so that one cause is
left.

`HistoryOrderProof` compares text and time, in every base from two and for any
number of seconds; the program's ten differs from the instance's two only in
`Base`. The number of digits is two here as there.

| Theorem | Statement |
|---|---|
| `TextOrderIsAdmitted` | `TextOrder` is a value that `ChannelsAssumption` admits |
| `ListingIsExplained` | `TextRank = TextOrder => (Spec => []ListingExplained)` |
| `SpacedHistoriesAreListedBack` | `TextRank = TextOrder => (Spec => []SpacedHistoryListedBack)` |

Both times and texts compare lexicographically, by second, first and second digit
(`TimesCompare`, from division with remainder; `TextsCompare`, from the characters of
a text); in a text a digit that is not shown counts as the highest. `Beginnings` and
`ShownFirstIsTextOrder` turn the difference between the two into `ShownFirst`, and
`RanksCompare` shows that counting the texts before a text keeps their order.

`DispatcherProof` proves, for any number of URLs, replays, attempts and kills and
finitely many events, from `DispatcherAssumption` only:

| Theorem | Statement |
|---|---|
| `TypeCorrect` | `Spec => []TypeOK` |
| `DeliveredMeansAcked` | `Spec => []DeliveredWasAcked` |
| `DeadLetterMeansExhausted` | `Spec => []DeadLetterExhausted` |
| `NothingDropsSilently` | `Spec => []NoSilentDrop` |
| `HintsAreContiguous` | `Spec => []HintsContiguous` |
| `RetriedUnlessKilled` | `MaxCrashes = 0 => (Spec => []UnfinishedIsRetried)` |
| `EmitProgresses`, `HintsGrow` | what `Service` relies on: `Emit` leaves out no URL, a new record has the highest hint |

That the set of events is finite is needed for hints: a hint is a number of
records. `IInv` adds to the properties that `Emit` comes to URLs in turn
(`UrlsInTurn`), that a replay that goes on has a delivery with a record
(`ReplaysNamed`), and that where a goroutine is says how many posts it has made and
with what answer (`AttemptsAtPC`). `HintsContiguous` is inductive because `MAX + 1`
over the records of an aggregate equals their number plus one (`NextHintCounts`).
`RetriedUnlessKilled` says that `stuck_pending` needs a kill.

`LifecycleProof` proves the refinement, when replays take turns:

| Theorem | Statement |
|---|---|
| `ImplementsLifecycle` | `SerialReplays => (Spec => LifecycleSpec)` |
| `ReplaysOnlyDeadLetter` | `SerialReplays => (Spec => ReplaysDeadLetter)` |

`SerialInv` adds to `IInv` that a delivery has at most one live goroutine
(`OneWorker`) and, once its status is final, none (`FinalIsIdle`), and that what a
replay checked still holds when it resets the record (`OneReplay`, `CheckHolds`).
The last two are what overlapping replays break; with them `replay_race` has its
only cause.

`ServiceProof` proves, for any number of requests, pairs, versions, URLs, attempts
and kills, from `ServiceAssumption` only:

| Theorem | Statement |
|---|---|
| `RunsItsParts` | `Spec => CP!Spec /\ DP!Spec` |
| `ConsumersDoCatchUp` | `Spec => []ConsumersCatchUp` |
| `HintsDoFollowAnswers` | `Spec => []HintsFollowAnswers` |
| `MovesAreNotForgotten` | `Spec => []MoveNotForgotten` |

`RunsItsParts` shows that every step of the service is a step of `Channels` and of
`Dispatcher`, or leaves their state alone, so their invariants hold in it and need
no second proof (`PartsHold`). `ServiceInv` then says how the parts fit: `Emit` runs
between a confirmed save and its answer (`EmitFollowsSave`), what endpoints received
was posted (`Reception`), and who was answered has emitted (`EarlierEmitted`).

The theorems with hypotheses (`Serial`, `StampsSortInTime`, `ReadErrors`,
`SerialReplays`, `MaxCrashes = 0`, `TextRank = TextOrder`) are about constants that
the runs set in the same ways, so the hypotheses are met by instances that TLC has
explored. `ImmutableWhenUploadedOnce` is the exception: the runs of `Artifacts` let
two uploads race for one version, and only `u3` is alone on its own; the hypothesis
is met by any instance with one upload per version. TLC has also checked each inductive invariant on the instance of its
component, before it was proved.

Only model-checked: the liveness properties `EveryUrlTried` and `PendingSettles`,
which are out of the prover's reach. The violated property `ConflictMeansExists` has
no theorem that bounds its cause: in the model every clock reading may collide with
any other, so "no two uploads read the same time" is not a hypothesis on a constant.

## 5. Not modelled, and why

* Signing and envelope layout: a pure function of bytes, computed once per event.
* Form parsing, JSON, logging: no state changes. `ListVersions`, `GetVersion` and
  `GetChannelHistory` are single reads of rows whose content and order are modelled;
  `ListDeadLetters` is called by nothing.
* Version syntax (`normalizeVersion`, `validateIdentifier`): requests that fail it
  end before they touch any state, and the others are named by what it returns.
* S3 parameters, ports and paths: they are read once and decide no state change.
* The size limit of uploads and multipart temporary files: the request body is
  complete when the registry sees it, and reading it may fail (`WriteFails`,
  `PutFails`).
* A process that loses unsynced writes with the machine: the code never syncs, so
  what remains is up to the file system, not the program. `Crash` kills the
  process and keeps what the system calls wrote.
* Two servers on one database: `docker-compose.yml` starts one.

## 6. Plan

In order of what matters most:

1. Upload protocol, both backends: `Storage`, `Artifacts`, `ArtifactsProof`. *Done.*
2. Channels with their abstract specification: `Timestamps`, `ChannelSwap`,
   `Channels`, `HistoryOrder`. *Done.*
3. Webhook delivery and replay with their abstract specification: `Dispatcher`,
   `DeliveryLifecycle`. *Done.*
4. Keys, scopes and routes: `Access`, `AccessProof`. *Done.*
5. The composition with the consumers: `Service`. *Done.*
6. `ChannelsProof`, `ChannelSwapProof`, `HistoryOrderProof`. *Done.*
7. `DispatcherProof`, `LifecycleProof`. *Done.*
8. `ServiceProof`. *Done.*
9. What bounds the cause of `ImmutableOncePublished`. *Done.* What bounds that of
   `ConflictMeansExists`: the rows that an upload answered 409 may have met.
10. `BlobStore`, an abstract key-value store of immutable blobs that `Artifacts`
    implements when no two uploads share a key; the step simulation proved.
