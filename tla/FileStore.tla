----------------------------- MODULE FileStore -----------------------------
(***************************************************************************)
(* The upload, download and delete use cases over PostgreSQL (tables       *)
(* users, files, file_versions), the blob store, and the one write that    *)
(* LoginUseCase makes to the users row.                                     *)
(*                                                                         *)
(* Node runs one handler at a time but a handler gives up the thread at    *)
(* every await, so an action is one awaited call with the synchronous code *)
(* up to the next await, and the requests in flight interleave at every    *)
(* await.  No transaction spans two calls.  repo.save() is itself a SELECT  *)
(* followed by an UPDATE of the columns that differ (or an INSERT), hence   *)
(* the pairs LoadFile/WriteFile and LoadUser/WriteUser.                     *)
(*                                                                         *)
(* A request creates at most one file row, one version row and one blob,   *)
(* each under a fresh UUID; the three identifiers are the request itself.   *)
(***************************************************************************)
EXTENDS Integers, FiniteSets

CONSTANTS
    Request,      \* HTTP requests, also the identifiers they generate
    User,         \* registered accounts
    Admin,        \* the accounts whose role is 'admin'
    Size,         \* upload sizes that MAX_BYTES and the type check admit
    Limit,        \* storageLimitBytes of every account
    Verdict,      \* outcomes of the virus scan that may occur
    Op,           \* the operations the clients of an instance use
    MaxInFlight,  \* bound: how many requests are open at once
    Faults,       \* TRUE: awaited calls may reject and the process may crash
    Nothing       \* null: no row, no value

ASSUMPTION StoreAssumption ==
    /\ Admin \subseteq User
    /\ Size \subseteq Nat
    /\ Limit \in Nat
    /\ Verdict \subseteq {"clean", "error", "skipped", "infected"}
    /\ Op \subseteq {"create", "revise", "delete", "purge", "download", "history",
               "login"}
    /\ MaxInFlight \in Nat
    /\ Faults \in BOOLEAN

VARIABLES
    used,      \* users.storageUsedBytes
    files,     \* files: a row or Nothing, by file id
    versions,  \* file_versions: a row or Nothing, by version id
    blobs,     \* the storage paths that hold content
    pc,        \* the await each request is at
    args,      \* what each request asks for
    seen       \* the handler's local variables

vars == <<used, files, versions, blobs, pc, args, seen>>

-----------------------------------------------------------------------------
(* Rows, arguments and handler locals. *)

Answered == {"done", "refused", "missing", "empty", "failed"}

Awaits == {"store", "insertFile", "insertFirstVersion", "findFile",
           "insertVersion", "loadFile", "writeFile", "findOwner", "loadUser",
           "writeUser", "uncache", "listVersions", "deleteBlobs",
           "deleteVersions", "deleteFile", "fetch", "listHistory"}

FileRow == [ownerId : User, sizeBytes : Nat, status : {"active", "deleted"},
            scanStatus : {"clean", "error", "skipped"},
            versionCount : Nat \ {0}, currentVersionId : Request \cup {Nothing}]

VersionRow == [fileId : Request, versionNumber : Nat \ {0}]

Call == [op : Op, user : User, target : Request, size : Nat,
         verdict : {"clean", "error", "skipped", "infected"}]

Locals == [used : Nat, usedRow : Nat,
           file : FileRow \cup {Nothing}, fileRow : FileRow \cup {Nothing},
           todo : SUBSET Request]

\* Null is no identifier and no row.
ASSUMPTION NothingAssumption == Nothing \notin Request \cup FileRow \cup VersionRow

NoLocals == [used |-> 0, usedRow |-> 0, file |-> Nothing, fileRow |-> Nothing,
             todo |-> {}]

Upload == {"create", "revise"}
Removal == {"delete", "purge"}

InFlight(r) == pc[r] \in Awaits

\* The ids a client can name: those of existing rows, and an unknown one.
Target(r) == {r} \cup {f \in Request : files[f] # Nothing}

VersionsOf(f) == {v \in Request : versions[v] # Nothing /\ versions[v].fileId = f}

-----------------------------------------------------------------------------
(* Entity methods. *)

\* Mutant: asks whether anything is left, not whether the upload fits.
HasAnyStorageLeft(usedBytes, bytes) == usedBytes < Limit

HasStorageAvailable(usedBytes, bytes) == usedBytes + bytes <= Limit

\* Mutant: decrementStorage without Math.max.
DecrementUnclamped(usedBytes, bytes) == usedBytes - bytes

DecrementStorage(usedBytes, bytes) ==
    IF bytes <= usedBytes THEN usedBytes - bytes ELSE 0

\* Mutant: case 'error' falls through to the default.
ApplyScanStatusNoError(file, outcome) ==
    [file EXCEPT !.scanStatus = IF outcome = "clean" THEN "clean" ELSE "skipped"]

ApplyScanStatus(file, outcome) ==
    [file EXCEPT !.scanStatus = IF outcome \in {"clean", "error"} THEN outcome
                                                                  ELSE "skipped"]

CreateFile(owner, bytes, outcome) ==
    ApplyScanStatus([ownerId |-> owner, sizeBytes |-> bytes, status |-> "active",
                     scanStatus |-> "skipped", versionCount |-> 1,
                     currentVersionId |-> Nothing], outcome)

SoftDeleted(file) == [file EXCEPT !.status = "deleted"]

\* Mutant: the entity is told of one upload twice.
NewVersionUploadedTwice(file, version) ==
    [file EXCEPT !.currentVersionId = version, !.versionCount = @ + 2]

\* Mutant: a new version brings its file back.
NewVersionUploadedRevives(file, version) ==
    [file EXCEPT !.currentVersionId = version, !.versionCount = @ + 1, !.status = "active"]

NewVersionUploaded(file, version) ==
    [file EXCEPT !.currentVersionId = version, !.versionCount = @ + 1]

MayChange(user, file) == file.ownerId = user \/ user \in Admin

-----------------------------------------------------------------------------
Init ==
    /\ used = [u \in User |-> 0]
    /\ files = [f \in Request |-> Nothing]
    /\ versions = [v \in Request |-> Nothing]
    /\ blobs = {}
    /\ pc = [r \in Request |-> "idle"]
    /\ args = [r \in Request |-> Nothing]
    /\ seen = [r \in Request |-> NoLocals]

Goto(r, label) == pc' = [pc EXCEPT ![r] = label]

Learn(r, locals) == seen' = [seen EXCEPT ![r] = locals]

Answer(r, label) == Goto(r, label) /\ Learn(r, NoLocals)

Arrive(r, op, user, target, size, verdict) ==
    /\ pc[r] = "idle"
    /\ op \in Op
    /\ Cardinality({q \in Request : InFlight(q)}) < MaxInFlight
    /\ args' = [args EXCEPT ![r] = [op |-> op, user |-> user, target |-> target,
                                    size |-> size, verdict |-> verdict]]

-----------------------------------------------------------------------------
(* UploadFileUseCase.execute *)

\* userRepository.findById and the quota check on what it returned.
UploadBegin(r) ==
    \E op \in Upload, user \in User, size \in Size, verdict \in Verdict :
    \E target \in IF op = "create" THEN {r} ELSE Target(r) :
        /\ Arrive(r, op, user, target, size, verdict)
        /\ IF HasStorageAvailable(used[user], size)
              THEN /\ Goto(r, "store")
                   /\ Learn(r, [NoLocals EXCEPT !.used = used[user]])
              ELSE Answer(r, "refused")
        /\ UNCHANGED <<used, files, versions, blobs>>

\* An infected upload is refused before it is stored.
UploadInfected(r) ==
    /\ pc[r] = "store"
    /\ args[r].verdict = "infected"
    /\ Answer(r, "refused")
    /\ UNCHANGED <<used, files, versions, blobs, args>>

\* Mutant: every version of a file goes to one storage path.
UploadStoreByFile(r) ==
    /\ pc[r] = "store"
    /\ args[r].verdict # "infected"
    /\ blobs' = blobs \cup {args[r].target}
    /\ Goto(r, IF args[r].op = "create" THEN "insertFile" ELSE "findFile")
    /\ UNCHANGED <<used, files, versions, args, seen>>

\* Mutant: storageProvider.upload is not awaited, so its rejection goes unnoticed.
UploadStoreUnawaited(r) ==
    /\ pc[r] = "store"
    /\ args[r].verdict # "infected"
    /\ blobs' \in {blobs, blobs \cup {r}}
    /\ Goto(r, IF args[r].op = "create" THEN "insertFile" ELSE "findFile")
    /\ UNCHANGED <<used, files, versions, args, seen>>

UploadStore(r) ==
    /\ pc[r] = "store"
    /\ args[r].verdict # "infected"
    /\ blobs' = blobs \cup {r}
    /\ Goto(r, IF args[r].op = "create" THEN "insertFile" ELSE "findFile")
    /\ UNCHANGED <<used, files, versions, args, seen>>

\* A new file: the files row, then the row of version 1.
UploadInsertFile(r) ==
    /\ pc[r] = "insertFile"
    /\ files' = [files EXCEPT ![r] =
                    CreateFile(args[r].user, args[r].size, args[r].verdict)]
    /\ Goto(r, "insertFirstVersion")
    /\ UNCHANGED <<used, versions, blobs, args, seen>>

\* Mutant: the insert is not awaited, so its rejection goes unnoticed.
InsertVersionUnawaited(r, number, next) ==
    LET row == [fileId |-> args[r].target, versionNumber |-> number] IN
    /\ versions' \in {versions, [versions EXCEPT ![r] = row]}
    /\ next

\* The foreign key refuses a version of a file that is gone.
InsertVersion(r, number, next) ==
    LET f == args[r].target IN
    IF files[f] # Nothing
       THEN /\ versions' = [versions EXCEPT ![r] =
                               [fileId |-> f, versionNumber |-> number]]
            /\ next
       ELSE Answer(r, "failed") /\ UNCHANGED versions

UploadInsertFirstVersion(r) ==
    /\ pc[r] = "insertFirstVersion"
    /\ InsertVersion(r, 1, Goto(r, "loadUser") /\ UNCHANGED seen)
    /\ UNCHANGED <<used, files, blobs, args>>

\* A new version: the lookup and the permission check come after the blob is
\* stored, so a 404 or a 403 leaves it behind.
UploadFindFile(r) ==
    LET file == files[args[r].target] IN
    /\ pc[r] = "findFile"
    /\ IF file # Nothing /\ MayChange(args[r].user, file)
          THEN /\ Goto(r, "insertVersion")
               /\ Learn(r, [seen[r] EXCEPT !.file = file])
          ELSE Answer(r, "refused")
    /\ UNCHANGED <<used, files, versions, blobs, args>>

UploadInsertVersion(r) ==
    LET file == seen[r].file
        revised == ApplyScanStatus(NewVersionUploaded(file, r), args[r].verdict)
    IN
    /\ pc[r] = "insertVersion"
    /\ InsertVersion(r, file.versionCount + 1,
                     /\ Goto(r, "loadFile")
                     /\ Learn(r, [seen[r] EXCEPT !.file = revised]))
    /\ UNCHANGED <<used, files, blobs, args>>

-----------------------------------------------------------------------------
(* repo.save(file): SELECT the row, then write what differs from it. *)

LoadFile(r) ==
    /\ pc[r] = "loadFile"
    /\ Learn(r, [seen[r] EXCEPT !.fileRow = files[args[r].target]])
    /\ Goto(r, "writeFile")
    /\ UNCHANGED <<used, files, versions, blobs, args>>

\* What the UPDATE leaves in the table: the columns in which the entity differs
\* from the row save() loaded are written, the others stay as they now are.
\* (ownerId and sizeBytes are the same in every copy of a file.)
Written(now, loaded, entity) ==
    LET Column(c) == IF entity[c] = loaded[c] THEN now[c] ELSE entity[c]
    IN [now EXCEPT !.status = Column("status"),
                   !.scanStatus = Column("scanStatus"),
                   !.versionCount = Column("versionCount"),
                   !.currentVersionId = Column("currentVersionId")]

\* Mutant: a soft delete runs on into the version rows.
AfterWriteFileFallsThrough(r) ==
    IF args[r].op = "revise" THEN "loadUser" ELSE "deleteVersions"

\* The awaited update of the files row; a soft delete goes on to its owner, an
\* upload to its uploader.
AfterWriteFile(r) == IF args[r].op = "revise" THEN "loadUser" ELSE "findOwner"

\* A row save() found is updated, if it is still there.
UpdateFile(r) ==
    LET f == args[r].target
        loaded == seen[r].fileRow
    IN
    /\ pc[r] = "writeFile"
    /\ loaded # Nothing
    /\ files' = IF files[f] = Nothing THEN files
                ELSE [files EXCEPT ![f] = Written(@, loaded, seen[r].file)]
    /\ Goto(r, AfterWriteFile(r))
    /\ UNCHANGED <<used, versions, blobs, args, seen>>

\* A row save() did not find is inserted: the file is back.
ReinsertFile(r) ==
    LET f == args[r].target IN
    /\ pc[r] = "writeFile"
    /\ seen[r].fileRow = Nothing
    /\ IF files[f] = Nothing
          THEN /\ files' = [files EXCEPT ![f] = seen[r].file]
               /\ Goto(r, AfterWriteFile(r))
               /\ UNCHANGED seen
          ELSE /\ Answer(r, "failed")      \* primary key violation
               /\ UNCHANGED files
    /\ UNCHANGED <<used, versions, blobs, args>>

-----------------------------------------------------------------------------
(* The users row: each writer saves the entity it loaded earlier. *)

\* Mutant: a removal gives the bytes back to whoever asked for it.
AccountOfRequester(r) == args[r].user

\* The account whose row the request writes.
Account(r) == IF args[r].op \in Removal THEN seen[r].file.ownerId ELSE args[r].user

\* storageUsedBytes in the entity at the moment it is saved.
UsageToWrite(r) ==
    CASE args[r].op \in Upload  -> seen[r].used + args[r].size
      [] args[r].op \in Removal -> DecrementStorage(seen[r].used, seen[r].file.sizeBytes)
      [] OTHER                  -> seen[r].used

LoadUser(r) ==
    /\ pc[r] = "loadUser"
    /\ Learn(r, [seen[r] EXCEPT !.usedRow = used[Account(r)]])
    /\ Goto(r, "writeUser")
    /\ UNCHANGED <<used, files, versions, blobs, args>>

WriteUser(r) ==
    /\ pc[r] = "writeUser"
    /\ used' = IF UsageToWrite(r) = seen[r].usedRow THEN used
               ELSE [used EXCEPT ![Account(r)] = UsageToWrite(r)]
    /\ IF args[r].op = "login" THEN Answer(r, "done")
       ELSE Goto(r, "uncache") /\ UNCHANGED seen
    /\ UNCHANGED <<files, versions, blobs, args>>

\* Nothing reads the cache entries; the awaited del() only delays the answer.
Uncache(r) ==
    /\ pc[r] = "uncache"
    /\ Answer(r, "done")
    /\ UNCHANGED <<used, files, versions, blobs, args>>

-----------------------------------------------------------------------------
(* DeleteFileUseCase.execute: "delete" marks the row, "purge" is an admin's *)
(* ?permanent=true.  A user's ?permanent=true is a "delete".                *)

RemovalBegin(r) ==
    \E op \in Removal, user \in User, target \in Target(r) :
        LET file == files[target] IN
        /\ op = "purge" => user \in Admin
        /\ Arrive(r, op, user, target, 0, "skipped")
        /\ IF /\ file # Nothing
              /\ file.status # "deleted"
              /\ MayChange(user, file)
              THEN IF op = "delete"
                   THEN /\ Goto(r, "loadFile")
                        /\ Learn(r, [NoLocals EXCEPT !.file = SoftDeleted(file)])
                   ELSE /\ Goto(r, "listVersions")
                        /\ Learn(r, [NoLocals EXCEPT !.file = file])
              ELSE Answer(r, "refused")
        /\ UNCHANGED <<used, files, versions, blobs>>

\* Mutant: the condition on the file is lost.
PurgeListAll(r) ==
    /\ pc[r] = "listVersions"
    /\ Learn(r, [seen[r] EXCEPT !.todo = {v \in Request : versions[v] # Nothing}])
    /\ Goto(r, "deleteBlobs")
    /\ UNCHANGED <<used, files, versions, blobs, args>>

\* Mutant: lists the latest version only.
PurgeListLatest(r) ==
    /\ pc[r] = "listVersions"
    /\ Learn(r, [seen[r] EXCEPT !.todo =
                     {v \in VersionsOf(args[r].target) :
                         \A w \in VersionsOf(args[r].target) :
                             versions[w].versionNumber <= versions[v].versionNumber}])
    /\ Goto(r, "deleteBlobs")
    /\ UNCHANGED <<used, files, versions, blobs, args>>

PurgeListVersions(r) ==
    /\ pc[r] = "listVersions"
    /\ Learn(r, [seen[r] EXCEPT !.todo = VersionsOf(args[r].target)])
    /\ Goto(r, "deleteBlobs")
    /\ UNCHANGED <<used, files, versions, blobs, args>>

\* Mutant: the loop does not move on to the next version.
PurgeBlobAgain(r) ==
    /\ pc[r] = "deleteBlobs"
    /\ \E v \in seen[r].todo : blobs' = blobs \ {v}
    /\ UNCHANGED <<used, files, versions, pc, args, seen>>

\* One storageProvider.delete; its rejection is swallowed.
PurgeBlob(r) ==
    /\ pc[r] = "deleteBlobs"
    /\ \E v \in seen[r].todo :
        /\ blobs' = blobs \ {v} \/ (Faults /\ UNCHANGED blobs)
        /\ Learn(r, [seen[r] EXCEPT !.todo = @ \ {v}])
    /\ UNCHANGED <<used, files, versions, pc, args>>

\* The delete of the file's shares touches no table of this module; a rejection of
\* it is an Abort here.
PurgeBlobsEnd(r) ==
    /\ pc[r] = "deleteBlobs"
    /\ seen[r].todo = {}
    /\ Goto(r, "deleteVersions")
    /\ UNCHANGED <<used, files, versions, blobs, args, seen>>

PurgeVersions(r) ==
    /\ pc[r] = "deleteVersions"
    /\ versions' = [v \in Request |->
                       IF v \in VersionsOf(args[r].target) THEN Nothing ELSE versions[v]]
    /\ Goto(r, "deleteFile")
    /\ UNCHANGED <<used, files, blobs, args, seen>>

\* The foreign key keeps a file that has version rows.
PurgeFile(r) ==
    LET f == args[r].target IN
    /\ pc[r] = "deleteFile"
    /\ IF VersionsOf(f) = {}
          THEN /\ files' = [files EXCEPT ![f] = Nothing]
               /\ Goto(r, "findOwner")
               /\ UNCHANGED seen
          ELSE /\ Answer(r, "failed")
               /\ UNCHANGED files
    /\ UNCHANGED <<used, versions, blobs, args>>

FindOwner(r) ==
    /\ pc[r] = "findOwner"
    /\ Learn(r, [seen[r] EXCEPT !.used = used[Account(r)]])
    /\ Goto(r, "loadUser")
    /\ UNCHANGED <<used, files, versions, blobs, args>>

-----------------------------------------------------------------------------
(* DownloadFileUseCase.execute serves storagePath, the first version's blob. *)

DownloadBegin(r) ==
    \E user \in User, target \in Target(r) :
        LET file == files[target] IN
        /\ Arrive(r, "download", user, target, 0, "skipped")
        /\ IF /\ file # Nothing
              /\ file.status # "deleted"
              /\ MayChange(user, file)
              THEN Goto(r, "fetch") /\ Learn(r, NoLocals)
              ELSE Answer(r, "refused")
        /\ UNCHANGED <<used, files, versions, blobs>>

DownloadFetch(r) ==
    /\ pc[r] = "fetch"
    /\ Answer(r, IF args[r].target \in blobs THEN "done" ELSE "missing")
    /\ UNCHANGED <<used, files, versions, blobs, args>>

-----------------------------------------------------------------------------
(* GetFileVersionsUseCase.execute *)

HistoryBegin(r) ==
    \E user \in User, target \in Target(r) :
        LET file == files[target] IN
        /\ Arrive(r, "history", user, target, 0, "skipped")
        /\ IF /\ file # Nothing
              /\ file.status # "deleted"
              /\ MayChange(user, file)
              THEN Goto(r, "listHistory") /\ Learn(r, NoLocals)
              ELSE Answer(r, "refused")
        /\ UNCHANGED <<used, files, versions, blobs>>

\* The rows found, newest first, or none.
HistoryRead(r) ==
    /\ pc[r] = "listHistory"
    /\ Answer(r, IF VersionsOf(args[r].target) = {} THEN "empty" ELSE "done")
    /\ UNCHANGED <<used, files, versions, blobs, args>>

-----------------------------------------------------------------------------
(* LoginUseCase.execute loads the user, compares the password, and saves    *)
(* the whole entity to record lastLoginAt.                                  *)

LoginBegin(r) ==
    \E user \in User :
        /\ Arrive(r, "login", user, r, 0, "skipped")
        /\ Goto(r, "loadUser")
        /\ Learn(r, [NoLocals EXCEPT !.used = used[user]])
        /\ UNCHANGED <<used, files, versions, blobs>>

-----------------------------------------------------------------------------
\* An awaited call rejects, or the process dies and takes the handler with it.
Abort(r) ==
    /\ Faults
    /\ InFlight(r)
    /\ Answer(r, "failed")
    /\ UNCHANGED <<used, files, versions, blobs, args>>

Begin(r) ==
    \/ UploadBegin(r) \/ RemovalBegin(r) \/ DownloadBegin(r)
    \/ HistoryBegin(r) \/ LoginBegin(r)

Continue(r) ==
    \/ UploadInfected(r) \/ UploadStore(r) \/ UploadInsertFile(r)
    \/ UploadInsertFirstVersion(r) \/ UploadFindFile(r) \/ UploadInsertVersion(r)
    \/ LoadFile(r) \/ UpdateFile(r) \/ ReinsertFile(r)
    \/ LoadUser(r) \/ WriteUser(r) \/ Uncache(r)
    \/ PurgeListVersions(r) \/ PurgeBlob(r) \/ PurgeBlobsEnd(r)
    \/ PurgeVersions(r) \/ PurgeFile(r) \/ FindOwner(r)
    \/ DownloadFetch(r) \/ HistoryRead(r)

\* The clients of a finite instance run out of requests; the service idles.
Idle == (\A r \in Request : pc[r] \in Answered) /\ UNCHANGED vars

Next == (\E r \in Request : Begin(r) \/ Continue(r) \/ Abort(r)) \/ Idle

Spec == Init /\ [][Next]_vars

\* Every awaited call settles and the event loop runs every continuation.
FairSpec == Spec /\ \A r \in Request : WF_vars(Continue(r))

-----------------------------------------------------------------------------
\* The tables, the blob store and the handlers keep their shapes.
TypeOK ==
    /\ used \in [User -> Nat]
    /\ files \in [Request -> FileRow \cup {Nothing}]
    /\ versions \in [Request -> VersionRow \cup {Nothing}]
    /\ blobs \subseteq Request
    /\ pc \in [Request -> {"idle"} \cup Awaits \cup Answered]
    /\ args \in [Request -> Call \cup {Nothing}]
    /\ seen \in [Request -> Locals]

\* An admin's permanent delete of f got past its checks; from then on its blobs
\* and rows may go one by one.
PurgeBegun(f) ==
    \E r \in Request : /\ pc[r] \notin {"idle", "refused"}
                       /\ args[r].op = "purge"
                       /\ args[r].target = f

\* Lost updates of storageUsedBytes (uploads, deletes and logins all save a
\* user they loaded earlier) never record more than storageLimitBytes: each
\* writer adds to a value that left it room.
RecordedUsageWithinLimit == \A u \in User : used[u] <= Limit

\* Whatever is interleaved or fails, a version row's content and the content
\* file.storagePath names stay in the blob store until an admin purges the file.
RowsHaveContent ==
    /\ \A v \in Request :
          versions[v] # Nothing /\ ~PurgeBegun(versions[v].fileId) => v \in blobs
    /\ \A f \in Request : files[f] # Nothing /\ ~PurgeBegun(f) => f \in blobs

\* versionCount, though concurrent uploads overwrite it, never runs ahead of the
\* history: every number from 2 to the count is the number of some version row,
\* and currentVersionId is a row of that file's history.
HistoryHasNoGaps ==
    \A f \in Request :
        files[f] # Nothing /\ ~PurgeBegun(f) =>
            /\ \A n \in 2 .. files[f].versionCount :
                  \E v \in VersionsOf(f) : versions[v].versionNumber = n
            /\ files[f].currentVersionId \in VersionsOf(f) \cup {Nothing}

\* An upload answered 201 is kept: its version row, its file row and its blob
\* are there for as long as no admin purges the file.
AcknowledgedUploadKept ==
    \A r \in Request :
        pc[r] = "done" /\ args[r].op \in Upload /\ ~PurgeBegun(args[r].target) =>
            /\ versions[r] # Nothing /\ versions[r].fileId = args[r].target
            /\ files[args[r].target] # Nothing
            /\ r \in blobs

\* A download that passed its checks misses the content only because of a purge.
DownloadMissesOnlyPurged ==
    \A r \in Request : pc[r] = "missing" => PurgeBegun(args[r].target)

\* A version row is without its content only while a purge of its file is between the
\* removal of the contents and that of the rows, or because one was cut off there: once
\* a purge is answered, whatever was uploaded meanwhile, no row names content that is gone.
PurgeLeavesNoHoles ==
    \A v \in Request :
        versions[v] # Nothing /\ v \notin blobs =>
            \E r \in Request : /\ pc[r] \in {"deleteBlobs", "deleteVersions", "failed"}
                               /\ args[r].op = "purge"
                               /\ args[r].target = versions[v].fileId

\* Content that no version row names was left by an upload that has not stored its row
\* yet or was answered with an error (UploadFileUseCase 91-127), or by a purge.
OrphansAreErrors ==
    \A v \in blobs :
        versions[v] # Nothing \/ PurgeBegun(args[v].target)
        \/ pc[v] \in {"insertFile", "insertFirstVersion", "findFile", "insertVersion",
                     "refused", "failed"}

\* A file whose upload was answered never shows an empty history, unless a purge has
\* begun; one whose first version row is still to come, or never came, may.
EmptyHistoryOnlyUnfinished ==
    [][\A r \in Request :
         pc[r] = "listHistory" /\ pc'[r] = "empty" =>
             PurgeBegun(args[r].target) \/ pc[args[r].target] # "done"]_vars

\* The handlers that may still write the row of f.
WritersOf(f) == {r \in Request : /\ pc[r] \in {"insertVersion", "loadFile", "writeFile"}
                                 /\ args[r].target = f}

\* The file is deleted or purged, its creation is past the insert of the row, and no
\* handler that may still write the row took the file for active.
Withdrawn(f) ==
    /\ files[f] = Nothing \/ files[f].status = "deleted"
    /\ pc[f] \notin {"idle", "store", "insertFile"}
    /\ \A r \in WritersOf(f) : seen[r].file.status = "deleted"

\* A delete or a purge can be undone only by an upload that read the file while it was
\* active (UploadFileUseCase 104-128): once none is open the file is gone for good,
\* although a deleted file still takes versions and save() inserts a row it misses.
WithdrawnForGood == [][\A f \in Request : Withdrawn(f) => Withdrawn(f)']_vars
=============================================================================
