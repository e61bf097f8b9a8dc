------------------------- MODULE FileSerialProofs -------------------------
(***************************************************************************)
(* Theorems about FileStoreSerial: with one request open at a time and no  *)
(* call failing, the handlers keep an exact history, purge completely and  *)
(* implement FileContract, for any number of requests, users and sizes.    *)
(***************************************************************************)
EXTENDS FileStoreSerial, FileHistoryProofs, FiniteSetTheorems, WellFoundedInduction

OneAtATime == MaxInFlight = 1 /\ Faults = FALSE

OneOpen == \A q, r \in Request : InFlight(q) /\ InFlight(r) => q = r

\* The foreign key of file_versions.
VersionsHaveFile == \A v \in Request : versions[v] # Nothing => files[versions[v].fileId] # Nothing

Revised(file, r) == ApplyScanStatus(NewVersionUploaded(file, r), args[r].verdict)

\* Nobody changes what a handler has read: at each await its locals are the rows.
FilesFresh(r) ==
    LET f == args[r].target
        file == seen[r].file
    IN
    /\ pc[r] \in {"insertFile", "insertFirstVersion", "findFile", "insertVersion"} =>
          args[r].verdict # "infected"
    /\ pc[r] = "insertFirstVersion" =>
          /\ files[r] = CreateFile(args[r].user, args[r].size, args[r].verdict)
          /\ VersionsOf(r) = {}
    /\ pc[r] = "insertVersion" => file = files[f] /\ MayChange(args[r].user, file)
    /\ pc[r] \in {"loadFile", "writeFile"} =>
          /\ files[f] # Nothing
          /\ MayChange(args[r].user, files[f])
          /\ args[r].op = "revise" => file = Revised(files[f], r)
          /\ args[r].op = "delete" => file = SoftDeleted(files[f]) /\ files[f].status = "active"
    /\ pc[r] = "writeFile" => seen[r].fileRow = files[f]
    /\ pc[r] \in {"listVersions", "deleteBlobs", "deleteVersions", "deleteFile"} =>
          /\ files[f] # Nothing
          /\ file = files[f]
          /\ file.status = "active"
    /\ pc[r] = "deleteFile" => VersionsOf(f) = {}
    /\ InFlight(r) /\ args[r].op = "purge" => args[r].user \in Admin

UsageFresh(r) ==
    /\ InFlight(r) /\ args[r].op \in Upload => args[r].size \in Size
    /\ InFlight(r) /\ args[r].op \in Upload /\ pc[r] # "uncache" =>
          /\ seen[r].used = used[args[r].user]
          /\ HasStorageAvailable(used[args[r].user], args[r].size)
    /\ pc[r] \in {"loadUser", "writeUser"} => seen[r].used = used[Account(r)]
    /\ pc[r] = "writeUser" => seen[r].usedRow = used[Account(r)]

FreshInv ==
    /\ OneAtATime
    /\ HistoryInv
    /\ OneOpen
    /\ VersionsHaveFile
    /\ \A r \in Request : FilesFresh(r) /\ UsageFresh(r)

-----------------------------------------------------------------------------
(* One request is open. *)

LEMMA Alone ==
    ASSUME TypeInv, OneAtATime, OneOpen, NEW r \in Request, Begin(r) \/ Continue(r)
    PROVE  \A q \in Request \ {r} : ~InFlight(q)
<1>1. CASE Continue(r)
    <2>1. pc[r] # "idle"
        BY <1>1, ContinueIsOpen
    <2>2. InFlight(r)
        BY <1>1, <2>1, ContinueMoves DEF Moves
    <2>. QED
        BY <2>2 DEF OneOpen
<1>2. CASE Begin(r)
    <2> DEFINE open == {q \in Request : InFlight(q)}
    <2>1. Cardinality(open) < 1
        BY <1>2 DEF OneAtATime, Begin, UploadBegin, RemovalBegin, DownloadBegin, HistoryBegin,
           LoginBegin, Arrive
    <2>2. IsFiniteSet(open) /\ Cardinality(open) \in Nat
        BY ListingAssumption, FS_Subset, FS_CardinalityType
    <2>3. open = {}
        BY <2>1, <2>2, FS_EmptySet
    <2>. QED
        BY <2>3
<1>. QED
    BY <1>1, <1>2

\* A step of the only request that is open, and where it leaves the others.
LEMMA SerialStep ==
    ASSUME FreshInv, NEW r \in Request, Begin(r) \/ Continue(r)
    PROVE  /\ HistoryInv' /\ Moves(r) /\ OneOpen'
           /\ \A q \in Request \ {r} : ~InFlight(q) /\ ~InFlight(q)'
<1>1. HistoryInv'
    BY BeginHistoryInv, ContinueHistoryInv DEF FreshInv
<1>2. Moves(r)
    <2>1. CASE Begin(r)
        <3>1. Begun(r)
            BY <2>1, BeginBegun DEF FreshInv, HistoryInv
        <3>. QED
            BY <3>1 DEF Begun, Moves, BeforeFile, BeforeVersion, InFlight, Awaits
    <2>. QED
        BY <2>1, ContinueMoves DEF FreshInv, HistoryInv
<1>3. \A q \in Request \ {r} : ~InFlight(q)
    BY Alone DEF FreshInv, HistoryInv
<1>4. \A q \in Request \ {r} : ~InFlight(q)'
    BY <1>2, <1>3 DEF Moves, InFlight
<1>. QED
    BY <1>1, <1>2, <1>3, <1>4 DEF OneOpen

\* It is enough to look at the request that is open, and at the foreign key.
LEMMA FreshFrame ==
    ASSUME FreshInv, NEW r \in Request, Begin(r) \/ Continue(r),
           FilesFresh(r)', UsageFresh(r)', VersionsHaveFile'
    PROVE  FreshInv'
<1>1. ASSUME NEW q \in Request, q # r
      PROVE  FilesFresh(q)' /\ UsageFresh(q)'
    <2>1. pc'[q] \notin Awaits
        BY <1>1, SerialStep DEF InFlight
    <2>. QED
        BY <2>1 DEF FilesFresh, UsageFresh, InFlight, Awaits
<1>. QED
    BY <1>1, SerialStep DEF FreshInv, OneAtATime

LEMMA VersionsHaveFileKept ==
    ASSUME VersionsHaveFile, UNCHANGED versions, \A f \in Request : files[f] # Nothing => files'[f] # Nothing,
           TypeOK
    PROVE  VersionsHaveFile'
BY DEF VersionsHaveFile, TypeOK, VersionRow

\* What a handler knows when it began.
LEMMA BeginFreshInv ==
    ASSUME FreshInv, NEW r \in Request, Begin(r)
    PROVE  FreshInv'
<1> USE DEF Arrive, Goto, Learn, Answer, InFlight, Awaits
<1>1. TypeOK /\ TypeInv /\ UNCHANGED <<used, files, versions>>
    BY DEF FreshInv, HistoryInv, TypeInv, Begin, UploadBegin, RemovalBegin, DownloadBegin,
       HistoryBegin, LoginBegin
<1>2. VersionsHaveFile'
    BY <1>1 DEF FreshInv, VersionsHaveFile
<1>3. CASE UploadBegin(r)
    <2>1. PICK op \in Upload, user \in User, size \in Size :
              /\ args'[r].op = op /\ args'[r].user = user /\ args'[r].size = size
              /\ \/ pc'[r] = "refused"
                 \/ /\ pc'[r] = "store"
                    /\ HasStorageAvailable(used[user], size)
                    /\ seen'[r].used = used[user]
        BY <1>1, <1>3 DEF UploadBegin, TypeOK, NoLocals
    <2>2. FilesFresh(r)'
        BY <2>1 DEF FilesFresh, Upload
    <2>3. UsageFresh(r)'
        BY <1>1, <2>1 DEF UsageFresh, HasStorageAvailable
    <2>. QED
        BY <1>2, <2>2, <2>3, FreshFrame
<1>4. CASE RemovalBegin(r)
    <2>1. PICK op \in Removal, user \in User, target \in Target(r) :
              /\ op = "purge" => user \in Admin
              /\ args'[r].op = op /\ args'[r].user = user /\ args'[r].target = target
              /\ \/ pc'[r] = "refused"
                 \/ /\ files[target] # Nothing /\ files[target].status # "deleted"
                    /\ MayChange(user, files[target])
                    /\ \/ /\ op = "delete" /\ pc'[r] = "loadFile"
                          /\ seen'[r].file = SoftDeleted(files[target])
                       \/ /\ op = "purge" /\ pc'[r] = "listVersions"
                          /\ seen'[r].file = files[target]
        BY <1>1, <1>4 DEF RemovalBegin, Removal, TypeOK, NoLocals
    <2>2. target \in Request /\ (files[target] # Nothing => files[target] \in FileRow)
        BY <1>1 DEF Target, TypeOK
    <2>3. files[target] # Nothing /\ files[target].status # "deleted" => files[target].status = "active"
        BY <2>2 DEF FileRow
    <2>4. FilesFresh(r)'
        BY <1>1, <2>1, <2>2, <2>3 DEF FilesFresh
    <2>5. UsageFresh(r)'
        BY <2>1 DEF UsageFresh, Removal, Upload
    <2>. QED
        BY <1>2, <2>4, <2>5, FreshFrame
<1>5. CASE DownloadBegin(r) \/ HistoryBegin(r)
    <2>1. /\ pc'[r] \in {"fetch", "listHistory", "refused"}
          /\ args'[r].op \in {"download", "history"}
        <3>1. CASE DownloadBegin(r)
            <4>1. PICK user \in User, target \in Target(r) :
                      /\ args' = [args EXCEPT ![r] = [op |-> "download", user |-> user,
                                                     target |-> target, size |-> 0,
                                                     verdict |-> "skipped"]]
                      /\ pc' = [pc EXCEPT ![r] = "fetch"] \/ pc' = [pc EXCEPT ![r] = "refused"]
                BY <3>1 DEF DownloadBegin
            <4>. QED
                BY <1>1, <4>1 DEF TypeOK
        <3>2. CASE HistoryBegin(r)
            <4>1. PICK user \in User, target \in Target(r) :
                      /\ args' = [args EXCEPT ![r] = [op |-> "history", user |-> user,
                                                     target |-> target, size |-> 0,
                                                     verdict |-> "skipped"]]
                      /\ pc' = [pc EXCEPT ![r] = "listHistory"] \/ pc' = [pc EXCEPT ![r] = "refused"]
                BY <3>2 DEF HistoryBegin
            <4>. QED
                BY <1>1, <4>1 DEF TypeOK
        <3>. QED
            BY <1>5, <3>1, <3>2
    <2>2. FilesFresh(r)' /\ UsageFresh(r)'
        BY <2>1 DEF FilesFresh, UsageFresh, Upload
    <2>. QED
        BY <1>2, <2>2, FreshFrame
<1>6. CASE LoginBegin(r)
    <2>1. PICK user \in User :
              /\ args'[r].op = "login" /\ args'[r].user = user
              /\ pc'[r] = "loadUser" /\ seen'[r].used = used[user]
        BY <1>1, <1>6 DEF LoginBegin, TypeOK, NoLocals
    <2>2. FilesFresh(r)' /\ UsageFresh(r)'
        BY <1>1, <2>1 DEF FilesFresh, UsageFresh, Upload, Account, Removal
    <2>. QED
        BY <1>2, <2>2, FreshFrame
<1>. QED
    BY <1>3, <1>4, <1>5, <1>6 DEF Begin

LEMMA ContinueFreshInv ==
    ASSUME FreshInv, NEW r \in Request, Continue(r)
    PROVE  FreshInv'
<1> USE DEF Goto, Learn, Answer
<1> DEFINE f == args[r].target
<1>0. /\ TypeOK /\ HandlerOK(r) /\ FilesFresh(r) /\ UsageFresh(r) /\ LinkOK(r) /\ VersionsHaveFile
      /\ InFlight(r) /\ args[r] \in Call /\ f \in Request /\ pc[r] \in Awaits
    <2>1. TypeOK /\ HandlerOK(r) /\ FilesFresh(r) /\ UsageFresh(r) /\ LinkOK(r) /\ VersionsHaveFile
        BY DEF FreshInv, HistoryInv, TypeInv, ControlOK
    <2>2. pc[r] # "idle"
        BY ContinueIsOpen
    <2>3. InFlight(r)
        BY <2>2, SerialStep DEF Moves
    <2>. QED
        BY <2>1, <2>2, <2>3 DEF HandlerOK, Call, InFlight
<1>h. FilesFresh(r)' /\ UsageFresh(r)' /\ VersionsHaveFile' => FreshInv'
    BY FreshFrame
<1>v. UNCHANGED versions /\ (\A g \in Request : files[g] # Nothing => files'[g] # Nothing) => VersionsHaveFile'
    BY <1>0, VersionsHaveFileKept
<1>a. pc'[r] \notin Awaits => FilesFresh(r)' /\ UsageFresh(r)'
    BY DEF FilesFresh, UsageFresh, InFlight, Awaits
<1>1. CASE UploadInfected(r) \/ Uncache(r) \/ DownloadFetch(r) \/ HistoryRead(r)
    BY <1>0, <1>1, <1>h, <1>v, <1>a
    DEF UploadInfected, Uncache, DownloadFetch, HistoryRead, TypeOK, Awaits
<1>2. CASE UploadStore(r)
    <2>1. FilesFresh(r)'
        BY <1>0, <1>2 DEF UploadStore, FilesFresh, TypeOK, HandlerOK, Upload
    <2>2. UsageFresh(r)'
        BY <1>0, <1>2 DEF UploadStore, UsageFresh, TypeOK, HandlerOK, InFlight, Awaits, HasStorageAvailable
    <2>. QED
        BY <1>2, <2>1, <2>2, <1>h, <1>v DEF UploadStore
<1>3. CASE UploadInsertFile(r)
    <2>0. VersionsOf(r) = {}
        <3>1. files[r] = Nothing
            BY <1>0, <1>3 DEF UploadInsertFile, LinkOK, Created, BeforeFile
        <3>. QED
            BY <1>0, <3>1 DEF VersionsOf, VersionsHaveFile
    <2>1. FilesFresh(r)'
        BY <1>0, <1>3, <2>0 DEF UploadInsertFile, FilesFresh, TypeOK, HandlerOK, VersionsOf
    <2>2. UsageFresh(r)'
        BY <1>0, <1>3 DEF UploadInsertFile, UsageFresh, TypeOK, HandlerOK, InFlight, Awaits, HasStorageAvailable
    <2>3. \A g \in Request : files[g] # Nothing => files'[g] # Nothing
        BY <1>0, <1>3, CreateFileType, NothingAssumption DEF UploadInsertFile, TypeOK, Call
    <2>. QED
        BY <1>3, <2>1, <2>2, <2>3, <1>h, <1>v DEF UploadInsertFile
<1>4. CASE UploadInsertFirstVersion(r)
    <2>1. FilesFresh(r)' /\ UsageFresh(r)'
        BY <1>0, <1>4 DEF UploadInsertFirstVersion, InsertVersion, FilesFresh, UsageFresh, TypeOK, HandlerOK,
           InFlight, Awaits, HasStorageAvailable, Account, Upload, Removal
    <2>2. VersionsHaveFile'
        BY <1>0, <1>4 DEF UploadInsertFirstVersion, InsertVersion, VersionsHaveFile, TypeOK
    <2>. QED
        BY <2>1, <2>2, <1>h
<1>5. CASE UploadFindFile(r)
    <2>1. FilesFresh(r)' /\ UsageFresh(r)'
        BY <1>0, <1>5 DEF UploadFindFile, FilesFresh, UsageFresh, TypeOK, Locals, HandlerOK,
           InFlight, Awaits, HasStorageAvailable, Upload
    <2>. QED
        BY <1>5, <2>1, <1>h, <1>v DEF UploadFindFile
<1>6. CASE UploadInsertVersion(r)
    <2>0. files[f] # Nothing
        BY <1>0, <1>6, NothingAssumption DEF UploadInsertVersion, FilesFresh, HandlerOK
    <2>1. FilesFresh(r)'
        BY <1>0, <1>6, <2>0 DEF UploadInsertVersion, InsertVersion, FilesFresh, TypeOK, Locals, HandlerOK,
           Revised, InFlight, Awaits
    <2>2. UsageFresh(r)'
        BY <1>0, <1>6, <2>0 DEF UploadInsertVersion, InsertVersion, UsageFresh, TypeOK, Locals, HandlerOK,
           InFlight, Awaits, HasStorageAvailable, Upload
    <2>3. VersionsHaveFile'
        BY <1>0, <1>6, <2>0 DEF UploadInsertVersion, InsertVersion, VersionsHaveFile, TypeOK
    <2>. QED
        BY <2>1, <2>2, <2>3, <1>h
<1>7. CASE LoadFile(r)
    <2>1. FilesFresh(r)'
        BY <1>0, <1>7 DEF LoadFile, FilesFresh, TypeOK, Locals, HandlerOK, Revised, InFlight, Awaits
    <2>2. UsageFresh(r)'
        BY <1>0, <1>7 DEF LoadFile, UsageFresh, TypeOK, Locals, InFlight, Awaits, HasStorageAvailable
    <2>. QED
        BY <1>7, <2>1, <2>2, <1>h, <1>v DEF LoadFile
<1>8. CASE UpdateFile(r)
    <2>1. /\ pc'[r] \in {"loadUser", "findOwner"} /\ UNCHANGED <<used, versions, args, seen>>
          /\ pc'[r] = "loadUser" => args[r].op \in Upload
          /\ args[r].op \in {"revise", "delete"}
        BY <1>0, <1>8 DEF UpdateFile, AfterWriteFile, TypeOK, HandlerOK, Upload
    <2>2. FilesFresh(r)'
        BY <1>0, <2>1 DEF FilesFresh
    <2>3. UsageFresh(r)'
        BY <1>0, <1>8, <2>1 DEF UpdateFile, UsageFresh, InFlight, Awaits, HasStorageAvailable, Account, Upload, Removal
    <2>4. \A g \in Request : files[g] # Nothing => files'[g] # Nothing
        <3>1. files[f] \in FileRow /\ seen[r].fileRow \in FileRow /\ seen[r].file \in FileRow
            BY <1>0, <1>8 DEF UpdateFile, TypeOK, FilesFresh, HandlerOK
        <3>2. Written(files[f], seen[r].fileRow, seen[r].file) # Nothing
            BY <3>1, WrittenType, NothingAssumption
        <3>. QED
            BY <1>0, <1>8, <3>2 DEF UpdateFile, TypeOK
    <2>. QED
        BY <2>1, <2>2, <2>3, <2>4, <1>h, <1>v
<1>9. ~ReinsertFile(r)
    BY <1>0 DEF ReinsertFile, FilesFresh
<1>10. CASE LoadUser(r)
    <2>1. FilesFresh(r)'
        BY <1>0, <1>10 DEF LoadUser, FilesFresh, TypeOK, InFlight, Awaits
    <2>2. UsageFresh(r)'
        BY <1>0, <1>10 DEF LoadUser, UsageFresh, TypeOK, Locals, InFlight, Awaits, HasStorageAvailable, Account
    <2>. QED
        BY <1>10, <2>1, <2>2, <1>h, <1>v DEF LoadUser
<1>11. CASE WriteUser(r)
    <2>1. pc'[r] \in {"done", "uncache"} /\ UNCHANGED <<files, versions, args>>
        BY <1>0, <1>11 DEF WriteUser, TypeOK
    <2>2. FilesFresh(r)' /\ UsageFresh(r)'
        BY <1>0, <1>11, <2>1 DEF WriteUser, FilesFresh, UsageFresh, InFlight, Awaits
    <2>. QED
        BY <2>1, <2>2, <1>h, <1>v
<1>12. CASE PurgeListVersions(r) \/ PurgeBlob(r)
    <2>1. /\ pc'[r] = "deleteBlobs" /\ UNCHANGED <<used, files, versions, args>>
          /\ seen'[r].file = seen[r].file /\ pc[r] \in {"listVersions", "deleteBlobs"}
        BY <1>0, <1>12 DEF PurgeListVersions, PurgeBlob, TypeOK, Locals
    <2>2. FilesFresh(r)' /\ UsageFresh(r)'
        BY <1>0, <2>1 DEF FilesFresh, UsageFresh, InFlight, Awaits, HandlerOK, Upload
    <2>. QED
        BY <2>1, <2>2, <1>h, <1>v
<1>13. CASE PurgeBlobsEnd(r)
    <2>1. FilesFresh(r)' /\ UsageFresh(r)'
        BY <1>0, <1>13 DEF PurgeBlobsEnd, FilesFresh, UsageFresh, TypeOK, InFlight, Awaits, HandlerOK, Upload
    <2>. QED
        BY <1>13, <2>1, <1>h, <1>v DEF PurgeBlobsEnd
<1>14. CASE PurgeVersions(r)
    <2>1. FilesFresh(r)' /\ UsageFresh(r)'
        BY <1>0, <1>14 DEF PurgeVersions, FilesFresh, UsageFresh, TypeOK, InFlight, Awaits, HandlerOK, Upload, VersionsOf
    <2>2. VersionsHaveFile'
        BY <1>0, <1>14 DEF PurgeVersions, VersionsHaveFile, TypeOK
    <2>. QED
        BY <2>1, <2>2, <1>h
<1>15. CASE PurgeFile(r)
    <2>1. /\ pc'[r] = "findOwner" /\ files' = [files EXCEPT ![f] = Nothing]
          /\ UNCHANGED <<used, versions, args, seen>> /\ VersionsOf(f) = {} /\ args[r].op = "purge"
        BY <1>0, <1>15 DEF PurgeFile, FilesFresh, TypeOK, HandlerOK
    <2>2. FilesFresh(r)' /\ UsageFresh(r)'
        BY <1>0, <2>1 DEF FilesFresh, UsageFresh, InFlight, Awaits, Upload
    <2>3. VersionsHaveFile'
        BY <1>0, <2>1 DEF VersionsHaveFile, VersionsOf, TypeOK
    <2>. QED
        BY <2>2, <2>3, <1>h
<1>16. CASE FindOwner(r)
    <2>1. FilesFresh(r)' /\ UsageFresh(r)'
        BY <1>0, <1>16 DEF FindOwner, FilesFresh, UsageFresh, TypeOK, Locals, InFlight, Awaits, HandlerOK, Upload, Removal, Account
    <2>. QED
        BY <1>16, <2>1, <1>h, <1>v DEF FindOwner
<1>. QED
    BY <1>1, <1>2, <1>3, <1>4, <1>5, <1>6, <1>7, <1>8, <1>9, <1>10, <1>11, <1>12, <1>13,
       <1>14, <1>15, <1>16
    DEF Continue

LEMMA InitFreshInv == OneAtATime /\ Init => FreshInv
BY InitHistoryInv DEF Init, FreshInv, OneOpen, InFlight, Awaits, VersionsHaveFile, FilesFresh, UsageFresh

LEMMA NextFreshInv == FreshInv /\ [Next]_vars => FreshInv'
<1> SUFFICES ASSUME FreshInv, [Next]_vars
             PROVE  FreshInv'
    OBVIOUS
<1>1. ASSUME NEW r \in Request, Begin(r) \/ Continue(r) \/ Abort(r)
      PROVE  FreshInv'
    BY <1>1, BeginFreshInv, ContinueFreshInv DEF Abort, FreshInv, OneAtATime
<1>2. CASE UNCHANGED vars
    <2>1. HistoryInv'
        BY <1>2, StutterHistoryInv DEF FreshInv
    <2>. QED
        BY <1>2, <2>1 DEF vars, FreshInv, OneAtATime, OneOpen, InFlight, VersionsHaveFile, FilesFresh,
           UsageFresh, VersionsOf, Account, Revised
<1>. QED
    BY <1>1, <1>2 DEF Next, Idle

-----------------------------------------------------------------------------
(* The history.  The file that the open request is about to number again   *)
(* may be ahead of its row or behind it; every other history is exact.     *)

HistoryIn(vs, f) == {v \in Request : vs[v] # Nothing /\ vs[v].fileId = f}

Newest(f, row) == IF row.currentVersionId = Nothing THEN f ELSE row.currentVersionId

ExactIn(vs, calls, f, row) ==
    /\ Cardinality(HistoryIn(vs, f)) = row.versionCount
    /\ {vs[v].versionNumber : v \in HistoryIn(vs, f)} = 1 .. row.versionCount
    /\ Newest(f, row) \in HistoryIn(vs, f)
    /\ vs[Newest(f, row)].versionNumber = row.versionCount
    /\ row.scanStatus = calls[Newest(f, row)].verdict

Revising(r) == pc[r] \in {"loadFile", "writeFile"} /\ args[r].op = "revise"

Pending(r, f) ==
    /\ Revising(r) \/ pc[r] \in {"insertFirstVersion", "deleteFile"}
    /\ args[r].target = f

FileExact(f) ==
    files[f] # Nothing =>
        (\E r \in Request : Pending(r, f)) \/ ExactIn(versions, args, f, files[f])

RevisionExact(r) ==
    Revising(r) => ExactIn(versions, args, args[r].target, seen[r].file)

ExactInv ==
    /\ FreshInv
    /\ \A f \in Request : FileExact(f)
    /\ \A r \in Request : RevisionExact(r)

-----------------------------------------------------------------------------
(* What a purge has still to remove. *)

BlobOK(v) ==
    v \in blobs =>
        /\ pc[v] # "idle"
        /\ pc[v] = "refused" \/ pc[v] \in Uploading \/ versions[v] # Nothing

PurgeOK(r) ==
    LET f == args[r].target IN
    /\ pc[r] = "deleteBlobs" => VersionsOf(f) \cap blobs \subseteq seen[r].todo
    /\ pc[r] = "deleteVersions" => VersionsOf(f) \cap blobs = {}
    /\ /\ pc[r] \in {"findOwner", "loadUser", "writeUser", "uncache", "done"}
       /\ args[r].op = "purge"
       => f \in Created /\ files[f] = Nothing

CleanInv ==
    /\ FreshInv
    /\ \A r \in Request : BlobOK(r) /\ PurgeOK(r)

-----------------------------------------------------------------------------
\* A history that does not change, under requests that do not.
LEMMA ExactKept ==
    ASSUME NEW vs, NEW ws, NEW calls, NEW asked, NEW f \in Request, NEW row, NEW other,
           ExactIn(vs, calls, f, row),
           HistoryIn(ws, f) = HistoryIn(vs, f),
           \A v \in HistoryIn(vs, f) : ws[v] = vs[v] /\ asked[v] = calls[v],
           other.versionCount = row.versionCount,
           other.currentVersionId = row.currentVersionId,
           other.scanStatus = row.scanStatus
    PROVE  ExactIn(ws, asked, f, other)
<1>1. Newest(f, other) = Newest(f, row) /\ Newest(f, row) \in HistoryIn(vs, f)
    BY DEF ExactIn, Newest
<1>2. {ws[v].versionNumber : v \in HistoryIn(ws, f)} = {vs[v].versionNumber : v \in HistoryIn(vs, f)}
    OBVIOUS
<1>. QED
    BY <1>1, <1>2 DEF ExactIn

\* The first version makes the history of a new file exact.
LEMMA FirstExact ==
    ASSUME NEW vs, NEW ws, NEW calls, NEW f \in Request, NEW owner, NEW bytes,
           calls[f].verdict \in {"clean", "error", "skipped"},
           HistoryIn(vs, f) = {}, ws[f] = [fileId |-> f, versionNumber |-> 1], ws[f] # Nothing,
           \A v \in Request \ {f} : ws[v] = vs[v]
    PROVE  ExactIn(ws, calls, f, CreateFile(owner, bytes, calls[f].verdict))
<1>1. HistoryIn(ws, f) = {f}
    BY DEF HistoryIn
<1>2. Cardinality({f}) = 1
    BY FS_Singleton
<1>3. {ws[v].versionNumber : v \in {f}} = {1}
    OBVIOUS
<1>4. 1 .. 1 = {1}
    OBVIOUS
<1>. QED
    BY <1>1, <1>2, <1>3, <1>4 DEF ExactIn, Newest, CreateFile, ApplyScanStatus

\* The next version makes exact the history of the row the handler is to write.
LEMMA NextExact ==
    ASSUME NEW vs, NEW ws, NEW calls, NEW f \in Request, NEW r \in Request, NEW row \in FileRow,
           calls[r].verdict \in {"clean", "error", "skipped"},
           ExactIn(vs, calls, f, row), vs[r] = Nothing,
           ws[r] = [fileId |-> f, versionNumber |-> row.versionCount + 1], ws[r] # Nothing,
           \A v \in Request \ {r} : ws[v] = vs[v]
    PROVE  ExactIn(ws, calls, f,
                   ApplyScanStatus(NewVersionUploaded(row, r), calls[r].verdict))
<1> DEFINE old == HistoryIn(vs, f)
           next == ApplyScanStatus(NewVersionUploaded(row, r), calls[r].verdict)
           n == row.versionCount
<1>1. HistoryIn(ws, f) = old \cup {r} /\ r \notin old
    BY DEF HistoryIn
<1>2. n \in Nat \ {0} /\ next.versionCount = n + 1 /\ next.currentVersionId = r
      /\ next.scanStatus = calls[r].verdict
    BY DEF FileRow, ApplyScanStatus, NewVersionUploaded
<1>3. Cardinality(old \cup {r}) = n + 1
    <2>1. IsFiniteSet(old)
        BY ListingAssumption, FS_Subset DEF HistoryIn
    <2>. QED
        BY <1>1, <2>1, FS_AddElement DEF ExactIn
<1>4. {ws[v].versionNumber : v \in old \cup {r}} = 1 .. (n + 1)
    <2>1. {ws[v].versionNumber : v \in old} = {vs[v].versionNumber : v \in old}
        BY <1>1 DEF HistoryIn
    <2>2. {ws[v].versionNumber : v \in old} = 1 .. n
        BY <2>1 DEF ExactIn
    <2>3. {ws[v].versionNumber : v \in old \cup {r}} = (1 .. n) \cup {n + 1}
        BY <2>2
    <2>4. ASSUME NEW k \in Nat
          PROVE  (1 .. k) \cup {k + 1} = 1 .. (k + 1)
        OBVIOUS
    <2>5. (1 .. n) \cup {n + 1} = 1 .. (n + 1)
        <3> HIDE DEF n
        <3>. QED
            BY <1>2, <2>4
    <2>. QED
        BY <2>3, <2>5
<1>5. Newest(f, next) = r
    BY <1>2, NothingAssumption DEF Newest
<1>. QED
    BY <1>1, <1>2, <1>3, <1>4, <1>5 DEF ExactIn

\* It is enough to look at the open request and at the histories.
LEMMA ExactFrame ==
    ASSUME ExactInv, NEW r \in Request, Begin(r) \/ Continue(r),
           \A f \in Request : files'[f] # Nothing =>
               Pending(r, f)' \/ ExactIn(versions', args', f, files'[f]),
           RevisionExact(r)'
    PROVE  ExactInv'
<1>1. FreshInv'
    BY BeginFreshInv, ContinueFreshInv DEF ExactInv
<1>2. \A q \in Request \ {r} : ~InFlight(q)'
    BY SerialStep DEF ExactInv
<1>3. \A q \in Request : RevisionExact(q)'
    BY <1>2 DEF RevisionExact, Revising, InFlight, Awaits
<1>4. \A f \in Request : FileExact(f)'
    BY DEF FileExact
<1>. QED
    BY <1>1, <1>3, <1>4 DEF ExactInv

\* Of a file the open request is not about to number, the history was exact.
LEMMA WasExact ==
    ASSUME ExactInv, NEW r \in Request, Begin(r) \/ Continue(r), NEW f \in Request,
           files[f] # Nothing, ~Pending(r, f)
    PROVE  /\ ExactIn(versions, args, f, files[f])
           /\ \A v \in HistoryIn(versions, f) : args'[v] = args[v]
<1>1. \A q \in Request \ {r} : ~Pending(q, f)
    <2>1. \A q \in Request \ {r} : ~InFlight(q)
        BY SerialStep DEF ExactInv
    <2>. QED
        BY <2>1 DEF Pending, Revising, InFlight, Awaits
<1>2. ExactIn(versions, args, f, files[f])
    BY <1>1 DEF ExactInv, FileExact
<1>3. ASSUME NEW v \in HistoryIn(versions, f)
      PROVE  args'[v] = args[v]
    <2>1. v \in Request /\ pc[v] # "idle"
        BY DEF HistoryIn, ExactInv, FreshInv, HistoryInv, LinkOK, BeforeVersion, BeforeFile
    <2>. QED
        BY <2>1, SerialStep DEF ExactInv, Moves
<1>. QED
    BY <1>2, <1>3

\* A step that leaves the rows alone, and numbers no file afresh.
LEMMA RowsUntouched ==
    ASSUME ExactInv, NEW r \in Request, Begin(r) \/ Continue(r), UNCHANGED <<files, versions>>,
           \A f \in Request : Pending(r, f) => Pending(r, f)',
           RevisionExact(r)'
    PROVE  ExactInv'
<1>1. ASSUME NEW f \in Request, files'[f] # Nothing, ~Pending(r, f)'
      PROVE  ExactIn(versions', args', f, files'[f])
    BY <1>1, WasExact, ExactKept
<1>. QED
    BY <1>1, ExactFrame

LEMMA BeginExactInv ==
    ASSUME ExactInv, NEW r \in Request, Begin(r)
    PROVE  ExactInv'
<1>1. Begun(r) /\ UNCHANGED <<files, versions>> /\ pc[r] = "idle"
    <2>1. Begun(r)
        BY BeginBegun DEF ExactInv, FreshInv, HistoryInv
    <2>. QED
        BY <2>1 DEF Begun, Begin, UploadBegin, RemovalBegin, DownloadBegin, HistoryBegin, LoginBegin
<1>2. ~Revising(r)'
    BY <1>1 DEF Begun, Revising
<1>3. \A f \in Request : ~Pending(r, f)
    BY <1>1 DEF Pending, Revising
<1>. QED
    BY <1>1, <1>2, <1>3, RowsUntouched DEF RevisionExact

LEMMA ContinueExactInv ==
    ASSUME ExactInv, NEW r \in Request, Continue(r)
    PROVE  ExactInv'
<1> USE DEF Goto, Learn, Answer
<1> DEFINE f == args[r].target
<1>0. /\ TypeOK /\ HandlerOK(r) /\ FilesFresh(r) /\ LinkOK(r) /\ RevisionExact(r) /\ FreshInv
      /\ pc[r] \in Awaits /\ args[r] \in Call /\ f \in Request /\ args'[r] = args[r]
    <2>1. TypeOK /\ HandlerOK(r) /\ FilesFresh(r) /\ LinkOK(r) /\ RevisionExact(r) /\ FreshInv
        BY DEF ExactInv, FreshInv, HistoryInv, TypeInv, ControlOK
    <2>2. pc[r] # "idle"
        BY ContinueIsOpen
    <2>3. InFlight(r) /\ args'[r] = args[r]
        BY <2>1, <2>2, SerialStep DEF Moves
    <2>. QED
        BY <2>1, <2>2, <2>3 DEF HandlerOK, Call, InFlight
<1>x. ASSUME NEW g \in Request, files[g] # Nothing, ~Pending(r, g)
      PROVE  /\ ExactIn(versions, args, g, files[g])
             /\ \A v \in HistoryIn(versions, g) : args'[v] = args[v]
    BY <1>x, WasExact
<1>1. CASE \/ UploadInfected(r) \/ UploadStore(r) \/ UploadFindFile(r) \/ LoadUser(r)
           \/ WriteUser(r) \/ Uncache(r) \/ PurgeListVersions(r) \/ PurgeBlob(r)
           \/ PurgeBlobsEnd(r) \/ FindOwner(r) \/ DownloadFetch(r) \/ HistoryRead(r)
    <2>1. /\ UNCHANGED <<files, versions>>
          /\ pc[r] \notin {"loadFile", "writeFile", "insertFirstVersion", "deleteFile"}
          /\ pc'[r] \notin {"loadFile", "writeFile"}
        BY <1>0, <1>1
        DEF UploadInfected, UploadStore, UploadFindFile, LoadUser, WriteUser, Uncache,
            PurgeListVersions, PurgeBlob, PurgeBlobsEnd, FindOwner, DownloadFetch, HistoryRead, TypeOK
    <2>. QED
        BY <2>1, RowsUntouched DEF Pending, Revising, RevisionExact
<1>2. CASE UploadInsertFile(r)
    <2>1. /\ pc[r] = "insertFile" /\ pc'[r] = "insertFirstVersion" /\ f = r
          /\ \A g \in Request \ {r} : files'[g] = files[g]
          /\ versions' = versions
        BY <1>0, <1>2 DEF UploadInsertFile, TypeOK, HandlerOK
    <2>2. ASSUME NEW g \in Request, files'[g] # Nothing, ~Pending(r, g)'
          PROVE  ExactIn(versions', args', g, files'[g])
        <3>1. g # r
            BY <1>0, <2>1, <2>2 DEF Pending
        <3>. QED
            BY <1>x, <2>1, <2>2, <3>1, ExactKept DEF Pending, Revising
    <2>. QED
        BY <2>1, <2>2, ExactFrame DEF RevisionExact, Revising
<1>3. CASE UploadInsertFirstVersion(r)
    <2>1. /\ pc[r] = "insertFirstVersion" /\ f = r /\ files' = files /\ args' = args
          /\ files[r] = CreateFile(args[r].user, args[r].size, args[r].verdict)
          /\ VersionsOf(r) = {} /\ args[r].verdict \in {"clean", "error", "skipped"}
        BY <1>0, <1>3 DEF UploadInsertFirstVersion, HandlerOK, FilesFresh, Call
    <2>2. files[r] # Nothing
        BY <1>0, <2>1, CreateFileType, NothingAssumption DEF Call
    <2>3. versions' = [versions EXCEPT ![r] = [fileId |-> r, versionNumber |-> 1]]
          /\ pc'[r] = "loadUser"
        BY <1>0, <1>3, <2>1, <2>2 DEF UploadInsertFirstVersion, InsertVersion, TypeOK
    <2>4. [fileId |-> r, versionNumber |-> 1] \in VersionRow
        BY DEF VersionRow
    <2>5. /\ versions'[r] = [fileId |-> r, versionNumber |-> 1] /\ versions'[r] # Nothing
          /\ \A v \in Request \ {r} : versions'[v] = versions[v]
        BY <1>0, <2>3, <2>4, NothingAssumption DEF TypeOK
    <2>6. ExactIn(versions', args', r, files'[r])
        BY <2>1, <2>5, FirstExact DEF HistoryIn, VersionsOf
    <2>7. ASSUME NEW g \in Request \ {r}, files'[g] # Nothing
          PROVE  ExactIn(versions', args', g, files'[g])
        <3>1. ~Pending(r, g)
            BY <2>1 DEF Pending
        <3>2. HistoryIn(versions', g) = HistoryIn(versions, g)
            BY <1>0, <2>1, <2>5, <2>7 DEF HistoryIn, LinkOK, BeforeVersion, BeforeFile
        <3>3. \A v \in HistoryIn(versions, g) : versions'[v] = versions[v]
            BY <1>0, <2>1, <2>5 DEF HistoryIn, LinkOK, BeforeVersion, BeforeFile
        <3>. QED
            BY <1>x, <2>1, <2>7, <3>1, <3>2, <3>3, ExactKept
    <2>. QED
        BY <2>3, <2>6, <2>7, ExactFrame DEF RevisionExact, Revising
<1>4. CASE UploadInsertVersion(r)
    <2> DEFINE row == seen[r].file
    <2>1. /\ pc[r] = "insertVersion" /\ files' = files /\ args' = args
          /\ row = files[f] /\ row \in FileRow /\ row # Nothing
          /\ args[r].op = "revise" /\ args[r].verdict \in {"clean", "error", "skipped"}
        BY <1>0, <1>4, NothingAssumption DEF UploadInsertVersion, HandlerOK, FilesFresh, Call
    <2>2. /\ versions' = [versions EXCEPT ![r] =
                             [fileId |-> f, versionNumber |-> row.versionCount + 1]]
          /\ pc'[r] = "loadFile" /\ seen'[r].file = Revised(row, r)
        BY <1>0, <1>4, <2>1 DEF UploadInsertVersion, InsertVersion, TypeOK, Locals, Revised
    <2>3. [fileId |-> f, versionNumber |-> row.versionCount + 1] \in VersionRow
        BY <1>0, <2>1 DEF VersionRow, FileRow
    <2>4. /\ versions[r] = Nothing /\ versions'[r] # Nothing
          /\ versions'[r] = [fileId |-> f, versionNumber |-> row.versionCount + 1]
          /\ \A v \in Request \ {r} : versions'[v] = versions[v]
        BY <1>0, <2>1, <2>2, <2>3, NothingAssumption DEF TypeOK, LinkOK, BeforeVersion, BeforeFile
    <2>5. \A g \in Request : ~Pending(r, g)
        BY <2>1 DEF Pending, Revising
    <2>6. ExactIn(versions', args', f, seen'[r].file)
        <3>1. ExactIn(versions, args, f, row)
            BY <1>0, <1>x, <2>1, <2>5
        <3>2. ExactIn(versions', args, f, Revised(row, r))
            <4> HIDE DEF row
            <4>. QED
                BY <1>0, <2>1, <2>4, <3>1, NextExact DEF Revised
        <3>. QED
            BY <2>1, <2>2, <3>2
    <2>7. ASSUME NEW g \in Request \ {f}, files'[g] # Nothing
          PROVE  ExactIn(versions', args', g, files'[g])
        <3>1. /\ HistoryIn(versions', g) = HistoryIn(versions, g)
              /\ \A v \in HistoryIn(versions, g) : versions'[v] = versions[v]
            BY <2>4, <2>7 DEF HistoryIn
        <3>. QED
            BY <1>x, <2>1, <2>5, <2>7, <3>1, ExactKept
    <2>8. \A g \in Request : files'[g] # Nothing => Pending(r, g)' \/ ExactIn(versions', args', g, files'[g])
        BY <2>1, <2>2, <2>7 DEF Pending, Revising
    <2>. QED
        BY <2>1, <2>6, <2>8, ExactFrame DEF RevisionExact
<1>5. CASE LoadFile(r)
    <2>1. /\ pc[r] = "loadFile" /\ pc'[r] = "writeFile" /\ args' = args
          /\ UNCHANGED <<files, versions>> /\ seen'[r].file = seen[r].file
        BY <1>0, <1>5 DEF LoadFile, TypeOK, Locals
    <2>. QED
        BY <1>0, <2>1, RowsUntouched DEF Pending, Revising, RevisionExact
<1>6. CASE UpdateFile(r)
    <2> DEFINE row == files[f]
               entity == seen[r].file
    <2>1. /\ pc[r] = "writeFile" /\ pc'[r] \in {"loadUser", "findOwner"}
          /\ versions' = versions /\ args' = args
          /\ row \in FileRow /\ row # Nothing /\ entity \in FileRow
          /\ seen[r].fileRow = row
        BY <1>0, <1>6, NothingAssumption
        DEF UpdateFile, AfterWriteFile, HandlerOK, FilesFresh, TypeOK
    <2>2. files' = [files EXCEPT ![f] = Written(row, row, entity)]
        BY <1>6, <2>1 DEF UpdateFile
    <2>3. /\ files'[f].versionCount = entity.versionCount
          /\ files'[f].currentVersionId = entity.currentVersionId
          /\ files'[f].scanStatus = entity.scanStatus
        BY <1>0, <2>1, <2>2 DEF Written, FileRow, TypeOK
    <2>4. ExactIn(versions', args', f, files'[f])
        <3>1. CASE args[r].op = "revise"
            <4>1. ExactIn(versions, args, f, entity)
                BY <1>0, <2>1, <3>1 DEF RevisionExact, Revising
            <4>. QED
                BY <1>0, <2>1, <2>3, <4>1, ExactKept
        <3>2. CASE args[r].op = "delete"
            <4>1. entity = SoftDeleted(row) /\ ~Pending(r, f)
                BY <1>0, <2>1, <3>2 DEF FilesFresh, Pending, Revising
            <4>2. /\ files'[f].versionCount = row.versionCount
                  /\ files'[f].currentVersionId = row.currentVersionId
                  /\ files'[f].scanStatus = row.scanStatus
                BY <2>1, <2>3, <4>1 DEF SoftDeleted, FileRow
            <4>3. ExactIn(versions, args, f, row)
                BY <1>0, <1>x, <2>1, <4>1
            <4>. QED
                BY <1>0, <2>1, <4>2, <4>3, ExactKept
        <3>. QED
            BY <1>0, <2>1, <3>1, <3>2 DEF HandlerOK
    <2>5. ASSUME NEW g \in Request \ {f}, files'[g] # Nothing
          PROVE  ExactIn(versions', args', g, files'[g])
        <3>1. files'[g] = files[g] /\ ~Pending(r, g)
            BY <1>0, <2>2 DEF TypeOK, Pending
        <3>. QED
            BY <1>x, <2>1, <2>5, <3>1, ExactKept
    <2>. QED
        BY <2>1, <2>4, <2>5, ExactFrame DEF RevisionExact, Revising
<1>7. ~ReinsertFile(r)
    BY <1>0 DEF ReinsertFile, FilesFresh
<1>8. CASE PurgeVersions(r)
    <2>1. /\ pc[r] = "deleteVersions" /\ pc'[r] = "deleteFile" /\ files' = files /\ args' = args
          /\ \A v \in Request : versions'[v] =
                 IF v \in VersionsOf(f) THEN Nothing ELSE versions[v]
        BY <1>0, <1>8 DEF PurgeVersions, TypeOK
    <2>2. ASSUME NEW g \in Request \ {f}, files'[g] # Nothing
          PROVE  ExactIn(versions', args', g, files'[g])
        <3>1. /\ HistoryIn(versions', g) = HistoryIn(versions, g)
              /\ \A v \in HistoryIn(versions, g) : versions'[v] = versions[v]
              /\ ~Pending(r, g)
            BY <2>1, <2>2 DEF HistoryIn, VersionsOf, Pending
        <3>. QED
            BY <1>x, <2>1, <2>2, <3>1, ExactKept
    <2>3. Pending(r, f)'
        BY <1>0, <2>1 DEF Pending
    <2>. QED
        BY <2>1, <2>2, <2>3, ExactFrame DEF RevisionExact, Revising
<1>9. CASE PurgeFile(r)
    <2>1. /\ pc'[r] = "findOwner" /\ versions' = versions /\ args' = args
          /\ files'[f] = Nothing
          /\ \A g \in Request \ {f} : files'[g] = files[g] /\ ~Pending(r, g)
        BY <1>0, <1>9 DEF PurgeFile, FilesFresh, TypeOK, Pending
    <2>2. ASSUME NEW g \in Request, files'[g] # Nothing
          PROVE  ExactIn(versions', args', g, files'[g])
        BY <1>x, <2>1, <2>2, ExactKept
    <2>. QED
        BY <2>1, <2>2, ExactFrame DEF RevisionExact, Revising
<1>. QED
    BY <1>1, <1>2, <1>3, <1>4, <1>5, <1>6, <1>7, <1>8, <1>9 DEF Continue

LEMMA NextExactInv == ExactInv /\ [Next]_vars => ExactInv'
<1> SUFFICES ASSUME ExactInv, [Next]_vars
             PROVE  ExactInv'
    OBVIOUS
<1>1. ASSUME NEW r \in Request, Begin(r) \/ Continue(r) \/ Abort(r)
      PROVE  ExactInv'
    BY <1>1, BeginExactInv, ContinueExactInv DEF Abort, ExactInv, FreshInv, OneAtATime
<1>2. CASE UNCHANGED vars
    <2>1. FreshInv'
        BY <1>2, NextFreshInv DEF ExactInv
    <2>. QED
        BY <1>2, <2>1 DEF vars, ExactInv, FileExact, RevisionExact, Pending, Revising
<1>. QED
    BY <1>1, <1>2 DEF Next, Idle

\* Uploads of versions, deletes and purges one at a time keep every history exact:
\* numbered 1 .. versionCount, currentVersionId the newest, scanStatus its verdict.
THEOREM HistoriesStayExact == OneAtATime => (Spec => []HistoryIsExact)
<1> SUFFICES ASSUME OneAtATime
             PROVE  Spec => []HistoryIsExact
    OBVIOUS
<1>1. Init => ExactInv
    BY InitFreshInv DEF Init, ExactInv, FileExact, RevisionExact, Revising
<1>2. ExactInv => HistoryIsExact
    <2> SUFFICES ASSUME ExactInv, AtRest, NEW f \in Request, files[f] # Nothing
                 PROVE  ExactIn(versions, args, f, files[f])
        BY DEF HistoryIsExact, ExactIn, HistoryIn, VersionsOf, Newest
    <2>1. \A r \in Request : ~Pending(r, f)
        BY DEF AtRest, InFlight, Awaits, Pending, Revising
    <2>. QED
        BY <2>1 DEF ExactInv, FileExact
<1>. QED
    BY <1>1, <1>2, NextExactInv, PTL DEF Spec

-----------------------------------------------------------------------------
\* A file that is gone is not created again, and nobody else writes it.
LEMMA GoneStaysGone ==
    ASSUME FreshInv, NEW r \in Request, Begin(r) \/ Continue(r), NEW f \in Created,
           files[f] = Nothing
    PROVE  f \in Created' /\ files'[f] = Nothing
<1>1. TypeOK /\ HandlerOK(r) /\ FilesFresh(r) /\ f \in Request /\ Moves(r)
    BY SerialStep DEF FreshInv, HistoryInv, TypeInv, ControlOK, Created
<1>2. f \in Created'
    BY <1>1, StaysCreated
<1>3. CASE UploadInsertFile(r)
    BY <1>1, <1>2, <1>3 DEF UploadInsertFile, Created, BeforeFile, TypeOK
<1>4. CASE UpdateFile(r)
    BY <1>1, <1>2, <1>4 DEF UpdateFile, TypeOK
<1>5. CASE PurgeFile(r)
    BY <1>1, <1>2, <1>5 DEF PurgeFile, TypeOK
<1>6. ~ReinsertFile(r)
    BY <1>1 DEF ReinsertFile, FilesFresh
<1>7. CASE ~UploadInsertFile(r) /\ ~UpdateFile(r) /\ ~PurgeFile(r)
    <2>1. files' = files
        BY <1>6, <1>7 DEF Begin, UploadBegin, RemovalBegin, DownloadBegin, HistoryBegin, LoginBegin,
           Continue, UploadInfected, UploadStore, UploadInsertFirstVersion, UploadFindFile,
           UploadInsertVersion, LoadFile, LoadUser, WriteUser, Uncache, PurgeListVersions,
           PurgeBlob, PurgeBlobsEnd, PurgeVersions, FindOwner, DownloadFetch, HistoryRead
    <2>. QED
        BY <1>2, <2>1
<1>. QED
    BY <1>2, <1>3, <1>4, <1>5, <1>7

LEMMA CleanFrame ==
    ASSUME CleanInv, NEW r \in Request, Begin(r) \/ Continue(r), PurgeOK(r)', BlobOK(r)',
           \A v \in Request \ {r} :
               v \in blobs' => /\ v \in blobs
                               /\ versions[v] # Nothing => versions'[v] # Nothing
    PROVE  CleanInv'
<1>1. FreshInv' /\ Moves(r) /\ \A q \in Request \ {r} : ~InFlight(q)'
    BY BeginFreshInv, ContinueFreshInv, SerialStep DEF CleanInv
<1>2. ASSUME NEW q \in Request \ {r}
      PROVE  BlobOK(q)' /\ PurgeOK(q)'
    <2>1. pc'[q] = pc[q] /\ args'[q] = args[q] /\ pc'[q] \notin Awaits
        BY <1>1 DEF Moves, InFlight
    <2>2. BlobOK(q)'
        BY <2>1 DEF CleanInv, BlobOK
    <2>3. PurgeOK(q)'
        BY <2>1, GoneStaysGone DEF CleanInv, PurgeOK, Awaits
    <2>. QED
        BY <2>2, <2>3
<1>. QED
    BY <1>1, <1>2 DEF CleanInv

LEMMA BeginCleanInv ==
    ASSUME CleanInv, NEW r \in Request, Begin(r)
    PROVE  CleanInv'
<1>1. Begun(r)
    BY BeginBegun DEF CleanInv, FreshInv, HistoryInv
<1>2. BlobOK(r)'
    BY <1>1 DEF Begun, CleanInv, BlobOK
<1>3. PurgeOK(r)'
    BY <1>1 DEF Begun, PurgeOK
<1>. QED
    BY <1>1, <1>2, <1>3, CleanFrame DEF Begun

LEMMA ContinueCleanInv ==
    ASSUME CleanInv, NEW r \in Request, Continue(r)
    PROVE  CleanInv'
<1> USE DEF Goto, Learn, Answer
<1> DEFINE f == args[r].target
<1>0. /\ TypeOK /\ HandlerOK(r) /\ FilesFresh(r) /\ LinkOK(r) /\ BlobOK(r) /\ PurgeOK(r)
      /\ FreshInv /\ pc[r] \in Awaits /\ args[r] \in Call /\ f \in Request /\ pc'[r] # "idle"
      /\ args'[r] = args[r]
    <2>1. TypeOK /\ HandlerOK(r) /\ FilesFresh(r) /\ LinkOK(r) /\ BlobOK(r) /\ PurgeOK(r) /\ FreshInv
        BY DEF CleanInv, FreshInv, HistoryInv, TypeInv, ControlOK
    <2>2. pc[r] # "idle"
        BY ContinueIsOpen
    <2>3. InFlight(r) /\ args'[r] = args[r] /\ pc'[r] # "idle"
        BY <2>1, <2>2, SerialStep DEF Moves
    <2>. QED
        BY <2>1, <2>2, <2>3 DEF HandlerOK, Call, InFlight
\* The content is there before its version row, and the row when the upload is over.
<1>1. CASE \/ UploadInfected(r) \/ UploadStore(r) \/ UploadInsertFile(r) \/ UploadFindFile(r)
    <2>1. /\ UNCHANGED versions
          /\ pc'[r] = "refused" \/ pc'[r] \in Uploading
          /\ blobs' \subseteq blobs \cup {r}
        BY <1>0, <1>1
        DEF UploadInfected, UploadStore, UploadInsertFile, UploadFindFile, TypeOK, Uploading
    <2>. QED
        BY <1>0, <2>1, CleanFrame DEF BlobOK, PurgeOK, Uploading
<1>2. CASE UploadInsertFirstVersion(r) \/ UploadInsertVersion(r)
    <2>1. files[f] # Nothing
        <3>1. CASE UploadInsertFirstVersion(r)
            <4>1. f = r /\ files[r] = CreateFile(args[r].user, args[r].size, args[r].verdict)
                BY <1>0, <3>1 DEF UploadInsertFirstVersion, FilesFresh, HandlerOK
            <4>. QED
                BY <1>0, <4>1, CreateFileType, NothingAssumption DEF Call
        <3>2. CASE UploadInsertVersion(r)
            BY <1>0, <3>2, NothingAssumption DEF UploadInsertVersion, FilesFresh, HandlerOK
        <3>. QED
            BY <1>2, <3>1, <3>2
    <2>2. PICK number \in Nat \ {0} :
              versions' = [versions EXCEPT ![r] = [fileId |-> f, versionNumber |-> number]]
        BY <1>0, <1>2, <2>1
        DEF UploadInsertFirstVersion, UploadInsertVersion, InsertVersion, HandlerOK, FileRow
    <2>3. [fileId |-> f, versionNumber |-> number] # Nothing
        BY <1>0, NothingAssumption DEF VersionRow
    <2>4. /\ versions'[r] # Nothing
          /\ \A v \in Request \ {r} : versions'[v] = versions[v]
          /\ blobs' = blobs
          /\ pc'[r] \in {"loadUser", "loadFile"} /\ args[r].op # "purge"
        BY <1>0, <1>2, <2>1, <2>2, <2>3
        DEF UploadInsertFirstVersion, UploadInsertVersion, InsertVersion, HandlerOK, TypeOK
    <2>. QED
        BY <1>0, <2>4, CleanFrame DEF BlobOK, PurgeOK
<1>3. CASE LoadFile(r) \/ UpdateFile(r) \/ DownloadFetch(r) \/ HistoryRead(r)
    <2>1. /\ UNCHANGED <<versions, blobs>> /\ args[r].op # "purge"
          /\ pc[r] \notin Uploading /\ pc[r] # "refused"
          /\ pc'[r] \notin {"deleteBlobs", "deleteVersions"}
        BY <1>0, <1>3
        DEF LoadFile, UpdateFile, AfterWriteFile, DownloadFetch, HistoryRead, HandlerOK, TypeOK, Uploading
    <2>. QED
        BY <1>0, <2>1, CleanFrame DEF BlobOK, PurgeOK
<1>4. ~ReinsertFile(r)
    BY <1>0 DEF ReinsertFile, FilesFresh
<1>5. CASE LoadUser(r) \/ WriteUser(r) \/ Uncache(r) \/ FindOwner(r)
    <2>1. /\ UNCHANGED <<files, versions, blobs>>
          /\ pc[r] \in {"findOwner", "loadUser", "writeUser", "uncache"}
          /\ pc'[r] \notin {"deleteBlobs", "deleteVersions"}
        BY <1>0, <1>5 DEF LoadUser, WriteUser, Uncache, FindOwner, TypeOK
    <2>2. PurgeOK(r)'
        BY <1>0, <2>1, GoneStaysGone DEF PurgeOK
    <2>3. BlobOK(r)'
        BY <1>0, <2>1 DEF BlobOK, Uploading
    <2>. QED
        BY <2>1, <2>2, <2>3, CleanFrame
<1>6. CASE PurgeListVersions(r)
    <2>1. /\ UNCHANGED <<files, versions, blobs>> /\ pc[r] = "listVersions" /\ pc'[r] = "deleteBlobs"
          /\ seen'[r].todo = VersionsOf(f)
        BY <1>0, <1>6 DEF PurgeListVersions, TypeOK, Locals
    <2>2. PurgeOK(r)'
        BY <1>0, <2>1 DEF PurgeOK, VersionsOf
    <2>. QED
        BY <1>0, <2>1, <2>2, CleanFrame DEF BlobOK, Uploading
<1>7. CASE PurgeBlob(r)
    <2>1. PICK v \in seen[r].todo : blobs' = blobs \ {v} /\ seen'[r].todo = seen[r].todo \ {v}
        BY <1>0, <1>7 DEF PurgeBlob, TypeOK, Locals, FreshInv, OneAtATime
    <2>2. /\ UNCHANGED <<files, versions, pc, args>> /\ pc[r] = "deleteBlobs"
          /\ VersionsOf(f)' = VersionsOf(f)
        BY <1>7 DEF PurgeBlob, VersionsOf
    <2>3. PurgeOK(r)'
        BY <1>0, <2>1, <2>2 DEF PurgeOK, VersionsOf
    <2>. QED
        BY <1>0, <2>1, <2>2, <2>3, CleanFrame DEF BlobOK, Uploading
<1>8. CASE PurgeBlobsEnd(r)
    <2>1. /\ UNCHANGED <<files, versions, blobs, seen>> /\ seen[r].todo = {}
          /\ pc[r] = "deleteBlobs" /\ pc'[r] = "deleteVersions"
        BY <1>0, <1>8 DEF PurgeBlobsEnd, TypeOK
    <2>. QED
        BY <1>0, <2>1, CleanFrame DEF BlobOK, PurgeOK, VersionsOf, Uploading
\* The rows go whose content is gone.
<1>9. CASE PurgeVersions(r)
    <2>1. /\ pc[r] = "deleteVersions" /\ pc'[r] = "deleteFile" /\ blobs' = blobs
          /\ \A v \in Request : versions'[v] =
                 IF v \in VersionsOf(f) THEN Nothing ELSE versions[v]
        BY <1>0, <1>9 DEF PurgeVersions, TypeOK
    <2>2. \A v \in Request : v \in blobs => versions'[v] = versions[v]
        BY <1>0, <2>1 DEF PurgeOK
    <2>3. PurgeOK(r)'
        BY <2>1 DEF PurgeOK
    <2>4. BlobOK(r)'
        BY <1>0, <2>1, <2>2 DEF BlobOK, Uploading
    <2>. QED
        BY <2>1, <2>2, <2>3, <2>4, CleanFrame
<1>10. CASE PurgeFile(r)
    <2>1. /\ pc[r] = "deleteFile" /\ pc'[r] = "findOwner" /\ UNCHANGED <<versions, blobs>>
          /\ files'[f] = Nothing /\ files[f] # Nothing
        BY <1>0, <1>10 DEF PurgeFile, FilesFresh, TypeOK
    <2>2. f \in Created'
        BY <1>0, <2>1, StaysCreated, SerialStep DEF FreshInv, HistoryInv, LinkOK
    <2>. QED
        BY <1>0, <2>1, <2>2, CleanFrame DEF BlobOK, PurgeOK, Uploading
<1>. QED
    BY <1>1, <1>2, <1>3, <1>4, <1>5, <1>6, <1>7, <1>8, <1>9, <1>10 DEF Continue

LEMMA NextCleanInv == CleanInv /\ [Next]_vars => CleanInv'
<1> SUFFICES ASSUME CleanInv, [Next]_vars
             PROVE  CleanInv'
    OBVIOUS
<1>1. ASSUME NEW r \in Request, Begin(r) \/ Continue(r) \/ Abort(r)
      PROVE  CleanInv'
    BY <1>1, BeginCleanInv, ContinueCleanInv DEF Abort, CleanInv, FreshInv, OneAtATime
<1>2. CASE UNCHANGED vars
    <2>1. FreshInv'
        BY <1>2, NextFreshInv DEF CleanInv
    <2>. QED
        BY <1>2, <2>1 DEF vars, CleanInv, BlobOK, PurgeOK, VersionsOf, Created
<1>. QED
    BY <1>1, <1>2 DEF Next, Idle

\* Once a purge is answered nothing of the file is left: no row, no version and none
\* of the contents that were uploaded to it and accepted.
THEOREM PurgesAreComplete == OneAtATime => (Spec => []PurgeIsComplete)
<1> SUFFICES ASSUME OneAtATime
             PROVE  Spec => []PurgeIsComplete
    OBVIOUS
<1>1. Init => CleanInv
    BY InitFreshInv DEF Init, CleanInv, BlobOK, PurgeOK
<1>2. CleanInv => PurgeIsComplete
    <2> SUFFICES ASSUME CleanInv, NEW r \in Request, pc[r] = "done", args[r].op = "purge"
                 PROVE  /\ files[args[r].target] = Nothing
                        /\ VersionsOf(args[r].target) = {}
                        /\ \A v \in blobs : args[v].target = args[r].target =>
                               pc[v] = "refused" \/ InFlight(v)
        BY DEF PurgeIsComplete
    <2> DEFINE f == args[r].target
    <2>1. files[f] = Nothing
        BY DEF CleanInv, PurgeOK
    <2>2. VersionsOf(f) = {}
        BY <2>1 DEF VersionsOf, CleanInv, FreshInv, VersionsHaveFile
    <2>3. ASSUME NEW v \in blobs, args[v].target = f
          PROVE  pc[v] = "refused" \/ InFlight(v)
        <3>1. v \in Request /\ BlobOK(v) /\ LinkOK(v)
            BY DEF CleanInv, FreshInv, HistoryInv, TypeInv, TypeOK
        <3>2. versions[v] = Nothing
            BY <2>2, <2>3, <3>1 DEF LinkOK, VersionsOf
        <3>. QED
            BY <3>1, <3>2 DEF BlobOK, InFlight, Awaits, Uploading
    <2>. QED
        BY <2>1, <2>2, <2>3
<1>. QED
    BY <1>1, <1>2, NextCleanInv, PTL DEF Spec

-----------------------------------------------------------------------------
(* The refinement. *)

\* A purge that got past its checks is of a file that was created.
PurgeTargets ==
    \A r \in Request :
        pc[r] \notin {"idle", "refused"} /\ args[r].op = "purge" => args[r].target \in Created

DriveInv == FreshInv /\ PurgeTargets

\* The users row of the open request once what it owes is through.
Owed(r) ==
    IF pc[r] = "findOwner" THEN DecrementStorage(used[Account(r)], seen[r].file.sizeBytes)
                           ELSE UsageToWrite(r)

ChargedAs(r) ==
    \A u \in User :
        ChargedTo(u) = IF Committed(r) /\ Account(r) = u THEN Owed(r) ELSE used[u]

OpenCharge ==
    \A r \in Request : (\A q \in Request \ {r} : ~InFlight(q)) => ChargedAs(r)

LEMMA OpenChargeHolds == OpenCharge
<1> SUFFICES ASSUME NEW r \in Request, \A q \in Request \ {r} : ~InFlight(q), NEW u \in User
             PROVE  ChargedTo(u) = IF Committed(r) /\ Account(r) = u THEN Owed(r) ELSE used[u]
    BY DEF OpenCharge, ChargedAs
<1> DEFINE due == {q \in Request : Committed(q) /\ Account(q) = u}
<1>1. \A q \in Request : Committed(q) => q = r
    BY DEF Committed, InFlight, Awaits
<1>2. CASE Committed(r) /\ Account(r) = u
    <2>1. due = {r}
        BY <1>1, <1>2
    <2>2. (CHOOSE q \in due : TRUE) = r
        BY <2>1
    <2>. QED
        BY <1>2, <2>1, <2>2 DEF ChargedTo, Owed
<1>3. CASE ~(Committed(r) /\ Account(r) = u)
    <2>1. due = {}
        BY <1>1, <1>3
    <2>. QED
        BY <1>3, <2>1 DEF ChargedTo
<1>. QED
    BY <1>2, <1>3

\* Before and after a step only its request can owe anything.
LEMMA StepCharges ==
    ASSUME FreshInv, NEW r \in Request, Begin(r) \/ Continue(r)
    PROVE  ChargedAs(r) /\ ChargedAs(r)'
<1>1. \A q \in Request \ {r} : ~InFlight(q) /\ ~InFlight(q)'
    BY SerialStep
<1>2. OpenCharge /\ OpenCharge'
    BY OpenChargeHolds, PTL
<1>. QED
    BY <1>1, <1>2 DEF OpenCharge

LEMMA InvisibleStep ==
    ASSUME \A f \in Request : DriveFile(f)' = DriveFile(f),
           \A u \in User : ChargedTo(u)' = ChargedTo(u)
    PROVE  UNCHANGED Contract!vars
BY DEF Contract!vars

\* What becomes of a file that the step does not write.
LEMMA DriveFileKept ==
    ASSUME DriveInv, NEW r \in Request, Begin(r) \/ Continue(r), NEW f \in Request,
           files'[f] = files[f],
           files[f] # Nothing => (pc[f] = "insertFirstVersion" <=> pc'[f] = "insertFirstVersion")
    PROVE  DriveFile(f)' = DriveFile(f)
<1>1. CASE files[f] # Nothing
    BY <1>1 DEF DriveFile
<1>2. CASE files[f] = Nothing
    <2>1. Moves(r)
        BY SerialStep DEF DriveInv
    <2>2. PurgeBegun(f) => PurgeBegun(f)'
        BY <2>1, PurgeStaysBegun DEF Purged
    <2>3. ASSUME NEW q \in Request, pc'[q] \notin {"idle", "refused"}, args'[q].op = "purge",
                 args'[q].target = f
          PROVE  PurgeBegun(f)
        <3>1. CASE q = r /\ RemovalBegin(r)
            <4>1. TypeOK
                BY DEF DriveInv, FreshInv, HistoryInv, TypeInv
            <4>2. PICK op \in Removal, user \in User, target \in Target(r) :
                      /\ Arrive(r, op, user, target, 0, "skipped")
                      /\ files[target] = Nothing => pc' = [pc EXCEPT ![r] = "refused"]
                BY <3>1 DEF RemovalBegin, Answer, Goto
            <4>. QED
                BY <1>2, <2>3, <3>1, <4>1, <4>2 DEF Arrive, TypeOK
        <3>2. CASE q = r /\ Begin(r) /\ ~RemovalBegin(r)
            <4>1. TypeOK
                BY DEF DriveInv, FreshInv, HistoryInv, TypeInv
            <4>2. args'[r].op # "purge"
                <5>1. CASE UploadBegin(r)
                    BY <4>1, <5>1 DEF UploadBegin, Arrive, TypeOK, Upload
                <5>2. CASE DownloadBegin(r)
                    BY <4>1, <5>2 DEF DownloadBegin, Arrive, TypeOK
                <5>3. CASE HistoryBegin(r)
                    BY <4>1, <5>3 DEF HistoryBegin, Arrive, TypeOK
                <5>4. CASE LoginBegin(r)
                    BY <4>1, <5>4 DEF LoginBegin, Arrive, TypeOK
                <5>. QED
                    BY <3>2, <5>1, <5>2, <5>3, <5>4 DEF Begin
            <4>. QED
                BY <2>3, <3>2, <4>2
        <3>3. CASE q # r \/ Continue(r)
            <4>1. pc[q] \notin {"idle", "refused"} /\ args'[q] = args[q]
                <5>1. CASE q # r
                    BY <2>1, <2>3, <5>1 DEF Moves
                <5>2. CASE q = r /\ Continue(r)
                    <6>1. pc[r] # "idle"
                        BY <5>2, ContinueIsOpen
                    <6>. QED
                        BY <2>1, <5>2, <6>1 DEF Moves, InFlight, Awaits
                <5>. QED
                    BY <3>3, <5>1, <5>2
            <4>. QED
                BY <2>3, <4>1 DEF PurgeBegun
        <3>. QED
            BY <3>1, <3>2, <3>3
    <2>4. PurgeBegun(f)' => PurgeBegun(f)
        BY <2>3 DEF PurgeBegun
    <2>. QED
        BY <1>2, <2>2, <2>4 DEF DriveFile
<1>. QED
    BY <1>1, <1>2

\* A step that neither commits nor settles anything.
LEMMA UncommittedStep ==
    ASSUME DriveInv, NEW r \in Request, Begin(r) \/ Continue(r), UNCHANGED <<used, files>>,
           pc[r] # "insertFirstVersion", pc'[r] # "insertFirstVersion",
           ~Committed(r), ~Committed(r)'
    PROVE  UNCHANGED Contract!vars
<1>1. ChargedAs(r) /\ ChargedAs(r)' /\ Moves(r)
    BY StepCharges, SerialStep DEF DriveInv
<1>2. \A u \in User : ChargedTo(u)' = ChargedTo(u)
    BY <1>1 DEF ChargedAs
<1>3. \A f \in Request : DriveFile(f)' = DriveFile(f)
    BY <1>1, DriveFileKept DEF Moves
<1>. QED
    BY <1>2, <1>3, InvisibleStep

\* A step that settles what its request owes: the account shows what it owed.
LEMMA SettlingStep ==
    ASSUME DriveInv, NEW r \in Request, Continue(r), UNCHANGED files,
           pc[r] # "insertFirstVersion", pc'[r] # "insertFirstVersion",
           Committed(r), Account(r)' = Account(r) \/ ~Committed(r)',
           \A u \in User :
               (IF Committed(r)' /\ Account(r)' = u THEN Owed(r)' ELSE used'[u])
                   = IF Account(r) = u THEN Owed(r) ELSE used[u]
    PROVE  UNCHANGED Contract!vars
<1>1. ChargedAs(r) /\ ChargedAs(r)' /\ Moves(r)
    BY StepCharges, SerialStep DEF DriveInv
<1>2. \A u \in User : ChargedTo(u)' = ChargedTo(u)
    BY <1>1 DEF ChargedAs
<1>3. \A f \in Request : DriveFile(f)' = DriveFile(f)
    BY <1>1, DriveFileKept DEF Moves
<1>. QED
    BY <1>2, <1>3, InvisibleStep

\* A step that commits its request: one file of the contract changes, and one account.
LEMMA CommittingStep ==
    ASSUME DriveInv, NEW r \in Request, Continue(r), NEW f \in Request,
           UNCHANGED used, ~Committed(r), Committed(r)',
           \A g \in Request \ {f} : files'[g] = files[g],
           \A g \in Request \ {f} :
               files[g] # Nothing => (pc[g] = "insertFirstVersion" <=> pc'[g] = "insertFirstVersion")
    PROVE  /\ \A g \in Request \ {f} : DriveFile(g)' = DriveFile(g)
           /\ \A u \in User : /\ ChargedTo(u) = used[u]
                              /\ ChargedTo(u)' = IF Account(r)' = u THEN Owed(r)' ELSE used[u]
<1>1. ChargedAs(r) /\ ChargedAs(r)'
    BY StepCharges DEF DriveInv
<1>. QED
    BY <1>1, DriveFileKept DEF ChargedAs

\* The row of a file as the contract has it.
Record(row) == [ownerId |-> row.ownerId, sizeBytes |-> row.sizeBytes, status |-> row.status,
                versionCount |-> row.versionCount]

LEMMA RecordExists ==
    ASSUME NEW row \in FileRow
    PROVE  Record(row) \notin {Nothing, [status |-> "purged"]}
<1>1. Record(row) \in [ownerId : User, sizeBytes : Nat, status : {"active", "deleted"},
                       versionCount : Nat \ {0}]
    BY DEF Record, FileRow
<1>2. Record(row).status # "purged"
    BY <1>1
<1>3. [status |-> "purged"].status = "purged"
    OBVIOUS
<1>. QED
    BY <1>1, <1>2, <1>3, ContractAssumption

\* What was owed is what is written to the users row.
LEMMA UsersRowStep ==
    ASSUME DriveInv, NEW r \in Request, Continue(r), FindOwner(r) \/ LoadUser(r) \/ WriteUser(r)
    PROVE  UNCHANGED Contract!vars
<1> USE DEF Goto, Learn, Answer
<1>0. /\ TypeOK /\ HandlerOK(r) /\ FilesFresh(r) /\ UsageFresh(r)
      /\ pc[r] \in Awaits /\ args[r] \in Call /\ args[r].user \in User
    <2>1. TypeOK /\ HandlerOK(r) /\ FilesFresh(r) /\ UsageFresh(r)
        BY DEF DriveInv, FreshInv, HistoryInv, TypeInv, ControlOK
    <2>2. pc[r] # "idle"
        BY ContinueIsOpen
    <2>3. InFlight(r)
        BY <2>1, <2>2, SerialStep DEF DriveInv, Moves
    <2>. QED
        BY <2>1, <2>2, <2>3 DEF HandlerOK, Call, InFlight
<1>1. CASE FindOwner(r)
    <2>1. /\ pc[r] = "findOwner" /\ pc'[r] = "loadUser" /\ args' = args /\ args[r].op \in Removal
          /\ seen'[r].used = used[Account(r)] /\ seen'[r].file = seen[r].file
          /\ UNCHANGED <<used, files>>
        BY <1>0, <1>1 DEF FindOwner, HandlerOK, TypeOK, Locals
    <2>2. Account(r)' = Account(r) /\ Owed(r)' = Owed(r)
        BY <2>1 DEF Account, Owed, UsageToWrite, Upload, Removal
    <2>. QED
        BY <1>0, <2>1, <2>2, SettlingStep DEF Committed, Removal
<1>2. CASE LoadUser(r)
    <2>1. /\ pc[r] = "loadUser" /\ pc'[r] = "writeUser" /\ args' = args
          /\ seen'[r].used = seen[r].used /\ seen'[r].file = seen[r].file
          /\ UNCHANGED <<used, files>>
        BY <1>0, <1>2 DEF LoadUser, TypeOK, Locals
    <2>2. Account(r)' = Account(r) /\ Owed(r)' = Owed(r)
        BY <2>1 DEF Account, Owed, UsageToWrite
    <2>3. CASE args[r].op = "login"
        BY <2>1, <2>3, UncommittedStep DEF Committed
    <2>4. CASE args[r].op # "login"
        BY <2>1, <2>2, <2>4, SettlingStep DEF Committed
    <2>. QED
        BY <2>3, <2>4
<1>3. CASE WriteUser(r)
    <2>1. /\ pc[r] = "writeUser" /\ pc'[r] \in {"uncache", "done"} /\ files' = files
          /\ seen[r].usedRow = used[Account(r)] /\ seen[r].used = used[Account(r)]
          /\ Account(r) \in User
        BY <1>0, <1>3
        DEF WriteUser, TypeOK, UsageFresh, Account, HandlerOK, InFlight, Awaits, FileRow
    <2>2. used' = [used EXCEPT ![Account(r)] = UsageToWrite(r)]
        BY <1>0, <1>3, <2>1 DEF WriteUser, TypeOK
    <2>3. CASE args[r].op = "login"
        <3>1. UsageToWrite(r) = used[Account(r)]
            BY <2>1, <2>3 DEF UsageToWrite, Upload, Removal
        <3>2. used' = used
            BY <1>0, <2>1, <2>2, <3>1 DEF TypeOK
        <3>. QED
            BY <2>1, <2>3, <3>2, UncommittedStep DEF Committed
    <2>4. CASE args[r].op # "login"
        <3>1. \A u \in User : used'[u] = IF Account(r) = u THEN Owed(r) ELSE used[u]
            BY <1>0, <2>1, <2>2 DEF TypeOK, Owed
        <3>. QED
            BY <2>1, <2>4, <3>1, SettlingStep DEF Committed
    <2>. QED
        BY <2>3, <2>4
<1>. QED
    BY <1>1, <1>2, <1>3

LEMMA ContinueDrives ==
    ASSUME DriveInv, NEW r \in Request, Continue(r)
    PROVE  [Contract!Next]_(Contract!vars)
<1> USE DEF Goto, Learn, Answer
<1> DEFINE f == args[r].target
           user == args[r].user
           drive == [g \in Request |-> DriveFile(g)]
           charged == [u \in User |-> ChargedTo(u)]
<1>0. /\ TypeOK /\ HandlerOK(r) /\ FilesFresh(r) /\ UsageFresh(r) /\ LinkOK(r) /\ FreshInv
      /\ pc[r] \in Awaits /\ args[r] \in Call /\ f \in Request /\ args'[r] = args[r]
      /\ user \in User
    <2>1. TypeOK /\ HandlerOK(r) /\ FilesFresh(r) /\ UsageFresh(r) /\ LinkOK(r) /\ FreshInv
        BY DEF DriveInv, FreshInv, HistoryInv, TypeInv, ControlOK
    <2>2. pc[r] # "idle"
        BY ContinueIsOpen
    <2>3. InFlight(r) /\ args'[r] = args[r]
        BY <2>1, <2>2, SerialStep DEF Moves
    <2>. QED
        BY <2>1, <2>2, <2>3 DEF HandlerOK, Call, InFlight
<1>1. CASE \/ UploadInfected(r) \/ UploadStore(r) \/ UploadFindFile(r) \/ UploadInsertVersion(r)
           \/ LoadFile(r) \/ Uncache(r) \/ PurgeListVersions(r) \/ PurgeBlob(r)
           \/ PurgeBlobsEnd(r) \/ PurgeVersions(r) \/ DownloadFetch(r) \/ HistoryRead(r)
    <2>1. /\ UNCHANGED <<used, files>>
          /\ pc[r] \notin {"insertFirstVersion", "findOwner", "loadUser", "writeUser"}
          /\ pc'[r] \notin {"insertFirstVersion", "findOwner", "loadUser", "writeUser"}
        BY <1>0, <1>1
        DEF UploadInfected, UploadStore, UploadFindFile, UploadInsertVersion, InsertVersion, LoadFile,
            Uncache, PurgeListVersions, PurgeBlob, PurgeBlobsEnd, PurgeVersions, DownloadFetch,
            HistoryRead, TypeOK
    <2>. QED
        BY <2>1, UncommittedStep DEF Committed
\* The row alone is not yet a file.
<1>2. CASE UploadInsertFile(r)
    <2>1. /\ pc[r] = "insertFile" /\ pc'[r] = "insertFirstVersion"
          /\ \A g \in Request \ {r} : files'[g] = files[g] /\ pc'[g] = pc[g]
          /\ used' = used
        BY <1>0, <1>2 DEF UploadInsertFile, TypeOK
    <2>2. ChargedAs(r) /\ ChargedAs(r)'
        BY StepCharges DEF DriveInv
    <2>3. \A u \in User : ChargedTo(u)' = ChargedTo(u)
        BY <2>1, <2>2 DEF ChargedAs, Committed
    <2>4. \A g \in Request \ {r} : DriveFile(g)' = DriveFile(g)
        BY <2>1, DriveFileKept
    <2>5. DriveFile(r) = Nothing
        <3>1. r \notin Created
            BY <2>1 DEF Created, BeforeFile
        <3>2. files[r] = Nothing /\ ~PurgeBegun(r)
            BY <1>0, <3>1 DEF LinkOK, PurgeBegun, DriveInv, PurgeTargets
        <3>. QED
            BY <3>2 DEF DriveFile
    <2>6. DriveFile(r)' = Nothing
        <3>1. files'[r] # Nothing
            BY <1>0, <1>2, CreateFileType, NothingAssumption DEF UploadInsertFile, TypeOK, Call
        <3>. QED
            BY <2>1, <3>1 DEF DriveFile
    <2>. QED
        BY <2>3, <2>4, <2>5, <2>6, InvisibleStep
<1>3. CASE UploadInsertFirstVersion(r)
    <2> DEFINE size == args[r].size
    <2>1. /\ pc[r] = "insertFirstVersion" /\ f = r /\ args[r].op = "create"
          /\ UNCHANGED <<used, files, args>> /\ args[r].verdict # "infected"
          /\ files[r] = CreateFile(user, size, args[r].verdict)
        BY <1>0, <1>3 DEF UploadInsertFirstVersion, HandlerOK, FilesFresh
    <2>2. files[r] # Nothing
        BY <1>0, <2>1, CreateFileType, NothingAssumption DEF Call
    <2>3. pc' = [pc EXCEPT ![r] = "loadUser"] /\ seen' = seen
        BY <1>0, <1>3, <2>1, <2>2 DEF UploadInsertFirstVersion, InsertVersion
    <2>4. /\ \A g \in Request \ {r} : DriveFile(g)' = DriveFile(g)
          /\ \A u \in User : /\ ChargedTo(u) = used[u]
                             /\ ChargedTo(u)' = IF Account(r)' = u THEN Owed(r)' ELSE used[u]
        BY <1>0, <2>1, <2>3, CommittingStep DEF Committed, TypeOK
    <2>5. /\ size \in Size /\ used[user] + size <= Limit
          /\ Account(r)' = user /\ Owed(r)' = used[user] + size
        BY <1>0, <2>1, <2>3
        DEF UsageFresh, HasStorageAvailable, InFlight, Awaits, Upload, Removal, Account, Owed,
            UsageToWrite, TypeOK
    <2>6. DriveFile(r) = Nothing
        BY <2>1, <2>2 DEF DriveFile
    <2>7. DriveFile(r)' = [ownerId |-> user, sizeBytes |-> size, status |-> "active", versionCount |-> 1]
        BY <1>0, <2>1, <2>2, <2>3 DEF DriveFile, CreateFile, ApplyScanStatus, TypeOK
    <2>8. drive' = [drive EXCEPT ![r] = [ownerId |-> user, sizeBytes |-> size, status |-> "active",
                                         versionCount |-> 1]]
        BY <2>4, <2>7
    <2>9. charged[user] + size <= Limit /\ charged' = [charged EXCEPT ![user] = @ + size]
        BY <1>0, <2>4, <2>5
    <2>10. Contract!Create(r, user, size)
        BY <2>6, <2>8, <2>9 DEF Contract!Create, Contract!Charge
    <2>. QED
        BY <1>0, <2>5, <2>10 DEF Contract!Next
<1>4. CASE UpdateFile(r)
    <2> DEFINE row == files[f]
               entity == seen[r].file
    <2>1. /\ pc[r] = "writeFile" /\ pc' = [pc EXCEPT ![r] = AfterWriteFile(r)]
          /\ UNCHANGED <<used, args, seen>>
          /\ row \in FileRow /\ row # Nothing /\ entity \in FileRow
          /\ seen[r].fileRow = row
          /\ MayChange(user, row)
        BY <1>0, <1>4, NothingAssumption
        DEF UpdateFile, HandlerOK, FilesFresh, TypeOK
    <2>2. files' = [files EXCEPT ![f] = Written(row, row, entity)]
        BY <1>4, <2>1 DEF UpdateFile
    <2>3. \A g \in Request : files[g] # Nothing =>
              (pc[g] = "insertFirstVersion" <=> pc'[g] = "insertFirstVersion")
        BY <1>0, <2>1 DEF TypeOK, AfterWriteFile
    <2>4. /\ ~Committed(r) /\ Committed(r)'
        BY <1>0, <2>1 DEF Committed, TypeOK, AfterWriteFile
    <2>5. /\ \A g \in Request \ {f} : DriveFile(g)' = DriveFile(g)
          /\ \A u \in User : /\ ChargedTo(u) = used[u]
                             /\ ChargedTo(u)' = IF Account(r)' = u THEN Owed(r)' ELSE used[u]
        BY <1>0, <2>1, <2>2, <2>3, <2>4, CommittingStep DEF TypeOK
    <2>6. pc[f] # "insertFirstVersion" /\ pc'[f] # "insertFirstVersion"
        BY <1>0, <2>1, SerialStep DEF InFlight, Awaits, TypeOK, AfterWriteFile
    <2>7. DriveFile(f) = Record(row)
        BY <2>1, <2>6 DEF DriveFile, Record
    <2>8. drive[f] \notin {Nothing, [status |-> "purged"]} /\ drive[f] = Record(row)
        BY <1>0, <2>1, <2>7, RecordExists
    <2>9. /\ drive[f].ownerId = row.ownerId /\ drive[f].sizeBytes = row.sizeBytes
          /\ drive[f].status = row.status /\ drive[f].versionCount = row.versionCount
        BY <2>8 DEF Record
    <2>10. /\ files'[f] \in FileRow
           /\ files'[f].status = entity.status /\ files'[f].versionCount = entity.versionCount
           /\ files'[f].ownerId = row.ownerId /\ files'[f].sizeBytes = row.sizeBytes
        <3>1. files'[f] = Written(row, row, entity) /\ files'[f] \in FileRow
            BY <1>0, <2>1, <2>2, WrittenType DEF TypeOK
        <3>. QED
            BY <2>1, <3>1 DEF Written, FileRow
    <2>11. DriveFile(f)' = [ownerId |-> row.ownerId, sizeBytes |-> row.sizeBytes,
                            status |-> entity.status, versionCount |-> entity.versionCount]
        <3>1. files'[f] # Nothing
            BY <2>10, NothingAssumption
        <3>. QED
            BY <1>0, <2>6, <2>10, <3>1 DEF DriveFile
    <2>12. CASE args[r].op = "revise"
        <3> DEFINE size == args[r].size
        <3>1. /\ size \in Size /\ used[user] + size <= Limit
              /\ Account(r)' = user /\ Owed(r)' = used[user] + size
            BY <1>0, <2>1, <2>12
            DEF UsageFresh, HasStorageAvailable, InFlight, Awaits, Upload, Removal, Account, Owed,
                UsageToWrite, TypeOK, AfterWriteFile
        <3>2. entity.status = row.status /\ entity.versionCount = row.versionCount + 1
            BY <1>0, <2>1, <2>12
            DEF FilesFresh, Revised, ApplyScanStatus, NewVersionUploaded, FileRow
        <3>3. drive' = [drive EXCEPT ![f].versionCount = @ + 1]
            <4>1. drive'[f] = [drive[f] EXCEPT !.versionCount = @ + 1]
                BY <1>0, <2>8, <2>11, <3>2 DEF Record
            <4>. QED
                BY <2>5, <4>1
        <3>4. charged[user] + size <= Limit /\ charged' = [charged EXCEPT ![user] = @ + size]
            BY <1>0, <2>5, <3>1
        <3>5. Contract!Revise(f, user, size)
            BY <2>1, <2>8, <2>9, <3>3, <3>4
            DEF Contract!Revise, Contract!Charge, Contract!Exists, Contract!Purged, Contract!MayChange,
                MayChange
        <3>. QED
            BY <1>0, <3>1, <3>5 DEF Contract!Next
    <2>13. CASE args[r].op = "delete"
        <3>1. /\ row.status = "active" /\ entity = SoftDeleted(row)
              /\ pc'[r] = "findOwner"
            BY <1>0, <2>1, <2>13 DEF FilesFresh, AfterWriteFile, TypeOK
        <3>2. /\ entity.ownerId = row.ownerId /\ entity.sizeBytes = row.sizeBytes
              /\ entity.status = "deleted" /\ entity.versionCount = row.versionCount
            BY <2>1, <3>1 DEF SoftDeleted, FileRow
        <3>3. /\ Account(r)' = row.ownerId
              /\ Owed(r)' = DecrementStorage(used[row.ownerId], row.sizeBytes)
              /\ row.ownerId \in User /\ row.sizeBytes \in Nat /\ used[row.ownerId] \in Nat
            BY <1>0, <2>1, <2>13, <3>1, <3>2 DEF Account, Removal, Owed, FileRow, TypeOK
        <3>4. drive' = [drive EXCEPT ![f].status = "deleted"]
            <4>1. drive'[f] = [drive[f] EXCEPT !.status = "deleted"]
                BY <1>0, <2>8, <2>11, <3>2 DEF Record
            <4>. QED
                BY <2>5, <4>1
        <3>5. charged[row.ownerId] = used[row.ownerId]
              /\ charged' = [charged EXCEPT ![row.ownerId] =
                                DecrementStorage(used[row.ownerId], row.sizeBytes)]
            BY <2>5, <3>3
        <3>6. Contract!Reclaim(f)
            <4>1. DecrementStorage(used[row.ownerId], row.sizeBytes) =
                      LET left == used[row.ownerId] - row.sizeBytes
                      IN IF left < 0 THEN 0 ELSE left
                BY <3>3 DEF DecrementStorage
            <4>. QED
                BY <2>9, <3>5, <4>1 DEF Contract!Reclaim
        <3>7. Contract!Delete(f, user)
            BY <2>1, <2>8, <2>9, <3>1, <3>4, <3>6
            DEF Contract!Delete, Contract!Active, Contract!Exists, Contract!Purged, Contract!MayChange,
                MayChange
        <3>. QED
            BY <1>0, <3>7 DEF Contract!Next
    <2>. QED
        BY <1>0, <2>1, <2>12, <2>13 DEF HandlerOK
<1>5. ~ReinsertFile(r)
    BY <1>0 DEF ReinsertFile, FilesFresh
<1>6. CASE PurgeFile(r)
    <2> DEFINE row == files[f]
    <2>1. /\ pc[r] = "deleteFile" /\ args[r].op = "purge" /\ user \in Admin
          /\ pc' = [pc EXCEPT ![r] = "findOwner"] /\ UNCHANGED <<used, args, seen>>
          /\ files' = [files EXCEPT ![f] = Nothing]
          /\ row \in FileRow /\ row # Nothing /\ row.status = "active" /\ seen[r].file = row
        BY <1>0, <1>6 DEF PurgeFile, HandlerOK, FilesFresh, TypeOK, InFlight
    <2>2. \A g \in Request : pc[g] = "insertFirstVersion" <=> pc'[g] = "insertFirstVersion"
        BY <1>0, <2>1 DEF TypeOK
    <2>3. ~Committed(r) /\ Committed(r)'
        BY <1>0, <2>1 DEF Committed, TypeOK
    <2>4. /\ \A g \in Request \ {f} : DriveFile(g)' = DriveFile(g)
          /\ \A u \in User : /\ ChargedTo(u) = used[u]
                             /\ ChargedTo(u)' = IF Account(r)' = u THEN Owed(r)' ELSE used[u]
        BY <1>0, <2>1, <2>2, <2>3, CommittingStep DEF TypeOK
    <2>5. DriveFile(f) = Record(row)
        <3>1. pc[f] # "insertFirstVersion"
            BY <1>0, <2>1, SerialStep DEF InFlight, Awaits
        <3>. QED
            BY <2>1, <3>1 DEF DriveFile, Record
    <2>6. drive[f] \notin {Nothing, [status |-> "purged"]} /\ drive[f] = Record(row)
        BY <1>0, <2>1, <2>5, RecordExists
    <2>7. /\ drive[f].ownerId = row.ownerId /\ drive[f].sizeBytes = row.sizeBytes
          /\ drive[f].status = row.status
        BY <2>6 DEF Record
    <2>8. DriveFile(f)' = [status |-> "purged"]
        <3>1. files'[f] = Nothing
            BY <1>0, <2>1 DEF TypeOK
        <3>2. PurgeBegun(f)'
            BY <1>0, <2>1 DEF PurgeBegun, TypeOK
        <3>. QED
            BY <1>0, <3>1, <3>2 DEF DriveFile
    <2>9. drive' = [drive EXCEPT ![f] = [status |-> "purged"]]
        BY <1>0, <2>4, <2>8
    <2>10. /\ Account(r)' = row.ownerId
           /\ Owed(r)' = DecrementStorage(used[row.ownerId], row.sizeBytes)
           /\ row.ownerId \in User /\ row.sizeBytes \in Nat /\ used[row.ownerId] \in Nat
        BY <1>0, <2>1 DEF Account, Removal, Owed, FileRow, TypeOK
    <2>11. charged[row.ownerId] = used[row.ownerId]
           /\ charged' = [charged EXCEPT ![row.ownerId] =
                             DecrementStorage(used[row.ownerId], row.sizeBytes)]
        BY <2>4, <2>10
    <2>12. Contract!Reclaim(f)
        <3>1. DecrementStorage(used[row.ownerId], row.sizeBytes) =
                  LET left == used[row.ownerId] - row.sizeBytes
                  IN IF left < 0 THEN 0 ELSE left
            BY <2>10 DEF DecrementStorage
        <3>. QED
            BY <2>7, <2>11, <3>1 DEF Contract!Reclaim
    <2>13. Contract!Purge(f, user)
        BY <2>1, <2>6, <2>7, <2>9, <2>12
        DEF Contract!Purge, Contract!Active, Contract!Exists, Contract!Purged
    <2>. QED
        BY <1>0, <2>13 DEF Contract!Next
<1>7. CASE FindOwner(r) \/ LoadUser(r) \/ WriteUser(r)
    BY <1>7, UsersRowStep
<1>. QED
    BY <1>1, <1>2, <1>3, <1>4, <1>5, <1>6, <1>7 DEF Continue

LEMMA BeginDrives ==
    ASSUME DriveInv, NEW r \in Request, Begin(r)
    PROVE  UNCHANGED Contract!vars
<1>1. Begun(r) /\ UNCHANGED <<used, files>>
    <2>1. Begun(r)
        BY BeginBegun DEF DriveInv, FreshInv, HistoryInv
    <2>. QED
        BY <2>1 DEF Begin, UploadBegin, RemovalBegin, DownloadBegin, HistoryBegin, LoginBegin
<1>. QED
    BY <1>1, UncommittedStep DEF Begun, Committed

LEMMA NextDriveInv == DriveInv /\ [Next]_vars => DriveInv'
<1> SUFFICES ASSUME DriveInv, [Next]_vars
             PROVE  PurgeTargets'
    BY NextFreshInv DEF DriveInv
<1>1. ASSUME NEW r \in Request, Begin(r) \/ Continue(r)
      PROVE  PurgeTargets'
    <2>1. Moves(r) /\ TypeInv /\ Created \subseteq Created'
        BY <1>1, SerialStep, StaysCreated DEF DriveInv, FreshInv, HistoryInv
    <2> SUFFICES ASSUME NEW q \in Request, pc'[q] \notin {"idle", "refused"}, args'[q].op = "purge"
                 PROVE  args'[q].target \in Created
        BY <2>1 DEF PurgeTargets
    <2>2. CASE pc[q] \notin {"idle", "refused"} /\ args'[q] = args[q]
        BY <2>2 DEF DriveInv, PurgeTargets
    <2>3. CASE q = r /\ RemovalBegin(r)
        <3>1. PICK op \in Removal, user \in User, target \in Target(r) :
                  /\ Arrive(r, op, user, target, 0, "skipped")
                  /\ files[target] = Nothing => pc' = [pc EXCEPT ![r] = "refused"]
            BY <2>3 DEF RemovalBegin, Answer, Goto
        <3>2. target \in Request /\ files[target] # Nothing /\ args'[r].target = target
            BY <2>1, <2>3, <3>1 DEF Arrive, Target, TypeInv, TypeOK
        <3>. QED
            BY <2>3, <3>2 DEF DriveInv, FreshInv, HistoryInv, LinkOK
    <2>4. CASE q = r /\ Begin(r) /\ ~RemovalBegin(r)
        <3>1. pc'[r] # "listVersions" /\ HandlerOK(r)'
            BY <1>1, <2>1, <2>4, BeginTypeInv
            DEF Begin, UploadBegin, DownloadBegin, HistoryBegin, LoginBegin, Arrive, Goto, Answer,
                TypeInv, TypeOK, ControlOK
        <3>2. Begun(r)
            BY <2>1, <2>4, BeginBegun
        <3>. QED
            BY <2>4, <3>1, <3>2 DEF Begun, HandlerOK, Upload
    <2>5. q # r => pc[q] \notin {"idle", "refused"} /\ args'[q] = args[q]
        BY <2>1 DEF Moves
    <2>6. q = r /\ Continue(r) => pc[q] \notin {"idle", "refused"} /\ args'[q] = args[q]
        <3>1. Continue(r) => pc[r] # "idle"
            BY ContinueIsOpen
        <3>. QED
            BY <2>1, <3>1 DEF Moves, InFlight, Awaits
    <2>. QED
        BY <1>1, <2>2, <2>3, <2>4, <2>5, <2>6
<1>2. CASE UNCHANGED vars
    BY <1>2 DEF vars, DriveInv, PurgeTargets, Created
<1>3. \A r \in Request : ~Abort(r)
    BY DEF Abort, DriveInv, FreshInv, OneAtATime
<1>. QED
    BY <1>1, <1>2, <1>3 DEF Next, Idle

LEMMA NextDrives == DriveInv /\ [Next]_vars => [Contract!Next]_(Contract!vars)
<1> SUFFICES ASSUME DriveInv, [Next]_vars
             PROVE  [Contract!Next]_(Contract!vars)
    OBVIOUS
<1>1. ASSUME NEW r \in Request, Begin(r) \/ Continue(r) \/ Abort(r)
      PROVE  [Contract!Next]_(Contract!vars)
    BY <1>1, BeginDrives, ContinueDrives DEF Abort, DriveInv, FreshInv, OneAtATime
<1>2. CASE UNCHANGED vars
    <2>1. \A f \in Request : DriveFile(f)' = DriveFile(f)
        BY <1>2 DEF vars, DriveFile, PurgeBegun
    <2>2. \A u \in User : ChargedTo(u)' = ChargedTo(u)
        BY <1>2 DEF vars, ChargedTo, Committed, Account, UsageToWrite
    <2>. QED
        BY <2>1, <2>2, InvisibleStep
<1>. QED
    BY <1>1, <1>2 DEF Next, Idle

LEMMA InitDrives == OneAtATime /\ Init => DriveInv /\ Contract!Init
<1> SUFFICES ASSUME OneAtATime, Init
             PROVE  DriveInv /\ Contract!Init
    OBVIOUS
<1>1. DriveInv
    BY InitFreshInv DEF Init, DriveInv, PurgeTargets
<1>2. \A f \in Request : DriveFile(f) = Nothing
    BY DEF Init, DriveFile, PurgeBegun
<1>3. \A u \in User : ChargedTo(u) = 0
    <2>1. \A u \in User : {r \in Request : Committed(r) /\ Account(r) = u} = {}
        BY DEF Init, Committed
    <2>. QED
        BY <2>1 DEF Init, ChargedTo
<1>. QED
    BY <1>1, <1>2, <1>3 DEF Contract!Init

\* Served one at a time the many awaited calls of an upload, a delete or a purge are
\* one transition of FileContract, and no other step shows: the handlers implement the
\* contract for any number of requests, users, sizes and any limit.
THEOREM HandlersImplementContract == OneAtATime => (Spec => ImplementsContract)
<1> SUFFICES ASSUME OneAtATime
             PROVE  Spec => ImplementsContract
    OBVIOUS
<1>. QED
    BY InitDrives, NextDriveInv, NextDrives, PTL DEF Spec, ImplementsContract, Contract!Spec
-----------------------------------------------------------------------------
(* Sums over finite sets.  The induction theorems of the library take a    *)
(* predicate as a parameter; these take the set of what satisfies it.      *)

\* A set of natural numbers that has a member has a least one.
LEMMA LeastNumber ==
    ASSUME NEW T \in SUBSET Nat, T # {}
    PROVE  \E m \in T : \A n \in T : m <= n
<1> DEFINE Less == {p \in Nat \X Nat : p[1] < p[2]}
<1>1. IsWellFoundedOn(Less, Nat)
    BY NatLessThanWellFounded DEF OpToRel
<1>2. PICK m \in T : \A n \in T : <<n, m>> \notin Less
    <2> HIDE DEF Less
    <2>. QED
        BY <1>1, WFMin
<1>3. \A n \in T : ~(n < m)
    BY <1>2
<1>. QED
    BY <1>3

\* A family that holds a subset of S whenever it holds what is left of it without any one
\* element holds every subset of S.
LEMMA SubsetInduction ==
    ASSUME NEW S, IsFiniteSet(S), NEW F,
           \A s \in SUBSET S : (\A x \in s : s \ {x} \in F) => s \in F
    PROVE  SUBSET S \subseteq F
<1> DEFINE outside == {s \in SUBSET S : s \notin F}
<1> SUFFICES ASSUME outside # {}
             PROVE  FALSE
    OBVIOUS
<1>1. IsWellFoundedOn(StrictSubsetOrdering(S), SUBSET S)
    <2>1. IsWellFoundedOn(StrictSubsetOrdering(S), FiniteSubsetsOf(S))
        BY FS_StrictSubsetOrderingWellFounded
    <2>2. FiniteSubsetsOf(S) = SUBSET S
        BY FS_FiniteSubsetsOfFinite
    <2>. QED
        BY <2>1, <2>2
<1>2. PICK s \in outside : \A t \in outside : <<t, s>> \notin StrictSubsetOrdering(S)
    <2>1. outside \subseteq SUBSET S
        OBVIOUS
    <2> HIDE DEF outside
    <2>. QED
        BY <1>1, <2>1, WFMin
<1>3. ASSUME NEW x \in s
      PROVE  s \ {x} \in F
    <2>1. s \ {x} \in SUBSET S /\ s \ {x} \subseteq s /\ s \ {x} # s
        BY <1>3
    <2>2. <<s \ {x}, s>> \in StrictSubsetOrdering(S)
        BY <2>1 DEF StrictSubsetOrdering
    <2>. QED
        BY <1>2, <2>1, <2>2
<1>. QED
    BY <1>3

\* The bytes of a set of uploads, and what the fold makes of them one upload at a time.
Bytes(calls, S) == Sets!MapThenSumSet(LAMBDA v : calls[v].size, S)

OneMore(calls, g, s) ==
    IF s = {} THEN 0
    ELSE LET v == CHOOSE x \in s : TRUE
         IN calls[v].size + g[s \ {v}]

Folding(calls, S, g) == g = [s \in SUBSET S |-> OneMore(calls, g, s)]

Folded(calls, S) == CHOOSE g : Folding(calls, S, g)

LEMMA BytesFolded ==
    ASSUME NEW calls, NEW S
    PROVE  Bytes(calls, S) = Folded(calls, S)[S]
BY DEF Bytes, Folded, Folding, OneMore, Sets!MapThenSumSet, Sets!MapThenFoldSet

\* The fold is a function on the subsets of S: there is one up to every size.
LEMMA FoldExists ==
    ASSUME NEW calls, NEW S, IsFiniteSet(S)
    PROVE  \E g : Folding(calls, S, g)
<1> DEFINE UpTo(n, g) == \A s \in SUBSET S : Cardinality(s) <= n => g[s] = OneMore(calls, g, s)
           Longer(n, g) == [s \in SUBSET S |-> IF Cardinality(s) <= n THEN g[s] ELSE OneMore(calls, g, s)]
           none == {n \in Nat : ~ \E g : UpTo(n, g)}
<1>1. \A s \in SUBSET S : IsFiniteSet(s) /\ Cardinality(s) \in Nat /\ Cardinality(s) <= Cardinality(S)
    BY FS_Subset, FS_CardinalityType
<1>2. UpTo(0, [s \in SUBSET S |-> 0])
    BY <1>1, FS_EmptySet DEF OneMore
<1>3. ASSUME NEW n \in Nat, NEW g, UpTo(n, g)
      PROVE  UpTo(n + 1, Longer(n, g))
    <2> SUFFICES ASSUME NEW s \in SUBSET S, Cardinality(s) <= n + 1
                 PROVE  Longer(n, g)[s] = OneMore(calls, Longer(n, g), s)
        OBVIOUS
    <2>1. Longer(n, g)[s] = OneMore(calls, g, s)
        BY <1>3
    <2>2. CASE s = {}
        BY <2>1, <2>2 DEF OneMore
    <2>3. CASE s # {}
        <3> DEFINE v == CHOOSE x \in s : TRUE
        <3>1. v \in s
            BY <2>3
        <3>2. s \ {v} \in SUBSET S /\ Cardinality(s \ {v}) = Cardinality(s) - 1
            BY <1>1, <3>1, FS_RemoveElement
        <3>3. Longer(n, g)[s \ {v}] = g[s \ {v}]
            BY <1>1, <3>2
        <3>. QED
            BY <2>1, <2>3, <3>3 DEF OneMore
    <2>. QED
        BY <2>2, <2>3
<1>4. none = {}
    <2> SUFFICES ASSUME none # {}
                 PROVE  FALSE
        OBVIOUS
    <2>1. PICK m \in none : \A n \in none : m <= n
        <3>1. none \in SUBSET Nat
            OBVIOUS
        <3> HIDE DEF none
        <3>. QED
            BY <3>1, LeastNumber
    <2>2. m # 0
        BY <1>2, <2>1
    <2>3. m - 1 \in Nat /\ m - 1 \notin none
        BY <2>1, <2>2
    <2>4. PICK g : UpTo(m - 1, g)
        BY <2>3
    <2>5. \E h : UpTo((m - 1) + 1, h)
        <3> HIDE DEF UpTo, Longer
        <3>. QED
            BY <1>3, <2>3, <2>4
    <2>. QED
        BY <2>1, <2>5
<1>5. PICK g : UpTo(Cardinality(S), g)
    BY <1>1, <1>4
<1> DEFINE h == [s \in SUBSET S |-> g[s]]
<1>6. \A s \in SUBSET S : h[s] = OneMore(calls, h, s)
    <2> SUFFICES ASSUME NEW s \in SUBSET S
                 PROVE  h[s] = OneMore(calls, h, s)
        OBVIOUS
    <2>. QED
        BY <1>1, <1>5 DEF OneMore
<1>7. h = [s \in SUBSET S |-> h[s]]
    OBVIOUS
<1> HIDE DEF h
<1>8. Folding(calls, S, h)
    BY <1>6, <1>7 DEF Folding
<1>. QED
    BY <1>8

\* Folds over a set and over a set that includes it agree.
LEMMA FoldsAgree ==
    ASSUME NEW calls, NEW S, IsFiniteSet(S), NEW T, S \subseteq T, NEW g, NEW h,
           Folding(calls, S, g), Folding(calls, T, h)
    PROVE  g[S] = h[S]
<1> DEFINE agreed == {s \in SUBSET S : g[s] = h[s]}
<1>1. \A s \in SUBSET S : g[s] = OneMore(calls, g, s) /\ h[s] = OneMore(calls, h, s)
    BY DEF Folding
<1>2. ASSUME NEW s \in SUBSET S, \A x \in s : s \ {x} \in agreed
      PROVE  s \in agreed
    <2>1. CASE s = {}
        BY <1>1, <2>1 DEF OneMore
    <2>2. CASE s # {}
        <3> DEFINE v == CHOOSE x \in s : TRUE
        <3>1. v \in s
            BY <2>2
        <3>2. g[s \ {v}] = h[s \ {v}]
            BY <1>2, <3>1
        <3>. QED
            BY <1>1, <2>2, <3>2 DEF OneMore
    <2>. QED
        BY <2>1, <2>2
<1>3. SUBSET S \subseteq agreed
    <2> HIDE DEF agreed
    <2>. QED
        BY <1>2, SubsetInduction
<1>. QED
    BY <1>3

LEMMA BytesNone ==
    ASSUME NEW calls
    PROVE  Bytes(calls, {}) = 0
<1>1. PICK g : Folding(calls, {}, g)
    BY FoldExists, FS_EmptySet
<1>2. Folding(calls, {}, Folded(calls, {}))
    BY <1>1 DEF Folded
<1>3. Folded(calls, {})[{}] = OneMore(calls, Folded(calls, {}), {})
    BY <1>2 DEF Folding
<1>. QED
    BY <1>3, BytesFolded DEF OneMore

\* The fold takes one of the uploads and goes on with the others.
LEMMA BytesSome ==
    ASSUME NEW calls, NEW S, IsFiniteSet(S), S # {}
    PROVE  \E v \in S : Bytes(calls, S) = calls[v].size + Bytes(calls, S \ {v})
<1> DEFINE v == CHOOSE x \in S : TRUE
<1>1. v \in S
    OBVIOUS
<1> HIDE DEF v
<1>2. IsFiniteSet(S \ {v})
    BY FS_RemoveElement
<1>3. Folding(calls, S, Folded(calls, S)) /\ Folding(calls, S \ {v}, Folded(calls, S \ {v}))
    BY <1>2, FoldExists DEF Folded
<1>4. Folded(calls, S)[S] = OneMore(calls, Folded(calls, S), S)
    BY <1>3 DEF Folding
<1>5. Folded(calls, S)[S] = calls[v].size + Folded(calls, S)[S \ {v}]
    BY <1>4 DEF OneMore, v
<1>6. Folded(calls, S \ {v})[S \ {v}] = Folded(calls, S)[S \ {v}]
    BY <1>2, <1>3, FoldsAgree
<1>. QED
    BY <1>1, <1>5, <1>6, BytesFolded

LEMMA BytesType ==
    ASSUME NEW calls, NEW S, IsFiniteSet(S), \A v \in S : calls[v].size \in Nat
    PROVE  Bytes(calls, S) \in Nat
<1> DEFINE typed == {s \in SUBSET S : Bytes(calls, s) \in Nat}
<1>1. ASSUME NEW s \in SUBSET S, \A x \in s : s \ {x} \in typed
      PROVE  s \in typed
    <2>1. CASE s = {}
        BY <2>1, BytesNone
    <2>2. CASE s # {}
        <3>1. IsFiniteSet(s)
            BY FS_Subset
        <3>2. PICK v \in s : Bytes(calls, s) = calls[v].size + Bytes(calls, s \ {v})
            BY <2>2, <3>1, BytesSome
        <3>. QED
            BY <1>1, <3>2
    <2>. QED
        BY <2>1, <2>2
<1>2. SUBSET S \subseteq typed
    <2> HIDE DEF typed
    <2>. QED
        BY <1>1, SubsetInduction
<1>. QED
    BY <1>2

\* Whichever upload is taken out, the sum loses its size.
LEMMA BytesLess ==
    ASSUME NEW calls, NEW S, IsFiniteSet(S), \A v \in S : calls[v].size \in Nat
    PROVE  \A v \in S : Bytes(calls, S) = calls[v].size + Bytes(calls, S \ {v})
<1> DEFINE any == {s \in SUBSET S :
                      \A v \in s : Bytes(calls, s) = calls[v].size + Bytes(calls, s \ {v})}
<1>0. \A s \in SUBSET S : IsFiniteSet(s) /\ Bytes(calls, s) \in Nat
    BY FS_Subset, BytesType
<1>1. ASSUME NEW s \in SUBSET S, \A x \in s : s \ {x} \in any, NEW v \in s
      PROVE  Bytes(calls, s) = calls[v].size + Bytes(calls, s \ {v})
    <2>1. PICK w \in s : Bytes(calls, s) = calls[w].size + Bytes(calls, s \ {w})
        BY <1>0, BytesSome
    <2>2. CASE w # v
        <3> DEFINE rest == Bytes(calls, (s \ {w}) \ {v})
        <3>1. /\ Bytes(calls, s \ {w}) = calls[v].size + Bytes(calls, (s \ {w}) \ {v})
              /\ Bytes(calls, s \ {v}) = calls[w].size + Bytes(calls, (s \ {v}) \ {w})
            BY <1>1, <2>2
        <3>2. (s \ {w}) \ {v} = (s \ {v}) \ {w}
            OBVIOUS
        <3>3. /\ rest \in Nat
              /\ calls[v].size \in Nat /\ calls[w].size \in Nat
            BY <1>0
        <3>4. /\ Bytes(calls, s) = calls[w].size + (calls[v].size + rest)
              /\ Bytes(calls, s \ {v}) = calls[w].size + rest
            BY <2>1, <3>1, <3>2
        <3> HIDE DEF rest
        <3>. QED
            BY <3>3, <3>4
    <2>. QED
        BY <2>1, <2>2
<1>2. SUBSET S \subseteq any
    <2>1. \A s \in SUBSET S : (\A x \in s : s \ {x} \in any) => s \in any
        BY <1>1
    <2> HIDE DEF any
    <2>. QED
        BY <2>1, SubsetInduction
<1>. QED
    BY <1>2

LEMMA BytesMore ==
    ASSUME NEW calls, NEW S, IsFiniteSet(S), NEW v, v \notin S,
           \A x \in S \cup {v} : calls[x].size \in Nat
    PROVE  Bytes(calls, S \cup {v}) = calls[v].size + Bytes(calls, S)
<1>1. IsFiniteSet(S \cup {v}) /\ (S \cup {v}) \ {v} = S
    BY FS_AddElement
<1>. QED
    BY <1>1, BytesLess

LEMMA BytesSubset ==
    ASSUME NEW calls, NEW S, IsFiniteSet(S), \A v \in S : calls[v].size \in Nat
    PROVE  \A T \in SUBSET S : Bytes(calls, T) <= Bytes(calls, S)
<1> DEFINE over == {s \in SUBSET S : \A T \in SUBSET s : Bytes(calls, T) <= Bytes(calls, s)}
<1>0. \A s \in SUBSET S : IsFiniteSet(s) /\ Bytes(calls, s) \in Nat
    BY FS_Subset, BytesType
<1>1. ASSUME NEW s \in SUBSET S, \A x \in s : s \ {x} \in over, NEW T \in SUBSET s
      PROVE  Bytes(calls, T) <= Bytes(calls, s)
    <2>1. CASE T = s
        BY <1>0, <2>1
    <2>2. CASE T # s
        <3>1. PICK v \in s : v \notin T
            BY <2>2
        <3>2. T \in SUBSET (s \ {v})
            BY <3>1
        <3>3. Bytes(calls, T) <= Bytes(calls, s \ {v})
            BY <1>1, <3>2
        <3>4. Bytes(calls, s) = calls[v].size + Bytes(calls, s \ {v})
            BY <1>0, BytesLess
        <3>. QED
            BY <1>0, <3>3, <3>4
    <2>. QED
        BY <2>1, <2>2
<1>2. SUBSET S \subseteq over
    <2>1. \A s \in SUBSET S : (\A x \in s : s \ {x} \in over) => s \in over
        BY <1>1
    <2> HIDE DEF over
    <2>. QED
        BY <2>1, SubsetInduction
<1>. QED
    BY <1>2

\* The sum looks at nothing but the sizes of its uploads.
LEMMA BytesSame ==
    ASSUME NEW S, IsFiniteSet(S), NEW calls, NEW others,
           \A v \in S : calls[v].size \in Nat /\ others[v].size = calls[v].size
    PROVE  Bytes(others, S) = Bytes(calls, S)
<1> DEFINE same == {s \in SUBSET S : Bytes(others, s) = Bytes(calls, s)}
<1>0. \A s \in SUBSET S : IsFiniteSet(s)
    BY FS_Subset
<1>1. ASSUME NEW s \in SUBSET S, \A x \in s : s \ {x} \in same
      PROVE  s \in same
    <2>1. CASE s = {}
        BY <2>1, BytesNone
    <2>2. CASE s # {}
        <3>1. PICK v \in s : Bytes(calls, s) = calls[v].size + Bytes(calls, s \ {v})
            BY <1>0, <2>2, BytesSome
        <3>2. Bytes(others, s) = others[v].size + Bytes(others, s \ {v})
            BY <1>0, BytesLess
        <3>. QED
            BY <1>1, <3>1, <3>2
    <2>. QED
        BY <2>1, <2>2
<1>2. SUBSET S \subseteq same
    <2> HIDE DEF same
    <2>. QED
        BY <1>1, SubsetInduction
<1>. QED
    BY <1>2
-----------------------------------------------------------------------------
(* The quota.  What is charged to an account, once the open request has    *)
(* settled, covers the versions of active files it uploaded.  The first    *)
(* version of an active file counts until the row goes, also while a purge *)
(* has already deleted its version row: that is the size the purge gives   *)
(* back.  A version whose file row is still to be saved does not count yet. *)

Lives(v) ==
    \/ /\ versions[v] # Nothing
       /\ files[versions[v].fileId].status = "active"
       /\ ~Revising(v)
    \/ /\ files[v] # Nothing
       /\ files[v].status = "active"
       /\ pc[v] # "insertFirstVersion"

Counted(u) == {v \in Request : pc[v] # "idle" /\ args[v].user = u /\ Lives(v)}

\* A row names the account and the size of the upload that created it.
RowsOfUploads ==
    \A f \in Request :
        files[f] # Nothing => files[f].ownerId = args[f].user /\ files[f].sizeBytes = args[f].size

CountInv ==
    /\ DriveInv
    /\ RowsOfUploads
    /\ \A u \in User : Bytes(args, Counted(u)) <= ChargedTo(u)

LEMMA ContinueKeepsCalls ==
    ASSUME NEW r \in Request, Continue(r)
    PROVE  args' = args
BY DEF Continue, UploadInfected, UploadStore, UploadInsertFile, UploadInsertFirstVersion,
   UploadFindFile, UploadInsertVersion, LoadFile, UpdateFile, ReinsertFile, LoadUser, WriteUser,
   Uncache, PurgeListVersions, PurgeBlob, PurgeBlobsEnd, PurgeVersions, PurgeFile, FindOwner,
   DownloadFetch, HistoryRead

LEMMA CountedSized ==
    ASSUME TypeInv, NEW u \in User
    PROVE  /\ Counted(u) \subseteq Request
           /\ \A S \in SUBSET Counted(u) :
                 /\ IsFiniteSet(S)
                 /\ \A v \in S : args[v].size \in Nat
                 /\ Bytes(args, S) \in Nat
<1>1. \A v \in Counted(u) : args[v].size \in Nat
    BY DEF Counted, TypeInv, ControlOK, HandlerOK, Call
<1>2. \A S \in SUBSET Counted(u) : IsFiniteSet(S)
    BY ListingAssumption, FS_Subset DEF Counted
<1>. QED
    BY <1>1, <1>2, BytesType DEF Counted

LEMMA BytesPrimed ==
    ASSUME NEW u \in User
    PROVE  Bytes(args, Counted(u))' = Bytes(args', Counted(u)')
BY DEF Bytes, Sets!MapThenSumSet, Sets!MapThenFoldSet

\* What the open request does to the count of u is what it does to the charge: it counts
\* nothing more, counts itself, or gives back the size of a file that counted.
LEMMA CountFrame ==
    ASSUME TypeInv, NEW u \in User, Bytes(args, Counted(u)) <= ChargedTo(u),
           ChargedTo(u) \in Nat, args' = args, NEW v \in Request,
           \/ /\ Counted(u)' \subseteq Counted(u)
              /\ ChargedTo(u)' = ChargedTo(u)
           \/ /\ Counted(u)' \subseteq Counted(u) \cup {v}
              /\ args[v].size \in Nat
              /\ ChargedTo(u)' = ChargedTo(u) + args[v].size
           \/ /\ Counted(u)' \subseteq Counted(u) \ {v} /\ v \in Counted(u)
              /\ ChargedTo(u)' = DecrementStorage(ChargedTo(u), args[v].size)
    PROVE  Bytes(args', Counted(u)') <= ChargedTo(u)'
<1> DEFINE before == Counted(u)
           after == Counted(u)'
<1>1. /\ IsFiniteSet(before) /\ \A w \in before : args[w].size \in Nat
      /\ Bytes(args, before) \in Nat
    BY CountedSized
<1> SUFFICES Bytes(args, after) <= ChargedTo(u)'
    OBVIOUS
<1> HIDE DEF before, after
<1>2. CASE after \subseteq before /\ ChargedTo(u)' = ChargedTo(u)
    <2>1. Bytes(args, after) <= Bytes(args, before)
        BY <1>1, <1>2, BytesSubset
    <2>2. Bytes(args, after) \in Nat
        BY <1>1, <1>2, FS_Subset, BytesType
    <2>. QED
        BY <1>1, <1>2, <2>1, <2>2 DEF before
<1>3. CASE /\ after \subseteq before \cup {v} /\ args[v].size \in Nat
           /\ ChargedTo(u)' = ChargedTo(u) + args[v].size
    <2>1. IsFiniteSet(before \cup {v}) /\ \A w \in before \cup {v} : args[w].size \in Nat
        BY <1>1, <1>3, FS_AddElement
    <2>2. /\ Bytes(args, after) <= Bytes(args, before \cup {v})
          /\ Bytes(args, after) \in Nat /\ Bytes(args, before \cup {v}) \in Nat
        <3>1. IsFiniteSet(after) /\ \A w \in after : args[w].size \in Nat
            BY <1>3, <2>1, FS_Subset
        <3>. QED
            BY <1>3, <2>1, <3>1, BytesSubset, BytesType
    <2>3. Bytes(args, before \cup {v}) <= Bytes(args, before) + args[v].size
        <3>1. CASE v \in before
            <4>1. before \cup {v} = before
                BY <3>1
            <4>2. Bytes(args, before \cup {v}) = Bytes(args, before)
                BY <4>1
            <4>. QED
                BY <1>1, <1>3, <4>2
        <3>2. CASE v \notin before
            BY <1>1, <1>3, <2>1, <3>2, BytesMore
        <3>. QED
            BY <3>1, <3>2
    <2>. QED
        BY <1>1, <1>3, <2>2, <2>3 DEF before
<1>4. CASE /\ after \subseteq before \ {v} /\ v \in before
           /\ ChargedTo(u)' = DecrementStorage(ChargedTo(u), args[v].size)
    <2>1. IsFiniteSet(before \ {v}) /\ \A w \in before \ {v} : args[w].size \in Nat
        BY <1>1, FS_RemoveElement
    <2>2. /\ Bytes(args, after) <= Bytes(args, before \ {v})
          /\ Bytes(args, after) \in Nat /\ Bytes(args, before \ {v}) \in Nat
        <3>1. IsFiniteSet(after) /\ \A w \in after : args[w].size \in Nat
            BY <1>4, <2>1, FS_Subset
        <3>. QED
            BY <1>4, <2>1, <3>1, BytesSubset, BytesType
    <2>3. Bytes(args, before) = args[v].size + Bytes(args, before \ {v}) /\ args[v].size \in Nat
        BY <1>1, <1>4, BytesLess
    <2>. QED
        BY <1>4, <2>2, <2>3 DEF before, DecrementStorage
<1>. QED
    BY <1>2, <1>3, <1>4 DEF before, after

LEMMA ChargeTyped ==
    ASSUME TypeInv, NEW r \in Request, ChargedAs(r), NEW u \in User
    PROVE  ChargedTo(u) \in Nat
<1>1. used[u] \in Nat /\ seen[r].used \in Nat
    BY DEF TypeInv, TypeOK, Locals
<1>2. Committed(r) => Owed(r) \in Nat
    <2> SUFFICES ASSUME Committed(r)
                 PROVE  Owed(r) \in Nat
        OBVIOUS
    <2>1. HandlerOK(r) /\ args[r] \in Call
        BY DEF TypeInv, ControlOK, HandlerOK, Committed
    <2>2. CASE args[r].op \in Removal
        <3>1. seen[r].file \in FileRow
            BY <2>1, <2>2 DEF HandlerOK, Committed, InFlight, Awaits
        <3>2. /\ seen[r].file.sizeBytes \in Nat /\ Account(r) \in User
              /\ used[Account(r)] \in Nat
            BY <2>2, <3>1 DEF FileRow, Account, TypeInv, TypeOK
        <3>. QED
            BY <1>1, <2>2, <3>2 DEF Owed, UsageToWrite, DecrementStorage, Upload, Removal
    <2>3. CASE args[r].op \notin Removal
        <3>1. pc[r] # "findOwner" /\ args[r].size \in Nat
            BY <2>1, <2>3 DEF HandlerOK, Call
        <3>. QED
            BY <1>1, <2>3, <3>1 DEF Owed, UsageToWrite
    <2>. QED
        BY <2>2, <2>3
<1>. QED
    BY <1>1, <1>2 DEF ChargedAs

LEMMA ContinueCounts ==
    ASSUME CountInv, NEW r \in Request, Continue(r), NEW u \in User
    PROVE  Bytes(args', Counted(u)') <= ChargedTo(u)'
<1> USE DEF Goto, Learn, Answer
<1> DEFINE f == args[r].target
           user == args[r].user
           AddsUpload(w) == /\ Counted(w)' \subseteq Counted(w) \cup {r}
                            /\ ChargedTo(w)' = ChargedTo(w) + args[r].size
           GivesBack(w) == /\ Counted(w)' \subseteq Counted(w) \ {f} /\ f \in Counted(w)
                           /\ ChargedTo(w)' = DecrementStorage(ChargedTo(w), args[f].size)
           Same(w) == Counted(w)' \subseteq Counted(w) /\ ChargedTo(w)' = ChargedTo(w)
<1>1. /\ TypeOK /\ TypeInv /\ HandlerOK(r) /\ FilesFresh(r) /\ UsageFresh(r) /\ VersionsHaveFile
      /\ FreshInv /\ DriveInv /\ RowsOfUploads
      /\ pc[r] \in Awaits /\ args[r] \in Call /\ f \in Request /\ user \in User
      /\ args[r].size \in Nat /\ args' = args
    <2>1. /\ TypeOK /\ TypeInv /\ HandlerOK(r) /\ FilesFresh(r) /\ UsageFresh(r) /\ VersionsHaveFile
          /\ FreshInv /\ DriveInv /\ RowsOfUploads
        BY DEF CountInv, DriveInv, FreshInv, HistoryInv, TypeInv, ControlOK
    <2>2. pc[r] # "idle"
        BY ContinueIsOpen
    <2>3. InFlight(r)
        BY <2>1, <2>2, SerialStep DEF Moves
    <2>. QED
        BY <2>1, <2>2, <2>3, ContinueKeepsCalls DEF HandlerOK, Call, InFlight
<1>2. ChargedAs(r) /\ ChargedAs(r)'
    BY <1>1, StepCharges
<1>3. Bytes(args, Counted(u)) <= ChargedTo(u) /\ ChargedTo(u) \in Nat
    BY <1>1, <1>2, ChargeTyped DEF CountInv
<1>4. SUFFICES Same(u) \/ AddsUpload(u) \/ GivesBack(u)
    BY <1>1, <1>3, CountFrame
<1>5. \A v \in Request : pc'[v] # "idle" => pc[v] # "idle"
    BY <1>1, SerialStep DEF Moves, Awaits
<1>6. ASSUME \A v \in Request : Lives(v)' => Lives(v)
      PROVE  Counted(u)' \subseteq Counted(u)
    BY <1>1, <1>5, <1>6 DEF Counted
\* Steps on the way to a commit, and after the account is settled.
<1>7. CASE \/ UploadInfected(r) \/ UploadStore(r) \/ UploadFindFile(r) \/ UploadInsertVersion(r)
           \/ LoadFile(r) \/ Uncache(r) \/ PurgeListVersions(r) \/ PurgeBlob(r)
           \/ PurgeBlobsEnd(r) \/ PurgeVersions(r) \/ DownloadFetch(r) \/ HistoryRead(r)
           \/ UploadInsertFile(r)
    <2>1. /\ used' = used
          /\ pc[r] \notin {"insertFirstVersion", "findOwner", "loadUser", "writeUser"}
          /\ pc'[r] \notin {"findOwner", "loadUser", "writeUser"}
        BY <1>1, <1>7
        DEF UploadInfected, UploadStore, UploadFindFile, UploadInsertVersion, InsertVersion, LoadFile,
            Uncache, PurgeListVersions, PurgeBlob, PurgeBlobsEnd, PurgeVersions, DownloadFetch,
            HistoryRead, UploadInsertFile, TypeOK
    <2>2. ChargedTo(u)' = ChargedTo(u)
        BY <1>2, <2>1 DEF ChargedAs, Committed
    <2>3. \A v \in Request : Lives(v)' => Lives(v)
        <3>1. CASE \/ UploadInfected(r) \/ UploadStore(r) \/ UploadFindFile(r) \/ LoadFile(r)
                   \/ Uncache(r) \/ PurgeListVersions(r) \/ PurgeBlob(r) \/ PurgeBlobsEnd(r)
                   \/ DownloadFetch(r) \/ HistoryRead(r)
            <4>1. /\ UNCHANGED <<files, versions>>
                  /\ \A v \in Request \ {r} : pc'[v] = pc[v]
                  /\ pc'[r] # "insertFirstVersion"
                  /\ pc[r] \in {"loadFile", "writeFile"} => pc'[r] = "writeFile"
                BY <1>1, <3>1
                DEF UploadInfected, UploadStore, UploadFindFile, LoadFile, Uncache, PurgeListVersions,
                    PurgeBlob, PurgeBlobsEnd, DownloadFetch, HistoryRead, TypeOK
            <4>. QED
                BY <1>1, <2>1, <4>1 DEF Lives, Revising
        <3>2. CASE UploadInsertVersion(r)
            <4>1. /\ files' = files /\ args[r].op = "revise"
                  /\ \A v \in Request \ {r} : pc'[v] = pc[v] /\ versions'[v] = versions[v]
                  /\ \/ pc'[r] = "loadFile"
                     \/ versions' = versions
                  /\ pc'[r] \in {"loadFile", "failed"} /\ pc[r] = "insertVersion"
                BY <1>1, <3>2 DEF UploadInsertVersion, InsertVersion, HandlerOK, TypeOK
            <4>. QED
                BY <1>1, <4>1 DEF Lives, Revising
        <3>3. CASE PurgeVersions(r)
            <4>1. /\ files' = files /\ pc[r] = "deleteVersions" /\ pc'[r] = "deleteFile"
                  /\ \A v \in Request : versions'[v] \in {versions[v], Nothing}
                  /\ \A v \in Request \ {r} : pc'[v] = pc[v]
                BY <1>1, <3>3 DEF PurgeVersions, TypeOK
            <4>. QED
                BY <1>1, <4>1 DEF Lives, Revising
        <3>4. CASE UploadInsertFile(r)
            <4>1. /\ versions' = versions /\ pc[r] = "insertFile" /\ pc'[r] = "insertFirstVersion"
                  /\ \A v \in Request \ {r} : pc'[v] = pc[v] /\ files'[v] = files[v]
                BY <1>1, <3>4 DEF UploadInsertFile, TypeOK
            <4>2. files[r] = Nothing
                BY <4>1 DEF DriveInv, FreshInv, HistoryInv, CountInv, LinkOK, Created, BeforeFile
            <4>3. \A v \in Request : versions[v] # Nothing => versions[v].fileId \in Request \ {r}
                BY <1>1, <4>2 DEF VersionsHaveFile, TypeOK, VersionRow
            <4>. QED
                BY <1>1, <4>1, <4>3 DEF Lives, Revising
        <3>. QED
            BY <1>7, <3>1, <3>2, <3>3, <3>4
    <2>. QED
        BY <1>6, <2>2, <2>3
<1>8. CASE FindOwner(r) \/ LoadUser(r) \/ WriteUser(r)
    <2>1. UNCHANGED Contract!vars
        BY <1>1, <1>8, UsersRowStep
    <2>2. ChargedTo(u)' = ChargedTo(u)
        <3>1. [w \in User |-> ChargedTo(w)]' = [w \in User |-> ChargedTo(w)]
            BY <2>1 DEF Contract!vars
        <3>2. [w \in User |-> ChargedTo(w)'] = [w \in User |-> ChargedTo(w)]
            BY <3>1
        <3>3. [w \in User |-> ChargedTo(w)'][u] = [w \in User |-> ChargedTo(w)][u]
            BY <3>2
        <3>. QED
            BY <3>3
    <2>3. /\ UNCHANGED <<files, versions>>
          /\ \A v \in Request \ {r} : pc'[v] = pc[v]
          /\ pc[r] \in {"findOwner", "loadUser", "writeUser"}
          /\ pc'[r] # "insertFirstVersion"
        BY <1>1, <1>8 DEF FindOwner, LoadUser, WriteUser, TypeOK
    <2>4. \A v \in Request : Lives(v)' => Lives(v)
        BY <1>1, <2>3 DEF Lives, Revising
    <2>. QED
        BY <1>6, <2>2, <2>4
\* An upload commits: it counts, and is charged.
<1>9. CASE UploadInsertFirstVersion(r) \/ (UpdateFile(r) /\ args[r].op = "revise")
    <2>1. /\ pc[r] \in {"insertFirstVersion", "writeFile"} /\ pc'[r] = "loadUser"
          /\ used' = used /\ seen' = seen /\ args[r].op \in Upload
          /\ \A v \in Request \ {r} : pc'[v] = pc[v] /\ versions'[v] = versions[v]
        <3>1. CASE UploadInsertFirstVersion(r)
            <4>1. files[f] # Nothing /\ args[r].op = "create"
                BY <1>1, <3>1, CreateFileType, NothingAssumption
                DEF UploadInsertFirstVersion, HandlerOK, FilesFresh, Call
            <4>. QED
                BY <1>1, <3>1, <4>1 DEF UploadInsertFirstVersion, InsertVersion, TypeOK, Upload
        <3>2. CASE UpdateFile(r) /\ args[r].op = "revise"
            BY <1>1, <3>2 DEF UpdateFile, AfterWriteFile, TypeOK, Upload
        <3>. QED
            BY <1>9, <3>1, <3>2
    <2>2. ChargedTo(u)' = IF u = user THEN ChargedTo(u) + args[r].size ELSE ChargedTo(u)
        <3>1. ~Committed(r) /\ Committed(r)' /\ Account(r)' = user
            BY <1>1, <2>1 DEF Committed, Account, Upload, Removal
        <3>2. seen[r].used = used[user]
            BY <1>1, <2>1 DEF UsageFresh, InFlight
        <3>3. Owed(r)' = used[user] + args[r].size
            BY <1>1, <2>1, <3>2 DEF Owed, UsageToWrite, Upload, Removal
        <3>. QED
            BY <1>2, <2>1, <3>1, <3>3 DEF ChargedAs
    <2>3. ASSUME NEW v \in Request \ {r}, Lives(v)'
          PROVE  Lives(v)
        <3>1. \A g \in Request : files'[g] # Nothing =>
                  files[g] # Nothing /\ files'[g].status = files[g].status
            <4>1. CASE UploadInsertFirstVersion(r)
                BY <4>1 DEF UploadInsertFirstVersion
            <4>2. CASE UpdateFile(r) /\ args[r].op = "revise"
                <5>1. /\ seen[r].fileRow = files[f] /\ seen[r].file = Revised(files[f], r)
                      /\ files[f] \in FileRow /\ files[f] # Nothing
                    BY <1>1, <4>2 DEF UpdateFile, FilesFresh, TypeOK
                <5>2. seen[r].file.status = files[f].status
                    BY <1>1, <5>1 DEF Revised, ApplyScanStatus, NewVersionUploaded, FileRow
                <5>3. Written(files[f], files[f], seen[r].file).status = files[f].status
                    BY <5>1, <5>2 DEF Written, FileRow
                <5>. QED
                    BY <1>1, <4>2, <5>1, <5>3 DEF UpdateFile, TypeOK
            <4>. QED
                BY <1>9, <4>1, <4>2
        <3>2. /\ versions'[v] = versions[v] /\ pc'[v] = pc[v]
              /\ versions[v] # Nothing => versions[v].fileId \in Request /\ files[versions[v].fileId] # Nothing
            BY <1>1, <2>1, <2>3 DEF VersionsHaveFile, TypeOK, VersionRow
        <3>3. versions[v] # Nothing => files'[versions[v].fileId] # Nothing
            <4>1. FreshInv'
                BY <1>1, ContinueFreshInv
            <4>. QED
                BY <3>2, <4>1 DEF FreshInv, VersionsHaveFile
        <3>. QED
            BY <1>1, <2>3, <3>1, <3>2, <3>3 DEF Lives, Revising
    <2>4. Counted(u)' \subseteq Counted(u) \cup {r}
        BY <1>1, <1>5, <2>3 DEF Counted
    <2>5. u # user => r \notin Counted(u)'
        BY <1>1 DEF Counted
    <2>. QED
        BY <2>2, <2>4, <2>5
\* A removal commits: the file counts no more, and its size is given back to its owner.
<1>10. CASE PurgeFile(r) \/ (UpdateFile(r) /\ args[r].op = "delete")
    <2> DEFINE row == files[f]
    <2>1. /\ row \in FileRow /\ row # Nothing /\ row.status = "active"
          /\ row.ownerId = args[f].user /\ row.sizeBytes = args[f].size
          /\ row.ownerId \in User /\ row.sizeBytes \in Nat
          /\ pc[f] \notin {"idle", "insertFirstVersion"} /\ args[f].target = f
        <3>1. row \in FileRow /\ row # Nothing /\ row.status = "active"
            BY <1>1, <1>10 DEF PurgeFile, UpdateFile, FilesFresh, TypeOK
        <3>2. f \in Created
            BY <1>1, <3>1 DEF FreshInv, HistoryInv, LinkOK
        <3>3. HandlerOK(f) /\ (pc[f] = "insertFirstVersion" => f = r)
            BY <1>1, SerialStep DEF TypeInv, ControlOK, InFlight, Awaits
        <3>4. pc[r] \in {"deleteFile", "writeFile"}
            BY <1>10 DEF PurgeFile, UpdateFile
        <3>. QED
            BY <1>1, <3>1, <3>2, <3>3, <3>4 DEF RowsOfUploads, FileRow, Created, BeforeFile, HandlerOK
    <2>2. /\ pc[r] \in {"deleteFile", "writeFile"} /\ pc'[r] = "findOwner"
          /\ args[r].op \in Removal /\ versions' = versions /\ used' = used
          /\ seen'[r].file.ownerId = row.ownerId /\ seen'[r].file.sizeBytes = row.sizeBytes
          /\ \A v \in Request \ {r} : pc'[v] = pc[v]
        <3>1. CASE PurgeFile(r)
            BY <1>1, <2>1, <3>1 DEF PurgeFile, FilesFresh, HandlerOK, TypeOK, Removal
        <3>2. CASE UpdateFile(r) /\ args[r].op = "delete"
            <4>1. seen[r].file = SoftDeleted(row)
                BY <1>1, <3>2 DEF UpdateFile, FilesFresh
            <4>2. seen[r].file.ownerId = row.ownerId /\ seen[r].file.sizeBytes = row.sizeBytes
                BY <2>1, <4>1 DEF SoftDeleted, FileRow
            <4>. QED
                BY <1>1, <3>2, <4>2 DEF UpdateFile, AfterWriteFile, TypeOK, Removal
        <3>. QED
            BY <1>10, <3>1, <3>2
    <2>3. /\ \A g \in Request \ {f} : files'[g] = files[g]
          /\ files'[f] # Nothing => files'[f].status # "active"
        <3>1. CASE PurgeFile(r)
            BY <1>1, <3>1 DEF PurgeFile, FilesFresh, TypeOK
        <3>2. CASE UpdateFile(r) /\ args[r].op = "delete"
            <4>1. /\ seen[r].fileRow = row /\ seen[r].file = SoftDeleted(row)
                  /\ files' = [files EXCEPT ![f] = Written(row, row, SoftDeleted(row))]
                BY <1>1, <2>1, <3>2 DEF UpdateFile, FilesFresh
            <4>2. Written(row, row, SoftDeleted(row)).status = "deleted"
                BY <2>1 DEF Written, SoftDeleted, FileRow
            <4>. QED
                BY <1>1, <4>1, <4>2 DEF TypeOK
        <3>. QED
            BY <1>10, <3>1, <3>2
    <2>4. \A v \in Request : versions[v] # Nothing /\ versions[v].fileId = f =>
              files'[f] # Nothing
        <3>1. FreshInv'
            BY <1>1, ContinueFreshInv
        <3>. QED
            BY <2>2, <3>1 DEF FreshInv, VersionsHaveFile
    <2>5. \A v \in Request : Lives(v)' => Lives(v) /\ v # f
        <3> SUFFICES ASSUME NEW v \in Request, Lives(v)'
                     PROVE  Lives(v) /\ v # f
            OBVIOUS
        <3>1. versions[v] # Nothing => versions[v].fileId \in Request
            BY <1>1 DEF TypeOK, VersionRow
        <3>2. Revising(v)' = Revising(v)
            BY <1>1, <2>2 DEF Revising, Removal
        <3>3. Lives(v)
            BY <1>1, <2>1, <2>2, <2>3, <2>4, <3>1, <3>2 DEF Lives
        <3>4. versions[f] # Nothing => versions[f].fileId = f
            BY <1>1, <2>1 DEF FreshInv, HistoryInv, LinkOK
        <3>5. v # f
            BY <1>1, <2>2, <2>3, <2>4, <3>4 DEF Lives
        <3>. QED
            BY <3>3, <3>5
    <2>6. ChargedTo(u)' = IF u = row.ownerId THEN DecrementStorage(ChargedTo(u), args[f].size)
                                             ELSE ChargedTo(u)
        <3>1. ~Committed(r) /\ Committed(r)' /\ Account(r)' = row.ownerId
            BY <1>1, <2>2 DEF Committed, Account
        <3>2. Owed(r)' = DecrementStorage(used[row.ownerId], args[f].size)
            BY <2>1, <2>2, <3>1 DEF Owed
        <3>. QED
            BY <1>2, <2>2, <3>1, <3>2 DEF ChargedAs
    <2>7. f \in Counted(row.ownerId)
        BY <1>1, <2>1 DEF Counted, Lives
    <2>8. Counted(u)' \subseteq Counted(u) \ {f}
        BY <1>1, <1>5, <2>5 DEF Counted
    <2>. QED
        BY <2>6, <2>7, <2>8
<1>11. ~ReinsertFile(r)
    BY <1>1 DEF ReinsertFile, FilesFresh
<1>. QED
    <2>1. UpdateFile(r) => args[r].op \in {"revise", "delete"}
        BY <1>1 DEF UpdateFile, HandlerOK
    <2>. QED
        BY <1>7, <1>8, <1>9, <1>10, <1>11, <2>1 DEF Continue

\* A file row keeps its owner and its size.
LEMMA ContinueRows ==
    ASSUME CountInv, NEW r \in Request, Continue(r)
    PROVE  RowsOfUploads'
<1> DEFINE f == args[r].target
<1>1. TypeOK /\ HandlerOK(r) /\ args' = args /\ RowsOfUploads /\ args[r] \in Call /\ f \in Request
      /\ FilesFresh(r)
    <2>1. TypeOK /\ HandlerOK(r) /\ RowsOfUploads /\ FilesFresh(r)
        BY DEF CountInv, DriveInv, FreshInv, HistoryInv, TypeInv, ControlOK
    <2>. QED
        BY <2>1, ContinueIsOpen, ContinueKeepsCalls DEF HandlerOK, Call
<1>2. CASE UploadInsertFile(r)
    <2>1. files' = [files EXCEPT ![r] = CreateFile(args[r].user, args[r].size, args[r].verdict)]
        BY <1>2 DEF UploadInsertFile
    <2>2. /\ CreateFile(args[r].user, args[r].size, args[r].verdict).ownerId = args[r].user
          /\ CreateFile(args[r].user, args[r].size, args[r].verdict).sizeBytes = args[r].size
        BY DEF CreateFile, ApplyScanStatus
    <2>. QED
        BY <1>1, <2>1, <2>2 DEF RowsOfUploads, TypeOK
<1>3. CASE UpdateFile(r)
    <2>1. /\ files[f] # Nothing /\ files[f] \in FileRow
          /\ files' = [files EXCEPT ![f] = Written(files[f], seen[r].fileRow, seen[r].file)]
        BY <1>1, <1>3 DEF UpdateFile, FilesFresh, TypeOK
    <2>2. /\ Written(files[f], seen[r].fileRow, seen[r].file).ownerId = files[f].ownerId
          /\ Written(files[f], seen[r].fileRow, seen[r].file).sizeBytes = files[f].sizeBytes
        BY <2>1 DEF Written, FileRow
    <2>. QED
        BY <1>1, <2>1, <2>2 DEF RowsOfUploads, TypeOK
<1>4. ~ReinsertFile(r)
    BY <1>1 DEF ReinsertFile, FilesFresh
<1>5. CASE PurgeFile(r)
    BY <1>1, <1>5 DEF PurgeFile, RowsOfUploads, TypeOK
<1>6. UploadInsertFile(r) \/ UpdateFile(r) \/ ReinsertFile(r) \/ PurgeFile(r) \/ files' = files
    BY DEF Continue, UploadInfected, UploadStore, UploadInsertFirstVersion, UploadFindFile,
       UploadInsertVersion, LoadFile, LoadUser, WriteUser, Uncache, PurgeListVersions, PurgeBlob,
       PurgeBlobsEnd, PurgeVersions, FindOwner, DownloadFetch, HistoryRead
<1>. QED
    BY <1>1, <1>2, <1>3, <1>4, <1>5, <1>6 DEF RowsOfUploads

\* A request that begins counts nothing and owes nothing.
LEMMA BeginCounts ==
    ASSUME CountInv, NEW r \in Request, Begin(r)
    PROVE  /\ RowsOfUploads'
           /\ \A u \in User : Bytes(args', Counted(u)') <= ChargedTo(u)'
<1>1. /\ Begun(r) /\ UNCHANGED <<used, files, versions>> /\ TypeInv /\ TypeOK /\ LinkOK(r)
      /\ VersionsHaveFile /\ RowsOfUploads
    <2>1. Begun(r) /\ TypeInv /\ LinkOK(r) /\ VersionsHaveFile /\ RowsOfUploads
        BY BeginBegun DEF CountInv, DriveInv, FreshInv, HistoryInv
    <2>. QED
        BY <2>1 DEF TypeInv, Begin, UploadBegin, RemovalBegin, DownloadBegin, HistoryBegin, LoginBegin
<1>2. versions[r] = Nothing /\ files[r] = Nothing
    BY <1>1 DEF Begun, LinkOK, BeforeVersion, BeforeFile, Created
<1>3. RowsOfUploads'
    BY <1>1, <1>2 DEF RowsOfUploads, Begun
<1>4. ASSUME NEW u \in User
      PROVE  Bytes(args', Counted(u)') <= ChargedTo(u)'
    <2>1. ChargedTo(u)' = ChargedTo(u)
        <3>1. ChargedAs(r) /\ ChargedAs(r)'
            BY StepCharges DEF CountInv, DriveInv
        <3>2. ~Committed(r) /\ ~Committed(r)'
            BY <1>1 DEF Begun, Committed
        <3>. QED
            BY <1>1, <3>1, <3>2 DEF ChargedAs
    <2>2. Counted(u)' = Counted(u)
        BY <1>1, <1>2 DEF Counted, Lives, Revising, Begun
    <2>3. \A v \in Counted(u) : args[v].size \in Nat /\ args'[v] = args[v]
        BY <1>1, CountedSized DEF Counted, Begun
    <2>4. IsFiniteSet(Counted(u))
        BY <1>1, CountedSized
    <2>5. Bytes(args', Counted(u)) = Bytes(args, Counted(u))
        BY <2>3, <2>4, BytesSame
    <2>. QED
        BY <2>1, <2>2, <2>5 DEF CountInv
<1>. QED
    BY <1>3, <1>4

LEMMA NextCountInv == CountInv /\ [Next]_vars => CountInv'
<1> SUFFICES ASSUME CountInv, [Next]_vars
             PROVE  CountInv'
    OBVIOUS
<1>1. DriveInv'
    BY NextDriveInv DEF CountInv
<1>2. ASSUME RowsOfUploads', \A u \in User : Bytes(args', Counted(u)') <= ChargedTo(u)'
      PROVE  CountInv'
    BY <1>1, <1>2, BytesPrimed DEF CountInv
<1>3. ASSUME NEW r \in Request, Begin(r) \/ Continue(r) \/ Abort(r)
      PROVE  CountInv'
    <2>1. ~Abort(r)
        BY DEF Abort, CountInv, DriveInv, FreshInv, OneAtATime
    <2>. QED
        BY <1>2, <1>3, <2>1, BeginCounts, ContinueRows, ContinueCounts
<1>4. CASE UNCHANGED vars
    <2>1. RowsOfUploads'
        BY <1>4 DEF vars, CountInv, RowsOfUploads
    <2>2. ASSUME NEW u \in User
          PROVE  Bytes(args', Counted(u)') <= ChargedTo(u)'
        <3>1. Counted(u)' = Counted(u) /\ args' = args
            BY <1>4 DEF vars, Counted, Lives, Revising
        <3>2. ChargedTo(u)' = ChargedTo(u)
            BY <1>4 DEF vars, ChargedTo, Committed, Account, UsageToWrite
        <3>. QED
            BY <3>1, <3>2 DEF CountInv
    <2>. QED
        BY <1>2, <2>1, <2>2
<1>. QED
    BY <1>3, <1>4 DEF Next, Idle

LEMMA InitCountInv == OneAtATime /\ Init => CountInv
<1> SUFFICES ASSUME OneAtATime, Init
             PROVE  CountInv
    OBVIOUS
<1>1. DriveInv /\ RowsOfUploads
    BY InitDrives DEF Init, RowsOfUploads
<1>2. ASSUME NEW u \in User
      PROVE  Bytes(args, Counted(u)) <= ChargedTo(u)
    <2>1. Counted(u) = {}
        BY DEF Init, Counted
    <2>2. {r \in Request : Committed(r) /\ Account(r) = u} = {}
        BY DEF Init, Committed
    <2>3. ChargedTo(u) = 0
        BY <2>2 DEF Init, ChargedTo
    <2>. QED
        BY <2>1, <2>3, BytesNone
<1>. QED
    BY <1>1, <1>2 DEF CountInv

\* Served one at a time, whoever uploads to whose files and whatever is deleted or purged,
\* what is recorded against an account is at least the size of all it has uploaded to files
\* that are listed: the limit on the one limits the other.
THEOREM QuotasCoverContent == OneAtATime => (Spec => []QuotaCoversContent)
<1> SUFFICES ASSUME OneAtATime
             PROVE  Spec => []QuotaCoversContent
    OBVIOUS
<1>1. CountInv => QuotaCoversContent
    <2> SUFFICES ASSUME CountInv, AtRest, NEW u \in User
                 PROVE  Bytes(args, {v \in Request :
                            /\ versions[v] # Nothing
                            /\ args[v].user = u
                            /\ files[versions[v].fileId].status = "active"}) <= used[u]
        BY DEF QuotaCoversContent, Bytes
    <2> DEFINE content == {v \in Request : /\ versions[v] # Nothing
                                           /\ args[v].user = u
                                           /\ files[versions[v].fileId].status = "active"}
    <2>1. TypeInv /\ \A r \in Request : LinkOK(r)
        BY DEF CountInv, DriveInv, FreshInv, HistoryInv
    <2>2. content \subseteq Counted(u)
        BY <2>1 DEF AtRest, InFlight, Awaits, Counted, Lives, Revising, LinkOK, BeforeVersion, BeforeFile
    <2>3. ChargedTo(u) = used[u]
        <3>1. {r \in Request : Committed(r) /\ Account(r) = u} = {}
            BY DEF AtRest, Committed, InFlight, Awaits
        <3>. QED
            BY <3>1 DEF ChargedTo
    <2>4. Bytes(args, Counted(u)) <= used[u] /\ used[u] \in Nat
        BY <2>1, <2>3 DEF CountInv, TypeInv, TypeOK
    <2>5. /\ Bytes(args, content) <= Bytes(args, Counted(u))
          /\ Bytes(args, content) \in Nat /\ Bytes(args, Counted(u)) \in Nat
        BY <2>1, <2>2, CountedSized, BytesSubset
    <2>. QED
        BY <2>4, <2>5
<1>. QED
    BY <1>1, InitCountInv, NextCountInv, PTL DEF Spec
=============================================================================
