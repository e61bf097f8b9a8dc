-------------------------- MODULE FileStoreProofs --------------------------
(***************************************************************************)
(* Theorems about FileStore, for every set of requests, users and sizes,   *)
(* every bound on the requests in flight, with and without faults.         *)
(***************************************************************************)
EXTENDS FileStore, TLAPS

\* What the handler of r is about, and what it remembers, at each of its awaits.
HandlerOK(r) ==
    /\ pc[r] # "idle" => args[r] \in Call
    /\ pc[r] # "idle" /\ args[r].op = "create" => args[r].target = r
    /\ pc[r] = "store" => args[r].op \in Upload
    /\ pc[r] \in {"insertFile", "insertFirstVersion"} => args[r].op = "create"
    /\ pc[r] \in {"findFile", "insertVersion"} => args[r].op = "revise"
    /\ pc[r] \in {"loadFile", "writeFile"} => args[r].op \in {"revise", "delete"}
    /\ pc[r] \in {"listVersions", "deleteBlobs", "deleteVersions", "deleteFile"} =>
          args[r].op = "purge"
    /\ pc[r] = "findOwner" => args[r].op \in Removal
    /\ pc[r] = "fetch" => args[r].op = "download"
    /\ pc[r] = "listHistory" => args[r].op = "history"
    /\ pc[r] \in {"insertVersion", "loadFile", "writeFile"} => seen[r].file \in FileRow
    /\ InFlight(r) /\ args[r].op \in Removal => seen[r].file \in FileRow

ControlOK == \A r \in Request : HandlerOK(r)

TypeInv == TypeOK /\ ControlOK

-----------------------------------------------------------------------------
LEMMA NoLocalsType == NoLocals \in Locals
BY DEF NoLocals, Locals

LEMMA CreateFileType ==
    ASSUME NEW owner \in User, NEW bytes \in Nat, NEW outcome
    PROVE  CreateFile(owner, bytes, outcome) \in FileRow
BY DEF CreateFile, ApplyScanStatus, FileRow

LEMMA RevisedType ==
    ASSUME NEW file \in FileRow, NEW version \in Request, NEW outcome
    PROVE  ApplyScanStatus(NewVersionUploaded(file, version), outcome) \in FileRow
<1>1. file.versionCount + 1 \in Nat \ {0}
    BY DEF FileRow
<1>2. [file EXCEPT !.currentVersionId = version] \in FileRow
    BY DEF FileRow
<1>3. NewVersionUploaded(file, version) =
          [[file EXCEPT !.currentVersionId = version]
              EXCEPT !.versionCount = file.versionCount + 1]
    BY DEF NewVersionUploaded, FileRow
<1>4. NewVersionUploaded(file, version) \in FileRow
    BY <1>1, <1>2, <1>3 DEF FileRow
<1>5. QED
    BY <1>4 DEF ApplyScanStatus, FileRow

LEMMA SoftDeletedType ==
    ASSUME NEW file \in FileRow
    PROVE  SoftDeleted(file) \in FileRow
BY DEF SoftDeleted, FileRow

LEMMA WrittenType ==
    ASSUME NEW now \in FileRow, NEW loaded \in FileRow, NEW entity \in FileRow
    PROVE  Written(now, loaded, entity) \in FileRow
BY DEF Written, FileRow

\* A step of r leaves the other handlers where they are.
LEMMA HandlersFrame ==
    ASSUME ControlOK, NEW r \in Request, HandlerOK(r)',
           \A q \in Request \ {r} :
               pc'[q] = pc[q] /\ args'[q] = args[q] /\ seen'[q] = seen[q]
    PROVE  ControlOK'
BY DEF ControlOK, HandlerOK, InFlight

LEMMA InitTypeInv == Init => TypeInv
BY StoreAssumption, NoLocalsType DEF Init, TypeInv, TypeOK, ControlOK, HandlerOK, InFlight,
   Awaits

LEMMA ContinueTypeInv ==
    ASSUME TypeInv, NEW r \in Request, Continue(r)
    PROVE  TypeInv'
<1> USE StoreAssumption, NoLocalsType DEF TypeInv, Goto, Learn, Answer
<1>0. HandlerOK(r)
    BY DEF ControlOK
<1>1. CASE UploadInfected(r)
  <2>1. TypeOK'
    BY <1>1, <1>0 DEF UploadInfected, TypeOK, HandlerOK, Awaits, Answered
  <2>2. HandlerOK(r)'
    BY <1>1, <1>0 DEF UploadInfected, TypeOK, HandlerOK, Awaits, Answered, InFlight, Upload, Removal, Locals
  <2>3. QED
    BY <1>1, <2>1, <2>2, HandlersFrame DEF UploadInfected, TypeOK
<1>2. CASE UploadStore(r)
  <2>1. TypeOK'
    BY <1>2, <1>0 DEF UploadStore, TypeOK, HandlerOK, Awaits, Answered
  <2>2. HandlerOK(r)'
    BY <1>2, <1>0 DEF UploadStore, TypeOK, HandlerOK, Awaits, Answered, InFlight, Upload, Removal, Locals
  <2>3. QED
    BY <1>2, <2>1, <2>2, HandlersFrame DEF UploadStore, TypeOK
<1>3. CASE UploadInsertFile(r)
  <2>1. TypeOK'
    BY <1>3, <1>0 DEF UploadInsertFile, TypeOK, HandlerOK, Awaits, Answered, CreateFile, ApplyScanStatus, FileRow, Call
  <2>2. HandlerOK(r)'
    BY <1>3, <1>0 DEF UploadInsertFile, TypeOK, HandlerOK, Awaits, Answered, InFlight, Upload, Removal, Locals
  <2>3. QED
    BY <1>3, <2>1, <2>2, HandlersFrame DEF UploadInsertFile, TypeOK
<1>4. CASE UploadInsertFirstVersion(r)
  <2>1. TypeOK'
    BY <1>4, <1>0 DEF UploadInsertFirstVersion, TypeOK, HandlerOK, Awaits, Answered, InsertVersion, VersionRow, Call
  <2>2. HandlerOK(r)'
    BY <1>4, <1>0 DEF UploadInsertFirstVersion, TypeOK, HandlerOK, Awaits, Answered, InFlight, Upload, Removal, Locals, InsertVersion
  <2>3. QED
    BY <1>4, <2>1, <2>2, HandlersFrame DEF UploadInsertFirstVersion, TypeOK, InsertVersion
<1>5. CASE UploadFindFile(r)
  <2> DEFINE file == files[args[r].target]
  <2>1. CASE file # Nothing /\ MayChange(args[r].user, file)
    <3>1. file \in FileRow
      BY <1>5, <2>1, <1>0 DEF UploadFindFile, TypeOK, HandlerOK, Call
    <3>2. [seen[r] EXCEPT !.file = file] \in Locals
      BY <3>1 DEF TypeOK, Locals
    <3>3. pc' = [pc EXCEPT ![r] = "insertVersion"]
          /\ seen' = [seen EXCEPT ![r] = [seen[r] EXCEPT !.file = file]]
      BY <1>5, <2>1 DEF UploadFindFile
    <3>4. TypeOK'
      BY <1>5, <3>2, <3>3 DEF UploadFindFile, TypeOK, Awaits
    <3>5. HandlerOK(r)'
      BY <1>5, <1>0, <3>1, <3>3 DEF UploadFindFile, HandlerOK, TypeOK, InFlight, Removal,
         Locals
    <3>6. QED
      BY <1>5, <3>3, <3>4, <3>5, HandlersFrame DEF UploadFindFile, TypeOK
  <2>2. CASE ~(file # Nothing /\ MayChange(args[r].user, file))
    <3>1. Answer(r, "refused")
      BY <1>5, <2>2 DEF UploadFindFile
    <3>2. TypeOK'
      BY <1>5, <3>1 DEF UploadFindFile, TypeOK, Answered
    <3>3. HandlerOK(r)'
      BY <1>5, <1>0, <3>1 DEF UploadFindFile, TypeOK, HandlerOK, InFlight, Awaits
    <3>4. QED
      BY <1>5, <3>1, <3>2, <3>3, HandlersFrame DEF UploadFindFile, TypeOK
  <2>3. QED
    BY <2>1, <2>2
<1>6. CASE UploadInsertVersion(r)
  <2> DEFINE f == args[r].target
             revised == ApplyScanStatus(NewVersionUploaded(seen[r].file, r),
                                        args[r].verdict)
  <2>0. seen[r].file \in FileRow /\ f \in Request
    BY <1>6, <1>0 DEF UploadInsertVersion, HandlerOK, Call
  <2>1. CASE files[f] # Nothing
    <3>1. [seen[r] EXCEPT !.file = revised] \in Locals
      BY <2>0, RevisedType DEF TypeOK, Locals
    <3>2. [fileId |-> f, versionNumber |-> seen[r].file.versionCount + 1] \in VersionRow
      BY <2>0 DEF FileRow, VersionRow
    <3>3. /\ versions' = [versions EXCEPT ![r] =
                 [fileId |-> f, versionNumber |-> seen[r].file.versionCount + 1]]
          /\ pc' = [pc EXCEPT ![r] = "loadFile"]
          /\ seen' = [seen EXCEPT ![r] = [seen[r] EXCEPT !.file = revised]]
      BY <1>6, <2>1 DEF UploadInsertVersion, InsertVersion
    <3>4. TypeOK'
      BY <1>6, <3>1, <3>2, <3>3 DEF UploadInsertVersion, TypeOK, Awaits
    <3>5. seen'[r].file \in FileRow
      BY <3>3, <2>0, RevisedType DEF TypeOK, Locals
    <3>6. HandlerOK(r)'
      BY <1>6, <1>0, <3>3, <3>5 DEF UploadInsertVersion, HandlerOK, TypeOK, InFlight
    <3>7. QED
      BY <1>6, <3>3, <3>4, <3>6, HandlersFrame DEF UploadInsertVersion, TypeOK
  <2>2. CASE files[f] = Nothing
    <3>1. Answer(r, "failed") /\ UNCHANGED versions
      BY <1>6, <2>2 DEF UploadInsertVersion, InsertVersion
    <3>2. TypeOK'
      BY <1>6, <3>1 DEF UploadInsertVersion, TypeOK, Answered
    <3>3. HandlerOK(r)'
      BY <1>6, <1>0, <3>1 DEF UploadInsertVersion, TypeOK, HandlerOK, InFlight, Awaits
    <3>4. QED
      BY <1>6, <3>1, <3>2, <3>3, HandlersFrame DEF UploadInsertVersion, TypeOK
  <2>3. QED
    BY <2>1, <2>2
<1>7. CASE LoadFile(r)
  <2>1. TypeOK'
    BY <1>7, <1>0 DEF LoadFile, TypeOK, HandlerOK, Awaits, Answered, Locals, Call
  <2>2. HandlerOK(r)'
    BY <1>7, <1>0 DEF LoadFile, TypeOK, HandlerOK, Awaits, Answered, InFlight, Upload, Removal, Locals
  <2>3. QED
    BY <1>7, <2>1, <2>2, HandlersFrame DEF LoadFile, TypeOK
<1>8. CASE UpdateFile(r)
  <2> DEFINE f == args[r].target
  <2>1. files' \in [Request -> FileRow \cup {Nothing}]
    <3>1. CASE files[f] = Nothing
      BY <1>8, <3>1 DEF UpdateFile, TypeOK
    <3>2. CASE files[f] # Nothing
      <4>1. /\ files[f] \in FileRow
            /\ seen[r].fileRow \in FileRow
            /\ seen[r].file \in FileRow
        BY <1>8, <1>0, <3>2 DEF UpdateFile, HandlerOK, TypeOK, Call, Locals
      <4>2. Written(files[f], seen[r].fileRow, seen[r].file) \in FileRow
        BY <4>1, WrittenType
      <4>3. QED
        BY <1>8, <3>2, <4>2 DEF UpdateFile, TypeOK
    <3>3. QED
      BY <3>1, <3>2
  <2>2. TypeOK'
    BY <1>8, <2>1 DEF UpdateFile, TypeOK, AfterWriteFile, Awaits
  <2>3. HandlerOK(r)'
    BY <1>8, <1>0 DEF UpdateFile, TypeOK, HandlerOK, InFlight, Awaits, Removal,
       AfterWriteFile
  <2>4. QED
    BY <1>8, <2>2, <2>3, HandlersFrame DEF UpdateFile, TypeOK
<1>9. CASE ReinsertFile(r)
  <2>1. TypeOK'
    BY <1>9, <1>0 DEF ReinsertFile, TypeOK, HandlerOK, Awaits, Answered, AfterWriteFile, Call
  <2>2. HandlerOK(r)'
    BY <1>9, <1>0 DEF ReinsertFile, TypeOK, HandlerOK, Awaits, Answered, InFlight, Upload, Removal, Locals, AfterWriteFile
  <2>3. QED
    BY <1>9, <2>1, <2>2, HandlersFrame DEF ReinsertFile, TypeOK
<1>10. CASE LoadUser(r)
  <2>1. TypeOK'
    BY <1>10, <1>0 DEF LoadUser, TypeOK, HandlerOK, Awaits, Answered, Locals, Call, Account, Removal, FileRow, InFlight
  <2>2. HandlerOK(r)'
    BY <1>10, <1>0 DEF LoadUser, TypeOK, HandlerOK, Awaits, Answered, InFlight, Upload, Removal, Locals, Locals
  <2>3. QED
    BY <1>10, <2>1, <2>2, HandlersFrame DEF LoadUser, TypeOK
<1>11. CASE WriteUser(r)
  <2>1. TypeOK'
    BY <1>11, <1>0 DEF WriteUser, TypeOK, HandlerOK, Awaits, Answered, UsageToWrite, Account, DecrementStorage, Call, Locals, FileRow, InFlight, Removal, Upload
  <2>2. HandlerOK(r)'
    BY <1>11, <1>0 DEF WriteUser, TypeOK, HandlerOK, Awaits, Answered, InFlight, Upload, Removal, Locals
  <2>3. QED
    BY <1>11, <2>1, <2>2, HandlersFrame DEF WriteUser, TypeOK
<1>12. CASE Uncache(r)
  <2>1. TypeOK'
    BY <1>12, <1>0 DEF Uncache, TypeOK, HandlerOK, Awaits, Answered
  <2>2. HandlerOK(r)'
    BY <1>12, <1>0 DEF Uncache, TypeOK, HandlerOK, Awaits, Answered, InFlight, Upload, Removal, Locals
  <2>3. QED
    BY <1>12, <2>1, <2>2, HandlersFrame DEF Uncache, TypeOK
<1>13. CASE PurgeListVersions(r)
  <2>1. TypeOK'
    BY <1>13, <1>0 DEF PurgeListVersions, TypeOK, HandlerOK, Awaits, Answered, Locals, VersionsOf
  <2>2. HandlerOK(r)'
    BY <1>13, <1>0 DEF PurgeListVersions, TypeOK, HandlerOK, Awaits, Answered, InFlight, Upload, Removal, Locals
  <2>3. QED
    BY <1>13, <2>1, <2>2, HandlersFrame DEF PurgeListVersions, TypeOK
<1>14. CASE PurgeBlob(r)
  <2>1. TypeOK'
    BY <1>14, <1>0 DEF PurgeBlob, TypeOK, HandlerOK, Awaits, Answered, Locals
  <2>2. HandlerOK(r)'
    BY <1>14, <1>0 DEF PurgeBlob, TypeOK, HandlerOK, Awaits, Answered, InFlight, Upload, Removal, Locals
  <2>3. QED
    BY <1>14, <2>1, <2>2, HandlersFrame DEF PurgeBlob, TypeOK
<1>15. CASE PurgeBlobsEnd(r)
  <2>1. TypeOK'
    BY <1>15, <1>0 DEF PurgeBlobsEnd, TypeOK, HandlerOK, Awaits, Answered
  <2>2. HandlerOK(r)'
    BY <1>15, <1>0 DEF PurgeBlobsEnd, TypeOK, HandlerOK, Awaits, Answered, InFlight, Upload, Removal, Locals
  <2>3. QED
    BY <1>15, <2>1, <2>2, HandlersFrame DEF PurgeBlobsEnd, TypeOK
<1>16. CASE PurgeVersions(r)
  <2>1. TypeOK'
    BY <1>16, <1>0 DEF PurgeVersions, TypeOK, HandlerOK, Awaits, Answered
  <2>2. HandlerOK(r)'
    BY <1>16, <1>0 DEF PurgeVersions, TypeOK, HandlerOK, Awaits, Answered, InFlight, Upload, Removal, Locals
  <2>3. QED
    BY <1>16, <2>1, <2>2, HandlersFrame DEF PurgeVersions, TypeOK
<1>17. CASE PurgeFile(r)
  <2>1. TypeOK'
    BY <1>17, <1>0 DEF PurgeFile, TypeOK, HandlerOK, Awaits, Answered
  <2>2. HandlerOK(r)'
    BY <1>17, <1>0 DEF PurgeFile, TypeOK, HandlerOK, Awaits, Answered, InFlight, Upload, Removal, Locals
  <2>3. QED
    BY <1>17, <2>1, <2>2, HandlersFrame DEF PurgeFile, TypeOK
<1>18. CASE FindOwner(r)
  <2>1. TypeOK'
    BY <1>18, <1>0 DEF FindOwner, TypeOK, HandlerOK, Awaits, Answered, Locals, Account, FileRow, InFlight, Removal
  <2>2. HandlerOK(r)'
    BY <1>18, <1>0 DEF FindOwner, TypeOK, HandlerOK, Awaits, Answered, InFlight, Upload, Removal, Locals
  <2>3. QED
    BY <1>18, <2>1, <2>2, HandlersFrame DEF FindOwner, TypeOK
<1>19. CASE DownloadFetch(r)
  <2>1. TypeOK'
    BY <1>19, <1>0 DEF DownloadFetch, TypeOK, HandlerOK, Awaits, Answered
  <2>2. HandlerOK(r)'
    BY <1>19, <1>0 DEF DownloadFetch, TypeOK, HandlerOK, Awaits, Answered, InFlight, Upload, Removal, Locals
  <2>3. QED
    BY <1>19, <2>1, <2>2, HandlersFrame DEF DownloadFetch, TypeOK
<1>20. CASE HistoryRead(r)
  <2>1. TypeOK'
    BY <1>20, <1>0 DEF HistoryRead, TypeOK, HandlerOK, Awaits, Answered
  <2>2. HandlerOK(r)'
    BY <1>20, <1>0 DEF HistoryRead, TypeOK, HandlerOK, Awaits, Answered, InFlight, Upload, Removal, Locals
  <2>3. QED
    BY <1>20, <2>1, <2>2, HandlersFrame DEF HistoryRead, TypeOK
<1>21. QED
    BY <1>1, <1>2, <1>3, <1>4, <1>5, <1>6, <1>7, <1>8, <1>9, <1>10, <1>11, <1>12, <1>13, <1>14, <1>15, <1>16, <1>17, <1>18, <1>19, <1>20 DEF Continue

\* Where a handler stands when its first await is over.
Entry(r, call, label, locals) ==
    /\ call.op = "create" => call.target = r
    /\ \/ label = "refused"
       \/ label = "store" /\ call.op \in Upload
       \/ label = "loadFile" /\ call.op = "delete" /\ locals.file \in FileRow
       \/ label = "listVersions" /\ call.op = "purge" /\ locals.file \in FileRow
       \/ label = "fetch" /\ call.op = "download"
       \/ label = "listHistory" /\ call.op = "history"
       \/ label = "loadUser" /\ call.op = "login"

LEMMA EntryTypeInv ==
    ASSUME TypeInv, NEW r \in Request, NEW call \in Call, NEW label, NEW locals \in Locals,
           Entry(r, call, label, locals),
           args' = [args EXCEPT ![r] = call], Goto(r, label), Learn(r, locals),
           UNCHANGED <<used, files, versions, blobs>>
    PROVE  TypeInv'
<1>1. label \in Awaits \cup Answered
    BY DEF Entry, Awaits, Answered
<1>2. TypeOK'
    BY <1>1 DEF TypeInv, TypeOK, Goto, Learn
<1>3. pc'[r] = label /\ args'[r] = call /\ seen'[r] = locals
    BY DEF TypeInv, TypeOK, Goto, Learn
<1>4. HandlerOK(r)'
    BY <1>3 DEF HandlerOK, Entry, InFlight, Awaits, Upload, Removal
<1>5. QED
    BY <1>2, <1>4, HandlersFrame DEF TypeInv, TypeOK, Goto, Learn

LEMMA BeginTypeInv ==
    ASSUME TypeInv, NEW r \in Request, Begin(r)
    PROVE  TypeInv'
<1> DEFINE Asks(op, user, target, size, verdict) ==
               [op |-> op, user |-> user, target |-> target, size |-> size,
                verdict |-> verdict]
<1>1. CASE UploadBegin(r)
  <2>1. PICK op \in Upload, user \in User, size \in Size, verdict \in Verdict,
             target \in Request :
             /\ op = "create" => target = r
             /\ Arrive(r, op, user, target, size, verdict)
             /\ \/ /\ Goto(r, "store")
                   /\ Learn(r, [NoLocals EXCEPT !.used = used[user]])
                \/ Answer(r, "refused")
             /\ UNCHANGED <<used, files, versions, blobs>>
    BY <1>1 DEF UploadBegin, Target
  <2> DEFINE call == Asks(op, user, target, size, verdict)
  <2>2. call \in Call /\ args' = [args EXCEPT ![r] = call]
    BY <2>1, StoreAssumption DEF Arrive, Call
  <2>3. CASE Goto(r, "store") /\ Learn(r, [NoLocals EXCEPT !.used = used[user]])
    <3>1. [NoLocals EXCEPT !.used = used[user]] \in Locals
      BY NoLocalsType DEF TypeInv, TypeOK, Locals
    <3>2. Entry(r, call, "store", [NoLocals EXCEPT !.used = used[user]])
      BY <2>1 DEF Entry
    <3>3. QED
      BY <2>1, <2>2, <2>3, <3>1, <3>2, EntryTypeInv
  <2>4. CASE Answer(r, "refused")
    <3>1. Entry(r, call, "refused", NoLocals)
      BY <2>1 DEF Entry
    <3>2. QED
      BY <2>1, <2>2, <2>4, <3>1, EntryTypeInv, NoLocalsType DEF Answer
  <2>5. QED
    BY <2>1, <2>3, <2>4
<1>2. CASE RemovalBegin(r)
  <2>1. PICK op \in Removal, user \in User, target \in Request :
             /\ Arrive(r, op, user, target, 0, "skipped")
             /\ \/ /\ files[target] # Nothing
                   /\ op = "delete"
                   /\ Goto(r, "loadFile")
                   /\ Learn(r, [NoLocals EXCEPT !.file = SoftDeleted(files[target])])
                \/ /\ files[target] # Nothing
                   /\ op = "purge"
                   /\ Goto(r, "listVersions")
                   /\ Learn(r, [NoLocals EXCEPT !.file = files[target]])
                \/ Answer(r, "refused")
             /\ UNCHANGED <<used, files, versions, blobs>>
    BY <1>2 DEF RemovalBegin, Removal, Target
  <2> DEFINE call == Asks(op, user, target, 0, "skipped")
  <2>2. call \in Call /\ args' = [args EXCEPT ![r] = call]
    BY <2>1 DEF Arrive, Call
  <2>3. ASSUME NEW file \in FileRow
        PROVE  /\ [NoLocals EXCEPT !.file = file] \in Locals
               /\ [NoLocals EXCEPT !.file = file].file = file
    BY DEF Locals, NoLocals
  <2>4. CASE /\ files[target] # Nothing /\ op = "delete" /\ Goto(r, "loadFile")
             /\ Learn(r, [NoLocals EXCEPT !.file = SoftDeleted(files[target])])
    <3>1. SoftDeleted(files[target]) \in FileRow
      BY <2>4, SoftDeletedType DEF TypeInv, TypeOK
    <3>2. Entry(r, call, "loadFile", [NoLocals EXCEPT !.file = SoftDeleted(files[target])])
      BY <2>3, <2>4, <3>1 DEF Entry
    <3>3. QED
      BY <2>1, <2>2, <2>3, <2>4, <3>1, <3>2, EntryTypeInv
  <2>5. CASE /\ files[target] # Nothing /\ op = "purge" /\ Goto(r, "listVersions")
             /\ Learn(r, [NoLocals EXCEPT !.file = files[target]])
    <3>1. files[target] \in FileRow
      BY <2>5 DEF TypeInv, TypeOK
    <3>2. Entry(r, call, "listVersions", [NoLocals EXCEPT !.file = files[target]])
      BY <2>3, <2>5, <3>1 DEF Entry
    <3>3. QED
      BY <2>1, <2>2, <2>3, <2>5, <3>1, <3>2, EntryTypeInv
  <2>6. CASE Answer(r, "refused")
    <3>1. Entry(r, call, "refused", NoLocals)
      BY <2>1 DEF Entry, Removal
    <3>2. QED
      BY <2>1, <2>2, <2>6, <3>1, EntryTypeInv, NoLocalsType DEF Answer
  <2>7. QED
    BY <2>1, <2>4, <2>5, <2>6
<1>3. CASE DownloadBegin(r)
  <2>1. PICK user \in User, target \in Request, label \in {"fetch", "refused"} :
             /\ Arrive(r, "download", user, target, 0, "skipped")
             /\ Goto(r, label) /\ Learn(r, NoLocals)
             /\ UNCHANGED <<used, files, versions, blobs>>
    BY <1>3 DEF DownloadBegin, Target, Answer
  <2> DEFINE call == Asks("download", user, target, 0, "skipped")
  <2>2. call \in Call /\ args' = [args EXCEPT ![r] = call]
    BY <2>1 DEF Arrive, Call
  <2>3. Entry(r, call, label, NoLocals)
    BY DEF Entry
  <2>4. QED
    BY <2>1, <2>2, <2>3, EntryTypeInv, NoLocalsType
<1>4. CASE LoginBegin(r)
  <2>1. PICK user \in User :
             /\ Arrive(r, "login", user, r, 0, "skipped")
             /\ Goto(r, "loadUser")
             /\ Learn(r, [NoLocals EXCEPT !.used = used[user]])
             /\ UNCHANGED <<used, files, versions, blobs>>
    BY <1>4 DEF LoginBegin
  <2> DEFINE call == Asks("login", user, r, 0, "skipped")
  <2>2. call \in Call /\ args' = [args EXCEPT ![r] = call]
    BY <2>1 DEF Arrive, Call
  <2>3. [NoLocals EXCEPT !.used = used[user]] \in Locals
    BY NoLocalsType DEF TypeInv, TypeOK, Locals
  <2>4. Entry(r, call, "loadUser", [NoLocals EXCEPT !.used = used[user]])
    BY DEF Entry
  <2>5. QED
    BY <2>1, <2>2, <2>3, <2>4, EntryTypeInv
<1>5. CASE HistoryBegin(r)
  <2>1. PICK user \in User, target \in Request, label \in {"listHistory", "refused"} :
             /\ Arrive(r, "history", user, target, 0, "skipped")
             /\ Goto(r, label) /\ Learn(r, NoLocals)
             /\ UNCHANGED <<used, files, versions, blobs>>
    BY <1>5 DEF HistoryBegin, Target, Answer
  <2> DEFINE call == Asks("history", user, target, 0, "skipped")
  <2>2. call \in Call /\ args' = [args EXCEPT ![r] = call]
    BY <2>1 DEF Arrive, Call
  <2>3. Entry(r, call, label, NoLocals)
    BY DEF Entry
  <2>4. QED
    BY <2>1, <2>2, <2>3, EntryTypeInv, NoLocalsType
<1>6. QED
    BY <1>1, <1>2, <1>3, <1>4, <1>5 DEF Begin

LEMMA AbortTypeInv ==
    ASSUME TypeInv, NEW r \in Request, Abort(r)
    PROVE  TypeInv'
<1> USE NoLocalsType DEF TypeInv
<1>1. TypeOK'
    BY DEF Abort, Answer, Goto, Learn, TypeOK, Answered
<1>2. HandlerOK(r)'
    BY DEF Abort, Answer, Goto, Learn, TypeOK, ControlOK, HandlerOK, InFlight, Awaits
<1>3. QED
    BY <1>1, <1>2, HandlersFrame DEF Abort, Answer, Goto, Learn, TypeOK

LEMMA StutterTypeInv == TypeInv /\ UNCHANGED vars => TypeInv'
BY DEF TypeInv, TypeOK, ControlOK, HandlerOK, InFlight, vars

LEMMA NextTypeInv == TypeInv /\ [Next]_vars => TypeInv'
<1> SUFFICES ASSUME TypeInv, [Next]_vars
             PROVE  TypeInv'
    OBVIOUS
<1>1. ASSUME NEW r \in Request, Begin(r) \/ Continue(r) \/ Abort(r)
      PROVE  TypeInv'
    BY <1>1, BeginTypeInv, ContinueTypeInv, AbortTypeInv
<1>2. CASE Idle \/ UNCHANGED vars
    BY <1>2, StutterTypeInv DEF Idle
<1>3. QED
    BY <1>1, <1>2 DEF Next

\* The tables, the blob store and every handler's locals keep their shapes under
\* every interleaving of the awaited calls, rejections and crashes included.
THEOREM TypeCorrect == Spec => []TypeOK
<1>1. TypeInv => TypeOK
    BY DEF TypeInv
<1>2. QED
    BY InitTypeInv, NextTypeInv, <1>1, PTL DEF Spec

-----------------------------------------------------------------------------
(* The recorded usage.  An open upload read a usage that left room for it, *)
(* and whatever else a handler remembers of a users row was within the     *)
(* limit when it read it.                                                  *)

Need(r) == IF args[r].op \in Upload THEN args[r].size ELSE 0

RoomOK(r) == InFlight(r) => seen[r].used + Need(r) <= Limit

UsageInv ==
    /\ TypeInv
    /\ RecordedUsageWithinLimit
    /\ \A r \in Request : RoomOK(r)

LEMMA InitUsageInv == Init => UsageInv
BY InitTypeInv, StoreAssumption
   DEF UsageInv, Init, RecordedUsageWithinLimit, RoomOK, InFlight, Awaits

\* A step of r leaves the room of the other handlers alone.
LEMMA RoomFrame ==
    ASSUME UsageInv, NEW r \in Request, TypeInv', RecordedUsageWithinLimit', RoomOK(r)',
           \A q \in Request \ {r} :
               pc'[q] = pc[q] /\ args'[q] = args[q] /\ seen'[q] = seen[q]
    PROVE  UsageInv'
BY DEF UsageInv, RoomOK, Need, InFlight

\* A step that neither writes the users row nor reads it keeps the room there was.
LEMMA RoomKept ==
    ASSUME UsageInv, NEW r \in Request, TypeInv', UNCHANGED <<used, args>>,
           InFlight(r)' => InFlight(r) /\ seen'[r].used = seen[r].used,
           \A q \in Request \ {r} : pc'[q] = pc[q] /\ seen'[q] = seen[q]
    PROVE  UsageInv'
<1>1. RecordedUsageWithinLimit'
    BY DEF UsageInv, RecordedUsageWithinLimit
<1>2. RoomOK(r)'
    BY DEF UsageInv, RoomOK, Need
<1>3. QED
    BY <1>1, <1>2, RoomFrame

LEMMA ContinueUsageInv ==
    ASSUME UsageInv, NEW r \in Request, Continue(r)
    PROVE  UsageInv'
<1>1. TypeInv'
    BY ContinueTypeInv DEF UsageInv
<1>2. TypeInv /\ TypeOK /\ HandlerOK(r) /\ RecordedUsageWithinLimit /\ RoomOK(r)
    BY DEF UsageInv, TypeInv, ControlOK
<1>3. CASE WriteUser(r)
  <2>1. /\ args[r] \in Call /\ seen[r] \in Locals /\ InFlight(r)
        /\ args[r].op \in Removal => seen[r].file \in FileRow
    BY <1>2, <1>3 DEF WriteUser, TypeOK, HandlerOK, InFlight, Awaits
  <2>2. UsageToWrite(r) <= Limit
    BY <1>2, <2>1, StoreAssumption DEF UsageToWrite, DecrementStorage, RoomOK, Need,
       Locals, Call, FileRow, Upload, Removal
  <2>3. RecordedUsageWithinLimit'
    BY <1>2, <1>3, <2>2 DEF WriteUser, RecordedUsageWithinLimit, TypeOK
  <2>4. RoomOK(r)'
    BY <1>2, <1>3 DEF WriteUser, Answer, Goto, TypeOK, RoomOK, Need, InFlight, Awaits
  <2>5. QED
    BY <1>1, <1>2, <1>3, <2>3, <2>4, RoomFrame
       DEF WriteUser, Answer, Goto, Learn, TypeOK
<1>4. CASE FindOwner(r)
  <2>1. args[r] \in Call /\ seen[r] \in Locals /\ seen[r].file \in FileRow
        /\ args[r].op \in Removal
    BY <1>2, <1>4 DEF FindOwner, TypeOK, HandlerOK, InFlight, Awaits
  <2>2. Account(r) \in User /\ seen'[r].used = used[Account(r)]
    BY <1>2, <1>4, <2>1 DEF FindOwner, Learn, Account, FileRow, TypeOK, Locals
  <2>3. RoomOK(r)'
    BY <1>2, <1>4, <2>1, <2>2 DEF FindOwner, RecordedUsageWithinLimit, RoomOK, Need, TypeOK,
       Upload, Removal
  <2>4. QED
    BY <1>1, <1>2, <1>4, <2>3, RoomFrame
       DEF FindOwner, Goto, Learn, TypeOK, RecordedUsageWithinLimit
<1>5. CASE UploadInfected(r)
    BY <1>1, <1>2, <1>5, RoomKept
       DEF UploadInfected, Answer, Goto, Learn, TypeOK, InFlight, Awaits, Answered
<1>6. CASE UploadStore(r)
    BY <1>1, <1>2, <1>6, RoomKept
       DEF UploadStore, Answer, Goto, Learn, TypeOK, InFlight, Awaits, Answered
<1>7. CASE UploadInsertFile(r)
    BY <1>1, <1>2, <1>7, RoomKept
       DEF UploadInsertFile, Answer, Goto, Learn, TypeOK, InFlight, Awaits, Answered
<1>8. CASE UploadInsertFirstVersion(r)
    BY <1>1, <1>2, <1>8, RoomKept
       DEF UploadInsertFirstVersion, Answer, Goto, Learn, TypeOK, InFlight, Awaits, Answered, InsertVersion
<1>9. CASE UploadFindFile(r)
    BY <1>1, <1>2, <1>9, RoomKept
       DEF UploadFindFile, Answer, Goto, Learn, TypeOK, InFlight, Awaits, Answered, Locals
<1>10. CASE UploadInsertVersion(r)
    BY <1>1, <1>2, <1>10, RoomKept
       DEF UploadInsertVersion, Answer, Goto, Learn, TypeOK, InFlight, Awaits, Answered, InsertVersion, Locals
<1>11. CASE LoadFile(r)
    BY <1>1, <1>2, <1>11, RoomKept
       DEF LoadFile, Answer, Goto, Learn, TypeOK, InFlight, Awaits, Answered, Locals
<1>12. CASE UpdateFile(r)
    BY <1>1, <1>2, <1>12, RoomKept
       DEF UpdateFile, Answer, Goto, Learn, TypeOK, InFlight, Awaits, Answered
<1>13. CASE ReinsertFile(r)
    BY <1>1, <1>2, <1>13, RoomKept
       DEF ReinsertFile, Answer, Goto, Learn, TypeOK, InFlight, Awaits, Answered
<1>14. CASE LoadUser(r)
    BY <1>1, <1>2, <1>14, RoomKept
       DEF LoadUser, Answer, Goto, Learn, TypeOK, InFlight, Awaits, Answered, Locals
<1>15. CASE Uncache(r)
    BY <1>1, <1>2, <1>15, RoomKept
       DEF Uncache, Answer, Goto, Learn, TypeOK, InFlight, Awaits, Answered
<1>16. CASE PurgeListVersions(r)
    BY <1>1, <1>2, <1>16, RoomKept
       DEF PurgeListVersions, Answer, Goto, Learn, TypeOK, InFlight, Awaits, Answered, Locals
<1>17. CASE PurgeBlob(r)
    BY <1>1, <1>2, <1>17, RoomKept
       DEF PurgeBlob, Answer, Goto, Learn, TypeOK, InFlight, Awaits, Answered, Locals
<1>18. CASE PurgeBlobsEnd(r)
    BY <1>1, <1>2, <1>18, RoomKept
       DEF PurgeBlobsEnd, Answer, Goto, Learn, TypeOK, InFlight, Awaits, Answered
<1>19. CASE PurgeVersions(r)
    BY <1>1, <1>2, <1>19, RoomKept
       DEF PurgeVersions, Answer, Goto, Learn, TypeOK, InFlight, Awaits, Answered
<1>20. CASE PurgeFile(r)
    BY <1>1, <1>2, <1>20, RoomKept
       DEF PurgeFile, Answer, Goto, Learn, TypeOK, InFlight, Awaits, Answered
<1>21. CASE DownloadFetch(r)
    BY <1>1, <1>2, <1>21, RoomKept
       DEF DownloadFetch, Answer, Goto, Learn, TypeOK, InFlight, Awaits, Answered
<1>22. CASE HistoryRead(r)
    BY <1>1, <1>2, <1>22, RoomKept
       DEF HistoryRead, Answer, Goto, Learn, TypeOK, InFlight, Awaits, Answered
<1>23. QED
    BY <1>3, <1>4, <1>5, <1>6, <1>7, <1>8, <1>9, <1>10, <1>11, <1>12, <1>13, <1>14, <1>15, <1>16, <1>17, <1>18, <1>19, <1>20, <1>21, <1>22 DEF Continue

LEMMA BeginUsageInv ==
    ASSUME UsageInv, NEW r \in Request, Begin(r)
    PROVE  UsageInv'
<1>1. TypeInv'
    BY BeginTypeInv DEF UsageInv
<1>2. TypeInv /\ TypeOK /\ RecordedUsageWithinLimit
    BY DEF UsageInv, TypeInv
<1>3. /\ used' = used
      /\ \A q \in Request \ {r} :
             pc'[q] = pc[q] /\ args'[q] = args[q] /\ seen'[q] = seen[q]
  <2>1. CASE UploadBegin(r)
    BY <1>2, <2>1 DEF UploadBegin, Arrive, Goto, Learn, Answer, TypeOK
  <2>2. CASE RemovalBegin(r)
    BY <1>2, <2>2 DEF RemovalBegin, Arrive, Goto, Learn, Answer, TypeOK
  <2>3. CASE DownloadBegin(r)
    BY <1>2, <2>3 DEF DownloadBegin, Arrive, Goto, Learn, Answer, TypeOK
  <2>4. CASE LoginBegin(r)
    BY <1>2, <2>4 DEF LoginBegin, Arrive, Goto, Learn, TypeOK
  <2>5. CASE HistoryBegin(r)
    BY <1>2, <2>5 DEF HistoryBegin, Arrive, Goto, Learn, Answer, TypeOK
  <2>6. QED
    BY <2>1, <2>2, <2>3, <2>4, <2>5 DEF Begin
<1>4. RecordedUsageWithinLimit'
    BY <1>2, <1>3 DEF RecordedUsageWithinLimit
<1>5. CASE UploadBegin(r)
  <2>1. PICK op \in Upload, user \in User, size \in Size :
             /\ args'[r].op = op /\ args'[r].size = size
             /\ \/ /\ used[user] + size <= Limit
                   /\ seen'[r].used = used[user]
                \/ pc'[r] = "refused"
    BY <1>2, <1>5 DEF UploadBegin, HasStorageAvailable, Arrive, Goto, Learn, Answer, TypeOK,
       NoLocals
  <2>2. RoomOK(r)'
    BY <2>1 DEF RoomOK, Need, InFlight, Awaits
  <2>3. QED
    BY <1>1, <1>3, <1>4, <2>2, RoomFrame
<1>6. CASE RemovalBegin(r) \/ DownloadBegin(r) \/ HistoryBegin(r) \/ LoginBegin(r)
  <2>1. args'[r].op \notin Upload
    <3>1. CASE RemovalBegin(r)
      BY <1>2, <3>1 DEF RemovalBegin, Arrive, TypeOK, Upload, Removal
    <3>2. CASE DownloadBegin(r)
      BY <1>2, <3>2 DEF DownloadBegin, Arrive, TypeOK, Upload
    <3>3. CASE LoginBegin(r)
      BY <1>2, <3>3 DEF LoginBegin, Arrive, TypeOK, Upload
    <3>4. CASE HistoryBegin(r)
      BY <1>2, <3>4 DEF HistoryBegin, Arrive, TypeOK, Upload
    <3>5. QED
      BY <1>6, <3>1, <3>2, <3>3, <3>4
  <2>2. seen'[r].used = 0 \/ \E user \in User : seen'[r].used = used[user]
    BY <1>2, <1>6 DEF RemovalBegin, DownloadBegin, HistoryBegin, LoginBegin, Goto, Learn, Answer, TypeOK,
       NoLocals
  <2>3. seen'[r].used <= Limit /\ seen'[r].used \in Nat
    BY <1>2, <2>2, StoreAssumption DEF RecordedUsageWithinLimit, TypeOK
  <2>4. RoomOK(r)'
    BY <2>1, <2>3 DEF RoomOK, Need
  <2>5. QED
    BY <1>1, <1>3, <1>4, <2>4, RoomFrame
<1>7. QED
    BY <1>5, <1>6 DEF Begin

LEMMA NextUsageInv == UsageInv /\ [Next]_vars => UsageInv'
<1> SUFFICES ASSUME UsageInv, [Next]_vars
             PROVE  UsageInv'
    OBVIOUS
<1>1. ASSUME NEW r \in Request, Abort(r)
      PROVE  UsageInv'
    BY <1>1, AbortTypeInv, RoomKept
       DEF Abort, Answer, Goto, Learn, UsageInv, TypeInv, TypeOK, InFlight, Awaits
<1>2. CASE Idle \/ UNCHANGED vars
    BY <1>2, StutterTypeInv
       DEF Idle, vars, UsageInv, RecordedUsageWithinLimit, RoomOK, Need, InFlight
<1>3. QED
    BY <1>1, <1>2, BeginUsageInv, ContinueUsageInv DEF Next

\* However uploads, deletes and logins overwrite each other's writes of the users
\* row, and whatever fails in between, no account's storageUsedBytes is ever
\* recorded above storageLimitBytes.
THEOREM UsageStaysWithinLimit == Spec => []RecordedUsageWithinLimit
<1>1. UsageInv => RecordedUsageWithinLimit
    BY DEF UsageInv
<1>2. QED
    BY InitUsageInv, NextUsageInv, <1>1, PTL DEF Spec
=============================================================================
