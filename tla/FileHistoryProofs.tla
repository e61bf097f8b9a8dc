------------------------- MODULE FileHistoryProofs -------------------------
(***************************************************************************)
(* What FileStore's tables and blob store keep of every file that no admin *)
(* purges, and what a purge leaves, proved for every instance and every    *)
(* interleaving.                                                           *)
(***************************************************************************)
EXTENDS FileStoreProofs

\* The files that an admin has begun to purge.
Purged == {f \in Request : PurgeBegun(f)}

\* A file row whose history is borne out by the version rows vs.
Borne(vs, f, row) ==
    /\ \A n \in 2 .. row.versionCount :
          \E v \in Request :
              vs[v] # Nothing /\ vs[v].fileId = f /\ vs[v].versionNumber = n
    /\ row.currentVersionId # Nothing =>
          /\ row.currentVersionId \in Request
          /\ vs[row.currentVersionId] # Nothing
          /\ vs[row.currentVersionId].fileId = f

FileOK(f) == files[f] # Nothing /\ f \notin Purged => Borne(versions, f, files[f])

\* The awaits before a request has stored its file row, its version row.
BeforeFile == {"idle", "store", "insertFile"}
BeforeVersion == BeforeFile \cup {"insertFirstVersion", "findFile", "insertVersion"}

\* The files that were created, some of which may have gone since.
Created == {f \in Request : pc[f] \notin BeforeFile /\ args[f].op = "create"}

\* Rows and the requests that made them.
LinkOK(r) ==
    /\ versions[r] # Nothing =>
          /\ pc[r] \notin BeforeVersion
          /\ args[r].op \in Upload
          /\ versions[r].fileId = args[r].target
    /\ files[r] # Nothing => r \in Created
    /\ pc[r] \in {"insertVersion", "loadFile", "writeFile", "fetch", "listHistory"} =>
          args[r].target \in Created
    /\ \A v \in seen[r].todo : pc[v] # "idle" /\ args[v].target \in Purged

\* The upload r has its version row.
Stored(r) ==
    \/ pc[r] \in {"loadUser", "writeUser", "uncache", "done"} /\ args[r].op \in Upload
    \/ pc[r] \in {"loadFile", "writeFile"} /\ args[r].op = "revise"

\* What the stores hold on behalf of r.
Kept(r) ==
    /\ \/ versions[r] # Nothing
       \/ files[r] # Nothing
       \/ pc[r] \in {"insertFile", "insertFirstVersion", "findFile", "insertVersion"}
       => r \in blobs
    /\ \/ pc[r] \in {"insertFirstVersion", "insertVersion", "loadFile", "writeFile",
                     "fetch"}
       \/ Stored(r)
       => files[args[r].target] # Nothing
    /\ Stored(r) => versions[r] # Nothing
    /\ pc[r] \in {"insertVersion", "loadFile", "writeFile"} =>
          Borne(versions, args[r].target, seen[r].file)
    /\ pc[r] # "missing"

KeptOK(r) == pc[r] # "idle" /\ args[r].target \notin Purged => Kept(r)

HistoryInv ==
    /\ TypeInv
    /\ \A r \in Request : LinkOK(r) /\ KeptOK(r)
    /\ \A f \in Request : FileOK(f)

-----------------------------------------------------------------------------
(* What a step of r does to the handlers and to the stores. *)

Moves(r) ==
    /\ \A q \in Request \ {r} :
           pc'[q] = pc[q] /\ args'[q] = args[q] /\ seen'[q] = seen[q]
    /\ pc[r] = "idle" \/ InFlight(r)
    /\ pc'[r] # "idle"
    /\ pc[r] # "idle" => args'[r] = args[r]
    /\ pc[r] \notin BeforeFile => pc'[r] \notin BeforeFile
    /\ pc[r] \notin BeforeVersion => pc'[r] \notin BeforeVersion
    /\ InFlight(r) /\ args[r].op = "purge" => pc'[r] # "refused"

\* Only files whose purge has begun lose rows or content.
Keeps(r) ==
    /\ \A q \in Request \ {r} : versions'[q] \in {versions[q], Nothing}
    /\ \A q \in Request \ {r} :
           files'[q] # Nothing =>
               files[q] # Nothing \/ (q \in Purged' /\ q \in Created)
    /\ \A f \in Request : f \notin Purged' =>
           /\ files[f] # Nothing => files'[f] # Nothing
           /\ files'[f] \in {files[f], Nothing} \/ Borne(versions', f, files'[f])
           /\ \A v \in Request :
                  versions[v] # Nothing /\ versions[v].fileId = f => versions'[v] = versions[v]
           /\ \A v \in blobs : pc[v] # "idle" /\ args[v].target = f => v \in blobs'

LEMMA BorneKept ==
    ASSUME NEW vs, NEW ws, NEW f \in Request, NEW row, Borne(vs, f, row),
           \A v \in Request : vs[v] # Nothing /\ vs[v].fileId = f => ws[v] = vs[v]
    PROVE  Borne(ws, f, row)
BY DEF Borne

\* A purge that has begun stays begun.
LEMMA PurgeStaysBegun ==
    ASSUME NEW r \in Request, Moves(r)
    PROVE  Purged \subseteq Purged'
<1> SUFFICES ASSUME NEW f \in Purged
             PROVE  f \in Purged'
    OBVIOUS
<1>1. PICK q \in Request : /\ pc[q] \notin {"idle", "refused"}
                           /\ args[q].op = "purge" /\ args[q].target = f
    BY DEF Purged, PurgeBegun
<1>2. /\ pc'[q] \notin {"idle", "refused"}
      /\ args'[q].op = "purge" /\ args'[q].target = f
    BY <1>1 DEF Moves
<1>3. QED
    BY <1>2 DEF Purged, PurgeBegun

\* A handler at work on a purge makes its file one whose purge has begun.
LEMMA PurgerBegun ==
    ASSUME TypeInv, NEW r \in Request,
           pc[r] \in {"listVersions", "deleteBlobs", "deleteVersions", "deleteFile"}
    PROVE  args[r].target \in Request /\ args[r].target \in Purged
BY DEF TypeInv, ControlOK, HandlerOK, Purged, PurgeBegun, Call

LEMMA StaysCreated ==
    ASSUME NEW r \in Request, Moves(r)
    PROVE  Created \subseteq Created'
BY DEF Moves, Created, BeforeFile

LEMMA OthersKept ==
    ASSUME HistoryInv, NEW r \in Request, Moves(r), Keeps(r),
           NEW q \in Request \ {r}
    PROVE  LinkOK(q)' /\ KeptOK(q)'
<1>0. pc'[q] = pc[q] /\ args'[q] = args[q] /\ seen'[q] = seen[q]
    BY DEF Moves
<1>1. LinkOK(q) /\ KeptOK(q) /\ HandlerOK(q) /\ TypeOK
    BY DEF HistoryInv, TypeInv, ControlOK
<1>2. ASSUME NEW v \in Request, pc[v] # "idle"
      PROVE  pc'[v] # "idle" /\ args'[v] = args[v]
    BY <1>2 DEF Moves
<1>3. pc[q] # "idle" => args[q] \in Call /\ args[q].target \in Request
    BY <1>1 DEF HandlerOK, Call
<1>4. seen[q].todo \subseteq Request
    BY <1>1 DEF TypeOK, Locals
<1>5. LinkOK(q)'
  <2>1. versions'[q] # Nothing => versions'[q] = versions[q]
    BY DEF Keeps
  <2>2. files'[q] # Nothing => q \in Created
    BY <1>1 DEF Keeps, LinkOK
  <2>3. pc[q] \in {"insertVersion", "loadFile", "writeFile", "fetch", "listHistory"} =>
            args[q].target \in Created'
    BY <1>0, <1>1, <1>3, StaysCreated DEF LinkOK
  <2>4. ASSUME NEW v \in seen[q].todo
        PROVE  pc'[v] # "idle" /\ args[v].target \in Purged' /\ args'[v] = args[v]
    <3>1. v \in Request /\ pc[v] # "idle" /\ args[v].target \in Purged
      BY <1>1, <1>4 DEF LinkOK
    <3>2. args[v].target \in Request
      BY <3>1 DEF HistoryInv, TypeInv, ControlOK, HandlerOK, Call
    <3>3. QED
      BY <1>2, <3>1, <3>2, PurgeStaysBegun
  <2>5. QED
    BY <1>0, <1>1, <2>1, <2>2, <2>3, <2>4 DEF LinkOK, Created
<1>6. KeptOK(q)'
  <2> SUFFICES ASSUME pc[q] # "idle", args[q].target \notin Purged'
               PROVE  Kept(q)'
    BY <1>0 DEF KeptOK
  <2> DEFINE f == args[q].target
  <2>1. f \in Request /\ f \notin Purged
    BY <1>3, PurgeStaysBegun
  <2>2. Kept(q)
    BY <1>1, <2>1 DEF KeptOK
  <2>3. /\ files[f] # Nothing => files'[f] # Nothing
        /\ \A v \in Request :
               versions[v] # Nothing /\ versions[v].fileId = f => versions'[v] = versions[v]
        /\ q \in blobs => q \in blobs'
    BY <2>1 DEF Keeps
  <2>4. /\ versions'[q] # Nothing => versions[q] # Nothing
        /\ versions[q] # Nothing => versions'[q] # Nothing
    BY <1>1, <2>3 DEF Keeps, LinkOK
  <2>5. files'[q] # Nothing => files[q] # Nothing
    <3>1. args[q].op = "create" => f = q
      BY <1>1 DEF HandlerOK
    <3>2. QED
      BY <2>1, <3>1 DEF Keeps, Created
  <2>6. Borne(versions, f, seen[q].file) => Borne(versions', f, seen[q].file)
    BY <2>1, <2>3, BorneKept
  <2>7. Stored(q)' <=> Stored(q)
    BY <1>0 DEF Stored
  <2>8. QED
    BY <1>0, <2>2, <2>3, <2>4, <2>5, <2>6, <2>7 DEF Kept
<1>7. QED
    BY <1>5, <1>6

\* It is enough to look at the handler that moves.
LEMMA HistoryFrame ==
    ASSUME HistoryInv, NEW r \in Request, TypeInv', Moves(r), Keeps(r),
           LinkOK(r)', KeptOK(r)'
    PROVE  HistoryInv'
<1>1. ASSUME NEW f \in Request
      PROVE  FileOK(f)'
  <2> SUFFICES ASSUME files'[f] # Nothing, f \notin Purged'
               PROVE  Borne(versions', f, files'[f])
    BY DEF FileOK
  <2>1. CASE files'[f] = files[f]
    <3>1. Borne(versions, f, files[f])
      BY <2>1, PurgeStaysBegun DEF HistoryInv, FileOK
    <3>2. QED
      BY <2>1, <3>1, BorneKept DEF Keeps
  <2>2. CASE files'[f] # files[f]
    BY <2>2 DEF Keeps
  <2>3. QED
    BY <2>1, <2>2
<1>2. QED
    BY <1>1, OthersKept DEF HistoryInv

\* A step that changes no row and no content keeps everything.
LEMMA StoresUntouched ==
    ASSUME NEW r \in Request, UNCHANGED <<files, versions, blobs>>
    PROVE  Keeps(r)
BY DEF Keeps

\* What the handler of r itself listed to purge is still to be purged.
LEMMA TodoKept ==
    ASSUME HistoryInv, NEW r \in Request, Moves(r), seen'[r].todo \subseteq seen[r].todo
    PROVE  \A v \in seen'[r].todo : pc'[v] # "idle" /\ args'[v].target \in Purged'
BY PurgeStaysBegun DEF HistoryInv, TypeInv, TypeOK, LinkOK, Locals, Moves

\* A handler keeps its links when it makes no row, lists no version and comes
\* to no await at which another's file matters.
LEMMA LinkKept ==
    ASSUME HistoryInv, NEW r \in Request, Moves(r), pc[r] # "idle",
           versions'[r] \in {versions[r], Nothing},
           files'[r] \in {files[r], Nothing},
           \/ pc'[r] \notin {"insertVersion", "loadFile", "writeFile", "fetch", "listHistory"}
           \/ pc[r] \in {"insertVersion", "loadFile", "writeFile", "fetch", "listHistory"},
           seen'[r].todo \subseteq seen[r].todo
    PROVE  LinkOK(r)'
<1>1. LinkOK(r) /\ args'[r] = args[r]
    BY DEF HistoryInv, Moves
<1>2. versions'[r] # Nothing =>
          /\ pc'[r] \notin BeforeVersion
          /\ args'[r].op \in Upload
          /\ versions'[r].fileId = args'[r].target
    BY <1>1 DEF LinkOK, Moves
<1>3. files'[r] # Nothing => r \in Created'
    BY <1>1, StaysCreated DEF LinkOK
<1>4. pc'[r] \in {"insertVersion", "loadFile", "writeFile", "fetch", "listHistory"} =>
          args'[r].target \in Created'
    BY <1>1, StaysCreated DEF LinkOK
<1>5. QED
    BY <1>2, <1>3, <1>4, TodoKept DEF LinkOK

\* The entity of an accepted new version is borne out once its row is stored.
LEMMA RevisedBorne ==
    ASSUME NEW vs, NEW ws, NEW f \in Request, NEW r \in Request, NEW row \in FileRow,
           NEW outcome,
           Borne(vs, f, row), vs[r] = Nothing, ws[r] # Nothing,
           ws[r] = [fileId |-> f, versionNumber |-> row.versionCount + 1],
           \A v \in Request \ {r} : ws[v] = vs[v]
    PROVE  Borne(ws, f, ApplyScanStatus(NewVersionUploaded(row, r), outcome))
<1> DEFINE revised == ApplyScanStatus(NewVersionUploaded(row, r), outcome)
<1>1. revised.versionCount = row.versionCount + 1 /\ revised.currentVersionId = r
    BY DEF FileRow, ApplyScanStatus, NewVersionUploaded
<1>2. ASSUME NEW n \in 2 .. revised.versionCount
      PROVE  \E v \in Request : ws[v] # Nothing /\ ws[v].fileId = f /\ ws[v].versionNumber = n
  <2>1. CASE n = row.versionCount + 1
    BY <2>1
  <2>2. CASE n # row.versionCount + 1
    <3>1. n \in 2 .. row.versionCount
      BY <1>1, <1>2, <2>2 DEF FileRow
    <3>2. QED
      BY <3>1 DEF Borne
  <2>3. QED
    BY <2>1, <2>2
<1>3. QED
    BY <1>1, <1>2 DEF Borne

\* Each column of an updated row comes from a row that was borne out.
LEMMA WrittenBorne ==
    ASSUME NEW vs, NEW f, NEW now \in FileRow, NEW loaded \in FileRow,
           NEW entity \in FileRow,
           Borne(vs, f, now), Borne(vs, f, entity)
    PROVE  Borne(vs, f, Written(now, loaded, entity))
<1>1. /\ Written(now, loaded, entity).versionCount \in {now.versionCount, entity.versionCount}
      /\ Written(now, loaded, entity).currentVersionId
             \in {now.currentVersionId, entity.currentVersionId}
    BY DEF Written, FileRow
<1>2. QED
    BY <1>1 DEF Borne

LEMMA ContinueMoves ==
    ASSUME TypeInv, NEW r \in Request, Continue(r)
    PROVE  Moves(r)
<1> USE DEF Goto, Learn, Answer, Moves, InFlight, Awaits, BeforeFile, BeforeVersion
<1>1. TypeOK /\ HandlerOK(r)
    BY DEF TypeInv, ControlOK
<1>2. CASE UploadInfected(r)
    BY <1>1, <1>2 DEF UploadInfected, TypeOK, HandlerOK, Upload
<1>3. CASE UploadStore(r)
    BY <1>1, <1>3 DEF UploadStore, TypeOK, HandlerOK
<1>4. CASE UploadInsertFile(r)
    BY <1>1, <1>4 DEF UploadInsertFile, TypeOK, HandlerOK
<1>5. CASE UploadInsertFirstVersion(r)
    BY <1>1, <1>5 DEF UploadInsertFirstVersion, TypeOK, HandlerOK, InsertVersion
<1>6. CASE UploadFindFile(r)
    BY <1>1, <1>6 DEF UploadFindFile, TypeOK, HandlerOK
<1>7. CASE UploadInsertVersion(r)
    BY <1>1, <1>7 DEF UploadInsertVersion, TypeOK, HandlerOK, InsertVersion
<1>8. CASE LoadFile(r)
    BY <1>1, <1>8 DEF LoadFile, TypeOK, HandlerOK
<1>9. CASE UpdateFile(r)
    BY <1>1, <1>9 DEF UpdateFile, TypeOK, HandlerOK, AfterWriteFile
<1>10. CASE ReinsertFile(r)
    BY <1>1, <1>10 DEF ReinsertFile, TypeOK, HandlerOK, AfterWriteFile
<1>11. CASE LoadUser(r)
    BY <1>1, <1>11 DEF LoadUser, TypeOK, HandlerOK
<1>12. CASE WriteUser(r)
    BY <1>1, <1>12 DEF WriteUser, TypeOK, HandlerOK
<1>13. CASE Uncache(r)
    BY <1>1, <1>13 DEF Uncache, TypeOK, HandlerOK
<1>14. CASE PurgeListVersions(r)
    BY <1>1, <1>14 DEF PurgeListVersions, TypeOK, HandlerOK
<1>15. CASE PurgeBlob(r)
    BY <1>1, <1>15 DEF PurgeBlob, TypeOK, HandlerOK
<1>16. CASE PurgeBlobsEnd(r)
    BY <1>1, <1>16 DEF PurgeBlobsEnd, TypeOK, HandlerOK
<1>17. CASE PurgeVersions(r)
    BY <1>1, <1>17 DEF PurgeVersions, TypeOK, HandlerOK
<1>18. CASE PurgeFile(r)
    BY <1>1, <1>18 DEF PurgeFile, TypeOK, HandlerOK
<1>19. CASE FindOwner(r)
    BY <1>1, <1>19 DEF FindOwner, TypeOK, HandlerOK
<1>20. CASE DownloadFetch(r)
    BY <1>1, <1>20 DEF DownloadFetch, TypeOK, HandlerOK
<1>21. CASE HistoryRead(r)
    BY <1>1, <1>21 DEF HistoryRead, TypeOK, HandlerOK
<1>22. QED
    BY <1>2, <1>3, <1>4, <1>5, <1>6, <1>7, <1>8, <1>9, <1>10, <1>11, <1>12, <1>13,
       <1>14, <1>15, <1>16, <1>17, <1>18, <1>19, <1>20, <1>21
       DEF Continue

\* A file that exists and is not being purged was created by the request of its
\* name, and its content is there.
LEMMA FileHasContent ==
    ASSUME HistoryInv, NEW f \in Request, files[f] # Nothing, f \notin Purged
    PROVE  f \in blobs
<1>1. LinkOK(f) /\ KeptOK(f) /\ HandlerOK(f)
    BY DEF HistoryInv, TypeInv, ControlOK
<1>2. pc[f] # "idle" /\ args[f].target = f
    BY <1>1 DEF LinkOK, Created, BeforeFile, HandlerOK
<1>3. QED
    BY <1>1, <1>2 DEF KeptOK, Kept

LEMMA ContinueHistoryInv ==
    ASSUME HistoryInv, NEW r \in Request, Continue(r)
    PROVE  HistoryInv'
<1> USE DEF Goto, Learn, Answer
<1> DEFINE f == args[r].target
<1>1. TypeOK /\ HandlerOK(r) /\ LinkOK(r) /\ KeptOK(r) /\ TypeInv
    BY DEF HistoryInv, TypeInv, ControlOK
<1>2. /\ TypeInv' /\ Moves(r)
      /\ Purged \subseteq Purged' /\ Created \subseteq Created'
    BY <1>1, ContinueTypeInv, ContinueMoves, PurgeStaysBegun, StaysCreated
<1>3. pc[r] # "idle" /\ InFlight(r) /\ args'[r] = args[r] /\ f \in Request
      /\ args[r] \in Call
  <2>1. pc[r] # "idle"
    BY DEF Continue, UploadInfected, UploadStore, UploadInsertFile,
           UploadInsertFirstVersion, UploadFindFile, UploadInsertVersion, LoadFile,
           UpdateFile, ReinsertFile, LoadUser, WriteUser, Uncache, PurgeListVersions,
           PurgeBlob, PurgeBlobsEnd, PurgeVersions, PurgeFile, FindOwner, DownloadFetch,
           HistoryRead
  <2>2. QED
    BY <1>1, <1>2, <2>1 DEF Moves, HandlerOK, Call
<1>4. SUFFICES Keeps(r) /\ LinkOK(r)' /\ (f \notin Purged' => Kept(r)')
    BY <1>2, <1>3, HistoryFrame DEF KeptOK
<1>5. f \notin Purged' => Kept(r)
    BY <1>1, <1>2, <1>3 DEF KeptOK
<1>6. CASE UploadInfected(r)
  <2>1. Keeps(r)
    BY <1>6, StoresUntouched DEF UploadInfected
  <2>2. LinkOK(r)'
    BY <1>1, <1>2, <1>3, <1>6, LinkKept DEF UploadInfected, TypeOK, NoLocals, Locals
  <2>3. f \notin Purged' => Kept(r)'
    BY <1>1, <1>3, <1>5, <1>6
       DEF UploadInfected, Upload, Removal, InFlight, Awaits, Locals, Kept, Stored,
           TypeOK, HandlerOK
  <2>4. QED
    BY <2>1, <2>2, <2>3
<1>7. CASE UploadStore(r)
  <2>1. Keeps(r)
    BY <1>7 DEF UploadStore, Keeps
  <2>2. LinkOK(r)'
    BY <1>1, <1>2, <1>3, <1>7, LinkKept DEF UploadStore, TypeOK
  <2>3. f \notin Purged' => Kept(r)'
    BY <1>1, <1>3, <1>5, <1>7
       DEF UploadStore, Upload, InFlight, Kept, Stored, TypeOK, HandlerOK
  <2>4. QED
    BY <2>1, <2>2, <2>3
<1>8. CASE UploadInsertFile(r)
  <2> DEFINE row == CreateFile(args[r].user, args[r].size, args[r].verdict)
  <2>1. /\ f = r /\ files' = [files EXCEPT ![r] = row]
        /\ pc'[r] = "insertFirstVersion" /\ args[r].op = "create"
        /\ UNCHANGED <<versions, blobs, args, seen>>
    BY <1>1, <1>3, <1>8 DEF UploadInsertFile, HandlerOK, TypeOK
  <2>2. row \in FileRow /\ row # Nothing
    BY <1>3, CreateFileType, NothingAssumption DEF Call
  <2>3. Borne(versions, r, row)
    BY DEF Borne, CreateFile, ApplyScanStatus
  <2>4. Keeps(r)
    BY <1>1, <2>1, <2>2, <2>3 DEF Keeps, TypeOK
  <2>5. LinkOK(r)'
    <3>1. versions'[r] = Nothing
      BY <1>1, <1>8, <2>1 DEF UploadInsertFile, LinkOK, BeforeVersion, BeforeFile
    <3>2. r \in Created'
      BY <1>3, <2>1 DEF Created, BeforeFile
    <3>3. QED
      BY <1>2, <2>1, <3>1, <3>2, TodoKept DEF LinkOK
  <2>6. f \notin Purged' => Kept(r)'
    BY <1>1, <1>3, <1>5, <1>8, <2>1, <2>2 DEF Kept, Stored, TypeOK, UploadInsertFile
  <2>7. QED
    BY <2>4, <2>5, <2>6
<1>9. CASE UploadInsertFirstVersion(r)
  <2>1. f = r /\ args[r].op = "create" /\ versions[r] = Nothing
    BY <1>1, <1>3, <1>9 DEF UploadInsertFirstVersion, HandlerOK, LinkOK, BeforeVersion
  <2>2. [fileId |-> r, versionNumber |-> 1] # Nothing
    BY NothingAssumption DEF VersionRow
  <2>3. UNCHANGED <<files, blobs, args>>
    BY <1>9 DEF UploadInsertFirstVersion
  <2>4. \/ /\ versions' = [versions EXCEPT ![r] = [fileId |-> r, versionNumber |-> 1]]
           /\ pc'[r] = "loadUser" /\ seen' = seen
        \/ /\ files[r] = Nothing /\ versions' = versions
           /\ pc'[r] = "failed" /\ seen'[r] = NoLocals
    BY <1>1, <1>9, <2>1 DEF UploadInsertFirstVersion, InsertVersion, TypeOK
  <2>5. Keeps(r)
    BY <1>1, <2>1, <2>3, <2>4 DEF Keeps, TypeOK
  <2>6. LinkOK(r)'
    <3>1. seen'[r].todo \subseteq seen[r].todo
      BY <2>4 DEF NoLocals
    <3>2. pc'[r] \notin BeforeVersion
      BY <2>4 DEF BeforeVersion, BeforeFile
    <3>3. versions'[r] # Nothing => versions'[r].fileId = r
      BY <1>1, <2>1, <2>4 DEF TypeOK
    <3>4. pc'[r] \notin {"insertVersion", "loadFile", "writeFile", "fetch", "listHistory"}
      BY <2>4
    <3>5. QED
      BY <1>1, <1>2, <2>1, <2>3, <3>1, <3>2, <3>3, <3>4, TodoKept DEF LinkOK, Upload
  <2>7. f \notin Purged' => Kept(r)'
    BY <1>1, <1>5, <1>9, <2>1, <2>2, <2>3, <2>4
       DEF Kept, Stored, TypeOK, UploadInsertFirstVersion
  <2>8. QED
    BY <2>5, <2>6, <2>7
<1>10. CASE UploadFindFile(r)
  <2>1. Keeps(r)
    BY <1>10, StoresUntouched DEF UploadFindFile
  <2>2. LinkOK(r)'
    <3>1. CASE pc'[r] = "insertVersion"
      <4>1. files[f] # Nothing
        BY <1>1, <1>10, <3>1 DEF UploadFindFile, TypeOK
      <4>2. f \in Created'
        BY <1>2, <1>3, <4>1 DEF HistoryInv, LinkOK
      <4>3. seen'[r].todo = seen[r].todo
        BY <1>1, <1>10, <3>1 DEF UploadFindFile, TypeOK, Locals
      <4>4. UNCHANGED <<versions, files>> /\ pc[r] \in BeforeVersion
        BY <1>10 DEF UploadFindFile, BeforeVersion
      <4>5. \A v \in seen'[r].todo : pc'[v] # "idle" /\ args'[v].target \in Purged'
        BY <1>2, <4>3, TodoKept
      <4>6. QED
        BY <1>1, <1>2, <1>3, <4>2, <4>4, <4>5 DEF LinkOK
    <3>2. CASE pc'[r] # "insertVersion"
      <4>1. pc'[r] = "refused" /\ seen'[r] = NoLocals
        BY <1>1, <1>10, <3>2 DEF UploadFindFile, TypeOK
      <4>2. QED
        BY <1>2, <1>3, <1>10, <4>1, LinkKept DEF UploadFindFile, NoLocals
    <3>3. QED
      BY <3>1, <3>2
  <2>3. f \notin Purged' => Kept(r)'
    <3> SUFFICES ASSUME f \notin Purged'
                 PROVE  Kept(r)'
      OBVIOUS
    <3>1. CASE files[f] # Nothing /\ MayChange(args[r].user, files[f])
      <4>1. Borne(versions, f, files[f])
        BY <1>2, <1>3, <3>1 DEF HistoryInv, FileOK
      <4>2. pc'[r] = "insertVersion" /\ seen'[r].file = files[f]
        BY <1>1, <1>10, <3>1 DEF UploadFindFile, TypeOK, Locals
      <4>3. QED
        BY <1>1, <1>3, <1>5, <1>10, <3>1, <4>1, <4>2 DEF UploadFindFile, Kept, Stored
    <3>2. CASE ~(files[f] # Nothing /\ MayChange(args[r].user, files[f]))
      <4>1. pc'[r] = "refused"
        BY <1>1, <1>10, <3>2 DEF UploadFindFile, TypeOK
      <4>2. QED
        BY <1>1, <1>3, <1>5, <1>10, <4>1 DEF UploadFindFile, Kept, Stored
    <3>3. QED
      BY <3>1, <3>2
  <2>4. QED
    BY <2>1, <2>2, <2>3
<1>11. CASE UploadInsertVersion(r)
  <2> DEFINE revised == ApplyScanStatus(NewVersionUploaded(seen[r].file, r), args[r].verdict)
             row == [fileId |-> f, versionNumber |-> seen[r].file.versionCount + 1]
  <2>1. /\ args[r].op = "revise" /\ versions[r] = Nothing
        /\ seen[r].file \in FileRow /\ pc[r] = "insertVersion"
    BY <1>1, <1>11 DEF UploadInsertVersion, HandlerOK, LinkOK, BeforeVersion
  <2>2. row # Nothing
    BY <1>3, <2>1, NothingAssumption DEF VersionRow, FileRow
  <2>3. UNCHANGED <<files, blobs, args>>
    BY <1>11 DEF UploadInsertVersion
  <2>4. \/ /\ files[f] # Nothing
           /\ versions' = [versions EXCEPT ![r] = row]
           /\ pc'[r] = "loadFile"
           /\ seen'[r].file = revised /\ seen'[r].todo = seen[r].todo
        \/ /\ files[f] = Nothing /\ versions' = versions
           /\ pc'[r] = "failed" /\ seen'[r] = NoLocals
    BY <1>1, <1>11 DEF UploadInsertVersion, InsertVersion, TypeOK, Locals
  <2>5. Keeps(r)
    BY <1>1, <2>1, <2>3, <2>4 DEF Keeps, TypeOK
  <2>6. LinkOK(r)'
    <3>1. seen'[r].todo \subseteq seen[r].todo
      BY <2>4 DEF NoLocals
    <3>2. pc'[r] \notin BeforeVersion
      BY <2>4 DEF BeforeVersion, BeforeFile
    <3>3. versions'[r] # Nothing => versions'[r].fileId = f
      BY <1>1, <2>1, <2>4 DEF TypeOK
    <3>4. f \in Created'
      BY <1>1, <1>2, <2>1 DEF LinkOK
    <3>5. QED
      BY <1>1, <1>2, <2>1, <2>3, <3>1, <3>2, <3>3, <3>4, TodoKept DEF LinkOK, Upload
  <2>7. f \notin Purged' => Kept(r)'
    <3> SUFFICES ASSUME f \notin Purged'
                 PROVE  Kept(r)'
      OBVIOUS
    <3>1. files[f] # Nothing /\ r \in blobs /\ Borne(versions, f, seen[r].file)
      BY <1>5, <2>1 DEF Kept
    <3>2. versions'[r] = row /\ \A v \in Request \ {r} : versions'[v] = versions[v]
      BY <1>1, <2>4, <3>1 DEF TypeOK
    <3>3. Borne(versions', f, revised)
      BY <1>1, <1>3, <2>1, <2>2, <3>1, <3>2, RevisedBorne
    <3>4. QED
      BY <1>3, <2>2, <2>3, <2>4, <3>1, <3>2, <3>3 DEF Kept, Stored
  <2>8. QED
    BY <2>5, <2>6, <2>7
<1>12. CASE LoadFile(r)
  <2>1. Keeps(r)
    BY <1>12, StoresUntouched DEF LoadFile
  <2>2. LinkOK(r)'
    BY <1>1, <1>2, <1>3, <1>12, LinkKept DEF LoadFile, TypeOK, NoLocals, Locals
  <2>3. f \notin Purged' => Kept(r)'
    BY <1>1, <1>3, <1>5, <1>12
       DEF LoadFile, Upload, Removal, InFlight, Awaits, Locals, Kept, Stored, TypeOK,
           HandlerOK
  <2>4. QED
    BY <2>1, <2>2, <2>3
<1>13. CASE UpdateFile(r)
  <2>1. args[r].op \in {"revise", "delete"} /\ pc[r] = "writeFile"
        /\ seen[r].file \in FileRow
    BY <1>1, <1>13 DEF UpdateFile, HandlerOK
  <2>2. f # r
    BY <1>1, <2>1 DEF LinkOK, Created
  <2>3. /\ UNCHANGED <<versions, blobs, args, seen>>
        /\ pc'[r] \in {"loadUser", "findOwner"}
        /\ pc'[r] = "loadUser" => args[r].op = "revise"
    BY <1>1, <1>13, <2>1 DEF UpdateFile, AfterWriteFile, TypeOK
  <2>4. /\ \A q \in Request \ {f} : files'[q] = files[q]
        /\ files[f] = Nothing => files' = files
        /\ files[f] # Nothing =>
               files'[f] = Written(files[f], seen[r].fileRow, seen[r].file)
    BY <1>1, <1>3, <1>13 DEF UpdateFile, TypeOK
  <2>5. ASSUME files[f] # Nothing
        PROVE  /\ files'[f] # Nothing
               /\ f \notin Purged' => Borne(versions', f, files'[f])
    <3>1. files[f] \in FileRow /\ seen[r].fileRow \in FileRow
      BY <1>1, <1>3, <1>13, <2>5 DEF UpdateFile, TypeOK, Locals
    <3>2. files'[f] \in FileRow
      BY <2>1, <2>4, <2>5, <3>1, WrittenType
    <3>3. f \notin Purged' => Borne(versions, f, files[f]) /\ Borne(versions, f, seen[r].file)
      BY <1>2, <1>3, <1>5, <2>1, <2>5 DEF HistoryInv, FileOK, Kept
    <3>4. f \notin Purged' =>
              Borne(versions, f, Written(files[f], seen[r].fileRow, seen[r].file))
      BY <2>1, <3>1, <3>3, WrittenBorne
    <3>5. QED
      BY <2>3, <2>4, <2>5, <3>2, <3>4, NothingAssumption
  <2>6. Keeps(r)
    BY <2>3, <2>4, <2>5 DEF Keeps
  <2>7. LinkOK(r)'
    BY <1>1, <1>2, <1>3, <2>1, <2>2, <2>3, <2>4, LinkKept DEF Moves
  <2>8. f \notin Purged' => Kept(r)'
    BY <1>3, <1>5, <2>1, <2>2, <2>3, <2>4, <2>5 DEF Kept, Stored, Upload
  <2>9. QED
    BY <2>6, <2>7, <2>8
<1>14. CASE ReinsertFile(r)
  <2>1. args[r].op \in {"revise", "delete"} /\ pc[r] = "writeFile"
        /\ f \in Created
    BY <1>1, <1>14 DEF ReinsertFile, HandlerOK, LinkOK
  <2>2. f # r
    BY <2>1 DEF Created
  <2>3. /\ UNCHANGED <<versions, blobs, args>> /\ seen'[r].todo \subseteq seen[r].todo
        /\ pc'[r] \in {"loadUser", "findOwner", "failed"}
        /\ pc'[r] = "failed" \/ files[f] = Nothing
        /\ \A q \in Request \ {f} : files'[q] = files[q]
        /\ files[f] # Nothing => files' = files
    BY <1>1, <1>3, <1>14 DEF ReinsertFile, AfterWriteFile, TypeOK, NoLocals
  <2>4. files[f] = Nothing => f \in Purged'
    BY <1>5, <2>1 DEF Kept
  <2>5. Keeps(r)
    BY <2>1, <2>3, <2>4 DEF Keeps
  <2>6. LinkOK(r)'
    BY <1>1, <1>2, <1>3, <2>1, <2>2, <2>3, LinkKept DEF Moves
  <2>7. f \notin Purged' => Kept(r)'
    BY <1>3, <1>5, <2>1, <2>2, <2>3, <2>4 DEF Kept, Stored, Upload
  <2>8. QED
    BY <2>5, <2>6, <2>7
<1>15. CASE LoadUser(r)
  <2>1. Keeps(r)
    BY <1>15, StoresUntouched DEF LoadUser
  <2>2. LinkOK(r)'
    BY <1>1, <1>2, <1>3, <1>15, LinkKept DEF LoadUser, TypeOK, NoLocals, Locals
  <2>3. f \notin Purged' => Kept(r)'
    BY <1>1, <1>3, <1>5, <1>15
       DEF LoadUser, Upload, Removal, InFlight, Awaits, Locals, Kept, Stored, TypeOK,
           HandlerOK
  <2>4. QED
    BY <2>1, <2>2, <2>3
<1>16. CASE WriteUser(r)
  <2>1. Keeps(r)
    BY <1>16, StoresUntouched DEF WriteUser
  <2>2. LinkOK(r)'
    BY <1>1, <1>2, <1>3, <1>16, LinkKept DEF WriteUser, TypeOK, NoLocals, Locals
  <2>3. f \notin Purged' => Kept(r)'
    BY <1>1, <1>3, <1>5, <1>16
       DEF WriteUser, Upload, Removal, InFlight, Awaits, Locals, Kept, Stored, TypeOK,
           HandlerOK
  <2>4. QED
    BY <2>1, <2>2, <2>3
<1>17. CASE Uncache(r)
  <2>1. Keeps(r)
    BY <1>17, StoresUntouched DEF Uncache
  <2>2. LinkOK(r)'
    BY <1>1, <1>2, <1>3, <1>17, LinkKept DEF Uncache, TypeOK, NoLocals, Locals
  <2>3. f \notin Purged' => Kept(r)'
    BY <1>1, <1>3, <1>5, <1>17
       DEF Uncache, Upload, Removal, InFlight, Awaits, Locals, Kept, Stored, TypeOK,
           HandlerOK
  <2>4. QED
    BY <2>1, <2>2, <2>3
<1>18. CASE PurgeListVersions(r)
  <2>1. Keeps(r)
    BY <1>18, StoresUntouched DEF PurgeListVersions
  <2>2. LinkOK(r)'
    <3>1. f \in Purged
      BY <1>1, <1>18, PurgerBegun DEF PurgeListVersions
    <3>2. ASSUME NEW v \in VersionsOf(f)
          PROVE  pc'[v] # "idle" /\ args'[v].target \in Purged'
      <4>1. v \in Request /\ pc[v] # "idle" /\ args[v].target = f
        BY DEF VersionsOf, HistoryInv, LinkOK, BeforeVersion, BeforeFile
      <4>2. QED
        BY <1>2, <3>1, <4>1 DEF Moves
    <3>3. seen'[r].todo = VersionsOf(f) /\ pc'[r] = "deleteBlobs"
      BY <1>1, <1>18 DEF PurgeListVersions, TypeOK, Locals
    <3>4. UNCHANGED <<versions, files>> /\ pc'[r] \notin BeforeVersion
      BY <1>18, <3>3 DEF PurgeListVersions, BeforeVersion, BeforeFile
    <3>5. QED
      BY <1>1, <1>2, <1>3, <3>2, <3>3, <3>4 DEF LinkOK
  <2>3. f \notin Purged' => Kept(r)'
    BY <1>1, <1>3, <1>5, <1>18
       DEF PurgeListVersions, Upload, Removal, InFlight, Awaits, Locals, Kept, Stored,
           TypeOK, HandlerOK
  <2>4. QED
    BY <2>1, <2>2, <2>3
<1>19. CASE PurgeBlob(r)
  <2>1. PICK v \in seen[r].todo :
            /\ blobs' = blobs \ {v} \/ blobs' = blobs
            /\ seen' = [seen EXCEPT ![r] = [seen[r] EXCEPT !.todo = seen[r].todo \ {v}]]
    BY <1>19 DEF PurgeBlob
  <2>2. args[v].target \in Purged'
    BY <1>1, <1>2 DEF LinkOK
  <2>3. Keeps(r)
    BY <1>19, <2>1, <2>2 DEF PurgeBlob, Keeps
  <2>4. LinkOK(r)'
    <3>1. seen'[r].todo \subseteq seen[r].todo
      BY <1>1, <2>1 DEF TypeOK, Locals
    <3>2. QED
      BY <1>2, <1>3, <1>19, <3>1, LinkKept DEF PurgeBlob
  <2>5. f \notin Purged' => Kept(r)'
    BY <1>1, <1>2, <1>19, PurgerBegun DEF PurgeBlob
  <2>6. QED
    BY <2>3, <2>4, <2>5
<1>20. CASE PurgeBlobsEnd(r)
  <2>1. Keeps(r)
    BY <1>20, StoresUntouched DEF PurgeBlobsEnd
  <2>2. LinkOK(r)'
    BY <1>1, <1>2, <1>3, <1>20, LinkKept DEF PurgeBlobsEnd, TypeOK, NoLocals, Locals
  <2>3. f \notin Purged' => Kept(r)'
    BY <1>1, <1>3, <1>5, <1>20
       DEF PurgeBlobsEnd, Upload, Removal, InFlight, Awaits, Locals, Kept, Stored,
           TypeOK, HandlerOK
  <2>4. QED
    BY <2>1, <2>2, <2>3
<1>21. CASE PurgeVersions(r)
  <2>1. f \in Purged
    BY <1>1, <1>21, PurgerBegun DEF PurgeVersions
  <2>2. /\ versions' = [v \in Request |-> IF v \in VersionsOf(f) THEN Nothing ELSE versions[v]]
        /\ UNCHANGED <<files, blobs, args, seen>> /\ pc'[r] = "deleteFile"
    BY <1>1, <1>21 DEF PurgeVersions, TypeOK
  <2>3. Keeps(r)
    BY <1>2, <2>1, <2>2 DEF Keeps, VersionsOf
  <2>4. LinkOK(r)'
    BY <1>1, <1>2, <1>3, <2>2, LinkKept DEF Moves
  <2>5. f \notin Purged' => Kept(r)'
    BY <1>2, <2>1
  <2>6. QED
    BY <2>3, <2>4, <2>5
<1>22. CASE PurgeFile(r)
  <2>1. f \in Purged
    BY <1>1, <1>22, PurgerBegun DEF PurgeFile
  <2>2. /\ \A q \in Request : files'[q] = files[q] \/ (q = f /\ files'[q] = Nothing)
        /\ UNCHANGED <<versions, blobs, args>> /\ pc'[r] \in {"findOwner", "failed"}
        /\ seen'[r].todo \subseteq seen[r].todo
    BY <1>1, <1>3, <1>22 DEF PurgeFile, TypeOK, NoLocals
  <2>3. Keeps(r)
    BY <1>2, <2>1, <2>2 DEF Keeps
  <2>4. LinkOK(r)'
    BY <1>1, <1>2, <1>3, <2>2, LinkKept DEF Moves
  <2>5. f \notin Purged' => Kept(r)'
    BY <1>2, <2>1
  <2>6. QED
    BY <2>3, <2>4, <2>5
<1>23. CASE FindOwner(r)
  <2>1. Keeps(r)
    BY <1>23, StoresUntouched DEF FindOwner
  <2>2. LinkOK(r)'
    BY <1>1, <1>2, <1>3, <1>23, LinkKept DEF FindOwner, TypeOK, NoLocals, Locals
  <2>3. f \notin Purged' => Kept(r)'
    BY <1>1, <1>3, <1>5, <1>23
       DEF FindOwner, Upload, Removal, InFlight, Awaits, Locals, Kept, Stored, TypeOK,
           HandlerOK
  <2>4. QED
    BY <2>1, <2>2, <2>3
<1>24. CASE DownloadFetch(r)
  <2>1. Keeps(r)
    BY <1>24, StoresUntouched DEF DownloadFetch
  <2>2. LinkOK(r)'
    BY <1>1, <1>2, <1>3, <1>24, LinkKept DEF DownloadFetch, TypeOK, NoLocals, Locals
  <2>3. f \notin Purged' => Kept(r)'
    <3>1. f \notin Purged' => f \in blobs
      BY <1>2, <1>3, <1>5, <1>24, FileHasContent DEF DownloadFetch, Kept
    <3>2. QED
      BY <1>1, <1>3, <1>5, <1>24, <3>1 DEF DownloadFetch, Kept, Stored, TypeOK, HandlerOK,
         Upload, InFlight
  <2>4. QED
    BY <2>1, <2>2, <2>3
<1>25. CASE HistoryRead(r)
  <2>1. Keeps(r)
    BY <1>25, StoresUntouched DEF HistoryRead
  <2>2. LinkOK(r)'
    BY <1>1, <1>2, <1>3, <1>25, LinkKept DEF HistoryRead, TypeOK, NoLocals, Locals
  <2>3. f \notin Purged' => Kept(r)'
    BY <1>1, <1>3, <1>5, <1>25 DEF HistoryRead, Kept, Stored, TypeOK, HandlerOK, Upload
  <2>4. QED
    BY <2>1, <2>2, <2>3
<1>26. QED
    BY <1>6, <1>7, <1>8, <1>9, <1>10, <1>11, <1>12, <1>13, <1>14, <1>15, <1>16, <1>17,
       <1>18, <1>19, <1>20, <1>21, <1>22, <1>23, <1>24, <1>25
       DEF Continue

\* What a handler knows when its first await is over.
Begun(r) ==
    /\ pc[r] = "idle"
    /\ \A q \in Request \ {r} :
           pc'[q] = pc[q] /\ args'[q] = args[q] /\ seen'[q] = seen[q]
    /\ UNCHANGED <<files, versions, blobs>>
    /\ seen'[r].todo = {}
    /\ \/ pc'[r] \in {"store", "listVersions", "refused"}
       \/ pc'[r] = "loadUser" /\ args'[r].op = "login"
       \/ /\ pc'[r] = "fetch" /\ args'[r].op = "download"
          /\ files[args'[r].target] # Nothing
       \/ /\ pc'[r] = "listHistory" /\ args'[r].op = "history"
          /\ files[args'[r].target] # Nothing
       \/ /\ pc'[r] = "loadFile" /\ args'[r].op = "delete"
          /\ files[args'[r].target] # Nothing
          /\ seen'[r].file = SoftDeleted(files[args'[r].target])

LEMMA BeginBegun ==
    ASSUME TypeInv, NEW r \in Request, Begin(r)
    PROVE  Begun(r)
<1> USE DEF Arrive, Goto, Learn, Answer, Begun, NoLocals
<1>1. TypeOK
    BY DEF TypeInv
<1>2. CASE UploadBegin(r)
    BY <1>1, <1>2 DEF UploadBegin, TypeOK
<1>3. CASE RemovalBegin(r)
    BY <1>1, <1>3 DEF RemovalBegin, Removal, TypeOK
<1>4. CASE DownloadBegin(r)
    BY <1>1, <1>4 DEF DownloadBegin, TypeOK
<1>5. CASE LoginBegin(r)
    BY <1>1, <1>5 DEF LoginBegin, TypeOK
<1>6. CASE HistoryBegin(r)
    BY <1>1, <1>6 DEF HistoryBegin, TypeOK
<1>7. QED
    BY <1>2, <1>3, <1>4, <1>5, <1>6 DEF Begin

LEMMA BeginHistoryInv ==
    ASSUME HistoryInv, NEW r \in Request, Begin(r)
    PROVE  HistoryInv'
<1> DEFINE f == args'[r].target
<1>1. TypeInv' /\ Begun(r)
    BY BeginTypeInv, BeginBegun DEF HistoryInv
<1>2. pc'[r] # "idle" /\ f \in Request
  <2>1. pc'[r] # "idle"
    BY <1>1 DEF Begun
  <2>2. QED
    BY <1>1, <2>1 DEF TypeInv, ControlOK, HandlerOK, Call
<1>3. Moves(r)
    BY <1>1, <1>2 DEF Begun, Moves, BeforeFile, BeforeVersion, InFlight, Awaits
<1>4. Keeps(r)
    BY <1>1, StoresUntouched DEF Begun
<1>5. Purged \subseteq Purged' /\ Created \subseteq Created'
    BY <1>3, PurgeStaysBegun, StaysCreated
<1>6. versions'[r] = Nothing /\ files'[r] = Nothing
    BY <1>1 DEF Begun, HistoryInv, LinkOK, Created, BeforeVersion, BeforeFile
<1>7. files[f] # Nothing => f \in Created
    BY <1>2 DEF HistoryInv, LinkOK
<1>8. LinkOK(r)'
    BY <1>1, <1>5, <1>6, <1>7 DEF LinkOK, Begun
<1>9. KeptOK(r)'
  <2> SUFFICES ASSUME f \notin Purged'
               PROVE  Kept(r)'
    BY DEF KeptOK
  <2>1. ~Stored(r)'
    BY <1>1 DEF Begun, Stored, Upload
  <2>2. CASE pc'[r] = "loadFile"
    <3>1. files[f] # Nothing /\ seen'[r].file = SoftDeleted(files[f])
      BY <1>1, <2>2 DEF Begun
    <3>2. files[f] \in FileRow /\ Borne(versions, f, files[f])
      BY <1>2, <1>5, <3>1 DEF HistoryInv, FileOK, TypeInv, TypeOK
    <3>3. Borne(versions, f, SoftDeleted(files[f]))
      BY <3>2 DEF Borne, SoftDeleted, FileRow
    <3>4. QED
      BY <1>1, <1>6, <2>1, <2>2, <3>1, <3>3 DEF Begun, Kept
  <2>3. CASE pc'[r] # "loadFile"
    BY <1>1, <1>6, <2>1, <2>3 DEF Begun, Kept
  <2>4. QED
    BY <2>2, <2>3
<1>10. QED
    BY <1>1, <1>3, <1>4, <1>8, <1>9, HistoryFrame

LEMMA AbortHistoryInv ==
    ASSUME HistoryInv, NEW r \in Request, Abort(r)
    PROVE  HistoryInv'
<1> USE DEF Abort, Answer, Goto, Learn
<1>1. TypeOK /\ HandlerOK(r) /\ LinkOK(r) /\ KeptOK(r) /\ pc[r] # "idle"
    BY DEF HistoryInv, TypeInv, ControlOK, InFlight, Awaits
<1>2. TypeInv' /\ pc'[r] = "failed" /\ seen'[r].todo = {} /\ args' = args
    BY <1>1, AbortTypeInv DEF HistoryInv, TypeOK, NoLocals
<1>3. Moves(r)
    BY <1>1, <1>2 DEF Moves, TypeOK, BeforeFile, BeforeVersion
<1>4. Keeps(r)
    BY StoresUntouched
<1>5. LinkOK(r)'
    BY <1>1, <1>2, <1>3, LinkKept
<1>6. KeptOK(r)'
    BY <1>1, <1>2, <1>3, PurgeStaysBegun DEF KeptOK, Kept, Stored
<1>7. QED
    BY <1>2, <1>3, <1>4, <1>5, <1>6, HistoryFrame

LEMMA InitHistoryInv == Init => HistoryInv
BY InitTypeInv DEF Init, HistoryInv, LinkOK, KeptOK, FileOK, NoLocals

LEMMA StutterHistoryInv == HistoryInv /\ UNCHANGED vars => HistoryInv'
<1> SUFFICES ASSUME HistoryInv, UNCHANGED vars
             PROVE  HistoryInv'
    OBVIOUS
<1>1. TypeInv'
    BY StutterTypeInv DEF HistoryInv
<1>2. Purged' = Purged /\ Created' = Created
    BY DEF vars, Purged, PurgeBegun, Created
<1>3. QED
    BY <1>1, <1>2 DEF vars, HistoryInv, LinkOK, KeptOK, Kept, Stored, FileOK

LEMMA NextHistoryInv == HistoryInv /\ [Next]_vars => HistoryInv'
<1> SUFFICES ASSUME HistoryInv, [Next]_vars
             PROVE  HistoryInv'
    OBVIOUS
<1>1. ASSUME NEW r \in Request, Begin(r) \/ Continue(r) \/ Abort(r)
      PROVE  HistoryInv'
    BY <1>1, BeginHistoryInv, ContinueHistoryInv, AbortHistoryInv
<1>2. CASE Idle \/ UNCHANGED vars
    BY <1>2, StutterHistoryInv DEF Idle
<1>3. QED
    BY <1>1, <1>2 DEF Next

LEMMA HistoryInvHolds == Spec => []HistoryInv
BY InitHistoryInv, NextHistoryInv, PTL DEF Spec

-----------------------------------------------------------------------------
\* Every version row and every file row has its content until an admin purges the
\* file, whatever is interleaved and whatever fails.
THEOREM ContentIsKept == Spec => []RowsHaveContent
<1>1. ASSUME HistoryInv
      PROVE  RowsHaveContent
  <2>1. ASSUME NEW v \in Request, versions[v] # Nothing, ~PurgeBegun(versions[v].fileId)
        PROVE  v \in blobs
    <3>1. /\ LinkOK(v) /\ KeptOK(v)
          /\ pc[v] # "idle" /\ args[v].target = versions[v].fileId
      BY <1>1, <2>1 DEF HistoryInv, LinkOK, BeforeVersion, BeforeFile
    <3>2. args[v].target \notin Purged
      BY <2>1, <3>1 DEF Purged
    <3>3. QED
      BY <2>1, <3>1, <3>2 DEF KeptOK, Kept
  <2>2. ASSUME NEW f \in Request, files[f] # Nothing, ~PurgeBegun(f)
        PROVE  f \in blobs
    BY <1>1, <2>2, FileHasContent DEF Purged
  <2>3. QED
    BY <2>1, <2>2 DEF RowsHaveContent
<1>2. QED
    BY <1>1, HistoryInvHolds, PTL

\* However concurrent uploads overwrite each other's versionCount, the count never
\* runs ahead of the version rows, and currentVersionId is one of them.
THEOREM HistoryNeverHasGaps == Spec => []HistoryHasNoGaps
<1>1. ASSUME HistoryInv
      PROVE  HistoryHasNoGaps
    BY <1>1 DEF HistoryInv, FileOK, Borne, Purged, HistoryHasNoGaps, VersionsOf
<1>2. QED
    BY <1>1, HistoryInvHolds, PTL

\* Nothing but a purge of the file takes back an upload that was answered.
THEOREM AcknowledgedUploadsAreKept == Spec => []AcknowledgedUploadKept
<1>1. ASSUME HistoryInv
      PROVE  AcknowledgedUploadKept
  <2> SUFFICES ASSUME NEW r \in Request, pc[r] = "done", args[r].op \in Upload,
                      ~PurgeBegun(args[r].target)
               PROVE  /\ versions[r] # Nothing /\ versions[r].fileId = args[r].target
                      /\ files[args[r].target] # Nothing
                      /\ r \in blobs
    BY DEF AcknowledgedUploadKept
  <2>1. LinkOK(r) /\ KeptOK(r) /\ args[r].target \notin Purged
    BY <1>1 DEF HistoryInv, Purged
  <2>2. QED
    BY <2>1 DEF LinkOK, KeptOK, Kept, Stored
<1>2. QED
    BY <1>1, HistoryInvHolds, PTL

\* A download that passed its checks fails to find the content only if the file is
\* being purged.
THEOREM DownloadsMissOnlyPurged == Spec => []DownloadMissesOnlyPurged
<1>1. ASSUME HistoryInv
      PROVE  DownloadMissesOnlyPurged
    BY <1>1 DEF HistoryInv, TypeInv, ControlOK, HandlerOK, Call, KeptOK, Kept, Purged,
       DownloadMissesOnlyPurged
<1>2. QED
    BY <1>1, HistoryInvHolds, PTL

\* Who asks for the versions of a file whose upload was answered is shown one, until
\* an admin purges the file.
THEOREM AnsweredFilesHaveHistory == Spec => EmptyHistoryOnlyUnfinished
<1>1. HistoryInv /\ [Next]_vars =>
        [\A r \in Request :
            pc[r] = "listHistory" /\ pc'[r] = "empty" =>
                PurgeBegun(args[r].target) \/ pc[args[r].target] # "done"]_vars
  <2> SUFFICES ASSUME HistoryInv, [Next]_vars, NEW r \in Request,
                      pc[r] = "listHistory", pc'[r] = "empty",
                      args[r].target \notin Purged, pc[args[r].target] = "done"
               PROVE  FALSE
      BY DEF HistoryInv, TypeInv, ControlOK, HandlerOK, Call, Purged
  <2> DEFINE f == args[r].target
  <2>1. f \in Request /\ f \in Created
      BY DEF HistoryInv, LinkOK, Created
  <2>2. LinkOK(f) /\ KeptOK(f) /\ HandlerOK(f) /\ TypeOK
      BY <2>1 DEF HistoryInv, TypeInv, ControlOK
  <2>3. args[f].op = "create" /\ args[f].target = f
      BY <2>1, <2>2 DEF Created, HandlerOK
  <2>4. f \in VersionsOf(f)
      BY <2>1, <2>2, <2>3 DEF LinkOK, KeptOK, Kept, Stored, Upload, VersionsOf
  \* Only the read of the version rows leaves that await for an empty answer.
  <2>5. HistoryRead(r)
      <3>1. ASSUME NEW q \in Request, q # r, Begin(q) \/ Continue(q) \/ Abort(q)
            PROVE  pc'[r] = pc[r]
          <4>1. CASE Begin(q)
              BY <3>1, <4>1, BeginBegun DEF HistoryInv, Begun
          <4>2. CASE Continue(q)
              BY <3>1, <4>2, ContinueMoves DEF HistoryInv, Moves
          <4>3. CASE Abort(q)
              BY <2>2, <3>1, <4>3 DEF Abort, Answer, Goto, TypeOK
          <4>. QED
              BY <3>1, <4>1, <4>2, <4>3
      <3>2. ~Begin(r)
          BY BeginBegun DEF HistoryInv, Begun
      <3>3. ~Abort(r)
          BY <2>2 DEF Abort, Answer, Goto, TypeOK
      <3>4. Continue(r) => HistoryRead(r)
          BY DEF Continue, UploadInfected, UploadStore, UploadInsertFile,
             UploadInsertFirstVersion, UploadFindFile, UploadInsertVersion, LoadFile,
             UpdateFile, ReinsertFile, LoadUser, WriteUser, Uncache, PurgeListVersions,
             PurgeBlob, PurgeBlobsEnd, PurgeVersions, PurgeFile, FindOwner, DownloadFetch
      <3>. QED
          BY <3>1, <3>2, <3>3, <3>4 DEF Next, Idle, vars
  <2>. QED
      BY <2>2, <2>4, <2>5 DEF HistoryRead, Answer, Goto, TypeOK
<1>2. QED
    BY <1>1, HistoryInvHolds, PTL DEF Spec, EmptyHistoryOnlyUnfinished

-----------------------------------------------------------------------------
(* What a permanent delete leaves behind: a row loses its content only     *)
(* inside a purge that is still to remove the row, or was cut off before.  *)

\* The awaits of an upload between its content and its version row.
Uploading == {"insertFile", "insertFirstVersion", "findFile", "insertVersion"}

Purging(r, f) ==
    /\ pc[r] \in {"deleteBlobs", "deleteVersions", "failed"}
    /\ args[r].op = "purge"
    /\ args[r].target = f

ContentFirst == \A r \in Request : pc[r] \in Uploading => r \in blobs

\* What a purge has listed and not yet removed are versions of its file.
ListedOK(r) ==
    /\ seen[r].todo # {} => pc[r] = "deleteBlobs"
    /\ \A v \in seen[r].todo : pc[v] \notin BeforeVersion /\ args[v].target = args[r].target

PurgeInv ==
    /\ HistoryInv
    /\ ContentFirst
    /\ \A r \in Request : ListedOK(r)
    /\ PurgeLeavesNoHoles

\* A step of r that takes no content away, and no purge past its rows.
Harmless(r) ==
    /\ blobs \subseteq blobs'
    /\ \A v \in Request : versions'[v] \in {versions[v], Nothing} \/ v \in blobs'
    /\ pc'[r] \in Uploading => r \in blobs'
    /\ seen'[r].todo = {}
    /\ pc[r] \in {"deleteBlobs", "deleteVersions"} => pc'[r] \in {"deleteVersions", "failed"}

LEMMA InitPurgeInv == Init => PurgeInv
BY InitHistoryInv
DEF Init, PurgeInv, ContentFirst, ListedOK, PurgeLeavesNoHoles, NoLocals, Uploading

LEMMA ListedStays ==
    ASSUME PurgeInv, NEW r \in Request, Moves(r), NEW q \in Request,
           seen'[q].todo \subseteq seen[q].todo, seen'[q].todo # {} => pc'[q] = "deleteBlobs"
    PROVE  ListedOK(q)'
<1> SUFFICES ASSUME NEW v \in seen'[q].todo
             PROVE  pc'[v] \notin BeforeVersion /\ args'[v].target = args'[q].target
    BY DEF ListedOK
<1>1. v \in Request
    BY DEF PurgeInv, HistoryInv, TypeInv, TypeOK, Locals
<1>2. /\ pc[v] \notin BeforeVersion /\ args[v].target = args[q].target
      /\ pc[q] = "deleteBlobs"
    BY DEF PurgeInv, ListedOK
<1>3. pc'[v] \notin BeforeVersion /\ args'[v] = args[v]
    BY <1>1, <1>2 DEF Moves, BeforeVersion, BeforeFile
<1>4. args'[q] = args[q]
    BY <1>2 DEF Moves
<1>. QED
    BY <1>2, <1>3, <1>4

\* The other handlers are where they were.
LEMMA OthersListed ==
    ASSUME PurgeInv, NEW r \in Request, Moves(r), ListedOK(r)'
    PROVE  \A q \in Request : ListedOK(q)'
<1> SUFFICES ASSUME NEW q \in Request, q # r PROVE ListedOK(q)'
    OBVIOUS
<1>1. seen'[q] = seen[q] /\ pc'[q] = pc[q] /\ ListedOK(q)
    BY DEF Moves, PurgeInv
<1>. QED
    BY <1>1, ListedStays DEF ListedOK

LEMMA HarmlessPurgeInv ==
    ASSUME PurgeInv, HistoryInv', NEW r \in Request, Moves(r), Harmless(r)
    PROVE  PurgeInv'
<1>1. ContentFirst'
    BY DEF PurgeInv, ContentFirst, Harmless, Moves
<1>2. \A q \in Request : ListedOK(q)'
    BY OthersListed DEF Harmless, ListedOK
<1>3. PurgeLeavesNoHoles'
    <2> SUFFICES ASSUME NEW v \in Request, versions'[v] # Nothing, v \notin blobs',
                        NEW f, f = versions'[v].fileId
                 PROVE  \E p \in Request : Purging(p, f)'
        BY DEF PurgeLeavesNoHoles, Purging
    <2>1. versions'[v] = versions[v] /\ v \notin blobs
        BY DEF Harmless
    <2>2. PICK p \in Request : Purging(p, f)
        BY <2>1 DEF PurgeInv, PurgeLeavesNoHoles, Purging
    <2>3. Purging(p, f)'
        BY <2>1, <2>2 DEF Purging, Moves, Harmless, InFlight, Awaits
    <2>. QED
        BY <2>3
<1>. QED
    BY <1>1, <1>2, <1>3 DEF PurgeInv

LEMMA ContinuePurgeInv ==
    ASSUME PurgeInv, NEW r \in Request, Continue(r)
    PROVE  PurgeInv'
<1> USE DEF Goto, Learn, Answer
<1>1. /\ HistoryInv' /\ Moves(r) /\ HandlerOK(r) /\ LinkOK(r) /\ TypeOK /\ ListedOK(r)
      /\ pc[r] \in Uploading => r \in blobs
    BY ContinueHistoryInv, ContinueMoves
    DEF PurgeInv, HistoryInv, TypeInv, ControlOK, ContentFirst
<1>2. NoLocals.todo = {}
    BY DEF NoLocals
<1>h. Harmless(r) => PurgeInv'
    BY <1>1, HarmlessPurgeInv
<1>3. CASE UploadInfected(r)
    BY <1>1, <1>2, <1>3, <1>h DEF UploadInfected, Harmless, TypeOK, Uploading
<1>4. CASE UploadStore(r)
    BY <1>1, <1>4, <1>h DEF UploadStore, Harmless, TypeOK, ListedOK
<1>5. CASE UploadInsertFile(r)
    BY <1>1, <1>5, <1>h DEF UploadInsertFile, Harmless, TypeOK, ListedOK, Uploading
<1>6. CASE UploadInsertFirstVersion(r)
    BY <1>1, <1>2, <1>6, <1>h
    DEF UploadInsertFirstVersion, InsertVersion, Harmless, TypeOK, ListedOK, Uploading
<1>7. CASE UploadFindFile(r)
    BY <1>1, <1>2, <1>7, <1>h
    DEF UploadFindFile, Harmless, TypeOK, Locals, ListedOK, Uploading
<1>8. CASE UploadInsertVersion(r)
    BY <1>1, <1>2, <1>8, <1>h
    DEF UploadInsertVersion, InsertVersion, Harmless, TypeOK, Locals, ListedOK, Uploading
<1>9. CASE LoadFile(r)
    BY <1>1, <1>9, <1>h DEF LoadFile, Harmless, TypeOK, Locals, ListedOK, Uploading
<1>10. CASE UpdateFile(r)
    BY <1>1, <1>10, <1>h
    DEF UpdateFile, AfterWriteFile, Harmless, TypeOK, ListedOK, Uploading
<1>11. CASE ReinsertFile(r)
    BY <1>1, <1>2, <1>11, <1>h
    DEF ReinsertFile, AfterWriteFile, Harmless, TypeOK, ListedOK, Uploading
<1>12. CASE LoadUser(r)
    BY <1>1, <1>12, <1>h DEF LoadUser, Harmless, TypeOK, Locals, ListedOK, Uploading
<1>13. CASE WriteUser(r)
    BY <1>1, <1>2, <1>13, <1>h DEF WriteUser, Harmless, TypeOK, ListedOK, Uploading
<1>14. CASE Uncache(r)
    BY <1>1, <1>2, <1>14, <1>h DEF Uncache, Harmless, TypeOK, Uploading
\* The listed versions have rows, so the uploads of them are past the awaits above.
<1>15. CASE PurgeListVersions(r)
    <2>1. /\ UNCHANGED <<versions, blobs>> /\ args' = args
          /\ pc' = [pc EXCEPT ![r] = "deleteBlobs"]
          /\ seen'[r].todo = VersionsOf(args[r].target)
        BY <1>1, <1>15 DEF PurgeListVersions, TypeOK, Locals
    <2>2. \A v \in VersionsOf(args[r].target) :
              pc[v] \notin BeforeVersion /\ args[v].target = args[r].target
        BY DEF VersionsOf, PurgeInv, HistoryInv, LinkOK
    <2>3. ListedOK(r)'
        <3> SUFFICES ASSUME NEW v \in VersionsOf(args[r].target)
                     PROVE  pc'[v] \notin BeforeVersion
            BY <1>1, <2>1, <2>2 DEF ListedOK, TypeOK
        <3>1. v \in Request /\ pc[v] \notin BeforeVersion
            BY <2>2 DEF VersionsOf
        <3>. QED
            BY <1>1, <2>1, <3>1 DEF TypeOK, BeforeVersion, BeforeFile
    <2>4. ContentFirst'
        BY <1>1, <2>1 DEF PurgeInv, ContentFirst, Uploading, TypeOK
    <2>5. PurgeLeavesNoHoles'
        <3> SUFFICES ASSUME NEW v \in Request, versions[v] # Nothing, v \notin blobs
                     PROVE  \E p \in Request : Purging(p, versions[v].fileId)'
            BY <2>1 DEF PurgeLeavesNoHoles, Purging
        <3>1. PICK p \in Request : Purging(p, versions[v].fileId)
            BY DEF PurgeInv, PurgeLeavesNoHoles, Purging
        <3>2. Purging(p, versions[v].fileId)'
            BY <1>1, <2>1, <3>1 DEF Purging, TypeOK
        <3>. QED
            BY <3>2
    <2>. QED
        BY <1>1, <2>3, <2>4, <2>5, OthersListed DEF PurgeInv
\* The content that goes is a listed version's, and this purge will remove its row.
<1>16. CASE PurgeBlob(r)
    <2>1. PICK v \in seen[r].todo :
              /\ blobs \ {v} \subseteq blobs'
              /\ seen'[r].todo = seen[r].todo \ {v}
              /\ pc[r] = "deleteBlobs"
              /\ UNCHANGED <<used, files, versions, pc, args>>
        BY <1>1, <1>16 DEF PurgeBlob, TypeOK, Locals
    <2>2. /\ v \in Request /\ pc[v] \notin BeforeVersion /\ args[v].target = args[r].target
          /\ args[r].op = "purge"
        BY <1>1, <2>1 DEF TypeOK, Locals, ListedOK, HandlerOK
    <2>3. ListedOK(r)'
        BY <1>1, <2>1, ListedStays
    <2>4. ContentFirst'
        BY <2>1, <2>2 DEF PurgeInv, ContentFirst, Uploading, BeforeVersion, BeforeFile
    <2>5. PurgeLeavesNoHoles'
        <3> SUFFICES ASSUME NEW w \in Request, versions[w] # Nothing, w \notin blobs'
                     PROVE  \E p \in Request : Purging(p, versions[w].fileId)
            BY <2>1 DEF PurgeLeavesNoHoles, Purging
        <3>1. CASE w = v
            <4>1. versions[w].fileId = args[r].target
                BY <2>2, <3>1 DEF PurgeInv, HistoryInv, LinkOK
            <4>. QED
                BY <2>1, <2>2, <4>1 DEF Purging
        <3>2. CASE w # v
            BY <2>1, <3>2 DEF PurgeInv, PurgeLeavesNoHoles, Purging
        <3>. QED
            BY <3>1, <3>2
    <2>. QED
        BY <1>1, <2>3, <2>4, <2>5, OthersListed DEF PurgeInv
<1>17. CASE PurgeBlobsEnd(r)
    BY <1>1, <1>17, <1>h DEF PurgeBlobsEnd, Harmless, TypeOK, Uploading
\* The rows of this purge's file are gone; the others have another purge.
<1>18. CASE PurgeVersions(r)
    <2>1. /\ pc[r] = "deleteVersions" /\ pc' = [pc EXCEPT ![r] = "deleteFile"]
          /\ \A v \in Request : versions'[v] =
                 IF v \in VersionsOf(args[r].target) THEN Nothing ELSE versions[v]
          /\ UNCHANGED <<blobs, args, seen>>
        BY <1>1, <1>18 DEF PurgeVersions, TypeOK
    <2>2. ListedOK(r)'
        BY <1>1, <2>1, ListedStays DEF ListedOK
    <2>3. ContentFirst'
        BY <1>1, <2>1 DEF PurgeInv, ContentFirst, Uploading, TypeOK
    <2>4. PurgeLeavesNoHoles'
        <3> SUFFICES ASSUME NEW v \in Request, versions'[v] # Nothing, v \notin blobs,
                            NEW f, f = versions'[v].fileId
                     PROVE  \E p \in Request : Purging(p, f)'
            BY <2>1 DEF PurgeLeavesNoHoles, Purging
        <3>1. versions'[v] = versions[v] /\ v \notin VersionsOf(args[r].target)
            BY <2>1
        <3>2. PICK p \in Request : Purging(p, f)
            BY <3>1 DEF PurgeInv, PurgeLeavesNoHoles, Purging
        <3>3. p # r
            BY <3>1, <3>2 DEF Purging, VersionsOf
        <3>4. Purging(p, f)'
            BY <1>1, <2>1, <3>2, <3>3 DEF Purging, TypeOK
        <3>. QED
            BY <3>1, <3>4
    <2>. QED
        BY <1>1, <2>2, <2>3, <2>4, OthersListed DEF PurgeInv
<1>19. CASE PurgeFile(r)
    BY <1>1, <1>2, <1>19, <1>h DEF PurgeFile, Harmless, TypeOK, ListedOK, Uploading
<1>20. CASE FindOwner(r)
    BY <1>1, <1>20, <1>h DEF FindOwner, Harmless, TypeOK, Locals, ListedOK, Uploading
<1>21. CASE DownloadFetch(r)
    BY <1>1, <1>2, <1>21, <1>h DEF DownloadFetch, Harmless, TypeOK, Uploading
<1>22. CASE HistoryRead(r)
    BY <1>1, <1>2, <1>22, <1>h DEF HistoryRead, Harmless, TypeOK, Uploading
<1>. QED
    BY <1>3, <1>4, <1>5, <1>6, <1>7, <1>8, <1>9, <1>10, <1>11, <1>12, <1>13, <1>14, <1>15,
       <1>16, <1>17, <1>18, <1>19, <1>20, <1>21, <1>22
    DEF Continue

LEMMA BeginPurgeInv ==
    ASSUME PurgeInv, NEW r \in Request, Begin(r)
    PROVE  PurgeInv'
<1>1. HistoryInv' /\ Begun(r) /\ TypeInv'
    BY BeginHistoryInv, BeginBegun, BeginTypeInv DEF PurgeInv, HistoryInv
<1>2. Moves(r)
    BY <1>1 DEF Begun, Moves, BeforeFile, BeforeVersion, InFlight, Awaits
<1>3. Harmless(r)
    BY <1>1 DEF Begun, Harmless, Uploading
<1>. QED
    BY <1>1, <1>2, <1>3, HarmlessPurgeInv

LEMMA AbortPurgeInv ==
    ASSUME PurgeInv, NEW r \in Request, Abort(r)
    PROVE  PurgeInv'
<1>1. HistoryInv' /\ TypeOK
    BY AbortHistoryInv DEF PurgeInv, HistoryInv, TypeInv
<1>2. /\ InFlight(r) /\ pc' = [pc EXCEPT ![r] = "failed"] /\ args' = args
      /\ seen' = [seen EXCEPT ![r] = NoLocals]
      /\ UNCHANGED <<versions, blobs>>
    BY DEF Abort, Answer, Goto, Learn
<1>3. Moves(r)
    BY <1>1, <1>2 DEF Moves, TypeOK, BeforeFile, BeforeVersion
<1>4. Harmless(r)
    BY <1>1, <1>2 DEF Harmless, TypeOK, NoLocals, Uploading
<1>. QED
    BY <1>1, <1>3, <1>4, HarmlessPurgeInv

LEMMA NextPurgeInv == PurgeInv /\ [Next]_vars => PurgeInv'
<1> SUFFICES ASSUME PurgeInv, [Next]_vars PROVE PurgeInv'
    OBVIOUS
<1>1. ASSUME NEW r \in Request, Begin(r) \/ Continue(r) \/ Abort(r)
      PROVE  PurgeInv'
    BY <1>1, BeginPurgeInv, ContinuePurgeInv, AbortPurgeInv
<1>2. CASE UNCHANGED vars
    <2>1. HistoryInv'
        BY <1>2, StutterHistoryInv DEF PurgeInv
    <2>. QED
        BY <1>2, <2>1 DEF vars, PurgeInv, ContentFirst, ListedOK, PurgeLeavesNoHoles
<1>. QED
    BY <1>1, <1>2 DEF Next, Idle

\* A row without content is the business of a purge that is under way or was cut off;
\* one that was answered leaves none, whatever was uploaded to the file meanwhile.
THEOREM PurgesLeaveNoHoles == Spec => []PurgeLeavesNoHoles
<1>1. PurgeInv => PurgeLeavesNoHoles
    BY DEF PurgeInv
<1>. QED
    BY <1>1, InitPurgeInv, NextPurgeInv, PTL DEF Spec
-----------------------------------------------------------------------------
(* A deleted or purged file comes back only by the hand of a handler that read it *)
(* while it was active.                                                          *)

Inactive(row) == row = Nothing \/ row.status = "deleted"

\* A step of r leaves f withdrawn if it leaves the row inactive and r, should it be about to
\* write the row, holds an entity that is deleted.
LEMMA WithdrawnFrame ==
    ASSUME TypeInv, NEW r \in Request, Moves(r), NEW f \in Request, Withdrawn(f),
           Inactive(files'[f]),
           pc'[r] \in {"insertVersion", "loadFile", "writeFile"} /\ args'[r].target = f =>
               seen'[r].file.status = "deleted"
    PROVE  Withdrawn(f)'
<1>1. pc'[f] \notin {"idle", "store", "insertFile"}
    BY DEF Withdrawn, Moves, BeforeFile
<1>2. \A q \in WritersOf(f)' : seen'[q].file.status = "deleted"
    BY DEF Withdrawn, Moves, WritersOf
<1>. QED
    BY <1>1, <1>2 DEF Withdrawn, Inactive

LEMMA ContinueWithdrawn ==
    ASSUME TypeInv, NEW r \in Request, Continue(r), NEW f \in Request, Withdrawn(f)
    PROVE  Withdrawn(f)'
<1> USE DEF Goto, Learn, Answer
<1>1. TypeOK /\ HandlerOK(r) /\ Moves(r) /\ Inactive(files[f])
    BY ContinueMoves DEF TypeInv, ControlOK, Withdrawn, Inactive
<1>2. r \in WritersOf(f) => seen[r].file.status = "deleted"
    BY DEF Withdrawn
\* Steps that leave the row alone, and end away from it.
<1>3. CASE \/ UploadInfected(r) \/ UploadStore(r) \/ UploadInsertFirstVersion(r) \/ LoadUser(r)
           \/ WriteUser(r) \/ Uncache(r) \/ PurgeListVersions(r) \/ PurgeBlob(r)
           \/ PurgeBlobsEnd(r) \/ PurgeVersions(r) \/ FindOwner(r) \/ DownloadFetch(r)
           \/ HistoryRead(r)
    <2>1. files' = files
        BY <1>3 DEF UploadInfected, UploadStore, UploadInsertFirstVersion, LoadUser, WriteUser,
           Uncache, PurgeListVersions, PurgeBlob, PurgeBlobsEnd, PurgeVersions, FindOwner,
           DownloadFetch, HistoryRead
    <2>2. pc'[r] \notin {"insertVersion", "loadFile", "writeFile"}
        BY <1>1, <1>3 DEF UploadInfected, UploadStore, UploadInsertFirstVersion, InsertVersion,
           LoadUser, WriteUser, Uncache, PurgeListVersions, PurgeBlob, PurgeBlobsEnd,
           PurgeVersions, FindOwner, DownloadFetch, HistoryRead, TypeOK
    <2>. QED
        BY <1>1, <2>1, <2>2, WithdrawnFrame
\* The row inserted is another file's: the creation of this one is past.
<1>4. CASE UploadInsertFile(r)
    <2>1. r # f
        BY <1>4 DEF UploadInsertFile, Withdrawn
    <2>2. files'[f] = files[f] /\ pc'[r] = "insertFirstVersion"
        BY <1>1, <1>4, <2>1 DEF UploadInsertFile, TypeOK
    <2>. QED
        BY <1>1, <2>2, WithdrawnFrame
\* An upload may add a version to a deleted file; what it reads is deleted.
<1>5. CASE UploadFindFile(r)
    <2>1. /\ files' = files /\ args' = args
          /\ \/ pc'[r] = "refused"
             \/ /\ files[args[r].target] # Nothing
                /\ seen'[r].file = files[args[r].target]
        BY <1>1, <1>5 DEF UploadFindFile, TypeOK, Locals
    <2>. QED
        BY <1>1, <2>1, WithdrawnFrame DEF Inactive
<1>6. CASE UploadInsertVersion(r)
    <2>1. seen[r].file \in FileRow /\ r \in Request
        BY <1>1, <1>6 DEF UploadInsertVersion, HandlerOK
    <2>2. ApplyScanStatus(NewVersionUploaded(seen[r].file, r), args[r].verdict).status
              = seen[r].file.status
        BY <2>1 DEF ApplyScanStatus, NewVersionUploaded, FileRow
    <2>3. /\ files' = files /\ args' = args /\ pc[r] = "insertVersion"
          /\ \/ pc'[r] = "failed"
             \/ seen'[r].file
                    = ApplyScanStatus(NewVersionUploaded(seen[r].file, r), args[r].verdict)
        BY <1>1, <1>6 DEF UploadInsertVersion, InsertVersion, TypeOK, Locals
    <2>. QED
        BY <1>1, <1>2, <2>2, <2>3, WithdrawnFrame DEF WritersOf
<1>7. CASE LoadFile(r)
    <2>1. /\ files' = files /\ args' = args /\ pc[r] = "loadFile"
          /\ seen'[r].file = seen[r].file
        BY <1>1, <1>7 DEF LoadFile, TypeOK, Locals
    <2>. QED
        BY <1>1, <1>2, <2>1, WithdrawnFrame DEF WritersOf
\* The status written is that of the entity, or none.
<1>8. CASE UpdateFile(r)
    <2>1. pc'[r] \notin {"insertVersion", "loadFile", "writeFile"}
        BY <1>1, <1>8 DEF UpdateFile, AfterWriteFile, TypeOK
    <2>2. CASE args[r].target = f /\ files[f] # Nothing
        <3>1. seen[r].file.status = "deleted" /\ files[f].status = "deleted"
            BY <1>1, <1>2, <1>8, <2>2 DEF UpdateFile, WritersOf, Inactive
        <3>2. files[f] \in FileRow
            BY <1>1, <2>2 DEF TypeOK
        <3>3. files'[f] = Written(files[f], seen[r].fileRow, seen[r].file)
            BY <1>1, <1>8, <2>2 DEF UpdateFile, TypeOK
        <3>4. files'[f].status = "deleted"
            BY <3>1, <3>2, <3>3 DEF Written, FileRow
        <3>. QED
            BY <1>1, <2>1, <3>4, WithdrawnFrame DEF Inactive
    <2>3. CASE ~(args[r].target = f /\ files[f] # Nothing)
        <3>1. files'[f] = files[f]
            BY <1>1, <1>8, <2>3 DEF UpdateFile, TypeOK
        <3>. QED
            BY <1>1, <2>1, <3>1, WithdrawnFrame
    <2>. QED
        BY <2>2, <2>3
<1>9. CASE ReinsertFile(r)
    <2>1. pc'[r] \notin {"insertVersion", "loadFile", "writeFile"}
        BY <1>1, <1>9 DEF ReinsertFile, AfterWriteFile, TypeOK
    <2>2. files'[f] = files[f] \/ (args[r].target = f /\ files'[f] = seen[r].file)
        BY <1>1, <1>9 DEF ReinsertFile, TypeOK
    <2>3. Inactive(files'[f])
        BY <1>1, <1>2, <1>9, <2>2 DEF ReinsertFile, WritersOf, Inactive
    <2>. QED
        BY <1>1, <2>1, <2>3, WithdrawnFrame
<1>10. CASE PurgeFile(r)
    <2>1. /\ pc'[r] \notin {"insertVersion", "loadFile", "writeFile"}
          /\ files'[f] \in {files[f], Nothing}
        BY <1>1, <1>10 DEF PurgeFile, TypeOK
    <2>. QED
        BY <1>1, <2>1, WithdrawnFrame DEF Inactive
<1>. QED
    BY <1>3, <1>4, <1>5, <1>6, <1>7, <1>8, <1>9, <1>10 DEF Continue

\* What arrives finds the file deleted or missing: no delete gets past its check.
LEMMA BeginWithdrawn ==
    ASSUME TypeInv, NEW r \in Request, Begin(r), NEW f \in Request, Withdrawn(f)
    PROVE  Withdrawn(f)'
<1>1. Begun(r) /\ TypeInv' /\ Inactive(files[f])
    BY BeginBegun, BeginTypeInv DEF Withdrawn, Inactive
<1>2. Moves(r)
    BY <1>1 DEF Begun, Moves, BeforeFile, BeforeVersion, InFlight, Awaits
<1>3. files' = files
    BY <1>1 DEF Begun
<1>4. pc'[r] \in {"insertVersion", "loadFile", "writeFile"} =>
          seen'[r].file.status = "deleted"
    <2>1. CASE pc'[r] = "loadFile" /\ files[args'[r].target] # Nothing
               /\ seen'[r].file = SoftDeleted(files[args'[r].target]) /\ args'[r].op = "delete"
        <3>1. files[args'[r].target] \in FileRow
            BY <1>1, <2>1 DEF TypeInv, TypeOK, ControlOK, HandlerOK, Call
        <3>. QED
            BY <2>1, <3>1 DEF SoftDeleted, FileRow
    <2>. QED
        BY <1>1, <2>1 DEF Begun
<1>. QED
    BY <1>1, <1>2, <1>3, <1>4, WithdrawnFrame

LEMMA AbortWithdrawn ==
    ASSUME TypeInv, NEW r \in Request, Abort(r), NEW f \in Request, Withdrawn(f)
    PROVE  Withdrawn(f)'
<1>1. /\ InFlight(r) /\ pc' = [pc EXCEPT ![r] = "failed"] /\ args' = args
      /\ seen' = [seen EXCEPT ![r] = NoLocals]
      /\ files' = files /\ TypeOK
    BY DEF Abort, Answer, Goto, Learn, TypeInv
<1>2. Moves(r)
    BY <1>1 DEF Moves, TypeOK, BeforeFile, BeforeVersion
<1>. QED
    BY <1>1, <1>2, WithdrawnFrame DEF TypeOK, Withdrawn, Inactive

\* Once nobody holds the file as it was before its delete or purge, it is gone for good:
\* the delete that is undone is undone by an upload open at the same time, and by nothing
\* that arrives later.
THEOREM FilesStayWithdrawn == Spec => WithdrawnForGood
<1>1. TypeInv /\ [Next]_vars => [\A f \in Request : Withdrawn(f) => Withdrawn(f)']_vars
    <2> SUFFICES ASSUME TypeInv, [Next]_vars, NEW f \in Request, Withdrawn(f)
                 PROVE  Withdrawn(f)'
        OBVIOUS
    <2>1. ASSUME NEW r \in Request, Begin(r) \/ Continue(r) \/ Abort(r)
          PROVE  Withdrawn(f)'
        BY <2>1, BeginWithdrawn, ContinueWithdrawn, AbortWithdrawn
    <2>2. CASE UNCHANGED vars
        BY <2>2 DEF vars, Withdrawn, WritersOf
    <2>. QED
        BY <2>1, <2>2 DEF Next, Idle
<1>. QED
    BY <1>1, InitTypeInv, NextTypeInv, PTL DEF Spec, WithdrawnForGood
-----------------------------------------------------------------------------
(* Content without a row. *)

BlobExplained(v) ==
    v \in blobs =>
        /\ pc[v] \notin {"idle", "store"}
        /\ \/ versions[v] # Nothing
           \/ args[v].target \in Purged
           \/ pc[v] \in Uploading \cup {"refused", "failed"}

OrphanInv == HistoryInv /\ \A v \in Request : BlobExplained(v)

\* Only a request that has begun has a call to come back from.
LEMMA ContinueIsOpen ==
    ASSUME NEW r \in Request, Continue(r)
    PROVE  pc[r] # "idle"
BY DEF Continue, UploadInfected, UploadStore, UploadInsertFile, UploadInsertFirstVersion,
   UploadFindFile, UploadInsertVersion, LoadFile, UpdateFile, ReinsertFile, LoadUser, WriteUser,
   Uncache, PurgeListVersions, PurgeBlob, PurgeBlobsEnd, PurgeVersions, PurgeFile, FindOwner,
   DownloadFetch, HistoryRead

\* A step of r brings no content but that of r, and removes no row but in a purge.
LEMMA OrphanFrame ==
    ASSUME OrphanInv, NEW r \in Request, HistoryInv', Moves(r), blobs' \subseteq blobs \cup {r},
           \A q \in Request \ {r} : \/ versions'[q] = versions[q]
                                    \/ args[q].target \in Purged,
           BlobExplained(r)'
    PROVE  OrphanInv'
<1>1. Purged \subseteq Purged'
    BY PurgeStaysBegun
<1>2. ASSUME NEW q \in Request \ {r}
      PROVE  BlobExplained(q)'
    <2>1. BlobExplained(q) /\ pc'[q] = pc[q] /\ args'[q] = args[q]
        BY DEF OrphanInv, Moves
    <2>. QED
        BY <1>1, <2>1 DEF BlobExplained
<1>. QED
    BY <1>2 DEF OrphanInv

LEMMA ContinueOrphanInv ==
    ASSUME OrphanInv, NEW r \in Request, Continue(r)
    PROVE  OrphanInv'
<1> USE DEF Goto, Learn, Answer
<1> DEFINE f == args[r].target
<1>1. /\ HistoryInv /\ HistoryInv' /\ Moves(r) /\ HandlerOK(r) /\ TypeOK /\ TypeInv
      /\ BlobExplained(r) /\ Purged \subseteq Purged' /\ InFlight(r)
    BY ContinueHistoryInv, ContinueMoves, ContinueIsOpen, PurgeStaysBegun
    DEF OrphanInv, HistoryInv, TypeInv, ControlOK, Moves
<1>2. args'[r] = args[r]
    BY <1>1 DEF Moves, InFlight, Awaits
<1>3. CASE UploadStore(r)
    <2>1. /\ blobs' = blobs \cup {r} /\ versions' = versions
          /\ pc'[r] \in {"insertFile", "findFile"}
        BY <1>1, <1>3 DEF UploadStore, TypeOK
    <2>2. BlobExplained(r)'
        BY <2>1 DEF BlobExplained, Uploading
    <2>. QED
        BY <1>1, <2>1, <2>2, OrphanFrame
\* On the way to the row, and with it.
<1>4. CASE \/ UploadInsertFile(r) \/ UploadInsertFirstVersion(r) \/ UploadFindFile(r)
           \/ UploadInsertVersion(r)
    <2> DEFINE Explained ==
                  /\ blobs' = blobs
                  /\ \A q \in Request \ {r} : versions'[q] = versions[q]
                  /\ \/ versions'[r] # Nothing
                     \/ pc'[r] \in {"insertFirstVersion", "insertVersion", "refused", "failed"}
                  /\ pc'[r] \notin {"idle", "store"}
    <2>a. \A number \in Nat \ {0} : [fileId |-> f, versionNumber |-> number] # Nothing
        <3>1. f \in Request
            BY <1>1 DEF HandlerOK, Call, InFlight, Awaits
        <3>. QED
            BY <3>1, NothingAssumption DEF VersionRow
    <2>b. ASSUME UploadInsertFile(r) PROVE Explained
        BY <1>1, <2>b DEF UploadInsertFile, TypeOK
    <2>c. ASSUME UploadInsertFirstVersion(r) PROVE Explained
        BY <1>1, <2>a, <2>c DEF UploadInsertFirstVersion, InsertVersion, TypeOK
    <2>d. ASSUME UploadFindFile(r) PROVE Explained
        BY <1>1, <2>d DEF UploadFindFile, TypeOK
    <2>e. ASSUME UploadInsertVersion(r) PROVE Explained
        <3>1. seen[r].file.versionCount + 1 \in Nat \ {0}
            BY <1>1, <2>e DEF UploadInsertVersion, HandlerOK, FileRow
        <3>. QED
            BY <1>1, <2>a, <2>e, <3>1 DEF UploadInsertVersion, InsertVersion, TypeOK
    <2>1. Explained
        BY <1>4, <2>b, <2>c, <2>d, <2>e
    <2>2. BlobExplained(r)'
        BY <2>1 DEF BlobExplained, Uploading
    <2>. QED
        BY <1>1, <2>1, <2>2, OrphanFrame
\* The rows that go are those of a file whose purge has begun.
<1>5. CASE PurgeVersions(r)
    <2>1. f \in Request /\ f \in Purged
        BY <1>1, <1>5, PurgerBegun DEF PurgeVersions
    <2>2. \A q \in Request : versions'[q] = versions[q] \/ args[q].target \in Purged
        <3> SUFFICES ASSUME NEW q \in VersionsOf(f)
                     PROVE  args[q].target \in Purged
            BY <1>5 DEF PurgeVersions
        <3>. QED
            BY <1>1, <2>1 DEF VersionsOf, HistoryInv, LinkOK
    <2>3. blobs' = blobs /\ pc[r] = "deleteVersions" /\ pc'[r] = "deleteFile"
        BY <1>1, <1>5 DEF PurgeVersions, TypeOK
    <2>4. BlobExplained(r)'
        BY <1>1, <1>2, <2>2, <2>3 DEF BlobExplained, Uploading
    <2>. QED
        BY <1>1, <2>2, <2>3, <2>4, OrphanFrame
\* The other steps are taken by requests that are past their row, or have no content.
<1>6. CASE \/ UploadInfected(r) \/ LoadFile(r) \/ UpdateFile(r) \/ ReinsertFile(r) \/ LoadUser(r)
           \/ WriteUser(r) \/ Uncache(r) \/ PurgeListVersions(r) \/ PurgeBlob(r)
           \/ PurgeBlobsEnd(r) \/ PurgeFile(r) \/ FindOwner(r) \/ DownloadFetch(r)
           \/ HistoryRead(r)
    <2>1. blobs' \subseteq blobs /\ versions' = versions
        BY <1>6
        DEF UploadInfected, LoadFile, UpdateFile, ReinsertFile, LoadUser, WriteUser, Uncache,
            PurgeListVersions, PurgeBlob, PurgeBlobsEnd, PurgeFile, FindOwner, DownloadFetch,
            HistoryRead
    <2>2. pc[r] \notin Uploading \cup {"refused", "failed"}
        BY <1>6
        DEF UploadInfected, LoadFile, UpdateFile, ReinsertFile, LoadUser, WriteUser, Uncache,
            PurgeListVersions, PurgeBlob, PurgeBlobsEnd, PurgeFile, FindOwner, DownloadFetch,
            HistoryRead, Uploading
    <2>3. pc[r] \notin {"idle", "store"} => pc'[r] \notin {"idle", "store"}
        BY <1>1, <2>2 DEF Moves, BeforeFile, Uploading
    <2>4. BlobExplained(r)'
        BY <1>1, <1>2, <2>1, <2>2, <2>3 DEF BlobExplained
    <2>. QED
        BY <1>1, <2>1, <2>4, OrphanFrame
<1>. QED
    BY <1>3, <1>4, <1>5, <1>6 DEF Continue

LEMMA NextOrphanInv == OrphanInv /\ [Next]_vars => OrphanInv'
<1> SUFFICES ASSUME OrphanInv, [Next]_vars PROVE OrphanInv'
    OBVIOUS
<1>1. HistoryInv /\ HistoryInv' /\ TypeInv /\ TypeOK
    BY NextHistoryInv DEF OrphanInv, HistoryInv, TypeInv
<1>2. ASSUME NEW r \in Request, Begin(r) PROVE OrphanInv'
    <2>1. Begun(r)
        BY <1>1, <1>2, BeginBegun
    <2>2. Moves(r)
        BY <1>1, <2>1 DEF Begun, Moves, BeforeFile, BeforeVersion, InFlight, Awaits
    <2>3. BlobExplained(r)'
        BY <2>1 DEF OrphanInv, BlobExplained, Begun
    <2>. QED
        BY <1>1, <2>1, <2>2, <2>3, OrphanFrame DEF Begun
<1>3. ASSUME NEW r \in Request, Continue(r) PROVE OrphanInv'
    BY <1>3, ContinueOrphanInv
<1>4. ASSUME NEW r \in Request, Abort(r) PROVE OrphanInv'
    <2>1. /\ InFlight(r) /\ pc' = [pc EXCEPT ![r] = "failed"] /\ args' = args
          /\ seen' = [seen EXCEPT ![r] = NoLocals]
          /\ UNCHANGED <<versions, blobs>>
        BY <1>4 DEF Abort, Answer, Goto, Learn
    <2>2. Moves(r)
        BY <1>1, <2>1 DEF Moves, TypeOK, BeforeFile, BeforeVersion
    <2>3. BlobExplained(r)'
        BY <1>1, <2>1 DEF BlobExplained, TypeOK
    <2>. QED
        BY <1>1, <2>1, <2>2, <2>3, OrphanFrame
<1>5. CASE UNCHANGED vars
    BY <1>1, <1>5 DEF vars, OrphanInv, BlobExplained, Purged, PurgeBegun
<1>. QED
    BY <1>2, <1>3, <1>4, <1>5 DEF Next, Idle

\* Nothing but an error or a purge leaves content that no row names.
THEOREM OrphansComeOfErrors == Spec => []OrphansAreErrors
<1>1. Init => OrphanInv
    BY InitHistoryInv DEF Init, OrphanInv, BlobExplained
<1>2. OrphanInv => OrphansAreErrors
    BY DEF OrphanInv, HistoryInv, TypeInv, TypeOK, BlobExplained, Uploading, Purged,
           OrphansAreErrors
<1>. QED
    BY <1>1, <1>2, NextOrphanInv, PTL DEF Spec
=============================================================================
