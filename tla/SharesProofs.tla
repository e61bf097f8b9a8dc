---------------------------- MODULE SharesProofs ----------------------------
(***************************************************************************)
(* Theorems about Shares, for every set of requests and files, all         *)
(* lifetimes and maxima, and any number of requests open at once.          *)
(***************************************************************************)
EXTENDS Shares, FiniteSetTheorems, TLAPS

\* The awaits of an access that found its share valid.
Accessing == {"findFile", "loadShare", "writeShare", "fetch"}

\* Which entities a handler holds at which await.
ControlOK(r) ==
    /\ pc[r] # "idle" => args[r] \in Call
    /\ pc[r] \in {"saveShare", "cacheShare"} =>
          /\ args[r].op = "generate" /\ args[r].file \in File
          /\ seen[r].share \in ShareRow
          /\ seen[r].share.fileId = args[r].file /\ seen[r].share.downloadCount = 0
    /\ pc[r] \in Accessing =>
          /\ args[r].op = "access" /\ args[r].share \in Request
          /\ seen[r].share \in ShareRow
    /\ pc[r] \in {"loadFile", "writeFile"} =>
          /\ args[r].op = "delete" /\ args[r].file \in File
          /\ seen[r].file \in FileRow
    /\ pc[r] \in {"deleteBlobs", "deleteShares", "deleteFile"} =>
          args[r].op = "purge" /\ args[r].file \in File

TypeInv == TypeOK /\ \A r \in Request : ControlOK(r)

-----------------------------------------------------------------------------
LEMMA InitTypeInv == Init => TypeInv
BY SharesAssumption
   DEF Init, TypeInv, TypeOK, ControlOK, Accessing, Locals, NoLocals, FileRow

\* A step of r leaves what the other requests hold in order.
LEMMA ControlFrame ==
    ASSUME TypeInv, NEW r \in Request, ControlOK(r)',
           \A q \in Request \ {r} : pc'[q] = pc[q] /\ args'[q] = args[q] /\ seen'[q] = seen[q]
    PROVE  \A q \in Request : ControlOK(q)'
BY DEF TypeInv, ControlOK

LEMMA StepTypeInv == TypeInv /\ [Next]_vars => TypeInv'
<1> SUFFICES ASSUME TypeInv, [Next]_vars PROVE TypeInv'
    OBVIOUS
<1>t. TypeOK /\ \A r \in Request : ControlOK(r)
    BY DEF TypeInv
<1>n. NoLocals \in Locals
    BY DEF NoLocals, Locals
<1>f. ASSUME NEW r \in Request, TypeOK', ControlOK(r)',
             \A q \in Request \ {r} :
                 pc'[q] = pc[q] /\ args'[q] = args[q] /\ seen'[q] = seen[q]
      PROVE  TypeInv'
    BY <1>f, ControlFrame DEF TypeInv
<1> USE DEF TypeOK, Goto, Learn, Answer
<1>1. ASSUME NEW r \in Request, GenerateBegin(r) PROVE TypeInv'
    <2> PICK f \in File, hours \in Lifetime, max \in MaxDownloads, permitted \in BOOLEAN :
            /\ Arrive(r, [op |-> "generate", file |-> f, share |-> Nothing, hours |-> hours])
            /\ IF files[f] # Nothing /\ files[f].status # "deleted" /\ permitted /\ files[f].scanClear
                  THEN /\ Goto(r, "saveShare")
                       /\ Learn(r, [NoLocals EXCEPT !.share =
                              [fileId |-> f, expiresAt |-> now + hours,
                               maxDownloads |-> max, downloadCount |-> 0]])
                  ELSE Answer(r, "refused")
            /\ UNCHANGED <<now, files, contents, shares>>
        BY <1>1 DEF GenerateBegin
    <2> DEFINE row == [fileId |-> f, expiresAt |-> now + hours,
                       maxDownloads |-> max, downloadCount |-> 0]
    <2>1. row \in ShareRow /\ row.fileId = f /\ row.downloadCount = 0
        BY <1>t, SharesAssumption DEF ShareRow
    <2>2. /\ [NoLocals EXCEPT !.share = row] \in Locals
          /\ [NoLocals EXCEPT !.share = row].share = row
        BY <2>1, <1>n DEF Locals
    <2>3. args' = [args EXCEPT ![r] = [op |-> "generate", file |-> f, share |-> Nothing,
                                       hours |-> hours]]
        BY DEF Arrive
    <2>4. [op |-> "generate", file |-> f, share |-> Nothing, hours |-> hours] \in Call
        BY SharesAssumption DEF Call
    <2>5. TypeOK'
        BY <1>t, <1>n, <2>2, <2>3, <2>4 DEF Awaits, Answered
    <2>6. ControlOK(r)'
        BY <1>t, <2>1, <2>2, <2>3, <2>4 DEF ControlOK, Accessing
    <2>. QED
        BY <1>f, <1>t, <2>3, <2>5, <2>6
<1>2. ASSUME NEW r \in Request, SaveShare(r) PROVE TypeInv'
    BY <1>2, <1>f, <1>t, <1>n DEF SaveShare, ControlOK, Accessing, Awaits, Answered
<1>3. ASSUME NEW r \in Request, CacheShare(r) PROVE TypeInv'
    BY <1>3, <1>f, <1>t, <1>n DEF CacheShare, ControlOK, Accessing, Awaits, Answered
<1>4. ASSUME NEW r \in Request, AccessBegin(r) PROVE TypeInv'
    <2> PICK s \in Tokens(r), listed \in BOOLEAN :
            /\ Arrive(r, [op |-> "access", file |-> Nothing, share |-> s, hours |-> 0])
            /\ IF shares[s] # Nothing /\ IsValid(shares[s]) /\ listed
                  THEN Goto(r, "findFile") /\ Learn(r, [NoLocals EXCEPT !.share = shares[s]])
                  ELSE Answer(r, "refused")
            /\ UNCHANGED <<now, files, contents, shares>>
        BY <1>4 DEF AccessBegin
    <2>1. s \in Request
        BY DEF Tokens
    <2>2. /\ [NoLocals EXCEPT !.share = shares[s]] \in Locals
          /\ [NoLocals EXCEPT !.share = shares[s]].share = shares[s]
        BY <2>1, <1>t, <1>n DEF Locals
    <2>3. args' = [args EXCEPT ![r] = [op |-> "access", file |-> Nothing, share |-> s,
                                       hours |-> 0]]
        BY DEF Arrive
    <2>4. [op |-> "access", file |-> Nothing, share |-> s, hours |-> 0] \in Call
        BY <2>1 DEF Call
    <2>5. TypeOK'
        BY <1>t, <1>n, <2>2, <2>3, <2>4 DEF Awaits, Answered
    <2>6. ControlOK(r)'
        BY <1>t, <2>1, <2>2, <2>3, <2>4 DEF ControlOK, Accessing
    <2>. QED
        BY <1>f, <1>t, <2>3, <2>5, <2>6
<1>5. ASSUME NEW r \in Request, AccessFindFile(r) PROVE TypeInv'
    <2>1. pc[r] = "findFile" /\ seen[r].share \in ShareRow /\ seen[r] \in Locals
        BY <1>5, <1>t DEF AccessFindFile, ControlOK, Accessing
    <2>2. RecordAccess(seen[r].share) \in ShareRow
        BY <2>1 DEF RecordAccess, ShareRow
    <2>3. /\ [seen[r] EXCEPT !.share = RecordAccess(@)] \in Locals
          /\ [seen[r] EXCEPT !.share = RecordAccess(@)].share \in ShareRow
        BY <2>1, <2>2 DEF Locals
    <2>4. TypeOK'
        BY <1>5, <1>t, <1>n, <2>3 DEF AccessFindFile, Awaits, Answered
    <2>5. ControlOK(r)'
        BY <1>5, <1>t, <2>1, <2>3 DEF AccessFindFile, ControlOK, Accessing
    <2>. QED
        BY <1>5, <1>f, <1>t, <2>4, <2>5 DEF AccessFindFile
<1>6. ASSUME NEW r \in Request, LoadShare(r) PROVE TypeInv'
    <2>1. pc[r] = "loadShare" /\ seen[r] \in Locals /\ args[r].share \in Request
        BY <1>6, <1>t DEF LoadShare, ControlOK, Accessing
    <2> DEFINE locals == [seen[r] EXCEPT !.shareRow = shares[args[r].share]]
    <2>2. locals \in Locals /\ locals.share = seen[r].share
        BY <2>1, <1>t DEF Locals
    <2>3. TypeOK'
        BY <1>6, <1>t, <2>2 DEF LoadShare, Awaits
    <2>4. ControlOK(r)'
        BY <1>6, <1>t, <2>1, <2>2 DEF LoadShare, ControlOK, Accessing
    <2>. QED
        BY <1>6, <1>f, <1>t, <2>3, <2>4 DEF LoadShare
<1>7. ASSUME NEW r \in Request, UpdateShare(r) PROVE TypeInv'
    <2>1. /\ pc[r] = "writeShare" /\ args[r].share \in Request
          /\ seen[r].share.downloadCount \in Nat
        BY <1>7, <1>t DEF UpdateShare, ControlOK, Accessing, ShareRow
    <2>2. shares' \in [Request -> ShareRow \cup {Nothing}]
        <3> DEFINE s == args[r].share
                   row == [shares[s] EXCEPT !.downloadCount = seen[r].share.downloadCount]
        <3>1. shares[s] # Nothing => row \in ShareRow
            BY <2>1, <1>t DEF ShareRow
        <3>2. shares' = shares \/ (shares[s] # Nothing /\ shares' = [shares EXCEPT ![s] = row])
            BY <1>7 DEF UpdateShare
        <3>. QED
            BY <1>t, <3>1, <3>2
    <2>3. TypeOK'
        BY <1>7, <1>t, <2>2 DEF UpdateShare, Awaits
    <2>4. ControlOK(r)'
        BY <1>7, <1>t, <2>1 DEF UpdateShare, ControlOK, Accessing
    <2>. QED
        BY <1>7, <1>f, <1>t, <2>3, <2>4 DEF UpdateShare
<1>8. ASSUME NEW r \in Request, ReinsertShare(r) PROVE TypeInv'
    BY <1>8, <1>f, <1>t, <1>n DEF ReinsertShare, ControlOK, Accessing, Awaits, Answered
<1>9. ASSUME NEW r \in Request, AccessFetch(r) PROVE TypeInv'
    BY <1>9, <1>f, <1>t, <1>n DEF AccessFetch, ControlOK, Accessing, Awaits, Answered
<1>10. ASSUME NEW r \in Request, RemovalBegin(r) PROVE TypeInv'
    <2> PICK op \in {"delete", "purge"}, f \in File, permitted \in BOOLEAN :
            /\ Arrive(r, [op |-> op, file |-> f, share |-> Nothing, hours |-> 0])
            /\ IF files[f] # Nothing /\ files[f].status # "deleted" /\ permitted
                  THEN IF op = "delete"
                       THEN /\ Goto(r, "loadFile")
                            /\ Learn(r, [NoLocals EXCEPT !.file =
                                             [files[f] EXCEPT !.status = "deleted"]])
                       ELSE Goto(r, "deleteBlobs") /\ UNCHANGED seen
                  ELSE Answer(r, "refused")
            /\ UNCHANGED <<now, files, contents, shares>>
        BY <1>10 DEF RemovalBegin
    <2> DEFINE file == [files[f] EXCEPT !.status = "deleted"]
    <2>1. files[f] # Nothing =>
              /\ file \in FileRow
              /\ [NoLocals EXCEPT !.file = file] \in Locals
              /\ [NoLocals EXCEPT !.file = file].file = file
        BY <1>t, <1>n DEF FileRow, Locals
    <2>2. args' = [args EXCEPT ![r] = [op |-> op, file |-> f, share |-> Nothing, hours |-> 0]]
        BY DEF Arrive
    <2>3. [op |-> op, file |-> f, share |-> Nothing, hours |-> 0] \in Call
        BY DEF Call
    <2>4. TypeOK'
        BY <1>t, <1>n, <2>1, <2>2, <2>3 DEF Awaits, Answered
    <2>5. ControlOK(r)'
        BY <1>t, <2>1, <2>2, <2>3 DEF ControlOK, Accessing
    <2>. QED
        BY <1>f, <1>t, <2>2, <2>4, <2>5
<1>11. ASSUME NEW r \in Request, LoadFile(r) PROVE TypeInv'
    <2>1. pc[r] = "loadFile" /\ seen[r] \in Locals /\ args[r].file \in File
        BY <1>11, <1>t DEF LoadFile, ControlOK
    <2> DEFINE locals == [seen[r] EXCEPT !.fileRow = files[args[r].file]]
    <2>2. locals \in Locals /\ locals.file = seen[r].file
        BY <2>1, <1>t DEF Locals
    <2>3. TypeOK'
        BY <1>11, <1>t, <2>2 DEF LoadFile, Awaits
    <2>4. ControlOK(r)'
        BY <1>11, <1>t, <2>1, <2>2 DEF LoadFile, ControlOK, Accessing
    <2>. QED
        BY <1>11, <1>f, <1>t, <2>3, <2>4 DEF LoadFile
<1>12. ASSUME NEW r \in Request, WriteFile(r) PROVE TypeInv'
    BY <1>12, <1>f, <1>t, <1>n DEF WriteFile, ControlOK, Accessing, Awaits, Answered
<1>13. ASSUME NEW r \in Request, PurgeBlobs(r) PROVE TypeInv'
    BY <1>13, <1>f, <1>t DEF PurgeBlobs, ControlOK, Accessing, Awaits
<1>14. ASSUME NEW r \in Request, PurgeShares(r) PROVE TypeInv'
    BY <1>14, <1>f, <1>t DEF PurgeShares, ControlOK, Accessing, Awaits
<1>15. ASSUME NEW r \in Request, PurgeFile(r) PROVE TypeInv'
    BY <1>15, <1>f, <1>t, <1>n DEF PurgeFile, ControlOK, Accessing, Awaits, Answered
<1>16. ASSUME NEW r \in Request, Abort(r) PROVE TypeInv'
    BY <1>16, <1>f, <1>t, <1>n DEF Abort, InFlight, ControlOK, Accessing, Awaits, Answered
<1>17. CASE Tick
    BY <1>17, <1>t, SharesAssumption DEF Tick, TypeInv, ControlOK
<1>18. CASE UNCHANGED vars
    BY <1>18, <1>t DEF vars, TypeInv, ControlOK
<1>. QED
    BY <1>1, <1>2, <1>3, <1>4, <1>5, <1>6, <1>7, <1>8, <1>9, <1>10, <1>11, <1>12, <1>13,
       <1>14, <1>15, <1>16, <1>17, <1>18 DEF Next, Begin, Continue, Idle

\* TypeOK, for every instance.
THEOREM SharesTypeCorrect == Spec => []TypeOK
<1>1. TypeInv => TypeOK
    BY DEF TypeInv
<1>. QED
    BY <1>1, InitTypeInv, StepTypeInv, PTL DEF Spec

-----------------------------------------------------------------------------
\* What any step of r does to the handlers.
Moves(r) ==
    /\ \A q \in Request \ {r} : pc'[q] = pc[q] /\ args'[q] = args[q] /\ seen'[q] = seen[q]
    /\ pc'[r] # "idle"
    /\ pc[r] # "idle" => pc[r] \in Awaits /\ args'[r] = args[r] /\ pc'[r] # "saveShare"
    /\ pc[r] \in {"deleteBlobs", "deleteShares", "deleteFile"} => pc'[r] # "refused"

Step(r) == Begin(r) \/ Continue(r) \/ Abort(r)

LEMMA StepMoves ==
    ASSUME TypeInv, NEW r \in Request, Step(r)
    PROVE  Moves(r)
<1> USE DEF TypeInv, TypeOK, Goto, Learn, Answer, Moves, Awaits
<1>1. CASE Begin(r)
    BY <1>1 DEF Begin, GenerateBegin, AccessBegin, RemovalBegin, Arrive
<1>2. CASE SaveShare(r) \/ CacheShare(r)
    BY <1>2 DEF SaveShare, CacheShare
<1>3. CASE AccessFindFile(r) \/ LoadShare(r) \/ UpdateShare(r) \/ ReinsertShare(r)
           \/ AccessFetch(r)
    BY <1>3 DEF AccessFindFile, LoadShare, UpdateShare, ReinsertShare, AccessFetch
<1>4. CASE LoadFile(r) \/ WriteFile(r)
    BY <1>4 DEF LoadFile, WriteFile
<1>5. CASE PurgeBlobs(r) \/ PurgeShares(r) \/ PurgeFile(r)
    BY <1>5 DEF PurgeBlobs, PurgeShares, PurgeFile
<1>6. CASE Abort(r)
    BY <1>6 DEF Abort, InFlight
<1>. QED
    BY <1>1, <1>2, <1>3, <1>4, <1>5, <1>6 DEF Step, Continue

\* A purge that has begun stays begun.
LEMMA PurgeStaysBegun ==
    ASSUME TypeInv, NEW r \in Request, Moves(r)
    PROVE  \A f : PurgeBegun(f) => PurgeBegun(f)'
<1> SUFFICES ASSUME NEW f, PurgeBegun(f) PROVE PurgeBegun(f)'
    OBVIOUS
<1>1. PICK q \in Request : /\ pc[q] \notin {"idle", "refused"}
                           /\ args[q].op = "purge" /\ args[q].file = f
    BY DEF PurgeBegun
<1>2. /\ pc'[q] \notin {"idle", "refused"}
      /\ args'[q].op = "purge" /\ args'[q].file = f
    BY <1>1 DEF Moves, Awaits, TypeInv, ControlOK, Accessing
<1>. QED
    BY <1>2 DEF PurgeBegun

-----------------------------------------------------------------------------
\* Which request made a share, and what still stands of it.
LinkOK(s) ==
    /\ shares[s] # Nothing =>
          /\ pc[s] \notin {"idle", "saveShare"} /\ args[s].op = "generate"
          /\ shares[s].fileId = args[s].file
    /\ \A r \in Underway(s) :
          /\ pc[s] = "done" /\ args[s].op = "generate"
          /\ seen[r].share.fileId = args[s].file
    /\ /\ pc[s] \in {"cacheShare", "done"} /\ args[s].op = "generate"
       /\ ~PurgeBegun(args[s].file)
       => shares[s] # Nothing

ContentOK ==
    /\ \A f \in File \ contents : PurgeBegun(f)
    /\ \A r \in Request : pc[r] = "missing" =>
          /\ args[r].share \in Request /\ pc[args[r].share] = "done"
          /\ PurgeBegun(args[args[r].share].file)

LinkInv == TypeInv /\ ContentOK /\ \A s \in Request : LinkOK(s)

\* What a step of r may do to the row of a share, and whom it may find under way.
RowFrame(r, s) ==
    /\ shares'[s] # Nothing =>
          \/ shares[s] # Nothing /\ shares'[s].fileId = shares[s].fileId
          \/ r \in Underway(s) /\ shares'[s].fileId = seen[r].share.fileId
          \/ /\ r = s /\ pc[s] = "saveShare" /\ pc'[s] = "cacheShare"
             /\ shares'[s].fileId = args[s].file
    /\ shares[s] # Nothing /\ shares'[s] = Nothing => PurgeBegun(shares[s].fileId)
    /\ r \in Underway(s)' =>
          \/ r \in Underway(s) /\ seen'[r].share.fileId = seen[r].share.fileId
          \/ /\ shares[s] # Nothing /\ pc[s] = "done" /\ r # s
             /\ seen'[r].share.fileId = shares[s].fileId
    /\ pc'[s] = "cacheShare" /\ pc[s] # "cacheShare" => shares'[s] # Nothing
    /\ pc'[s] = "done" /\ pc[s] # "done" =>
          pc[s] = "cacheShare" \/ args'[s].op # "generate"

LEMMA StepRows ==
    ASSUME LinkInv, NEW r \in Request, Step(r), NEW s \in Request
    PROVE  RowFrame(r, s)
<1>t. TypeInv /\ TypeOK /\ ControlOK(r)
    BY DEF TypeInv, LinkInv
<1> USE DEF TypeOK, Goto, Learn, Answer, RowFrame, Underway
<1>m. Moves(r)
    BY <1>t, StepMoves
<1>1. CASE GenerateBegin(r)
    <2>1. pc[r] = "idle" /\ pc'[r] \in {"saveShare", "refused"} /\ shares' = shares
        BY <1>1, <1>t DEF GenerateBegin, Arrive
    <2>. QED
        BY <1>m, <2>1 DEF Moves
<1>2. CASE SaveShare(r)
    <2>1. pc[r] = "saveShare" /\ args' = args
        BY <1>2 DEF SaveShare
    <2>2. seen[r].share \in ShareRow /\ seen[r].share.fileId = args[r].file
        BY <2>1, <1>t DEF ControlOK
    <2>3. \/ pc'[r] = "cacheShare" /\ shares' = [shares EXCEPT ![r] = seen[r].share]
          \/ pc'[r] = "failed" /\ shares' = shares
        BY <1>2, <1>t DEF SaveShare
    <2>4. shares'[s] = shares[s] \/ (s = r /\ pc'[r] = "cacheShare"
                                     /\ shares'[r] = seen[r].share)
        BY <2>3, <1>t
    <2>5. pc'[r] = "cacheShare" => shares'[r] # Nothing
        BY <2>2, <2>3, <1>t, NoRowAssumption
    <2>. QED
        BY <1>m, <2>1, <2>2, <2>3, <2>4, <2>5 DEF Moves
<1>3. CASE CacheShare(r)
    BY <1>3, <1>t DEF CacheShare
<1>4. CASE AccessBegin(r)
    <2> PICK q \in Tokens(r), listed \in BOOLEAN :
            /\ Arrive(r, [op |-> "access", file |-> Nothing, share |-> q, hours |-> 0])
            /\ IF shares[q] # Nothing /\ IsValid(shares[q]) /\ listed
                  THEN Goto(r, "findFile") /\ Learn(r, [NoLocals EXCEPT !.share = shares[q]])
                  ELSE Answer(r, "refused")
            /\ UNCHANGED <<now, files, contents, shares>>
        BY <1>4 DEF AccessBegin
    <2>1. pc[r] = "idle" /\ args'[r].share = q /\ shares' = shares
        BY <1>t DEF Arrive
    <2>2. pc'[r] \in {"findFile", "refused"}
        BY <1>t
    <2>3. pc'[r] = "findFile" =>
              shares[q] # Nothing /\ seen'[r].share = shares[q]
        BY <1>t DEF NoLocals
    <2>4. q # r => q \in Request /\ pc[q] = "done"
        BY DEF Tokens
    <2>5. shares[r] = Nothing
        BY <2>1 DEF LinkInv, LinkOK
    <2>. QED
        BY <1>m, <2>1, <2>2, <2>3, <2>4, <2>5 DEF Moves
<1>5. CASE AccessFindFile(r)
    <2>1. pc[r] = "findFile" /\ args' = args /\ shares' = shares /\ seen[r] \in Locals
        BY <1>5, <1>t DEF AccessFindFile
    <2>2. pc'[r] = "loadShare" => seen'[r].share.fileId = seen[r].share.fileId
        BY <1>5, <1>t, <2>1 DEF AccessFindFile, RecordAccess, Locals, ControlOK, Accessing, ShareRow
    <2>3. pc'[r] \in {"loadShare", "refused"}
        BY <1>5, <1>t DEF AccessFindFile
    <2>. QED
        BY <1>5, <1>t, <2>1, <2>2, <2>3 DEF AccessFindFile
<1>6. CASE LoadShare(r)
    BY <1>6, <1>t DEF LoadShare, Locals
<1>7. CASE UpdateShare(r)
    <2>1. pc[r] = "writeShare" /\ pc'[r] = "fetch" /\ args' = args /\ seen' = seen
        BY <1>7, <1>t DEF UpdateShare
    <2>2. \/ shares'[s] = shares[s]
          \/ shares[s] # Nothing /\ shares'[s] =
                 [shares[s] EXCEPT !.downloadCount = seen[r].share.downloadCount]
        BY <1>7, <1>t DEF UpdateShare
    <2>3. seen[r].share.downloadCount \in Nat
        BY <1>t, <2>1 DEF ControlOK, Accessing, ShareRow
    <2>4. shares'[s] = shares[s] \/ (shares[s] # Nothing /\ shares'[s] \in ShareRow
                                     /\ shares'[s].fileId = shares[s].fileId)
        BY <1>t, <2>2, <2>3 DEF ShareRow
    <2>. QED
        BY <1>m, <2>1, <2>4, NoRowAssumption DEF Moves
<1>8. CASE ReinsertShare(r)
    BY <1>8, <1>t DEF ReinsertShare, ControlOK, Accessing
<1>9. CASE AccessFetch(r)
    BY <1>9, <1>t DEF AccessFetch
<1>10. CASE RemovalBegin(r)
    BY <1>10, <1>t DEF RemovalBegin, Arrive
<1>11. CASE LoadFile(r)
    BY <1>11, <1>t DEF LoadFile
<1>12. CASE WriteFile(r)
    BY <1>12, <1>t DEF WriteFile, ControlOK
<1>13. CASE PurgeBlobs(r)
    BY <1>13, <1>t DEF PurgeBlobs
<1>14. CASE PurgeShares(r)
    BY <1>14, <1>t DEF PurgeShares, SharesOf, PurgeBegun, ControlOK
<1>15. CASE PurgeFile(r)
    BY <1>15, <1>t DEF PurgeFile, ControlOK
<1>16. CASE Abort(r)
    BY <1>16, <1>t DEF Abort, InFlight
<1>. QED
    BY <1>1, <1>2, <1>3, <1>4, <1>5, <1>6, <1>7, <1>8, <1>9, <1>10, <1>11, <1>12, <1>13,
       <1>14, <1>15, <1>16 DEF Step, Begin, Continue

LEMMA InitLinkInv == Init => LinkInv
BY InitTypeInv DEF Init, LinkInv, LinkOK, ContentOK, Underway

\* The row and the accesses of one share over a step of r.
LEMMA StepLinkOK ==
    ASSUME LinkInv, NEW r \in Request, Step(r), NEW s \in Request
    PROVE  LinkOK(s)'
<1>1. TypeInv /\ Moves(r) /\ RowFrame(r, s) /\ LinkOK(s)
    BY StepMoves, StepRows DEF LinkInv
<1>2. \A f : PurgeBegun(f) => PurgeBegun(f)'
    BY <1>1, PurgeStaysBegun
<1>3. pc[s] # "idle" => args'[s] = args[s]
    BY <1>1 DEF Moves
<1>4. pc[s] = "done" => pc'[s] = "done"
    BY <1>1 DEF Moves, Awaits
<1>5. \A q \in Underway(s)' \ {r} : q \in Underway(s) /\ seen'[q] = seen[q]
    BY <1>1 DEF Moves, Underway
<1>6. r \in Underway(s) => pc[s] = "done" /\ args[s].op = "generate"
                           /\ seen[r].share.fileId = args[s].file
    BY <1>1 DEF LinkOK
<1>7. ASSUME shares'[s] # Nothing
      PROVE  /\ pc'[s] \notin {"idle", "saveShare"} /\ args'[s].op = "generate"
             /\ shares'[s].fileId = args'[s].file
    <2>1. CASE shares[s] # Nothing /\ shares'[s].fileId = shares[s].fileId
        BY <1>1, <1>3, <2>1 DEF LinkOK, Moves
    <2>2. CASE r \in Underway(s) /\ shares'[s].fileId = seen[r].share.fileId
        BY <1>3, <1>4, <1>6, <2>2
    <2>3. CASE /\ r = s /\ pc[s] = "saveShare" /\ pc'[s] = "cacheShare"
               /\ shares'[s].fileId = args[s].file
        BY <1>1, <1>3, <2>3 DEF TypeInv, ControlOK
    <2>. QED
        BY <1>1, <1>7, <2>1, <2>2, <2>3 DEF RowFrame
<1>8. ASSUME NEW q \in Underway(s)'
      PROVE  /\ pc'[s] = "done" /\ args'[s].op = "generate"
             /\ seen'[q].share.fileId = args'[s].file
    <2>1. CASE q # r
        BY <1>1, <1>3, <1>4, <1>5, <1>8, <2>1 DEF LinkOK
    <2>2. CASE q = r
        BY <1>1, <1>3, <1>4, <1>6, <1>8, <2>2 DEF LinkOK, RowFrame
    <2>. QED
        BY <2>1, <2>2
<1>9. ASSUME pc'[s] \in {"cacheShare", "done"}, args'[s].op = "generate",
             ~PurgeBegun(args[s].file)'
      PROVE  shares'[s] # Nothing
    <2>1. CASE pc[s] \in {"cacheShare", "done"}
        <3>1. args'[s] = args[s] /\ ~PurgeBegun(args[s].file)
            BY <1>2, <1>3, <1>9, <2>1 DEF PurgeBegun
        <3>2. shares[s] # Nothing /\ shares[s].fileId = args[s].file
            BY <1>1, <1>9, <2>1, <3>1 DEF LinkOK
        <3>. QED
            BY <1>1, <3>1, <3>2 DEF RowFrame
    <2>2. CASE pc[s] \notin {"cacheShare", "done"}
        BY <1>1, <1>9, <2>2 DEF RowFrame
    <2>. QED
        BY <2>1, <2>2
<1>. QED
    BY <1>7, <1>8, <1>9 DEF LinkOK

LEMMA StepContentOK ==
    ASSUME LinkInv, NEW r \in Request, Step(r)
    PROVE  ContentOK'
<1>1. TypeInv /\ TypeOK /\ ControlOK(r) /\ Moves(r) /\ ContentOK /\ \A s \in Request : LinkOK(s)
    BY StepMoves DEF LinkInv, TypeInv
<1>2. \A f : PurgeBegun(f) => PurgeBegun(f)'
    BY <1>1, PurgeStaysBegun
<1>3. ASSUME NEW f \in File \ contents' PROVE PurgeBegun(f)'
    <2>1. CASE contents' = contents
        BY <1>1, <1>2, <1>3, <2>1 DEF ContentOK
    <2>2. CASE PurgeBlobs(r)
        <3>1. pc[r] = "deleteBlobs" /\ args[r].op = "purge"
            BY <1>1, <2>2 DEF PurgeBlobs, ControlOK
        <3>2. f \notin contents \/ f = args[r].file
            BY <1>3, <2>2 DEF PurgeBlobs
        <3>. QED
            BY <1>1, <1>2, <3>1, <3>2 DEF ContentOK, PurgeBegun
    <2>. QED
        BY <2>1, <2>2
           DEF Step, Begin, Continue, GenerateBegin, AccessBegin, RemovalBegin, SaveShare,
               CacheShare, AccessFindFile, LoadShare, UpdateShare, ReinsertShare,
               AccessFetch, LoadFile, WriteFile, PurgeShares, PurgeFile, Abort
<1>4. ASSUME NEW q \in Request, pc'[q] = "missing"
      PROVE  /\ args'[q].share \in Request /\ pc'[args'[q].share] = "done"
             /\ PurgeBegun(args[args[q].share].file)'
    <2>1. CASE pc[q] = "missing"
        <3>1. args'[q] = args[q]
            BY <1>1, <2>1 DEF Moves
        <3> DEFINE s == args[q].share
        <3>2. s \in Request /\ pc[s] = "done" /\ PurgeBegun(args[s].file)
            BY <1>1, <2>1 DEF ContentOK
        <3>3. pc'[s] = "done" /\ args'[s] = args[s]
            BY <1>1, <3>2 DEF Moves, Awaits
        <3>. QED
            BY <1>2, <3>1, <3>2, <3>3 DEF PurgeBegun
    <2>2. CASE pc[q] # "missing"
        <3>1. q = r
            BY <1>1, <1>4, <2>2 DEF Moves
        <3>2. AccessFetch(r)
            BY <1>1, <1>4, <2>2, <3>1
               DEF TypeOK, Goto, Answer, Step, Begin, Continue, GenerateBegin, AccessBegin,
                   RemovalBegin, SaveShare, CacheShare, AccessFindFile, LoadShare,
                   UpdateShare, ReinsertShare, LoadFile, WriteFile, PurgeBlobs,
                   PurgeShares, PurgeFile, Abort
        <3>3. /\ pc[r] = "fetch" /\ args' = args /\ args[r].share \in Request
              /\ seen[r].share.fileId \in File \ contents
            BY <1>1, <1>4, <3>1, <3>2
               DEF AccessFetch, Answer, Goto, TypeOK, ControlOK, Accessing, ShareRow
        <3> DEFINE s == args[r].share
        <3>4. r \in Underway(s)
            BY <3>3 DEF Underway
        <3>5. pc[s] = "done" /\ seen[r].share.fileId = args[s].file
            BY <1>1, <3>3, <3>4 DEF LinkOK
        <3>6. pc'[s] = "done"
            BY <1>1, <3>3, <3>5 DEF Moves, Awaits
        <3>7. PurgeBegun(args[s].file)
            BY <1>1, <3>3, <3>5 DEF ContentOK
        <3>. QED
            BY <1>1, <1>2, <3>1, <3>3, <3>5, <3>6, <3>7 DEF PurgeBegun, Moves
    <2>. QED
        BY <2>1, <2>2
<1>. QED
    BY <1>3, <1>4 DEF ContentOK

LEMMA StepLinkInv == LinkInv /\ [Next]_vars => LinkInv'
<1> SUFFICES ASSUME LinkInv, [Next]_vars PROVE LinkInv'
    OBVIOUS
<1>t. TypeInv /\ TypeInv'
    BY StepTypeInv DEF LinkInv
<1>1. ASSUME NEW r \in Request, Step(r) PROVE LinkInv'
    BY <1>t, <1>1, StepLinkOK, StepContentOK DEF LinkInv
<1>2. CASE Tick \/ UNCHANGED vars
    BY <1>2, <1>t DEF Tick, vars, LinkInv, LinkOK, ContentOK, Underway, PurgeBegun
<1>. QED
    BY <1>1, <1>2 DEF Next, Step, Idle

\* AnsweredShareKept (GenerateShareUrlUseCase, DeleteFileUseCase): only a purge of its
\* file takes a link back.
THEOREM AnsweredSharesAreKept == Spec => []AnsweredShareKept
<1>1. LinkInv => AnsweredShareKept
    BY DEF LinkInv, LinkOK, AnsweredShareKept
<1>. QED
    BY <1>1, InitLinkInv, StepLinkInv, PTL DEF Spec

\* AccessMissesOnlyPurged (AccessSharedFileUseCase): the content of a share that
\* passed its checks is missing only if its file is being purged.
THEOREM AccessesMissOnlyPurged == Spec => []AccessMissesOnlyPurged
<1>1. LinkInv => AccessMissesOnlyPurged
    BY DEF LinkInv, ContentOK, AccessMissesOnlyPurged
<1>. QED
    BY <1>1, InitLinkInv, StepLinkInv, PTL DEF Spec

-----------------------------------------------------------------------------
(* The download count. *)

\* What a step of r may do to the row of s.
WriteFrame(r, s) ==
    \/ shares'[s] = shares[s]
    \/ shares'[s] = Nothing
    \/ /\ r \in Underway(s) /\ pc[r] = "writeShare" /\ pc'[r] = "fetch"
       /\ shares'[s] \in ShareRow
       /\ shares'[s].downloadCount = seen[r].share.downloadCount
       /\ \/ shares[s] # Nothing /\ shares'[s].maxDownloads = shares[s].maxDownloads
          \/ shares'[s].maxDownloads = seen[r].share.maxDownloads
    \/ /\ r = s /\ pc[s] = "saveShare" /\ pc'[s] = "cacheShare"
       /\ shares'[s] = seen[s].share

\* How a step of r may leave it on the way to s.
UnderwayFrame(r, s) ==
    r \in Underway(s)' =>
        \/ /\ pc[r] = "idle" /\ pc'[r] = "findFile"
           /\ shares[s] # Nothing /\ IsValid(shares[s])
           /\ seen'[r].share = shares[s]
        \/ /\ r \in Underway(s) /\ pc[r] = "findFile" /\ pc'[r] = "loadShare"
           /\ seen'[r].share = RecordAccess(seen[r].share)
        \/ /\ r \in Underway(s) /\ pc[r] \in {"loadShare", "writeShare"}
           /\ pc'[r] \in {"writeShare", "fetch"}
           /\ seen'[r].share = seen[r].share

\* When a step of r counts among the recorded accesses.
RecordFrame(r) ==
    /\ pc'[r] = "fetch" => pc[r] = "writeShare"
    /\ pc[r] = "fetch" <=> pc'[r] \in {"served", "missing", "wasted"}

CountFrame(r, s) == WriteFrame(r, s) /\ UnderwayFrame(r, s) /\ RecordFrame(r)

LEMMA StepCounts ==
    ASSUME LinkInv, NEW r \in Request, Step(r), NEW s \in Request
    PROVE  CountFrame(r, s)
<1>t. TypeInv /\ TypeOK /\ ControlOK(r)
    BY DEF TypeInv, LinkInv
<1>m. Moves(r)
    BY <1>t, StepMoves
\* Away from the awaits of generates and accesses, nothing here changes.
<1>o. ASSUME \/ shares' = shares
             \/ \A q \in Request : shares'[q] \in {shares[q], Nothing},
             pc[r] \notin Accessing, pc'[r] \notin Accessing,
             pc'[r] \notin {"served", "missing", "wasted"}
      PROVE  CountFrame(r, s)
    BY <1>o, <1>m
       DEF CountFrame, WriteFrame, UnderwayFrame, RecordFrame, Underway, Accessing
<1> USE DEF TypeOK, Goto, Learn, Answer
<1>1. CASE GenerateBegin(r)
    <2>1. pc[r] = "idle" /\ pc'[r] \in {"saveShare", "refused"} /\ shares' = shares
        BY <1>1, <1>t DEF GenerateBegin, Arrive
    <2>. QED
        BY <1>o, <2>1 DEF Accessing
<1>2. CASE SaveShare(r)
    <2>1. pc[r] = "saveShare" /\ pc'[r] \in {"cacheShare", "failed"}
        BY <1>2, <1>t DEF SaveShare
    <2>2. \/ pc'[r] = "cacheShare" /\ shares' = [shares EXCEPT ![r] = seen[r].share]
          \/ shares' = shares
        BY <1>2, <1>t DEF SaveShare
    <2>3. WriteFrame(r, s)
        BY <2>1, <2>2, <1>t DEF WriteFrame
    <2>. QED
        BY <1>m, <2>1, <2>3 DEF CountFrame, UnderwayFrame, RecordFrame, Underway
<1>3. CASE CacheShare(r)
    <2>1. pc[r] = "cacheShare" /\ pc'[r] \in {"done", "failed"} /\ shares' = shares
        BY <1>3, <1>t DEF CacheShare
    <2>. QED
        BY <1>o, <2>1 DEF Accessing
<1>4. CASE AccessBegin(r)
    <2> PICK q \in Tokens(r), listed \in BOOLEAN :
            /\ Arrive(r, [op |-> "access", file |-> Nothing, share |-> q, hours |-> 0])
            /\ IF shares[q] # Nothing /\ IsValid(shares[q]) /\ listed
                  THEN Goto(r, "findFile") /\ Learn(r, [NoLocals EXCEPT !.share = shares[q]])
                  ELSE Answer(r, "refused")
            /\ UNCHANGED <<now, files, contents, shares>>
        BY <1>4 DEF AccessBegin
    <2>1. pc[r] = "idle" /\ args'[r].share = q /\ shares' = shares
        BY <1>t DEF Arrive
    <2>2. pc'[r] \in {"findFile", "refused"}
        BY <1>t
    <2>3. pc'[r] = "findFile" =>
              shares[q] # Nothing /\ IsValid(shares[q]) /\ seen'[r].share = shares[q]
        BY <1>t DEF NoLocals
    <2>. QED
        BY <2>1, <2>2, <2>3
           DEF CountFrame, WriteFrame, UnderwayFrame, RecordFrame, Underway
<1>5. CASE AccessFindFile(r)
    <2>1. /\ pc[r] = "findFile" /\ pc'[r] \in {"loadShare", "refused"}
          /\ args' = args /\ shares' = shares
        BY <1>5, <1>t DEF AccessFindFile
    <2>2. pc'[r] = "loadShare" => seen'[r].share = RecordAccess(seen[r].share)
        BY <1>5, <1>t, <2>1 DEF AccessFindFile, Locals
    <2>. QED
        BY <2>1, <2>2 DEF CountFrame, WriteFrame, UnderwayFrame, RecordFrame, Underway
<1>6. CASE LoadShare(r)
    <2>1. /\ pc[r] = "loadShare" /\ pc'[r] = "writeShare" /\ args' = args
          /\ shares' = shares /\ seen'[r].share = seen[r].share
        BY <1>6, <1>t DEF LoadShare, Locals
    <2>. QED
        BY <2>1 DEF CountFrame, WriteFrame, UnderwayFrame, RecordFrame, Underway
<1>7. CASE UpdateShare(r)
    <2>1. pc[r] = "writeShare" /\ pc'[r] = "fetch" /\ args' = args /\ seen' = seen
        BY <1>7, <1>t DEF UpdateShare
    <2>2. \/ shares'[s] = shares[s]
          \/ /\ s = args[r].share /\ shares[s] # Nothing
             /\ shares'[s] =
                 [shares[s] EXCEPT !.downloadCount = seen[r].share.downloadCount]
        BY <1>7, <1>t DEF UpdateShare
    <2>3. seen[r].share.downloadCount \in Nat
        BY <1>t, <2>1 DEF ControlOK, Accessing, ShareRow
    <2>4. \/ shares'[s] = shares[s]
          \/ /\ s = args[r].share /\ shares[s] # Nothing /\ shares'[s] \in ShareRow
             /\ shares'[s].downloadCount = seen[r].share.downloadCount
             /\ shares'[s].maxDownloads = shares[s].maxDownloads
        BY <1>t, <2>2, <2>3 DEF ShareRow
    <2>. QED
        BY <2>1, <2>4 DEF CountFrame, WriteFrame, UnderwayFrame, RecordFrame, Underway
<1>8. CASE ReinsertShare(r)
    <2>1. pc[r] = "writeShare" /\ pc'[r] \in {"fetch", "failed"} /\ args' = args
        BY <1>8, <1>t DEF ReinsertShare
    <2>2. \/ pc'[r] = "fetch" /\ shares' = [shares EXCEPT ![args[r].share] = seen[r].share]
          \/ pc'[r] = "failed" /\ shares' = shares
        BY <1>8, <1>t DEF ReinsertShare
    <2>3. pc'[r] = "fetch" => seen' = seen
        BY <1>8, <1>t DEF ReinsertShare
    <2>4. seen[r].share \in ShareRow
        BY <1>t, <2>1 DEF ControlOK, Accessing
    <2>5. \/ shares'[s] = shares[s]
          \/ s = args[r].share /\ pc'[r] = "fetch" /\ shares'[s] = seen[r].share
        BY <1>t, <2>2
    <2>. QED
        BY <2>1, <2>3, <2>4, <2>5
           DEF CountFrame, WriteFrame, UnderwayFrame, RecordFrame, Underway
<1>9. CASE AccessFetch(r)
    <2>1. pc[r] = "fetch" /\ pc'[r] \in {"served", "missing"} /\ shares' = shares
        BY <1>9, <1>t DEF AccessFetch
    <2>. QED
        BY <2>1 DEF CountFrame, WriteFrame, UnderwayFrame, RecordFrame, Underway
<1>10. CASE RemovalBegin(r)
    <2>1. /\ pc[r] = "idle" /\ pc'[r] \in {"loadFile", "deleteBlobs", "refused"}
          /\ shares' = shares
        BY <1>10, <1>t DEF RemovalBegin, Arrive
    <2>. QED
        BY <1>o, <2>1 DEF Accessing
<1>11. CASE LoadFile(r) \/ WriteFile(r)
    <2>1. /\ pc[r] \in {"loadFile", "writeFile"}
          /\ pc'[r] \in {"writeFile", "done", "failed"} /\ shares' = shares
        BY <1>11, <1>t DEF LoadFile, WriteFile
    <2>. QED
        BY <1>o, <2>1 DEF Accessing
<1>12. CASE PurgeBlobs(r) \/ PurgeFile(r)
    <2>1. /\ pc[r] \in {"deleteBlobs", "deleteFile"}
          /\ pc'[r] \in {"deleteShares", "done", "failed"} /\ shares' = shares
        BY <1>12, <1>t DEF PurgeBlobs, PurgeFile
    <2>. QED
        BY <1>o, <2>1 DEF Accessing
<1>13. CASE PurgeShares(r)
    <2>1. /\ pc[r] = "deleteShares" /\ pc'[r] = "deleteFile"
          /\ \A q \in Request : shares'[q] \in {shares[q], Nothing}
        BY <1>13, <1>t DEF PurgeShares
    <2>. QED
        BY <1>o, <2>1 DEF Accessing
<1>14. CASE Abort(r)
    <2>1. /\ pc[r] \in Awaits /\ shares' = shares
          /\ pc'[r] = IF pc[r] = "fetch" THEN "wasted" ELSE "failed"
        BY <1>14, <1>t DEF Abort, InFlight
    <2>. QED
        BY <2>1 DEF CountFrame, WriteFrame, UnderwayFrame, RecordFrame, Underway, Awaits
<1>. QED
    BY <1>1, <1>2, <1>3, <1>4, <1>5, <1>6, <1>7, <1>8, <1>9, <1>10, <1>11, <1>12, <1>13,
       <1>14 DEF Step, Begin, Continue

\* Every copy of a share bears the same maximum.
AgreeOK(s) ==
    \A r \in Underway(s) :
        /\ shares[s] # Nothing => shares[s].maxDownloads = seen[r].share.maxDownloads
        /\ \A q \in Underway(s) :
               seen[q].share.maxDownloads = seen[r].share.maxDownloads

\* What the row counts, and what any handler may yet write into it.
WithinOK(s) ==
    /\ shares[s] # Nothing /\ shares[s].maxDownloads # Nothing =>
          shares[s].downloadCount = 0 \/ shares[s].downloadCount <= shares[s].maxDownloads
    /\ \A r \in Underway(s) :
          seen[r].share.maxDownloads # Nothing =>
              /\ seen[r].share.downloadCount <= seen[r].share.maxDownloads
              /\ pc[r] = "findFile" =>
                     seen[r].share.downloadCount < seen[r].share.maxDownloads

WithinInv == LinkInv /\ \A s \in Request : AgreeOK(s) /\ WithinOK(s)

LEMMA InitWithinInv == Init => WithinInv
BY InitLinkInv DEF Init, WithinInv, AgreeOK, WithinOK, Underway

LEMMA StepWithinInv == WithinInv /\ [Next]_vars => WithinInv'
<1> SUFFICES ASSUME WithinInv, [Next]_vars PROVE WithinInv'
    OBVIOUS
<1>t. LinkInv /\ LinkInv'
    BY StepLinkInv DEF WithinInv
<1>1. ASSUME NEW r \in Request, Step(r), NEW s \in Request
      PROVE  AgreeOK(s)' /\ WithinOK(s)'
    <2>1. /\ TypeOK /\ TypeOK' /\ Moves(r) /\ CountFrame(r, s) /\ LinkOK(s)
          /\ AgreeOK(s) /\ WithinOK(s) /\ TypeInv /\ TypeInv'
        BY <1>t, <1>1, StepMoves, StepCounts DEF WithinInv, LinkInv, TypeInv
    <2>2. \A q \in Underway(s)' \ {r} :
              q \in Underway(s) /\ seen'[q] = seen[q] /\ pc'[q] = pc[q]
        BY <2>1 DEF Moves, Underway
    <2>3. \A q \in Underway(s) : seen[q].share \in ShareRow
        BY <2>1 DEF TypeInv, ControlOK, Accessing, Underway
    <2>4. shares[s] # Nothing => shares[s] \in ShareRow
        BY <2>1 DEF TypeOK
    <2>5. Underway(s) # {} => pc[s] = "done"
        BY <2>1 DEF LinkOK
    \* The share as r holds it after the step, if r is on the way to s.
    <2>6. ASSUME r \in Underway(s)'
          PROVE  /\ \/ shares[s] # Nothing
                       /\ seen'[r].share.maxDownloads = shares[s].maxDownloads
                    \/ r \in Underway(s)
                       /\ seen'[r].share.maxDownloads = seen[r].share.maxDownloads
                 /\ seen'[r].share.maxDownloads # Nothing =>
                        /\ seen'[r].share.downloadCount <= seen'[r].share.maxDownloads
                        /\ pc'[r] = "findFile" =>
                               seen'[r].share.downloadCount < seen'[r].share.maxDownloads
        <3>1. CASE /\ pc[r] = "idle" /\ pc'[r] = "findFile"
                   /\ shares[s] # Nothing /\ IsValid(shares[s])
                   /\ seen'[r].share = shares[s]
            BY <2>4, <3>1 DEF IsValid, ShareRow
        <3>2. CASE /\ r \in Underway(s) /\ pc[r] = "findFile" /\ pc'[r] = "loadShare"
                   /\ seen'[r].share = RecordAccess(seen[r].share)
            BY <2>1, <2>3, <3>2 DEF WithinOK, RecordAccess, ShareRow
        <3>3. CASE /\ r \in Underway(s) /\ pc[r] \in {"loadShare", "writeShare"}
                   /\ pc'[r] \in {"writeShare", "fetch"}
                   /\ seen'[r].share = seen[r].share
            BY <2>1, <3>3 DEF WithinOK
        <3>. QED
            BY <2>1, <2>6, <3>1, <3>2, <3>3 DEF CountFrame, UnderwayFrame
    \* The row after the step.
    <2>7. ASSUME shares'[s] # Nothing
          PROVE  \/ shares'[s] = shares[s]
                 \/ /\ r \in Underway(s)
                    /\ shares'[s].maxDownloads = seen[r].share.maxDownloads
                    /\ shares'[s].downloadCount = seen[r].share.downloadCount
                 \/ Underway(s)' = {} /\ shares'[s].downloadCount = 0
        <3>1. CASE /\ r \in Underway(s) /\ pc[r] = "writeShare" /\ pc'[r] = "fetch"
                   /\ shares'[s] \in ShareRow
                   /\ shares'[s].downloadCount = seen[r].share.downloadCount
                   /\ \/ shares[s] # Nothing /\ shares'[s].maxDownloads = shares[s].maxDownloads
                      \/ shares'[s].maxDownloads = seen[r].share.maxDownloads
            BY <2>1, <3>1 DEF AgreeOK
        <3>2. CASE /\ r = s /\ pc[s] = "saveShare" /\ pc'[s] = "cacheShare"
                   /\ shares'[s] = seen[s].share
            <4>1. seen[s].share.downloadCount = 0
                BY <2>1, <3>2 DEF TypeInv, ControlOK
            <4>2. Underway(s) = {} /\ r \notin Underway(s)'
                BY <2>5, <3>2 DEF Underway
            <4>. QED
                BY <2>2, <3>2, <4>1, <4>2
        <3>. QED
            BY <2>1, <2>7, <3>1, <3>2 DEF CountFrame, WriteFrame
    <2>8. AgreeOK(s)'
        <3> SUFFICES ASSUME NEW p \in Underway(s)'
                     PROVE  /\ shares'[s] # Nothing =>
                                  shares'[s].maxDownloads = seen'[p].share.maxDownloads
                            /\ \A q \in Underway(s)' :
                                  seen'[q].share.maxDownloads = seen'[p].share.maxDownloads
            BY DEF AgreeOK
        <3>. QED
            BY <2>1, <2>2, <2>6, <2>7 DEF AgreeOK
    <2>9. WithinOK(s)'
        <3>1. ASSUME shares'[s] # Nothing, shares'[s].maxDownloads # Nothing
              PROVE  \/ shares'[s].downloadCount = 0
                     \/ shares'[s].downloadCount <= shares'[s].maxDownloads
            BY <2>1, <2>7, <3>1 DEF WithinOK
        <3>2. ASSUME NEW q \in Underway(s)', seen'[q].share.maxDownloads # Nothing
              PROVE  /\ seen'[q].share.downloadCount <= seen'[q].share.maxDownloads
                     /\ pc'[q] = "findFile" =>
                            seen'[q].share.downloadCount < seen'[q].share.maxDownloads
            BY <2>1, <2>2, <2>6, <3>2 DEF WithinOK
        <3>. QED
            BY <3>1, <3>2 DEF WithinOK
    <2>. QED
        BY <2>8, <2>9
<1>2. CASE Tick \/ UNCHANGED vars
    BY <1>2, <1>t DEF Tick, vars, WithinInv, AgreeOK, WithinOK, Underway
<1>. QED
    BY <1>t, <1>1, <1>2 DEF WithinInv, Next, Step, Idle

\* CountWithinMax (Share.isValid, AccessSharedFileUseCase): stale counts overwrite each
\* other, but none that passes the maximum is ever written.
THEOREM CountStaysWithinMax == Spec => []CountWithinMax
<1>1. WithinInv => CountWithinMax
    BY DEF WithinInv, WithinOK, CountWithinMax
<1>. QED
    BY <1>1, InitWithinInv, StepWithinInv, PTL DEF Spec

\* The row and every handler count only accesses that were recorded, and a handler
\* past its check also itself.
BackedOK(s) ==
    /\ IsFiniteSet(Recorded(s))
    /\ shares[s] # Nothing => shares[s].downloadCount <= Cardinality(Recorded(s))
    /\ \A r \in Underway(s) :
          /\ pc[r] = "findFile" => seen[r].share.downloadCount <= Cardinality(Recorded(s))
          /\ pc[r] \in {"loadShare", "writeShare"} =>
                seen[r].share.downloadCount <= Cardinality(Recorded(s)) + 1

BackedInv == LinkInv /\ \A s \in Request : BackedOK(s)

LEMMA InitBackedInv == Init => BackedInv
<1> SUFFICES ASSUME Init PROVE BackedInv
    OBVIOUS
<1>1. ASSUME NEW s \in Request PROVE Recorded(s) = {} /\ Underway(s) = {}
    BY DEF Init, Recorded, Underway
<1>. QED
    BY <1>1, InitLinkInv, FS_EmptySet DEF BackedInv, BackedOK, Init

\* A step of r records r, or nobody.
LEMMA StepRecorded ==
    ASSUME LinkInv, NEW r \in Request, Step(r), NEW s \in Request, IsFiniteSet(Recorded(s))
    PROVE  /\ IsFiniteSet(Recorded(s)') /\ Cardinality(Recorded(s)) \in Nat
           /\ \/ Cardinality(Recorded(s)') = Cardinality(Recorded(s))
              \/ Cardinality(Recorded(s)') = Cardinality(Recorded(s)) + 1
           /\ r \in Underway(s) /\ pc[r] = "writeShare" /\ pc'[r] = "fetch" =>
                 Cardinality(Recorded(s)') = Cardinality(Recorded(s)) + 1
<1>1. Moves(r) /\ RecordFrame(r)
    BY StepMoves, StepCounts DEF LinkInv, CountFrame
<1>2. Cardinality(Recorded(s)) \in Nat
    BY FS_CardinalityType
<1>3. CASE pc'[r] = "fetch" /\ args'[r].share = s
    <2>1. r \notin Recorded(s) /\ Recorded(s)' = Recorded(s) \cup {r}
        BY <1>1, <1>3 DEF Moves, RecordFrame, Recorded
    <2>. QED
        BY <1>2, <2>1, FS_AddElement
<1>4. CASE ~(pc'[r] = "fetch" /\ args'[r].share = s)
    <2>1. r \in Recorded(s)' <=> r \in Recorded(s)
        BY <1>1, <1>4 DEF Moves, Awaits, RecordFrame, Recorded
    <2>2. \A q \in Request \ {r} : q \in Recorded(s)' <=> q \in Recorded(s)
        BY <1>1 DEF Moves, Recorded
    <2>3. Recorded(s)' = Recorded(s)
        BY <2>1, <2>2 DEF Recorded
    <2>4. ~(r \in Underway(s) /\ pc[r] = "writeShare" /\ pc'[r] = "fetch")
        BY <1>1, <1>4 DEF Moves, Underway
    <2>. QED
        BY <1>2, <2>3, <2>4
<1>. QED
    BY <1>3, <1>4

LEMMA StepBackedInv == BackedInv /\ [Next]_vars => BackedInv'
<1> SUFFICES ASSUME BackedInv, [Next]_vars PROVE BackedInv'
    OBVIOUS
<1>t. LinkInv /\ LinkInv'
    BY StepLinkInv DEF BackedInv
<1>1. ASSUME NEW r \in Request, Step(r), NEW s \in Request
      PROVE  BackedOK(s)'
    <2>1. /\ TypeOK /\ TypeInv /\ Moves(r) /\ CountFrame(r, s) /\ LinkOK(s) /\ BackedOK(s)
        BY <1>t, <1>1, StepMoves, StepCounts DEF BackedInv, LinkInv, TypeInv
    <2> DEFINE n == Cardinality(Recorded(s))
    <2>2. /\ IsFiniteSet(Recorded(s)') /\ n \in Nat /\ (n' = n \/ n' = n + 1)
          /\ r \in Underway(s) /\ pc[r] = "writeShare" /\ pc'[r] = "fetch" => n' = n + 1
        BY <1>t, <1>1, <2>1, StepRecorded DEF BackedOK
    <2> HIDE DEF n
    <2>3. \A q \in Underway(s) : seen[q].share.downloadCount \in Nat
        BY <2>1 DEF TypeInv, ControlOK, Accessing, Underway, ShareRow
    <2>4. shares[s] # Nothing => shares[s].downloadCount \in Nat
        BY <2>1 DEF TypeOK, ShareRow
    <2>5. /\ shares[s] # Nothing => shares[s].downloadCount <= n
          /\ \A q \in Underway(s) :
                /\ pc[q] = "findFile" => seen[q].share.downloadCount <= n
                /\ pc[q] \in {"loadShare", "writeShare"} =>
                      seen[q].share.downloadCount <= n + 1
        BY <2>1 DEF BackedOK, n
    <2>6. ASSUME shares'[s] # Nothing PROVE shares'[s].downloadCount <= n'
        <3>1. CASE shares'[s] = shares[s]
            BY <2>2, <2>4, <2>5, <2>6, <3>1
        <3>2. CASE /\ r \in Underway(s) /\ pc[r] = "writeShare" /\ pc'[r] = "fetch"
                   /\ shares'[s].downloadCount = seen[r].share.downloadCount
            BY <2>2, <2>3, <2>5, <3>2
        <3>3. CASE pc[s] = "saveShare" /\ shares'[s] = seen[s].share
            BY <2>1, <2>2, <3>3 DEF TypeInv, ControlOK
        <3>. QED
            BY <2>1, <2>6, <3>1, <3>2, <3>3 DEF CountFrame, WriteFrame
    <2>7. ASSUME NEW q \in Underway(s)'
          PROVE  /\ pc'[q] = "findFile" => seen'[q].share.downloadCount <= n'
                 /\ pc'[q] \in {"loadShare", "writeShare"} =>
                       seen'[q].share.downloadCount <= n' + 1
        <3>1. CASE q # r
            <4>1. q \in Underway(s) /\ seen'[q] = seen[q] /\ pc'[q] = pc[q]
                BY <2>1, <2>7, <3>1 DEF Moves, Underway
            <4>. QED
                BY <2>2, <2>3, <2>5, <4>1
        <3>2. CASE q = r
            <4>1. CASE /\ pc'[r] = "findFile"
                       /\ shares[s] # Nothing /\ seen'[r].share = shares[s]
                BY <2>2, <2>4, <2>5, <3>2, <4>1
            <4>2. CASE /\ r \in Underway(s) /\ pc[r] = "findFile" /\ pc'[r] = "loadShare"
                       /\ seen'[r].share = RecordAccess(seen[r].share)
                <5>1. seen[r].share \in ShareRow
                    BY <2>1, <4>2 DEF TypeInv, ControlOK, Accessing
                <5>2. seen'[r].share.downloadCount = seen[r].share.downloadCount + 1
                    BY <4>2, <5>1 DEF RecordAccess, ShareRow
                <5>. QED
                    BY <2>2, <2>3, <2>5, <3>2, <4>2, <5>2
            <4>3. CASE /\ r \in Underway(s) /\ pc[r] \in {"loadShare", "writeShare"}
                       /\ pc'[r] \in {"writeShare", "fetch"}
                       /\ seen'[r].share = seen[r].share
                BY <2>2, <2>3, <2>5, <3>2, <4>3
            <4>. QED
                BY <2>1, <2>7, <3>2, <4>1, <4>2, <4>3 DEF CountFrame, UnderwayFrame
        <3>. QED
            BY <3>1, <3>2
    <2>. QED
        BY <2>2, <2>6, <2>7 DEF BackedOK, n
<1>2. CASE Tick \/ UNCHANGED vars
    <2>1. \A s \in Request : Recorded(s)' = Recorded(s) /\ Underway(s)' = Underway(s)
        BY <1>2 DEF Tick, vars, Recorded, Underway
    <2>2. UNCHANGED <<shares, pc, seen>>
        BY <1>2 DEF Tick, vars
    <2>. QED
        BY <1>t, <2>1, <2>2 DEF BackedInv, BackedOK
<1>. QED
    BY <1>t, <1>1, <1>2 DEF BackedInv, Next, Step, Idle

\* CountIsBacked (Share.recordAccess, AccessSharedFileUseCase): no access is counted
\* twice, whatever the order of the saves and even if one brings the row back.
THEOREM CountsAreBacked == Spec => []CountIsBacked
<1>1. BackedInv => CountIsBacked
    BY DEF BackedInv, BackedOK, CountIsBacked
<1>. QED
    BY <1>1, InitBackedInv, StepBackedInv, PTL DEF Spec

-----------------------------------------------------------------------------
LEMMA StepOver ==
    ASSUME LinkInv, [Next]_vars, NEW s \in Request, Over(s)
    PROVE  Over(s)'
<1>1. /\ TypeOK /\ pc[s] \notin {"idle", "saveShare"} /\ Underway(s) = {}
      /\ \/ shares[s] = Nothing
         \/ shares[s].expiresAt < now
         \/ shares[s].maxDownloads # Nothing
            /\ shares[s].maxDownloads <= shares[s].downloadCount
    BY DEF Over, LinkInv, TypeInv
<1>2. ASSUME NEW r \in Request, Step(r) PROVE Over(s)'
    <2>1. Moves(r) /\ CountFrame(r, s) /\ now' = now
        <3>1. now' = now
            BY <1>2 DEF Step, Begin, Continue, GenerateBegin, AccessBegin, RemovalBegin,
                        SaveShare, CacheShare, AccessFindFile, LoadShare, UpdateShare,
                        ReinsertShare, AccessFetch, LoadFile, WriteFile, PurgeBlobs,
                        PurgeShares, PurgeFile, Abort
        <3>. QED
            BY <1>2, <3>1, StepMoves, StepCounts DEF LinkInv
    <2>2. pc'[s] \notin {"idle", "saveShare"}
        BY <1>1, <2>1 DEF Moves
    <2>3. shares'[s] = shares[s] \/ shares'[s] = Nothing
        BY <1>1, <2>1 DEF CountFrame, WriteFrame
    <2>4. r \notin Underway(s)'
        <3>1. shares[s] # Nothing => shares[s] \in ShareRow
            BY <1>1 DEF TypeOK
        <3>2. ~(shares[s] # Nothing /\ IsValid(shares[s]))
            BY <1>1, <3>1, SharesAssumption DEF IsValid, ShareRow, TypeOK
        <3>. QED
            BY <1>1, <2>1, <3>2 DEF CountFrame, UnderwayFrame
    <2>5. Underway(s)' = {}
        BY <1>1, <2>1, <2>4 DEF Moves, Underway
    <2>. QED
        BY <1>1, <2>1, <2>2, <2>3, <2>5 DEF Over
<1>3. CASE Tick
    <2>1. /\ now' = now + 1 /\ UNCHANGED <<shares, pc, args>>
        BY <1>3 DEF Tick
    <2>2. shares[s] # Nothing => shares[s] \in ShareRow
        BY <1>1 DEF TypeOK
    <2>3. Underway(s)' = {}
        BY <1>1, <2>1 DEF Underway
    <2>4. shares[s] # Nothing /\ shares[s].expiresAt < now => shares[s].expiresAt < now'
        BY <1>1, <2>1, <2>2, SharesAssumption DEF TypeOK, ShareRow
    <2>. QED
        BY <1>1, <2>1, <2>3, <2>4 DEF Over
<1>4. CASE UNCHANGED vars
    BY <1>4 DEF vars, Over, Underway
<1>. QED
    BY <1>2, <1>3, <1>4 DEF Next, Step, Idle

\* OverStaysOver (AccessSharedFileUseCase): once a link is gone, expired or used up and
\* the accesses that found it valid are through, it never serves again.
THEOREM LinksStayOver == Spec => OverStaysOver
<1>1. LinkInv /\ [Next]_vars => [\A s \in Request : Over(s) => Over(s)']_vars
    BY StepOver
<1>. QED
    BY <1>1, InitLinkInv, StepLinkInv, PTL DEF Spec, OverStaysOver
=============================================================================
