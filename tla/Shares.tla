------------------------------- MODULE Shares -------------------------------
(***************************************************************************)
(* Share links: GenerateShareUrlUseCase and AccessSharedFileUseCase over   *)
(* the shares table, with the deletes of the files they name and the clock. *)
(*                                                                         *)
(* As in FileStore an action is one awaited call with the synchronous code *)
(* up to the next await, and save() is a SELECT followed by an UPDATE or an *)
(* INSERT.  A share has the identity of the request that generates it, for *)
(* its id and for its token.  Time is in hours.                            *)
(***************************************************************************)
EXTENDS Integers, FiniteSets

CONSTANTS
    Request,      \* HTTP requests, also the shares they generate
    File,         \* files that were uploaded
    Lifetime,     \* values of expiresInHours, which nothing validates
    MaxDownloads, \* values of maxDownloads, which nothing validates
    Horizon,      \* bound: where the clock stops
    MaxInFlight,  \* bound: how many requests are open at once
    Faults,       \* TRUE: awaited calls may reject and the process may crash
    Nothing       \* null: no row, no limit

ASSUMPTION SharesAssumption ==
    /\ Lifetime \subseteq Int
    /\ MaxDownloads \subseteq Int \cup {Nothing}
    /\ Horizon \in Nat
    /\ MaxInFlight \in Nat
    /\ Faults \in BOOLEAN
    /\ Nothing \notin Int

VARIABLES
    now,       \* the clock
    files,     \* files: a row or Nothing, by file id
    contents,  \* the files whose content is in the blob store
    shares,    \* shares: a row or Nothing, by share id
    pc,        \* the await each request is at
    args,      \* what each request asks for
    seen       \* the handler's entities

vars == <<now, files, contents, shares, pc, args, seen>>

FileRow == [status : {"active", "deleted"}, scanClear : BOOLEAN]

ShareRow == [fileId : File, expiresAt : Int, maxDownloads : Int \cup {Nothing},
             downloadCount : Nat]

ASSUMPTION NoRowAssumption == Nothing \notin FileRow \cup ShareRow

\* file is what a generate or a removal names, share what an access names.
Call == [op : {"generate", "access", "delete", "purge"},
         file : File \cup {Nothing}, share : Request \cup {Nothing}, hours : Int]

\* The entities a handler holds, and what save()'s SELECT saw of the same row.
Locals == [share : ShareRow \cup {Nothing}, shareRow : ShareRow \cup {Nothing},
           file : FileRow \cup {Nothing}, fileRow : FileRow \cup {Nothing}]

NoLocals == [share |-> Nothing, shareRow |-> Nothing, file |-> Nothing, fileRow |-> Nothing]

Awaits == {"saveShare", "cacheShare", "findFile", "loadShare", "writeShare", "fetch",
           "loadFile", "writeFile", "deleteBlobs", "deleteShares", "deleteFile"}

\* An access that failed after it was counted is wasted or, if the content was not
\* there, missing.
Answered == {"done", "served", "missing", "wasted", "refused", "failed"}

InFlight(r) == pc[r] \in Awaits

SharesOf(f) == {s \in Request : shares[s] # Nothing /\ shares[s].fileId = f}

Goto(r, label) == pc' = [pc EXCEPT ![r] = label]

Learn(r, locals) == seen' = [seen EXCEPT ![r] = locals]

Answer(r, label) == Goto(r, label) /\ Learn(r, NoLocals)

Arrive(r, call) ==
    /\ pc[r] = "idle"
    /\ Cardinality({q \in Request : InFlight(q)}) < MaxInFlight
    /\ args' = [args EXCEPT ![r] = call]

-----------------------------------------------------------------------------
(* Entity methods. *)

\* Mutant: one download too many.
IsValidOnceMore(share) ==
    /\ now <= share.expiresAt
    /\ share.maxDownloads # Nothing => share.downloadCount <= share.maxDownloads

\* Mutant: the expiry is forgotten.
IsValidForever(share) ==
    share.maxDownloads # Nothing => share.downloadCount < share.maxDownloads

\* revoke has no caller, so isRevoked is never set.
IsValid(share) ==
    /\ now <= share.expiresAt
    /\ share.maxDownloads # Nothing => share.downloadCount < share.maxDownloads

\* Mutant: counts what is left.
RecordAccessDown(share) == [share EXCEPT !.downloadCount = @ - 1]

\* Mutant: counted by the entity and by the handler.
RecordAccessTwice(share) == [share EXCEPT !.downloadCount = @ + 2]

RecordAccess(share) == [share EXCEPT !.downloadCount = @ + 1]

-----------------------------------------------------------------------------
Init ==
    /\ now = 0
    /\ files \in [File -> [status : {"active"}, scanClear : BOOLEAN]]
    /\ contents = File
    /\ shares = [s \in Request |-> Nothing]
    /\ pc = [r \in Request |-> "idle"]
    /\ args = [r \in Request |-> Nothing]
    /\ seen = [r \in Request |-> NoLocals]

Tick ==
    /\ now < Horizon
    /\ now' = now + 1
    /\ UNCHANGED <<files, contents, shares, pc, args, seen>>

-----------------------------------------------------------------------------
(* GenerateShareUrlUseCase.execute. *)

\* permitted: the requester is the owner or an admin.
GenerateBegin(r) ==
    \E f \in File, hours \in Lifetime, max \in MaxDownloads, permitted \in BOOLEAN :
        /\ Arrive(r, [op |-> "generate", file |-> f, share |-> Nothing, hours |-> hours])
        /\ IF /\ files[f] # Nothing
              /\ files[f].status # "deleted"
              /\ permitted
              /\ files[f].scanClear
              THEN /\ Goto(r, "saveShare")
                   /\ Learn(r, [NoLocals EXCEPT !.share =
                          [fileId |-> f, expiresAt |-> now + hours,
                           maxDownloads |-> max, downloadCount |-> 0]])
              ELSE Answer(r, "refused")
        /\ UNCHANGED <<now, files, contents, shares>>

\* Mutant: the rejection of the insert is swallowed.
SaveShareSwallowed(r) ==
    /\ pc[r] = "saveShare"
    /\ Goto(r, "cacheShare")
    /\ \/ files[args[r].file] # Nothing /\ shares' = [shares EXCEPT ![r] = seen[r].share]
       \/ (files[args[r].file] = Nothing \/ Faults) /\ UNCHANGED shares
    /\ UNCHANGED <<now, files, contents, args, seen>>

\* The foreign key refuses a share of a file that is gone.
SaveShare(r) ==
    /\ pc[r] = "saveShare"
    /\ IF files[args[r].file] # Nothing
          THEN /\ shares' = [shares EXCEPT ![r] = seen[r].share]
               /\ Goto(r, "cacheShare")
               /\ UNCHANGED seen
          ELSE Answer(r, "failed") /\ UNCHANGED shares
    /\ UNCHANGED <<now, files, contents, args>>

\* Redis refuses SETEX with a negative time; no time at all is a plain SET.
CacheShare(r) ==
    /\ pc[r] = "cacheShare"
    /\ Answer(r, IF args[r].hours < 0 THEN "failed" ELSE "done")
    /\ UNCHANGED <<now, files, contents, shares, args>>

-----------------------------------------------------------------------------
(* AccessSharedFileUseCase.execute. *)

\* The tokens a client can present: those it was answered, and an unknown one.
Tokens(r) == {r} \cup {s \in Request : pc[s] = "done" /\ args[s].op = "generate"}

\* listed: the client names no address, or one the share allows.
AccessBegin(r) ==
    \E s \in Tokens(r), listed \in BOOLEAN :
        /\ Arrive(r, [op |-> "access", file |-> Nothing, share |-> s, hours |-> 0])
        /\ IF shares[s] # Nothing /\ IsValid(shares[s]) /\ listed
              THEN /\ Goto(r, "findFile")
                   /\ Learn(r, [NoLocals EXCEPT !.share = shares[s]])
              ELSE Answer(r, "refused")
        /\ UNCHANGED <<now, files, contents, shares>>

AccessFindFile(r) ==
    LET file == files[seen[r].share.fileId] IN
    /\ pc[r] = "findFile"
    /\ IF file # Nothing /\ file.status = "active" /\ file.scanClear
          THEN /\ Goto(r, "loadShare")
               /\ Learn(r, [seen[r] EXCEPT !.share = RecordAccess(@)])
          ELSE Answer(r, "refused")
    /\ UNCHANGED <<now, files, contents, shares, args>>

\* save()'s SELECT.
LoadShare(r) ==
    /\ pc[r] = "loadShare"
    /\ Learn(r, [seen[r] EXCEPT !.shareRow = shares[args[r].share]])
    /\ Goto(r, "writeShare")
    /\ UNCHANGED <<now, files, contents, shares, args>>

\* save()'s UPDATE of the count, if the SELECT saw another; of no row if it has gone.
UpdateShare(r) ==
    LET s == args[r].share
        share == seen[r].share
    IN
    /\ pc[r] = "writeShare"
    /\ seen[r].shareRow # Nothing
    /\ shares' =
          IF shares[s] # Nothing /\ share.downloadCount # seen[r].shareRow.downloadCount
          THEN [shares EXCEPT ![s].downloadCount = share.downloadCount]
          ELSE shares
    /\ Goto(r, "fetch")
    /\ UNCHANGED <<now, files, contents, args, seen>>

\* save()'s INSERT when the SELECT found no row.  The primary key refuses it if
\* another access was first, the foreign key if the file is gone.
ReinsertShare(r) ==
    LET s == args[r].share IN
    /\ pc[r] = "writeShare"
    /\ seen[r].shareRow = Nothing
    /\ IF shares[s] = Nothing /\ files[seen[r].share.fileId] # Nothing
          THEN /\ shares' = [shares EXCEPT ![s] = seen[r].share]
               /\ Goto(r, "fetch")
               /\ UNCHANGED seen
          ELSE Answer(r, "failed") /\ UNCHANGED shares
    /\ UNCHANGED <<now, files, contents, args>>

AccessFetch(r) ==
    /\ pc[r] = "fetch"
    /\ Answer(r, IF seen[r].share.fileId \in contents THEN "served" ELSE "missing")
    /\ UNCHANGED <<now, files, contents, shares, args>>

-----------------------------------------------------------------------------
(* DeleteFileUseCase.execute, as far as shares can see it: FileStore has the  *)
(* version rows and the quota.                                              *)

\* permitted: the requester is the owner or an admin, and an admin for a purge.
RemovalBegin(r) ==
    \E op \in {"delete", "purge"}, f \in File, permitted \in BOOLEAN :
        /\ Arrive(r, [op |-> op, file |-> f, share |-> Nothing, hours |-> 0])
        /\ IF files[f] # Nothing /\ files[f].status # "deleted" /\ permitted
              THEN IF op = "delete"
                   THEN /\ Goto(r, "loadFile")
                        /\ Learn(r, [NoLocals EXCEPT !.file =
                                         [files[f] EXCEPT !.status = "deleted"]])
                   ELSE Goto(r, "deleteBlobs") /\ UNCHANGED seen
              ELSE Answer(r, "refused")
        /\ UNCHANGED <<now, files, contents, shares>>

\* save()'s SELECT.
LoadFile(r) ==
    /\ pc[r] = "loadFile"
    /\ Learn(r, [seen[r] EXCEPT !.fileRow = files[args[r].file]])
    /\ Goto(r, "writeFile")
    /\ UNCHANGED <<now, files, contents, shares, args>>

\* Mutant: a soft delete frees the content at once.
WriteFileAndFree(r) ==
    LET f == args[r].file IN
    /\ pc[r] = "writeFile"
    /\ files' = IF files[f] = Nothing THEN files ELSE [files EXCEPT ![f] = seen[r].file]
    /\ contents' = contents \ {f}
    /\ Answer(r, "done")
    /\ UNCHANGED <<now, shares, args>>

\* save()'s UPDATE of the status, of no row if it has gone, or the INSERT if the
\* SELECT found none, which the primary key refuses if another was first.
WriteFile(r) ==
    LET f == args[r].file
        inserts == seen[r].fileRow = Nothing
    IN
    /\ pc[r] = "writeFile"
    /\ IF inserts /\ files[f] # Nothing
          THEN Answer(r, "failed") /\ UNCHANGED files
          ELSE /\ Answer(r, "done")
               /\ files' = IF inserts \/ files[f] # Nothing
                           THEN [files EXCEPT ![f] = seen[r].file]
                           ELSE files
    /\ UNCHANGED <<now, contents, shares, args>>

\* The loop over the versions; a rejected delete is swallowed.
PurgeBlobs(r) ==
    /\ pc[r] = "deleteBlobs"
    /\ contents' = contents \ {args[r].file} \/ (Faults /\ UNCHANGED contents)
    /\ Goto(r, "deleteShares")
    /\ UNCHANGED <<now, files, shares, args, seen>>

PurgeShares(r) ==
    /\ pc[r] = "deleteShares"
    /\ shares' = [s \in Request |-> IF s \in SharesOf(args[r].file) THEN Nothing
                                                                    ELSE shares[s]]
    /\ Goto(r, "deleteFile")
    /\ UNCHANGED <<now, files, contents, args, seen>>

\* The foreign key keeps a file that has shares.
PurgeFile(r) ==
    LET f == args[r].file IN
    /\ pc[r] = "deleteFile"
    /\ IF SharesOf(f) = {}
          THEN files' = [files EXCEPT ![f] = Nothing] /\ Answer(r, "done")
          ELSE Answer(r, "failed") /\ UNCHANGED files
    /\ UNCHANGED <<now, contents, shares, args>>

-----------------------------------------------------------------------------
\* A call rejects, or the process dies.
Abort(r) ==
    /\ Faults
    /\ InFlight(r)
    /\ Answer(r, IF pc[r] = "fetch" THEN "wasted" ELSE "failed")
    /\ UNCHANGED <<now, files, contents, shares, args>>

Begin(r) == GenerateBegin(r) \/ AccessBegin(r) \/ RemovalBegin(r)

Continue(r) ==
    \/ SaveShare(r) \/ CacheShare(r)
    \/ AccessFindFile(r) \/ LoadShare(r) \/ UpdateShare(r) \/ ReinsertShare(r)
    \/ AccessFetch(r)
    \/ LoadFile(r) \/ WriteFile(r)
    \/ PurgeBlobs(r) \/ PurgeShares(r) \/ PurgeFile(r)

Idle == (\A r \in Request : pc[r] \in Answered) /\ UNCHANGED vars

Next == Tick \/ (\E r \in Request : Begin(r) \/ Continue(r) \/ Abort(r)) \/ Idle

Spec == Init /\ [][Next]_vars

-----------------------------------------------------------------------------
\* The clock, the tables, the blob store and the handlers keep their shapes.
TypeOK ==
    /\ now \in 0 .. Horizon
    /\ files \in [File -> FileRow \cup {Nothing}]
    /\ contents \subseteq File
    /\ shares \in [Request -> ShareRow \cup {Nothing}]
    /\ pc \in [Request -> {"idle"} \cup Awaits \cup Answered]
    /\ args \in [Request -> Call \cup {Nothing}]
    /\ seen \in [Request -> Locals]

\* Accesses of s that have been counted, and those of them that got the content.
Recorded(s) ==
    {r \in Request : /\ pc[r] \in {"fetch", "served", "missing", "wasted"}
                     /\ args[r].share = s}
Served(s) == {r \in Recorded(s) : pc[r] = "served"}

\* Accesses that found s valid and are not through.
Underway(s) ==
    {r \in Request : /\ pc[r] \in {"findFile", "loadShare", "writeShare", "fetch"}
                     /\ args[r].share = s}

PurgeBegun(f) ==
    \E r \in Request : /\ pc[r] \notin {"idle", "refused"}
                       /\ args[r].op = "purge" /\ args[r].file = f

\* Whatever stale counts overwrite each other, the recorded count never passes the
\* maximum the client set.
CountWithinMax ==
    \A s \in Request :
        shares[s] # Nothing /\ shares[s].maxDownloads # Nothing =>
            shares[s].downloadCount = 0 \/ shares[s].downloadCount <= shares[s].maxDownloads

\* No access is counted twice, and none that was refused or failed before its save:
\* the count never exceeds the accesses recorded, a share brought back included.
CountIsBacked ==
    \A s \in Request :
        shares[s] # Nothing => shares[s].downloadCount <= Cardinality(Recorded(s))

\* A link handed out stays usable in the database until an admin purges its file.
AnsweredShareKept ==
    \A s \in Request :
        pc[s] = "done" /\ args[s].op = "generate" /\ ~PurgeBegun(args[s].file) =>
            shares[s] # Nothing

\* The content of a share that passed its checks is missing only if the file is
\* being purged.
AccessMissesOnlyPurged ==
    \A r \in Request : pc[r] = "missing" => PurgeBegun(args[args[r].share].file)

\* A link is over: its row is gone, or expired, or used up, and no access that found
\* it valid is still open.
Over(s) ==
    /\ pc[s] \notin {"idle", "saveShare"}
    /\ \/ shares[s] = Nothing
       \/ shares[s].expiresAt < now
       \/ /\ shares[s].maxDownloads # Nothing
          /\ shares[s].maxDownloads <= shares[s].downloadCount
    /\ Underway(s) = {}

\* A link that is over stays over: stale saves can set the count back or bring the
\* row back only while an earlier access is open.
OverStaysOver == [][\A s \in Request : Over(s) => Over(s)']_vars

\* "Temporary Share URLs - Token-based sharing with expiry, max downloads" (README):
\* a link serves its content at most maxDownloads times.
ServedWithinMax ==
    \A s \in Request :
        shares[s] # Nothing /\ shares[s].maxDownloads # Nothing /\ Served(s) # {} =>
            Cardinality(Served(s)) <= shares[s].maxDownloads
=============================================================================
