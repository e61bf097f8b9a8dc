-------------------------- MODULE FileStoreSerial --------------------------
(***************************************************************************)
(* The file use cases when each request is answered before the next one    *)
(* arrives and no awaited call fails (MaxInFlight = 1, Faults = FALSE):    *)
(* the behaviour the code is written for, shown to implement FileContract. *)
(***************************************************************************)
EXTENDS Listing

Sets == INSTANCE FiniteSetsExt

\* An upload commits with the last row it writes before the users row, a removal
\* with the write or the delete of the files row.  Afterwards only the charge is
\* outstanding.
Committed(r) ==
    \/ pc[r] \in {"loadUser", "writeUser"} /\ args[r].op # "login"
    \/ pc[r] = "findOwner"

\* A file row whose first version row is still to come is not yet a file.
DriveFile(f) ==
    IF files[f] # Nothing
    THEN IF pc[f] = "insertFirstVersion" THEN Nothing
         ELSE [ownerId |-> files[f].ownerId, sizeBytes |-> files[f].sizeBytes,
               status |-> files[f].status, versionCount |-> files[f].versionCount]
    ELSE IF PurgeBegun(f) THEN [status |-> "purged"] ELSE Nothing

\* The users row once the outstanding charge or reclaim is through.
ChargedTo(u) ==
    LET due == {r \in Request : Committed(r) /\ Account(r) = u}
        Settled(r) == IF pc[r] = "findOwner"
                      THEN DecrementStorage(used[u], seen[r].file.sizeBytes)
                      ELSE UsageToWrite(r)
    IN IF due = {} THEN used[u] ELSE Settled(CHOOSE r \in due : TRUE)

\* Null is no file of the contract.
ASSUMPTION ContractAssumption ==
    Nothing \notin [ownerId : User, sizeBytes : Nat, status : {"active", "deleted"},
                    versionCount : Nat \ {0}] \cup {[status |-> "purged"]}

Contract == INSTANCE FileContract
                WITH File <- Request,
                     drive <- [f \in Request |-> DriveFile(f)],
                     charged <- [u \in User |-> ChargedTo(u)]

\* Served one at a time, uploads and deletes are the atomic transitions of
\* FileContract: permission, quota, state and usage change together or not at all.
ImplementsContract == Contract!Spec

AtRest == \A r \in Request : ~InFlight(r)

\* Between requests the versions of a file are numbered 1 .. versionCount without
\* repetition, currentVersionId is the newest and scanStatus is that upload's
\* verdict.
HistoryIsExact ==
    AtRest =>
        \A f \in Request :
            files[f] # Nothing =>
                LET row == files[f]
                    newest == IF row.currentVersionId = Nothing THEN f
                                                            ELSE row.currentVersionId
                IN /\ Cardinality(VersionsOf(f)) = row.versionCount
                   /\ {versions[v].versionNumber : v \in VersionsOf(f)}
                          = 1 .. row.versionCount
                   /\ newest \in VersionsOf(f)
                   /\ versions[newest].versionNumber = row.versionCount
                   /\ row.scanStatus = args[newest].verdict

\* A purge removes every trace of the file: the row, its versions and the content
\* of each of them.
PurgeIsComplete ==
    \A r \in Request :
        pc[r] = "done" /\ args[r].op = "purge" =>
            LET f == args[r].target IN
            /\ files[f] = Nothing
            /\ VersionsOf(f) = {}
            /\ \A v \in blobs : args[v].target = f => pc[v] = "refused" \/ InFlight(v)

\* Between requests the usage of an account covers the content it uploaded to files
\* that are listed, versions of other users' files included: what hasStorageAvailable
\* limits is at least that.
QuotaCoversContent ==
    AtRest =>
        \A u \in User :
            LET content == {v \in Request : /\ versions[v] # Nothing
                                           /\ args[v].user = u
                                           /\ files[versions[v].fileId].status = "active"}
            IN Sets!MapThenSumSet(LAMBDA v : args[v].size, content) <= used[u]

\* Every request is answered: no handler waits for another.
EveryRequestAnswered ==
    \A r \in Request : InFlight(r) ~> pc[r] \in Answered
=============================================================================
