-------------------------- MODULE FileStoreClaims --------------------------
(***************************************************************************)
(* What comments and documents of the repository say of the file use       *)
(* cases, where the code does something else.                              *)
(***************************************************************************)
EXTENDS FileStore, FiniteSetsExt

StillDeleted(f) == files[f] = Nothing \/ files[f].status = "deleted"

\* "Soft delete: mark as deleted" and "Hard delete: remove from storage and DB"
\* (DeleteFileUseCase): a file whose delete was answered is not active again, and
\* one whose purge was answered has no row.
DeletionIsFinal ==
    \A r \in Request :
        pc[r] = "done" /\ args[r].op \in Removal =>
            /\ StillDeleted(args[r].target)
            /\ args[r].op = "purge" => files[args[r].target] = Nothing

\* The bytes of the uploads charged to a user on files that are not deleted.
ChargesOutstanding(u) ==
    MapThenSumSet(LAMBDA r : args[r].size,
                  {r \in Request : /\ pc[r] = "done"
                                   /\ args[r].op \in Upload
                                   /\ args[r].user = u
                                   /\ ~StillDeleted(args[r].target)})

\* "reclaim quota" (DeleteFileUseCase): when a delete is answered, its owner is
\* charged for exactly the uploads to files that are not deleted.
DeleteReclaimsQuota ==
    [][\A r \in Request :
          pc[r] # "done" /\ pc'[r] = "done" /\ args[r].op \in Removal =>
              used'[Account(r)] = ChargesOutstanding(Account(r))]_vars

\* "Full version history" (README): no two versions of a file bear one number.
VersionNumbersAreUnique ==
    \A v, w \in Request :
        versions[v] # Nothing /\ versions[v] = versions[w] => v = w
=============================================================================
