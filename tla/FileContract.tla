---------------------------- MODULE FileContract ----------------------------
(***************************************************************************)
(* What the upload and delete use cases do as seen by a client that waits  *)
(* for each answer: one atomic transition per accepted request.  A file is *)
(* active, then deleted or purged; deleted files still take versions; an   *)
(* upload charges the uploader, a removal gives the owner back the size of  *)
(* the first version only.                                                  *)
(***************************************************************************)
EXTENDS Integers

CONSTANTS File, User, Admin, Size, Limit, Nothing

VARIABLES
    drive,    \* by file: Nothing before its creation, then its record or Purged
    charged   \* the storage charged to each account

vars == <<drive, charged>>

Purged == [status |-> "purged"]

Exists(f) == drive[f] \notin {Nothing, Purged}

Active(f) == Exists(f) /\ drive[f].status = "active"

MayChange(user, f) == drive[f].ownerId = user \/ user \in Admin

Charge(user, bytes) ==
    /\ charged[user] + bytes <= Limit
    /\ charged' = [charged EXCEPT ![user] = @ + bytes]

Reclaim(f) ==
    LET owner == drive[f].ownerId
        left == charged[owner] - drive[f].sizeBytes
    IN charged' = [charged EXCEPT ![owner] = IF left < 0 THEN 0 ELSE left]

Init ==
    /\ drive = [f \in File |-> Nothing]
    /\ charged = [u \in User |-> 0]

Create(f, user, bytes) ==
    /\ drive[f] = Nothing
    /\ drive' = [drive EXCEPT ![f] = [ownerId |-> user, sizeBytes |-> bytes,
                                      status |-> "active", versionCount |-> 1]]
    /\ Charge(user, bytes)

Revise(f, user, bytes) ==
    /\ Exists(f) /\ MayChange(user, f)
    /\ drive' = [drive EXCEPT ![f].versionCount = @ + 1]
    /\ Charge(user, bytes)

Delete(f, user) ==
    /\ Active(f) /\ MayChange(user, f)
    /\ drive' = [drive EXCEPT ![f].status = "deleted"]
    /\ Reclaim(f)

Purge(f, user) ==
    /\ Active(f) /\ user \in Admin
    /\ drive' = [drive EXCEPT ![f] = Purged]
    /\ Reclaim(f)

Next ==
    \E f \in File, user \in User :
        \/ \E bytes \in Size : Create(f, user, bytes) \/ Revise(f, user, bytes)
        \/ Delete(f, user)
        \/ Purge(f, user)

Spec == Init /\ [][Next]_vars
=============================================================================
