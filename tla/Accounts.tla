------------------------------ MODULE Accounts ------------------------------
(***************************************************************************)
(* RegisterUseCase over the users table: the look-up of the address, the   *)
(* insert under the unique index on users.email, and what follows it; and   *)
(* how a login finds the account.                                           *)
(*                                                                         *)
(* An account has the identity of the request that registers it.  Hashing  *)
(* and signing keep no state; what a login does to the attempt counter and  *)
(* to the users row is in LoginGuard and FileStore.                         *)
(***************************************************************************)
EXTENDS Integers

CONSTANTS
    Registration,   \* requests to register; a row of users is named by its own
    Login,          \* requests to log in
    Spelling,       \* e-mail addresses as clients write them
    Lower,          \* toLowerCase, on these
    Password,       \* passwords, each for those bcrypt cannot tell apart
    AuthFaults,     \* TRUE: awaited calls may reject
    Nothing         \* null: no row, no arguments

ASSUMPTION AccountsAssumption ==
    /\ Registration \cap Login = {}
    /\ Lower \in [Spelling -> Spelling]
    /\ \A s \in Spelling : Lower[Lower[s]] = Lower[s]
    /\ AuthFaults \in BOOLEAN

VARIABLES
    users,  \* users: a row or Nothing, by user id
    pc,     \* the await each request is at
    args    \* what each request asks for

accountVars == <<users, pc, args>>

UserRow == [email : Spelling, password : Password]

\* What a request brings has the fields of a row.
ASSUMPTION NoAccountAssumption == Nothing \notin UserRow

Request == Registration \cup Login

Awaits == {"lookUp", "saveUser", "issueTokens", "findUser"}

\* A registration whose answer is "conflict" was told so by the look-up, one whose
\* answer is "taken" ran into the unique index; "cut" is no answer at all.
Answered == {"done", "invalid", "conflict", "taken", "refused", "failed"}

Accounts == {u \in Registration : users[u] # Nothing}

Goto(r, label) == pc' = [pc EXCEPT ![r] = label]

Arrive(r, label) ==
    /\ pc[r] = "idle"
    /\ \E email \in Spelling, password \in Password :
          args' = [args EXCEPT ![r] = [email |-> email, password |-> password]]
    /\ Goto(r, label)
    /\ UNCHANGED users

-----------------------------------------------------------------------------
\* Mutant: an address is kept as it was written.
NormalisedTrimmed(email) == email

\* The value of Email.create.
Normalised(email) == Lower[email]

\* Mutant: the condition on the address is lost.
ExistsAnyone(email) == Accounts # {}

ExistsByEmail(email) == \E u \in Accounts : users[u].email = Lower[email]

\* Mutant: looks for the address as it was written.
OpensExactly(email, password) ==
    \E u \in Accounts : users[u].email = email /\ users[u].password = password

\* findByEmail and the comparison of the password.
Opens(email, password) ==
    \E u \in Accounts : users[u].email = Lower[email] /\ users[u].password = password

-----------------------------------------------------------------------------
AccountsInit ==
    /\ users = [u \in Registration |-> Nothing]
    /\ pc = [r \in Request |-> "idle"]
    /\ args = [r \in Request |-> Nothing]

\* valid: the input passes RegisterSchema, validateRaw and Email.create.
RegisterBegin(r) == \E valid \in BOOLEAN : Arrive(r, IF valid THEN "lookUp" ELSE "invalid")

\* What follows up to the next await on a store is the hash, which takes long.
LookUp(r) ==
    /\ pc[r] = "lookUp"
    /\ Goto(r, IF ExistsByEmail(Normalised(args[r].email)) THEN "conflict" ELSE "saveUser")
    /\ UNCHANGED <<users, args>>

\* Mutant: the row is stored without the hash.
SaveUserWithoutHash(r) ==
    LET row == [email |-> Normalised(args[r].email)] IN
    /\ pc[r] = "saveUser"
    /\ IF \E u \in Accounts : users[u].email = row.email
          THEN Goto(r, "taken") /\ UNCHANGED users
          ELSE Goto(r, "issueTokens") /\ users' = [users EXCEPT ![r] = row]
    /\ UNCHANGED args

\* Mutant: the rejection of the insert goes unnoticed.
SaveUserUnawaited(r) ==
    LET row == [email |-> Normalised(args[r].email), password |-> args[r].password] IN
    /\ pc[r] = "saveUser"
    /\ users' = IF \E u \in Accounts : users[u].email = row.email
                THEN users ELSE [users EXCEPT ![r] = row]
    /\ Goto(r, "issueTokens")
    /\ UNCHANGED args

\* Mutant: an upsert by address takes the account of whoever had it.
SaveUserUpsert(r) ==
    LET row == [email |-> Normalised(args[r].email), password |-> args[r].password] IN
    /\ pc[r] = "saveUser"
    /\ users' = [u \in Registration |->
                    IF u = r THEN row
                    ELSE IF u \in Accounts /\ users[u].email = row.email THEN Nothing
                    ELSE users[u]]
    /\ Goto(r, "issueTokens")
    /\ UNCHANGED args

\* save() of a user with a fresh id is an INSERT.
SaveUser(r) ==
    LET row == [email |-> Normalised(args[r].email), password |-> args[r].password] IN
    /\ pc[r] = "saveUser"
    /\ IF \E u \in Accounts : users[u].email = row.email
          THEN Goto(r, "taken") /\ UNCHANGED users
          ELSE Goto(r, "issueTokens") /\ users' = [users EXCEPT ![r] = row]
    /\ UNCHANGED args

\* The key refresh:* that is set here is never read.
IssueTokens(r) ==
    /\ pc[r] = "issueTokens"
    /\ Goto(r, "done")
    /\ UNCHANGED <<users, args>>

LoginBegin(r) == Arrive(r, "findUser")

\* The look-up of the account, at its await.
FindUser(r) ==
    /\ pc[r] = "findUser"
    /\ Goto(r, IF Opens(args[r].email, args[r].password) THEN "done" ELSE "refused")
    /\ UNCHANGED <<users, args>>

\* A call rejects: an error answer, and what was written stays.
Abort(r) ==
    /\ pc[r] \in Awaits
    /\ Goto(r, "failed")
    /\ UNCHANGED <<users, args>>

\* The process ends under every handler.
CutOff ==
    /\ pc' = [r \in Request |-> IF pc[r] \in Awaits THEN "cut" ELSE pc[r]]
    /\ UNCHANGED <<users, args>>
=============================================================================
