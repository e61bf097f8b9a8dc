-------------------------- MODULE AccountDirectory --------------------------
(***************************************************************************)
(* What registration and login promise, however many are open at once and   *)
(* however the process that serves them ends: every request takes effect in *)
(* one step.  A registration finds its address free and makes the account,  *)
(* or finds it taken; a login finds its credentials or does not.  A request *)
(* may go without its answer, before or after it took effect.  An account,   *)
(* once made, is never changed and never goes.                               *)
(***************************************************************************)
CONSTANTS Registration, Login, Address, Password, Nothing

VARIABLES
    accounts,  \* the credentials of each account, or Nothing, by the registration that made it
    wish,      \* the credentials each request brings, Nothing before it comes
    outcome    \* what became of each request

vars == <<accounts, wish, outcome>>

Request == Registration \cup Login

Credentials == [email : Address, password : Password]

Taken(address) == \E a \in Registration : accounts[a] # Nothing /\ accounts[a].email = address

Known(credentials) == \E a \in Registration : accounts[a] = credentials

Become(r, from, to) ==
    /\ outcome[r] = from
    /\ outcome' = [outcome EXCEPT ![r] = to]

Init ==
    /\ accounts = [a \in Registration |-> Nothing]
    /\ wish = [r \in Request |-> Nothing]
    /\ outcome = [r \in Request |-> "none"]

Ask(r) ==
    /\ \E credentials \in Credentials : wish' = [wish EXCEPT ![r] = credentials]
    /\ Become(r, "none", "open") \/ (r \in Registration /\ Become(r, "none", "invalid"))
    /\ UNCHANGED accounts

Create(r) ==
    /\ Become(r, "open", "created")
    /\ ~Taken(wish[r].email)
    /\ accounts' = [accounts EXCEPT ![r] = wish[r]]
    /\ UNCHANGED wish

Tell(r) == Become(r, "created", "done") /\ UNCHANGED <<accounts, wish>>

Refuse(r) ==
    /\ Become(r, "open", "refused")
    /\ Taken(wish[r].email)
    /\ UNCHANGED <<accounts, wish>>

Enter(r) ==
    /\ Become(r, "open", IF Known(wish[r]) THEN "done" ELSE "refused")
    /\ UNCHANGED <<accounts, wish>>

\* Requests that get an error, or no answer at all.
Lose(R) ==
    /\ outcome' = [r \in Request |->
                      IF r \in R /\ outcome[r] \in {"open", "created"} THEN "lost" ELSE outcome[r]]
    /\ UNCHANGED <<accounts, wish>>

Next ==
    \/ \E r \in Request : Ask(r)
    \/ \E r \in Registration : Create(r) \/ Tell(r) \/ Refuse(r)
    \/ \E r \in Login : Enter(r)
    \/ \E R \in SUBSET Request : Lose(R)

Spec == Init /\ [][Next]_vars
=============================================================================
