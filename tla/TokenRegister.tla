--------------------------- MODULE TokenRegister ---------------------------
(***************************************************************************)
(* What sessions promise: a register of revoked tokens from which nothing  *)
(* is ever struck.  A request is cleared or denied in one look at it, and   *)
(* denied only if its token is revoked or has expired.  A logout is done    *)
(* once all it brought is in the register, and a refresh gives a new pair   *)
(* only for a token that is.  A request may go without its answer.          *)
(***************************************************************************)
CONSTANTS Request, User, Token, Nothing

VARIABLES
    revoked,  \* the register
    expired,  \* the tokens that do not verify any more
    issued,   \* the tokens clients have been given
    asked,    \* what each request brings
    outcome   \* what became of it

vars == <<revoked, expired, issued, asked, outcome>>

\* Only who was given a token can bring it.
Call == [op : {"login", "refresh", "use", "logout"}, user : User,
         access : issued \cup {Nothing}, refresh : issued \cup {Nothing}]

Brought(call) == {call.access, call.refresh} \ {Nothing}

\* The token a call is let in by.
Presented(call) == IF call.op = "refresh" THEN call.refresh ELSE call.access

Become(r, from, to) ==
    /\ outcome[r] = from
    /\ outcome' = [outcome EXCEPT ![r] = to]

Init ==
    /\ revoked = {}
    /\ expired \in SUBSET Token
    /\ issued = {}
    /\ asked = [r \in Request |-> Nothing]
    /\ outcome = [r \in Request |-> "none"]

Age ==
    /\ expired' \in SUBSET Token
    /\ expired \subseteq expired'
    /\ UNCHANGED <<revoked, issued, asked, outcome>>

Ask(r) ==
    \E to \in {"cleared", "open", "refused"}, call \in Call :
        /\ Become(r, "none", to)
        /\ asked' = [asked EXCEPT ![r] = call]
        /\ IF call.op = "login"
              THEN to = "cleared" /\ Brought(call) = {}
              ELSE /\ Presented(call) # Nothing
                   /\ Presented(call).sub = call.user
                   /\ to = "open" \/ (to = "refused" /\ Presented(call) \in expired)
        /\ UNCHANGED <<revoked, expired, issued>>

Clear(r) ==
    /\ Become(r, "open", "cleared")
    /\ Presented(asked[r]) \in revoked => Presented(asked[r]) \in expired
    /\ UNCHANGED <<revoked, expired, issued, asked>>

Deny(r) ==
    /\ \/ Become(r, "open", "refused") /\ Presented(asked[r]) \in revoked
       \/ Become(r, "cleared", "refused") /\ Presented(asked[r]) \in expired
    /\ UNCHANGED <<revoked, expired, issued, asked>>

Serve(r) ==
    /\ Become(r, "cleared", "done")
    /\ asked[r].op = "use"
    /\ Presented(asked[r]) \notin expired
    /\ UNCHANGED <<revoked, expired, issued, asked>>

Revoke(r) ==
    \E to \in {"cleared", "done"} :
        /\ Become(r, "cleared", to)
        /\ asked[r].op \in {"refresh", "logout"}
        /\ \E token \in Brought(asked[r]) : revoked' = revoked \cup {token}
        /\ to = "done" => asked[r].op = "logout" /\ Brought(asked[r]) \subseteq revoked'
        /\ UNCHANGED <<expired, issued, asked>>

Grant(r) ==
    /\ Become(r, "cleared", "done")
    /\ \/ asked[r].op = "login"
       \/ asked[r].op = "refresh" /\ Presented(asked[r]) \in revoked
    /\ \E pair \in SUBSET {t \in Token : t.sub = asked[r].user} : issued' = issued \cup pair
    /\ UNCHANGED <<revoked, expired, asked>>

Lose(R) ==
    /\ outcome' = [r \in Request |->
                      IF r \in R /\ outcome[r] \in {"open", "cleared"} THEN "lost" ELSE outcome[r]]
    /\ UNCHANGED <<revoked, expired, issued, asked>>

Next ==
    \/ Age
    \/ \E r \in Request : Ask(r) \/ Clear(r) \/ Deny(r) \/ Serve(r) \/ Revoke(r) \/ Grant(r)
    \/ \E R \in SUBSET Request : Lose(R)

Spec == Init /\ [][Next]_vars
=============================================================================
