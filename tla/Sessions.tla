------------------------------ MODULE Sessions ------------------------------
(***************************************************************************)
(* Login, token refresh, logout and the authentication middleware, over    *)
(* the blacklist in Redis.                                                 *)
(*                                                                         *)
(* A JWT carries its subject, its type and the second it was signed, and   *)
(* nothing else that varies: two tokens of one user signed in the same     *)
(* second are the same token.  A blacklist entry is a key that Redis drops *)
(* when its time is up.  An action is one awaited call; time may pass       *)
(* between any two.                                                        *)
(***************************************************************************)
EXTENDS Integers

CONSTANTS
    Request,      \* HTTP requests
    User,         \* registered accounts
    AccessTTL,    \* JWT_ACCESS_EXPIRES_IN, in seconds
    RefreshTTL,   \* JWT_REFRESH_EXPIRES_IN, in seconds
    AccessHold,   \* how long logout blacklists an access token (15 * 60)
    RefreshHold,  \* how long a refresh token is blacklisted (7 * 24 * 60 * 60)
    Horizon,      \* bound: the clock of an instance stops here
    Faults,       \* TRUE: calls to Redis and PostgreSQL may reject
    Nothing       \* no token in the body of a logout

\* The lifetimes are settings, the holds are literals: revocation rests on the
\* settings staying at or below the literals, as the defaults 15m and 7d do. Redis
\* takes no hold of 0.
ASSUMPTION SessionsAssumption ==
    /\ AccessTTL \in Nat /\ AccessHold \in Nat \ {0} /\ AccessTTL <= AccessHold
    /\ RefreshTTL \in Nat /\ RefreshHold \in Nat \ {0} /\ RefreshTTL <= RefreshHold
    /\ Horizon \in Nat
    /\ Faults \in BOOLEAN

VARIABLES
    now,        \* the clock, in seconds
    blacklist,  \* by token: when its blacklist:<token> key goes, 0 if never set
    delivered,  \* the tokens clients have been given
    pc,         \* the await each request is at
    args,       \* what each request presents
    minted      \* the tokens a handler has signed and not yet returned

vars == <<now, blacklist, delivered, pc, args, minted>>

Token == [sub : User, type : {"access", "refresh"}, iat : 0 .. Horizon]

ASSUMPTION NoTokenAssumption == Nothing \notin Token

Answered == {"done", "refused", "failed"}
Awaits == {"check", "verify", "holdAccess", "holdRefresh", "rotate", "sign", "remember"}

Call == [op : {"login", "refresh", "use", "logout"}, user : User,
         access : Token \cup {Nothing}, refresh : Token \cup {Nothing}]

InFlight(r) == pc[r] \in Awaits

Expires(token) ==
    token.iat + (IF token.type = "access" THEN AccessTTL ELSE RefreshTTL)

\* jwt.verify refuses a token from the second of its exp claim on.
Expired(token) == now >= Expires(token)

\* Mutant: the key is made of the subject of the token.
BlacklistedBySubject(token) == \E t \in Token : t.sub = token.sub /\ now < blacklist[t]

Blacklisted(token) == now < blacklist[token]

\* Mutant: the tokens are dated at the end of their life.
PairDatedAhead(user) == {[sub |-> user, type |-> type, iat |-> now + AccessTTL] :
                            type \in {"access", "refresh"}}

Pair(user) == {[sub |-> user, type |-> type, iat |-> now] :
                  type \in {"access", "refresh"}}

-----------------------------------------------------------------------------
Init ==
    /\ now = 0
    /\ blacklist = [t \in Token |-> 0]
    /\ delivered = {}
    /\ pc = [r \in Request |-> "idle"]
    /\ args = [r \in Request |-> Nothing]
    /\ minted = [r \in Request |-> {}]

Goto(r, label) == pc' = [pc EXCEPT ![r] = label]

Arrive(r, op, user, access, refresh) ==
    /\ pc[r] = "idle"
    /\ args' = [args EXCEPT ![r] = [op |-> op, user |-> user, access |-> access,
                                    refresh |-> refresh]]

Revoke(token, seconds) == blacklist' = [blacklist EXCEPT ![token] = now + seconds]

\* generateTokenPair; both callers then store a refresh:<user>:<suffix> key that
\* nothing reads.
Sign(r, user) ==
    /\ minted' = [minted EXCEPT ![r] = Pair(user)]
    /\ Goto(r, "remember")

Tick ==
    /\ now < Horizon
    /\ now' = now + 1
    /\ UNCHANGED <<blacklist, delivered, pc, args, minted>>

\* LoginUseCase once the credentials are found right and the login is recorded.
Login(r) ==
    \E user \in User :
        /\ Arrive(r, "login", user, Nothing, Nothing)
        /\ Sign(r, user)
        /\ UNCHANGED <<now, blacklist, delivered>>

\* The answer to a login or a refresh.
Deliver(r) ==
    /\ pc[r] = "remember"
    /\ delivered' = delivered \cup minted[r]
    /\ minted' = [minted EXCEPT ![r] = {}]
    /\ Goto(r, "done")
    /\ UNCHANGED <<now, blacklist, args>>

-----------------------------------------------------------------------------
(* RefreshTokenUseCase: verify, look at the blacklist, revoke, sign. *)

RefreshBegin(r) ==
    \E token \in delivered :
        /\ token.type = "refresh"
        /\ Arrive(r, "refresh", token.sub, Nothing, token)
        /\ Goto(r, IF Expired(token) THEN "refused" ELSE "check")
        /\ UNCHANGED <<now, blacklist, delivered, minted>>

RefreshCheck(r) ==
    /\ pc[r] = "check"
    /\ args[r].op = "refresh"
    /\ Goto(r, IF Blacklisted(args[r].refresh) THEN "refused" ELSE "rotate")
    /\ UNCHANGED <<now, blacklist, delivered, args, minted>>

RefreshRotate(r) ==
    /\ pc[r] = "rotate"
    /\ Revoke(args[r].refresh, RefreshHold)
    /\ Goto(r, "sign")
    /\ UNCHANGED <<now, delivered, args, minted>>

RefreshSign(r) ==
    /\ pc[r] = "sign"
    /\ Sign(r, args[r].user)
    /\ UNCHANGED <<now, blacklist, delivered, args>>

-----------------------------------------------------------------------------
(* authMiddleware: look at the blacklist, then verify.  "use" is any route  *)
(* behind it; the logout route is behind it too.                            *)

AuthBegin(r) ==
    \E access \in delivered, op \in {"use", "logout"},
       refresh \in {t \in delivered : t.type = "refresh"} \cup {Nothing} :
        /\ access.type = "access"
        /\ op = "use" => refresh = Nothing
        /\ Arrive(r, op, access.sub, access, refresh)
        /\ Goto(r, "check")
        /\ UNCHANGED <<now, blacklist, delivered, minted>>

\* Mutant: the middleware asks only whether the token is genuine.
AuthCheckNot(r) ==
    /\ pc[r] = "check"
    /\ args[r].op # "refresh"
    /\ Goto(r, "verify")
    /\ UNCHANGED <<now, blacklist, delivered, args, minted>>

AuthCheck(r) ==
    /\ pc[r] = "check"
    /\ args[r].op # "refresh"
    /\ Goto(r, IF Blacklisted(args[r].access) THEN "refused" ELSE "verify")
    /\ UNCHANGED <<now, blacklist, delivered, args, minted>>

AuthVerify(r) ==
    /\ pc[r] = "verify"
    /\ Goto(r, IF Expired(args[r].access) THEN "refused"
               ELSE IF args[r].op = "use" THEN "done" ELSE "holdAccess")
    /\ UNCHANGED <<now, blacklist, delivered, args, minted>>

\* LogoutUseCase
LogoutAccess(r) ==
    /\ pc[r] = "holdAccess"
    /\ Revoke(args[r].access, AccessHold)
    /\ Goto(r, IF args[r].refresh = Nothing THEN "done" ELSE "holdRefresh")
    /\ UNCHANGED <<now, delivered, args, minted>>

\* Mutant: the refresh token is held no longer than the access token.
LogoutRefreshBriefly(r) ==
    /\ pc[r] = "holdRefresh"
    /\ Revoke(args[r].refresh, AccessHold)
    /\ Goto(r, "done")
    /\ UNCHANGED <<now, delivered, args, minted>>

LogoutRefresh(r) ==
    /\ pc[r] = "holdRefresh"
    /\ Revoke(args[r].refresh, RefreshHold)
    /\ Goto(r, "done")
    /\ UNCHANGED <<now, delivered, args, minted>>

-----------------------------------------------------------------------------
\* A rejected call inside a use case: errorHandlerMiddleware answers 500.
Abort(r) ==
    /\ Faults
    /\ InFlight(r)
    /\ pc[r] = "check" => args[r].op = "refresh"
    /\ Goto(r, "failed")
    /\ minted' = [minted EXCEPT ![r] = {}]
    /\ UNCHANGED <<now, blacklist, delivered, args>>

\* A rejected call in authMiddleware is handled by nobody: unhandledRejection
\* ends the process, and every open request with it.
Exit ==
    /\ Faults
    /\ \E r \in Request : pc[r] = "check" /\ args[r].op # "refresh"
    /\ pc' = [r \in Request |-> IF InFlight(r) THEN "failed" ELSE pc[r]]
    /\ minted' = [r \in Request |-> {}]
    /\ UNCHANGED <<now, blacklist, delivered, args>>

Step(r) ==
    \/ Login(r) \/ RefreshBegin(r) \/ AuthBegin(r)
    \/ RefreshCheck(r) \/ RefreshRotate(r) \/ RefreshSign(r) \/ Deliver(r)
    \/ AuthCheck(r) \/ AuthVerify(r) \/ LogoutAccess(r) \/ LogoutRefresh(r)
    \/ Abort(r)

Next == Tick \/ Exit \/ \E r \in Request : Step(r)

Spec == Init /\ [][Next]_vars

-----------------------------------------------------------------------------
\* Clock, keys and handlers keep their shapes.
TypeOK ==
    /\ now \in 0 .. Horizon
    /\ blacklist \in [Token -> Nat]
    /\ delivered \subseteq Token
    /\ pc \in [Request -> {"idle"} \cup Awaits \cup Answered]
    /\ args \in [Request -> Call \cup {Nothing}]
    /\ minted \in [Request -> SUBSET Token]

\* The tokens of the logouts and of the refreshes that were answered.
RevokedBy(r) ==
    IF pc[r] = "done" /\ args[r].op \in {"logout", "refresh"}
    THEN {args[r].access, args[r].refresh} \ {Nothing} ELSE {}

Revoked == UNION {RevokedBy(r) : r \in Request}

\* The blacklist outlives what it blocks: a token presented to an answered logout,
\* or traded in an answered refresh, has its key for as long as it would verify.
RevokedUntilExpiry == \A token \in Revoked : Blacklisted(token) \/ Expired(token)

\* The token a request is let in by.
Presented(r) == IF args[r].op = "refresh" THEN args[r].refresh ELSE args[r].access

\* A request that looks at the blacklist after the logout or refresh was answered
\* does not get past it with the revoked token while that token would verify.
RevokedIsTurnedAway ==
    [][\A r \in Request :
          /\ pc[r] = "check" /\ pc'[r] \in {"verify", "rotate"}
          /\ Presented(r) \in Revoked
          => Expired(Presented(r))]_vars

\* What a client may conclude of a request from the await it stands at.
OutcomeAt == [idle |-> "none", check |-> "open", verify |-> "cleared", holdAccess |-> "cleared",
              holdRefresh |-> "cleared", rotate |-> "cleared", sign |-> "cleared",
              remember |-> "cleared", done |-> "done", refused |-> "refused",
              failed |-> "lost"]

Register == INSTANCE TokenRegister
                WITH revoked <- {t \in Token : blacklist[t] > 0},
                     expired <- {t \in Token : Expired(t)},
                     issued <- delivered,
                     asked <- args,
                     outcome <- [r \in Request |-> OutcomeAt[pc[r]]]

\* Keys that Redis drops, looked at before the token is verified or after, make the same
\* decisions as a register from which nothing is struck (RefreshTokenUseCase 27-58,
\* authMiddleware 26-42, LogoutUseCase 19-37), whatever fails in between.
ImplementsRegister == Register!Spec

\* "Refresh token rotation prevents replay attacks" (README): a refresh token is
\* traded for a new pair once.
RefreshIsSingleUse ==
    \A r, q \in Request :
        /\ pc[r] = "done" /\ args[r].op = "refresh"
        /\ pc[q] = "done" /\ args[q].op = "refresh"
        /\ args[r].refresh = args[q].refresh
        => r = q
=============================================================================
