--------------------------- MODULE SessionsProofs ---------------------------
(***************************************************************************)
(* Theorems about Sessions, for every set of users and requests and all    *)
(* lifetimes that stay at or below the holds.                              *)
(***************************************************************************)
EXTENDS Sessions, TLAPS

\* A token of the given type that was signed by now.
SignedBy(token, type) == token \in Token /\ token.type = type /\ token.iat <= now

\* What a request presents, and the await at which it presents it.
PresentsOK(r) ==
    /\ pc[r] # "idle" => args[r] \in Call
    /\ pc[r] # "idle" /\ args[r].access # Nothing => SignedBy(args[r].access, "access")
    /\ pc[r] # "idle" /\ args[r].refresh # Nothing => SignedBy(args[r].refresh, "refresh")
    /\ pc[r] # "idle" /\ args[r].op = "refresh" =>
          args[r].access = Nothing /\ args[r].refresh # Nothing
    /\ pc[r] # "idle" /\ args[r].op \in {"use", "logout"} => args[r].access # Nothing
    /\ pc[r] \in {"rotate", "sign"} => args[r].op = "refresh"
    /\ pc[r] = "check" => args[r].op # "login"
    /\ pc[r] = "verify" => args[r].op \in {"use", "logout"}
    /\ pc[r] = "holdAccess" => args[r].op = "logout"
    /\ pc[r] = "holdRefresh" => args[r].op = "logout" /\ args[r].refresh # Nothing
    /\ pc[r] = "remember" => args[r].op \in {"login", "refresh"}

PastOK ==
    /\ \A token \in delivered : token.iat <= now
    /\ \A r \in Request : \A token \in minted[r] : token.iat <= now

TypeInv == TypeOK /\ PastOK /\ \A r \in Request : PresentsOK(r)

\* The key of a token, once set, stays until the token has expired.
Held(token) == blacklist[token] >= Expires(token)

\* What the handlers have put on the blacklist so far.
HoldsOK(r) ==
    /\ pc[r] = "holdRefresh" => Held(args[r].access)
    /\ pc[r] \in {"sign", "remember"} /\ args[r].op = "refresh" => Held(args[r].refresh)
    /\ \A token \in RevokedBy(r) : Held(token)

HoldInv == TypeInv /\ \A r \in Request : HoldsOK(r)

-----------------------------------------------------------------------------
LEMMA PairType ==
    ASSUME TypeOK, NEW user \in User
    PROVE  /\ Pair(user) \subseteq Token
           /\ \A token \in Pair(user) : token.iat = now
BY SessionsAssumption DEF TypeOK, Pair, Token

LEMMA InitTypeInv == Init => TypeInv
BY SessionsAssumption DEF Init, TypeInv, TypeOK, PastOK, PresentsOK, Token

\* A step that keeps the clock leaves what the other requests present in order.
LEMMA PresentsFrame ==
    ASSUME TypeInv, NEW r \in Request, PresentsOK(r)', now' = now,
           \A q \in Request \ {r} : pc'[q] = pc[q] /\ args'[q] = args[q]
    PROVE  \A q \in Request : PresentsOK(q)'
BY DEF TypeInv, PresentsOK, SignedBy

LEMMA StepTypeInv ==
    ASSUME TypeInv, NEW r \in Request, Step(r)
    PROVE  TypeInv'
<1> USE SessionsAssumption, NoTokenAssumption DEF Goto
<1>0. TypeOK /\ PastOK /\ PresentsOK(r)
    BY DEF TypeInv
<1>1. CASE Login(r)
  <2>1. PICK user \in User :
             /\ Arrive(r, "login", user, Nothing, Nothing)
             /\ Sign(r, user)
             /\ UNCHANGED <<now, blacklist, delivered>>
    BY <1>1 DEF Login
  <2>2. TypeOK'
    BY <1>0, <2>1, PairType DEF Arrive, Sign, TypeOK, Call, Awaits
  <2>3. PastOK'
    BY <1>0, <2>1, PairType DEF Sign, TypeOK, PastOK, Token
  <2>4. PresentsOK(r)'
    BY <1>0, <2>1 DEF Arrive, Sign, TypeOK, PresentsOK, Call
  <2>5. QED
    BY <1>0, <2>1, <2>2, <2>3, <2>4, PresentsFrame DEF TypeInv, Arrive, Sign, TypeOK
<1>2. CASE Deliver(r)
  <2>1. TypeOK' /\ PastOK'
    BY <1>0, <1>2 DEF Deliver, TypeOK, PastOK, Answered
  <2>2. PresentsOK(r)'
    BY <1>0, <1>2 DEF Deliver, TypeOK, PresentsOK, SignedBy
  <2>3. QED
    BY <1>0, <1>2, <2>1, <2>2, PresentsFrame DEF TypeInv, Deliver, TypeOK
<1>3. CASE RefreshBegin(r)
  <2>1. PICK token \in delivered, label \in {"refused", "check"} :
             /\ token.type = "refresh"
             /\ Arrive(r, "refresh", token.sub, Nothing, token)
             /\ Goto(r, label)
             /\ UNCHANGED <<now, blacklist, delivered, minted>>
    BY <1>3 DEF RefreshBegin
  <2>2. SignedBy(token, "refresh") /\ token.sub \in User
    BY <1>0, <2>1 DEF SignedBy, PastOK, TypeOK, Token
  <2>3. TypeOK' /\ PastOK'
    BY <1>0, <2>1, <2>2 DEF Arrive, TypeOK, PastOK, Call, Awaits, Answered, SignedBy
  <2>4. PresentsOK(r)'
    BY <1>0, <2>1, <2>2 DEF Arrive, TypeOK, PresentsOK, Call, SignedBy
  <2>5. QED
    BY <1>0, <2>1, <2>3, <2>4, PresentsFrame DEF TypeInv, Arrive, TypeOK
<1>4. CASE AuthBegin(r)
  <2>1. PICK access \in delivered, op \in {"use", "logout"},
             refresh \in {t \in delivered : t.type = "refresh"} \cup {Nothing} :
             /\ access.type = "access"
             /\ Arrive(r, op, access.sub, access, refresh)
             /\ Goto(r, "check")
             /\ UNCHANGED <<now, blacklist, delivered, minted>>
    BY <1>4 DEF AuthBegin
  <2>2. /\ SignedBy(access, "access") /\ access.sub \in User
        /\ refresh # Nothing => SignedBy(refresh, "refresh")
    BY <1>0, <2>1 DEF SignedBy, PastOK, TypeOK, Token
  <2>3. TypeOK' /\ PastOK'
    BY <1>0, <2>1, <2>2 DEF Arrive, TypeOK, PastOK, Call, Awaits, SignedBy
  <2>4. PresentsOK(r)'
    BY <1>0, <2>1, <2>2 DEF Arrive, TypeOK, PresentsOK, Call, SignedBy
  <2>5. QED
    BY <1>0, <2>1, <2>3, <2>4, PresentsFrame DEF TypeInv, Arrive, TypeOK
<1>5. CASE RefreshCheck(r) \/ AuthCheck(r) \/ AuthVerify(r)
  <2>1. TypeOK' /\ PastOK'
    BY <1>0, <1>5 DEF RefreshCheck, AuthCheck, AuthVerify, TypeOK, PastOK, Awaits, Answered
  <2>2. PresentsOK(r)'
    <3>1. CASE RefreshCheck(r)
      BY <1>0, <3>1 DEF RefreshCheck, TypeOK, PresentsOK, SignedBy
    <3>2. CASE AuthCheck(r)
      BY <1>0, <3>2 DEF AuthCheck, TypeOK, PresentsOK, SignedBy, Call
    <3>3. CASE AuthVerify(r)
      BY <1>0, <3>3 DEF AuthVerify, TypeOK, PresentsOK, SignedBy
    <3>4. QED
      BY <1>5, <3>1, <3>2, <3>3
  <2>3. QED
    BY <1>0, <1>5, <2>1, <2>2, PresentsFrame
       DEF TypeInv, RefreshCheck, AuthCheck, AuthVerify, TypeOK
<1>6. CASE RefreshRotate(r) \/ LogoutAccess(r) \/ LogoutRefresh(r)
  <2>1. TypeOK' /\ PastOK'
    BY <1>0, <1>6 DEF RefreshRotate, LogoutAccess, LogoutRefresh, Revoke, TypeOK, PastOK,
       Awaits, Answered
  <2>2. PresentsOK(r)'
    BY <1>0, <1>6 DEF RefreshRotate, LogoutAccess, LogoutRefresh, TypeOK, PresentsOK,
       SignedBy
  <2>3. QED
    BY <1>0, <1>6, <2>1, <2>2, PresentsFrame
       DEF TypeInv, RefreshRotate, LogoutAccess, LogoutRefresh, TypeOK
<1>7. CASE RefreshSign(r)
  <2>1. args[r].user \in User
    BY <1>0, <1>7 DEF RefreshSign, PresentsOK, Call
  <2>2. TypeOK' /\ PastOK'
    BY <1>0, <1>7, <2>1, PairType DEF RefreshSign, Sign, TypeOK, PastOK, Awaits, Token
  <2>3. PresentsOK(r)'
    BY <1>0, <1>7 DEF RefreshSign, Sign, TypeOK, PresentsOK, SignedBy
  <2>4. QED
    BY <1>0, <1>7, <2>2, <2>3, PresentsFrame DEF TypeInv, RefreshSign, Sign, TypeOK
<1>8. CASE Abort(r)
  <2>1. TypeOK' /\ PastOK'
    BY <1>0, <1>8 DEF Abort, TypeOK, PastOK, Answered
  <2>2. PresentsOK(r)'
    BY <1>0, <1>8 DEF Abort, InFlight, Awaits, TypeOK, PresentsOK, SignedBy
  <2>3. QED
    BY <1>0, <1>8, <2>1, <2>2, PresentsFrame DEF TypeInv, Abort, TypeOK
<1>9. QED
    BY <1>1, <1>2, <1>3, <1>4, <1>5, <1>6, <1>7, <1>8 DEF Step

LEMMA NextTypeInv == TypeInv /\ [Next]_vars => TypeInv'
<1> SUFFICES ASSUME TypeInv, [Next]_vars
             PROVE  TypeInv'
    OBVIOUS
<1>1. CASE Tick
    BY <1>1, SessionsAssumption
       DEF Tick, TypeInv, TypeOK, PastOK, PresentsOK, SignedBy, Token
<1>2. CASE Exit
    BY <1>2 DEF Exit, InFlight, Awaits, Answered, TypeInv, TypeOK, PastOK, PresentsOK, SignedBy
<1>3. CASE UNCHANGED vars
    BY <1>3 DEF vars, TypeInv, TypeOK, PastOK, PresentsOK, SignedBy
<1>4. QED
    BY <1>1, <1>2, <1>3, StepTypeInv DEF Next

\* The clock, the blacklist and the handlers keep their shapes.
THEOREM SessionsTypeCorrect == Spec => []TypeOK
<1>1. TypeInv => TypeOK
    BY DEF TypeInv
<1>2. QED
    BY InitTypeInv, NextTypeInv, <1>1, PTL DEF Spec

-----------------------------------------------------------------------------
\* A key set now outlasts any token signed by now.
LEMMA RevokeHolds ==
    ASSUME TypeInv, NEW token \in Token, NEW type \in {"access", "refresh"},
           SignedBy(token, type),
           Revoke(token, IF type = "access" THEN AccessHold ELSE RefreshHold)
    PROVE  /\ Held(token)'
           /\ \A t \in Token : Held(t) => Held(t)'
<1> DEFINE seconds == IF type = "access" THEN AccessHold ELSE RefreshHold
<1>1. /\ now \in Nat /\ token.iat \in Nat /\ token.iat <= now
      /\ token.type = type /\ blacklist \in [Token -> Nat]
    BY SessionsAssumption DEF TypeInv, TypeOK, SignedBy, Token
<1>2. blacklist' = [blacklist EXCEPT ![token] = now + seconds]
    BY DEF Revoke
<1>3. Expires(token) <= now + seconds
    BY <1>1, SessionsAssumption DEF Expires
<1>4. blacklist'[token] = now + seconds
      /\ \A t \in Token \ {token} : blacklist'[t] = blacklist[t]
    BY <1>1, <1>2
<1>5. Held(token)'
    BY <1>1, <1>3, <1>4, SessionsAssumption DEF Held, Expires
<1>6. QED
    BY <1>4, <1>5 DEF Held, Expires

\* Keys are only ever set as long, so a step of r keeps the holds of the others.
LEMMA HoldsFrame ==
    ASSUME HoldInv, NEW r \in Request, TypeInv', HoldsOK(r)',
           \A t \in Token : Held(t) => Held(t)',
           \A q \in Request \ {r} : pc'[q] = pc[q] /\ args'[q] = args[q]
    PROVE  HoldInv'
<1>1. ASSUME NEW q \in Request \ {r}
      PROVE  HoldsOK(q)'
  <2>1. pc'[q] = pc[q] /\ args'[q] = args[q] /\ HoldsOK(q) /\ PresentsOK(q)
    BY <1>1 DEF HoldInv, TypeInv
  <2>2. pc[q] = "holdRefresh" => args[q].access \in Token
    BY <2>1 DEF PresentsOK, SignedBy
  <2>3. pc[q] \in {"sign", "remember"} /\ args[q].op = "refresh" => args[q].refresh \in Token
    BY <2>1 DEF PresentsOK, SignedBy
  <2>4. RevokedBy(q)' = RevokedBy(q) /\ RevokedBy(q) \subseteq Token
    BY <2>1 DEF RevokedBy, PresentsOK, SignedBy
  <2>5. QED
    BY <2>1, <2>2, <2>3, <2>4 DEF HoldsOK
<1>2. QED
    BY <1>1 DEF HoldInv

LEMMA InitHoldInv == Init => HoldInv
BY InitTypeInv DEF HoldInv, Init, HoldsOK, RevokedBy

LEMMA StepHoldInv ==
    ASSUME HoldInv, NEW r \in Request, Step(r)
    PROVE  HoldInv'
<1> USE NoTokenAssumption DEF Goto
<1>0. TypeInv' /\ TypeInv /\ TypeOK /\ PresentsOK(r) /\ HoldsOK(r)
    BY StepTypeInv DEF HoldInv, TypeInv
<1>1. CASE \/ Login(r) \/ Deliver(r) \/ RefreshBegin(r) \/ AuthBegin(r)
           \/ RefreshCheck(r) \/ AuthCheck(r) \/ AuthVerify(r) \/ RefreshSign(r) \/ Abort(r)
  <2>0. blacklist' = blacklist
    BY <1>1 DEF Login, Deliver, RefreshBegin, AuthBegin, RefreshCheck, AuthCheck, AuthVerify,
       RefreshSign, Abort
  <2>1. \A t \in Token : Held(t) => Held(t)'
    BY <2>0 DEF Held, Expires
  <2>2. HoldsOK(r)'
    <3>1. CASE Login(r)
      BY <1>0, <3>1 DEF Login, Arrive, Sign, TypeOK, HoldsOK, RevokedBy
    <3>2. CASE Deliver(r)
      BY <1>0, <2>0, <2>1, <3>2 DEF Deliver, TypeOK, HoldsOK, RevokedBy, PresentsOK, SignedBy
    <3>3. CASE RefreshBegin(r)
      BY <1>0, <3>3 DEF RefreshBegin, TypeOK, HoldsOK, RevokedBy
    <3>4. CASE AuthBegin(r)
      BY <1>0, <3>4 DEF AuthBegin, TypeOK, HoldsOK, RevokedBy
    <3>5. CASE RefreshCheck(r) \/ AuthCheck(r)
      BY <1>0, <3>5 DEF RefreshCheck, AuthCheck, TypeOK, HoldsOK, RevokedBy
    <3>6. CASE AuthVerify(r)
      BY <1>0, <3>6 DEF AuthVerify, TypeOK, HoldsOK, RevokedBy, PresentsOK
    <3>7. CASE RefreshSign(r)
      BY <1>0, <2>0, <2>1, <3>7 DEF RefreshSign, Sign, TypeOK, HoldsOK, RevokedBy, PresentsOK,
         SignedBy
    <3>8. CASE Abort(r)
      BY <1>0, <3>8 DEF Abort, TypeOK, HoldsOK, RevokedBy
    <3>9. QED
      BY <1>1, <3>1, <3>2, <3>3, <3>4, <3>5, <3>6, <3>7, <3>8
  <2>3. \A q \in Request \ {r} : pc'[q] = pc[q] /\ args'[q] = args[q]
    BY <1>0, <1>1 DEF Login, Deliver, RefreshBegin, AuthBegin, RefreshCheck, AuthCheck,
       AuthVerify, RefreshSign, Abort, Arrive, Sign, TypeOK
  <2>4. QED
    BY <1>0, <2>1, <2>2, <2>3, HoldsFrame
<1>2. CASE RefreshRotate(r)
  <2>1. SignedBy(args[r].refresh, "refresh") /\ args[r].refresh \in Token
        /\ args[r].op = "refresh" /\ args[r].access = Nothing
    BY <1>0, <1>2 DEF RefreshRotate, PresentsOK, SignedBy
  <2>2. Held(args[r].refresh)' /\ \A t \in Token : Held(t) => Held(t)'
    BY <1>0, <1>2, <2>1, RevokeHolds DEF RefreshRotate
  <2>3. HoldsOK(r)'
    BY <1>0, <1>2, <2>2 DEF RefreshRotate, HoldsOK, RevokedBy, TypeOK, Held
  <2>4. QED
    BY <1>0, <1>2, <2>2, <2>3, HoldsFrame DEF RefreshRotate, TypeOK
<1>3. CASE LogoutAccess(r)
  <2>1. SignedBy(args[r].access, "access") /\ args[r].access \in Token
    BY <1>0, <1>3 DEF LogoutAccess, PresentsOK, SignedBy
  <2>2. Held(args[r].access)' /\ \A t \in Token : Held(t) => Held(t)'
    BY <1>0, <1>3, <2>1, RevokeHolds DEF LogoutAccess
  <2>3. HoldsOK(r)'
    BY <1>0, <1>3, <2>2 DEF LogoutAccess, HoldsOK, RevokedBy, TypeOK, Held
  <2>4. QED
    BY <1>0, <1>3, <2>2, <2>3, HoldsFrame DEF LogoutAccess, TypeOK
<1>4. CASE LogoutRefresh(r)
  <2>1. /\ SignedBy(args[r].refresh, "refresh") /\ args[r].refresh \in Token
        /\ args[r].access \in Token /\ Held(args[r].access)
    BY <1>0, <1>4 DEF LogoutRefresh, PresentsOK, SignedBy, HoldsOK
  <2>2. Held(args[r].refresh)' /\ \A t \in Token : Held(t) => Held(t)'
    BY <1>0, <1>4, <2>1, RevokeHolds DEF LogoutRefresh
  <2>3. HoldsOK(r)'
    BY <1>0, <1>4, <2>1, <2>2 DEF LogoutRefresh, HoldsOK, RevokedBy, TypeOK, Held
  <2>4. QED
    BY <1>0, <1>4, <2>2, <2>3, HoldsFrame DEF LogoutRefresh, TypeOK
<1>5. QED
    BY <1>1, <1>2, <1>3, <1>4 DEF Step

LEMMA NextHoldInv == HoldInv /\ [Next]_vars => HoldInv'
<1> SUFFICES ASSUME HoldInv, [Next]_vars
             PROVE  HoldInv'
    OBVIOUS
<1>0. TypeInv'
    BY NextTypeInv DEF HoldInv
<1>1. CASE Tick \/ UNCHANGED vars
    BY <1>0, <1>1 DEF Tick, vars, HoldInv, HoldsOK, RevokedBy, Held, Expires
<1>2. CASE Exit
    BY <1>0, <1>2 DEF Exit, HoldInv, HoldsOK, RevokedBy, Held, Expires, InFlight, Awaits
<1>3. QED
    BY <1>1, <1>2, StepHoldInv DEF Next

LEMMA HoldsUntilExpiry == HoldInv => RevokedUntilExpiry
<1> SUFFICES ASSUME HoldInv, NEW r \in Request, NEW token \in RevokedBy(r)
             PROVE  Blacklisted(token) \/ Expired(token)
    BY DEF RevokedUntilExpiry, Revoked
<1>1. Held(token)
    BY DEF HoldInv, HoldsOK
<1>2. token \in Token
    BY DEF HoldInv, TypeInv, PresentsOK, RevokedBy, SignedBy
<1>3. now \in Nat /\ blacklist[token] \in Nat
    BY <1>2, SessionsAssumption DEF HoldInv, TypeInv, TypeOK
<1>4. Expires(token) \in Nat
    BY <1>2, SessionsAssumption DEF Token, Expires
<1>5. QED
    BY <1>1, <1>3, <1>4 DEF Held, Blacklisted, Expired

\* An answered logout, and an answered refresh, leave a key that stands until the
\* token has expired, whatever else is in flight, fails or is retried: the holds
\* written at that moment are never shorter than the life that is left.
THEOREM RevocationHolds == Spec => []RevokedUntilExpiry
BY InitHoldInv, NextHoldInv, HoldsUntilExpiry, PTL DEF Spec

\* Only the look at the blacklist lets a request on.
LEMMA CheckedStep ==
    ASSUME HoldInv, [Next]_vars, NEW r \in Request,
           pc[r] = "check", pc'[r] \in {"verify", "rotate"}
    PROVE  ~Blacklisted(Presented(r))
<1>1. TypeOK
    BY DEF HoldInv, TypeInv
<1>2. CASE \E q \in Request : Step(q)
  <2>1. PICK q \in Request : Step(q)
    BY <1>2
  <2>2. CASE q = r
    <3>1. RefreshCheck(r) \/ AuthCheck(r) \/ Abort(r)
      BY <2>1, <2>2 DEF Step, Login, RefreshBegin, AuthBegin, Arrive, RefreshRotate, RefreshSign,
         Sign, Deliver, AuthVerify, LogoutAccess, LogoutRefresh, Goto
    <3>2. QED
      BY <1>1, <3>1 DEF RefreshCheck, AuthCheck, Abort, Goto, Presented, TypeOK
  <2>3. CASE q # r
    BY <1>1, <2>1, <2>3 DEF Step, Login, RefreshBegin, AuthBegin, RefreshCheck, RefreshRotate,
       RefreshSign, Sign, Deliver, AuthCheck, AuthVerify, LogoutAccess, LogoutRefresh, Abort,
       Goto, TypeOK
  <2>4. QED
    BY <2>2, <2>3
<1>3. CASE Tick \/ Exit \/ UNCHANGED vars
    BY <1>1, <1>3 DEF Tick, Exit, vars, InFlight, Awaits, TypeOK
<1>4. QED
    BY <1>2, <1>3 DEF Next

\* No request gets past the blacklist with a token that an answered logout or
\* refresh revoked before, as long as the token would still verify.
THEOREM RevokedTokensAreTurnedAway == Spec => RevokedIsTurnedAway
<1>1. HoldInv /\ [Next]_vars =>
          [\A r \in Request :
              /\ pc[r] = "check" /\ pc'[r] \in {"verify", "rotate"}
              /\ Presented(r) \in Revoked
              => Expired(Presented(r))]_vars
    BY CheckedStep, HoldsUntilExpiry DEF RevokedUntilExpiry
<1>2. QED
    BY InitHoldInv, NextHoldInv, <1>1, PTL DEF Spec, RevokedIsTurnedAway

-----------------------------------------------------------------------------
(* The register of revoked tokens. *)

Struck == {t \in Token : blacklist[t] > 0}
Lapsed == {t \in Token : Expired(t)}
Outcome == [r \in Request |-> OutcomeAt[pc[r]]]

\* What a handler has revoked by each await, and for whom it signs.
RegisterOK(r) ==
    /\ pc[r] = "holdRefresh" => args[r].access \in Struck
    /\ pc[r] \in {"sign", "remember"} /\ args[r].op = "refresh" => args[r].refresh \in Struck
    /\ pc[r] = "remember" => \A token \in minted[r] : token.sub = args[r].user

RegisterInv ==
    /\ HoldInv
    /\ \A t \in Struck : Held(t)
    /\ \A r \in Request : RegisterOK(r)

\* What a request has revoked stays so, and the other requests stay where they are.
LEMMA RegisterFrame ==
    ASSUME RegisterInv, NEW r \in Request, HoldInv', RegisterOK(r)', Struck \subseteq Struck',
           \A t \in Struck' : Held(t)',
           \A q \in Request \ {r} : pc'[q] = pc[q] /\ args'[q] = args[q] /\ minted'[q] = minted[q]
    PROVE  RegisterInv'
BY DEF RegisterInv, RegisterOK

LEMMA RevokeStrikes ==
    ASSUME RegisterInv, NEW token \in Token, NEW type \in {"access", "refresh"},
           SignedBy(token, type),
           Revoke(token, IF type = "access" THEN AccessHold ELSE RefreshHold)
    PROVE  /\ Struck' = Struck \cup {token}
           /\ \A t \in Struck' : Held(t)'
<1>1. TypeInv /\ TypeOK /\ now \in Nat /\ blacklist \in [Token -> Nat]
    BY SessionsAssumption DEF RegisterInv, HoldInv, TypeInv, TypeOK
<1>2. PICK seconds \in Nat \ {0} : blacklist' = [blacklist EXCEPT ![token] = now + seconds]
    BY SessionsAssumption DEF Revoke
<1>3. Struck' = Struck \cup {token}
    BY <1>1, <1>2 DEF Struck
<1>4. Held(token)' /\ \A t \in Token : Held(t) => Held(t)'
    BY <1>1, RevokeHolds
<1>. QED
    BY <1>3, <1>4 DEF RegisterInv, Struck

LEMMA StepRegisterInv ==
    ASSUME RegisterInv, NEW r \in Request, Step(r)
    PROVE  RegisterInv'
<1> USE NoTokenAssumption DEF Goto
<1>0. HoldInv /\ HoldInv' /\ TypeOK /\ PresentsOK(r) /\ RegisterOK(r)
    BY StepHoldInv DEF RegisterInv, HoldInv, TypeInv
<1>1. \A q \in Request \ {r} : pc'[q] = pc[q] /\ args'[q] = args[q] /\ minted'[q] = minted[q]
    BY <1>0 DEF Step, Login, Deliver, RefreshBegin, AuthBegin, RefreshCheck, RefreshRotate,
       RefreshSign, AuthCheck, AuthVerify, LogoutAccess, LogoutRefresh, Abort, Arrive, Sign, TypeOK
<1>2. CASE RefreshRotate(r)
    <2>1. SignedBy(args[r].refresh, "refresh") /\ args[r].refresh \in Token
        BY <1>0, <1>2 DEF RefreshRotate, PresentsOK, SignedBy
    <2>2. Struck' = Struck \cup {args[r].refresh} /\ \A t \in Struck' : Held(t)'
        BY <1>2, <2>1, RevokeStrikes DEF RefreshRotate
    <2>3. RegisterOK(r)'
        BY <1>0, <1>2, <2>2 DEF RefreshRotate, RegisterOK, TypeOK
    <2>. QED
        BY <1>0, <1>1, <2>2, <2>3, RegisterFrame
<1>3. CASE LogoutAccess(r)
    <2>1. SignedBy(args[r].access, "access") /\ args[r].access \in Token
        BY <1>0, <1>3 DEF LogoutAccess, PresentsOK, SignedBy
    <2>2. Struck' = Struck \cup {args[r].access} /\ \A t \in Struck' : Held(t)'
        BY <1>3, <2>1, RevokeStrikes DEF LogoutAccess
    <2>3. RegisterOK(r)'
        BY <1>0, <1>3, <2>2 DEF LogoutAccess, RegisterOK, TypeOK
    <2>. QED
        BY <1>0, <1>1, <2>2, <2>3, RegisterFrame
<1>4. CASE LogoutRefresh(r)
    <2>1. SignedBy(args[r].refresh, "refresh") /\ args[r].refresh \in Token
        BY <1>0, <1>4 DEF LogoutRefresh, PresentsOK, SignedBy
    <2>2. Struck' = Struck \cup {args[r].refresh} /\ \A t \in Struck' : Held(t)'
        BY <1>4, <2>1, RevokeStrikes DEF LogoutRefresh
    <2>3. RegisterOK(r)'
        BY <1>0, <1>4 DEF LogoutRefresh, RegisterOK, TypeOK
    <2>. QED
        BY <1>0, <1>1, <2>2, <2>3, RegisterFrame
<1>5. CASE Login(r) \/ RefreshSign(r)
    <2>1. Struck' = Struck /\ \A t \in Token : Held(t) => Held(t)'
        BY <1>5 DEF Login, RefreshSign, Struck, Held, Expires
    <2>2. RegisterOK(r)'
        BY <1>0, <1>5, <2>1 DEF Login, RefreshSign, Arrive, Sign, Pair, RegisterOK, TypeOK
    <2>. QED
        BY <1>0, <1>1, <2>1, <2>2, RegisterFrame DEF RegisterInv, Struck
<1>6. CASE \/ RefreshBegin(r) \/ AuthBegin(r) \/ RefreshCheck(r) \/ AuthCheck(r)
           \/ AuthVerify(r) \/ Deliver(r) \/ Abort(r)
    <2>1. Struck' = Struck /\ \A t \in Token : Held(t) => Held(t)'
        BY <1>6 DEF RefreshBegin, AuthBegin, RefreshCheck, AuthCheck, AuthVerify, Deliver, Abort,
           Struck, Held, Expires
    <2>2. pc'[r] \notin {"holdRefresh", "sign", "remember"}
        BY <1>0, <1>6 DEF RefreshBegin, AuthBegin, RefreshCheck, AuthCheck, AuthVerify, Deliver,
           Abort, TypeOK
    <2>. QED
        BY <1>0, <1>1, <2>1, <2>2, RegisterFrame DEF RegisterInv, RegisterOK, Struck
<1>. QED
    BY <1>2, <1>3, <1>4, <1>5, <1>6 DEF Step

LEMMA NextRegisterInv == RegisterInv /\ [Next]_vars => RegisterInv'
<1> SUFFICES ASSUME RegisterInv, [Next]_vars
             PROVE  RegisterInv'
    OBVIOUS
<1>1. HoldInv'
    BY NextHoldInv DEF RegisterInv
<1>2. CASE Tick \/ UNCHANGED vars
    BY <1>1, <1>2 DEF Tick, vars, RegisterInv, RegisterOK, Struck, Held, Expires
<1>3. CASE Exit
    BY <1>1, <1>3 DEF Exit, RegisterInv, RegisterOK, Struck, Held, Expires, InFlight, Awaits
<1>. QED
    BY <1>2, <1>3, StepRegisterInv DEF Next

LEMMA InitRegister == Init => RegisterInv /\ Register!Init
<1> SUFFICES ASSUME Init PROVE RegisterInv /\ Register!Init
    OBVIOUS
<1>1. Struck = {}
    BY DEF Init, Struck
<1>2. RegisterInv
    BY <1>1, InitHoldInv DEF Init, RegisterInv, RegisterOK
<1>3. \A r \in Request : OutcomeAt[pc[r]] = "none"
    BY DEF Init, OutcomeAt
<1>. QED
    BY <1>1, <1>2, <1>3 DEF Init, Register!Init, Struck, Lapsed

\* A request that goes from one await to another.
LEMMA BecomeVisible ==
    ASSUME TypeOK, NEW r \in Request, NEW label, Goto(r, label)
    PROVE  Register!Become(r, OutcomeAt[pc[r]], OutcomeAt[label])
BY DEF Goto, TypeOK, Register!Become

LEMMA OutcomeTable ==
    /\ OutcomeAt["idle"] = "none"
    /\ OutcomeAt["check"] = "open"
    /\ \A label \in Awaits \ {"check"} : OutcomeAt[label] = "cleared"
    /\ OutcomeAt["done"] = "done"
    /\ OutcomeAt["refused"] = "refused"
    /\ OutcomeAt["failed"] = "lost"
BY DEF OutcomeAt, Awaits

\* Every step of a request is one of the register, or is not seen there.
LEMMA StepRegister ==
    ASSUME RegisterInv, NEW r \in Request, Step(r)
    PROVE  [Register!Next]_(Register!vars)
<1> USE NoTokenAssumption
<1>0. /\ HoldInv /\ TypeOK /\ PresentsOK(r) /\ RegisterOK(r)
      /\ delivered \subseteq Token /\ now \in Nat /\ blacklist \in [Token -> Nat]
    BY SessionsAssumption DEF RegisterInv, HoldInv, TypeInv, TypeOK
<1>p. pc[r] # "idle" =>
          /\ Register!Presented(args[r]) = Presented(r)
          /\ Register!Brought(args[r]) = {args[r].access, args[r].refresh} \ {Nothing}
    BY DEF Register!Presented, Presented, Register!Brought
<1>e. now' = now => Lapsed' = Lapsed
    BY DEF Lapsed, Expired, Expires
<1>s. blacklist' = blacklist => Struck' = Struck
    BY DEF Struck
\* Arrivals.
<1>1. CASE Login(r)
    <2>1. PICK user \in User : args' = [args EXCEPT ![r] = [op |-> "login", user |-> user,
                                        access |-> Nothing, refresh |-> Nothing]]
        BY <1>1 DEF Login, Arrive
    <2>2. /\ pc[r] = "idle" /\ Goto(r, "remember")
          /\ UNCHANGED <<now, blacklist, delivered>>
        BY <1>1 DEF Login, Arrive, Sign
    <2>3. Register!Become(r, "none", "cleared")
        BY <1>0, <2>2, BecomeVisible, OutcomeTable DEF Awaits
    <2>4. Register!Ask(r)
        BY <1>e, <1>s, <2>1, <2>2, <2>3 DEF Register!Ask, Register!Call, Register!Brought, Struck, Lapsed
    <2>. QED
        BY <2>4 DEF Register!Next
<1>2. CASE RefreshBegin(r)
    <2>1. PICK token \in delivered :
               /\ args' = [args EXCEPT ![r] = [op |-> "refresh", user |-> token.sub,
                                               access |-> Nothing, refresh |-> token]]
               /\ pc[r] = "idle" /\ Goto(r, IF Expired(token) THEN "refused" ELSE "check")
               /\ UNCHANGED <<now, blacklist, delivered>>
        BY <1>2 DEF RefreshBegin, Arrive
    <2>2. token \in Token /\ token.sub \in User
        BY <1>0, <2>1 DEF Token
    <2>3. PICK to \in {"open", "refused"} :
               /\ Register!Become(r, "none", to)
               /\ to = "refused" => token \in Lapsed
        BY <1>0, <2>1, <2>2, BecomeVisible, OutcomeTable DEF Lapsed
    <2>4. Register!Ask(r)
        <3> DEFINE call == [op |-> "refresh", user |-> token.sub,
                            access |-> Nothing, refresh |-> token]
        <3>1. call \in Register!Call
            BY <2>1, <2>2 DEF Register!Call
        <3>2. Register!Presented(call) = token /\ token # Nothing /\ call.user = token.sub
            BY <2>2 DEF Register!Presented
        <3>. QED
            BY <1>e, <1>s, <2>1, <2>3, <3>1, <3>2 DEF Register!Ask, Struck, Lapsed
    <2>. QED
        BY <2>4 DEF Register!Next
<1>3. CASE AuthBegin(r)
    <2>1. PICK access \in delivered, op \in {"use", "logout"},
               refresh \in delivered \cup {Nothing} :
               /\ args' = [args EXCEPT ![r] = [op |-> op, user |-> access.sub,
                                               access |-> access, refresh |-> refresh]]
               /\ pc[r] = "idle" /\ Goto(r, "check")
               /\ UNCHANGED <<now, blacklist, delivered>>
        BY <1>3 DEF AuthBegin, Arrive
    <2>2. access \in Token /\ access.sub \in User
        BY <1>0, <2>1 DEF Token
    <2>3. Register!Become(r, "none", "open")
        BY <1>0, <2>1, BecomeVisible, OutcomeTable
    <2>4. Register!Ask(r)
        <3> DEFINE call == [op |-> op, user |-> access.sub, access |-> access, refresh |-> refresh]
        <3>1. call \in Register!Call /\ call.op # "login"
            BY <2>1, <2>2 DEF Register!Call
        <3>2. Register!Presented(call) = access /\ access # Nothing /\ call.user = access.sub
            BY <2>2 DEF Register!Presented
        <3>. QED
            BY <1>e, <1>s, <2>1, <2>3, <3>1, <3>2 DEF Register!Ask, Struck, Lapsed
    <2>. QED
        BY <2>4 DEF Register!Next
\* The look at the blacklist: a key stands only for a token in the register, and a key
\* of the register is gone only when its token has expired.
<1>4. CASE RefreshCheck(r) \/ AuthCheck(r)
    <2>1. /\ pc[r] = "check" /\ UNCHANGED <<now, blacklist, delivered, args>>
          /\ \/ Goto(r, "refused") /\ Blacklisted(Presented(r))
             \/ (\E label \in {"rotate", "verify"} : Goto(r, label)) /\ ~Blacklisted(Presented(r))
        BY <1>4 DEF RefreshCheck, AuthCheck, Presented
    <2>2. Presented(r) \in Token
        BY <1>0, <2>1 DEF PresentsOK, Presented, SignedBy, Call
    <2>3. CASE Goto(r, "refused") /\ Blacklisted(Presented(r))
        <3>1. Presented(r) \in Struck
            BY <1>0, <2>2, <2>3 DEF Struck, Blacklisted
        <3>2. Register!Become(r, "open", "refused")
            BY <1>0, <2>1, <2>3, BecomeVisible, OutcomeTable
        <3>3. Register!Deny(r)
            BY <1>e, <1>p, <1>s, <2>1, <3>1, <3>2 DEF Register!Deny, Struck, Lapsed
        <3>. QED
            BY <3>3 DEF Register!Next
    <2>4. ASSUME NEW label \in {"rotate", "verify"}, Goto(r, label), ~Blacklisted(Presented(r))
          PROVE  Register!Next
        <3>1. Presented(r) \in Struck => Presented(r) \in Lapsed
            <4>1. SUFFICES ASSUME Presented(r) \in Struck PROVE Expired(Presented(r))
                BY <2>2 DEF Lapsed
            <4>2. blacklist[Presented(r)] >= Expires(Presented(r))
                BY <4>1 DEF RegisterInv, Held
            <4>3. Expires(Presented(r)) \in Nat
                BY <2>2, SessionsAssumption DEF Token, Expires
            <4>. QED
                BY <1>0, <2>2, <2>4, <4>2, <4>3 DEF Blacklisted, Expired
        <3>2. Register!Become(r, "open", "cleared")
            BY <1>0, <2>1, <2>4, BecomeVisible, OutcomeTable DEF Awaits
        <3>3. Register!Clear(r)
            BY <1>e, <1>p, <1>s, <2>1, <3>1, <3>2 DEF Register!Clear, Struck, Lapsed
        <3>. QED
            BY <3>3 DEF Register!Next
    <2>. QED
        BY <2>1, <2>3, <2>4
<1>5. CASE AuthVerify(r)
    <2>1. /\ pc[r] = "verify" /\ UNCHANGED <<now, blacklist, delivered, args>>
          /\ args[r].op \in {"use", "logout"} /\ args[r].access \in Token
          /\ Presented(r) = args[r].access
        BY <1>0, <1>5 DEF AuthVerify, PresentsOK, SignedBy, Presented
    <2>2. CASE Expired(args[r].access)
        <3>1. Register!Become(r, "cleared", "refused")
            BY <1>0, <1>5, <2>1, <2>2, BecomeVisible, OutcomeTable DEF AuthVerify, Awaits
        <3>2. Register!Deny(r)
            BY <1>e, <1>p, <1>s, <2>1, <2>2, <3>1 DEF Register!Deny, Struck, Lapsed
        <3>. QED
            BY <3>2 DEF Register!Next
    <2>3. CASE ~Expired(args[r].access) /\ args[r].op = "use"
        <3>1. Register!Become(r, "cleared", "done")
            BY <1>0, <1>5, <2>1, <2>3, BecomeVisible, OutcomeTable DEF AuthVerify, Awaits
        <3>2. Register!Serve(r)
            BY <1>e, <1>p, <1>s, <2>1, <2>3, <3>1 DEF Register!Serve, Struck, Lapsed
        <3>. QED
            BY <3>2 DEF Register!Next
    <2>4. CASE ~Expired(args[r].access) /\ args[r].op # "use"
        <3>1. Register!Become(r, "cleared", "cleared")
            BY <1>0, <1>5, <2>1, <2>4, BecomeVisible, OutcomeTable DEF AuthVerify, Awaits
        <3>. QED
            BY <1>e, <1>s, <2>1, <3>1 DEF Register!Become, Register!vars, Struck, Lapsed
    <2>. QED
        BY <2>2, <2>3, <2>4
\* Revocations.
<1>6. CASE RefreshRotate(r)
    <2>1. /\ SignedBy(args[r].refresh, "refresh") /\ args[r].refresh \in Token
          /\ args[r].op = "refresh"
        BY <1>0, <1>6 DEF RefreshRotate, PresentsOK, SignedBy
    <2>2. Struck' = Struck \cup {args[r].refresh}
        BY <1>6, <2>1, RevokeStrikes DEF RefreshRotate
    <2>3. Register!Become(r, "cleared", "cleared")
        BY <1>0, <1>6, BecomeVisible, OutcomeTable DEF RefreshRotate, Awaits
    <2>4. Register!Revoke(r)
        BY <1>6, <1>e, <1>p, <2>1, <2>2, <2>3 DEF RefreshRotate, Register!Revoke, Struck, Lapsed
    <2>. QED
        BY <2>4 DEF Register!Next
<1>7. CASE LogoutAccess(r)
    <2>1. /\ SignedBy(args[r].access, "access") /\ args[r].access \in Token
          /\ args[r].op = "logout"
        BY <1>0, <1>7 DEF LogoutAccess, PresentsOK, SignedBy
    <2>2. Struck' = Struck \cup {args[r].access}
        BY <1>7, <2>1, RevokeStrikes DEF LogoutAccess
    <2>3. PICK to \in {"cleared", "done"} :
               /\ Register!Become(r, "cleared", to)
               /\ to = "done" => args[r].refresh = Nothing
        BY <1>0, <1>7, BecomeVisible, OutcomeTable DEF LogoutAccess, Awaits
    <2>4. Register!Revoke(r)
        BY <1>7, <1>e, <1>p, <2>1, <2>2, <2>3 DEF LogoutAccess, Register!Revoke, Struck, Lapsed
    <2>. QED
        BY <2>4 DEF Register!Next
<1>8. CASE LogoutRefresh(r)
    <2>1. /\ SignedBy(args[r].refresh, "refresh") /\ args[r].refresh \in Token
          /\ args[r].op = "logout" /\ args[r].access \in Struck
        BY <1>0, <1>8 DEF LogoutRefresh, PresentsOK, SignedBy, RegisterOK
    <2>2. Struck' = Struck \cup {args[r].refresh}
        BY <1>8, <2>1, RevokeStrikes DEF LogoutRefresh
    <2>3. Register!Become(r, "cleared", "done")
        BY <1>0, <1>8, BecomeVisible, OutcomeTable DEF LogoutRefresh, Awaits
    <2>4. Register!Revoke(r)
        BY <1>8, <1>e, <1>p, <2>1, <2>2, <2>3 DEF LogoutRefresh, Register!Revoke, Struck, Lapsed
    <2>. QED
        BY <2>4 DEF Register!Next
\* The new pair.
<1>9. CASE RefreshSign(r)
    <2>1. /\ pc[r] = "sign" /\ Goto(r, "remember")
          /\ UNCHANGED <<now, blacklist, delivered, args>>
        BY <1>9 DEF RefreshSign, Sign
    <2>2. Register!Become(r, "cleared", "cleared")
        BY <1>0, <2>1, BecomeVisible, OutcomeTable DEF Awaits
    <2>. QED
        BY <1>e, <1>s, <2>1, <2>2 DEF Register!Become, Register!vars, Struck, Lapsed
<1>10. CASE Deliver(r)
    <2>1. /\ pc[r] = "remember" /\ Goto(r, "done") /\ delivered' = delivered \cup minted[r]
          /\ UNCHANGED <<now, blacklist, args>>
        BY <1>10 DEF Deliver
    <2>2. minted[r] \in SUBSET {t \in Token : t.sub = args[r].user}
        BY <1>0, <2>1 DEF TypeOK, RegisterOK
    <2>3. /\ args[r].op \in {"login", "refresh"}
          /\ args[r].op = "refresh" => Presented(r) \in Struck
        BY <1>0, <2>1 DEF PresentsOK, RegisterOK, Presented
    <2>4. Register!Become(r, "cleared", "done")
        BY <1>0, <2>1, BecomeVisible, OutcomeTable DEF Awaits
    <2>5. Register!Grant(r)
        BY <1>e, <1>p, <1>s, <2>1, <2>2, <2>3, <2>4 DEF Register!Grant, Struck, Lapsed
    <2>. QED
        BY <2>5 DEF Register!Next
<1>11. CASE Abort(r)
    <2>1. /\ pc[r] \in Awaits /\ pc' = [pc EXCEPT ![r] = "failed"]
          /\ UNCHANGED <<now, blacklist, delivered, args>>
        BY <1>11 DEF Abort, InFlight, Goto
    <2>2. Outcome' = [q \in Request |->
                         IF q \in {r} /\ Outcome[q] \in {"open", "cleared"} THEN "lost"
                                                                             ELSE Outcome[q]]
        BY <1>0, <2>1, OutcomeTable DEF Outcome, TypeOK
    <2>3. Register!Lose({r})
        BY <1>e, <1>s, <2>1, <2>2 DEF Register!Lose, Outcome, Struck, Lapsed
    <2>. QED
        BY <2>3 DEF Register!Next
<1>. QED
    BY <1>1, <1>2, <1>3, <1>4, <1>5, <1>6, <1>7, <1>8, <1>9, <1>10, <1>11 DEF Step

LEMMA NextRegister == RegisterInv /\ [Next]_vars => [Register!Next]_(Register!vars)
<1> SUFFICES ASSUME RegisterInv, [Next]_vars
             PROVE  [Register!Next]_(Register!vars)
    OBVIOUS
<1>1. TypeOK
    BY DEF RegisterInv, HoldInv, TypeInv
<1>2. CASE Tick
    <2>1. Lapsed' \in SUBSET Token /\ Lapsed \subseteq Lapsed'
        <3>1. ASSUME NEW t \in Token, Expired(t) PROVE Expired(t)'
            <4>1. now \in Nat /\ now' = now + 1 /\ Expires(t) \in Nat /\ Expires(t)' = Expires(t)
                BY <1>1, <1>2, SessionsAssumption DEF Tick, TypeOK, Expires, Token
            <4>. QED
                BY <3>1, <4>1 DEF Expired
        <3>. QED
            BY <3>1 DEF Lapsed
    <2>2. Struck' = Struck /\ Outcome' = Outcome /\ UNCHANGED <<delivered, args>>
        BY <1>2 DEF Tick, Struck, Outcome
    <2>3. Register!Age
        BY <2>1, <2>2 DEF Register!Age, Struck, Lapsed, Outcome
    <2>. QED
        BY <2>3 DEF Register!Next
<1>3. CASE Exit
    <2>1. Outcome' = [r \in Request |->
                         IF r \in Request /\ Outcome[r] \in {"open", "cleared"} THEN "lost"
                                                                                ELSE Outcome[r]]
        <3>1. ASSUME NEW r \in Request
              PROVE  OutcomeAt[pc'[r]] = IF OutcomeAt[pc[r]] \in {"open", "cleared"}
                                            THEN "lost" ELSE OutcomeAt[pc[r]]
            <4>1. pc'[r] = IF pc[r] \in Awaits THEN "failed" ELSE pc[r]
                BY <1>3 DEF Exit, InFlight
            <4>2. pc[r] \in {"idle"} \cup Awaits \cup Answered
                BY <1>1 DEF TypeOK
            <4>. QED
                BY <4>1, <4>2, OutcomeTable DEF Awaits, Answered
        <3>. QED
            BY <3>1 DEF Outcome
    <2>2. /\ UNCHANGED <<delivered, args>> /\ Struck' = Struck /\ Lapsed' = Lapsed
        BY <1>3 DEF Exit, Struck, Lapsed, Expired, Expires
    <2>3. Register!Lose(Request)
        BY <2>1, <2>2 DEF Register!Lose, Outcome, Struck, Lapsed
    <2>. QED
        BY <2>3 DEF Register!Next
<1>4. CASE UNCHANGED vars
    BY <1>4 DEF vars, Register!vars, Expired, Expires
<1>. QED
    BY <1>2, <1>3, <1>4, StepRegister DEF Next

\* Whatever interleaves, expires, is dropped by Redis or fails, sessions decide as one
\* register of revoked tokens would that is asked once for each request and never forgets.
THEOREM SessionsImplementRegister == Spec => ImplementsRegister
<1>. QED
    BY InitRegister, NextRegisterInv, NextRegister, PTL DEF Spec, ImplementsRegister, Register!Spec
=============================================================================
