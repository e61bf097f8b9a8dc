--------------------------- MODULE ServiceProofs ---------------------------
(***************************************************************************)
(* Theorems about Service, for every set of registrations, logins, spellings *)
(* and passwords, and every number of connections, signals and starts.      *)
(*                                                                         *)
(* A step of the composition is a step of the accounts and a step of the    *)
(* process; each half has an inductive invariant of its own.                 *)
(***************************************************************************)
EXTENDS Service, TLAPS

Row(r) == [email |-> Lower[args[r].email], password |-> args[r].password]

\* Registrations stay with the awaits of a registration, and logins with theirs.
StagesOK ==
    /\ \A r \in Registration : pc[r] \notin {"findUser", "refused"}
    /\ \A r \in Login : pc[r] \in {"idle", "cut", "findUser", "done", "refused", "failed"}

RequestsGiven == \A r \in Request : pc[r] # "idle" => args[r] \in UserRow

RowsNormalised == \A u \in Accounts : Lower[users[u].email] = users[u].email

NoRowYet == \A r \in Registration : pc[r] \in {"idle", "lookUp", "saveUser"} => users[r] = Nothing

RowSaved == \A r \in Registration : pc[r] \in {"issueTokens", "done"} => users[r] = Row(r)

AccountInv ==
    /\ AccountsTypeOK /\ StagesOK /\ RequestsGiven
    /\ RowsNormalised /\ NoRowYet /\ RowSaved
    /\ OneAccountPerAddress /\ RefusalIsTrue

AccountStep ==
    \/ \E r \in Registration : RegisterBegin(r) \/ LookUp(r) \/ SaveUser(r) \/ IssueTokens(r)
    \/ \E r \in Login : LoginBegin(r) \/ FindUser(r)
    \/ \E r \in Request : Abort(r)
    \/ CutOff \/ UNCHANGED accountVars

\* The callback of a shutdown has run.
Past(n) == closers[n] \in {"closed", "destroying", "quitting"}

\* Nobody is connected before the server listens, nor once a callback has run; handlers
\* whose clients left may still be at work.
NobodyElsewhere ==
    /\ ~Serving => busy = {} /\ idle = 0
    /\ \A n \in Signals : Past(n) => phase = "closing" /\ busy = {} /\ idle = 0

CallbacksWhileClosing == \A n \in Signals : closers[n] # "none" => phase = "closing"

StoresOpen ==
    /\ phase \in {"bootstrapping", "creatingApp"} => db = "open"
    /\ phase = "creatingApp" => redis = "open"
    /\ Serving /\ (\A n \in Signals : ~Past(n)) => db = "open" /\ redis = "open"

LifeInv == LifecycleTypeOK /\ NobodyElsewhere /\ CallbacksWhileClosing /\ StoresOpen

LifeStep ==
    \/ Start \/ ConnectDatabase \/ Bootstrap \/ Listen
    \/ \E c \in Client : Accept(c) \/ Respond(c) \/ HangUp(c)
    \/ DropIdle \/ ServerClosed \/ Crash
    \/ \E n \in Signals : Signal(n) \/ Shutdown(n) \/ ShutdownFails(n)
    \/ UNCHANGED lifecycleVars

-----------------------------------------------------------------------------
\* The two halves of a step.

LEMMA NextIsLifeStep == [Next]_vars => LifeStep
BY ClientAssumption
DEF Next, vars, lifecycleVars, LifeStep, Begin, Continue, Fail, Reply, ShutdownStep, Failure,
    StartUp, Started, Signalled, Closed, Dropped, Left

LEMMA NextIsAccountStep == StagesOK /\ [Next]_vars => AccountStep
<1> SUFFICES ASSUME StagesOK, [Next]_vars PROVE AccountStep
    OBVIOUS
<1> USE DEF AccountStep
<1>1. ASSUME NEW r \in Request, Begin(r) PROVE AccountStep
    BY <1>1 DEF Begin, Request
<1>2. ASSUME NEW r \in Request, Continue(r) PROVE AccountStep
    <2>1. CASE r \in Registration
        BY <1>2, <2>1 DEF Continue, StagesOK, FindUser
    <2>2. CASE r \in Login
        BY <1>2, <2>2 DEF Continue, StagesOK, LookUp, SaveUser, IssueTokens
    <2>. QED
        BY <2>1, <2>2 DEF Request
<1>3. ASSUME NEW r \in Request, Fail(r) PROVE AccountStep
    BY <1>3 DEF Fail
<1>4. ASSUME NEW r \in Request, Reply(r) PROVE AccountStep
    BY <1>4 DEF Reply
<1>5. CASE ShutdownStep \/ Failure
    BY <1>5 DEF ShutdownStep, Failure
<1>6. CASE StartUp \/ Started \/ Signalled \/ Closed \/ Dropped \/ Left
    BY <1>6 DEF StartUp, Started, Signalled, Closed, Dropped, Left
<1>7. CASE UNCHANGED vars
    BY <1>7 DEF vars, accountVars
<1>. QED
    BY <1>1, <1>2, <1>3, <1>4, <1>5, <1>6, <1>7 DEF Next

-----------------------------------------------------------------------------
\* The process.

LEMMA InitLifeInv == Init => LifeInv
BY LifecycleAssumption
DEF Init, LifecycleInit, LifeInv, LifecycleTypeOK, NobodyElsewhere, CallbacksWhileClosing,
    StoresOpen, Serving, Past

LEMMA ExitLifeInv ==
    ASSUME LifecycleTypeOK, NEW how \in {"clean", "error", "crash"}, Exit(how)
    PROVE  LifeInv'
BY DEF Exit, LifeInv, LifecycleTypeOK, NobodyElsewhere, CallbacksWhileClosing, StoresOpen,
       Serving, Past

LEMMA StepLifeInv == LifeInv /\ LifeStep => LifeInv'
<1> SUFFICES ASSUME LifeInv, LifeStep PROVE LifeInv'
    OBVIOUS
<1> USE DEF LifeInv, LifecycleTypeOK, NobodyElsewhere, CallbacksWhileClosing, StoresOpen,
            Serving, Past
<1>1. CASE Start
    BY <1>1, LifecycleAssumption DEF Start
<1>2. CASE ConnectDatabase \/ Bootstrap \/ Listen
    BY <1>2 DEF ConnectDatabase, Bootstrap, Listen
<1>3. ASSUME NEW c \in Client, Accept(c) PROVE LifeInv'
    BY <1>3 DEF Accept
<1>4. ASSUME NEW c \in Client, Respond(c) PROVE LifeInv'
    BY <1>4 DEF Respond
<1>5. CASE DropIdle
    BY <1>5 DEF DropIdle
<1>6. CASE ServerClosed
    BY <1>6 DEF ServerClosed
<1>7. ASSUME NEW n \in Signals, Signal(n) PROVE LifeInv'
    BY <1>7 DEF Signal
<1>8. ASSUME NEW n \in Signals, Shutdown(n) PROVE LifeInv'
    <2>1. CASE DestroyDatabase(n) /\ db = "open"
        BY <2>1 DEF DestroyDatabase
    <2>2. CASE DestroyDatabase(n) /\ db # "open"
        BY <2>2, ExitLifeInv DEF DestroyDatabase
    <2>3. CASE DatabaseDestroyed(n)
        BY <2>3 DEF DatabaseDestroyed
    <2>4. CASE QuitRedis(n)
        BY <2>4, ExitLifeInv DEF QuitRedis
    <2>. QED
        BY <1>8, <2>1, <2>2, <2>3, <2>4 DEF Shutdown
<1>9. ASSUME NEW n \in Signals, ShutdownFails(n) PROVE LifeInv'
    BY <1>9, ExitLifeInv DEF ShutdownFails
<1>10. CASE Crash
    BY <1>10, ExitLifeInv DEF Crash
<1>11. CASE UNCHANGED lifecycleVars
    BY <1>11 DEF lifecycleVars
<1>12. ASSUME NEW c \in Client, HangUp(c) PROVE LifeInv'
    BY <1>12 DEF HangUp
<1>. QED
    BY <1>1, <1>2, <1>3, <1>4, <1>5, <1>6, <1>7, <1>8, <1>9, <1>10, <1>11, <1>12 DEF LifeStep

LEMMA StoresFollow == LifeInv => WaitingClientsHaveStores
BY DEF LifeInv, NobodyElsewhere, StoresOpen, WaitingClientsHaveStores

-----------------------------------------------------------------------------
\* The accounts.

LEMMA InitAccountInv == Init => AccountInv
BY NoAccountAssumption, AccountsAssumption
DEF Init, AccountsInit, AccountInv, AccountsTypeOK, StagesOK, RequestsGiven, RowsNormalised,
    NoRowYet, RowSaved, OneAccountPerAddress, RefusalIsTrue, Accounts, Request

\* A step that leaves the rows alone, and takes nobody past the insert or to a refusal.
LEMMA RowsFrame ==
    ASSUME AccountInv, AccountsTypeOK', StagesOK', RequestsGiven', UNCHANGED users,
           \A r \in Registration : pc'[r] \in {"lookUp", "saveUser"} =>
               pc[r] \in {"idle", "lookUp", "saveUser"},
           \A r \in Registration : pc'[r] = "idle" => pc[r] = "idle",
           \A r \in Registration : pc'[r] \in {"issueTokens", "done"} =>
               pc[r] \in {"issueTokens", "done"} /\ args'[r] = args[r],
           \A r \in Registration : pc'[r] \in {"conflict", "taken"} /\ pc'[r] # pc[r] =>
               \E u \in Accounts : users[u].email = Lower[args'[r].email],
           \A r \in Registration : pc'[r] = pc[r] => args'[r] = args[r]
    PROVE  AccountInv'
<1>1. Accounts' = Accounts
    BY DEF Accounts
<1>2. RowsNormalised' /\ OneAccountPerAddress'
    BY <1>1 DEF AccountInv, RowsNormalised, OneAccountPerAddress
<1>3. NoRowYet' /\ RowSaved'
    BY DEF AccountInv, NoRowYet, RowSaved, Row
<1>4. RefusalIsTrue'
    <2> SUFFICES ASSUME NEW r \in Registration, pc'[r] \in {"conflict", "taken"}
                 PROVE  \E u \in Accounts : users[u].email = Lower[args'[r].email]
        BY <1>1 DEF RefusalIsTrue
    <2>. QED
        BY DEF AccountInv, RefusalIsTrue
<1>. QED
    BY <1>2, <1>3, <1>4 DEF AccountInv

LEMMA SaveUserAccountInv ==
    ASSUME AccountInv, NEW r \in Registration, SaveUser(r)
    PROVE  AccountInv'
<1> DEFINE taken == \E u \in Accounts : users[u].email = Lower[args[r].email]
<1>1. pc[r] = "saveUser" /\ r \in Request /\ args[r] \in UserRow /\ args' = args
    BY DEF SaveUser, AccountInv, RequestsGiven, Request
<1>2. Row(r) \in UserRow /\ Row(r) # Nothing /\ Lower[Row(r).email] = Row(r).email
    BY <1>1, AccountsAssumption, NoAccountAssumption DEF Row, UserRow
<1>3. CASE taken
    <2>1. users' = users /\ pc' = [pc EXCEPT ![r] = "taken"]
        BY <1>3 DEF SaveUser, Normalised, Goto
    <2>2. AccountsTypeOK' /\ StagesOK' /\ RequestsGiven'
        BY <1>1, <2>1, AccountsAssumption
        DEF AccountInv, AccountsTypeOK, StagesOK, RequestsGiven, Answered
    <2>. QED
        BY <1>1, <1>3, <2>1, <2>2, RowsFrame DEF AccountInv, AccountsTypeOK
<1>4. CASE ~taken
    <2>1. /\ users' = [users EXCEPT ![r] = Row(r)]
          /\ pc' = [pc EXCEPT ![r] = "issueTokens"]
        BY <1>4 DEF SaveUser, Normalised, Goto, Row
    <2>2. users \in [Registration -> UserRow \cup {Nothing}] /\ users[r] = Nothing
        BY <1>1 DEF AccountInv, AccountsTypeOK, NoRowYet
    <2>3. AccountsTypeOK' /\ StagesOK' /\ RequestsGiven'
        BY <1>1, <1>2, <2>1, AccountsAssumption
        DEF AccountInv, AccountsTypeOK, StagesOK, RequestsGiven, Awaits
    <2>4. Accounts' = Accounts \cup {r} /\ r \notin Accounts
        BY <1>2, <2>1, <2>2 DEF Accounts
    <2>5. users'[r] = Row(r) /\ \A u \in Accounts : users'[u] = users[u]
        BY <2>1, <2>2, <2>4 DEF Accounts
    <2>6. RowsNormalised'
        BY <1>2, <2>4, <2>5 DEF AccountInv, RowsNormalised
    <2>7. OneAccountPerAddress'
        <3>1. \A u \in Accounts : Lower[users'[u].email] # Lower[users'[r].email]
            BY <1>2, <1>4, <2>5 DEF AccountInv, RowsNormalised, Row
        <3>2. \A u, v \in Accounts :
                  Lower[users'[u].email] = Lower[users'[v].email] => u = v
            BY <2>5 DEF AccountInv, OneAccountPerAddress
        <3>. QED
            BY <2>4, <3>1, <3>2 DEF OneAccountPerAddress
    <2>8. NoRowYet' /\ RowSaved'
        BY <1>1, <2>1, <2>2 DEF AccountInv, AccountsTypeOK, NoRowYet, RowSaved, Row, Request
    <2>9. RefusalIsTrue'
        <3> SUFFICES ASSUME NEW q \in Registration, pc'[q] \in {"conflict", "taken"}
                     PROVE  \E u \in Accounts' : users'[u].email = Lower[args[q].email]
            BY <1>1 DEF RefusalIsTrue
        <3>1. pc[q] \in {"conflict", "taken"}
            BY <2>1 DEF AccountInv, AccountsTypeOK, Request
        <3>2. PICK u \in Accounts : users[u].email = Lower[args[q].email]
            BY <3>1 DEF AccountInv, RefusalIsTrue
        <3>. QED
            BY <2>4, <2>5, <3>2
    <2>. QED
        BY <2>3, <2>6, <2>7, <2>8, <2>9 DEF AccountInv
<1>. QED
    BY <1>3, <1>4

LEMMA StepAccountInv == AccountInv /\ AccountStep => AccountInv'
<1> SUFFICES ASSUME AccountInv, AccountStep PROVE AccountInv'
    OBVIOUS
<1>t. /\ users \in [Registration -> UserRow \cup {Nothing}]
      /\ pc \in [Request -> {"idle", "cut"} \cup Awaits \cup Answered]
      /\ args \in [Request -> UserRow \cup {Nothing}]
      /\ Registration \cap Login = {} /\ Request = Registration \cup Login
    BY AccountsAssumption DEF AccountInv, AccountsTypeOK, Request
<1>1. ASSUME NEW r \in Registration, RegisterBegin(r) PROVE AccountInv'
    <2>1. /\ pc[r] = "idle" /\ users' = users
          /\ \/ pc' = [pc EXCEPT ![r] = "lookUp"]
             \/ pc' = [pc EXCEPT ![r] = "invalid"]
        BY <1>1 DEF RegisterBegin, Arrive, Goto
    <2>2. PICK row \in UserRow : args' = [args EXCEPT ![r] = row]
        BY <1>1 DEF RegisterBegin, Arrive, UserRow
    <2>3. AccountsTypeOK' /\ StagesOK' /\ RequestsGiven'
        BY <1>t, <2>1, <2>2
        DEF AccountInv, AccountsTypeOK, StagesOK, RequestsGiven, Awaits, Answered
    <2>. QED
        BY <1>t, <2>1, <2>2, <2>3, RowsFrame
<1>2. ASSUME NEW r \in Registration, LookUp(r) PROVE AccountInv'
    <2>1. /\ pc[r] = "lookUp" /\ users' = users /\ args' = args
          /\ \/ /\ pc' = [pc EXCEPT ![r] = "conflict"]
                /\ \E u \in Accounts : users[u].email = Lower[Lower[args[r].email]]
             \/ pc' = [pc EXCEPT ![r] = "saveUser"]
        BY <1>2 DEF LookUp, Goto, ExistsByEmail, Normalised
    <2>2. Lower[Lower[args[r].email]] = Lower[args[r].email]
        BY <1>t, <2>1, AccountsAssumption DEF AccountInv, RequestsGiven, UserRow
    <2>3. AccountsTypeOK' /\ StagesOK' /\ RequestsGiven'
        BY <1>t, <2>1
        DEF AccountInv, AccountsTypeOK, StagesOK, RequestsGiven, Awaits, Answered
    <2>. QED
        BY <1>t, <2>1, <2>2, <2>3, RowsFrame
<1>3. ASSUME NEW r \in Registration, SaveUser(r) PROVE AccountInv'
    BY <1>3, SaveUserAccountInv
<1>4. ASSUME NEW r \in Registration, IssueTokens(r) PROVE AccountInv'
    <2>1. /\ pc[r] = "issueTokens" /\ users' = users /\ args' = args
          /\ pc' = [pc EXCEPT ![r] = "done"]
        BY <1>4 DEF IssueTokens, Goto
    <2>2. AccountsTypeOK' /\ StagesOK' /\ RequestsGiven'
        BY <1>t, <2>1 DEF AccountInv, AccountsTypeOK, StagesOK, RequestsGiven, Answered
    <2>. QED
        BY <1>t, <2>1, <2>2, RowsFrame
<1>5. ASSUME NEW r \in Login, LoginBegin(r) PROVE AccountInv'
    <2>1. pc[r] = "idle" /\ users' = users /\ pc' = [pc EXCEPT ![r] = "findUser"]
        BY <1>5 DEF LoginBegin, Arrive, Goto
    <2>2. PICK row \in UserRow : args' = [args EXCEPT ![r] = row]
        BY <1>5 DEF LoginBegin, Arrive, UserRow
    <2>3. AccountsTypeOK' /\ StagesOK' /\ RequestsGiven'
        BY <1>t, <2>1, <2>2
        DEF AccountInv, AccountsTypeOK, StagesOK, RequestsGiven, Awaits
    <2>. QED
        BY <1>t, <2>1, <2>2, <2>3, RowsFrame
<1>6. ASSUME NEW r \in Login, FindUser(r) PROVE AccountInv'
    <2>1. /\ pc[r] = "findUser" /\ users' = users /\ args' = args
          /\ \/ pc' = [pc EXCEPT ![r] = "done"]
             \/ pc' = [pc EXCEPT ![r] = "refused"]
        BY <1>6 DEF FindUser, Goto
    <2>2. AccountsTypeOK' /\ StagesOK' /\ RequestsGiven'
        BY <1>t, <2>1 DEF AccountInv, AccountsTypeOK, StagesOK, RequestsGiven, Answered
    <2>. QED
        BY <1>t, <2>1, <2>2, RowsFrame
<1>7. ASSUME NEW r \in Request, Abort(r) PROVE AccountInv'
    <2>1. /\ pc[r] \in Awaits /\ users' = users /\ args' = args
          /\ pc' = [pc EXCEPT ![r] = "failed"]
        BY <1>7 DEF Abort, Goto
    <2>2. AccountsTypeOK' /\ StagesOK' /\ RequestsGiven'
        BY <1>t, <2>1
        DEF AccountInv, AccountsTypeOK, StagesOK, RequestsGiven, Awaits, Answered
    <2>. QED
        BY <1>t, <2>1, <2>2, RowsFrame
<1>8. CASE CutOff
    <2>1. /\ users' = users /\ args' = args
          /\ pc' = [r \in Request |-> IF pc[r] \in Awaits THEN "cut" ELSE pc[r]]
        BY <1>8 DEF CutOff
    <2>2. \A r \in Request : pc'[r] = pc[r] \/ (pc'[r] = "cut" /\ pc[r] \in Awaits)
        BY <2>1
    <2>3. AccountsTypeOK' /\ StagesOK' /\ RequestsGiven'
        BY <1>t, <2>1, <2>2
        DEF AccountInv, AccountsTypeOK, StagesOK, RequestsGiven, Awaits
    <2>. QED
        BY <1>t, <2>1, <2>2, <2>3, RowsFrame
<1>9. CASE UNCHANGED accountVars
    <2>1. AccountsTypeOK' /\ StagesOK' /\ RequestsGiven'
        BY <1>9 DEF accountVars, AccountInv, AccountsTypeOK, StagesOK, RequestsGiven
    <2>. QED
        BY <1>9, <2>1, RowsFrame DEF accountVars
<1>. QED
    BY <1>1, <1>2, <1>3, <1>4, <1>5, <1>6, <1>7, <1>8, <1>9 DEF AccountStep

LEMMA SpecInvariants == Spec => [](AccountInv /\ LifeInv)
<1>1. Init => AccountInv /\ LifeInv
    BY InitAccountInv, InitLifeInv
<1>2. AccountInv /\ LifeInv /\ [Next]_vars => (AccountInv /\ LifeInv)'
    <2>1. AccountInv /\ LifeInv /\ [Next]_vars => AccountStep
        BY NextIsAccountStep DEF AccountInv
    <2>. QED
        BY <2>1, NextIsLifeStep, StepAccountInv, StepLifeInv
<1>. QED
    BY <1>1, <1>2, PTL DEF Spec

-----------------------------------------------------------------------------
\* The variables of the process and of its requests have their types.
THEOREM TypeCorrect == Spec => []TypeOK
<1>1. AccountInv /\ LifeInv => TypeOK
    BY DEF AccountInv, LifeInv, TypeOK
<1>. QED
    BY <1>1, SpecInvariants, PTL

\* No interleaving, failure, shutdown or restart leaves two accounts with one address
\* (RegisterUseCase 49-66).
THEOREM AddressesUnique == Spec => []OneAccountPerAddress
<1>1. AccountInv => OneAccountPerAddress
    BY DEF AccountInv
<1>. QED
    BY <1>1, SpecInvariants, PTL

\* Who is refused for the address can be shown an account that has it.
THEOREM RefusalsTrue == Spec => []RefusalIsTrue
<1>1. AccountInv => RefusalIsTrue
    BY DEF AccountInv
<1>. QED
    BY <1>1, SpecInvariants, PTL

\* An answered registration keeps its row across every end of the process.
THEOREM AnsweredAccountsKept == Spec => []AcknowledgedAccountKept
<1>1. AccountInv => AcknowledgedAccountKept
    BY DEF AccountInv, RowSaved, Row, AcknowledgedAccountKept
<1>. QED
    BY <1>1, SpecInvariants, PTL

\* The stores are connected as long as a client waits for its answer.
THEOREM StoresUnderWaitingClients == Spec => []WaitingClientsHaveStores
BY StoresFollow, SpecInvariants, PTL

\* Who has registered is not told that there is no such account.
THEOREM AnsweredAccountsOpen == Spec => LoginKnowsAccounts
<1>1. AccountInv /\ LifeInv /\ [Next]_vars =>
        [\A r \in Login, q \in Registration :
            pc[r] = "findUser" /\ pc'[r] = "refused" /\ pc[q] = "done"
            => \/ Lower[args[q].email] # Lower[args[r].email]
               \/ args[q].password # args[r].password]_vars
    <2> SUFFICES ASSUME AccountInv, LifeInv, [Next]_vars,
                        NEW r \in Login, NEW q \in Registration,
                        pc[r] = "findUser", pc'[r] = "refused", pc[q] = "done",
                        Lower[args[q].email] = Lower[args[r].email],
                        args[q].password = args[r].password
                 PROVE  FALSE
        OBVIOUS
    <2>t. /\ pc \in [Request -> {"idle", "cut"} \cup Awaits \cup Answered]
          /\ Registration \cap Login = {} /\ Request = Registration \cup Login
          /\ q \in Request /\ r \in Request
        BY AccountsAssumption DEF AccountInv, AccountsTypeOK, Request
    <2>1. q \in Accounts /\ users[q] = Row(q)
        <3>1. users[q] = Row(q) /\ args[q] \in UserRow
            BY <2>t DEF AccountInv, RowSaved, RequestsGiven
        <3>2. Row(q) \in UserRow
            BY <3>1, AccountsAssumption DEF Row, UserRow
        <3>. QED
            BY <3>1, <3>2, NoAccountAssumption DEF Accounts
    <2>2. Opens(args[r].email, args[r].password)
        BY <2>1 DEF Opens, Row
    <2>3. AccountStep
        BY NextIsAccountStep DEF AccountInv
    <2>4. ASSUME NEW p \in Login, FindUser(p) PROVE FALSE
        BY <2>t, <2>2, <2>4 DEF FindUser, Goto
    <2>5. ASSUME NEW p \in Registration,
                 RegisterBegin(p) \/ LookUp(p) \/ SaveUser(p) \/ IssueTokens(p)
          PROVE  FALSE
        BY <2>t, <2>5 DEF RegisterBegin, Arrive, LookUp, SaveUser, IssueTokens, Goto
    <2>6. ASSUME NEW p \in Login, LoginBegin(p) PROVE FALSE
        BY <2>t, <2>6 DEF LoginBegin, Arrive, Goto
    <2>7. ASSUME NEW p \in Request, Abort(p) PROVE FALSE
        BY <2>t, <2>7 DEF Abort, Goto
    <2>8. CASE CutOff
        BY <2>t, <2>8 DEF CutOff
    <2>9. CASE UNCHANGED accountVars
        BY <2>9 DEF accountVars
    <2>. QED
        BY <2>3, <2>4, <2>5, <2>6, <2>7, <2>8, <2>9 DEF AccountStep
<1>. QED
    BY <1>1, SpecInvariants, PTL DEF Spec, LoginKnowsAccounts

\* A shutdown, or one that fails, ends no handler but those whose clients have left.
THEOREM ShutdownsCutNobodyWaiting == Spec => ShutdownCutsNobodyWaiting
<1>1. AccountInv /\ LifeInv /\ [Next]_vars =>
        [\A r \in Request :
            pc[r] # "cut" /\ pc'[r] = "cut" => ended' = "crash" \/ r \notin busy]_vars
    <2> SUFFICES ASSUME AccountInv, LifeInv, [Next]_vars, NEW r \in Request,
                        pc[r] # "cut", pc'[r] = "cut"
                 PROVE  ended' = "crash" \/ r \notin busy
        OBVIOUS
    <2>t. pc \in [Request -> {"idle", "cut"} \cup Awaits \cup Answered]
        BY DEF AccountInv, AccountsTypeOK
    <2>1. ASSUME NEW q \in Request, Begin(q) PROVE FALSE
        BY <2>t, <2>1 DEF Begin, RegisterBegin, LoginBegin, Arrive, Goto
    <2>2. ASSUME NEW q \in Request, Continue(q) PROVE FALSE
        BY <2>t, <2>2 DEF Continue, LookUp, SaveUser, IssueTokens, FindUser, Goto
    <2>3. ASSUME NEW q \in Request, Fail(q) PROVE FALSE
        BY <2>t, <2>3 DEF Fail, Abort, Goto
    \* Once a callback runs nobody waits.
    <2>4. ASSUME NEW n \in Signals, Shutdown(n) \/ ShutdownFails(n)
          PROVE  r \notin busy
        <3>1. Past(n)
            BY <2>4 DEF Past, Shutdown, ShutdownFails, DestroyDatabase, DatabaseDestroyed,
                        QuitRedis
        <3>. QED
            BY <3>1 DEF LifeInv, NobodyElsewhere
    <2>5. CASE Crash
        BY <2>5 DEF Crash, Exit
    <2>6. CASE UNCHANGED accountVars
        BY <2>6 DEF accountVars
    <2>. QED
        BY <2>1, <2>2, <2>3, <2>4, <2>5, <2>6
        DEF Next, Reply, ShutdownStep, Failure, StartUp, Started, Signalled, Closed, Dropped,
            Left, vars, accountVars
<1>. QED
    BY <1>1, SpecInvariants, PTL DEF Spec, ShutdownCutsNobodyWaiting
-----------------------------------------------------------------------------
(* The refinement of AccountDirectory: a registration takes effect when its row is *)
(* inserted, or when an account is found in its way; a login when it looks its      *)
(* account up.                                                                     *)

Wish == [r \in Request |-> IF args[r] = Nothing THEN Nothing
                           ELSE [email |-> Lower[args[r].email],
                                 password |-> args[r].password]]

Outcome == [r \in Request |-> OutcomeAt[pc[r]]]

LEMMA OutcomeTable ==
    /\ OutcomeAt["idle"] = "none"
    /\ \A label \in {"lookUp", "saveUser", "findUser"} : OutcomeAt[label] = "open"
    /\ \A label \in {"conflict", "taken", "refused"} : OutcomeAt[label] = "refused"
    /\ OutcomeAt["issueTokens"] = "created"
    /\ OutcomeAt["done"] = "done"
    /\ OutcomeAt["invalid"] = "invalid"
    /\ \A label \in {"failed", "cut"} : OutcomeAt[label] = "lost"
BY DEF OutcomeAt

Becomes(r, from, to) == Outcome[r] = from /\ Outcome' = [Outcome EXCEPT ![r] = to]

\* A step of one request shows in the directory as what becomes of that request.
LEMMA BecomesVisible ==
    ASSUME NEW r \in Request, NEW label, pc' = [pc EXCEPT ![r] = label],
           pc \in [Request -> {"idle", "cut"} \cup Awaits \cup Answered]
    PROVE  Becomes(r, OutcomeAt[pc[r]], OutcomeAt[label])
BY DEF Becomes, Outcome

LEMMA InitDirectory == Init => Directory!Init
<1> SUFFICES ASSUME Init PROVE Directory!Init
    OBVIOUS
<1>1. \A r \in Request : args[r] = Nothing /\ OutcomeAt[pc[r]] = "none"
    BY DEF Init, AccountsInit, OutcomeAt
<1>. QED
    BY <1>1 DEF Init, AccountsInit, Directory!Init, Directory!Request, Request

\* What a request brings is what the directory is asked for.
LEMMA WishGiven ==
    ASSUME AccountInv, NEW r \in Request, pc[r] # "idle"
    PROVE  Wish[r] = Row(r) /\ args[r] \in UserRow /\ Row(r).email = Lower[args[r].email]
BY NoAccountAssumption DEF AccountInv, RequestsGiven, Wish, Row

LEMMA TakenMeansExists ==
    ASSUME NEW email
    PROVE  Directory!Taken(email) <=> \E u \in Accounts : users[u].email = email
BY DEF Directory!Taken, Accounts

LEMMA StepDirectory ==
    ASSUME AccountInv, AccountStep
    PROVE  [Directory!Next]_(Directory!vars)
<1>t. /\ pc \in [Request -> {"idle", "cut"} \cup Awaits \cup Answered]
      /\ args \in [Request -> UserRow \cup {Nothing}]
      /\ Registration \cap Login = {} /\ Request = Registration \cup Login
      /\ Directory!Request = Request
    BY AccountsAssumption DEF AccountInv, AccountsTypeOK, Request, Directory!Request
<1>w. args' = args => Wish' = Wish
    BY DEF Wish
<1>a. ASSUME NEW r \in Request, NEW label \in {"lookUp", "invalid", "findUser"}, Arrive(r, label),
             label = "invalid" => r \in Registration
      PROVE  Directory!Next
    <2>1. PICK row \in UserRow : args' = [args EXCEPT ![r] = row]
        BY <1>a DEF Arrive, UserRow
    <2>2. pc[r] = "idle" /\ pc' = [pc EXCEPT ![r] = label] /\ users' = users
        BY <1>a DEF Arrive, Goto
    <2>3. [email |-> Lower[row.email], password |-> row.password] \in Directory!Credentials
        BY DEF UserRow, Directory!Credentials
    <2>4. Wish' = [Wish EXCEPT ![r] = [email |-> Lower[row.email], password |-> row.password]]
        BY <1>t, <2>1, NoAccountAssumption DEF Wish
    <2>5. Becomes(r, "none", OutcomeAt[label])
        BY <1>t, <2>2, BecomesVisible, OutcomeTable DEF Becomes
    <2>6. OutcomeAt[label] \in {"open", "invalid"}
          /\ (OutcomeAt[label] = "invalid" => r \in Registration)
        BY <1>a DEF OutcomeAt
    <2>7. Directory!Ask(r)
        BY <2>2, <2>3, <2>4, <2>5, <2>6 DEF Directory!Ask, Directory!Become, Becomes, Wish, Outcome
    <2>. QED
        BY <1>t, <2>7 DEF Directory!Next
<1>1. ASSUME NEW r \in Registration, RegisterBegin(r) PROVE Directory!Next
    BY <1>t, <1>1, <1>a DEF RegisterBegin
<1>2. ASSUME NEW r \in Registration, LookUp(r) PROVE [Directory!Next]_(Directory!vars)
    <2>1. pc[r] = "lookUp" /\ users' = users /\ args' = args
        BY <1>2 DEF LookUp
    <2>2. Wish[r] = Row(r) /\ Lower[Lower[args[r].email]] = Row(r).email
        BY <1>t, <2>1, WishGiven, AccountsAssumption DEF UserRow
    <2>3. CASE ExistsByEmail(Normalised(args[r].email))
        <3>0. pc' = [pc EXCEPT ![r] = "conflict"]
            BY <1>2, <2>3 DEF LookUp, Goto
        <3>1. Becomes(r, OutcomeAt["lookUp"], OutcomeAt["conflict"])
            BY <1>t, <2>1, <3>0, BecomesVisible DEF Becomes
        <3>2. Directory!Taken(Wish[r].email)
            BY <2>2, <2>3, TakenMeansExists DEF ExistsByEmail, Normalised
        <3>3. Directory!Refuse(r)
            BY <1>w, <2>1, <3>1, <3>2, OutcomeTable DEF Directory!Refuse, Directory!Become, Becomes, Wish, Outcome
        <3>. QED
            BY <3>3 DEF Directory!Next
    \* Nothing is decided yet: the address may be taken before the insert.
    <2>4. CASE ~ExistsByEmail(Normalised(args[r].email))
        <3>1. pc' = [pc EXCEPT ![r] = "saveUser"]
            BY <1>2, <2>4 DEF LookUp, Goto
        <3>2. Outcome' = Outcome
            BY <1>t, <2>1, <3>1 DEF Outcome, OutcomeAt
        <3>. QED
            BY <1>w, <2>1, <3>2 DEF Directory!vars, Wish, Outcome
    <2>. QED
        BY <2>3, <2>4
<1>3. ASSUME NEW r \in Registration, SaveUser(r) PROVE Directory!Next
    <2>1. pc[r] = "saveUser" /\ args' = args /\ r \in Request
        BY <1>t, <1>3 DEF SaveUser
    <2>2. Wish[r] = Row(r)
        BY <2>1, WishGiven
    <2>3. CASE \E u \in Accounts : users[u].email = Row(r).email
        <3>1. users' = users /\ pc' = [pc EXCEPT ![r] = "taken"]
            BY <1>3, <2>3 DEF SaveUser, Normalised, Goto, Row
        <3>2. Becomes(r, OutcomeAt["saveUser"], OutcomeAt["taken"])
            BY <1>t, <2>1, <3>1, BecomesVisible DEF Becomes
        <3>3. Directory!Taken(Wish[r].email)
            BY <2>2, <2>3, TakenMeansExists
        <3>4. Directory!Refuse(r)
            BY <1>w, <2>1, <3>1, <3>2, <3>3, OutcomeTable DEF Directory!Refuse, Directory!Become, Becomes, Wish, Outcome
        <3>. QED
            BY <3>4 DEF Directory!Next
    <2>4. CASE ~\E u \in Accounts : users[u].email = Row(r).email
        <3>1. users' = [users EXCEPT ![r] = Row(r)] /\ pc' = [pc EXCEPT ![r] = "issueTokens"]
            BY <1>3, <2>4 DEF SaveUser, Normalised, Goto, Row
        <3>2. Becomes(r, OutcomeAt["saveUser"], OutcomeAt["issueTokens"])
            BY <1>t, <2>1, <3>1, BecomesVisible DEF Becomes
        <3>3. ~Directory!Taken(Wish[r].email)
            BY <2>2, <2>4, TakenMeansExists
        <3>4. Directory!Create(r)
            BY <1>w, <2>1, <2>2, <3>1, <3>2, <3>3, OutcomeTable DEF Directory!Create, Directory!Become, Becomes, Wish, Outcome
        <3>. QED
            BY <3>4 DEF Directory!Next
    <2>. QED
        BY <2>3, <2>4
<1>4. ASSUME NEW r \in Registration, IssueTokens(r) PROVE Directory!Next
    <2>0. pc[r] = "issueTokens" /\ pc' = [pc EXCEPT ![r] = "done"] /\ r \in Request
        BY <1>t, <1>4 DEF IssueTokens, Goto
    <2>1. Becomes(r, OutcomeAt["issueTokens"], OutcomeAt["done"])
        BY <1>t, <2>0, BecomesVisible DEF Becomes
    <2>2. Directory!Tell(r)
        BY <1>w, <1>4, <2>1, OutcomeTable DEF IssueTokens, Directory!Tell, Directory!Become, Becomes, Wish, Outcome
    <2>. QED
        BY <2>2 DEF Directory!Next
<1>5. ASSUME NEW r \in Login, LoginBegin(r) PROVE Directory!Next
    BY <1>t, <1>5, <1>a DEF LoginBegin
<1>6. ASSUME NEW r \in Login, FindUser(r) PROVE Directory!Next
    <2>1. pc[r] = "findUser" /\ users' = users /\ args' = args /\ r \in Request
        BY <1>t, <1>6 DEF FindUser
    <2>2. Wish[r] = Row(r) /\ Row(r) # Nothing
        BY <1>t, <2>1, WishGiven, AccountsAssumption, NoAccountAssumption DEF Row, UserRow
    <2>3. Opens(args[r].email, args[r].password) <=> Directory!Known(Wish[r])
        <3>1. \A u \in Accounts : users[u] \in UserRow
            BY DEF AccountInv, AccountsTypeOK, Accounts
        <3>2. \A u \in Accounts : users[u] = Row(r) <=> /\ users[u].email = Lower[args[r].email]
                                                       /\ users[u].password = args[r].password
            BY <3>1 DEF UserRow, Row
        <3>3. Directory!Known(Row(r)) <=> \E u \in Accounts : users[u] = Row(r)
            BY <2>2 DEF Directory!Known, Accounts
        <3>. QED
            BY <2>2, <3>2, <3>3 DEF Opens
    <2>4. CASE Directory!Known(Wish[r])
        <3>1. pc' = [pc EXCEPT ![r] = "done"]
            BY <1>6, <2>3, <2>4 DEF FindUser, Goto
        <3>2. Becomes(r, OutcomeAt["findUser"], OutcomeAt["done"])
            BY <1>t, <2>1, <3>1, BecomesVisible DEF Becomes
        <3>3. Directory!Enter(r)
            BY <1>w, <2>1, <2>4, <3>2, OutcomeTable
            DEF Directory!Enter, Directory!Become, Becomes, Wish, Outcome
        <3>. QED
            BY <3>3 DEF Directory!Next
    <2>5. CASE ~Directory!Known(Wish[r])
        <3>1. pc' = [pc EXCEPT ![r] = "refused"]
            BY <1>6, <2>3, <2>5 DEF FindUser, Goto
        <3>2. Becomes(r, OutcomeAt["findUser"], OutcomeAt["refused"])
            BY <1>t, <2>1, <3>1, BecomesVisible DEF Becomes
        <3>3. Directory!Enter(r)
            BY <1>w, <2>1, <2>5, <3>2, OutcomeTable
            DEF Directory!Enter, Directory!Become, Becomes, Wish, Outcome
        <3>. QED
            BY <3>3 DEF Directory!Next
    <2>. QED
        BY <2>4, <2>5
\* Of the requests at an await, an error or the end of the process loses the answers.
<1>7. ASSUME NEW R \in SUBSET Request, users' = users, args' = args,
             \A r \in Request : \/ r \in R /\ pc[r] \in Awaits /\ pc'[r] \in {"failed", "cut"}
                                \/ (r \notin R \/ pc[r] \notin Awaits) /\ pc'[r] = pc[r]
      PROVE  Directory!Next
    <2>1. ASSUME NEW r \in Request
          PROVE  OutcomeAt[pc'[r]] = IF r \in R /\ OutcomeAt[pc[r]] \in {"open", "created"}
                                     THEN "lost" ELSE OutcomeAt[pc[r]]
        BY <1>t, <1>7 DEF OutcomeAt, Awaits, Answered
    <2>2. Outcome' = [r \in Directory!Request |->
                         IF r \in R /\ Outcome[r] \in {"open", "created"}
                         THEN "lost" ELSE Outcome[r]]
        BY <1>t, <2>1 DEF Outcome
    <2>3. Directory!Lose(R)
        BY <1>w, <1>7, <2>2 DEF Directory!Lose, Wish, Outcome
    <2>. QED
        BY <1>t, <2>3 DEF Directory!Next
<1>8. ASSUME NEW r \in Request, Abort(r) PROVE Directory!Next
    <2>1. /\ users' = users /\ args' = args /\ pc[r] \in Awaits
          /\ pc' = [pc EXCEPT ![r] = "failed"]
        BY <1>8 DEF Abort, Goto
    <2>2. \A q \in Request : \/ q \in {r} /\ pc[q] \in Awaits /\ pc'[q] \in {"failed", "cut"}
                             \/ (q \notin {r} \/ pc[q] \notin Awaits) /\ pc'[q] = pc[q]
        BY <1>t, <2>1
    <2>3. {r} \in SUBSET Request
        OBVIOUS
    <2>. QED
        BY <1>7, <2>1, <2>2, <2>3
<1>9. CASE CutOff
    <2>1. Request \in SUBSET Request
        OBVIOUS
    <2>2. \A r \in Request : \/ r \in Request /\ pc[r] \in Awaits /\ pc'[r] \in {"failed", "cut"}
                             \/ (r \notin Request \/ pc[r] \notin Awaits) /\ pc'[r] = pc[r]
        BY <1>t, <1>9 DEF CutOff
    <2>. QED
        BY <1>7, <1>9, <2>1, <2>2 DEF CutOff
<1>10. CASE UNCHANGED accountVars
    BY <1>10 DEF accountVars, Directory!vars
<1>. QED
    BY <1>1, <1>2, <1>3, <1>4, <1>5, <1>6, <1>8, <1>9, <1>10 DEF AccountStep

\* Every interleaving of registrations and logins, with failures, shutdowns, crashes and
\* restarts, is one that a directory of accounts with atomic requests allows.
THEOREM AccountsImplementDirectory == Spec => ImplementsDirectory
<1>1. AccountInv /\ LifeInv /\ [Next]_vars => [Directory!Next]_(Directory!vars)
    BY NextIsAccountStep, StepDirectory DEF AccountInv
<1>. QED
    BY <1>1, InitDirectory, SpecInvariants, PTL DEF Spec, ImplementsDirectory, Directory!Spec
=============================================================================
