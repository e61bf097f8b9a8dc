------------------------------ MODULE Service ------------------------------
(***************************************************************************)
(* One process that serves registrations and logins (Accounts) while it is  *)
(* started, shut down and restarted (Lifecycle).  A request comes and is    *)
(* answered on a connection; its handler runs until it is through, with or  *)
(* without a client, or until the process ends.                              *)
(***************************************************************************)
EXTENDS Accounts, Lifecycle

ASSUMPTION ClientAssumption == Client = Request

vars == <<users, pc, args, phase, db, redis, busy, idle, closers, ended, starts>>

Init == AccountsInit /\ LifecycleInit

Begin(r) ==
    /\ Accept(r)
    /\ \/ r \in Registration /\ RegisterBegin(r)
       \/ r \in Login /\ LoginBegin(r)

\* A query succeeds until the data source is destroyed; issueTokens awaits Redis.
Continue(r) ==
    /\ db # "closed" \/ pc[r] = "issueTokens"
    /\ LookUp(r) \/ SaveUser(r) \/ IssueTokens(r) \/ FindUser(r)
    /\ UNCHANGED lifecycleVars

Fail(r) == (AuthFaults \/ db # "open") /\ Abort(r) /\ UNCHANGED lifecycleVars

Reply(r) == pc[r] \in Answered /\ Respond(r) /\ UNCHANGED accountVars

Left == (\E r \in Request : HangUp(r)) /\ UNCHANGED accountVars

\* Steps of the process that may end it, and its handlers with it.
ShutdownStep ==
    /\ \E n \in Signals : Shutdown(n)
    /\ IF phase' = "down" THEN CutOff ELSE UNCHANGED accountVars

Failure == (Crash \/ \E n \in Signals : ShutdownFails(n)) /\ CutOff

StartUp == (ConnectDatabase \/ Bootstrap \/ Listen) /\ UNCHANGED accountVars

Started == Start /\ UNCHANGED accountVars

Signalled == (\E n \in Signals : Signal(n)) /\ UNCHANGED accountVars

Closed == ServerClosed /\ UNCHANGED accountVars

Dropped == DropIdle /\ UNCHANGED accountVars

Next ==
    \/ \E r \in Request : Begin(r) \/ Continue(r) \/ Fail(r) \/ Reply(r)
    \/ ShutdownStep \/ Failure
    \/ StartUp \/ Started \/ Signalled \/ Closed \/ Dropped \/ Left

Spec == Init /\ [][Next]_vars

(***************************************************************************)
(* Calls return, answers go out and the event loop runs what is queued.     *)
(* Nobody has to send a request or a signal, to hang up or to start the     *)
(* process, and nothing has to fail.  Requests are finitely many and arrive *)
(* whole: a client that never stops sending on a connection it keeps alive, *)
(* or stops in the middle of a request, holds a shutdown up.                *)
(***************************************************************************)
Fairness ==
    /\ \A r \in Request : WF_vars(Continue(r)) /\ WF_vars(Reply(r))
    /\ WF_vars(StartUp)
    /\ WF_vars(Dropped)
    /\ WF_vars(Closed)
    /\ WF_vars(ShutdownStep)

FairSpec == Spec /\ Fairness

-----------------------------------------------------------------------------
AccountsTypeOK ==
    /\ users \in [Registration -> UserRow \cup {Nothing}]
    /\ pc \in [Request -> {"idle", "cut"} \cup Awaits \cup Answered]
    /\ args \in [Request -> UserRow \cup {Nothing}]

LifecycleTypeOK ==
    /\ phase \in {"down", "connecting", "bootstrapping", "creatingApp", "listening", "closing"}
    /\ db \in {"closed", "open", "ending"}
    /\ redis \in {"closed", "open"}
    /\ busy \subseteq Client
    /\ idle \in Nat
    /\ closers \in [Signals -> {"none", "waiting", "closed", "destroying", "quitting"}]
    /\ ended \in {"not", "clean", "error", "crash"}
    /\ starts \in 0 .. MaxStarts

\* Every variable of the process and of the requests has its type.
TypeOK == AccountsTypeOK /\ LifecycleTypeOK

\* However two registrations interleave, fail or are cut off, no two accounts have one
\* address, in whatever case it was written (RegisterUseCase 49-66).
OneAccountPerAddress ==
    \A u, v \in Accounts : Lower[users[u].email] = Lower[users[v].email] => u = v

\* A registration is refused for its address, by the look-up or by the unique index,
\* only if somebody has an account with it.
RefusalIsTrue ==
    \A r \in Registration : pc[r] \in {"conflict", "taken"} =>
        \E u \in Accounts : users[u].email = Lower[args[r].email]

\* An answered registration has its account, with its address and its password, however
\* the process ended since.
AcknowledgedAccountKept ==
    \A r \in Registration : pc[r] = "done" =>
        users[r] = [email |-> Lower[args[r].email], password |-> args[r].password]

\* While a client waits for its answer the database and Redis are connected: bootstrap
\* comes before listen, and no callback of a shutdown, of its own signal or another,
\* closes them before the last answer is out (main.ts 38-49).  The handler of a client
\* that left may find them closed.
WaitingClientsHaveStores == busy # {} => db = "open" /\ redis = "open"

\* A login that finds no account was not preceded by an answered registration of that
\* address, in any case, with that password.
LoginKnowsAccounts ==
    [][\A r \in Login, q \in Registration :
         pc[r] = "findUser" /\ pc'[r] = "refused" /\ pc[q] = "done"
         => \/ Lower[args[q].email] # Lower[args[r].email]
            \/ args[q].password # args[r].password]_vars

\* Only a crash ends the process under a handler whose client waits for the answer: a
\* shutdown, one that fails and one that is signalled twice end it under the handlers of
\* clients that have hung up, and no others (main.ts 35-58).
ShutdownCutsNobodyWaiting ==
    [][\A r \in Request :
         pc[r] # "cut" /\ pc'[r] = "cut" => ended' = "crash" \/ r \notin busy]_vars

\* What became of a request, by the await its handler stands at, with or without a
\* client to be told.
OutcomeAt == [idle |-> "none", lookUp |-> "open", saveUser |-> "open", findUser |-> "open",
              issueTokens |-> "created", done |-> "done", invalid |-> "invalid",
              conflict |-> "refused", taken |-> "refused", refused |-> "refused",
              failed |-> "lost", cut |-> "lost"]

Directory == INSTANCE AccountDirectory
                 WITH Address <- {Lower[s] : s \in Spelling},
                      accounts <- users,
                      wish <- [r \in Request |->
                                  IF args[r] = Nothing THEN Nothing
                                  ELSE [email |-> Lower[args[r].email],
                                        password |-> args[r].password]],
                      outcome <- [r \in Request |-> OutcomeAt[pc[r]]]

\* However registrations and logins interleave, fail, are cut off and find a restarted
\* process, each takes effect at one moment, and accounts only come (RegisterUseCase 51-66,
\* LoginUseCase 54-73): the look-up and the insert are two calls, the directory is one.
ImplementsDirectory == Directory!Spec

\* A signal ends the process, however many follow it, whoever hangs up and whatever fails
\* on the way, once the clients send no more and if no connection stays open without a
\* whole request on it.
SignalEndsProcess == phase = "closing" ~> phase = "down"
=============================================================================
