----------------------------- MODULE LoginGuard -----------------------------
(***************************************************************************)
(* The brute-force protection of LoginUseCase: a counter per e-mail address *)
(* under the Redis key login_attempts:<email>.                             *)
(*                                                                         *)
(* GET, INCR, EXPIRE and DEL are separate calls, and the password is       *)
(* compared between the first and the others.  INCR on a missing key makes *)
(* it with value 1 and no expiry; EXPIRE on a missing key does nothing.    *)
(* Time is kept as the seconds a key has left.                             *)
(***************************************************************************)
EXTENDS Integers, FiniteSets

CONSTANTS
    Request,      \* login requests
    Email,        \* addresses clients try
    MaxAttempts,  \* BRUTE_FORCE_MAX_ATTEMPTS
    Window,       \* BRUTE_FORCE_WINDOW_SECONDS
    MaxInFlight,  \* bound: how many requests are open at once
    Faults,       \* TRUE: calls may reject and the process may crash
    Forever       \* the time left of a key without expiry

ASSUMPTION GuardAssumption ==
    /\ Email # {}
    /\ MaxAttempts \in Nat \ {0}
    /\ Window \in Nat \ {0}
    /\ MaxInFlight \in Nat
    /\ Faults \in BOOLEAN
    /\ Forever \notin 0 .. Window

VARIABLES
    attempts,  \* by address: the counter, 0 while there is no key
    left,      \* by address: seconds until the key goes, Forever while not set
    pc,        \* the await each request is at
    args,      \* the address, and whether it has an account and the password is
               \* right
    count      \* incrementAttempts' local: what INCR returned, 0 before

vars == <<attempts, left, pc, args, count>>

Awaits == {"compare", "increment", "expire", "clear"}
Answered == {"admitted", "refused", "failed"}

Call == [email : Email, right : BOOLEAN]

InFlight(r) == pc[r] \in Awaits

NoCall == [email |-> CHOOSE e \in Email : TRUE, right |-> FALSE]

Goto(r, label) == pc' = [pc EXCEPT ![r] = label]

-----------------------------------------------------------------------------
Init ==
    /\ attempts = [e \in Email |-> 0]
    /\ left = [e \in Email |-> Forever]
    /\ pc = [r \in Request |-> "idle"]
    /\ args = [r \in Request |-> NoCall]
    /\ count = [r \in Request |-> 0]

\* Mutant: the threshold is taken for the last attempt allowed.
LockedLate(email) == attempts[email] > MaxAttempts

Locked(email) == attempts[email] >= MaxAttempts

Begin(r) ==
    \E email \in Email, right \in BOOLEAN :
        /\ pc[r] = "idle"
        /\ Cardinality({q \in Request : InFlight(q)}) < MaxInFlight
        /\ args' = [args EXCEPT ![r] = [email |-> email, right |-> right]]
        /\ Goto(r, IF Locked(email) THEN "refused" ELSE "compare")
        /\ UNCHANGED <<attempts, left, count>>

\* findByEmail and, for an account, the comparison of the password.
Compare(r) ==
    /\ pc[r] = "compare"
    /\ Goto(r, IF args[r].right THEN "clear" ELSE "increment")
    /\ UNCHANGED <<attempts, left, args, count>>

\* Mutant: a GET and a SET in place of INCR; SET drops the expiry.
IncrementBySet(r) ==
    LET email == args[r].email IN
    /\ pc[r] = "increment"
    /\ attempts' = [attempts EXCEPT ![email] = @ + 1]
    /\ left' = [left EXCEPT ![email] = Forever]
    /\ count' = [count EXCEPT ![r] = attempts'[email]]
    /\ Goto(r, IF count'[r] = 1 THEN "expire" ELSE "refused")
    /\ UNCHANGED args

\* Mutant: the window opens with the second failure.
IncrementThenSecond(r) ==
    LET email == args[r].email IN
    /\ pc[r] = "increment"
    /\ attempts' = [attempts EXCEPT ![email] = @ + 1]
    /\ count' = [count EXCEPT ![r] = attempts[email] + 1]
    /\ Goto(r, IF attempts[email] = 1 THEN "expire" ELSE "refused")
    /\ UNCHANGED <<left, args>>

\* INCR; the first failure goes on to open the window.
Increment(r) ==
    LET email == args[r].email IN
    /\ pc[r] = "increment"
    /\ attempts' = [attempts EXCEPT ![email] = @ + 1]
    /\ count' = [count EXCEPT ![r] = attempts[email] + 1]
    /\ Goto(r, IF attempts[email] = 0 THEN "expire" ELSE "refused")
    /\ UNCHANGED <<left, args>>

\* Mutant: EXPIRE is given milliseconds.
ExpireInMillis(r) ==
    LET email == args[r].email IN
    /\ pc[r] = "expire"
    /\ left' = IF attempts[email] = 0 THEN left
               ELSE [left EXCEPT ![email] = Window * 1000]
    /\ Goto(r, "refused")
    /\ UNCHANGED <<attempts, args, count>>

\* EXPIRE, on whatever key now bears the name.
Expire(r) ==
    LET email == args[r].email IN
    /\ pc[r] = "expire"
    /\ left' = IF attempts[email] = 0 THEN left
               ELSE [left EXCEPT ![email] = Window]
    /\ Goto(r, "refused")
    /\ UNCHANGED <<attempts, args, count>>

\* DEL; the login then goes on to record itself and to sign its tokens.
Clear(r) ==
    LET email == args[r].email IN
    /\ pc[r] = "clear"
    /\ attempts' = [attempts EXCEPT ![email] = 0]
    /\ left' = [left EXCEPT ![email] = Forever]
    /\ Goto(r, "admitted")
    /\ UNCHANGED <<args, count>>

\* A call rejects, or the process dies.
Abort(r) ==
    /\ Faults
    /\ InFlight(r)
    /\ Goto(r, "failed")
    /\ UNCHANGED <<attempts, left, args, count>>

\* A second passes; a key whose time is up goes.
Tick ==
    LET ending == {e \in Email : left[e] = 1} IN
    /\ \E e \in Email : left[e] # Forever
    /\ attempts' = [e \in Email |-> IF e \in ending THEN 0 ELSE attempts[e]]
    /\ left' = [e \in Email |-> IF left[e] = Forever \/ e \in ending THEN Forever
                                                                    ELSE left[e] - 1]
    /\ UNCHANGED <<pc, args, count>>

Continue(r) == Compare(r) \/ Increment(r) \/ Expire(r) \/ Clear(r)

Next == Tick \/ \E r \in Request : Begin(r) \/ Continue(r) \/ Abort(r)

Spec == Init /\ [][Next]_vars

\* Time passes, every call settles, and the event loop runs every continuation.
FairSpec == Spec /\ WF_vars(Tick) /\ \A r \in Request : WF_vars(Continue(r))

-----------------------------------------------------------------------------
\* Counters, times and handlers keep their shapes; no key has more than a window
\* left.
TypeOK ==
    /\ attempts \in [Email -> Nat]
    /\ left \in [Email -> (1 .. Window) \cup {Forever}]
    /\ pc \in [Request -> {"idle"} \cup Awaits \cup Answered]
    /\ args \in [Request -> Call]
    /\ count \in [Request -> Nat]

\* Attempts that were let through before the counter reached the threshold may all
\* fail after it: the counter overruns by the attempts open at once, never by more.
OverrunIsBounded ==
    \A e \in Email : attempts[e] < MaxAttempts + MaxInFlight

\* A counter is without expiry only while its first failure is between INCR and
\* EXPIRE, or if that request was cut off there.
CounterExpires ==
    \A e \in Email :
        attempts[e] > 0 /\ left[e] = Forever =>
            \E r \in Request : /\ args[r].email = e
                               /\ count[r] = 1
                               /\ pc[r] \in {"expire", "failed"}

\* A lockout whose window was opened ends, failures still in flight or not.
LockoutEnds ==
    \A e \in Email : (Locked(e) /\ left[e] # Forever) ~> ~Locked(e)

\* "Brute-force login protection (5 attempts -> 15-min lockout)" (README): every
\* lockout ends.
LockoutIsTemporary == \A e \in Email : Locked(e) ~> ~Locked(e)
=============================================================================
