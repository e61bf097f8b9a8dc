-------------------------- MODULE LoginGuardProofs --------------------------
(***************************************************************************)
(* Theorems about LoginGuard, for every set of requests and addresses, every *)
(* threshold, window and number of requests open at once.                  *)
(***************************************************************************)
EXTENDS LoginGuard, FiniteSetTheorems, TLAPS

Open == {r \in Request : InFlight(r)}

\* The requests that may still count a failure against the address.
Pending(email) ==
    {r \in Request : pc[r] \in {"compare", "increment"} /\ args[r].email = email}

OpenOK == IsFiniteSet(Open) /\ Cardinality(Open) <= MaxInFlight

\* What the counter can still reach.
ReachOK(email) ==
    attempts[email] + Cardinality(Pending(email)) < MaxAttempts + MaxInFlight

OverrunInv == TypeOK /\ OpenOK /\ \A e \in Email : ReachOK(e)

\* A request that made the counter and has not given it an expiry.
Opens(r, email) ==
    args[r].email = email /\ count[r] = 1 /\ pc[r] \in {"expire", "failed"}

-----------------------------------------------------------------------------
\* Types.

LEMMA InitTypeOK == Init => TypeOK
BY GuardAssumption DEF Init, TypeOK, NoCall, Call

LEMMA StepTypeOK == TypeOK /\ [Next]_vars => TypeOK'
<1> SUFFICES ASSUME TypeOK, [Next]_vars PROVE TypeOK'
    OBVIOUS
<1> USE DEF TypeOK, Awaits, Answered
<1>1. ASSUME NEW r \in Request, Begin(r) PROVE TypeOK'
    BY <1>1 DEF Begin, Goto, Call
<1>2. ASSUME NEW r \in Request, Compare(r) PROVE TypeOK'
    BY <1>2 DEF Compare, Goto
<1>3. ASSUME NEW r \in Request, Increment(r) PROVE TypeOK'
    BY <1>3 DEF Increment, Goto, Call
<1>4. ASSUME NEW r \in Request, Expire(r) PROVE TypeOK'
    BY <1>4, GuardAssumption DEF Expire, Goto, Call
<1>5. ASSUME NEW r \in Request, Clear(r) PROVE TypeOK'
    BY <1>5 DEF Clear, Goto, Call
<1>6. ASSUME NEW r \in Request, Abort(r) PROVE TypeOK'
    BY <1>6 DEF Abort, Goto
<1>7. CASE Tick
    BY <1>7, GuardAssumption DEF Tick
<1>8. CASE UNCHANGED vars
    BY <1>8 DEF vars
<1>. QED
    BY <1>1, <1>2, <1>3, <1>4, <1>5, <1>6, <1>7, <1>8 DEF Next, Continue

-----------------------------------------------------------------------------
\* A counter without expiry.

LEMMA StepCounterExpires ==
    TypeOK /\ CounterExpires /\ [Next]_vars => CounterExpires'
<1> SUFFICES ASSUME TypeOK, CounterExpires, [Next]_vars,
                    NEW e \in Email, (attempts[e] > 0 /\ left[e] = Forever)'
             PROVE  \E q \in Request : Opens(q, e)'
    BY DEF CounterExpires, Opens
<1> USE DEF TypeOK
\* The witness of the state before, where there is one, stays a witness.
<1>a. attempts[e] > 0 /\ left[e] = Forever => \E q \in Request : Opens(q, e)
    BY DEF CounterExpires, Opens
<1>1. ASSUME NEW r \in Request, Begin(r) PROVE \E q \in Request : Opens(q, e)'
    BY <1>1, <1>a DEF Begin, Goto, Opens
<1>2. ASSUME NEW r \in Request, Compare(r) PROVE \E q \in Request : Opens(q, e)'
    BY <1>2, <1>a DEF Compare, Goto, Opens
<1>3. ASSUME NEW r \in Request, Increment(r) PROVE \E q \in Request : Opens(q, e)'
    <2>1. CASE args[r].email = e /\ attempts[e] = 0
        <3>1. Opens(r, e)'
            BY <1>3, <2>1 DEF Increment, Goto, Opens
        <3>. QED
            BY <3>1
    <2>2. CASE ~(args[r].email = e /\ attempts[e] = 0)
        <3>1. attempts[e] > 0 /\ left[e] = Forever
            BY <1>3, <2>2 DEF Increment, Call
        <3>. QED
            BY <1>3, <1>a, <3>1 DEF Increment, Goto, Opens
    <2>. QED
        BY <2>1, <2>2
<1>4. ASSUME NEW r \in Request, Expire(r) PROVE \E q \in Request : Opens(q, e)'
    <2>1. args[r].email # e
        BY <1>4, GuardAssumption DEF Expire
    <2>2. attempts[e] > 0 /\ left[e] = Forever
        BY <1>4, <2>1 DEF Expire, Call
    <2>. QED
        BY <1>4, <1>a, <2>1, <2>2 DEF Expire, Goto, Opens
<1>5. ASSUME NEW r \in Request, Clear(r) PROVE \E q \in Request : Opens(q, e)'
    BY <1>5, <1>a DEF Clear, Goto, Opens, Call
<1>6. ASSUME NEW r \in Request, Abort(r) PROVE \E q \in Request : Opens(q, e)'
    BY <1>6, <1>a DEF Abort, Goto, Opens
<1>7. CASE Tick
    <2>1. attempts[e] > 0 /\ left[e] = Forever
        BY <1>7, GuardAssumption DEF Tick
    <2>. QED
        BY <1>7, <1>a, <2>1 DEF Tick, Opens
<1>8. CASE UNCHANGED vars
    BY <1>8, <1>a DEF vars, Opens
<1>. QED
    BY <1>1, <1>2, <1>3, <1>4, <1>5, <1>6, <1>7, <1>8 DEF Next, Continue

-----------------------------------------------------------------------------
\* How far a counter can run over the threshold.

LEMMA PendingIsOpen ==
    \A e \in Email : Pending(e) \subseteq Open /\ Pending(e)' \subseteq Open'
BY DEF Pending, Open, InFlight, Awaits

\* While few are open, a count below the threshold cannot run over the bound.
LEMMA ReachFromBelow ==
    ASSUME NEW open, IsFiniteSet(open), Cardinality(open) <= MaxInFlight,
           NEW pending \in SUBSET open,
           NEW n \in Nat, n < MaxAttempts
    PROVE  n + Cardinality(pending) < MaxAttempts + MaxInFlight
<1>1. IsFiniteSet(pending) /\ Cardinality(pending) <= Cardinality(open)
    BY FS_Subset
<1>2. Cardinality(pending) \in Nat /\ Cardinality(open) \in Nat
    BY <1>1, FS_CardinalityType
<1>. QED
    BY <1>1, <1>2, GuardAssumption

\* A step that opens no request keeps the bound on the open ones, and keeps the
\* reach of an address whose counter grows only as its pending requests lessen.
LEMMA OpenFrame ==
    ASSUME OpenOK, Open' \subseteq Open
    PROVE  OpenOK'
<1>1. IsFiniteSet(Open') /\ Cardinality(Open') <= Cardinality(Open)
    BY FS_Subset DEF OpenOK
<1>2. Cardinality(Open') \in Nat /\ Cardinality(Open) \in Nat
    BY <1>1, FS_CardinalityType DEF OpenOK
<1>. QED
    BY <1>1, <1>2, GuardAssumption DEF OpenOK

LEMMA ReachFrame ==
    ASSUME OpenOK, NEW e \in Email, ReachOK(e), attempts[e] \in Nat,
           attempts'[e] = attempts[e], Pending(e)' \subseteq Pending(e)
    PROVE  ReachOK(e)'
<1>1. IsFiniteSet(Pending(e))
    BY PendingIsOpen, FS_Subset DEF OpenOK
<1>2. IsFiniteSet(Pending(e)') /\ Cardinality(Pending(e)') <= Cardinality(Pending(e))
    BY <1>1, FS_Subset
<1>3. Cardinality(Pending(e)') \in Nat /\ Cardinality(Pending(e)) \in Nat
    BY <1>1, <1>2, FS_CardinalityType
<1>. QED
    BY <1>2, <1>3, GuardAssumption DEF ReachOK

LEMMA InitOverrunInv == Init => OverrunInv
<1> SUFFICES ASSUME Init PROVE OverrunInv
    OBVIOUS
<1>1. TypeOK
    BY InitTypeOK
<1>2. Open = {}
    BY DEF Init, Open, InFlight, Awaits
<1>3. OpenOK
    BY <1>2, FS_EmptySet, GuardAssumption DEF OpenOK
<1>4. ASSUME NEW e \in Email PROVE ReachOK(e)
    BY <1>3, PendingIsOpen, ReachFromBelow, GuardAssumption DEF Init, OpenOK, ReachOK
<1>. QED
    BY <1>1, <1>3, <1>4 DEF OverrunInv

LEMMA StepOverrunInv == OverrunInv /\ [Next]_vars => OverrunInv'
<1> SUFFICES ASSUME OverrunInv, [Next]_vars PROVE OverrunInv'
    OBVIOUS
<1>t. TypeOK /\ TypeOK'
    BY StepTypeOK DEF OverrunInv
<1>a. ASSUME OpenOK', \A e \in Email : ReachOK(e)' PROVE OverrunInv'
    BY <1>t, <1>a DEF OverrunInv
\* A step after which nobody new is open or pending, and no counter has moved.
<1>b. ASSUME attempts' = attempts, Open' \subseteq Open,
             \A e \in Email : Pending(e)' \subseteq Pending(e)
      PROVE  OverrunInv'
    <2>1. OpenOK'
        BY <1>b, OpenFrame DEF OverrunInv
    <2>2. ASSUME NEW e \in Email PROVE ReachOK(e)'
        BY <1>b, <1>t, ReachFrame DEF OverrunInv, TypeOK
    <2>. QED
        BY <1>a, <2>1, <2>2
\* A step after which nobody new is open or pending, and each counter that has
\* moved is gone.
<1>c. ASSUME Open' \subseteq Open,
             \A e \in Email : \/ attempts'[e] = 0
                             \/ /\ attempts'[e] = attempts[e]
                                /\ Pending(e)' \subseteq Pending(e)
      PROVE  OverrunInv'
    <2>1. OpenOK'
        BY <1>c, OpenFrame DEF OverrunInv
    <2>2. ASSUME NEW e \in Email PROVE ReachOK(e)'
        <3>1. CASE attempts'[e] = 0
            BY <2>1, <3>1, PendingIsOpen, ReachFromBelow, GuardAssumption
               DEF OpenOK, ReachOK
        <3>2. CASE attempts'[e] = attempts[e] /\ Pending(e)' \subseteq Pending(e)
            BY <3>2, <1>t, ReachFrame DEF OverrunInv, TypeOK
        <3>. QED
            BY <1>c, <3>1, <3>2
    <2>. QED
        BY <1>a, <2>1, <2>2
<1> USE DEF TypeOK
<1>1. ASSUME NEW r \in Request, Begin(r) PROVE OverrunInv'
    <2> PICK email \in Email, right \in BOOLEAN :
            /\ pc' = [pc EXCEPT ![r] = IF Locked(email) THEN "refused" ELSE "compare"]
            /\ args' = [args EXCEPT ![r] = [email |-> email, right |-> right]]
        BY <1>1 DEF Begin, Goto
    <2>a. args'[r].email = email
        BY <1>t
    <2>0. /\ pc[r] = "idle" /\ attempts' = attempts
          /\ \A q \in Request \ {r} : pc'[q] = pc[q] /\ args'[q] = args[q]
        BY <1>1, <1>t DEF Begin, Goto
    <2>1. CASE Locked(email)
        <3>1. pc'[r] = "refused"
            BY <2>1, <1>t
        <3>. QED
            BY <1>b, <2>0, <3>1 DEF Open, Pending, InFlight, Awaits
    <2>2. CASE ~Locked(email)
        <3>1. pc'[r] = "compare"
            BY <2>2, <1>t
        <3>2. /\ Cardinality(Open) < MaxInFlight /\ IsFiniteSet(Open)
              /\ Cardinality(Open) \in Nat /\ r \notin Open
            BY <1>1, <2>0, FS_CardinalityType
               DEF Begin, Open, OverrunInv, OpenOK, InFlight, Awaits
        <3>3. Open' = Open \cup {r}
            BY <2>0, <3>1 DEF Open, InFlight, Awaits
        <3>4. Cardinality(Open') = Cardinality(Open) + 1 /\ IsFiniteSet(Open')
            BY <3>2, <3>3, FS_AddElement
        <3>5. OpenOK'
            BY <3>2, <3>4, GuardAssumption DEF OpenOK
        <3>6. ASSUME NEW e \in Email, e # email PROVE ReachOK(e)'
            <4>1. attempts'[e] = attempts[e] /\ Pending(e)' \subseteq Pending(e)
                BY <2>a, <2>0, <3>6 DEF Pending
            <4>. QED
                BY <4>1, ReachFrame DEF OverrunInv
        <3>7. ReachOK(email)'
            <4>1. attempts'[email] \in Nat /\ attempts'[email] < MaxAttempts
                BY <2>0, <2>2, <1>t, GuardAssumption DEF Locked
            <4>. QED
                BY <3>5, <4>1, PendingIsOpen, ReachFromBelow DEF OpenOK, ReachOK
        <3>. QED
            BY <1>a, <3>5, <3>6, <3>7
    <2>. QED
        BY <2>1, <2>2
<1>2. ASSUME NEW r \in Request, Compare(r) PROVE OverrunInv'
    BY <1>2, <1>b, <1>t DEF Compare, Goto, Open, Pending, InFlight, Awaits
<1>3. ASSUME NEW r \in Request, Increment(r) PROVE OverrunInv'
    <2> PICK email \in Email : email = args[r].email
        BY <1>t DEF Call
    <2>1. Open' \subseteq Open
        BY <1>3, <1>t DEF Increment, Goto, Open, InFlight, Awaits
    <2>2. OpenOK'
        BY <2>1, OpenFrame DEF OverrunInv
    <2>3. ASSUME NEW e \in Email, e # email PROVE ReachOK(e)'
        <3>1. attempts'[e] = attempts[e] /\ Pending(e)' \subseteq Pending(e)
            BY <1>3, <1>t, <2>3 DEF Increment, Goto, Pending, Call
        <3>. QED
            BY <3>1, ReachFrame DEF OverrunInv
    <2>4. ReachOK(email)'
        <3>1. email \in Email /\ attempts[email] \in Nat /\ attempts'[email] = attempts[email] + 1
            BY <1>3, <1>t DEF Increment
        <3>2. r \in Pending(email) /\ Pending(email)' = Pending(email) \ {r}
            BY <1>3, <1>t DEF Increment, Goto, Pending
        <3>3. IsFiniteSet(Pending(email))
            BY <3>1, PendingIsOpen, FS_Subset DEF OverrunInv, OpenOK
        <3>4. Cardinality(Pending(email)') = Cardinality(Pending(email)) - 1
            BY <3>2, <3>3, FS_RemoveElement
        <3>5. Cardinality(Pending(email)) \in Nat
            BY <3>3, FS_CardinalityType
        <3>. QED
            BY <3>1, <3>4, <3>5, GuardAssumption DEF OverrunInv, ReachOK
    <2>. QED
        BY <1>a, <2>2, <2>3, <2>4
<1>4. ASSUME NEW r \in Request, Expire(r) PROVE OverrunInv'
    BY <1>4, <1>b, <1>t DEF Expire, Goto, Open, Pending, InFlight, Awaits
<1>5. ASSUME NEW r \in Request, Clear(r) PROVE OverrunInv'
    BY <1>5, <1>c, <1>t DEF Clear, Goto, Open, Pending, InFlight, Awaits, Call
<1>6. ASSUME NEW r \in Request, Abort(r) PROVE OverrunInv'
    BY <1>6, <1>b, <1>t DEF Abort, Goto, Open, Pending, InFlight, Awaits
<1>7. CASE Tick
    BY <1>7, <1>c, <1>t DEF Tick, Open, Pending, InFlight
<1>8. CASE UNCHANGED vars
    BY <1>8, <1>b DEF vars, Open, Pending, InFlight
<1>. QED
    BY <1>1, <1>2, <1>3, <1>4, <1>5, <1>6, <1>7, <1>8 DEF Next, Continue

-----------------------------------------------------------------------------
\* TypeOK, for every threshold and window.
THEOREM GuardTypeCorrect == Spec => []TypeOK
<1>. QED
    BY InitTypeOK, StepTypeOK, PTL DEF Spec

\* CounterExpires (incrementAttempts): no interleaving of failures, successes and
\* expiries loses the window of a counter, only a cut between INCR and EXPIRE.
THEOREM CountersExpire == Spec => []CounterExpires
<1>1. Init => CounterExpires
    BY DEF Init, CounterExpires
<1>. QED
    BY <1>1, GuardTypeCorrect, StepCounterExpires, PTL DEF Spec

\* OverrunIsBounded (LoginUseCase): with n requests open at once the counter stays
\* below the threshold plus n.
THEOREM GuardOverrun == Spec => []OverrunIsBounded
<1>1. OverrunInv => OverrunIsBounded
    <2> SUFFICES ASSUME OverrunInv, NEW e \in Email
                 PROVE  attempts[e] < MaxAttempts + MaxInFlight
        BY DEF OverrunIsBounded
    <2>1. Cardinality(Pending(e)) \in Nat
        BY PendingIsOpen, FS_Subset, FS_CardinalityType DEF OverrunInv, OpenOK
    <2>. QED
        BY <2>1, GuardAssumption DEF OverrunInv, ReachOK, TypeOK
<1>. QED
    BY <1>1, InitOverrunInv, StepOverrunInv, PTL DEF Spec
=============================================================================
