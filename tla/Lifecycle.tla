----------------------------- MODULE Lifecycle -----------------------------
(***************************************************************************)
(* main.ts: start-up, the connections the server holds open, shutdown on a *)
(* signal and the end of the process.                                       *)
(*                                                                         *)
(* server.close(callback) stops accepting, closes idle connections and runs *)
(* the callback when the last connection is gone.  Every signal calls it    *)
(* again, so one shutdown may have several callbacks, each of which destroys *)
(* the data source and quits Redis.  A connection goes with its client, also *)
(* before the answer: close waits for connections, not for handlers.        *)
(***************************************************************************)
EXTENDS Integers, FiniteSets

CONSTANTS
    Client,         \* whoever may have a request open
    MaxConnections, \* bound: connections open at once
    MaxSignals,     \* bound: signals to one process
    MaxStarts,      \* bound: how often the container starts the process
    ProcessFaults   \* TRUE: start-up and shutdown may fail, the process may crash

ASSUMPTION LifecycleAssumption ==
    /\ MaxConnections \in Nat
    /\ MaxSignals \in Nat
    /\ MaxStarts \in Nat
    /\ ProcessFaults \in BOOLEAN

VARIABLES
    phase,    \* where main is
    db,       \* AppDataSource
    redis,    \* the Redis client
    busy,     \* who waits for an answer, each on a connection of its own
    idle,     \* the number of connections kept alive without a request
    closers,  \* the callback of each signal
    ended,    \* how the process ended, "not" before it did
    starts    \* how often one was started

lifecycleVars == <<phase, db, redis, busy, idle, closers, ended, starts>>

Signals == 1 .. MaxSignals

Serving == phase \in {"listening", "closing"}

Closing == {n \in Signals : closers[n] # "none"}

LifecycleInit ==
    /\ phase = "down"
    /\ db = "closed"
    /\ redis = "closed"
    /\ busy = {}
    /\ idle = 0
    /\ closers = [n \in Signals |-> "none"]
    /\ ended = "not"
    /\ starts = 0

\* process.exit and whatever else ends a process.
Exit(how) ==
    /\ phase' = "down"
    /\ db' = "closed"
    /\ redis' = "closed"
    /\ busy' = {}
    /\ idle' = 0
    /\ closers' = [n \in Signals |-> "none"]
    /\ ended' = how
    /\ UNCHANGED starts

-----------------------------------------------------------------------------
(* Start-up. *)

\* restart: unless-stopped.
Start ==
    /\ phase = "down"
    /\ starts < MaxStarts
    /\ phase' = "connecting"
    /\ ended' = "not"
    /\ starts' = starts + 1
    /\ UNCHANGED <<db, redis, busy, idle, closers>>

ConnectDatabase ==
    /\ phase = "connecting"
    /\ phase' = "bootstrapping"
    /\ db' = "open"
    /\ UNCHANGED <<redis, busy, idle, closers, ended, starts>>

\* bootstrap connects to Redis and wires the rest.
Bootstrap ==
    /\ phase = "bootstrapping"
    /\ phase' = "creatingApp"
    /\ redis' = "open"
    /\ UNCHANGED <<db, busy, idle, closers, ended, starts>>

\* createApp, listen and the handlers of signals; from here on routes are served.
Listen ==
    /\ phase = "creatingApp"
    /\ phase' = "listening"
    /\ UNCHANGED <<db, redis, busy, idle, closers, ended, starts>>

-----------------------------------------------------------------------------
(* Connections. *)

\* Mutant: listens before bootstrap has connected to Redis.
AcceptEarly(c) ==
    /\ c \notin busy
    /\ busy' = busy \cup {c}
    /\ phase \in {"bootstrapping", "creatingApp", "listening"}
    /\ Cardinality(busy) + idle < MaxConnections
    /\ UNCHANGED <<phase, db, redis, idle, closers, ended, starts>>

\* A request on a new connection, or on one that was kept alive.
Accept(c) ==
    /\ c \notin busy
    /\ busy' = busy \cup {c}
    /\ \/ /\ phase = "listening"
          /\ Cardinality(busy) + idle < MaxConnections
          /\ UNCHANGED idle
       \/ /\ idle > 0
          /\ idle' = idle - 1
    /\ UNCHANGED <<phase, db, redis, closers, ended, starts>>

\* The answer is out; the connection is kept alive or not.
Respond(c) ==
    /\ c \in busy
    /\ busy' = busy \ {c}
    /\ idle' \in {idle, idle + 1}
    /\ UNCHANGED <<phase, db, redis, closers, ended, starts>>

\* A client leaves before its answer.  Nothing tells its handler, which goes on.
HangUp(c) ==
    /\ c \in busy
    /\ busy' = busy \ {c}
    /\ UNCHANGED <<phase, db, redis, idle, closers, ended, starts>>

\* keepAliveTimeout, or the client leaves.
DropIdle ==
    /\ idle > 0
    /\ idle' = idle - 1
    /\ UNCHANGED <<phase, db, redis, busy, closers, ended, starts>>

-----------------------------------------------------------------------------
(* Shutdown. *)

\* Mutant: listens no more but leaves the callback out.
SignalWithoutCallback(n) ==
    /\ Serving
    /\ closers[n] = "none"
    /\ phase' = "closing"
    /\ idle' = 0
    /\ UNCHANGED <<db, redis, busy, closers, ended, starts>>

\* gracefulShutdown.
Signal(n) ==
    /\ Serving
    /\ closers[n] = "none"
    /\ closers' = [closers EXCEPT ![n] = "waiting"]
    /\ phase' = "closing"
    /\ idle' = 0
    /\ UNCHANGED <<db, redis, busy, ended, starts>>

\* Mutant: does not wait for the server.
ServerClosedAtOnce ==
    /\ phase = "closing"
    /\ \E n \in Signals : closers[n] = "waiting"
    /\ closers' = [n \in Signals |-> IF closers[n] = "waiting" THEN "closed" ELSE closers[n]]
    /\ UNCHANGED <<phase, db, redis, busy, idle, ended, starts>>

\* The event 'close', once every connection is gone, and again for a callback that
\* came after it.
ServerClosed ==
    /\ phase = "closing"
    /\ busy = {}
    /\ idle = 0
    /\ \E n \in Signals : closers[n] = "waiting"
    /\ closers' = [n \in Signals |-> IF closers[n] = "waiting" THEN "closed" ELSE closers[n]]
    /\ UNCHANGED <<phase, db, redis, busy, idle, ended, starts>>

\* AppDataSource.destroy, which rejects if another callback was first.
DestroyDatabase(n) ==
    /\ closers[n] = "closed"
    /\ IF db = "open"
          THEN /\ db' = "ending"
               /\ closers' = [closers EXCEPT ![n] = "destroying"]
               /\ UNCHANGED <<phase, redis, busy, idle, ended, starts>>
          ELSE Exit("error")

DatabaseDestroyed(n) ==
    /\ closers[n] = "destroying"
    /\ db' = "closed"
    /\ closers' = [closers EXCEPT ![n] = "quitting"]
    /\ UNCHANGED <<phase, redis, busy, idle, ended, starts>>

QuitRedis(n) ==
    /\ closers[n] = "quitting"
    /\ Exit("clean")

\* A call of a callback rejects.
ShutdownFails(n) ==
    /\ ProcessFaults
    /\ closers[n] \in {"destroying", "quitting"}
    /\ Exit("error")

\* main().catch, unhandledRejection (the blacklist look-up of the middleware),
\* uncaughtException (an error event of a download's stream), SIGKILL; or a signal
\* before its handler is installed.
Crash ==
    /\ ProcessFaults
    /\ phase # "down"
    /\ Exit("crash")

Shutdown(n) == DestroyDatabase(n) \/ DatabaseDestroyed(n) \/ QuitRedis(n)
=============================================================================
