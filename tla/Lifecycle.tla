------------------------------ MODULE Lifecycle ------------------------------
(***************************************************************************)
(* The life of the process (app.go): the start, the two goroutines of the  *)
(* wait group, the requests of the gRPC server, a signal or the failure of *)
(* the listener at any moment, the graceful stop and the deferred closes.  *)
(*                                                                         *)
(* log.Fatal ends the process at once, without the deferred calls.  The    *)
(* goroutines of the FX sources are in no wait group and use neither pool  *)
(* nor cache: they are left to RubSource and KztSource.                    *)
(***************************************************************************)
EXTENDS Integers

CONSTANTS
  Calls,          \* unary requests: every handler has a deadline
  Streams,        \* streaming ones (health Watch, reflection): a client
                  \* keeps them open as long as it likes
  ConnAttempts    \* how often the start tries to connect to PostgreSQL

ASSUME ConnAttemptsAssumption == ConnAttempts \in Nat
ASSUME DisjointAssumption == Calls \cap Streams = {}

Requests == Calls \cup Streams

VARIABLES
  main,           \* where Run is
  attemptsLeft,   \* of postgres.New
  pool, redis,    \* "none", "open" or "closed"
  ctxDone,        \* the context of the wait group is cancelled
  grpc,           \* the gRPC server: "new", "serving", "stopping", "stopped"
  serve, stop,    \* the two goroutines of the wait group
  request         \* per request: "new", "running" or "ended"

vars == <<main, attemptsLeft, pool, redis, ctxDone, grpc, serve, stop, request>>

Ended == main \in {"exited", "fatal"}

TypeOK ==
  /\ main \in {"postgres", "redis", "wiring", "waiting", "closing", "exited",
               "fatal"}
  /\ attemptsLeft \in 0 .. ConnAttempts
  /\ pool \in {"none", "open", "closed"}
  /\ redis \in {"none", "open", "closed"}
  /\ ctxDone \in BOOLEAN
  /\ grpc \in {"new", "serving", "stopping", "stopped"}
  /\ serve \in {"none", "starting", "serving", "returned", "failed"}
  /\ stop \in {"none", "waiting", "draining", "returned"}
  /\ request \in [Requests -> {"new", "running", "ended"}]

Running(r) == request[r] = "running"

ServeReturned == serve \in {"returned", "failed"}

-----------------------------------------------------------------------------
(* Bugs of the kind the checks must notice. *)

\* The attempts are counted below zero.
WrongConnectFails ==
  /\ main = "postgres"
  /\ attemptsLeft' = attemptsLeft - 1
  /\ UNCHANGED <<main, pool, redis, ctxDone, grpc, serve, stop, request>>

\* Run waits for the signal and not for its goroutines.
WrongWaitReturns ==
  /\ main = "waiting"
  /\ ctxDone
  /\ main' = "closing"
  /\ UNCHANGED <<attemptsLeft, pool, redis, ctxDone, grpc, serve, stop, request>>

\* Run waits for the first of its goroutines only.
WrongWaitFails ==
  /\ main = "waiting"
  /\ serve = "failed"
  /\ main' = "fatal"
  /\ UNCHANGED <<attemptsLeft, pool, redis, ctxDone, grpc, serve, stop, request>>

\* The failure is logged, but does not cancel the context.
WrongServeFails ==
  /\ serve = "serving"
  /\ grpc = "serving"
  /\ serve' = "failed"
  /\ UNCHANGED <<main, attemptsLeft, pool, redis, ctxDone, grpc, stop, request>>

-----------------------------------------------------------------------------
Init ==
  /\ main = "postgres"
  /\ attemptsLeft = ConnAttempts
  /\ pool = "none" /\ redis = "none"
  /\ ctxDone = FALSE
  /\ grpc = "new"
  /\ serve = "none" /\ stop = "none"
  /\ request = [r \in Requests |-> "new"]

(* The start. *)

ConnectPostgres ==
  /\ main = "postgres"
  /\ attemptsLeft > 0
  /\ pool' = "open"
  /\ main' = "redis"
  /\ UNCHANGED <<attemptsLeft, redis, ctxDone, grpc, serve, stop, request>>

\* A failed attempt sleeps, whether the context is cancelled or not.
ConnectFails ==
  /\ main = "postgres"
  /\ attemptsLeft > 0
  /\ attemptsLeft' = attemptsLeft - 1
  /\ UNCHANGED <<main, pool, redis, ctxDone, grpc, serve, stop, request>>

NoAttemptsLeft ==
  /\ main = "postgres"
  /\ attemptsLeft = 0
  /\ main' = "fatal"
  /\ UNCHANGED <<attemptsLeft, pool, redis, ctxDone, grpc, serve, stop, request>>

\* The ping fails when the context is cancelled.
ConnectRedis ==
  /\ main = "redis"
  /\ ~ctxDone
  /\ redis' = "open"
  /\ main' = "wiring"
  /\ UNCHANGED <<attemptsLeft, pool, ctxDone, grpc, serve, stop, request>>

\* The URL of PostgreSQL cannot be parsed, or Redis, the provider's client,
\* the coin id file or the address fails.
StartFails ==
  /\ \/ main = "postgres" /\ attemptsLeft = ConnAttempts
     \/ main \in {"redis", "wiring"}
  /\ main' = "fatal"
  /\ UNCHANGED <<attemptsLeft, pool, redis, ctxDone, grpc, serve, stop, request>>

\* runGrpcServer: the listener is open and both goroutines are started.
StartGoroutines ==
  /\ main = "wiring"
  /\ main' = "waiting"
  /\ serve' = "starting"
  /\ stop' = "waiting"
  /\ UNCHANGED <<attemptsLeft, pool, redis, ctxDone, grpc, request>>

(* The goroutine of Serve. *)

Serve ==
  /\ ~Ended
  /\ serve = "starting"
  /\ grpc = "new"
  /\ grpc' = "serving"
  /\ serve' = "serving"
  /\ UNCHANGED <<main, attemptsLeft, pool, redis, ctxDone, stop, request>>

\* The server was stopped before it was started: ErrServerStopped is no error.
ServeTooLate ==
  /\ ~Ended
  /\ serve = "starting"
  /\ grpc # "new"
  /\ serve' = "returned"
  /\ UNCHANGED <<main, attemptsLeft, pool, redis, ctxDone, grpc, stop, request>>

\* Serve returns once the stop it was interrupted by is complete.
ServeReturns ==
  /\ ~Ended
  /\ serve = "serving"
  /\ grpc = "stopped"
  /\ serve' = "returned"
  /\ UNCHANGED <<main, attemptsLeft, pool, redis, ctxDone, grpc, stop, request>>

\* The listener fails: the error cancels the context of the group.  The
\* requests on connections accepted before go on.
ServeFails ==
  /\ ~Ended
  /\ serve = "serving"
  /\ grpc = "serving"
  /\ serve' = "failed"
  /\ ctxDone' = TRUE
  /\ UNCHANGED <<main, attemptsLeft, pool, redis, grpc, stop, request>>

(* The goroutine of GracefulStop. *)

GracefulStop ==
  /\ ~Ended
  /\ stop = "waiting"
  /\ ctxDone
  /\ grpc' = "stopping"
  /\ stop' = "draining"
  /\ UNCHANGED <<main, attemptsLeft, pool, redis, ctxDone, serve, request>>

GracefulStopReturns ==
  /\ ~Ended
  /\ stop = "draining"
  /\ \A r \in Requests : ~Running(r)
  /\ grpc' = "stopped"
  /\ stop' = "returned"
  /\ UNCHANGED <<main, attemptsLeft, pool, redis, ctxDone, serve, request>>

(* The end of Run. *)

WaitReturns ==
  /\ main = "waiting"
  /\ stop = "returned" /\ serve = "returned"
  /\ main' = "closing"
  /\ UNCHANGED <<attemptsLeft, pool, redis, ctxDone, grpc, serve, stop, request>>

WaitFails ==
  /\ main = "waiting"
  /\ stop = "returned" /\ serve = "failed"
  /\ main' = "fatal"
  /\ UNCHANGED <<attemptsLeft, pool, redis, ctxDone, grpc, serve, stop, request>>

\* The deferred calls, the last one first.
CloseRedis ==
  /\ main = "closing"
  /\ redis = "open"
  /\ redis' = "closed"
  /\ UNCHANGED <<main, attemptsLeft, pool, ctxDone, grpc, serve, stop, request>>

ClosePostgres ==
  /\ main = "closing"
  /\ redis = "closed"
  /\ pool' = "closed"
  /\ main' = "exited"
  /\ UNCHANGED <<attemptsLeft, redis, ctxDone, grpc, serve, stop, request>>

(* The environment. *)

Signal ==
  /\ ~Ended
  /\ ~ctxDone
  /\ ctxDone' = TRUE
  /\ UNCHANGED <<main, attemptsLeft, pool, redis, grpc, serve, stop, request>>

Request(r) ==
  /\ ~Ended
  /\ grpc = "serving"
  /\ request[r] = "new"
  /\ request' = [request EXCEPT ![r] = "running"]
  /\ UNCHANGED <<main, attemptsLeft, pool, redis, ctxDone, grpc, serve, stop>>

Answer(r) ==
  /\ ~Ended
  /\ Running(r)
  /\ request' = [request EXCEPT ![r] = "ended"]
  /\ UNCHANGED <<main, attemptsLeft, pool, redis, ctxDone, grpc, serve, stop>>

Main ==
  \/ ConnectPostgres \/ ConnectFails \/ NoAttemptsLeft
  \/ ConnectRedis \/ StartFails \/ StartGoroutines
  \/ WaitReturns \/ WaitFails
  \/ CloseRedis \/ ClosePostgres

ServeGoroutine == Serve \/ ServeTooLate \/ ServeReturns

StopGoroutine == GracefulStop \/ GracefulStopReturns

Next ==
  \/ Main
  \/ ServeGoroutine \/ ServeFails
  \/ StopGoroutine
  \/ Signal
  \/ \E r \in Requests : Request(r) \/ Answer(r)

Spec == Init /\ [][Next]_vars

(* The goroutines are scheduled and a handler ends by its deadline.        *)
(* Nothing is assumed of signals, clients, failures and streams.           *)
FairSpec ==
  /\ Spec
  /\ WF_vars(Main)
  /\ WF_vars(ServeGoroutine)
  /\ WF_vars(StopGoroutine)
  /\ \A r \in Calls : WF_vars(Answer(r))

-----------------------------------------------------------------------------
(* A running request finds the pool open: the deferred Close comes after   *)
(* the last handler has returned, on every way out of Wait (app.go, defer  *)
(* pg.Close and GracefulStop).                                             *)
PoolOutlivesRequests ==
  (\E r \in Requests : Running(r)) => pool = "open"

(* A process that was serving does not end under a request, neither by     *)
(* returning from Run nor by the log.Fatal after Wait, which skips the     *)
(* deferred calls (app.go, Run).                                           *)
NoRequestIsCutOff ==
  Ended => \A r \in Requests : ~Running(r)

(* Asked to stop, at any moment of its start or later, or left without its *)
(* listener, the process ends, if every stream is ended by its client:     *)
(* GracefulStop waits for them without a limit (app.go, runGrpcServer).    *)
StopsWhenAsked ==
  (\A s \in Streams : []<>~Running(s))
    => (ctxDone \/ serve = "failed" ~> Ended)
=============================================================================
