--------------------------- MODULE LifecycleProofs ---------------------------
(***************************************************************************)
(* Proofs about the life of the process, for any requests and any number   *)
(* of attempts to connect: its type invariant, that a running request      *)
(* finds the pool open, and that no request is cut off.                    *)
(***************************************************************************)
EXTENDS Lifecycle, TLAPS

Starting == main \in {"postgres", "redis", "wiring"}

\* Before the goroutines exist nothing is served.
NothingServedBefore == Starting => grpc = "new" /\ serve = "none" /\ stop = "none"

\* The goroutine of GracefulStop is the only one that stops the server.
StopOwnsTheServer ==
  /\ stop \in {"none", "waiting"} => grpc \in {"new", "serving"}
  /\ stop = "draining" => grpc = "stopping"
  /\ stop = "returned" => grpc = "stopped"
  /\ stop = "none" => grpc = "new" /\ serve = "none"

\* A request runs on a server that has been started and not been stopped.
RequestsRunOnTheServer ==
  (\E r \in Requests : Running(r)) => grpc \in {"serving", "stopping"}

\* The pool is open from its connection to the end of Run, which comes after
\* the stop; a fatal end comes before the goroutines or after the stop.
PoolWhileNeeded ==
  /\ main \in {"redis", "wiring", "waiting", "closing"} => pool = "open"
  /\ main \in {"closing", "exited"} => grpc = "stopped"
  /\ main = "fatal" => grpc \in {"new", "stopped"}

IInv ==
  /\ TypeOK
  /\ NothingServedBefore
  /\ StopOwnsTheServer
  /\ RequestsRunOnTheServer
  /\ PoolWhileNeeded

USE DEF NothingServedBefore, StopOwnsTheServer, RequestsRunOnTheServer,
        PoolWhileNeeded, Starting, Running, Ended

LEMMA InitInv == Init => IInv
  <1> SUFFICES ASSUME Init PROVE IInv
    OBVIOUS
  <1>1. ConnAttempts \in 0 .. ConnAttempts
    BY ConnAttemptsAssumption
  <1>2. TypeOK
    BY <1>1 DEF Init, TypeOK
  <1>3. \A r \in Requests : ~Running(r)
    BY DEF Init
  <1> QED
    BY <1>2, <1>3 DEF Init, IInv

LEMMA StartInv ==
  ASSUME IInv,
         \/ ConnectPostgres \/ ConnectFails \/ NoAttemptsLeft
         \/ ConnectRedis \/ StartFails \/ StartGoroutines
  PROVE  IInv'
  <1>1. CASE ConnectPostgres
    BY <1>1 DEF IInv, TypeOK, ConnectPostgres
  <1>2. CASE ConnectFails
    BY <1>2, ConnAttemptsAssumption DEF IInv, TypeOK, ConnectFails
  <1>3. CASE NoAttemptsLeft
    BY <1>3 DEF IInv, TypeOK, NoAttemptsLeft
  <1>4. CASE ConnectRedis
    BY <1>4 DEF IInv, TypeOK, ConnectRedis
  <1>5. CASE StartFails
    BY <1>5 DEF IInv, TypeOK, StartFails
  <1>6. CASE StartGoroutines
    BY <1>6 DEF IInv, TypeOK, StartGoroutines
  <1> QED
    BY <1>1, <1>2, <1>3, <1>4, <1>5, <1>6

LEMMA GoroutinesInv ==
  ASSUME IInv, ServeGoroutine \/ ServeFails \/ StopGoroutine
  PROVE  IInv'
  <1>1. CASE Serve
    BY <1>1 DEF IInv, TypeOK, Serve
  <1>2. CASE ServeTooLate
    BY <1>2 DEF IInv, TypeOK, ServeTooLate
  <1>3. CASE ServeReturns
    BY <1>3 DEF IInv, TypeOK, ServeReturns
  <1>4. CASE ServeFails
    BY <1>4 DEF IInv, TypeOK, ServeFails
  <1>5. CASE GracefulStop
    BY <1>5 DEF IInv, TypeOK, GracefulStop
  <1>6. CASE GracefulStopReturns
    BY <1>6 DEF IInv, TypeOK, GracefulStopReturns
  <1> QED
    BY <1>1, <1>2, <1>3, <1>4, <1>5, <1>6 DEF ServeGoroutine, StopGoroutine

LEMMA EndInv ==
  ASSUME IInv, WaitReturns \/ WaitFails \/ CloseRedis \/ ClosePostgres
  PROVE  IInv'
  <1>1. CASE WaitReturns
    BY <1>1 DEF IInv, TypeOK, WaitReturns
  <1>2. CASE WaitFails
    BY <1>2 DEF IInv, TypeOK, WaitFails
  <1>3. CASE CloseRedis
    BY <1>3 DEF IInv, TypeOK, CloseRedis
  <1>4. CASE ClosePostgres
    BY <1>4 DEF IInv, TypeOK, ClosePostgres
  <1> QED
    BY <1>1, <1>2, <1>3, <1>4

LEMMA EnvironmentInv ==
  ASSUME IInv, Signal \/ \E r \in Requests : Request(r) \/ Answer(r)
  PROVE  IInv'
  <1>1. CASE Signal
    BY <1>1 DEF IInv, TypeOK, Signal
  <1>2. ASSUME NEW r \in Requests, Request(r) PROVE IInv'
    BY <1>2 DEF IInv, TypeOK, Request
  <1>3. ASSUME NEW r \in Requests, Answer(r) PROVE IInv'
    <2>1. \A q \in Requests : request'[q] = "running" => Running(q)
      BY <1>3 DEF IInv, TypeOK, Answer
    <2> QED
      BY <1>3, <2>1 DEF IInv, TypeOK, Answer
  <1> QED
    BY <1>1, <1>2, <1>3

LEMMA NextInv == IInv /\ [Next]_vars => IInv'
  <1> SUFFICES ASSUME IInv, [Next]_vars PROVE IInv'
    OBVIOUS
  <1>1. CASE UNCHANGED vars
    BY <1>1 DEF vars, IInv, TypeOK
  <1>2. CASE Next
    BY <1>2, StartInv, GoroutinesInv, EndInv, EnvironmentInv DEF Next, Main
  <1> QED
    BY <1>1, <1>2

THEOREM InvariantHolds == Spec => []IInv
  <1> QED
    BY InitInv, NextInv, PTL DEF Spec

(* The type invariant of the process (app.go).                             *)
THEOREM LifecycleTypeCorrect == Spec => []TypeOK
  <1>1. IInv => TypeOK
    BY DEF IInv
  <1> QED
    BY <1>1, InvariantHolds, PTL

(* A running request finds the pool open (app.go, defer pg.Close).         *)
THEOREM LifecyclePoolOutlivesRequests == Spec => []PoolOutlivesRequests
  <1>1. IInv => PoolOutlivesRequests
    BY DEF IInv, TypeOK, PoolOutlivesRequests
  <1> QED
    BY <1>1, InvariantHolds, PTL

(* The process does not end under a request (app.go, Run).                 *)
THEOREM LifecycleNoRequestIsCutOff == Spec => []NoRequestIsCutOff
  <1>1. IInv => NoRequestIsCutOff
    BY DEF IInv, NoRequestIsCutOff
  <1> QED
    BY <1>1, InvariantHolds, PTL
=============================================================================
