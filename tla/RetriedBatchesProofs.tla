------------------------ MODULE RetriedBatchesProofs ------------------------
(***************************************************************************)
(* Theorems about the rate limiter and the calls that share it, for any    *)
(* callers, batches, limit and deadline.                                   *)
(***************************************************************************)
EXTENDS RetriedBatches, FiniteSetTheorems, TLAPS

------------------------------------------------------------------------------
(* The inductive invariant.                                                *)

\* Reserved tokens belong to different intervals, among those the limiter has
\* given away.
Reservations ==
  /\ \A c \in Callers : IF pc[c] = "waiting" THEN 0 < wait[c] /\ wait[c] <= -tokens
                                             ELSE wait[c] = 0
  /\ \A c, e \in Callers : pc[c] = "waiting" /\ wait[e] = wait[c] => e = c

\* What is in the bucket of the minute that is watched has not been sent.
Budget ==
  /\ sent <= RateLimitPerMin + since
  /\ sent + tokens <= RateLimitPerMin + since

Inv == TypeOK /\ Reservations /\ Budget

LEMMA InvInit == Init => Inv
<1> SUFFICES ASSUME Init PROVE Inv
  OBVIOUS
<1>1. TypeOK
  BY LimiterAssumption DEF Init, TypeOK
<1>2. Reservations /\ Budget
  BY LimiterAssumption DEF Init, Reservations, Budget
<1> QED
  BY <1>1, <1>2 DEF Inv

------------------------------------------------------------------------------
(* The invariant holds at every step.                                      *)

LEMMA Numbers ==
  ASSUME Inv
  PROVE  /\ tokens \in Int /\ RateLimitPerMin \in Nat /\ RateLimitPerMin > 0
         /\ Deadline \in Nat /\ MaxHangUps \in Nat
         /\ since \in Nat /\ sent \in Nat /\ hangUps \in Nat
         /\ \A c \in Callers : left[c] \in Nat /\ wait[c] \in Nat
BY LimiterAssumption DEF Inv, TypeOK

\* A step of one call that ends it with an error and leaves the limiter alone.
LEMMA FailsKeepsInv ==
  ASSUME Inv, NEW c \in Callers, Fails(c), pc[c] # "waiting",
         stored' \subseteq AllFetches, UNCHANGED <<tokens, hangUps, watch>>
  PROVE  Inv'
<1>1. TypeOK'
  BY LimiterAssumption DEF Inv, TypeOK, Fails, watch
<1>2. Reservations'
  BY DEF Inv, TypeOK, Reservations, Fails
<1>3. Budget'
  BY DEF Inv, Budget, watch
<1> QED
  BY <1>1, <1>2, <1>3 DEF Inv

\* At most one caller waits for the token of the next interval, and one only if
\* that token is reserved.
LEMMA DueIsOne ==
  ASSUME Inv
  PROVE  /\ Cardinality(Due) \in {0, 1}
         /\ Cardinality(Due) = 1 => tokens < 0
<1>1. CASE Due = {}
  BY <1>1, FS_EmptySet
<1>2. CASE Due # {}
  <2>1. PICK c \in Callers : pc[c] = "waiting" /\ wait[c] = 1
    BY <1>2 DEF Due
  <2>2. Due = {c}
    BY <2>1 DEF Due, Inv, Reservations
  <2>3. Cardinality(Due) = 1
    BY <2>2, FS_Singleton
  <2>4. tokens < 0
    BY <2>1, Numbers DEF Inv, Reservations
  <2> QED
    BY <2>3, <2>4
<1> QED
  BY <1>1, <1>2

LEMMA TickKeepsInv ==
  ASSUME Inv, Tick
  PROVE  Inv'
<1>1. /\ tokens' = IF tokens < RateLimitPerMin THEN tokens + 1 ELSE tokens
      /\ UNCHANGED <<stored, hangUps, todo>>
  BY DEF Tick, table
<1>2. ASSUME NEW c \in Callers
      PROVE  /\ pc'[c] = IF c \in Due THEN "fetch" ELSE pc[c]
             /\ left'[c] = IF Running(c) THEN left[c] - 1 ELSE left[c]
             /\ wait'[c] = IF pc[c] = "waiting" THEN wait[c] - 1 ELSE wait[c]
             /\ pc[c] # "loop" /\ (pc[c] = "fetch" => left[c] > 0)
  BY DEF Tick
<1>3. ASSUME NEW c \in Callers
      PROVE  /\ pc'[c] \in {"idle", "loop", "waiting", "fetch", "answered"}
             /\ left'[c] \in 0 .. Deadline /\ wait'[c] \in 0 .. Deadline
             /\ wait'[c] <= left'[c]
  <2>1. /\ pc[c] \in {"idle", "loop", "waiting", "fetch", "answered"}
        /\ left[c] \in 0 .. Deadline /\ wait[c] \in 0 .. Deadline /\ wait[c] <= left[c]
        /\ IF pc[c] = "waiting" THEN 0 < wait[c] ELSE wait[c] = 0
    BY DEF Inv, TypeOK, Reservations
  <2> QED
    BY <1>2, <2>1, Numbers DEF Running
<1>4. since' \in 0 .. RateLimitPerMin /\ sent' \in Nat
  BY DueIsOne, Numbers DEF Tick, Inv, TypeOK
<1>5. TypeOK'
  <2>1. tokens' \in -Deadline .. RateLimitPerMin
    BY <1>1, Numbers DEF Inv, TypeOK
  <2>2. /\ pc' \in [Callers -> {"idle", "loop", "waiting", "fetch", "answered"}]
        /\ left' \in [Callers -> 0 .. Deadline] /\ wait' \in [Callers -> 0 .. Deadline]
    BY <1>3 DEF Tick
  <2> QED
    BY <1>1, <1>3, <1>4, <2>1, <2>2 DEF Inv, TypeOK
<1>6. Reservations'
  <2>1. ASSUME NEW c \in Callers, pc'[c] = "waiting"
        PROVE  pc[c] = "waiting" /\ 1 < wait[c] /\ wait[c] <= -tokens /\ tokens' = tokens + 1
    <3>1. pc[c] = "waiting" /\ c \notin Due
      BY <1>2, <2>1
    <3> QED
      BY <1>1, <3>1, Numbers DEF Due, Inv, Reservations
  <2>2. ASSUME NEW c \in Callers, pc'[c] # "waiting" PROVE wait'[c] = 0
    <3>1. CASE pc[c] = "waiting"
      <4>1. c \in Due
        BY <1>2, <2>2, <3>1
      <4> QED
        BY <1>2, <4>1 DEF Due
    <3>2. CASE pc[c] # "waiting"
      BY <1>2, <3>2 DEF Inv, Reservations
    <3> QED
      BY <3>1, <3>2
  <2>3. ASSUME NEW c \in Callers, pc'[c] = "waiting" PROVE 0 < wait'[c] /\ wait'[c] <= -tokens'
    BY <1>2, <2>1, <2>3, Numbers
  <2>4. ASSUME NEW c \in Callers, NEW e \in Callers, pc'[c] = "waiting", wait'[e] = wait'[c]
        PROVE  e = c
    <3>1. pc'[e] = "waiting"
      BY <2>2, <2>3, <2>4, Numbers
    <3>2. wait[e] = wait[c]
      BY <1>2, <2>1, <2>4, <3>1, Numbers
    <3> QED
      BY <2>1, <2>4, <3>2 DEF Inv, Reservations
  <2> QED
    BY <2>2, <2>3, <2>4 DEF Reservations
<1>7. Budget'
  <2> DEFINE n == Cardinality(Due)
  <2>1. n \in {0, 1} /\ (n = 1 => tokens < 0)
    BY DueIsOne
  <2>2. \/ since' = since + 1 /\ sent' = sent + n
        \/ since' = 0 /\ sent' = n
    BY DEF Tick
  <2>3. tokens <= RateLimitPerMin
    BY Numbers DEF Inv, TypeOK
  <2> HIDE DEF n
  <2> QED
    BY <1>1, <2>1, <2>2, <2>3, Numbers DEF Inv, Budget
<1> QED
  BY <1>5, <1>6, <1>7 DEF Inv

LEMMA HangUpKeepsInv ==
  ASSUME Inv, NEW c \in Callers, HangUp(c)
  PROVE  Inv'
<1>1. /\ hangUps < MaxHangUps /\ hangUps' = hangUps + 1
      /\ tokens' = IF pc[c] = "waiting" /\ wait[c] = -tokens THEN tokens + 1 ELSE tokens
      /\ UNCHANGED <<stored, since, sent>>
      /\ pc' = [pc EXCEPT ![c] = "idle"] /\ todo' = [todo EXCEPT ![c] = {}]
      /\ left' = [left EXCEPT ![c] = 0] /\ wait' = [wait EXCEPT ![c] = 0]
  BY DEF HangUp, Fails, watch
<1>2. tokens' = tokens + 1 => tokens < 0
  BY <1>1, Numbers DEF Inv, Reservations
<1>3. TypeOK'
  <2>1. tokens' \in -Deadline .. RateLimitPerMin /\ hangUps' \in 0 .. MaxHangUps
    BY <1>1, <1>2, Numbers DEF Inv, TypeOK
  <2> QED
    BY <1>1, <2>1, Numbers DEF Inv, TypeOK
<1>4. Reservations'
  <2>1. ASSUME NEW e \in Callers, e # c
        PROVE  /\ pc'[e] = pc[e] /\ wait'[e] = wait[e]
               /\ pc[e] = "waiting" => wait[e] <= -tokens'
    <3>1. pc'[e] = pc[e] /\ wait'[e] = wait[e]
      BY <1>1, <2>1 DEF Inv, TypeOK
    <3>2. ASSUME pc[e] = "waiting" PROVE wait[e] <= -tokens'
      <4>1. wait[e] <= -tokens
        BY <3>2 DEF Inv, Reservations
      <4>2. pc[c] = "waiting" => wait[c] # wait[e]
        BY <2>1, <3>2 DEF Inv, Reservations
      <4> QED
        BY <1>1, <4>1, <4>2, Numbers
    <3> QED
      BY <3>1, <3>2
  <2>2. pc'[c] = "idle" /\ wait'[c] = 0
    BY <1>1 DEF Inv, TypeOK
  <2> QED
    BY <2>1, <2>2 DEF Inv, Reservations
<1>5. Budget'
  BY <1>1, <1>2, Numbers DEF Inv, Budget
<1> QED
  BY <1>3, <1>4, <1>5 DEF Inv

LEMMA WorkKeepsInv ==
  ASSUME Inv, NEW c \in Callers, Work(c)
  PROVE  Inv'
<1>1. CASE Start(c)
  <2>1. TypeOK'
    <3>1. ToFetch(Fetches[c]) \in SUBSET AllFetches
      BY DEF ToFetch, AllFetches
    <3>2. wait[c] = 0
      BY <1>1 DEF Start, Inv, Reservations
    <3> QED
      BY <1>1, <3>1, <3>2, Numbers DEF Inv, TypeOK, Start, table, watch
  <2>2. Reservations' /\ Budget'
    BY <1>1 DEF Inv, TypeOK, Reservations, Budget, Start, watch
  <2> QED
    BY <2>1, <2>2 DEF Inv
<1>2. CASE TakeToken(c)
  <2>1. /\ pc[c] = "loop" /\ tokens > 0 /\ tokens' = tokens - 1 /\ sent' = sent + 1
        /\ pc' = [pc EXCEPT ![c] = "fetch"]
        /\ UNCHANGED <<stored, hangUps, todo, left, wait, since>>
    BY <1>2, Numbers DEF TakeToken, Need, table
  <2>2. TypeOK'
    BY <2>1, Numbers DEF Inv, TypeOK
  <2>3. Reservations' /\ Budget'
    BY <2>1, Numbers DEF Inv, TypeOK, Reservations, Budget
  <2> QED
    BY <2>2, <2>3 DEF Inv
<1>3. CASE ReserveToken(c)
  <2>1. /\ pc[c] = "loop" /\ tokens <= 0 /\ tokens' = tokens - 1
        /\ 1 - tokens <= left[c] /\ left[c] <= Deadline
        /\ pc' = [pc EXCEPT ![c] = "waiting"] /\ wait' = [wait EXCEPT ![c] = 1 - tokens]
        /\ UNCHANGED <<stored, hangUps, todo, left, since, sent>>
    <3>1. tokens <= 0 /\ Need(tokens) = 1 - tokens
      BY <1>3, Numbers DEF ReserveToken, Need
    <3>2. left[c] <= Deadline
      BY DEF Inv, TypeOK
    <3> QED
      BY <1>3, <3>1, <3>2 DEF ReserveToken, InTime, table, watch
  <2>2. 1 - tokens \in 0 .. Deadline /\ tokens' \in -Deadline .. RateLimitPerMin
    BY <2>1, Numbers DEF Inv, TypeOK
  <2>3. TypeOK'
    BY <2>1, <2>2, Numbers DEF Inv, TypeOK
  <2>4. pc'[c] = "waiting" /\ wait'[c] = -tokens' /\ 0 < wait'[c]
    BY <2>1, Numbers DEF Inv, TypeOK
  <2>5. ASSUME NEW e \in Callers, e # c
        PROVE  pc'[e] = pc[e] /\ wait'[e] = wait[e] /\ wait[e] < -tokens'
    BY <2>1, <2>5, Numbers DEF Inv, TypeOK, Reservations
  <2>6. Reservations'
    <3>1. ASSUME NEW e \in Callers
          PROVE  IF pc'[e] = "waiting" THEN 0 < wait'[e] /\ wait'[e] <= -tokens'
                                       ELSE wait'[e] = 0
      BY <2>1, <2>4, <2>5, Numbers DEF Inv, Reservations
    <3>2. ASSUME NEW e \in Callers, NEW f \in Callers, pc'[e] = "waiting", wait'[f] = wait'[e]
          PROVE  f = e
      BY <2>1, <2>4, <2>5, <3>2, Numbers DEF Inv, Reservations
    <3> QED
      BY <3>1, <3>2 DEF Reservations
  <2>7. Budget'
    BY <2>1, Numbers DEF Inv, Budget
  <2> QED
    BY <2>3, <2>6, <2>7 DEF Inv
<1>4. CASE NoTokenInTime(c)
  BY <1>4, FailsKeepsInv DEF NoTokenInTime, table, Inv, TypeOK
<1>5. CASE FetchDay(c)
  <2>1. PICK f \in todo[c] : stored' = stored \cup {f} /\ todo' = [todo EXCEPT ![c] = @ \ {f}]
    BY <1>5 DEF FetchDay
  <2>2. pc[c] = "fetch" /\ pc' = [pc EXCEPT ![c] = "loop"]
        /\ UNCHANGED <<tokens, left, wait, hangUps, since, sent>>
    BY <1>5 DEF FetchDay, watch
  <2>3. TypeOK'
    BY <2>1, <2>2 DEF Inv, TypeOK
  <2>4. Reservations' /\ Budget'
    BY <2>2 DEF Inv, TypeOK, Reservations, Budget
  <2> QED
    BY <2>3, <2>4 DEF Inv
<1>6. CASE UpsertReplyLost(c)
  <2>1. stored' \subseteq AllFetches
    BY <1>6 DEF UpsertReplyLost, Inv, TypeOK
  <2> QED
    BY <1>6, <2>1, FailsKeepsInv DEF UpsertReplyLost
<1>7. CASE FetchFails(c)
  BY <1>7, FailsKeepsInv DEF FetchFails, table, Inv, TypeOK
<1>8. CASE Answer(c)
  <2>1. wait[c] = 0
    BY <1>8 DEF Answer, Inv, Reservations
  <2>2. TypeOK'
    BY <1>8, <2>1, Numbers DEF Inv, TypeOK, Answer, table, watch
  <2>3. Reservations' /\ Budget'
    BY <1>8 DEF Inv, TypeOK, Reservations, Budget, Answer, watch
  <2> QED
    BY <2>2, <2>3 DEF Inv
<1> QED
  BY <1>1, <1>2, <1>3, <1>4, <1>5, <1>6, <1>7, <1>8 DEF Work

LEMMA InvNext == Inv /\ [Next]_vars => Inv'
<1> SUFFICES ASSUME Inv, [Next]_vars PROVE Inv'
  OBVIOUS
<1>1. CASE WatchMinute
  <2>1. TypeOK' /\ Reservations'
    BY <1>1, Numbers DEF WatchMinute, Inv, TypeOK, Reservations, table, call
  <2>2. Budget'
    BY <1>1, Numbers DEF WatchMinute, Inv, TypeOK, Budget
  <2> QED
    BY <2>1, <2>2 DEF Inv
<1>2. CASE UNCHANGED vars
  BY <1>2 DEF vars, table, call, watch, Inv, TypeOK, Reservations, Budget
<1> QED
  BY <1>1, <1>2, TickKeepsInv, WorkKeepsInv, HangUpKeepsInv DEF Next

LEMMA Invariance == Spec => []Inv
BY InvInit, InvNext, PTL DEF Spec

------------------------------------------------------------------------------
(* The theorems.                                                           *)

\* The variables have their types: no call waits for a token beyond its
\* deadline, and the limiter gives no more away than deadlines allow.
THEOREM BatchesTypeCorrect == Spec => []TypeOK
<1>1. Inv => TypeOK
  BY DEF Inv
<1> QED
  BY <1>1, Invariance, PTL

\* For any callers and deadlines, no minute has more than two minutes' requests.
THEOREM BatchesAtMostTwiceTheLimit == Spec => []AtMostTwiceTheLimit
<1>1. Inv => AtMostTwiceTheLimit
  <2> SUFFICES ASSUME Inv PROVE AtMostTwiceTheLimit
    OBVIOUS
  <2>1. since <= RateLimitPerMin /\ sent <= RateLimitPerMin + since
    BY Numbers DEF Inv, TypeOK, Budget
  <2> QED
    BY <2>1, Numbers DEF AtMostTwiceTheLimit
<1> QED
  BY <1>1, Invariance, PTL
=============================================================================
