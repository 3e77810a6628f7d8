--------------------------- MODULE RetriedBatches ---------------------------
(***************************************************************************)
(* Batches against the rate limiter of the CoinGecko client.  A batch may  *)
(* need more fetches than there are tokens before its deadline; it then    *)
(* fails, its caller repeats it, and what it has stored is not fetched     *)
(* again.                                                                  *)
(*                                                                         *)
(* Time is counted in intervals of the limiter, one token each: 60 seconds *)
(* divided by RateLimitPerMin.  What a fetch stores is in HistoricalPrices;*)
(* here it is just stored or not.                                          *)
(***************************************************************************)
EXTENDS Integers, FiniteSets

CONSTANTS
  Callers,          \* each repeats one batch until it is answered
  Fetches,          \* Fetches[c]: the fetches its batch needs on an empty table
  RateLimitPerMin,  \* the tokens of a minute and the size of the bucket
  Deadline,         \* the whole intervals in contextTimeout
  MaxHangUps        \* bound on the calls given up by their callers

ASSUME LimiterAssumption ==
  /\ RateLimitPerMin \in Nat \ {0}
  /\ Deadline \in Nat
  /\ MaxHangUps \in Nat

VARIABLES
  tokens,   \* of the limiter; below zero, that many intervals are reserved
  stored,   \* the fetches whose rows are in the table
  pc,       \* where the call of a caller is
  todo,     \* the fetches it has still to make
  left,     \* whole intervals to its deadline, which is between two of them
  wait,     \* intervals to the token it has reserved
  hangUps,  \* calls given up by their callers
  since,    \* for checking: the intervals of a minute that is watched ...
  sent      \* ... and the requests let through in it

AllFetches == UNION {Fetches[c] : c \in Callers}

table == <<stored, hangUps>>
call == <<pc, todo, left, wait>>
watch == <<since, sent>>
vars == <<tokens, table, call, watch>>

Init ==
  /\ tokens = RateLimitPerMin
  /\ stored = {}
  /\ pc = [c \in Callers |-> "idle"]
  /\ todo = [c \in Callers |-> {}]
  /\ left = [c \in Callers |-> 0]
  /\ wait = [c \in Callers |-> 0]
  /\ hangUps = 0
  /\ since = 0
  /\ sent = 0

Running(c) == pc[c] \in {"loop", "waiting", "fetch"}

\* The call ends with an error; its caller will repeat it.
Fails(c) ==
  /\ pc' = [pc EXCEPT ![c] = "idle"]
  /\ todo' = [todo EXCEPT ![c] = {}]
  /\ left' = [left EXCEPT ![c] = 0]
  /\ wait' = [wait EXCEPT ![c] = 0]

------------------------------------------------------------------------------
(* The limiter.                                                            *)

\* A bug of the kind the checks must notice: a request that does not wait.
WrongNeed(t) == 0

\* The intervals until the next token that is not reserved.
Need(t) == IF t > 0 THEN 0 ELSE 1 - t

\* A bug of the kind the checks must notice: a token after the deadline.
WrongInTime(need, intervals) == TRUE

\* Wait fails at once rather than wait beyond the deadline.
InTime(need, intervals) == need <= intervals

\* Wait finds a token.
TakeToken(c) ==
  /\ pc[c] = "loop" /\ todo[c] # {}
  /\ Need(tokens) = 0
  /\ tokens' = tokens - 1
  /\ pc' = [pc EXCEPT ![c] = "fetch"]
  /\ sent' = sent + 1
  /\ UNCHANGED <<table, todo, left, wait, since>>

\* Wait reserves the next one that comes in time.
ReserveToken(c) ==
  /\ pc[c] = "loop" /\ todo[c] # {}
  /\ Need(tokens) > 0 /\ InTime(Need(tokens), left[c])
  /\ tokens' = tokens - 1
  /\ pc' = [pc EXCEPT ![c] = "waiting"]
  /\ wait' = [wait EXCEPT ![c] = Need(tokens)]
  /\ UNCHANGED <<table, todo, left, watch>>

\* There is none in time.
NoTokenInTime(c) ==
  /\ pc[c] = "loop" /\ todo[c] # {}
  /\ ~InTime(Need(tokens), left[c])
  /\ Fails(c)
  /\ UNCHANGED <<tokens, table, watch>>

\* The callers whose token comes with the next interval.
Due == {c \in Callers : pc[c] = "waiting" /\ wait[c] = 1}

\* An interval passes: a token comes, and goes to the caller that waits for it.
\* The loop takes no time between its calls, and a fetch ends by the deadline.
Tick ==
  /\ \A c \in Callers : pc[c] # "loop" /\ (pc[c] = "fetch" => left[c] > 0)
  /\ tokens' = IF tokens < RateLimitPerMin THEN tokens + 1 ELSE tokens
  /\ pc' = [c \in Callers |-> IF c \in Due THEN "fetch" ELSE pc[c]]
  /\ left' = [c \in Callers |-> IF Running(c) THEN left[c] - 1 ELSE left[c]]
  /\ wait' = [c \in Callers |-> IF pc[c] = "waiting" THEN wait[c] - 1 ELSE wait[c]]
  /\ IF since < RateLimitPerMin
     THEN since' = since + 1 /\ sent' = sent + Cardinality(Due)
     ELSE since' = 0 /\ sent' = Cardinality(Due)
  /\ UNCHANGED <<table, todo>>

\* For checking: a minute may be watched from any moment on.
WatchMinute ==
  /\ since' = 0 /\ sent' = 0
  /\ UNCHANGED <<tokens, table, call>>

------------------------------------------------------------------------------
(* The calls.                                                              *)

\* A bug of the kind the checks must notice: a repeated batch starts over.
WrongToFetch(fetches) == fetches

\* What a call has to fetch: the days the table does not have.
ToFetch(fetches) == fetches \ stored

\* A call starts: it reads the table, which may take some of its time, and plans
\* its fetches.
Start(c) ==
  /\ pc[c] = "idle"
  /\ pc' = [pc EXCEPT ![c] = "loop"]
  /\ todo' = [todo EXCEPT ![c] = ToFetch(Fetches[c])]
  /\ \E l \in 0 .. Deadline : left' = [left EXCEPT ![c] = l]
  /\ UNCHANGED <<tokens, table, wait, watch>>

\* CoinGecko answers, and the rows of the day are stored.
FetchDay(c) ==
  /\ pc[c] = "fetch"
  /\ \E f \in todo[c] :
       /\ stored' = stored \cup {f}
       /\ todo' = [todo EXCEPT ![c] = @ \ {f}]
  /\ pc' = [pc EXCEPT ![c] = "loop"]
  /\ UNCHANGED <<tokens, left, wait, hangUps, watch>>

\* The rows are stored but the reply is lost.
UpsertReplyLost(c) ==
  /\ pc[c] = "fetch"
  /\ \E f \in todo[c] : stored' = stored \cup {f}
  /\ Fails(c)
  /\ UNCHANGED <<tokens, hangUps, watch>>

\* The request, its answer or the statement fails, at the latest at the deadline.
FetchFails(c) ==
  /\ pc[c] = "fetch"
  /\ Fails(c)
  /\ UNCHANGED <<tokens, table, watch>>

\* The caller gives the call up.  A reservation is given back if none was made
\* after it, else its token is lost.
HangUp(c) ==
  /\ Running(c)
  /\ hangUps < MaxHangUps
  /\ hangUps' = hangUps + 1
  /\ tokens' = IF pc[c] = "waiting" /\ wait[c] = -tokens THEN tokens + 1 ELSE tokens
  /\ Fails(c)
  /\ UNCHANGED <<stored, watch>>

\* Everything is there: the batch is answered.
Answer(c) ==
  /\ pc[c] = "loop" /\ todo[c] = {}
  /\ pc' = [pc EXCEPT ![c] = "answered"]
  /\ left' = [left EXCEPT ![c] = 0]
  /\ UNCHANGED <<tokens, table, todo, wait, watch>>

Work(c) ==
  \/ Start(c) \/ TakeToken(c) \/ ReserveToken(c) \/ NoTokenInTime(c)
  \/ FetchDay(c) \/ UpsertReplyLost(c) \/ FetchFails(c) \/ Answer(c)

Next == Tick \/ WatchMinute \/ \E c \in Callers : Work(c) \/ HangUp(c)

Spec == Init /\ [][Next]_vars

\* Time passes: there is no end to the intervals, whatever is done in each.  And
\* a call does not block for ever.
FairSpec == Spec /\ []<><<Tick>>_vars /\ \A c \in Callers : WF_vars(Work(c))

------------------------------------------------------------------------------
(* Properties.                                                             *)

\* The variables' types; who waits for a token will have it before the deadline.
TypeOK ==
  /\ tokens \in -Deadline .. RateLimitPerMin
  /\ stored \subseteq AllFetches
  /\ pc \in [Callers -> {"idle", "loop", "waiting", "fetch", "answered"}]
  /\ todo \in [Callers -> SUBSET AllFetches]
  /\ left \in [Callers -> 0 .. Deadline]
  /\ wait \in [Callers -> 0 .. Deadline]
  /\ \A c \in Callers : wait[c] <= left[c]
  /\ hangUps \in 0 .. MaxHangUps
  /\ since \in 0 .. RateLimitPerMin
  /\ sent \in Nat

\* In no minute are more than two minutes' requests sent, however the calls
\* compete, wait and are given up: a full bucket and the tokens that come
\* meanwhile.  (rate_limit_per_min is not a limit on every minute.)
AtMostTwiceTheLimit == sent <= 2 * RateLimitPerMin

\* A batch that is repeated is answered in the end, however many tokens it
\* needs, if CoinGecko and the database do not fail its fetches for ever: each
\* call that gets a token makes the next one shorter.
EveryBatchAnswered ==
  (\A c \in Callers : SF_vars(FetchDay(c))) => \A c \in Callers : <>(pc[c] = "answered")
=============================================================================
