----------------------------- MODULE PriceCache -----------------------------
(***************************************************************************)
(* The cache of prices over Redis, shared by clients that get, set and     *)
(* delete entries.  Entries expire, commands fail or are executed without  *)
(* an answer, the library may send such a command again, and an entry that *)
(* json.Unmarshal refuses may be there: Get deletes it, whatever it has    *)
(* become.  (It also accepts texts that Set has never written, such as {}  *)
(* or null; that nobody else writes such a text is assumed here.)          *)
(*                                                                         *)
(* No code of the service calls the cache yet; it is modelled for any      *)
(* clients.  Redis executes one command at a time.  The definitions that   *)
(* every specification has are named CacheInit and so on, so that one      *)
(* module can extend this one and another component.                       *)
(***************************************************************************)
EXTENDS Integers

CONSTANTS
  Clients, PriceKeys, Prices,
  NoPrice,  \* the zero HistoricalPrice
  Junk,     \* a text that json.Unmarshal refuses for a HistoricalPrice
  Ttls,     \* what callers give as ttl
  Jitter,   \* of the Redis client
  MaxAge    \* bound on the age that is told apart

ASSUME TimeAssumption ==
  /\ Ttls \subseteq Nat
  /\ Jitter \in Nat
  /\ MaxAge \in Nat
  /\ \A t \in Ttls : t + Jitter < MaxAge

VARIABLES
  entry,  \* the entry of a key: its text, its ttl and time left; for checking its age
  pc,     \* where the call of a client is
  arg,    \* its key, price and ttl
  found,  \* what the last Get of a client answered as a hit
  given   \* for checking: the prices Set was called with for a key

cacheVars == <<entry, pc, arg, found, given>>

NoEntry == [text |-> NoPrice, ttl |-> 0, left |-> 0, age |-> 0]
NoHit == [key |-> NoPrice, price |-> NoPrice, ttl |-> 0, age |-> 0]
Texts == Prices \cup {Junk}

CacheInit ==
  /\ entry = [k \in PriceKeys |-> NoEntry]
  /\ pc = [c \in Clients |-> "idle"]
  /\ arg = [c \in Clients |-> <<>>]
  /\ found = [c \in Clients |-> NoHit]
  /\ given = [k \in PriceKeys |-> {}]

------------------------------------------------------------------------------
(* Redis and its client.                                                   *)

\* A bug of the kind the checks must notice: the jitter itself is added too.
WrongTtlWithJitter(base) == base .. base + Jitter

\* rand.Int63n(maxJitter) is below maxJitter.
ttlWithJitter(base) == IF Jitter <= 0 THEN {base} ELSE base .. base + Jitter - 1

\* Time passes: an entry is gone when its time is over.  One that was set with no
\* time at all (0 for the library) stays.
Aged(e) ==
  IF e.left = 1 THEN NoEntry
  ELSE [e EXCEPT !.left = IF @ = 0 THEN 0 ELSE @ - 1,
                 !.age = IF @ < MaxAge /\ e # NoEntry THEN @ + 1 ELSE @]

Tick ==
  /\ entry' = [k \in PriceKeys |-> Aged(entry[k])]
  /\ UNCHANGED <<pc, arg, found, given>>

\* Something else has stored a text that cannot be decoded under a key.
Spoil(k) ==
  /\ entry' = [entry EXCEPT ![k] = [NoEntry EXCEPT !.text = Junk]]
  /\ UNCHANGED <<pc, arg, found, given>>

Begin(c, what, a) ==
  /\ pc[c] = "idle"
  /\ pc' = [pc EXCEPT ![c] = what]
  /\ arg' = [arg EXCEPT ![c] = a]
  /\ found' = [found EXCEPT ![c] = NoHit]

Returns(c) ==
  /\ pc' = [pc EXCEPT ![c] = "idle"]
  /\ arg' = [arg EXCEPT ![c] = <<>>]

\* The command gets its answer, or it is lost: then the call ends with an error,
\* or the library sends the command again.
Answered(c) == Returns(c) \/ UNCHANGED <<pc, arg>>

\* No answer in time, and the command was not executed.
CommandFails(c) ==
  /\ pc[c] # "idle"
  /\ Returns(c)
  /\ UNCHANGED <<entry, found, given>>

------------------------------------------------------------------------------
(* The operations.                                                         *)

\* A bug of the kind the checks must notice: the failure of json.Unmarshal is
\* not looked at, and what it has left in the price is a hit.
WrongDecodes(text) == TRUE

Decodes(text) == text # Junk

BeginGet(c) == \E k \in PriceKeys :
  /\ Begin(c, "get", <<k>>)
  /\ UNCHANGED <<entry, given>>

\* GET: a miss or a hit; a text that does not decode is to be deleted.
Get(c) ==
  /\ pc[c] = "get"
  /\ LET k == arg[c][1]
         e == entry[k]
     IN IF e = NoEntry
        THEN Returns(c) /\ UNCHANGED found
        ELSE IF Decodes(e.text)
        THEN /\ Returns(c)
             /\ found' = [found EXCEPT ![c] =
                  [key |-> k, price |-> e.text, ttl |-> e.ttl, age |-> e.age]]
        ELSE pc' = [pc EXCEPT ![c] = "drop"] /\ UNCHANGED <<arg, found>>
  /\ UNCHANGED <<entry, given>>

\* SET with the ttl and a jitter of its own, the same if it is sent again.
BeginSet(c) == \E k \in PriceKeys, p \in Prices, t \in Ttls : \E ttl \in ttlWithJitter(t) :
  /\ Begin(c, "set", <<k, p, t, ttl>>)
  /\ given' = [given EXCEPT ![k] = @ \cup {p}]
  /\ UNCHANGED entry

Set(c) ==
  /\ pc[c] = "set"
  /\ entry' = [entry EXCEPT ![arg[c][1]] =
       [text |-> arg[c][2], ttl |-> arg[c][3], left |-> arg[c][4], age |-> 0]]
  /\ Answered(c)
  /\ UNCHANGED <<found, given>>

BeginDelete(c) == \E k \in PriceKeys :
  /\ Begin(c, "delete", <<k>>)
  /\ UNCHANGED <<entry, given>>

\* DEL, of Delete and of a Get that found a text it could not decode.
Del(c) ==
  /\ pc[c] \in {"delete", "drop"}
  /\ entry' = [entry EXCEPT ![arg[c][1]] = NoEntry]
  /\ Answered(c)
  /\ UNCHANGED <<found, given>>

CacheNext ==
  \/ Tick
  \/ \E k \in PriceKeys : Spoil(k)
  \/ \E c \in Clients :
       \/ BeginGet(c) \/ Get(c) \/ BeginSet(c) \/ Set(c) \/ BeginDelete(c) \/ Del(c)
       \/ CommandFails(c)

CacheSpec == CacheInit /\ [][CacheNext]_cacheVars

------------------------------------------------------------------------------
(* Properties.                                                             *)

\* The most that the jitter adds to a ttl.
MostJitter == IF Jitter > 0 THEN Jitter - 1 ELSE 0

\* The variables' types; no entry has more time left than its ttl and the jitter.
CacheTypeOK ==
  /\ \A k \in PriceKeys :
       /\ entry[k] = NoEntry \/ entry[k].text \in Texts
       /\ entry[k].left > 0 => entry[k].left + entry[k].age <= entry[k].ttl + MostJitter
       /\ given[k] \subseteq Prices
  /\ pc \in [Clients -> {"idle", "get", "drop", "set", "delete"}]
  /\ \A c \in Clients : found[c] = NoHit \/ found[c].key \in PriceKeys

\* A hit is a price some client has Set for this very key; and if the ttl was not
\* 0, Redis had stored it for less than the ttl and the most that the jitter adds:
\* whatever could not be decoded, was deleted, repeated or lost, and by whom.
HitsAreGood ==
  \A c \in Clients : found[c] # NoHit =>
    LET h == found[c]
    IN /\ h.price \in given[h.key]
       /\ h.ttl > 0 => h.age < h.ttl + MostJitter
=============================================================================
