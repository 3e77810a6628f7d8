--------------------------- MODULE CopyOnWriteStore ---------------------------
(***************************************************************************)
(* The generic store of pkg/in-memory, at the granularity of its accesses  *)
(* to shared memory: an atomic.Value holding a reference to a Go map.  An  *)
(* update loads the reference, fills a new map entry by entry and stores   *)
(* the reference to it, all without the mutex that is commented out; a Get *)
(* loads the reference and then looks into the map it refers to.           *)
(*                                                                         *)
(* A map may not be written while another goroutine reads it: that is a    *)
(* data race and Go's runtime may abort the program on it.                 *)
(***************************************************************************)
EXTENDS Integers, Sequences

CONSTANTS Keys, Values, Readers, Absent,
          Writers,    \* the goroutines that update the store
          MaxMaps     \* bound: how many maps may be allocated

ASSUME AbsentAssumption == Absent \notin Values

\* Each store is updated by one goroutine only: runSource for the rates of
\* a source, the start of the program for the coin ids.
ASSUME OneWriter == \A w1, w2 \in Writers : w1 = w2

VARIABLES
  maps,      \* the maps allocated so far; a reference is an index
  v,         \* the reference in the atomic.Value
  wpc,       \* per writer: "idle", or the loop it is in
  old,       \* per writer: the reference UpsertMany loaded, 0 in ReplaceAll
  cp,        \* per writer: the reference of the copy it fills
  patch,     \* per writer: the argument of the call
  todo,      \* per writer: the keys its loop has still to visit
  m,         \* per reader: the reference its Get loaded, 0 outside of Get
  key,       \* per reader: the key it asks for
  answer     \* per reader: what its last Get returned

writerVars == <<wpc, old, cp, patch, todo>>
readerVars == <<m, key, answer>>
vars == <<maps, v, writerVars, readerVars>>

Maps == [Keys -> Values \cup {Absent}]

EmptyMap == [k \in Keys |-> Absent]

KeysOf(map) == {k \in Keys : map[k] # Absent}

TypeOK ==
  /\ maps \in Seq(Maps)
  /\ v \in 1 .. Len(maps)
  /\ wpc \in [Writers -> {"idle", "old", "patch"}]
  /\ old \in [Writers -> 0 .. Len(maps)]
  /\ cp \in [Writers -> 0 .. Len(maps)]
  /\ patch \in [Writers -> Maps]
  /\ todo \in [Writers -> SUBSET Keys]
  /\ m \in [Readers -> 0 .. Len(maps)]
  /\ key \in [Readers -> Keys]
  /\ answer \in [Readers -> Values \cup {Absent}]

-----------------------------------------------------------------------------
(* Bugs of the kind the checks must notice. *)

\* The entries of the patch are written into the map readers look into.
WrongUpsertMany(w, p) ==
  /\ wpc[w] = "idle"
  /\ wpc' = [wpc EXCEPT ![w] = "patch"]
  /\ old' = [old EXCEPT ![w] = v]
  /\ cp' = [cp EXCEPT ![w] = v]
  /\ patch' = [patch EXCEPT ![w] = p]
  /\ todo' = [todo EXCEPT ![w] = KeysOf(p)]
  /\ UNCHANGED <<maps, v, readerVars>>

\* The copy is made visible first and filled afterwards.
WrongStore(w) ==
  /\ wpc[w] = "patch"
  /\ v' = cp[w]
  /\ wpc' = [wpc EXCEPT ![w] = IF todo[w] = {} THEN "idle" ELSE "patch"]
  /\ UNCHANGED <<maps, old, cp, patch, todo, readerVars>>

\* A store that is made without its empty map.
WrongInit ==
  /\ maps = << >>
  /\ v = 0
  /\ wpc = [w \in Writers |-> "idle"]
  /\ old = [w \in Writers |-> 0]
  /\ cp = [w \in Writers |-> 0]
  /\ patch = [w \in Writers |-> EmptyMap]
  /\ todo = [w \in Writers |-> {}]
  /\ m = [r \in Readers |-> 0]
  /\ key \in [Readers -> Keys]
  /\ answer = [r \in Readers |-> Absent]

-----------------------------------------------------------------------------
(* NewStore. *)
Init ==
  /\ maps = <<EmptyMap>>
  /\ v = 1
  /\ wpc = [w \in Writers |-> "idle"]
  /\ old = [w \in Writers |-> 0]
  /\ cp = [w \in Writers |-> 0]
  /\ patch = [w \in Writers |-> EmptyMap]
  /\ todo = [w \in Writers |-> {}]
  /\ m = [r \in Readers |-> 0]
  /\ key \in [Readers -> Keys]
  /\ answer = [r \in Readers |-> Absent]

(* A writer. *)

\* A new map, to be filled from the loop that starts at "at".
Make(w, at, from, p) ==
  /\ wpc[w] = "idle"
  /\ Len(maps) < MaxMaps
  /\ maps' = Append(maps, EmptyMap)
  /\ cp' = [cp EXCEPT ![w] = Len(maps) + 1]
  /\ wpc' = [wpc EXCEPT ![w] = at]
  /\ old' = [old EXCEPT ![w] = from]
  /\ patch' = [patch EXCEPT ![w] = p]
  /\ UNCHANGED <<v, readerVars>>

\* The call of UpsertMany, and its load of the current map.
UpsertMany(w, p) ==
  /\ Make(w, "old", v, p)
  /\ todo' = [todo EXCEPT ![w] = KeysOf(maps[v])]

ReplaceAll(w, p) ==
  /\ Make(w, "patch", 0, p)
  /\ todo' = [todo EXCEPT ![w] = KeysOf(p)]

\* One turn of a loop over a map: range visits its keys in any order.
CopyEntry(w, k, val) ==
  /\ k \in todo[w]
  /\ maps' = [maps EXCEPT ![cp[w]] = [@ EXCEPT ![k] = val]]
  /\ todo' = [todo EXCEPT ![w] = @ \ {k}]
  /\ UNCHANGED <<v, wpc, old, cp, patch, readerVars>>

CopyOld(w, k) == wpc[w] = "old" /\ CopyEntry(w, k, maps[old[w]][k])

CopyPatch(w, k) == wpc[w] = "patch" /\ CopyEntry(w, k, patch[w][k])

OldCopied(w) ==
  /\ wpc[w] = "old"
  /\ todo[w] = {}
  /\ wpc' = [wpc EXCEPT ![w] = "patch"]
  /\ todo' = [todo EXCEPT ![w] = KeysOf(patch[w])]
  /\ UNCHANGED <<maps, v, old, cp, patch, readerVars>>

\* The store of the reference, and the return of the call.
Store(w) ==
  /\ wpc[w] = "patch"
  /\ todo[w] = {}
  /\ v' = cp[w]
  /\ wpc' = [wpc EXCEPT ![w] = "idle"]
  /\ UNCHANGED <<maps, old, cp, patch, todo, readerVars>>

(* A reader: Get loads the reference, then looks into the map. *)

GetLoad(r, k) ==
  /\ m[r] = 0
  /\ m' = [m EXCEPT ![r] = v]
  /\ key' = [key EXCEPT ![r] = k]
  /\ UNCHANGED <<maps, v, writerVars, answer>>

GetLookup(r) ==
  /\ m[r] # 0
  /\ answer' = [answer EXCEPT ![r] = maps[m[r]][key[r]]]
  /\ m' = [m EXCEPT ![r] = 0]
  /\ UNCHANGED <<maps, v, writerVars, key>>

Write(w) ==
  \/ \E p \in Maps : UpsertMany(w, p) \/ ReplaceAll(w, p)
  \/ \E k \in Keys : CopyOld(w, k) \/ CopyPatch(w, k)
  \/ OldCopied(w)
  \/ Store(w)

Read(r) == GetLookup(r) \/ \E k \in Keys : GetLoad(r, k)

Next == (\E w \in Writers : Write(w)) \/ (\E r \in Readers : Read(r))

Spec == Init /\ [][Next]_vars

-----------------------------------------------------------------------------
(* The map a writer fills is neither the one readers will load next nor    *)
(* one that a Get is about to look into: no entry is ever written under a  *)
(* reader, without any lock (in_memory.go, Get and UpsertMany).            *)
NoWriteUnderAReader ==
  \A w \in Writers : wpc[w] # "idle" =>
    /\ cp[w] # v
    /\ cp[w] # old[w]
    /\ \A r \in Readers : cp[w] # m[r]

\* The call a writer is in, as its caller sees it.
CallOf(w) ==
  [op |-> CASE wpc[w] = "idle" -> "none"
            [] wpc[w] # "idle" /\ old[w] = 0 -> "replace"
            [] OTHER -> "upsert",
   map |-> IF wpc[w] = "idle" THEN EmptyMap ELSE patch[w]]

\* What a Get will answer, decided by the map it loaded.
AnswerOf(r) == IF m[r] = 0 THEN answer[r] ELSE maps[m[r]][key[r]]

(* The store is an atomic map: an update takes effect when its reference   *)
(* is stored, whole and on top of every earlier one, and a Get answers     *)
(* from the map it loaded, whatever is stored before it looks into it.     *)
Promise ==
  INSTANCE AtomicMap WITH
    content <- maps[v],
    call <- [w \in Writers |-> CallOf(w)],
    got <- [r \in Readers |-> AnswerOf(r)]

ImplementsAtomicMap == Promise!Spec
=============================================================================
