------------------------------ MODULE AtomicMap ------------------------------
(***************************************************************************)
(* What the in-memory store promises its callers: a map whose operations   *)
(* each take effect at one instant between their call and their return.    *)
(* The argument of an update is a map too, absent from the keys that a     *)
(* patch leaves alone.                                                     *)
(***************************************************************************)
CONSTANTS Keys, Values, Readers, Writers,
          Absent    \* the value of a key that a map does not have

VARIABLES content,    \* the map
          call,       \* per writer, the update it is in
          got         \* per reader, what its last Get returned or will return

vars == <<content, call, got>>

Maps == [Keys -> Values \cup {Absent}]

EmptyMap == [k \in Keys |-> Absent]

NoCall == [op |-> "none", map |-> EmptyMap]

\* The map with the keys of the patch replaced or added.
Patched(map, patch) ==
  [k \in Keys |-> IF patch[k] # Absent THEN patch[k] ELSE map[k]]

Init ==
  /\ content = EmptyMap
  /\ call = [w \in Writers |-> NoCall]
  /\ got = [r \in Readers |-> Absent]

Get(r, k) ==
  /\ got' = [got EXCEPT ![r] = content[k]]
  /\ UNCHANGED <<content, call>>

Call(w, op, map) ==
  /\ call[w].op = "none"
  /\ call' = [call EXCEPT ![w] = [op |-> op, map |-> map]]
  /\ UNCHANGED <<content, got>>

UpsertMany(w) ==
  /\ call[w].op = "upsert"
  /\ content' = Patched(content, call[w].map)
  /\ call' = [call EXCEPT ![w] = NoCall]
  /\ UNCHANGED got

ReplaceAll(w) ==
  /\ call[w].op = "replace"
  /\ content' = call[w].map
  /\ call' = [call EXCEPT ![w] = NoCall]
  /\ UNCHANGED got

Next ==
  \/ \E r \in Readers, k \in Keys : Get(r, k)
  \/ \E w \in Writers : \/ \E map \in Maps : Call(w, "upsert", map)
                                          \/ Call(w, "replace", map)
                        \/ UpsertMany(w)
                        \/ ReplaceAll(w)

Spec == Init /\ [][Next]_vars
=============================================================================
