----------------------- MODULE CopyOnWriteStoreProofs -----------------------
(***************************************************************************)
(* Proofs about the copy-on-write store with one writer: its type          *)
(* invariant, that no map is written under a reader, and that the store is *)
(* an atomic map, for every set of keys, values and readers and any number *)
(* of updates.                                                             *)
(***************************************************************************)
EXTENDS CopyOnWriteStore, SequenceTheorems, TLAPS

\* What a writer starts its copy from.
Base(w) == IF old[w] = 0 THEN EmptyMap ELSE maps[v]

\* The map being filled is reachable from its writer alone, and the map that
\* was loaded is still the current one: nobody else can have replaced it.
Private(w) ==
  /\ cp[w] # 0
  /\ cp[w] # v
  /\ cp[w] # old[w]
  /\ \A r \in Readers : cp[w] # m[r]
  /\ old[w] \in {0, v}
  /\ wpc[w] = "old" => old[w] # 0

\* What the loops have copied so far.
Copied(w) ==
  /\ wpc[w] = "old" =>
       \A k \in Keys \ todo[w] : maps[cp[w]][k] = maps[v][k]
  /\ wpc[w] = "patch" =>
       /\ todo[w] \subseteq KeysOf(patch[w])
       /\ \A k \in Keys \ todo[w] :
            maps[cp[w]][k] =
              IF patch[w][k] # Absent THEN patch[w][k] ELSE Base(w)[k]

WriterInv == \A w \in Writers : wpc[w] # "idle" => Private(w) /\ Copied(w)

IInv == TypeOK /\ WriterInv

USE DEF Maps

LEMMA EmptyMapIsAMap == EmptyMap \in Maps
  BY DEF EmptyMap

-----------------------------------------------------------------------------
(* The type invariant. *)

LEMMA InitType == Init => TypeOK
  <1> SUFFICES ASSUME Init PROVE TypeOK
    OBVIOUS
  <1>1. maps \in Seq(Maps) /\ Len(maps) = 1
    BY EmptyMapIsAMap DEF Init
  <1> QED
    BY <1>1, EmptyMapIsAMap DEF Init, TypeOK

LEMMA MakeType ==
  ASSUME TypeOK, NEW w \in Writers, NEW at \in {"old", "patch"},
         NEW from \in 0 .. Len(maps), NEW p \in Maps,
         Make(w, at, from, p), todo' \in [Writers -> SUBSET Keys]
  PROVE  /\ TypeOK'
         /\ Len(maps') = Len(maps) + 1
         /\ \A i \in 1 .. Len(maps) : maps'[i] = maps[i]
         /\ maps'[Len(maps) + 1] = EmptyMap
  <1>1. /\ maps' \in Seq(Maps)
        /\ Len(maps') = Len(maps) + 1
        /\ \A i \in 1 .. Len(maps) : maps'[i] = maps[i]
        /\ maps'[Len(maps) + 1] = EmptyMap
    BY EmptyMapIsAMap DEF TypeOK, Make
  <1>2. 0 .. Len(maps) \subseteq 0 .. Len(maps')
    BY <1>1 DEF TypeOK
  <1>3. v' \in 1 .. Len(maps') /\ Len(maps) + 1 \in 0 .. Len(maps')
    BY <1>1 DEF TypeOK, Make
  <1>4. /\ cp' \in [Writers -> 0 .. Len(maps')]
        /\ old' \in [Writers -> 0 .. Len(maps')]
        /\ m' \in [Readers -> 0 .. Len(maps')]
    BY <1>1, <1>2, <1>3 DEF TypeOK, Make, readerVars
  <1> QED
    BY <1>1, <1>3, <1>4 DEF TypeOK, Make, readerVars

LEMMA CopyEntryType ==
  ASSUME TypeOK, NEW w \in Writers, NEW k \in Keys,
         NEW val \in Values \cup {Absent},
         cp[w] # 0, CopyEntry(w, k, val)
  PROVE  /\ TypeOK'
         /\ Len(maps') = Len(maps)
         /\ \A i \in 1 .. Len(maps) : i # cp[w] => maps'[i] = maps[i]
         /\ maps'[cp[w]] = [maps[cp[w]] EXCEPT ![k] = val]
  <1> DEFINE filled == [maps[cp[w]] EXCEPT ![k] = val]
  <1>1. cp[w] \in 1 .. Len(maps) /\ maps[cp[w]] \in Maps
    BY DEF TypeOK
  <1>2. filled \in Maps
    BY <1>1
  <1>3. maps' = [maps EXCEPT ![cp[w]] = filled]
    BY DEF CopyEntry
  <1>4. /\ maps' \in Seq(Maps)
        /\ Len(maps') = Len(maps)
        /\ \A i \in 1 .. Len(maps) : i # cp[w] => maps'[i] = maps[i]
        /\ maps'[cp[w]] = filled
    <2> HIDE DEF filled
    <2> QED
      BY <1>1, <1>2, <1>3, ExceptSeq DEF TypeOK
  <1> QED
    BY <1>4 DEF TypeOK, CopyEntry, readerVars

LEMMA CurrentMap == ASSUME TypeOK PROVE maps[v] \in Maps
  BY DEF TypeOK

-----------------------------------------------------------------------------
(* One lemma per action: it preserves the invariant. *)

LEMMA InitInv == Init => IInv
  BY InitType DEF Init, IInv, WriterInv

LEMMA UpsertManyInv ==
  ASSUME IInv, NEW w \in Writers, NEW p \in Maps, UpsertMany(w, p)
  PROVE  IInv'
  <1>1. KeysOf(maps[v]) \subseteq Keys /\ v \in 0 .. Len(maps)
    BY DEF KeysOf, IInv, TypeOK
  <1>2. todo' \in [Writers -> SUBSET Keys]
    BY <1>1 DEF IInv, TypeOK, UpsertMany
  <1>3. /\ TypeOK'
        /\ Len(maps') = Len(maps) + 1
        /\ \A i \in 1 .. Len(maps) : maps'[i] = maps[i]
        /\ maps'[Len(maps) + 1] = EmptyMap
    BY <1>1, <1>2, MakeType DEF IInv, UpsertMany
  <1>4. /\ wpc'[w] = "old"
        /\ cp'[w] = Len(maps) + 1
        /\ old'[w] = v
        /\ todo'[w] = KeysOf(maps[v])
        /\ v' = v
        /\ m' = m
    BY DEF IInv, TypeOK, UpsertMany, Make, readerVars
  <1>5. Private(w)'
    BY <1>4 DEF Private, IInv, TypeOK
  <1>6. Copied(w)'
    BY <1>1, <1>3, <1>4 DEF Copied, KeysOf, EmptyMap, IInv, TypeOK
  <1>7. \A u \in Writers : u = w
    BY OneWriter
  <1> QED
    BY <1>3, <1>5, <1>6, <1>7 DEF IInv, WriterInv

LEMMA ReplaceAllInv ==
  ASSUME IInv, NEW w \in Writers, NEW p \in Maps, ReplaceAll(w, p)
  PROVE  IInv'
  <1>1. KeysOf(p) \subseteq Keys /\ 0 \in 0 .. Len(maps)
    BY DEF KeysOf, IInv, TypeOK
  <1>2. todo' \in [Writers -> SUBSET Keys]
    BY <1>1 DEF IInv, TypeOK, ReplaceAll
  <1>3. /\ TypeOK'
        /\ Len(maps') = Len(maps) + 1
        /\ \A i \in 1 .. Len(maps) : maps'[i] = maps[i]
        /\ maps'[Len(maps) + 1] = EmptyMap
    BY <1>1, <1>2, MakeType DEF IInv, ReplaceAll
  <1>4. /\ wpc'[w] = "patch"
        /\ cp'[w] = Len(maps) + 1
        /\ old'[w] = 0
        /\ patch'[w] = p
        /\ todo'[w] = KeysOf(p)
        /\ v' = v
        /\ m' = m
    BY DEF IInv, TypeOK, ReplaceAll, Make, readerVars
  <1>5. Private(w)'
    BY <1>4 DEF Private, IInv, TypeOK
  <1>6. Copied(w)'
    BY <1>1, <1>3, <1>4 DEF Copied, KeysOf, Base, EmptyMap, IInv, TypeOK
  <1>7. \A u \in Writers : u = w
    BY OneWriter
  <1> QED
    BY <1>3, <1>5, <1>6, <1>7 DEF IInv, WriterInv

LEMMA CopyOldInv ==
  ASSUME IInv, NEW w \in Writers, NEW k \in Keys, CopyOld(w, k)
  PROVE  IInv'
  <1>1. /\ wpc[w] = "old"
        /\ Private(w)
        /\ Copied(w)
        /\ old[w] = v
        /\ maps[v] \in Maps
    BY CurrentMap DEF CopyOld, IInv, WriterInv, Private
  <1>2. /\ TypeOK'
        /\ \A i \in 1 .. Len(maps) : i # cp[w] => maps'[i] = maps[i]
        /\ maps'[cp[w]] = [maps[cp[w]] EXCEPT ![k] = maps[v][k]]
    <2>1. TypeOK /\ cp[w] # 0
      BY <1>1 DEF CopyOld, IInv, Private
    <2>2. PICK val \in Values \cup {Absent} : val = maps[v][k]
      BY <1>1
    <2>3. CopyEntry(w, k, val)
      BY <1>1, <2>2 DEF CopyOld, Private
    <2> QED
      BY <2>1, <2>2, <2>3, CopyEntryType
  <1>3. /\ wpc' = wpc /\ cp' = cp /\ old' = old /\ v' = v /\ m' = m
        /\ todo'[w] = todo[w] \ {k}
        /\ maps[cp[w]] \in Maps
    BY <1>1 DEF CopyOld, CopyEntry, IInv, TypeOK, Private, readerVars
  <1>4. Private(w)'
    BY <1>1, <1>3 DEF Private
  <1>5. maps'[v] = maps[v]
    BY <1>1, <1>2 DEF Private, IInv, TypeOK
  <1>6. Copied(w)'
    BY <1>1, <1>2, <1>3, <1>5 DEF Copied
  <1>7. \A u \in Writers : u = w
    BY OneWriter
  <1> QED
    BY <1>2, <1>4, <1>6, <1>7 DEF IInv, WriterInv

LEMMA CopyPatchInv ==
  ASSUME IInv, NEW w \in Writers, NEW k \in Keys, CopyPatch(w, k)
  PROVE  IInv'
  <1>1. /\ wpc[w] = "patch"
        /\ Private(w)
        /\ Copied(w)
        /\ patch[w] \in Maps
    BY DEF CopyPatch, IInv, TypeOK, WriterInv
  <1>2. /\ TypeOK'
        /\ \A i \in 1 .. Len(maps) : i # cp[w] => maps'[i] = maps[i]
        /\ maps'[cp[w]] = [maps[cp[w]] EXCEPT ![k] = patch[w][k]]
    <2>1. TypeOK /\ cp[w] # 0
      BY <1>1 DEF CopyPatch, IInv, Private
    <2>2. PICK val \in Values \cup {Absent} : val = patch[w][k]
      BY <1>1
    <2>3. CopyEntry(w, k, val)
      BY <1>1, <2>2 DEF CopyPatch, Private
    <2> QED
      BY <2>1, <2>2, <2>3, CopyEntryType
  <1>3. /\ wpc' = wpc /\ cp' = cp /\ old' = old /\ v' = v /\ m' = m
        /\ patch' = patch
        /\ todo'[w] = todo[w] \ {k}
        /\ k \in todo[w]
        /\ maps[cp[w]] \in Maps
    BY <1>1 DEF CopyPatch, CopyEntry, IInv, TypeOK, Private, readerVars
  <1>4. Private(w)'
    BY <1>1, <1>3 DEF Private
  <1>5. maps'[v] = maps[v] /\ Base(w)' = Base(w)
    BY <1>1, <1>2, <1>3 DEF Private, Base, EmptyMap, IInv, TypeOK
  <1>6. patch[w][k] # Absent
    BY <1>1, <1>3 DEF Copied, KeysOf
  <1>7. Copied(w)'
    BY <1>1, <1>2, <1>3, <1>5, <1>6 DEF Copied, KeysOf
  <1>8. \A u \in Writers : u = w
    BY OneWriter
  <1> QED
    BY <1>2, <1>4, <1>7, <1>8 DEF IInv, WriterInv

LEMMA OldCopiedInv ==
  ASSUME IInv, NEW w \in Writers, OldCopied(w)
  PROVE  IInv'
  <1>1. KeysOf(patch[w]) \subseteq Keys
    BY DEF KeysOf
  <1>2. TypeOK'
    BY <1>1 DEF IInv, TypeOK, OldCopied, readerVars
  <1>3. Private(w) /\ Copied(w) /\ old[w] # 0
    BY DEF OldCopied, IInv, WriterInv, Private
  <1>4. Private(w)'
    BY <1>3 DEF OldCopied, Private, readerVars
  <1>5. wpc'[w] = "patch" /\ todo'[w] = KeysOf(patch[w])
    BY DEF OldCopied, IInv, TypeOK
  <1>6. \A k \in Keys : maps[cp[w]][k] = Base(w)[k]
    BY <1>3 DEF OldCopied, Copied, Base
  <1>7. Copied(w)'
    BY <1>5, <1>6 DEF OldCopied, Copied, Base, KeysOf
  <1>8. \A u \in Writers : u = w
    BY OneWriter
  <1> QED
    BY <1>2, <1>4, <1>7, <1>8 DEF IInv, WriterInv

LEMMA StoreInv ==
  ASSUME IInv, NEW w \in Writers, Store(w)
  PROVE  IInv'
  <1>1. cp[w] # 0
    BY DEF Store, IInv, WriterInv, Private
  <1>2. TypeOK'
    BY <1>1 DEF IInv, TypeOK, Store, readerVars
  <1>3. wpc'[w] = "idle"
    BY DEF Store, IInv, TypeOK
  <1>4. \A u \in Writers : u = w
    BY OneWriter
  <1> QED
    BY <1>2, <1>3, <1>4 DEF IInv, WriterInv

LEMMA ReadInv ==
  ASSUME IInv, NEW r \in Readers, Read(r)
  PROVE  IInv'
  <1>1. CASE \E k \in Keys : GetLoad(r, k)
    <2>1. PICK k \in Keys : GetLoad(r, k)
      BY <1>1
    <2>2. TypeOK'
      BY <2>1 DEF IInv, TypeOK, GetLoad, writerVars
    <2>3. ASSUME NEW w \in Writers, wpc[w] # "idle"
          PROVE  Private(w)' /\ Copied(w)'
      <3>1. Private(w) /\ Copied(w)
        BY <2>3 DEF IInv, WriterInv
      <3>2. Private(w)'
        BY <2>1, <3>1 DEF Private, GetLoad, writerVars, IInv, TypeOK
      <3>3. Copied(w)'
        BY <2>1, <3>1 DEF Copied, Base, KeysOf, GetLoad, writerVars
      <3> QED
        BY <3>2, <3>3
    <2> QED
      BY <2>1, <2>2, <2>3 DEF IInv, WriterInv, GetLoad, writerVars
  <1>2. CASE GetLookup(r)
    <2>1. maps[m[r]] \in Maps
      BY <1>2 DEF IInv, TypeOK, GetLookup
    <2>2. TypeOK'
      BY <1>2, <2>1 DEF IInv, TypeOK, GetLookup, writerVars
    <2>3. ASSUME NEW w \in Writers, wpc[w] # "idle"
          PROVE  Private(w)' /\ Copied(w)'
      <3>1. Private(w) /\ Copied(w)
        BY <2>3 DEF IInv, WriterInv
      <3>2. Private(w)'
        BY <1>2, <3>1 DEF Private, GetLookup, writerVars, IInv, TypeOK
      <3>3. Copied(w)'
        BY <1>2, <3>1 DEF Copied, Base, KeysOf, GetLookup, writerVars
      <3> QED
        BY <3>2, <3>3
    <2> QED
      BY <1>2, <2>2, <2>3 DEF IInv, WriterInv, GetLookup, writerVars
  <1> QED
    BY <1>1, <1>2 DEF Read

LEMMA NextInv == IInv /\ [Next]_vars => IInv'
  <1> SUFFICES ASSUME IInv, [Next]_vars PROVE IInv'
    OBVIOUS
  <1>1. CASE UNCHANGED vars
    BY <1>1 DEF vars, writerVars, readerVars, IInv, TypeOK, WriterInv,
                Private, Copied, Base, KeysOf
  <1>2. ASSUME NEW w \in Writers, Write(w) PROVE IInv'
    BY <1>2, UpsertManyInv, ReplaceAllInv, CopyOldInv, CopyPatchInv,
       OldCopiedInv, StoreInv DEF Write
  <1> QED
    BY <1>1, <1>2, ReadInv DEF Next

-----------------------------------------------------------------------------
(* The theorems. *)

THEOREM InvariantHolds == Spec => []IInv
  <1> QED
    BY InitInv, NextInv, PTL DEF Spec

(* The type invariant: in particular every reference names a map that has  *)
(* been allocated (in_memory.go).                                          *)
THEOREM StoreTypeCorrect == Spec => []TypeOK
  <1>1. IInv => TypeOK
    BY DEF IInv
  <1> QED
    BY <1>1, InvariantHolds, PTL

(* No entry of a map is written while readers can look into it, although   *)
(* the mutex of UpsertMany is commented out (in_memory.go).                *)
THEOREM StoreNoWriteUnderAReader == Spec => []NoWriteUnderAReader
  <1>1. IInv => NoWriteUnderAReader
    BY DEF IInv, WriterInv, Private, NoWriteUnderAReader
  <1> QED
    BY <1>1, InvariantHolds, PTL

-----------------------------------------------------------------------------
(* Refinement: what each action is in the atomic map. *)

Calls == [w \in Writers |-> CallOf(w)]
Answers == [r \in Readers |-> AnswerOf(r)]

\* The steps that callers cannot see.
Unseen == maps[v]' = maps[v] /\ Calls' = Calls /\ Answers' = Answers

LEMMA UnseenStutters == Unseen => UNCHANGED Promise!vars
  BY DEF Unseen, Promise!vars, Calls, Answers

LEMMA InitRefines == Init => Promise!Init
  BY DEF Init, Promise!Init, CallOf, AnswerOf, Promise!NoCall, EmptyMap,
         Promise!EmptyMap

\* A step that allocates a map or fills one that nobody looks into.
LEMMA AnswersStay ==
  ASSUME IInv, UNCHANGED <<v, readerVars>>,
         \A i \in 1 .. Len(maps) : i = v \/ (\E r \in Readers : i = m[r])
                                     => maps'[i] = maps[i]
  PROVE  maps[v]' = maps[v] /\ Answers' = Answers
  <1>1. v \in 1 .. Len(maps) /\ maps[v]' = maps[v]
    BY DEF IInv, TypeOK
  <1>2. ASSUME NEW r \in Readers PROVE AnswerOf(r)' = AnswerOf(r)
    <2>1. m' = m /\ key' = key /\ answer' = answer
      BY DEF readerVars
    <2>2. m[r] # 0 => maps'[m[r]] = maps[m[r]]
      BY DEF IInv, TypeOK
    <2> QED
      BY <2>1, <2>2 DEF AnswerOf
  <1> QED
    BY <1>1, <1>2 DEF Answers

LEMMA UpsertManyRefines ==
  ASSUME IInv, NEW w \in Writers, NEW p \in Maps, UpsertMany(w, p)
  PROVE  Promise!Call(w, "upsert", p)
  <1>1. \A i \in 1 .. Len(maps) : maps'[i] = maps[i]
    BY EmptyMapIsAMap DEF IInv, TypeOK, UpsertMany, Make
  <1>2. maps[v]' = maps[v] /\ Answers' = Answers
    BY <1>1, AnswersStay DEF UpsertMany, Make
  <1>3. CallOf(w).op = "none"
    BY DEF UpsertMany, Make, CallOf
  <1>4. CallOf(w)' = [op |-> "upsert", map |-> p]
    BY DEF UpsertMany, Make, CallOf, IInv, TypeOK
  <1>5. \A u \in Writers : u = w
    BY OneWriter
  <1>6. Calls' = [Calls EXCEPT ![w] = [op |-> "upsert", map |-> p]]
    BY <1>4, <1>5 DEF Calls
  <1> QED
    BY <1>2, <1>3, <1>6 DEF Promise!Call, Calls, Answers

LEMMA ReplaceAllRefines ==
  ASSUME IInv, NEW w \in Writers, NEW p \in Maps, ReplaceAll(w, p)
  PROVE  Promise!Call(w, "replace", p)
  <1>1. \A i \in 1 .. Len(maps) : maps'[i] = maps[i]
    BY EmptyMapIsAMap DEF IInv, TypeOK, ReplaceAll, Make
  <1>2. maps[v]' = maps[v] /\ Answers' = Answers
    BY <1>1, AnswersStay DEF ReplaceAll, Make
  <1>3. CallOf(w).op = "none"
    BY DEF ReplaceAll, Make, CallOf
  <1>4. CallOf(w)' = [op |-> "replace", map |-> p]
    BY DEF ReplaceAll, Make, CallOf, IInv, TypeOK
  <1>5. \A u \in Writers : u = w
    BY OneWriter
  <1>6. Calls' = [Calls EXCEPT ![w] = [op |-> "replace", map |-> p]]
    BY <1>4, <1>5 DEF Calls
  <1> QED
    BY <1>2, <1>3, <1>6 DEF Promise!Call, Calls, Answers

LEMMA CopyUnseen ==
  ASSUME IInv, NEW w \in Writers, NEW k \in Keys,
         CopyOld(w, k) \/ CopyPatch(w, k)
  PROVE  Unseen
  <1>1. Private(w)
    BY DEF CopyOld, CopyPatch, IInv, WriterInv
  <1>2. /\ \A i \in 1 .. Len(maps) : i # cp[w] => maps'[i] = maps[i]
        /\ UNCHANGED <<v, wpc, old, cp, patch, readerVars>>
    BY DEF CopyOld, CopyPatch, CopyEntry, IInv, TypeOK
  <1>3. maps[v]' = maps[v] /\ Answers' = Answers
    BY <1>1, <1>2, AnswersStay DEF Private
  <1>4. Calls' = Calls
    BY <1>2 DEF Calls, CallOf
  <1> QED
    BY <1>3, <1>4 DEF Unseen

LEMMA OldCopiedUnseen ==
  ASSUME IInv, NEW w \in Writers, OldCopied(w)
  PROVE  Unseen
  <1>1. maps' = maps /\ UNCHANGED <<v, readerVars>>
    BY DEF OldCopied
  <1>2. maps[v]' = maps[v] /\ Answers' = Answers
    BY <1>1, AnswersStay
  <1>3. CallOf(w)' = CallOf(w)
    BY DEF OldCopied, CallOf, IInv, TypeOK
  <1>4. \A u \in Writers : u = w
    BY OneWriter
  <1>5. Calls' = Calls
    BY <1>3, <1>4 DEF Calls
  <1> QED
    BY <1>2, <1>5 DEF Unseen

LEMMA StoreRefines ==
  ASSUME IInv, NEW w \in Writers, Store(w)
  PROVE  Promise!UpsertMany(w) \/ Promise!ReplaceAll(w)
  <1> DEFINE filled == maps[cp[w]]
  <1>1. /\ wpc[w] = "patch"
        /\ todo[w] = {}
        /\ cp[w] \in 1 .. Len(maps)
        /\ old[w] \in {0, v}
        /\ filled \in Maps
        /\ patch[w] \in Maps
    BY DEF Store, IInv, WriterInv, Private, TypeOK
  <1>2. \A k \in Keys :
          filled[k] = IF patch[w][k] # Absent THEN patch[w][k]
                                              ELSE Base(w)[k]
    BY <1>1 DEF IInv, WriterInv, Copied
  <1>3. maps[v]' = filled
    BY DEF Store
  <1>4. Answers' = Answers
    BY DEF Store, Answers, AnswerOf, readerVars
  <1>5. CallOf(w)' = [op |-> "none", map |-> EmptyMap]
    BY DEF Store, CallOf, IInv, TypeOK
  <1>6. \A u \in Writers : u = w
    BY OneWriter
  <1>7. Calls' = [Calls EXCEPT ![w] = Promise!NoCall]
    BY <1>5, <1>6 DEF Calls, Promise!NoCall, Promise!EmptyMap, EmptyMap
  <1>8. CASE old[w] = 0
    <2>1. filled = patch[w]
      BY <1>1, <1>2, <1>8 DEF Base, EmptyMap
    <2>2. CallOf(w) = [op |-> "replace", map |-> patch[w]]
      BY <1>1, <1>8 DEF CallOf
    <2> QED
      BY <1>3, <1>4, <1>7, <2>1, <2>2 DEF Promise!ReplaceAll, Calls, Answers
  <1>9. CASE old[w] # 0
    <2>1. filled = Promise!Patched(maps[v], patch[w])
      BY <1>1, <1>2, <1>9 DEF Base, Promise!Patched
    <2>2. CallOf(w) = [op |-> "upsert", map |-> patch[w]]
      BY <1>1, <1>9 DEF CallOf
    <2> QED
      BY <1>3, <1>4, <1>7, <2>1, <2>2 DEF Promise!UpsertMany, Calls, Answers
  <1> QED
    BY <1>8, <1>9

LEMMA GetLoadRefines ==
  ASSUME IInv, NEW r \in Readers, NEW k \in Keys, GetLoad(r, k)
  PROVE  Promise!Get(r, k)
  <1>1. maps[v]' = maps[v] /\ Calls' = Calls
    BY DEF GetLoad, writerVars, Calls, CallOf
  <1>2. AnswerOf(r)' = maps[v][k]
    BY DEF GetLoad, AnswerOf, IInv, TypeOK
  <1>3. \A q \in Readers \ {r} : AnswerOf(q)' = AnswerOf(q)
    BY DEF GetLoad, AnswerOf, IInv, TypeOK
  <1>4. Answers' = [Answers EXCEPT ![r] = maps[v][k]]
    BY <1>2, <1>3 DEF Answers
  <1> QED
    BY <1>1, <1>4 DEF Promise!Get, Calls, Answers

LEMMA GetLookupUnseen ==
  ASSUME IInv, NEW r \in Readers, GetLookup(r)
  PROVE  Unseen
  <1>1. maps[v]' = maps[v] /\ Calls' = Calls
    BY DEF GetLookup, writerVars, Calls, CallOf
  <1>2. \A q \in Readers : AnswerOf(q)' = AnswerOf(q)
    BY DEF GetLookup, AnswerOf, IInv, TypeOK
  <1> QED
    BY <1>1, <1>2 DEF Unseen, Answers

LEMMA StepRefines == IInv /\ [Next]_vars => [Promise!Next]_(Promise!vars)
  <1> SUFFICES ASSUME IInv, [Next]_vars
               PROVE  Promise!Next \/ UNCHANGED Promise!vars
    OBVIOUS
  <1>1. CASE UNCHANGED vars
    <2>1. Unseen
      BY <1>1 DEF vars, writerVars, readerVars, Unseen, Calls, Answers,
                  CallOf, AnswerOf
    <2> QED
      BY <2>1, UnseenStutters
  <1>2. ASSUME NEW w \in Writers, Write(w)
        PROVE  Promise!Next \/ UNCHANGED Promise!vars
    <2>1. CASE \E p \in Maps : UpsertMany(w, p) \/ ReplaceAll(w, p)
      BY <2>1, UpsertManyRefines, ReplaceAllRefines
         DEF Promise!Next, Promise!Maps
    <2>2. CASE \E k \in Keys : CopyOld(w, k) \/ CopyPatch(w, k)
      BY <2>2, CopyUnseen, UnseenStutters
    <2>3. CASE OldCopied(w)
      BY <2>3, OldCopiedUnseen, UnseenStutters
    <2>4. CASE Store(w)
      BY <2>4, StoreRefines DEF Promise!Next
    <2> QED
      BY <1>2, <2>1, <2>2, <2>3, <2>4 DEF Write
  <1>3. ASSUME NEW r \in Readers, Read(r)
        PROVE  Promise!Next \/ UNCHANGED Promise!vars
    <2>1. CASE \E k \in Keys : GetLoad(r, k)
      BY <2>1, GetLoadRefines DEF Promise!Next
    <2>2. CASE GetLookup(r)
      BY <2>2, GetLookupUnseen, UnseenStutters
    <2> QED
      BY <1>3, <2>1, <2>2 DEF Read
  <1> QED
    BY <1>1, <1>2, <1>3 DEF Next

(* The store of in_memory.go is an atomic map for one writer and any       *)
(* readers: updates take effect whole, in order and none is lost, and a    *)
(* Get answers from the map of one instant within its call.                *)
THEOREM StoreImplementsAtomicMap == Spec => ImplementsAtomicMap
  <1> QED
    BY InitRefines, StepRefines, InvariantHolds, PTL
       DEF Spec, ImplementsAtomicMap, Promise!Spec
=============================================================================
