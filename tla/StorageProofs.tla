--------------------------- MODULE StorageProofs ---------------------------
(***************************************************************************)
(* Theorems about the two stores that any number of clients share and that *)
(* have a specification of their own: the tenant symbols in PostgreSQL,    *)
(* for any callers and rows, and the price cache in Redis, for any         *)
(* clients, keys, ttls and jitter.                                         *)
(***************************************************************************)
EXTENDS TenantSymbols, PriceCache, FiniteSetTheorems, TLAPS

------------------------------------------------------------------------------
(* Tenant symbols: rows and lists.                                         *)

\* A sequence of a finite set has each element, once.
LEMMA SeqsOfASet ==
  ASSUME NEW S, IsFiniteSet(S), NEW s \in SetToSeqs(S)
  PROVE  /\ ToSet(s) = S
         /\ \A i, j \in DOMAIN s : i # j => s[i] # s[j]
<1> DEFINE D == 1 .. Cardinality(S)
<1>1. /\ s \in [D -> S]
      /\ \A i, j \in D : i # j => s[i] # s[j]
  BY DEF SetToSeqs
<1>2. Cardinality(S) \in Nat
  BY FS_CardinalityType
<1>3. Cardinality(D) = Cardinality(S)
  BY <1>2, FS_Interval
<1>4. s \in Injection(D, S)
  BY <1>1 DEF Injection, IsInjective
<1>5. s \in Surjection(D, S)
  BY <1>3, <1>4, FS_Injection
<1>6. \A x \in S : \E i \in D : s[i] = x
  BY <1>5 DEF Surjection
<1> QED
  BY <1>1, <1>6 DEF ToSet

\* The key of a row is its own key, and the parts are numbers.
LEMMA KeyParts ==
  ASSUME NEW r \in Rows
  PROVE  /\ KeyOf(r) \in Keys /\ KeyOf(KeyOf(r)) = KeyOf(r)
         /\ r.tenant \in Nat /\ r.source \in Nat /\ r.symbol \in Nat /\ r.coin \in Nat
<1>1. r \in [tenant : Nat, source : Nat, symbol : Nat, coin : Nat]
  BY RowsAssumption
<1> QED
  BY <1>1 DEF KeyOf, Keys

\* The key is the tenant, the source and the symbol.
LEMMA SameKey ==
  ASSUME NEW r \in Rows, NEW s \in Rows
  PROVE  KeyOf(r) = KeyOf(s) <=> /\ r.tenant = s.tenant /\ r.source = s.source
                                 /\ r.symbol = s.symbol
<1>1. /\ r \in [tenant : Nat, source : Nat, symbol : Nat, coin : Nat]
      /\ s \in [tenant : Nat, source : Nat, symbol : Nat, coin : Nat]
  BY RowsAssumption
<1>2. \A t \in {r, s} : KeyOf(t) = [tenant |-> t.tenant, source |-> t.source,
                                   symbol |-> t.symbol, coin |-> 0]
  BY <1>1 DEF KeyOf
<1> QED
  BY <1>2

------------------------------------------------------------------------------
(* Tenant symbols: the invariant.                                          *)

\* A row that may be stored.
Full == {r \in Rows : 0 \notin {r.tenant, r.source, r.symbol, r.coin}}

\* The table has the key it is declared with.
IsSymbolTable(t) ==
  /\ t \subseteq Full /\ IsFiniteSet(t)
  /\ \A r, s \in t : KeyOf(r) = KeyOf(s) => r = s

\* For a row that is stored a deletion is owed.
Owes == /\ owed \in [Keys -> Nat]
        /\ \A r \in table : owed[KeyOf(r)] >= 1

\* A call is about what was asked for.
CallInv(c) ==
  /\ call[c].op \in {"none", "upsert", "delete", "list", "listBySource"}
  /\ call[c].op = "upsert" => call[c].row \in Rows /\ Valid("upsert", call[c].row)
  /\ call[c].op = "delete" => call[c].row \in Keys
  /\ reply[c] \in {"", "none", "ok", "error", "InvalidArgument", "Unimplemented"}

\* What a call has seen of the table up to now.
SeenInv(c) ==
  /\ always[c] \subseteq ever[c] /\ ever[c] \subseteq Rows
  /\ reply[c] = "" => always[c] \subseteq table /\ table \subseteq ever[c]

\* The rows a list is asked for, and what is promised of it.
AskedFor(q) == {r \in Rows : /\ r.tenant = q.row.tenant /\ r.source = q.row.source
                             /\ q.op = "list" => r.symbol \in q.symbols}
Exact(c) ==
  /\ always[c] \cap AskedFor(call[c]) \subseteq ToSet(list[c])
  /\ ToSet(list[c]) \subseteq ever[c] \cap AskedFor(call[c])
  /\ \A i, j \in DOMAIN list[c] : i < j =>
       IF call[c].op = "list" THEN list[c][i].symbol # list[c][j].symbol
                              ELSE list[c][i].symbol < list[c][j].symbol

\* Who was told of a success has had it.
AnswerInv(c) == reply[c] = "ok" =>
  /\ call[c].op = "upsert" => call[c].row \in ever[c]
  /\ call[c].op \in {"list", "listBySource"} => Exact(c)

\* Every caller has a call.
PerCaller ==
  /\ DOMAIN call = Callers /\ DOMAIN reply = Callers /\ DOMAIN list = Callers
  /\ DOMAIN ever = Callers /\ DOMAIN always = Callers

\* All of it: for the table, what is owed and the calls.
SymbolsInv ==
  /\ IsSymbolTable(table)
  /\ inserts \in 0 .. MaxInserts
  /\ Owes
  /\ PerCaller
  /\ \A c \in Callers : CallInv(c) /\ SeenInv(c) /\ AnswerInv(c)

\* The empty table fits, and nobody has asked.
LEMMA SymbolsInit == Init => SymbolsInv
<1> SUFFICES ASSUME Init PROVE SymbolsInv
  OBVIOUS
<1>1. IsSymbolTable(table) /\ Owes
  BY FS_EmptySet DEF Init, IsSymbolTable, Owes, Full
<1>2. inserts \in 0 .. MaxInserts
  BY MaxInsertsAssumption DEF Init
<1> QED
  BY <1>1, <1>2 DEF Init, SymbolsInv, PerCaller, CallInv, SeenInv, AnswerInv, NoCall

\* A caller that does nothing keeps what it was told; one that waits sees the table.
LEMMA SymbolsOthers ==
  ASSUME NEW c \in Callers, CallInv(c), SeenInv(c), AnswerInv(c),
         IsSymbolTable(table'),
         call'[c] = call[c], reply'[c] = reply[c], list'[c] = list[c],
         \/ table' = table /\ ever'[c] = ever[c] /\ always'[c] = always[c]
         \/ /\ reply[c] = ""
            /\ ever'[c] = ever[c] \cup table' /\ always'[c] = always[c] \cap table'
         \/ reply[c] # "" /\ ever'[c] = ever[c] /\ always'[c] = always[c]
  PROVE  CallInv(c)' /\ SeenInv(c)' /\ AnswerInv(c)'
<1>1. CallInv(c)'
  BY DEF CallInv, Valid
<1>2. SeenInv(c)'
  BY DEF SeenInv, IsSymbolTable, Full
<1>3. AnswerInv(c)'
  BY DEF AnswerInv, Exact
<1> QED
  BY <1>1, <1>2, <1>3

\* Nobody is promised anything by an error.
LEMMA NothingAsked ==
  ASSUME NEW c \in Callers, call'[c] = NoCall, ever'[c] = {}, always'[c] = {},
         reply'[c] \in {"error", "InvalidArgument", "Unimplemented"}
  PROVE  CallInv(c)' /\ SeenInv(c)' /\ AnswerInv(c)'
<1>1. call'[c].op = "none"
  BY DEF NoCall
<1>2. CallInv(c)'
  BY <1>1 DEF CallInv
<1>3. SeenInv(c)'
  BY DEF SeenInv
<1>4. AnswerInv(c)'
  BY DEF AnswerInv
<1> QED
  BY <1>2, <1>3, <1>4

\* A statement that finds or leaves these rows ends its call with an answer that
\* is true of them.
TrueOf(q, rows, answer) ==
  /\ q.op = "upsert" => q.row \in rows
  /\ q.op \in {"list", "listBySource"} =>
       /\ ToSet(answer) = rows \cap AskedFor(q)
       /\ \A i, j \in DOMAIN answer : i < j =>
            IF q.op = "list" THEN answer[i].symbol # answer[j].symbol
                              ELSE answer[i].symbol < answer[j].symbol

LEMMA EndsKeeps ==
  ASSUME SymbolsInv, NEW c \in Callers, reply[c] = "",
         NEW rows, IsSymbolTable(rows), NEW answer,
         NEW what \in {"ok", "error"}, Ends(c, rows, what, answer),
         what = "ok" => TrueOf(call[c], rows, answer)
  PROVE  /\ IsSymbolTable(table')
         /\ PerCaller'
         /\ \A d \in Callers : CallInv(d)' /\ SeenInv(d)' /\ AnswerInv(d)'
<1>1. table' = rows
  BY DEF Ends
<1>2. PerCaller'
  BY DEF Ends, SymbolsInv, PerCaller
<1>3. ASSUME NEW d \in Callers, d # c PROVE CallInv(d)' /\ SeenInv(d)' /\ AnswerInv(d)'
  <2>1. call'[d] = call[d] /\ reply'[d] = reply[d] /\ list'[d] = list[d]
    BY <1>3 DEF Ends, SymbolsInv, PerCaller
  <2>2. /\ ever'[d] = IF reply[d] = "" THEN ever[d] \cup rows ELSE ever[d]
        /\ always'[d] = IF reply[d] = "" THEN always[d] \cap rows ELSE always[d]
    BY <1>3 DEF Ends
  <2> QED
    BY <1>1, <2>1, <2>2, SymbolsOthers DEF SymbolsInv
<1>4. CASE what = "ok"
  <2>1. /\ call'[c] = call[c] /\ reply'[c] = "ok" /\ list'[c] = answer
        /\ ever'[c] = ever[c] \cup rows /\ always'[c] = always[c] \cap rows
    BY <1>4 DEF Ends, SymbolsInv, PerCaller
  <2>2. CallInv(c) /\ SeenInv(c)
    BY DEF SymbolsInv
  <2>3. CallInv(c)'
    BY <2>1, <2>2 DEF CallInv, Valid
  <2>4. SeenInv(c)'
    BY <2>1, <2>2 DEF SeenInv, IsSymbolTable, Full
  <2>5. AnswerInv(c)'
    BY <1>4, <2>1 DEF AnswerInv, Exact, TrueOf
  <2> QED
    BY <1>1, <1>2, <1>3, <2>3, <2>4, <2>5
<1>5. CASE what = "error"
  <2>1. /\ call'[c] = NoCall /\ reply'[c] = "error"
        /\ ever'[c] = {} /\ always'[c] = {}
    BY <1>5 DEF Ends, SymbolsInv, PerCaller
  <2>2. CallInv(c)' /\ SeenInv(c)' /\ AnswerInv(c)'
    BY <2>1, NothingAsked
  <2> QED
    BY <1>1, <1>2, <1>3, <2>2
<1> QED
  BY <1>4, <1>5

\* What is asked for is taken down, and nothing has been seen of the table but
\* what it is.
LEMMA AskNext ==
  ASSUME SymbolsInv, NEW c \in Callers, NEW op, NEW r, NEW symbols, Ask(c, op, r, symbols),
         op \in {"upsert", "delete", "list", "listBySource"},
         op = "upsert" => r \in Rows,
         op = "delete" => r \in Keys
  PROVE  SymbolsInv'
<1>1. UNCHANGED <<table, inserts, owed>> /\ reply[c] # ""
  BY DEF Ask
<1>2. IsSymbolTable(table)' /\ inserts' \in 0 .. MaxInserts /\ Owes'
  BY <1>1 DEF SymbolsInv, IsSymbolTable, Owes
<1>3. PerCaller'
  BY DEF Ask, SymbolsInv, PerCaller
<1>4. ASSUME NEW d \in Callers, d # c PROVE CallInv(d)' /\ SeenInv(d)' /\ AnswerInv(d)'
  <2>1. /\ call'[d] = call[d] /\ reply'[d] = reply[d] /\ list'[d] = list[d]
        /\ ever'[d] = ever[d] /\ always'[d] = always[d]
    BY <1>4 DEF Ask, SymbolsInv, PerCaller
  <2> QED
    BY <1>1, <1>2, <2>1, SymbolsOthers DEF SymbolsInv
<1>5. CASE Valid(op, r)
  <2>1. /\ reply'[c] = IF op = "list" /\ symbols = {} THEN "ok" ELSE ""
        /\ ever'[c] = table /\ always'[c] = table
    BY <1>5 DEF Ask, SymbolsInv, PerCaller
  <2>2. /\ call'[c].op = op /\ call'[c].row = r /\ call'[c].symbols = symbols
        /\ reply'[c] \in {"", "ok"}
    <3>1. call'[c] = [op |-> op, row |-> r, symbols |-> symbols]
      BY <1>5 DEF Ask, SymbolsInv, PerCaller
    <3>2. call'[c].op = op /\ call'[c].row = r /\ call'[c].symbols = symbols
      BY ONLY <3>1
    <3>3. reply'[c] \in {"", "ok"}
      BY <2>1
    <3> QED
      BY <3>2, <3>3
  <2>3. CallInv(c)'
    BY <1>5, <2>2 DEF CallInv, Valid
  <2>4. SeenInv(c)'
    BY <1>1, <2>1 DEF SeenInv, SymbolsInv, IsSymbolTable, Full
  <2>5. AnswerInv(c)'
    <3> list'[c] = <<>>
      BY DEF Ask, SymbolsInv, PerCaller
    <3>1. DOMAIN list'[c] = {}
      OBVIOUS
    <3>2. ToSet(list'[c]) = {}
      BY <3>1 DEF ToSet
    <3>3. reply'[c] = "ok" => op = "list" /\ symbols = {}
      BY <2>1
    <3>4. reply'[c] = "ok" => AskedFor(call'[c]) = {}
      BY <2>2, <3>3 DEF AskedFor
    <3> QED
      BY <2>2, <3>1, <3>2, <3>3, <3>4 DEF AnswerInv, Exact
  <2> QED
    BY <1>2, <1>3, <1>4, <2>3, <2>4, <2>5 DEF SymbolsInv
<1>6. CASE ~ Valid(op, r)
  <2>1. /\ call'[c] = NoCall /\ reply'[c] = "error"
        /\ ever'[c] = {} /\ always'[c] = {}
    BY <1>6 DEF Ask, SymbolsInv, PerCaller
  <2>2. CallInv(c)' /\ SeenInv(c)' /\ AnswerInv(c)'
    BY <2>1, NothingAsked
  <2> QED
    BY <1>2, <1>3, <1>4, <2>2 DEF SymbolsInv
<1> QED
  BY <1>5, <1>6

\* The upsert leaves one row for its key, the delete none.
LEMMA UpsertedTable ==
  ASSUME IsSymbolTable(table), NEW r \in Full
  PROVE  IsSymbolTable(UpsertTenantSymbol(r))
<1>1. IsFiniteSet(UpsertTenantSymbol(r))
  <2>1. {s \in table : KeyOf(s) # KeyOf(r)} \in SUBSET table
    OBVIOUS
  <2>2. IsFiniteSet({s \in table : KeyOf(s) # KeyOf(r)})
    BY <2>1, FS_Subset DEF IsSymbolTable
  <2> QED
    BY <2>2, FS_AddElement DEF UpsertTenantSymbol
<1> QED
  BY <1>1 DEF IsSymbolTable, UpsertTenantSymbol

\* Fewer rows are a table, too.
LEMMA ReducedTable ==
  ASSUME IsSymbolTable(table), NEW t, t \subseteq table
  PROVE  IsSymbolTable(t)
BY FS_Subset DEF IsSymbolTable

\* A stored row makes a deletion owed, if it is a new one.
LEMMA StoreRowNext ==
  ASSUME SymbolsInv, NEW c \in Callers, StoreRow(c)
  PROVE  SymbolsInv'
<1> DEFINE r == call[c].row
           t == UpsertTenantSymbol(r)
<1>1. r \in Full /\ r \in Rows /\ KeyOf(r) \in Keys
  BY KeyParts DEF StoreRow, SymbolsInv, CallInv, Full, Valid
<1>2. IsSymbolTable(t)
  BY <1>1, UpsertedTable DEF SymbolsInv
<1>3. PICK what \in {"ok", "error"} : Ends(c, t, what, <<>>)
  BY DEF StoreRow
<1>4. TrueOf(call[c], t, <<>>)
  BY DEF TrueOf, StoreRow, UpsertTenantSymbol
<1>5. /\ IsSymbolTable(table')
      /\ PerCaller'
      /\ \A d \in Callers : CallInv(d)' /\ SeenInv(d)' /\ AnswerInv(d)'
  BY <1>2, <1>3, <1>4, EndsKeeps DEF StoreRow
<1>6. inserts' \in 0 .. MaxInserts
  <2>1. inserts \in Int /\ inserts \in 0 .. MaxInserts
    BY DEF SymbolsInv
  <2>2. \/ inserts' = inserts
        \/ inserts < MaxInserts /\ inserts' = inserts + 1
    BY <2>1, MaxInsertsAssumption DEF StoreRow
  <2> QED
    BY <2>1, <2>2, MaxInsertsAssumption
<1>7. Owes'
  <2>1. table' = t
    BY <1>3 DEF Ends
  <2>2. CASE Deleted(r) = {}
    <3>1. owed' = [owed EXCEPT ![KeyOf(r)] = @ + 1]
      BY <2>2 DEF StoreRow
    <3> QED
      BY <1>1, <2>1, <3>1, KeyParts DEF Owes, SymbolsInv, UpsertTenantSymbol, IsSymbolTable, Full
  <2>3. CASE Deleted(r) # {}
    <3>1. owed' = owed
      BY <2>3 DEF StoreRow
    <3>2. PICK s \in table : KeyOf(s) = KeyOf(r)
      BY <2>3 DEF Deleted
    <3>3. owed[KeyOf(r)] >= 1
      BY <3>2 DEF Owes, SymbolsInv
    <3> QED
      BY <2>1, <3>1, <3>3 DEF Owes, SymbolsInv, UpsertTenantSymbol
  <2> QED
    BY <2>2, <2>3
<1> QED
  BY <1>5, <1>6, <1>7 DEF SymbolsInv

\* A deletion that is reported was owed: there was a row.
LEMMA DeleteRowNext ==
  ASSUME SymbolsInv, NEW c \in Callers, DeleteRow(c)
  PROVE  SymbolsInv'
<1> DEFINE k == call[c].row
           gone == Deleted(k)
           t == table \ gone
<1>1. k \in Keys /\ KeyOf(k) = k
  <2>1. k \in Keys
    BY DEF DeleteRow, SymbolsInv, CallInv
  <2> QED
    BY <2>1, KeyParts DEF Keys
<1>2. IsSymbolTable(table) /\ IsSymbolTable(t)
  BY ReducedTable DEF SymbolsInv
<1>3. PICK what \in {DeleteReply(Cardinality(gone)), "error"} :
        /\ Ends(c, t, what, <<>>)
        /\ owed' = IF what = "ok" THEN [owed EXCEPT ![k] = @ - 1] ELSE owed
  BY DEF DeleteRow
<1>4. what \in {"ok", "error"}
  BY <1>3 DEF DeleteReply
<1>5. TrueOf(call[c], t, <<>>)
  BY DEF TrueOf, DeleteRow
<1>6. /\ IsSymbolTable(table')
      /\ PerCaller'
      /\ \A d \in Callers : CallInv(d)' /\ SeenInv(d)' /\ AnswerInv(d)'
  BY <1>2, <1>3, <1>4, <1>5, EndsKeeps DEF DeleteRow
<1>7. Owes'
  <2>1. table' = t /\ \A r \in t : KeyOf(r) # k
    BY <1>1, <1>3 DEF Ends, Deleted
  <2>2. CASE what # "ok"
    BY <1>3, <2>1, <2>2 DEF Owes, SymbolsInv
  <2>3. CASE what = "ok"
    <3>1. Cardinality(gone) # 0
      BY <1>3, <2>3 DEF DeleteReply
    <3>2. PICK s \in table : KeyOf(s) = k
      BY <1>1, <3>1, FS_EmptySet DEF Deleted
    <3>3. owed[k] >= 1
      BY <3>2 DEF Owes, SymbolsInv
    <3> QED
      BY <1>1, <1>3, <2>1, <2>3, <3>3 DEF Owes, SymbolsInv
  <2> QED
    BY <2>2, <2>3
<1>8. inserts' \in 0 .. MaxInserts
  BY DEF DeleteRow, SymbolsInv
<1> QED
  BY <1>6, <1>7, <1>8 DEF SymbolsInv

\* What a read finds are the rows it asks for.
LEMMA FoundRows ==
  ASSUME IsSymbolTable(table), NEW q
  PROVE  /\ q.op = "list" => GetTenantSymbols(q.row, q.symbols) = table \cap AskedFor(q)
         /\ q.op = "listBySource" => ListTenantSymbolsBySource(q.row) = table \cap AskedFor(q)
BY DEF GetTenantSymbols, ListTenantSymbolsBySource, AskedFor, IsSymbolTable, Full

\* The list is what was found: no symbol twice, because the key has one row, and so
\* in order if the database gives an order at all.
LEMMA ReadRowsNext ==
  ASSUME SymbolsInv, NEW c \in Callers, ReadRows(c)
  PROVE  SymbolsInv'
<1> DEFINE q == call[c]
           S == table \cap AskedFor(q)
<1>1. IsSymbolTable(table) /\ IsSymbolTable(S)
  BY ReducedTable DEF SymbolsInv
<1>2. q.op \in {"list", "listBySource"} /\ reply[c] = ""
  BY DEF ReadRows
<1>3. PICK rows \in SetToSeqs(S) :
        /\ Ends(c, table, "ok", rows)
        /\ q.op = "listBySource" => BySymbol(rows)
  BY <1>1, FoundRows DEF ReadRows
<1> HIDE DEF q, S
<1>4. /\ ToSet(rows) = S
      /\ \A i, j \in DOMAIN rows : i # j => rows[i] # rows[j]
  BY <1>1, SeqsOfASet DEF IsSymbolTable
<1>5. DOMAIN rows \subseteq Int
  BY DEF SetToSeqs
<1>6. ASSUME NEW i \in DOMAIN rows, NEW j \in DOMAIN rows, i < j
      PROVE  IF q.op = "list" THEN rows[i].symbol # rows[j].symbol
                              ELSE rows[i].symbol < rows[j].symbol
  <2>1. rows[i] \in S /\ rows[j] \in S
    BY <1>4 DEF ToSet
  <2>2. rows[i] \in Rows /\ rows[j] \in Rows
    BY <2>1 DEF AskedFor, S
  <2>3. i # j
    BY <1>5, <1>6
  <2>4. KeyOf(rows[i]) # KeyOf(rows[j])
    BY <1>1, <1>4, <2>1, <2>3 DEF IsSymbolTable
  <2>5. rows[i].symbol # rows[j].symbol
    BY <2>1, <2>2, <2>4, SameKey DEF AskedFor, S
  <2>6. q.op = "listBySource" => rows[i].symbol <= rows[j].symbol
    <3>1. BySymbol(rows) => rows[i].symbol <= rows[j].symbol
      BY ONLY <1>5, <1>6 DEF BySymbol
    <3> QED
      BY <1>3, <3>1
  <2>7. rows[i].symbol \in Nat /\ rows[j].symbol \in Nat
    BY <2>2, KeyParts
  <2>8. CASE q.op = "list"
    BY <2>5, <2>8
  <2>9. CASE q.op = "listBySource"
    BY <2>5, <2>6, <2>7, <2>9
  <2> QED
    BY <1>2, <2>8, <2>9
<1>7. TrueOf(q, table, rows)
  <2>1. ToSet(rows) = table \cap AskedFor(q)
    BY <1>4 DEF S
  <2>2. q.op # "upsert"
    BY <1>2
  <2> QED
    BY <1>6, <2>1, <2>2 DEF TrueOf
<1>8. /\ IsSymbolTable(table')
      /\ PerCaller'
      /\ \A d \in Callers : CallInv(d)' /\ SeenInv(d)' /\ AnswerInv(d)'
  BY <1>1, <1>2, <1>3, <1>7, EndsKeeps DEF q
<1>9. table' = table
  BY <1>3 DEF Ends
<1>10. owed' = owed /\ inserts' = inserts
  BY DEF ReadRows
<1> QED
  BY <1>8, <1>9, <1>10 DEF SymbolsInv, Owes

\* A failed statement leaves the table.
LEMMA QueryFailsNext ==
  ASSUME SymbolsInv, NEW c \in Callers, QueryFails(c)
  PROVE  SymbolsInv'
<1>1. reply[c] = "" /\ Ends(c, table, "error", <<>>) /\ UNCHANGED <<inserts, owed>>
  BY DEF QueryFails
<1>2. table' = table
  BY <1>1 DEF Ends
<1>3. IsSymbolTable(table)
  BY DEF SymbolsInv
<1>4. /\ IsSymbolTable(table')
      /\ PerCaller'
      /\ \A d \in Callers : CallInv(d)' /\ SeenInv(d)' /\ AnswerInv(d)'
  BY <1>1, <1>3, EndsKeeps
<1> QED
  BY <1>1, <1>2, <1>4 DEF SymbolsInv, Owes

\* The server asks nothing of the repository, and tells nobody of a success.
LEMMA ServerUpsertNext ==
  ASSUME SymbolsInv, NEW c \in Callers, ServerUpsert(c)
  PROVE  SymbolsInv'
<1>1. /\ reply[c] # "" /\ UNCHANGED <<table, inserts, owed>>
      /\ PerCaller'
  BY DEF ServerUpsert, SymbolsInv, PerCaller
<1>2. ASSUME NEW d \in Callers, d # c PROVE CallInv(d)' /\ SeenInv(d)' /\ AnswerInv(d)'
  <2>1. /\ call'[d] = call[d] /\ reply'[d] = reply[d] /\ list'[d] = list[d]
        /\ ever'[d] = ever[d] /\ always'[d] = always[d]
    BY <1>2 DEF ServerUpsert, SymbolsInv, PerCaller
  <2> QED
    BY <1>1, <2>1, SymbolsOthers DEF SymbolsInv
<1>3. /\ call'[c] = NoCall /\ ever'[c] = {} /\ always'[c] = {}
      /\ reply'[c] \in {"InvalidArgument", "Unimplemented"}
  BY DEF ServerUpsert, SymbolsInv, PerCaller, ServerReply
<1>4. CallInv(c)' /\ SeenInv(c)' /\ AnswerInv(c)'
  BY <1>3, NothingAsked
<1> QED
  BY <1>1, <1>2, <1>4 DEF SymbolsInv, Owes, IsSymbolTable

\* Every step of a caller keeps the invariant.
LEMMA SymbolsNext ==
  ASSUME SymbolsInv, [Next]_vars
  PROVE  SymbolsInv'
<1>1. CASE UNCHANGED vars
  <2>1. UNCHANGED <<table, inserts, call, reply, list, ever, always, owed>>
    BY <1>1 DEF vars
  <2>2. \A c \in Callers : CallInv(c)' /\ SeenInv(c)' /\ AnswerInv(c)'
    BY <2>1, SymbolsOthers DEF SymbolsInv
  <2> QED
    BY <2>1, <2>2 DEF SymbolsInv, PerCaller, Owes, IsSymbolTable
<1>2. ASSUME NEW c \in Callers,
             Upsert(c) \/ Delete(c) \/ GetList(c) \/ GetListBySource(c)
      PROVE  SymbolsInv'
  <2>1. CASE Upsert(c)
    BY <2>1, AskNext DEF Upsert
  <2>2. CASE Delete(c)
    BY <2>2, AskNext DEF Delete
  <2>3. CASE GetList(c)
    BY <2>3, AskNext DEF GetList
  <2>4. CASE GetListBySource(c)
    BY <2>4, AskNext DEF GetListBySource
  <2> QED
    BY <1>2, <2>1, <2>2, <2>3, <2>4
<1> QED
  BY <1>1, <1>2, StoreRowNext, DeleteRowNext, ReadRowsNext, QueryFailsNext, ServerUpsertNext
  DEF Next

LEMMA SymbolsInvariant == Spec => []SymbolsInv
BY SymbolsInit, SymbolsNext, PTL DEF Spec

\* The variables keep their types; the table has one coin for a symbol and no row
\* with an empty part (UpsertTenantSymbol, the primary key).
THEOREM SymbolsTypeCorrect == Spec => []TypeOK
<1>1. SymbolsInv => TypeOK
  BY DEF SymbolsInv, IsSymbolTable, Full, CallInv, SeenInv, TypeOK
<1> QED
  BY <1>1, SymbolsInvariant, PTL

\* Who is told that a symbol is stored has had it stored during the call, and no
\* more deletions are reported than rows were created and are gone (Upsert and
\* Delete of the repository, UpsertTenantSymbol of the server).
THEOREM SymbolsToldAsDone == Spec => []ToldAsDone
<1>1. ASSUME SymbolsInv PROVE ToldAsDone
  <2>1. ASSUME NEW c \in Callers, reply[c] = "ok", call[c].op \in {"upsert", "server"}
        PROVE  call[c].row \in ever[c]
    BY <1>1, <2>1 DEF SymbolsInv, CallInv, AnswerInv
  <2>2. ASSUME NEW k \in Keys
        PROVE  owed[k] >= Cardinality({r \in table : KeyOf(r) = k})
    <3> DEFINE stored == {r \in table : KeyOf(r) = k}
    <3>1. CASE stored = {}
      <4>1. Cardinality(stored) = 0
        BY <3>1, FS_EmptySet
      <4>2. owed[k] \in Nat
        BY <1>1 DEF SymbolsInv, Owes
      <4> QED
        BY <4>1, <4>2
    <3>2. CASE stored # {}
      <4>1. PICK r \in table : KeyOf(r) = k
        BY <3>2
      <4>2. stored = {r}
        BY <1>1, <4>1 DEF SymbolsInv, IsSymbolTable
      <4>3. Cardinality(stored) = 1
        BY <4>2, FS_Singleton
      <4> QED
        BY <1>1, <4>1, <4>3 DEF SymbolsInv, Owes
    <3> QED
      BY <3>1, <3>2
  <2> QED
    BY <2>1, <2>2 DEF ToldAsDone
<1> QED
  BY <1>1, SymbolsInvariant, PTL

\* GetList and GetListBySource answer with rows that were asked for and stored during
\* the call, each once, with all that were stored throughout, and in order.
THEOREM SymbolsListsExact == Spec => []ListsExact
<1>1. SymbolsInv => ListsExact
  BY DEF SymbolsInv, AnswerInv, Exact, AskedFor, ListsExact
<1> QED
  BY <1>1, SymbolsInvariant, PTL

------------------------------------------------------------------------------
(* The price cache: the invariant.                                         *)

\* An entry is not older than its time, and what decodes was Set for its key.
EntryInv(k) ==
  /\ entry[k] \in [text : Texts \cup {NoPrice}, ttl : Nat, left : Nat, age : Nat]
  /\ entry[k].left > 0 => entry[k].left + entry[k].age <= entry[k].ttl + MostJitter
  /\ entry[k].ttl > 0 => entry[k].left > 0
  /\ entry[k] # NoEntry => entry[k].text \in given[k] \cup {Junk}

\* A command that may still be executed is one a client has asked for.
CommandInv(c) ==
  /\ pc[c] \in {"get", "drop", "delete"} => \E k \in PriceKeys : arg[c] = <<k>>
  /\ pc[c] = "set" =>
       \E k \in PriceKeys : \E p \in given[k], t \in Ttls :
         \E ttl \in ttlWithJitter(t) : arg[c] = <<k, p, t, ttl>>

\* What a client was given is a good hit.
HitInv(c) == found[c] # NoHit =>
  /\ found[c] \in [key : PriceKeys, price : Prices, ttl : Nat, age : Nat]
  /\ found[c].price \in given[found[c].key]
  /\ found[c].ttl > 0 => found[c].age < found[c].ttl + MostJitter

\* All of it: for the entries, the commands under way and the hits given.
CacheInv ==
  /\ DOMAIN entry = PriceKeys
  /\ given \in [PriceKeys -> SUBSET Prices]
  /\ pc \in [Clients -> {"idle", "get", "drop", "set", "delete"}]
  /\ DOMAIN arg = Clients /\ DOMAIN found = Clients
  /\ \A k \in PriceKeys : EntryInv(k)
  /\ \A c \in Clients : CommandInv(c) /\ HitInv(c)

\* The jitter makes a ttl longer by what it adds at the most, and never shorter.
LEMMA JitterBound ==
  ASSUME NEW t \in Ttls, NEW ttl \in ttlWithJitter(t)
  PROVE  t \in Nat /\ ttl \in Nat /\ t <= ttl /\ ttl <= t + MostJitter
BY TimeAssumption DEF ttlWithJitter, MostJitter

\* The empty cache fits.
LEMMA CacheInvInit == CacheInit => CacheInv
BY DEF CacheInit, CacheInv, EntryInv, CommandInv, HitInv, NoEntry

\* Time ages the entries and ends them in time.
LEMMA EntryAges ==
  ASSUME NEW k \in PriceKeys, EntryInv(k),
         entry'[k] = Aged(entry[k]), given' = given
  PROVE  EntryInv(k)'
<1> DEFINE e == entry[k]
           f == Aged(e)
<1>1. e \in [text : Texts \cup {NoPrice}, ttl : Nat, left : Nat, age : Nat]
  BY DEF EntryInv
<1>2. NoEntry = [text |-> NoPrice, ttl |-> 0, left |-> 0, age |-> 0]
  BY DEF NoEntry
<1>3. MostJitter \in Nat /\ MaxAge \in Nat
  BY TimeAssumption DEF MostJitter
<1>4. CASE e.left = 1
  <2>1. f = NoEntry
    BY <1>4 DEF Aged
  <2> QED
    BY <1>2, <2>1 DEF EntryInv
<1>5. CASE e.left # 1
  <2>1. f = [text |-> e.text, ttl |-> e.ttl,
             left |-> IF e.left = 0 THEN 0 ELSE e.left - 1,
             age |-> IF e.age < MaxAge /\ e # NoEntry THEN e.age + 1 ELSE e.age]
    BY <1>1, <1>5 DEF Aged
  <2>2. entry'[k] = f
    OBVIOUS
  <2> HIDE DEF f
  <2>3. f \in [text : Texts \cup {NoPrice}, ttl : Nat, left : Nat, age : Nat]
    BY <1>1, <1>3, <1>5, <2>1
  <2>4. f.left > 0 => f.left + f.age <= f.ttl + MostJitter
    BY <1>1, <1>3, <1>5, <2>1 DEF EntryInv
  <2>5. f # NoEntry => e # NoEntry
    BY <1>2, <2>1
  <2>6. f.ttl > 0 => f.left > 0
    BY <1>1, <1>5, <2>1 DEF EntryInv
  <2>7. f.text = e.text
    BY <2>1
  <2> QED
    BY <2>2, <2>3, <2>4, <2>5, <2>6, <2>7 DEF EntryInv, NoEntry, MostJitter
<1> QED
  BY <1>4, <1>5

\* The absence of an entry is as good as any.
LEMMA NoEntryFits ==
  ASSUME NEW k \in PriceKeys, entry'[k] = NoEntry
  PROVE  EntryInv(k)'
BY DEF EntryInv, NoEntry

\* What one client asks, does and is given leaves the others' calls as they are,
\* and no price ever given is forgotten.
LEMMA CacheOthers ==
  ASSUME CacheInv, NEW c \in Clients,
         pc'[c] = pc[c], arg'[c] = arg[c], found'[c] = found[c],
         \A k \in PriceKeys : given[k] \subseteq given'[k]
  PROVE  CommandInv(c)' /\ HitInv(c)'
<1>1. CommandInv(c) /\ HitInv(c)
  BY DEF CacheInv
<1>2. CommandInv(c)'
  BY <1>1 DEF CommandInv
<1>3. HitInv(c)'
  BY <1>1 DEF HitInv, NoHit
<1> QED
  BY <1>2, <1>3

\* An entry that is left alone stays good.
LEMMA EntryKept ==
  ASSUME NEW k \in PriceKeys, EntryInv(k), entry'[k] = entry[k], given[k] \subseteq given'[k]
  PROVE  EntryInv(k)'
BY DEF EntryInv, NoEntry

\* A step of one client keeps what is known of the entries and of all calls.
LEMMA ClientNext ==
  ASSUME CacheInv, NEW c \in Clients,
         \/ BeginGet(c) \/ Get(c) \/ BeginSet(c) \/ Set(c)
         \/ BeginDelete(c) \/ Del(c) \/ CommandFails(c)
  PROVE  CacheInv'
<1> DEFINE Others == \A d \in Clients \ {c} :
             pc'[d] = pc[d] /\ arg'[d] = arg[d] /\ found'[d] = found[d]
           Kept == entry' = entry /\ given' = given
<1> USE DEF Begin, Returns, Answered
<1>1. CASE BeginGet(c)
  <2>1. Kept /\ Others /\ CommandInv(c)' /\ HitInv(c)' 
    BY <1>1 DEF BeginGet, CacheInv, CommandInv, HitInv
  <2> QED
    BY <1>1, <2>1, EntryKept, CacheOthers DEF BeginGet, CacheInv
<1>2. CASE Get(c)
  <2>1. Kept /\ Others 
    BY <1>2 DEF Get, CacheInv
  <2>2. PICK k \in PriceKeys : arg[c] = <<k>>
    BY <1>2 DEF Get, CacheInv, CommandInv
  <2>3. EntryInv(k) /\ k = arg[c][1]
    BY <2>2 DEF CacheInv
  <2>4. CommandInv(c)'
    BY <1>2, <2>1, <2>2 DEF Get, CacheInv, CommandInv
  <2>5. CASE entry[k] = NoEntry \/ ~ Decodes(entry[k].text)
    <3>1. found'[c] = found[c]
      BY <1>2, <2>3, <2>5 DEF Get
    <3>2. HitInv(c)'
      BY <2>1, <3>1 DEF CacheInv, HitInv, NoHit
    <3> QED
      BY <1>2, <2>1, <2>4, <3>2, EntryKept, CacheOthers DEF Get, CacheInv
  <2>6. CASE entry[k] # NoEntry /\ Decodes(entry[k].text)
    <3>1. found'[c] = [key |-> k, price |-> entry[k].text, ttl |-> entry[k].ttl, age |-> entry[k].age]
      BY <1>2, <2>3, <2>6 DEF Get, CacheInv
    <3>2. entry[k].text \in given[k] /\ given[k] \subseteq Prices
      BY <2>3, <2>6 DEF EntryInv, Decodes, CacheInv
    <3>3. entry[k].ttl > 0 => entry[k].age < entry[k].ttl + MostJitter
      <4>1. entry[k].left \in Nat /\ entry[k].age \in Nat /\ entry[k].ttl \in Nat
        BY <2>3 DEF EntryInv
      <4> QED
        BY <2>3, <4>1, TimeAssumption DEF EntryInv, MostJitter
    <3>4. HitInv(c)'
      BY <2>1, <2>3, <3>1, <3>2, <3>3 DEF HitInv, EntryInv, MostJitter
    <3> QED
      BY <1>2, <2>1, <2>4, <3>4, EntryKept, CacheOthers DEF Get, CacheInv
  <2> QED
    BY <2>5, <2>6
<1>3. CASE BeginSet(c)
  <2>1. PICK k \in PriceKeys, p \in Prices, t \in Ttls : \E ttl \in ttlWithJitter(t) :
          /\ Begin(c, "set", <<k, p, t, ttl>>)
          /\ given' = [given EXCEPT ![k] = @ \cup {p}]
          /\ entry' = entry
    BY <1>3 DEF BeginSet
  <2>2. /\ given' \in [PriceKeys -> SUBSET Prices]
        /\ p \in given'[k]
        /\ \A j \in PriceKeys : given[j] \subseteq given'[j]
    BY <2>1 DEF CacheInv
  <2>3. PICK ttl \in ttlWithJitter(t) : Begin(c, "set", <<k, p, t, ttl>>)
    BY <2>1
  <2>4. Others
    BY <2>3 DEF CacheInv
  <2>5. CommandInv(c)'
    <3>1. pc'[c] = "set" /\ arg'[c] = <<k, p, t, ttl>>
      BY <2>3 DEF CacheInv
    <3> HIDE DEF Begin
    <3>2. \E a \in PriceKeys : \E b \in given'[a], u \in Ttls :
            \E l \in ttlWithJitter(u) : arg'[c] = <<a, b, u, l>>
      BY <2>2, <3>1
    <3> QED
      BY <3>1, <3>2 DEF CommandInv, ttlWithJitter
  <2>6. HitInv(c)'
    BY <2>3 DEF CacheInv, HitInv, NoHit
  <2>7. /\ DOMAIN entry' = PriceKeys /\ DOMAIN arg' = Clients /\ DOMAIN found' = Clients
        /\ pc' \in [Clients -> {"idle", "get", "drop", "set", "delete"}]
    BY <2>1, <2>3 DEF CacheInv
  <2>8. \A j \in PriceKeys : EntryInv(j)'
    BY <2>1, <2>2, EntryKept DEF CacheInv
  <2> QED
    BY <2>2, <2>4, <2>5, <2>6, <2>7, <2>8, CacheOthers DEF CacheInv
<1>4. CASE Set(c)
  <2>1. PICK k \in PriceKeys : \E p \in given[k], t \in Ttls :
          \E ttl \in ttlWithJitter(t) : arg[c] = <<k, p, t, ttl>>
    BY <1>4 DEF Set, CacheInv, CommandInv
  <2>2. PICK p \in given[k], t \in Ttls : \E ttl \in ttlWithJitter(t) :
          arg[c] = <<k, p, t, ttl>>
    BY <2>1
  <2>3. PICK ttl \in ttlWithJitter(t) : arg[c] = <<k, p, t, ttl>>
    BY <2>2
  <2>4. /\ entry' = [entry EXCEPT ![k] = [text |-> p, ttl |-> t, left |-> ttl, age |-> 0]]
        /\ given' = given /\ found' = found
    BY <1>4, <2>3 DEF Set
  <2>5. EntryInv(k)'
    <3>1. entry'[k] = [text |-> p, ttl |-> t, left |-> ttl, age |-> 0]
      BY <2>4 DEF CacheInv
    <3>2. t \in Nat /\ ttl \in Nat /\ t <= ttl /\ ttl <= t + MostJitter
      BY JitterBound
    <3>3. p \in Texts /\ p \in given'[k]
      BY <2>4 DEF CacheInv, Texts
    <3> QED
      BY <3>1, <3>2, <3>3 DEF EntryInv, MostJitter
  <2>6. \A j \in PriceKeys : EntryInv(j)'
    BY <2>4, <2>5, EntryKept DEF CacheInv
  <2>7. Others /\ CommandInv(c)'
    BY <1>4 DEF Set, CacheInv, CommandInv
  <2>8. HitInv(c)'
    BY <2>4 DEF CacheInv, HitInv, NoHit
  <2>9. /\ DOMAIN entry' = PriceKeys /\ given' \in [PriceKeys -> SUBSET Prices]
        /\ pc' \in [Clients -> {"idle", "get", "drop", "set", "delete"}]
        /\ DOMAIN arg' = Clients /\ DOMAIN found' = Clients
    BY <1>4, <2>4 DEF Set, CacheInv
  <2> QED
    BY <2>4, <2>6, <2>7, <2>8, <2>9, CacheOthers DEF CacheInv
<1>5. CASE BeginDelete(c)
  <2>1. Kept /\ Others /\ CommandInv(c)' /\ HitInv(c)' 
    BY <1>5 DEF BeginDelete, CacheInv, CommandInv, HitInv
  <2> QED
    BY <1>5, <2>1, EntryKept, CacheOthers DEF BeginDelete, CacheInv
<1>6. CASE Del(c)
  <2>1. PICK k \in PriceKeys : arg[c] = <<k>>
    BY <1>6 DEF Del, CacheInv, CommandInv
  <2>2. entry' = [entry EXCEPT ![k] = NoEntry] /\ given' = given /\ found' = found
    BY <1>6, <2>1 DEF Del
  <2>3. \A j \in PriceKeys : EntryInv(j)'
    BY <2>2, EntryKept, NoEntryFits DEF CacheInv
  <2>4. Others /\ CommandInv(c)'
    BY <1>6 DEF Del, CacheInv, CommandInv
  <2>5. HitInv(c)'
    BY <2>2 DEF CacheInv, HitInv, NoHit
  <2> QED
    BY <1>6, <2>2, <2>3, <2>4, <2>5, CacheOthers DEF Del, CacheInv
<1>7. CASE CommandFails(c)
  <2>1. Kept /\ Others /\ CommandInv(c)' /\ HitInv(c)' 
    BY <1>7 DEF CommandFails, CacheInv, CommandInv, HitInv
  <2> QED
    BY <1>7, <2>1, EntryKept, CacheOthers DEF CommandFails, CacheInv
<1> QED
  BY <1>1, <1>2, <1>3, <1>4, <1>5, <1>6, <1>7

\* Every step of a client, of time or of another writer keeps the invariant.
LEMMA CacheInvNext ==
  ASSUME CacheInv, [CacheNext]_cacheVars
  PROVE  CacheInv'
<1>1. CASE Tick
  <2>1. /\ entry' = [k \in PriceKeys |-> Aged(entry[k])]
        /\ UNCHANGED <<pc, arg, found, given>>
    BY <1>1 DEF Tick
  <2>2. \A k \in PriceKeys : EntryInv(k)'
    BY <2>1, EntryAges DEF CacheInv
  <2> QED
    BY <2>1, <2>2, CacheOthers DEF CacheInv
<1>2. ASSUME NEW k \in PriceKeys, Spoil(k) PROVE CacheInv'
  <2> DEFINE junk == [NoEntry EXCEPT !.text = Junk]
  <2>1. entry' = [entry EXCEPT ![k] = junk] /\ UNCHANGED <<pc, arg, found, given>>
    BY <1>2 DEF Spoil
  <2>2. EntryInv(k)'
    <3>1. junk = [text |-> Junk, ttl |-> 0, left |-> 0, age |-> 0]
      BY DEF NoEntry
    <3>2. entry'[k] = junk
      BY <2>1 DEF CacheInv
    <3> QED
      BY <3>1, <3>2 DEF EntryInv, Texts
  <2>3. \A j \in PriceKeys : EntryInv(j)'
    BY <2>1, <2>2, EntryKept DEF CacheInv
  <2> QED
    BY <2>1, <2>3, CacheOthers DEF CacheInv
<1>3. CASE UNCHANGED cacheVars
  <2>1. UNCHANGED <<entry, pc, arg, found, given>>
    BY <1>3 DEF cacheVars
  <2> QED
    BY <2>1, EntryKept, CacheOthers DEF CacheInv
<1> QED
  BY <1>1, <1>2, <1>3, ClientNext DEF CacheNext

LEMMA CacheInvariant == CacheSpec => []CacheInv
BY CacheInvInit, CacheInvNext, PTL DEF CacheSpec

\* The variables of the cache keep their types, and no entry has more time left than
\* its ttl and what ttlWithJitter adds at the most.
THEOREM CacheTypeCorrect == CacheSpec => []CacheTypeOK
<1>1. CacheInv => CacheTypeOK
  BY DEF CacheInv, EntryInv, HitInv, CacheTypeOK, Texts, NoEntry
<1> QED
  BY <1>1, CacheInvariant, PTL

\* What Get answers as a hit was Set for this very key by some client, and is not
\* older than its ttl and the jitter, whatever was spoilt, deleted or sent again.
THEOREM CacheHitsAreGood == CacheSpec => []HitsAreGood
<1>1. CacheInv => HitsAreGood
  BY DEF CacheInv, HitInv, HitsAreGood
<1> QED
  BY <1>1, CacheInvariant, PTL
=============================================================================
