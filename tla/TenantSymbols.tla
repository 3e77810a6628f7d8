--------------------------- MODULE TenantSymbols ---------------------------
(***************************************************************************)
(* The symbols a tenant names itself: the repository of tenant_symbols     *)
(* under concurrent callers, whose statements may fail or take effect      *)
(* without the caller knowing, and the server's UpsertTenantSymbol, whose  *)
(* use case stores nothing yet.  Each statement is atomic.                 *)
(*                                                                         *)
(* Tenants, sources, symbols and coins are numbers: 0 is the nil UUID or   *)
(* the empty string, and symbols have the order the database gives them.   *)
(***************************************************************************)
EXTENDS Integers, FiniteSets, Sequences, SequencesExt

CONSTANTS
  Callers,
  Rows,       \* what may be asked for, with parts that are 0 too
  MaxInserts  \* bound on the rows created

ASSUME RowsAssumption == Rows \subseteq [tenant : Nat, source : Nat, symbol : Nat, coin : Nat]
ASSUME MaxInsertsAssumption == MaxInserts \in Nat

VARIABLES
  table,    \* the rows of tenant_symbols
  inserts,  \* the rows created so far
  call,     \* call[c]: what the caller c asks or has asked last
  reply,    \* what it was told: "" while it waits
  list,     \* the list it was given
  ever,     \* for checking: the rows stored at some moment of its call,
  always,   \* the rows stored at every moment of its call,
  owed      \* and the rows created whose deletion nobody has been told of

vars == <<table, inserts, call, reply, list, ever, always, owed>>

KeyOf(r) == [r EXCEPT !.coin = 0]
SourceOf(r) == [r EXCEPT !.symbol = 0, !.coin = 0]
Keys == {KeyOf(r) : r \in Rows}
Sources == {SourceOf(r) : r \in Rows}
Symbols == {r.symbol : r \in Rows} \ {0}

NoCall == [op |-> "none"]

Init ==
  /\ table = {}
  /\ inserts = 0
  /\ call = [c \in Callers |-> NoCall]
  /\ reply = [c \in Callers |-> "none"]
  /\ list = [c \in Callers |-> <<>>]
  /\ ever = [c \in Callers |-> {}]
  /\ always = [c \in Callers |-> {}]
  /\ owed = [k \in Keys |-> 0]

------------------------------------------------------------------------------
(* What a statement says and finds.                                        *)

\* A bug of the kind the checks must notice: the coin is not looked at.
WrongValid(op, r) ==
  /\ r.tenant # 0 /\ r.source # 0
  /\ op \in {"upsert", "delete"} => r.symbol # 0

\* The arguments the repository sends to the database.
Valid(op, r) ==
  /\ r.tenant # 0 /\ r.source # 0
  /\ op \in {"upsert", "delete"} => r.symbol # 0
  /\ op = "upsert" => r.coin # 0

\* INSERT ... ON CONFLICT (tenant_id, source, symbol) DO UPDATE SET coin_id
UpsertTenantSymbol(r) == {s \in table : KeyOf(s) # KeyOf(r)} \cup {r}

\* DELETE ... WHERE tenant_id, source and symbol are those asked
Deleted(r) == {s \in table : KeyOf(s) = KeyOf(r)}

\* A bug of the kind the checks must notice: the tenant is not looked at.
WrongListTenantSymbolsBySource(r) == {s \in table : s.source = r.source}

\* SELECT ... WHERE tenant_id and source are those asked
ListTenantSymbolsBySource(r) ==
  {s \in table : s.tenant = r.tenant /\ s.source = r.source}

\* ... AND symbol = ANY(those asked): a symbol asked twice is found once.
GetTenantSymbols(r, symbols) ==
  {s \in ListTenantSymbolsBySource(r) : s.symbol \in symbols}

\* ORDER BY symbol ASC
BySymbol(rows) == \A i, j \in DOMAIN rows : i < j => rows[i].symbol <= rows[j].symbol

\* A bug of the kind the checks must notice: no row is taken for a success.
WrongDeleteReply(rowsAffected) == "ok"

DeleteReply(rowsAffected) == IF rowsAffected = 0 THEN "error" ELSE "ok"

------------------------------------------------------------------------------
(* The repository.                                                         *)

\* A caller asks.  An argument that is missing is an error, and no symbols are
\* an empty list, without a statement.
Ask(c, op, r, symbols) ==
  /\ reply[c] # ""
  /\ LET fine == Valid(op, r)
     IN /\ call' = [call EXCEPT ![c] = IF fine THEN [op |-> op, row |-> r, symbols |-> symbols]
                                               ELSE NoCall]
        /\ reply' = [reply EXCEPT ![c] = IF ~fine THEN "error"
                                         ELSE IF op = "list" /\ symbols = {} THEN "ok" ELSE ""]
        /\ ever' = [ever EXCEPT ![c] = IF fine THEN table ELSE {}]
        /\ always' = [always EXCEPT ![c] = IF fine THEN table ELSE {}]
  /\ list' = [list EXCEPT ![c] = <<>>]
  /\ UNCHANGED <<table, inserts, owed>>

Upsert(c) == \E r \in Rows : Ask(c, "upsert", r, {})
Delete(c) == \E k \in Keys : Ask(c, "delete", k, {})
GetList(c) == \E o \in Sources, symbols \in SUBSET Symbols : Ask(c, "list", o, symbols)
GetListBySource(c) == \E o \in Sources : Ask(c, "listBySource", o, {})

\* The call ends with a table and an answer, under the eyes of the other calls.
Ends(c, rows, what, answer) ==
  LET seen(e) == reply[e] = ""
      failed(e) == e = c /\ what # "ok"
  IN /\ table' = rows
     /\ call' = [call EXCEPT ![c] = IF what = "ok" THEN @ ELSE NoCall]
     /\ reply' = [reply EXCEPT ![c] = what]
     /\ list' = [list EXCEPT ![c] = answer]
     /\ ever' = [e \in Callers |-> IF failed(e) THEN {}
                                   ELSE IF seen(e) THEN ever[e] \cup rows ELSE ever[e]]
     /\ always' = [e \in Callers |-> IF failed(e) THEN {}
                                     ELSE IF seen(e) THEN always[e] \cap rows ELSE always[e]]

\* The row is stored, and the caller told so unless the reply is lost.
StoreRow(c) ==
  /\ reply[c] = "" /\ call[c].op = "upsert"
  /\ LET r == call[c].row
         new == Deleted(r) = {}
     IN /\ inserts < MaxInserts \/ ~new
        /\ inserts' = IF new THEN inserts + 1 ELSE inserts
        /\ owed' = IF new THEN [owed EXCEPT ![KeyOf(r)] = @ + 1] ELSE owed
        /\ \E what \in {"ok", "error"} : Ends(c, UpsertTenantSymbol(r), what, <<>>)

\* The row is deleted, and the caller told whether there was one unless the
\* reply is lost.
DeleteRow(c) ==
  /\ reply[c] = "" /\ call[c].op = "delete"
  /\ LET gone == Deleted(call[c].row)
     IN \E what \in {DeleteReply(Cardinality(gone)), "error"} :
          /\ Ends(c, table \ gone, what, <<>>)
          /\ owed' = IF what = "ok" THEN [owed EXCEPT ![call[c].row] = @ - 1] ELSE owed
  /\ UNCHANGED inserts

\* The rows are read: the ones of some symbols in any order.
ReadRows(c) ==
  /\ reply[c] = ""
  /\ \/ /\ call[c].op = "list"
        /\ \E rows \in SetToSeqs(GetTenantSymbols(call[c].row, call[c].symbols)) :
             Ends(c, table, "ok", rows)
     \/ /\ call[c].op = "listBySource"
        /\ \E rows \in SetToSeqs(ListTenantSymbolsBySource(call[c].row)) :
             BySymbol(rows) /\ Ends(c, table, "ok", rows)
  /\ UNCHANGED <<inserts, owed>>

\* The statement fails, or a row cannot be read.
QueryFails(c) ==
  /\ reply[c] = ""
  /\ Ends(c, table, "error", <<>>)
  /\ UNCHANGED <<inserts, owed>>

------------------------------------------------------------------------------
(* The server.                                                             *)

\* The use case is a stub that reports success; the server does not look.
TenantSymbolUCUpsert == "ok"

ServerReply(result) == "Unimplemented"

\* Everything but a tenant that is not a UUID is passed on, to no effect.
ServerUpsert(c) ==
  /\ reply[c] # ""
  /\ \E r \in Rows, what \in {"InvalidArgument", ServerReply(TenantSymbolUCUpsert)} :
       /\ call' = [call EXCEPT ![c] = IF what = "ok" THEN [op |-> "server", row |-> r]
                                                    ELSE NoCall]
       /\ reply' = [reply EXCEPT ![c] = what]
  /\ list' = [list EXCEPT ![c] = <<>>]
  /\ ever' = [ever EXCEPT ![c] = {}]
  /\ always' = [always EXCEPT ![c] = {}]
  /\ UNCHANGED <<table, inserts, owed>>

Next == \E c \in Callers :
  \/ Upsert(c) \/ Delete(c) \/ GetList(c) \/ GetListBySource(c)
  \/ StoreRow(c) \/ DeleteRow(c) \/ ReadRows(c) \/ QueryFails(c)
  \/ ServerUpsert(c)

Spec == Init /\ [][Next]_vars

------------------------------------------------------------------------------
(* Properties.                                                             *)

\* The variables' types: the table has one coin for a symbol, and no row with an
\* empty part.
TypeOK ==
  /\ table \subseteq {r \in Rows : 0 \notin {r.tenant, r.source, r.symbol, r.coin}}
  /\ \A r, s \in table : KeyOf(r) = KeyOf(s) => r = s
  /\ inserts \in 0 .. MaxInserts
  /\ \A c \in Callers :
       /\ call[c].op \in {"none", "upsert", "delete", "list", "listBySource", "server"}
       /\ reply[c] \in {"", "none", "ok", "error", "InvalidArgument", "Unimplemented"}
       /\ always[c] \subseteq ever[c] /\ ever[c] \subseteq Rows

\* Who is told that a symbol is stored has had it stored during the call, by
\* whatever path it asked; and no more deletions are reported than rows were
\* created and are gone, however the callers compete and replies are lost.
ToldAsDone ==
  /\ \A c \in Callers : reply[c] = "ok" /\ call[c].op \in {"upsert", "server"} =>
       call[c].row \in ever[c]
  /\ \A k \in Keys : owed[k] >= Cardinality({r \in table : KeyOf(r) = k})

\* A list has no row of another tenant, source or symbol, each row once and only
\* if it was stored during the call, and every row that was stored for all of
\* it; the list of a source is in the order of its symbols.
ListsExact ==
  \A c \in Callers : reply[c] = "ok" /\ call[c].op \in {"list", "listBySource"} =>
    LET q == call[c]
        asked == {r \in Rows : /\ r.tenant = q.row.tenant /\ r.source = q.row.source
                               /\ q.op = "list" => r.symbol \in q.symbols}
        l == list[c]
    IN /\ always[c] \cap asked \subseteq ToSet(l)
       /\ ToSet(l) \subseteq ever[c] \cap asked
       /\ \A i, j \in DOMAIN l : i < j =>
            IF q.op = "list" THEN l[i].symbol # l[j].symbol
                              ELSE l[i].symbol < l[j].symbol
=============================================================================
