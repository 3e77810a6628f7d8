----------------------------- MODULE PriceTable -----------------------------
(***************************************************************************)
(* The table historical_prices (primary key: coin and bucket start) and    *)
(* the statements the repository runs on it.  The table is a function on   *)
(* the keys that have a row; a row is a granularity and a price.  Each     *)
(* operator is one SQL statement, which PostgreSQL runs atomically.        *)
(***************************************************************************)
EXTENDS Integers, Sequences

CONSTANT NULL    \* the NULL of the LEFT JOIN: no row for this key

\* Bugs of the kind the checks must notice: WHERE written with <=, forgotten
\* altogether, and a join that drops the keys without a row.
WrongFinerOrEqual(new, old) == new.gran <= old.gran
WrongFinerNever(new, old) == TRUE
WrongInnerJoin(table, keys) ==
  LET found == SelectSeq(keys, LAMBDA k : k \in DOMAIN table)
  IN  [i \in 1 .. Len(found) |-> table[found[i]]]

\* A new row for a key that has one wins only if it is strictly finer
\* (ON CONFLICT ... DO UPDATE ... WHERE).
Finer(new, old) == new.gran < old.gran

\* INSERT of a batch of rows with distinct keys, finer rows replacing
\* coarser ones and all the other existing rows left as they are.
UpsertHistoricalPricesBatch(table, rows) ==
  [k \in DOMAIN table \cup DOMAIN rows |->
     IF /\ k \in DOMAIN rows
        /\ k \in DOMAIN table => Finer(rows[k], table[k])
     THEN rows[k]
     ELSE table[k]]

\* The row of every key, in the order of the keys (LEFT JOIN ... ORDER BY ord).
GetHistoricalPricesBatch(table, keys) ==
  [i \in 1 .. Len(keys) |->
     IF keys[i] \in DOMAIN table THEN table[keys[i]] ELSE NULL]
=============================================================================
