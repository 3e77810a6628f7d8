------------------------------ MODULE PriceBook ------------------------------
(***************************************************************************)
(* What the stored prices promise to everyone who values transactions with *)
(* them: the book only ever gets better.  A price once recorded for a      *)
(* bucket stays, except that one of a strictly finer granularity may       *)
(* replace it; and the book changes by whole improvements, each of them    *)
(* for a single coin and at a single granularity.                          *)
(***************************************************************************)
EXTENDS Integers

VARIABLE book    \* <<coin, bucket start>> -> [gran, price], on recorded keys

\* The keys a step gives a row they did not have.
Changed == {k \in DOMAIN book' : k \notin DOMAIN book \/ book'[k] # book[k]}

Init == DOMAIN book = {}

Improve ==
  /\ DOMAIN book \subseteq DOMAIN book'
  /\ \A k \in Changed \cap DOMAIN book : book'[k].gran < book[k].gran
  /\ \A k, l \in Changed : /\ k[1] = l[1]
                           /\ book'[k].gran = book'[l].gran

Spec == Init /\ [][Improve]_book
=============================================================================
