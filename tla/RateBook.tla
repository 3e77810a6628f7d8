------------------------------ MODULE RateBook ------------------------------
(***************************************************************************)
(* What an FX source promises to those who read its rates while it updates *)
(* them.  A book of rates grows by days at its end, it never has a hole,   *)
(* and a later day never has an earlier rate.  A rate is abstracted to the *)
(* day it is the rate of.                                                  *)
(*                                                                         *)
(* What has been read stays true as long as the process lives, so that two *)
(* valuations of a transaction agree; but a source whose bank answers for  *)
(* single days may fill a day with a copy of an older rate for the time    *)
(* being, which gives way to a later one.                                  *)
(***************************************************************************)
EXTENDS Integers

CONSTANT CopiesGiveWay    \* whether it is such a source

VARIABLE rates            \* the rates by day, on the days that have one

Init == DOMAIN rates = {}

\* No rate is from the future of its day.
InTime(book) == \A x \in DOMAIN book : book[x] <= x

\* Between two days every day has a rate, and not an older one.
Ordered(book) ==
  \A x, y \in DOMAIN book : x <= y => /\ x .. y \subseteq DOMAIN book
                                      /\ book[x] <= book[y]

\* What was stored stays, but for copies of older rates.
Kept(book, next) ==
  \A x \in DOMAIN book :
    /\ x \in DOMAIN next
    /\ \/ next[x] = book[x]
       \/ CopiesGiveWay /\ book[x] < x /\ book[x] < next[x]

\* What is new comes after it.
Appended(book, next) ==
  \A x \in DOMAIN book, y \in DOMAIN next \ DOMAIN book : x < y

Update == /\ InTime(rates')
          /\ Ordered(rates')
          /\ Kept(rates, rates')
          /\ Appended(rates, rates')

\* A new process starts without any rates.
Restart == DOMAIN rates' = {}

Spec == Init /\ [][Update \/ Restart]_rates
=============================================================================
