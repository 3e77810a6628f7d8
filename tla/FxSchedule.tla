----------------------------- MODULE FxSchedule -----------------------------
(***************************************************************************)
(* The schedule of an FX source: an update when the service starts and one *)
(* at 20:00 of the source's own time zone every day.  The wall clock is a  *)
(* day and whether its 20:00 has passed, both in that zone.  Requests      *)
(* read what the updates have stored.                                      *)
(***************************************************************************)
EXTENDS Integers

\* A bug of the kind the checks must notice: always tomorrow.
WrongAlwaysTomorrow(today, evening) == today + 1

\* The day of the next 20:00: today's, unless it has passed.
nextRunTime(today, evening) == IF evening THEN today + 1 ELSE today

\* The timer set for the 20:00 of day run has expired.
Expired(run, today, evening) == today > run \/ (today = run /\ evening)

------------------------------------------------------------------------------
(* The lookup.  A transaction is looked up under its day in UTC, the stores  *)
(* have the days of Moscow (UTC+3) and Almaty (UTC+5).                       *)

\* The UTC days at some time of the local day today.
UtcDays(today) == {today - 1, today}

\* GetUSDtoFiatRate finds a rate; without one it does not ask for an update.
HasRate(store, day) == day \in DOMAIN store
=============================================================================
