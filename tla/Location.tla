------------------------------ MODULE Location ------------------------------
(***************************************************************************)
(* LocationService: where she is, the trip she is on, and her visits.       *)
(*                                                                         *)
(* A trip ends lazily: whoever asks next settles it when it is due.  Each  *)
(* write is a transaction of its own, so an operation is the sequence of   *)
(* the worlds it leaves behind; a crash keeps a prefix of it.              *)
(***************************************************************************)
EXTENDS Naturals, Sequences

CONSTANTS
  Places,   \* life_locations
  Home      \* the place with the key home

None == "none"

ASSUME LocationConstants == Home \in Places /\ None \notin Places

VARIABLES
  place,    \* durable: life_location_state
  travel,   \* durable: travel_state, with what it is for; to is None: no trip
  visits,   \* durable: open life_location_visits of each place
  exists    \* durable: active life_locations

locationVars == <<place, travel, visits, exists>>

NoTravel == [to |-> None, due |-> FALSE, act |-> None, plan |-> None]
OnTrip(w) == w.travel.to # None

\* seedBuiltins(): she starts at home.
LocationInit ==
  /\ place = Home /\ travel = NoTravel /\ exists = Places
  /\ visits = [l \in Places |-> IF l = Home THEN 1 ELSE 0]

After(w, writes) == IF writes = <<>> THEN w ELSE writes[Len(writes)]

\* settleTravelIfDue(): state, visit, and only then the end of the trip.
Arrival(w) ==
  IF ~w.travel.due THEN <<>>
  ELSE LET there == [w EXCEPT !.place = w.travel.to]
           seen  == [there EXCEPT !.visits[w.travel.to] = @ + 1]
       IN <<there, seen, [seen EXCEPT !.travel = NoTravel]>>

Settled(w) == After(w, Arrival(w))

Trip(to, for) == [to |-> to, due |-> FALSE, act |-> for.act, plan |-> for.plan]

Departure_Unclosed(w, to, for) == <<[w EXCEPT !.travel = Trip(to, for)]>>
\* startTravel(): the visit ends, the trip begins.
Departure(w, to, for) ==
  LET left == [w EXCEPT !.visits[w.place] = 0]
  IN <<left, [left EXCEPT !.travel = Trip(to, for)]>>

\* onActivityResolved(): the selector has found a place, or none.
Going(w, selected, for) ==
  IF selected \in {None, w.place} THEN <<>> ELSE Departure(w, selected, for)

\* scoreLocationCandidates(): a fitting place if there is one; none when every
\* score is below zero, which weather, hours and recent visits may cause.
Selectable(w, fits) ==
  {None} \cup IF fits \cap w.exists # {} THEN fits \cap w.exists ELSE w.exists

\* override(): the admin moves her at once.
Overridden(w, l) ==
  LET left == [w EXCEPT !.visits[w.place] = 0]
      free == [left EXCEPT !.travel = NoTravel]
      there == [free EXCEPT !.place = l]
  IN <<left, free, there, [there EXCEPT !.visits[l] = @ + 1]>>

\* current(): none at a place that was deleted.
IsHere(w) == w.place \in w.exists

\* normalizeLegacyData() at boot.  The key home is looked up among the deleted
\* places too, so that a deleted home is still where she is put.
Normalized(w) ==
  LET put == IF IsHere(w) THEN w ELSE [w EXCEPT !.place = Home]
  IN IF {put.travel.to, put.place} \subseteq put.exists THEN put
     ELSE [put EXCEPT !.travel = NoTravel]
===============================================================================
