-------------------------------- MODULE Life --------------------------------
(***************************************************************************)
(* LifeSimEngine: what she is doing, over where she is.                     *)
(*                                                                         *)
(* A tick ends an activity, starts a plan that is due or another activity, *)
(* and sends her on a trip when the activity fits another place; the       *)
(* activity waits in the row of the trip and is begun on arrival.  Ticks   *)
(* and requests do not interleave, but a tick is a dozen transactions: a   *)
(* crash may fall between any two of them.                                 *)
(*                                                                         *)
(* Which activity is chosen (vitals, scores, themes) and when are left     *)
(* open.  "sleep" stands for the routine's sleep: it needs no fitting      *)
(* place, is looked at anew by each tick, and has no outcome.              *)
(***************************************************************************)
EXTENDS Location

CONSTANTS
  Activities,  \* the activity library
  Fits,        \* the places of an activity's locationAffinity
  Plans,       \* rows of life_plans
  MaxShocks    \* bound: crashes and interventions of the admin

ASSUME LifeConstants ==
  /\ Fits \in [Activities -> SUBSET Places] /\ MaxShocks \in Nat
  /\ {None, "sleep", "travel"} \cap Activities = {} /\ None \notin Plans

VARIABLES
  life,     \* durable: life_state, the one row that says "now"
  plans,    \* durable: life_plans
  told,     \* durable: activity.finished events of each plan
  touched,  \* history: plans the admin has changed
  dropped,  \* history: plans lost with a trip that was called off, or by a crash
  torn,     \* history: a crash has cut a tick, and she has not begun anything since
  shocks

lifeVars == <<life, plans, told>>
history == <<touched, dropped, torn, shocks>>
vars == <<locationVars, lifeVars, history>>

NoRow == [doing |-> None, plan |-> None, to |-> None, next |-> None,
          nextPlan |-> None, over |-> TRUE]

Row(act, p) == [NoRow EXCEPT !.doing = act, !.plan = p, !.over = FALSE]
RoadRow(to, act, p) ==
  [NoRow EXCEPT !.doing = "travel", !.to = to, !.next = act, !.nextPlan = p,
                !.over = FALSE]

World == [place |-> place, travel |-> travel, visits |-> visits, exists |-> exists,
          life |-> life, plans |-> plans, told |-> told]

Commit(w) ==
  /\ place' = w.place /\ travel' = w.travel /\ visits' = w.visits
  /\ exists' = w.exists /\ life' = w.life /\ plans' = w.plans /\ told' = w.told

Init ==
  /\ LocationInit
  /\ life = NoRow
  /\ plans = [p \in Plans |-> [status |-> None, start |-> "ahead"]]
  /\ told = [p \in Plans |-> 0]
  /\ touched = {} /\ dropped = {} /\ torn = FALSE /\ shocks = 0

Carried(w) == {w.life.plan, w.life.nextPlan} \ {None}

-------------------------------------------------------------------------------
(***************************************************************************)
(* The writes of LifeSimEngine.tick()                                      *)
(***************************************************************************)
Unfit(w, act) ==
  /\ act \in Activities /\ Fits[act] # {}
  /\ IsHere(w) /\ w.place \notin Fits[act]

\* pendingFromCurrent(): a trip's own row holds neither activity nor plan.
Pending_Planless(row) == [act |-> row.doing, plan |-> None]
Pending(row) == [act |-> IF row.doing = "travel" THEN "sleep" ELSE row.doing,
                 plan |-> row.plan]

\* enterTravel(): the activity waits in the row of the trip.
Enter(w, pending) ==
  <<[w EXCEPT !.life = RoadRow(w.travel.to, pending.act, pending.plan)]>>

Begin(w, chosen) == <<[w EXCEPT !.life = Row(chosen.act, chosen.plan)]>>

\* "Life must therefore say" that she is on her way.
Entered(w, chosen) == IF OnTrip(w) THEN Enter(w, chosen) ELSE Begin(w, chosen)

\* finishActivity(): the outcome, then the end of the plan it came from.
Finish(w, old) ==
  IF old.doing \notin Activities \/ old.plan = None THEN <<>>
  ELSE LET said == [w EXCEPT !.told[old.plan] = @ + 1]
       IN <<said, [said EXCEPT !.plans[old.plan].status = "completed"]>>

\* settlePlanWindows().
Skipped(w) ==
  <<[w EXCEPT !.plans = [p \in Plans |->
       IF @[p].status = "planned" /\ @[p].start = "past"
         THEN [@[p] EXCEPT !.status = "skipped"] ELSE @[p]]]>>

\* resolveNext(): a plan whose time has come is made active before anything
\* else is written.
IsDue(w, p) == w.plans[p].status = "planned" /\ w.plans[p].start \in {"open", "past"}

Choices(w) ==
  [act : Activities \cup {"sleep"}, plan : {None}] \cup
  [act : Activities, plan : {p \in Plans : IsDue(w, p)}]

Started(w, p) ==
  IF p = None THEN <<>> ELSE <<[w EXCEPT !.plans[p].status = "active"]>>

\* A fresh activity, here or at the end of a trip.
Fresh(w, chosen, selected) ==
  LET a == Started(w, chosen.plan)   wa == After(w, a)
      b == Going(wa, selected, chosen)  wb == After(wa, b)
      c == Entered(wb, chosen)
      d == Finish(c[1], w.life)      wd == After(c[1], d)
  IN a \o b \o c \o d \o Skipped(wd)

\* repairOngoingLocation(): no outcome for what she has not finished.
Repair_Told(w, selected) ==
  LET b == Departure(w, selected, Pending(w.life))
      c == Enter(After(w, b), Pending(w.life))
  IN b \o c \o Finish(c[1], w.life)
Repair(w, selected) ==
  LET b == Departure(w, selected, Pending(w.life))
  IN b \o Enter(After(w, b), Pending(w.life))

HasArrived_Somewhere(w) == IsHere(w)
\* resumeAfterTravel().
HasArrived(w) == w.life.to = w.place /\ IsHere(w)

IsOngoing_OnRoad(w) == ~w.life.over
\* Until its end, and never a trip that no longer exists.
IsOngoing(w) == w.life.doing \in Activities /\ ~w.life.over

\* The outcomes of a tick once a trip that was due has been settled.
Ticks(w) ==
  CASE OnTrip(w) ->
         IF w.life.to = w.travel.to THEN {<<>>}
         ELSE {Enter(w, IF w.life = NoRow THEN w.travel ELSE Pending(w.life))}
    [] ~OnTrip(w) /\ w.life.doing = "travel" /\ HasArrived(w) ->
         LET b == Begin(w, [act |-> w.life.next, plan |-> w.life.nextPlan])
         IN {b \o Skipped(b[1])}
    [] ~OnTrip(w) /\ IsOngoing(w) ->
         IF ~Unfit(w, w.life.doing) THEN {<<>>}
         ELSE {IF l \in {None, w.place} THEN <<>> ELSE Repair(w, l) :
                 l \in Selectable(w, Fits[w.life.doing])}
    [] OTHER ->
         UNION {{Fresh(w, c, l) :
                   l \in Selectable(w, IF c.act = "sleep" THEN {} ELSE Fits[c.act])} :
                c \in Choices(w)}

TickWrites == {Arrival(World) \o t : t \in Ticks(Settled(World))}

-------------------------------------------------------------------------------
(***************************************************************************)
(* Actions                                                                 *)
(***************************************************************************)
\* life.tick, from the job or from the admin.
Tick ==
  /\ \E writes \in TickWrites : writes # <<>> /\ Commit(After(World, writes))
  /\ torn' = (torn /\ life'.doing = "travel")
  /\ UNCHANGED <<touched, dropped, shocks>>

\* current(), contextLines(), a snapshot of the world: any reader settles.
Read ==
  /\ travel.due /\ Commit(Settled(World)) /\ UNCHANGED history

\* generateDayPlans(), extractConversationIntent() or the admin, who may also create a
\* plan as active or completed; that is left out.
MakePlan(p) ==
  /\ plans[p].status = None
  /\ plans' = [plans EXCEPT ![p].status = "planned"]
  /\ UNCHANGED <<locationVars, life, told, history>>

Arriving == travel.to # None /\ ~travel.due

TripComesDue ==
  /\ Arriving /\ travel' = [travel EXCEPT !.due = TRUE]
  /\ UNCHANGED <<place, visits, exists, lifeVars, history>>

ActivityRunsOut ==
  /\ life.doing \in Activities /\ ~life.over
  /\ life' = [life EXCEPT !.over = TRUE]
  /\ UNCHANGED <<locationVars, plans, told, history>>

StartComes(p) ==
  /\ plans[p].status # None /\ plans[p].start \in {"ahead", "open"}
  /\ plans' = [plans EXCEPT ![p].start = IF @ = "ahead" THEN "open" ELSE "past"]
  /\ UNCHANGED <<locationVars, life, told, history>>

Shock == shocks < MaxShocks /\ shocks' = shocks + 1

\* What waits in the row of a trip that no longer exists is not begun.
CalledOff(w) ==
  IF w.life.doing = "travel" /\ ~OnTrip(w) /\ ~HasArrived(w) THEN Carried(w) ELSE {}

Override(l) ==
  /\ Shock /\ l \in exists
  /\ Commit(After(World, Overridden(World, l)))
  /\ dropped' = dropped \cup (CalledOff(World))' /\ UNCHANGED <<touched, torn>>

\* setActiveCity(): a trip is called off.
ChangeCity ==
  /\ Shock /\ travel.to # None
  /\ travel' = NoTravel
  /\ UNCHANGED <<place, visits, exists, lifeVars, touched, torn>>
  /\ dropped' = dropped \cup (CalledOff(World))'

\* The route asks where she is before it deletes.
DeletePlace(l) ==
  /\ Shock /\ l \in exists
  /\ Commit([Settled(World) EXCEPT !.exists = @ \ {l}])
  /\ dropped' = IF l \in {life.to, travel.to} THEN dropped \cup Carried(World) ELSE dropped
  /\ UNCHANGED <<touched, torn>>

\* PATCH .../plans/:id.  A start that is not sent along is erased.
PatchPlan(p) ==
  /\ Shock /\ plans[p].status \notin {None, "completed"}
  /\ \E s \in {"planned", "active", "completed", "cancelled"} :
       \E start \in {"ahead", "none"} :
         plans' = [plans EXCEPT ![p] = [status |-> s, start |-> start]]
  /\ touched' = touched \cup {p}
  /\ UNCHANGED <<locationVars, life, told, dropped, torn>>

\* The process dies during an operation, or between two of them, and boots.
Prefixes(writes) == {IF k = 0 THEN World ELSE writes[k] : k \in 0 .. Len(writes) - 1}
CutShort ==
  {World} \cup (UNION {Prefixes(t) : t \in TickWrites})
          \cup (UNION {Prefixes(Overridden(World, l)) : l \in exists})

Crash ==
  /\ Shock
  /\ \E w \in CutShort :
       /\ Commit(Normalized(w))
       /\ torn' = (torn \/ World' # World)
  /\ dropped' = dropped \cup (CalledOff(World))' \cup
       {p \in Plans : plans'[p].status = "active" /\ p \notin Carried(World)'}
  /\ UNCHANGED touched

Next ==
  \/ Tick \/ Read \/ TripComesDue \/ ActivityRunsOut \/ ChangeCity \/ Crash
  \/ \E p \in Plans : MakePlan(p) \/ StartComes(p) \/ PatchPlan(p)
  \/ \E l \in Places : Override(l) \/ DeletePlace(l)

Spec == Init /\ [][Next]_vars

\* The tick recurs, and time goes on.
FairSpec == Spec /\ WF_vars(Tick) /\ WF_vars(TripComesDue) /\ WF_vars(ActivityRunsOut)

-------------------------------------------------------------------------------
(***************************************************************************)
(* Properties                                                              *)
(***************************************************************************)
\* A place she has left has no open visit, whatever ended her stay.
VisitsAreClosed == \A l \in exists : visits[l] > 0 => l = place

\* The plan that an activity came from goes with it on the way and through
\* repairs: until its activity ends, the row that says "now" carries it.
StartedIsCarried ==
  \A p \in Plans \ (touched \cup dropped) :
    plans[p].status = "active" => p \in Carried(World)

\* A plan has one outcome, and is completed only with it.
OneOutcome ==
  \A p \in Plans \ touched :
    /\ told[p] <= 1
    /\ plans[p].status = "completed" => told[p] = 1

\* From its start to its one outcome a plan is never out of sight.
PlansAreKept == StartedIsCarried /\ OneOutcome

\* "claiming the destination activity has already begun": what a plan sent her
\* on a trip for is begun only where it fits, if there is such a place.  (The
\* tick after a crash takes up the activity of before the trip.)
BegunWhereItFits ==
  [][\A p \in Plans \ touched :
       life.nextPlan = p /\ life'.plan = p /\ ~torn =>
         LET fits == Fits[life'.doing]
         IN place' \in fits \/ fits \cap exists' = {}]_vars

\* The row says "on the way" until the trip ends, and no longer.
RoadEnds == life.doing = "travel" ~> life.doing # "travel"
===============================================================================
