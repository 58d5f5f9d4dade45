------------------------ MODULE LifeAndMemoryProofs ------------------------
(***************************************************************************)
(* Life and OmbreMemory: where she is and what she does, and what the code *)
(* records of its calls to the external memory.  Each has an invariant of  *)
(* its own; they share no state and meet only in the process of both.      *)
(***************************************************************************)
EXTENDS TLAPS, Life, OmbreMemory

-------------------------------------------------------------------------------
(***************************************************************************)
(* Life.                                                                   *)
(*                                                                         *)
(* A tick is a sequence of writes and the process may die after each of    *)
(* them, so the invariant is first one of worlds: every world on the way   *)
(* is sound (its visits are closed, its plans and its trip are true).      *)
(* Between operations more holds: a started plan is carried.  And unless a *)
(* crash has torn the row of a trip from the trip, the two agree, which is *)
(* what lets a plan begin where it fits.                                   *)
(***************************************************************************)

\* The worlds there are.
Acts == Activities \cup {"sleep"}

TravelRow ==
  {t \in [to : Places \cup {None}, due : BOOLEAN, act : Acts \cup {None},
          plan : Plans \cup {None}] :
     /\ t.due => t.to # None
     /\ t.to # None => t.act \in Acts
     /\ t.plan # None => t.act \in Activities}

\* What she does: nothing yet, an activity, or a trip with what waits behind it.
LifeRow ==
  {r \in [doing : Acts \cup {None, "travel"}, plan : Plans \cup {None},
          to : Places \cup {None}, next : Acts \cup {None},
          nextPlan : Plans \cup {None}, over : BOOLEAN] :
     \/ r = NoRow
     \/ r.doing \in Acts /\ r.nextPlan = None /\ r.to = None
        /\ (r.plan # None => r.doing \in Activities)
     \/ r.doing = "travel" /\ r.plan = None /\ r.to \in Places /\ r.next \in Acts
        /\ (r.nextPlan # None => r.next \in Activities)}

PlanRow == [status : {None, "planned", "active", "completed", "skipped", "cancelled"},
            start : {"ahead", "open", "past", "none"}]

WorldType ==
  [place : Places, travel : TravelRow, visits : [Places -> Nat], exists : SUBSET Places,
   life : LifeRow, plans : [Plans -> PlanRow], told : [Plans -> Nat]]

\* VisitsAreClosed, also while she is on her way to where she already is.
Closed(w) ==
  \A l \in w.exists : w.visits[l] > 0 => l = w.place /\ (OnTrip(w) => l = w.travel.to)

\* A plan that nobody has changed: carried while it is active and has no outcome.
PlanIsTrue(w, p) ==
  /\ w.told[p] <= 1
  /\ w.plans[p].status = "completed" => w.told[p] = 1
  /\ w.told[p] = 1 =>
       /\ w.plans[p].status \in {"active", "completed"}
       /\ p \notin Carried(w) /\ w.life # NoRow
  /\ p \in Carried(w) \/ (w.life = NoRow /\ w.travel.plan = p)
       => w.plans[p].status = "active"

\* The trip that a plan is carried on leads where there is still a place.
TripIsTrue(w) ==
  /\ OnTrip(w) => w.travel.to \in w.exists
  /\ w.life.doing = "travel" =>
       w.life.to \in w.exists /\ (OnTrip(w) => w.travel.to = w.life.to)

\* What holds of every world that a crash may leave behind.
Sound(w, changed, lost) ==
  /\ Closed(w)
  /\ \A p \in Plans \ changed : PlanIsTrue(w, p)
  /\ \A p \in Plans \ (changed \cup lost) : p \in Carried(w) => TripIsTrue(w)

SoundWorlds(changed, lost) == {w \in WorldType : Sound(w, changed, lost)}

\* What holds between two operations, besides.
Kept(w, changed, lost) ==
  \A p \in Plans \ (changed \cup lost) :
    /\ w.plans[p].status = "active" => p \in Carried(w)
    /\ w.life.nextPlan = p /\ ~OnTrip(w) => w.place = w.life.to

\* What holds unless a crash has cut a tick.
Whole(w) ==
  /\ OnTrip(w) => w.life.doing = "travel" /\ w.life.to = w.travel.to
  /\ w.life.nextPlan # None =>
       \/ w.life.to \in Fits[w.life.next]
       \/ Fits[w.life.next] \cap w.exists = {}

LifeInvariant ==
  /\ World \in SoundWorlds(touched, dropped) /\ Kept(World, touched, dropped)
  /\ ~torn => Whole(World)
  /\ touched \subseteq Plans /\ dropped \subseteq Plans /\ torn \in BOOLEAN

-------------------------------------------------------------------------------
(***************************************************************************)
(* An operation is a sequence of worlds.                                   *)
(***************************************************************************)
LEMMA AfterIsOne ==
  ASSUME NEW S, NEW w \in S, NEW s \in Seq(S)
  PROVE  After(w, s) \in S
  <1>1. CASE s = <<>>  BY <1>1 DEF After
  <1>2. CASE s # <<>>
    <2>1. Len(s) \in 1 .. Len(s)  BY <1>2
    <2>. QED  BY <1>2, <2>1 DEF After
  <1>. QED  BY <1>1, <1>2

LEMMA AfterBoth ==
  ASSUME NEW S, NEW w, NEW a \in Seq(S), NEW b \in Seq(S)
  PROVE  a \o b \in Seq(S) /\ After(w, a \o b) = After(After(w, a), b)
  <1>1. CASE b = <<>>
    <2>1. a \o b = a  BY <1>1
    <2>. QED  BY <1>1, <2>1 DEF After
  <1>2. CASE b # <<>>
    <2>1. Len(b) \in Nat \ {0} /\ Len(a) \in Nat /\ Len(a \o b) = Len(a) + Len(b)
      BY <1>2
    <2>2. a \o b # <<>>
      BY <2>1
    <2>3. (a \o b)[Len(a) + Len(b)] = b[Len(b)]
      BY <2>1
    <2>. QED  BY <1>2, <2>1, <2>2, <2>3 DEF After
  <1>. QED  BY <1>1, <1>2

LEMMA JustOne ==
  ASSUME NEW S, NEW w, NEW v \in S, NEW t, t = <<v>>
  PROVE  t \in Seq(S) /\ After(w, t) = v
  BY DEF After

LEMMA OneMore ==
  ASSUME NEW S, NEW w, NEW a \in Seq(S), NEW v \in S, NEW t, t = <<v>>
  PROVE  a \o t \in Seq(S) /\ After(w, a \o t) = v
  <1>1. t \in Seq(S) /\ After(After(w, a), t) = v
    BY JustOne
  <1>2. ASSUME NEW b \in Seq(S)
        PROVE  a \o b \in Seq(S) /\ After(w, a \o b) = After(After(w, a), b)
    BY AfterBoth
  <1>. QED  BY <1>1, <1>2

\* What a crash keeps of an operation is one of its worlds.
LEMMA PrefixIsOne ==
  ASSUME NEW S, World \in S, NEW s \in Seq(S), NEW w \in Prefixes(s)
  PROVE  w \in S
  <1>1. PICK k \in 0 .. Len(s) - 1 : w = IF k = 0 THEN World ELSE s[k]
    BY DEF Prefixes
  <1>. QED  BY <1>1

-------------------------------------------------------------------------------
(***************************************************************************)
(* What each write does to a sound world.                                  *)
(***************************************************************************)
LEMMA LifeTypes ==
  /\ NoTravel \in TravelRow /\ NoRow \in LifeRow /\ None \notin Plans /\ None \notin Places
  /\ "sleep" \notin Activities /\ "travel" \notin Activities /\ None \notin Activities
  /\ Home \in Places /\ \A a \in Activities : Fits[a] \subseteq Places
  BY LifeConstants, LocationConstants DEF NoTravel, TravelRow, NoRow, LifeRow, None

\* Only where she is has changed: who carries a plan, and its outcome, have not.
LEMMA SoundIsKept ==
  ASSUME NEW c, NEW d, NEW w \in SoundWorlds(c, d), NEW u \in WorldType, Closed(u),
         u.plans = w.plans, u.told = w.told, u.life = w.life, u.exists = w.exists,
         u.travel \in {w.travel, NoTravel}
  PROVE  u \in SoundWorlds(c, d)
  <1>1. Sound(w, c, d)
    BY DEF SoundWorlds
  <1>2. ASSUME NEW p \in Plans \ c PROVE PlanIsTrue(u, p)
    <2>1. PlanIsTrue(w, p)
      BY <1>1 DEF Sound
    <2>. QED  BY <2>1, LifeTypes DEF PlanIsTrue, Carried, NoTravel
  <1>3. ASSUME NEW p \in Plans \ (c \cup d), p \in Carried(u) PROVE TripIsTrue(u)
    <2>1. TripIsTrue(w)
      BY <1>1, <1>3 DEF Sound, Carried
    <2>. QED  BY <2>1 DEF TripIsTrue, OnTrip, NoTravel
  <1>. QED  BY <1>2, <1>3 DEF SoundWorlds, Sound

Unvisited(w) == \A x \in w.exists : w.visits[x] = 0

LEMMA VisitEnds ==
  ASSUME NEW c, NEW d, NEW w \in SoundWorlds(c, d)
  PROVE  LET left == [w EXCEPT !.visits[w.place] = 0]
         IN /\ left \in SoundWorlds(c, d) /\ Unvisited(left)
            /\ left.place = w.place /\ left.travel = w.travel /\ left.exists = w.exists
            /\ left.life = w.life /\ left.plans = w.plans /\ left.told = w.told
  <1>. DEFINE left == [w EXCEPT !.visits[w.place] = 0]
  <1>1. w \in WorldType /\ Closed(w)
    BY DEF SoundWorlds, Sound
  <1>2. /\ left.place = w.place /\ left.travel = w.travel /\ left.exists = w.exists
        /\ left.life = w.life /\ left.plans = w.plans /\ left.told = w.told
        /\ left.visits = [w.visits EXCEPT ![w.place] = 0]
    BY <1>1 DEF WorldType
  <1>3. left \in WorldType
    BY <1>1 DEF WorldType
  <1>. HIDE DEF left
  <1>4. Unvisited(left)
    BY <1>1, <1>2 DEF Unvisited, Closed, WorldType
  <1>5. Closed(left)
    BY <1>4 DEF Closed, Unvisited
  <1>6. left \in SoundWorlds(c, d)
    BY <1>2, <1>3, <1>5, SoundIsKept
  <1>. QED  BY <1>2, <1>4, <1>6 DEF left

LEMMA TripEnds ==
  ASSUME NEW c, NEW d, NEW w \in SoundWorlds(c, d)
  PROVE  LET free == [w EXCEPT !.travel = NoTravel]
         IN /\ free \in SoundWorlds(c, d) /\ ~OnTrip(free)
            /\ free.place = w.place /\ free.visits = w.visits /\ free.exists = w.exists
            /\ free.life = w.life /\ free.plans = w.plans /\ free.told = w.told
  <1>. DEFINE free == [w EXCEPT !.travel = NoTravel]
  <1>1. w \in WorldType /\ Closed(w)
    BY DEF SoundWorlds, Sound
  <1>2. /\ free.place = w.place /\ free.visits = w.visits /\ free.exists = w.exists
        /\ free.life = w.life /\ free.plans = w.plans /\ free.told = w.told
        /\ free.travel = NoTravel
    BY <1>1 DEF WorldType
  <1>3. free \in WorldType
    BY <1>1, LifeTypes DEF WorldType
  <1>. HIDE DEF free
  <1>4. ~OnTrip(free)
    BY <1>2 DEF OnTrip, NoTravel
  <1>5. Closed(free)
    BY <1>1, <1>2, <1>4 DEF Closed
  <1>6. free \in SoundWorlds(c, d)
    BY <1>2, <1>3, <1>5, SoundIsKept
  <1>. QED  BY <1>2, <1>4, <1>6 DEF free

LEMMA PlaceChanges ==
  ASSUME NEW c, NEW d, NEW w \in SoundWorlds(c, d), NEW x \in Places,
         Unvisited(w) \/ (OnTrip(w) /\ x = w.travel.to)
  PROVE  LET there == [w EXCEPT !.place = x]
         IN /\ there \in SoundWorlds(c, d) /\ (Unvisited(w) => Unvisited(there))
            /\ there.place = x /\ there.travel = w.travel /\ there.exists = w.exists
            /\ there.life = w.life /\ there.plans = w.plans /\ there.told = w.told
  <1>. DEFINE there == [w EXCEPT !.place = x]
  <1>1. w \in WorldType /\ Closed(w)
    BY DEF SoundWorlds, Sound
  <1>2. /\ there.place = x /\ there.travel = w.travel /\ there.exists = w.exists
        /\ there.life = w.life /\ there.plans = w.plans /\ there.told = w.told
        /\ there.visits = w.visits
    BY <1>1 DEF WorldType
  <1>3. there \in WorldType
    BY <1>1 DEF WorldType
  <1>. HIDE DEF there
  <1>5. Closed(there)
    BY <1>1, <1>2 DEF Closed, Unvisited, OnTrip
  <1>6. there \in SoundWorlds(c, d)
    BY <1>2, <1>3, <1>5, SoundIsKept
  <1>. QED  BY <1>2, <1>6 DEF there, Unvisited

LEMMA VisitBegins ==
  ASSUME NEW c, NEW d, NEW w \in SoundWorlds(c, d), OnTrip(w) => w.place = w.travel.to,
         NEW x, x = w.place
  PROVE  LET seen == [w EXCEPT !.visits[x] = @ + 1]
         IN /\ seen \in SoundWorlds(c, d)
            /\ seen.place = w.place /\ seen.travel = w.travel /\ seen.exists = w.exists
            /\ seen.life = w.life /\ seen.plans = w.plans /\ seen.told = w.told
  <1>. DEFINE seen == [w EXCEPT !.visits[x] = @ + 1]
  <1>1. w \in WorldType /\ Closed(w)
    BY DEF SoundWorlds, Sound
  <1>2. /\ seen.place = w.place /\ seen.travel = w.travel /\ seen.exists = w.exists
        /\ seen.life = w.life /\ seen.plans = w.plans /\ seen.told = w.told
        /\ seen.visits = [w.visits EXCEPT ![x] = @ + 1]
    BY <1>1 DEF WorldType
  <1>3. seen \in WorldType
    BY <1>1 DEF WorldType
  <1>. HIDE DEF seen
  <1>5. Closed(seen)
    BY <1>1, <1>2 DEF Closed, OnTrip, WorldType
  <1>6. seen \in SoundWorlds(c, d)
    BY <1>2, <1>3, <1>5, SoundIsKept
  <1>. QED  BY <1>2, <1>6 DEF seen

\* A plan that may be carried.
MayCarry(w, c, p) == p \in Plans \ c => w.plans[p].status = "active" /\ w.told[p] # 1

LEMMA TripBegins ==
  ASSUME NEW c, NEW d, NEW w \in SoundWorlds(c, d), Unvisited(w), NEW x \in w.exists,
         NEW f, f.act \in Acts, f.plan \in Plans \cup {None},
         f.plan # None => f.act \in Activities, MayCarry(w, c, f.plan),
         \A p \in Plans \ (c \cup d) : p \in Carried(w) => w.life.doing # "travel"
  PROVE  LET gone == [w EXCEPT !.travel = Trip(x, f)]
         IN /\ gone \in SoundWorlds(c, d) /\ OnTrip(gone) /\ gone.travel.to = x
            /\ gone.place = w.place /\ gone.exists = w.exists
            /\ gone.life = w.life /\ gone.plans = w.plans /\ gone.told = w.told
  <1>. DEFINE gone == [w EXCEPT !.travel = Trip(x, f)]
  <1>1. w \in WorldType /\ Sound(w, c, d)
    BY DEF SoundWorlds
  <1>2. /\ gone.place = w.place /\ gone.visits = w.visits /\ gone.exists = w.exists
        /\ gone.life = w.life /\ gone.plans = w.plans /\ gone.told = w.told
        /\ gone.travel = Trip(x, f)
    BY <1>1 DEF WorldType
  <1>3. gone \in WorldType
    <2>1. Trip(x, f) \in TravelRow
      BY <1>1, LifeTypes DEF WorldType, Trip, TravelRow
    <2>. QED  BY <1>1, <2>1 DEF WorldType
  <1>. HIDE DEF gone
  <1>4. OnTrip(gone) /\ gone.travel.to = x /\ gone.travel.plan = f.plan
    BY <1>1, <1>2, LifeTypes DEF OnTrip, Trip, WorldType
  <1>5. Closed(gone)
    BY <1>1, <1>2 DEF Closed, Unvisited, WorldType
  <1>6. ASSUME NEW p \in Plans \ c PROVE PlanIsTrue(gone, p)
    <2>1. PlanIsTrue(w, p)
      BY <1>1 DEF Sound
    <2>. QED  BY <1>2, <1>4, <2>1 DEF PlanIsTrue, Carried, MayCarry
  <1>7. ASSUME NEW p \in Plans \ (c \cup d), p \in Carried(gone) PROVE TripIsTrue(gone)
    BY <1>2, <1>4, <1>7 DEF TripIsTrue, Carried
  <1>8. gone \in SoundWorlds(c, d)
    BY <1>3, <1>5, <1>6, <1>7 DEF SoundWorlds, Sound
  <1>. QED  BY <1>2, <1>4, <1>8 DEF gone

\* The row that says "now" is written anew.
LEMMA RowChanges ==
  ASSUME NEW c, NEW d, NEW w \in SoundWorlds(c, d), NEW row \in LifeRow, row # NoRow,
         MayCarry(w, c, row.plan), MayCarry(w, c, row.nextPlan),
         \A p \in Plans \ (c \cup d) : p \in {row.plan, row.nextPlan} =>
           /\ OnTrip(w) => w.travel.to \in w.exists
           /\ row.doing = "travel" => OnTrip(w) /\ row.to = w.travel.to
  PROVE  LET now == [w EXCEPT !.life = row]
         IN /\ now \in SoundWorlds(c, d)
            /\ now.life = row /\ now.place = w.place /\ now.travel = w.travel
            /\ now.exists = w.exists /\ now.plans = w.plans /\ now.told = w.told
  <1>. DEFINE now == [w EXCEPT !.life = row]
  <1>1. w \in WorldType /\ Sound(w, c, d)
    BY DEF SoundWorlds
  <1>2. /\ now.place = w.place /\ now.visits = w.visits /\ now.exists = w.exists
        /\ now.life = row /\ now.plans = w.plans /\ now.told = w.told
        /\ now.travel = w.travel
    BY <1>1 DEF WorldType
  <1>3. now \in WorldType
    BY <1>1 DEF WorldType
  <1>. HIDE DEF now
  <1>5. Closed(now)
    BY <1>1, <1>2 DEF Closed, OnTrip, Sound
  <1>6. ASSUME NEW p \in Plans \ c PROVE PlanIsTrue(now, p)
    <2>1. PlanIsTrue(w, p)
      BY <1>1 DEF Sound
    <2>. QED  BY <1>2, <2>1 DEF PlanIsTrue, Carried, MayCarry
  <1>7. ASSUME NEW p \in Plans \ (c \cup d), p \in Carried(now) PROVE TripIsTrue(now)
    <2>1. p \in {row.plan, row.nextPlan}
      BY <1>2, <1>7 DEF Carried
    <2>2. /\ OnTrip(w) => w.travel.to \in w.exists
          /\ row.doing = "travel" => OnTrip(w) /\ row.to = w.travel.to
      BY <2>1
    <2>. QED  BY <1>2, <2>2 DEF TripIsTrue, OnTrip
  <1>8. now \in SoundWorlds(c, d)
    BY <1>3, <1>5, <1>6, <1>7 DEF SoundWorlds, Sound
  <1>. QED  BY <1>2, <1>8 DEF now

\* Plans and outcomes are written: who carries what stays as it is.
LEMMA PlansChange ==
  ASSUME NEW c, NEW d, NEW w \in SoundWorlds(c, d), NEW u \in WorldType,
         u.place = w.place, u.travel = w.travel, u.visits = w.visits,
         u.exists = w.exists, u.life = w.life,
         \A p \in Plans \ c : PlanIsTrue(u, p)
  PROVE  u \in SoundWorlds(c, d)
  <1>1. Sound(w, c, d)
    BY DEF SoundWorlds
  <1>2. Closed(u)
    BY <1>1 DEF Sound, Closed, OnTrip
  <1>3. ASSUME NEW p \in Plans \ (c \cup d), p \in Carried(u) PROVE TripIsTrue(u)
    BY <1>1, <1>3 DEF Sound, Carried, TripIsTrue, OnTrip
  <1>. QED  BY <1>2, <1>3 DEF SoundWorlds, Sound

\* A plan that is due is made active.
LEMMA PlanStarts ==
  ASSUME NEW c, NEW d, NEW w \in SoundWorlds(c, d), NEW p \in Plans, IsDue(w, p)
  PROVE  LET ready == [w EXCEPT !.plans[p].status = "active"]
         IN /\ ready \in SoundWorlds(c, d) /\ MayCarry(ready, c, p)
            /\ ready.place = w.place /\ ready.travel = w.travel /\ ready.exists = w.exists
            /\ ready.life = w.life /\ ready.visits = w.visits
            /\ \A q \in Plans \ {p} : ready.plans[q] = w.plans[q]
  <1>. DEFINE ready == [w EXCEPT !.plans[p].status = "active"]
  <1>1. w \in WorldType /\ Sound(w, c, d)
    BY DEF SoundWorlds
  <1>2. /\ ready.place = w.place /\ ready.travel = w.travel /\ ready.exists = w.exists
        /\ ready.life = w.life /\ ready.visits = w.visits /\ ready.told = w.told
        /\ ready.plans = [w.plans EXCEPT ![p].status = "active"]
    BY <1>1 DEF WorldType
  <1>3. ready \in WorldType
    <2>1. w.plans \in [Plans -> PlanRow]
      BY <1>1 DEF WorldType
    <2>2. [w.plans EXCEPT ![p].status = "active"] \in [Plans -> PlanRow]
      BY <2>1 DEF PlanRow
    <2>. QED  BY <1>1, <2>2 DEF WorldType
  <1>. HIDE DEF ready
  <1>4. /\ ready.plans[p].status = "active"
        /\ \A q \in Plans \ {p} : ready.plans[q] = w.plans[q]
    BY <1>1, <1>2 DEF WorldType, PlanRow
  <1>5. ASSUME NEW q \in Plans \ c PROVE PlanIsTrue(ready, q)
    <2>1. PlanIsTrue(w, q)
      BY <1>1 DEF Sound
    <2>. QED  BY <1>2, <1>4, <2>1 DEF PlanIsTrue, Carried, IsDue
  <1>6. ready \in SoundWorlds(c, d)
    BY <1>2, <1>3, <1>5, PlansChange
  <1>7. MayCarry(ready, c, p)
    <2>1. p \notin c => PlanIsTrue(w, p)
      BY <1>1 DEF Sound
    <2>. QED  BY <1>2, <1>4, <2>1 DEF MayCarry, PlanIsTrue, IsDue
  <1>. QED  BY <1>2, <1>4, <1>6, <1>7 DEF ready

\* An activity has ended: its outcome, and the end of its plan.
Said(w, p) == [w EXCEPT !.told[p] = @ + 1]
Ended(w, p) == [w EXCEPT !.plans[p].status = "completed"]

LEMMA OutcomeIsSaid ==
  ASSUME NEW c, NEW d, NEW w \in SoundWorlds(c, d), NEW p \in Plans, w.life # NoRow,
         p \notin c => p \notin Carried(w) /\ MayCarry(w, c, p)
  PROVE  LET said == Said(w, p)
             ended == Ended(Said(w, p), p)
         IN /\ said \in SoundWorlds(c, d) /\ said.life = w.life
            /\ ended \in SoundWorlds(c, d) /\ ended.life = w.life
            /\ ended.travel = w.travel /\ ended.exists = w.exists
            /\ ended.plans[p].status = "completed"
            /\ \A q \in Plans \ {p} : ended.plans[q] = w.plans[q]
  <1>. DEFINE said == [w EXCEPT !.told[p] = @ + 1]
              ended == [said EXCEPT !.plans[p].status = "completed"]
  <1>1. w \in WorldType /\ Sound(w, c, d)
    BY DEF SoundWorlds
  <1>2. /\ said.place = w.place /\ said.travel = w.travel /\ said.exists = w.exists
        /\ said.life = w.life /\ said.visits = w.visits /\ said.plans = w.plans
        /\ said.told = [w.told EXCEPT ![p] = @ + 1]
    BY <1>1 DEF WorldType
  <1>3. said \in WorldType
    BY <1>1 DEF WorldType
  <1>. HIDE DEF said
  <1>4. /\ ended.place = w.place /\ ended.travel = w.travel /\ ended.exists = w.exists
        /\ ended.life = w.life /\ ended.visits = w.visits /\ ended.told = said.told
        /\ ended.plans = [w.plans EXCEPT ![p].status = "completed"]
    BY <1>2, <1>3 DEF WorldType
  <1>5. ended \in WorldType
    <2>1. w.plans \in [Plans -> PlanRow]
      BY <1>1 DEF WorldType
    <2>2. [w.plans EXCEPT ![p].status = "completed"] \in [Plans -> PlanRow]
      BY <2>1 DEF PlanRow
    <2>. QED  BY <1>2, <1>3, <2>2 DEF WorldType
  <1>. HIDE DEF ended
  <1>6. /\ ended.plans[p].status = "completed"
        /\ \A q \in Plans \ {p} : ended.plans[q] = w.plans[q]
    BY <1>1, <1>4 DEF WorldType, PlanRow
  <1>7. /\ w.told[p] \in Nat /\ said.told[p] = w.told[p] + 1
        /\ \A q \in Plans \ {p} : said.told[q] = w.told[q]
    BY <1>1, <1>2 DEF WorldType
  <1>8. ASSUME NEW q \in Plans \ c PROVE PlanIsTrue(said, q) /\ PlanIsTrue(ended, q)
    <2>1. PlanIsTrue(w, q)
      BY <1>1 DEF Sound
    <2>2. CASE q # p
      BY <1>2, <1>4, <1>6, <1>7, <2>1, <2>2 DEF PlanIsTrue, Carried
    <2>3. CASE q = p
      <3>1. w.plans[p].status = "active" /\ w.told[p] = 0 /\ p \notin Carried(w)
        BY <1>7, <2>1, <2>3 DEF PlanIsTrue, MayCarry
      <3>2. said.told[p] = 1 /\ ended.told[p] = 1
        BY <1>4, <1>7, <3>1
      <3>. QED
        BY <1>2, <1>4, <1>6, <2>3, <3>1, <3>2 DEF PlanIsTrue, Carried
    <2>. QED  BY <2>2, <2>3
  <1>9. said \in SoundWorlds(c, d) /\ ended \in SoundWorlds(c, d)
    BY <1>2, <1>3, <1>4, <1>5, <1>8, PlansChange
  <1>10. said = Said(w, p) /\ ended = Ended(Said(w, p), p)
    BY DEF said, ended, Said, Ended
  <1>. QED  BY <1>2, <1>4, <1>6, <1>9, <1>10

\* settlePlanWindows() touches no plan that is active or has an outcome.
LEMMA WindowsAreSettled ==
  ASSUME NEW c, NEW d, NEW w \in SoundWorlds(c, d)
  PROVE  LET v == Skipped(w)[1]
         IN /\ v \in SoundWorlds(c, d) /\ Skipped(w) = <<v>>
            /\ v.place = w.place /\ v.travel = w.travel /\ v.exists = w.exists
            /\ v.life = w.life /\ v.visits = w.visits
            /\ \A q \in Plans : v.plans[q].status = "active" => w.plans[q].status = "active"
  <1>. DEFINE after == [p \in Plans |->
                IF w.plans[p].status = "planned" /\ w.plans[p].start = "past"
                  THEN [w.plans[p] EXCEPT !.status = "skipped"] ELSE w.plans[p]]
              v == Skipped(w)[1]
  <1>1. w \in WorldType /\ Sound(w, c, d)
    BY DEF SoundWorlds
  <1>2. /\ v.place = w.place /\ v.travel = w.travel /\ v.exists = w.exists
        /\ v.life = w.life /\ v.visits = w.visits /\ v.told = w.told
        /\ v.plans = after /\ Skipped(w) = <<v>>
    BY <1>1 DEF WorldType, Skipped
  <1>3. v \in WorldType
    <2>1. w.plans \in [Plans -> PlanRow]
      BY <1>1 DEF WorldType
    <2>2. after \in [Plans -> PlanRow]
      BY <2>1 DEF PlanRow
    <2>3. v = [w EXCEPT !.plans = after]
      BY <1>1 DEF Skipped
    <2>. QED  BY <1>1, <2>2, <2>3 DEF WorldType
  <1>. HIDE DEF v
  <1>4. ASSUME NEW q \in Plans
        PROVE  /\ v.plans[q].status # w.plans[q].status
                    => w.plans[q].status = "planned" /\ v.plans[q].status = "skipped"
    BY <1>1, <1>2 DEF WorldType, PlanRow
  <1>5. ASSUME NEW q \in Plans \ c PROVE PlanIsTrue(v, q)
    <2>1. PlanIsTrue(w, q)
      BY <1>1 DEF Sound
    <2>. QED  BY <1>2, <1>4, <2>1 DEF PlanIsTrue, Carried
  <1>6. v \in SoundWorlds(c, d)
    BY <1>2, <1>3, <1>5, PlansChange
  <1>. QED  BY <1>2, <1>4, <1>6 DEF v

-------------------------------------------------------------------------------
(***************************************************************************)
(* The operations, write by write.                                         *)
(***************************************************************************)
\* A plan that waited for the end of a trip is begun where the trip has led.
Begun(before, u, c) ==
  \A p \in Plans \ c : before.life.nextPlan = p /\ u.life.plan = p =>
    /\ u.place = before.life.to /\ u.place \in u.exists /\ u.exists = before.exists
    /\ u.life.doing = before.life.next

Within(before, c, d) == {u \in SoundWorlds(c, d) : Begun(before, u, c)}

\* The worlds of an operation that does not touch the row of "now".
SameRow(before, c, d) == {u \in SoundWorlds(c, d) : u.life = before.life}

LEMMA RowCarriesOne ==
  ASSUME NEW row \in LifeRow
  PROVE  /\ row.plan # None => row.nextPlan = None /\ row.doing \in Activities
         /\ row.nextPlan # None => row.doing = "travel" /\ row.next \in Activities
         /\ row.to # None => row.doing = "travel"
         /\ row.doing = "travel" => row.to \in Places /\ row.next \in Acts
         /\ row # NoRow => row.doing \in Acts \/ row.doing = "travel"
         /\ row.plan \in Plans \cup {None} /\ row.nextPlan \in Plans \cup {None}
  <1>1. CASE row = NoRow  BY <1>1, LifeTypes DEF NoRow, None
  <1>2. CASE row.doing \in Acts /\ row.nextPlan = None /\ row.to = None
             /\ (row.plan # None => row.doing \in Activities)
    BY <1>2, LifeTypes DEF LifeRow, Acts, None
  <1>3. CASE row.doing = "travel" /\ row.plan = None /\ row.to \in Places /\ row.next \in Acts
             /\ (row.nextPlan # None => row.next \in Activities)
    BY <1>3, LifeTypes DEF LifeRow, None
  <1>. QED  BY <1>1, <1>2, <1>3 DEF LifeRow

\* The rows in full.
LEMMA RowsInFull ==
  ASSUME NEW a, NEW p, NEW x
  PROVE  /\ Row(a, p) \in [doing : {a}, plan : {p}, to : {None}, next : {None},
                           nextPlan : {None}, over : {FALSE}]
         /\ RoadRow(x, a, p) \in [doing : {"travel"}, plan : {None}, to : {x}, next : {a},
                                  nextPlan : {p}, over : {FALSE}]
  <1>1. NoRow \in [doing : {None}, plan : {None}, to : {None}, next : {None},
                   nextPlan : {None}, over : {TRUE}]
    BY DEF NoRow
  <1>. QED  BY <1>1 DEF Row, RoadRow

LEMMA RowFields ==
  ASSUME NEW a, NEW p, NEW x
  PROVE  /\ Row(a, p).doing = a /\ Row(a, p).plan = p /\ Row(a, p).nextPlan = None
         /\ RoadRow(x, a, p).doing = "travel" /\ RoadRow(x, a, p).plan = None
         /\ RoadRow(x, a, p).to = x /\ RoadRow(x, a, p).next = a
         /\ RoadRow(x, a, p).nextPlan = p
  <1>1. ASSUME NEW r \in [doing : {a}, plan : {p}, to : {None}, next : {None},
                          nextPlan : {None}, over : {FALSE}]
        PROVE  r.doing = a /\ r.plan = p /\ r.nextPlan = None
    OBVIOUS
  <1>2. ASSUME NEW r \in [doing : {"travel"}, plan : {None}, to : {x}, next : {a},
                          nextPlan : {p}, over : {FALSE}]
        PROVE  r.doing = "travel" /\ r.plan = None /\ r.to = x /\ r.next = a /\ r.nextPlan = p
    OBVIOUS
  <1>. QED  BY <1>1, <1>2, RowsInFull

LEMMA SameRowIsWithin ==
  ASSUME NEW c, NEW d, NEW w \in WorldType
  PROVE  SameRow(w, c, d) \subseteq Within(w, c, d)
  <1>1. w.life \in LifeRow
    BY DEF WorldType
  <1>. QED  BY <1>1, RowCarriesOne, LifeTypes DEF SameRow, Within, Begun

LEMMA SeqGrows ==
  ASSUME NEW S, NEW B, S \subseteq B, NEW s \in Seq(S)
  PROVE  s \in Seq(B)
  <1>1. \A k \in 1 .. Len(s) : s[k] \in B
    OBVIOUS
  <1>. QED  BY <1>1

LEMMA ArrivalIsSound ==
  ASSUME NEW c, NEW d, NEW w \in SoundWorlds(c, d)
  PROVE  LET v == Settled(w)
         IN /\ Arrival(w) \in Seq(SameRow(w, c, d)) /\ v \in SoundWorlds(c, d)
            /\ v.life = w.life /\ v.plans = w.plans /\ v.told = w.told
            /\ v.exists = w.exists
            /\ w.travel.due => OnTrip(w) /\ v.place = w.travel.to /\ ~OnTrip(v)
            /\ ~w.travel.due => v = w
  <1>. DEFINE there == [w EXCEPT !.place = w.travel.to]
              seen  == [there EXCEPT !.visits[w.travel.to] = @ + 1]
              home  == [seen EXCEPT !.travel = NoTravel]
  <1>1. w \in WorldType /\ w.travel \in TravelRow
    BY DEF SoundWorlds, WorldType
  <1>2. CASE ~w.travel.due
    <2>1. Arrival(w) = <<>> /\ Settled(w) = w
      BY <1>2 DEF Arrival, Settled, After
    <2>. QED  BY <1>2, <2>1
  <1>3. CASE w.travel.due
    <2>1. OnTrip(w) /\ w.travel.to \in Places
      BY <1>1, <1>3 DEF TravelRow, OnTrip
    <2>2. /\ there \in SoundWorlds(c, d) /\ there.place = w.travel.to
          /\ there.travel = w.travel /\ there.exists = w.exists /\ there.life = w.life
          /\ there.plans = w.plans /\ there.told = w.told
      BY <2>1, PlaceChanges
    <2>. HIDE DEF there
    <2>3. /\ seen \in SoundWorlds(c, d) /\ seen.place = w.travel.to
          /\ seen.travel = w.travel /\ seen.exists = w.exists /\ seen.life = w.life
          /\ seen.plans = w.plans /\ seen.told = w.told
      BY <2>2, VisitBegins
    <2>. HIDE DEF seen
    <2>4. /\ home \in SoundWorlds(c, d) /\ home.place = w.travel.to
          /\ ~OnTrip(home) /\ home.exists = w.exists /\ home.life = w.life
          /\ home.plans = w.plans /\ home.told = w.told
      BY <2>3, TripEnds
    <2>. HIDE DEF home
    <2>5. Arrival(w) = <<there, seen, home>>
      BY <1>3 DEF Arrival, there, seen, home
    <2>6. Settled(w) = home
      BY <2>5 DEF Settled, After
    <2>7. Arrival(w) \in Seq(SameRow(w, c, d))
      BY <2>2, <2>3, <2>4, <2>5 DEF SameRow
    <2>. QED  BY <1>3, <2>1, <2>4, <2>6, <2>7
  <1>. QED  BY <1>2, <1>3

LEMMA OverrideIsSound ==
  ASSUME NEW c, NEW d, NEW w \in SoundWorlds(c, d), NEW x \in w.exists
  PROVE  LET s == Overridden(w, x)
             v == After(w, s)
         IN /\ s \in Seq(SameRow(w, c, d)) /\ v \in SoundWorlds(c, d) /\ ~OnTrip(v)
            /\ v.life = w.life /\ v.plans = w.plans /\ v.exists = w.exists
  <1>. DEFINE left == [w EXCEPT !.visits[w.place] = 0]
              free == [left EXCEPT !.travel = NoTravel]
              there == [free EXCEPT !.place = x]
              seen == [there EXCEPT !.visits[x] = @ + 1]
  <1>1. w \in WorldType /\ x \in Places
    BY DEF SoundWorlds, WorldType
  <1>2. /\ left \in SoundWorlds(c, d) /\ Unvisited(left) /\ left.exists = w.exists
        /\ left.life = w.life /\ left.plans = w.plans
    BY VisitEnds
  <1>. HIDE DEF left
  <1>3. /\ free \in SoundWorlds(c, d) /\ ~OnTrip(free) /\ free.exists = w.exists
        /\ free.life = w.life /\ free.plans = w.plans /\ free.visits = left.visits
    BY <1>2, TripEnds
  <1>. HIDE DEF free
  <1>4. Unvisited(free)
    BY <1>2, <1>3 DEF Unvisited
  <1>5. /\ there \in SoundWorlds(c, d) /\ there.travel = free.travel /\ there.place = x
        /\ there.exists = w.exists /\ there.life = w.life /\ there.plans = w.plans
    BY <1>1, <1>3, <1>4, PlaceChanges
  <1>. HIDE DEF there
  <1>6. ~OnTrip(there)
    BY <1>3, <1>5 DEF OnTrip
  <1>7. /\ seen \in SoundWorlds(c, d) /\ seen.travel = there.travel
        /\ seen.exists = w.exists /\ seen.life = w.life /\ seen.plans = w.plans
    BY <1>5, <1>6, VisitBegins
  <1>. HIDE DEF seen
  <1>8. ~OnTrip(seen)
    BY <1>6, <1>7 DEF OnTrip
  <1>9. Overridden(w, x) = <<left, free, there, seen>>
    BY DEF Overridden, left, free, there, seen
  <1>10. After(w, Overridden(w, x)) = seen
    BY <1>9 DEF After
  <1>11. Overridden(w, x) \in Seq(SameRow(w, c, d))
    BY <1>2, <1>3, <1>5, <1>7, <1>9 DEF SameRow
  <1>. QED  BY <1>7, <1>8, <1>10, <1>11

LEMMA BootIsSound ==
  ASSUME NEW c, NEW d, NEW w \in SoundWorlds(c, d)
  PROVE  LET v == Normalized(w)
         IN /\ v \in SoundWorlds(c, d) /\ v.life = w.life /\ v.plans = w.plans
            /\ v.exists = w.exists /\ (IsHere(w) => v.place = w.place)
  <1>. DEFINE put == IF IsHere(w) THEN w ELSE [w EXCEPT !.place = Home]
  <1>1. w \in WorldType /\ Closed(w)
    BY DEF SoundWorlds, Sound
  <1>2. /\ put \in SoundWorlds(c, d) /\ put.life = w.life /\ put.plans = w.plans
        /\ put.exists = w.exists /\ (IsHere(w) => put.place = w.place)
    <2>1. CASE IsHere(w)  BY <2>1
    <2>2. CASE ~IsHere(w)
      <3>1. Unvisited(w)
        BY <1>1, <2>2 DEF Closed, IsHere, Unvisited, WorldType
      <3>. QED  BY <2>2, <3>1, LifeTypes, PlaceChanges
    <2>. QED  BY <2>1, <2>2
  <1>. HIDE DEF put
  <1>3. \/ Normalized(w) = put
        \/ Normalized(w) = [put EXCEPT !.travel = NoTravel]
    BY DEF Normalized, put
  <1>4. CASE Normalized(w) = put  BY <1>2, <1>4
  <1>5. CASE Normalized(w) = [put EXCEPT !.travel = NoTravel]
    <2>1. LET free == [put EXCEPT !.travel = NoTravel]
          IN /\ free \in SoundWorlds(c, d) /\ free.place = put.place
             /\ free.exists = put.exists /\ free.life = put.life /\ free.plans = put.plans
      BY <1>2, TripEnds
    <2>. QED  BY <1>2, <1>5, <2>1
  <1>. QED  BY <1>3, <1>4, <1>5

LEMMA DepartureIsSound ==
  ASSUME NEW c, NEW d, NEW w \in SoundWorlds(c, d), NEW x \in w.exists,
         NEW f, f.act \in Acts, f.plan \in Plans \cup {None},
         f.plan # None => f.act \in Activities, MayCarry(w, c, f.plan),
         \A p \in Plans \ (c \cup d) : p \in Carried(w) => w.life.doing # "travel"
  PROVE  LET s == Departure(w, x, f)
             v == After(w, s)
         IN /\ s \in Seq(SameRow(w, c, d))
            /\ v \in SoundWorlds(c, d) /\ OnTrip(v) /\ v.travel.to = x
            /\ v.place = w.place /\ v.exists = w.exists
            /\ v.life = w.life /\ v.plans = w.plans /\ v.told = w.told
  <1>. DEFINE left == [w EXCEPT !.visits[w.place] = 0]
              gone == [left EXCEPT !.travel = Trip(x, f)]
  <1>1. /\ left \in SoundWorlds(c, d) /\ Unvisited(left) /\ left.exists = w.exists
        /\ left.place = w.place /\ left.life = w.life /\ left.plans = w.plans
        /\ left.told = w.told
    BY VisitEnds
  <1>. HIDE DEF left
  <1>2. MayCarry(left, c, f.plan)
    BY <1>1 DEF MayCarry
  <1>3. /\ gone \in SoundWorlds(c, d) /\ OnTrip(gone) /\ gone.travel.to = x
        /\ gone.exists = w.exists /\ gone.place = w.place /\ gone.life = w.life
        /\ gone.plans = w.plans /\ gone.told = w.told
    BY <1>1, <1>2, TripBegins DEF Carried
  <1>. HIDE DEF gone
  <1>4. Departure(w, x, f) = <<left, gone>>
    BY DEF Departure, left, gone
  <1>5. After(w, Departure(w, x, f)) = gone
    BY <1>4 DEF After
  <1>6. Departure(w, x, f) \in Seq(SameRow(w, c, d))
    BY <1>1, <1>3, <1>4 DEF SameRow
  <1>. QED  BY <1>3, <1>5, <1>6

LEMMA EnterIsSound ==
  ASSUME NEW c, NEW d, NEW w \in SoundWorlds(c, d), OnTrip(w),
         NEW f, f.act \in Acts, f.plan \in Plans \cup {None},
         f.plan # None => f.act \in Activities, MayCarry(w, c, f.plan),
         f.plan \in Plans \ (c \cup d) => w.travel.to \in w.exists
  PROVE  LET v == Enter(w, f)[1]
         IN /\ Enter(w, f) = <<v>> /\ v \in SoundWorlds(c, d)
            /\ v.life = RoadRow(w.travel.to, f.act, f.plan) /\ v.life # NoRow
            /\ v.travel = w.travel /\ v.place = w.place /\ v.exists = w.exists
            /\ v.plans = w.plans /\ v.told = w.told
  <1>. DEFINE row == RoadRow(w.travel.to, f.act, f.plan)
              now == [w EXCEPT !.life = row]
  <1>1. row \in [doing : {"travel"}, plan : {None}, to : {w.travel.to}, next : {f.act},
                 nextPlan : {f.plan}, over : {FALSE}]
    BY RowsInFull
  <1>2. w.travel.to \in Places
    BY DEF SoundWorlds, WorldType, TravelRow, OnTrip
  <1>3. row \in LifeRow /\ row # NoRow
    <2>1. row # NoRow
      <3>1. row.over = FALSE /\ NoRow.over = TRUE  BY <1>1 DEF NoRow
      <3>. QED  BY <3>1
    <2>2. row \in [doing : Acts \cup {None, "travel"}, plan : Plans \cup {None},
                   to : Places \cup {None}, next : Acts \cup {None},
                   nextPlan : Plans \cup {None}, over : BOOLEAN]
      BY <1>1, <1>2
    <2>3. /\ row.doing = "travel" /\ row.plan = None /\ row.to \in Places /\ row.next \in Acts
          /\ row.nextPlan # None => row.next \in Activities
      BY <1>1, <1>2
    <2>. QED  BY <2>1, <2>2, <2>3 DEF LifeRow
  <1>4. MayCarry(w, c, None)
    BY LifeTypes DEF MayCarry
  <1>5. row.plan = None /\ row.nextPlan = f.plan /\ row.to = w.travel.to
    BY <1>1
  <1>. HIDE DEF row
  <1>6. /\ now \in SoundWorlds(c, d) /\ now.life = row
        /\ now.place = w.place /\ now.travel = w.travel /\ now.exists = w.exists
        /\ now.plans = w.plans /\ now.told = w.told
    BY <1>3, <1>4, <1>5, LifeTypes, RowChanges
  <1>. HIDE DEF now
  <1>7. Enter(w, f) = <<now>>
    BY DEF Enter, now, row
  <1>. QED  BY <1>3, <1>6, <1>7 DEF row

LEMMA BeginIsSound ==
  ASSUME NEW c, NEW d, NEW w \in SoundWorlds(c, d), ~OnTrip(w),
         NEW f, f.act \in Acts, f.plan \in Plans \cup {None},
         f.plan # None => f.act \in Activities, MayCarry(w, c, f.plan)
  PROVE  LET v == Begin(w, f)[1]
         IN /\ Begin(w, f) = <<v>> /\ v \in SoundWorlds(c, d)
            /\ v.life = Row(f.act, f.plan) /\ v.life # NoRow
            /\ v.travel = w.travel /\ v.place = w.place /\ v.exists = w.exists
            /\ v.plans = w.plans /\ v.told = w.told
  <1>. DEFINE row == Row(f.act, f.plan)
              now == [w EXCEPT !.life = row]
  <1>1. row \in [doing : {f.act}, plan : {f.plan}, to : {None}, next : {None},
                 nextPlan : {None}, over : {FALSE}]
    BY RowsInFull
  <1>3. row \in LifeRow /\ row # NoRow
    <2>1. row # NoRow
      <3>1. row.over = FALSE /\ NoRow.over = TRUE  BY <1>1 DEF NoRow
      <3>. QED  BY <3>1
    <2>2. row \in [doing : Acts \cup {None, "travel"}, plan : Plans \cup {None},
                   to : Places \cup {None}, next : Acts \cup {None},
                   nextPlan : Plans \cup {None}, over : BOOLEAN]
      BY <1>1
    <2>3. /\ row.doing \in Acts /\ row.nextPlan = None /\ row.to = None
          /\ row.plan # None => row.doing \in Activities
      BY <1>1
    <2>. QED  BY <2>1, <2>2, <2>3 DEF LifeRow
  <1>4. MayCarry(w, c, None)
    BY LifeTypes DEF MayCarry
  <1>5. row.plan = f.plan /\ row.nextPlan = None /\ row.doing # "travel"
    BY <1>1, LifeTypes DEF Acts
  <1>. HIDE DEF row
  <1>6. /\ now \in SoundWorlds(c, d) /\ now.life = row
        /\ now.place = w.place /\ now.travel = w.travel /\ now.exists = w.exists
        /\ now.plans = w.plans /\ now.told = w.told
    BY <1>3, <1>4, <1>5, LifeTypes, RowChanges
  <1>. HIDE DEF now
  <1>7. Begin(w, f) = <<now>>
    BY DEF Begin, now, row
  <1>. QED  BY <1>3, <1>6, <1>7 DEF row

-------------------------------------------------------------------------------
(***************************************************************************)
(* What a tick leaves behind.                                              *)
(***************************************************************************)
LEMMA PlaceIsChosen ==
  ASSUME NEW w, NEW fits, NEW x \in Selectable(w, fits), x # None
  PROVE  x \in w.exists /\ (x \in fits \/ fits \cap w.exists = {})
  <1>1. CASE fits \cap w.exists = {}  BY <1>1 DEF Selectable
  <1>2. CASE fits \cap w.exists # {}  BY <1>2 DEF Selectable
  <1>. QED  BY <1>1, <1>2

\* A tick is over: what is carried and where it leads is as it should be.
Ends(w, v, c, d) ==
  /\ v \in SoundWorlds(c, d) /\ Kept(v, c, d)
  /\ Whole(w) \/ v.life.doing # "travel" => Whole(v)

\* Who carries a plan that nobody has changed: nothing was said of it.
LEMMA CarriedMayBeCarried ==
  ASSUME NEW c, NEW d, NEW w \in SoundWorlds(c, d)
  PROVE  /\ \A p \in Carried(w) : MayCarry(w, c, p)
         /\ MayCarry(w, c, None) /\ MayCarry(w, c, w.life.plan)
         /\ MayCarry(w, c, w.life.nextPlan)
         /\ w.life = NoRow => MayCarry(w, c, w.travel.plan)
  <1>1. \A p \in Plans \ c : PlanIsTrue(w, p)
    BY DEF SoundWorlds, Sound
  <1>2. \A p \in Carried(w) : MayCarry(w, c, p)
    BY <1>1 DEF PlanIsTrue, MayCarry
  <1>3. MayCarry(w, c, None)
    BY LifeTypes DEF MayCarry
  <1>4. MayCarry(w, c, w.life.plan) /\ MayCarry(w, c, w.life.nextPlan)
    BY <1>2, <1>3 DEF Carried
  <1>5. w.life = NoRow => MayCarry(w, c, w.travel.plan)
    BY <1>1 DEF PlanIsTrue, MayCarry
  <1>. QED  BY <1>2, <1>3, <1>4, <1>5

LEMMA RepairKeeps ==
  ASSUME NEW c, NEW d, NEW w \in SoundWorlds(c, d), Kept(w, c, d),
         w.life.doing \in Activities,
         NEW x \in Selectable(w, Fits[w.life.doing]), x \notin {None, w.place}
  PROVE  /\ Repair(w, x) \in Seq(Within(w, c, d))
         /\ Ends(w, After(w, Repair(w, x)), c, d)
  <1>. DEFINE f == Pending(w.life)
              b == Departure(w, x, f)
              wb == After(w, b)
              e == Enter(wb, f)
              v == e[1]
  <1>1. w \in WorldType /\ w.life \in LifeRow /\ w.life.doing # "travel"
    BY LifeTypes DEF SoundWorlds, WorldType
  <1>2. /\ f.act = w.life.doing /\ f.plan = w.life.plan /\ f.act \in Acts
        /\ f.plan \in Plans \cup {None}
        /\ f.plan # None => f.act \in Activities
    BY <1>1, RowCarriesOne DEF Pending, Acts
  <1>3. MayCarry(w, c, f.plan)
    BY <1>2, CarriedMayBeCarried
  <1>. HIDE DEF f
  <1>4. x \in w.exists /\ (x \in Fits[f.act] \/ Fits[f.act] \cap w.exists = {})
    BY <1>2, PlaceIsChosen
  <1>5. /\ b \in Seq(SameRow(w, c, d)) /\ wb \in SoundWorlds(c, d) /\ OnTrip(wb)
        /\ wb.travel.to = x /\ wb.exists = w.exists /\ wb.plans = w.plans
        /\ wb.told = w.told
    BY <1>1, <1>2, <1>3, <1>4, DepartureIsSound
  <1>. HIDE DEF b, wb
  <1>6. MayCarry(wb, c, f.plan)
    BY <1>3, <1>5 DEF MayCarry
  <1>7. /\ e = <<v>> /\ v \in SoundWorlds(c, d)
        /\ v.life = RoadRow(x, f.act, f.plan) /\ v.travel = wb.travel
        /\ v.exists = w.exists /\ v.plans = w.plans
    BY <1>2, <1>4, <1>5, <1>6, EnterIsSound
  <1>. HIDE DEF e, v
  <1>8. /\ v.life.doing = "travel" /\ v.life.plan = None /\ v.life.to = x
        /\ v.life.next = f.act /\ v.life.nextPlan = f.plan
    BY <1>7, RowFields
  <1>9. OnTrip(v) /\ v.travel.to = x
    BY <1>5, <1>7 DEF OnTrip
  <1>10. v \in Within(w, c, d)
    BY <1>7, <1>8, LifeTypes DEF Within, Begun
  <1>11. b \in Seq(Within(w, c, d)) /\ e \in Seq(Within(w, c, d))
    BY <1>1, <1>5, <1>7, <1>10, SameRowIsWithin, SeqGrows
  <1>12. Repair(w, x) = b \o e
    BY DEF Repair, b, e, wb, f
  <1>13. After(wb, e) = v
    BY <1>7 DEF After
  <1>14. Repair(w, x) \in Seq(Within(w, c, d)) /\ After(w, Repair(w, x)) = v
    BY <1>11, <1>12, <1>13, AfterBoth DEF wb
  <1>15. Kept(v, c, d)
    <2>1. ASSUME NEW p \in Plans \ (c \cup d), v.plans[p].status = "active"
          PROVE  p \in Carried(v)
      <3>1. p \in Carried(w)
        BY <1>7, <2>1 DEF Kept
      <3>2. p = w.life.plan
        BY <1>1, <3>1, RowCarriesOne DEF Carried
      <3>. QED  BY <1>2, <1>8, <3>2, LifeTypes DEF Carried
    <2>. QED  BY <1>9, <2>1 DEF Kept
  <1>16. Whole(v)
    BY <1>4, <1>7, <1>8, <1>9 DEF Whole
  <1>. QED  BY <1>7, <1>14, <1>15, <1>16 DEF Ends

\* A trip that ends, or one she has set out on and the row does not say so.
LEMMA RoadKeeps ==
  ASSUME NEW c, NEW d, NEW w \in SoundWorlds(c, d), Kept(w, c, d), OnTrip(w),
         w.life.to # w.travel.to,
         NEW f, f = IF w.life = NoRow THEN w.travel ELSE Pending(w.life)
  PROVE  /\ Enter(w, f) \in Seq(Within(w, c, d))
         /\ Ends(w, After(w, Enter(w, f)), c, d)
  <1>. DEFINE v == Enter(w, f)[1]
  <1>1. w \in WorldType /\ w.life \in LifeRow /\ w.travel \in TravelRow /\ Sound(w, c, d)
    BY DEF SoundWorlds, WorldType
  <1>2. /\ f.act \in Acts /\ f.plan \in Plans \cup {None}
        /\ f.plan # None => f.act \in Activities
        /\ w.life # NoRow => f.plan = w.life.plan
    <2>1. CASE w.life = NoRow
      BY <1>1, <2>1 DEF TravelRow, OnTrip
    <2>2. CASE w.life # NoRow
      BY <1>1, <2>2, RowCarriesOne, LifeTypes DEF Pending, Acts
    <2>. QED  BY <2>1, <2>2
  <1>3. MayCarry(w, c, f.plan)
    BY <1>2, CarriedMayBeCarried
  <1>4. \A p \in Plans \ (c \cup d) : p \in Carried(w) =>
          w.life.plan = p /\ w.life # NoRow /\ w.travel.to \in w.exists
    <2>. SUFFICES ASSUME NEW p \in Plans \ (c \cup d), p \in Carried(w)
                  PROVE  w.life.plan = p /\ w.life # NoRow /\ w.travel.to \in w.exists
      OBVIOUS
    <2>1. TripIsTrue(w)
      BY <1>1 DEF Sound
    <2>2. w.life.doing # "travel" /\ w.travel.to \in w.exists
      BY <2>1 DEF TripIsTrue
    <2>3. w.life.plan = p
      BY <1>1, <2>2, RowCarriesOne DEF Carried
    <2>. QED  BY <2>2, <2>3, LifeTypes DEF NoRow
  <1>5. f.plan \in Plans \ (c \cup d) => w.travel.to \in w.exists
    <2>1. CASE w.life = NoRow
      BY <1>3, <1>4, <2>1 DEF MayCarry, Kept
    <2>2. CASE w.life # NoRow
      BY <1>2, <1>4, <2>2, LifeTypes DEF Carried
    <2>. QED  BY <2>1, <2>2
  <1>6. /\ Enter(w, f) = <<v>> /\ v \in SoundWorlds(c, d)
        /\ v.life = RoadRow(w.travel.to, f.act, f.plan) /\ v.travel = w.travel
        /\ v.plans = w.plans
    BY <1>2, <1>3, <1>5, EnterIsSound
  <1>. HIDE DEF v
  <1>7. v.life.doing = "travel" /\ v.life.plan = None /\ v.life.nextPlan = f.plan
    BY <1>6, RowFields
  <1>8. v \in Within(w, c, d)
    BY <1>6, <1>7, LifeTypes DEF Within, Begun
  <1>9. Enter(w, f) \in Seq(Within(w, c, d)) /\ After(w, Enter(w, f)) = v
    BY <1>6, <1>8, JustOne
  <1>10. Kept(v, c, d)
    <2>1. ASSUME NEW p \in Plans \ (c \cup d), v.plans[p].status = "active"
          PROVE  p \in Carried(v)
      <3>1. p \in Carried(w)
        BY <1>6, <2>1 DEF Kept
      <3>. QED  BY <1>2, <1>4, <1>7, <3>1, LifeTypes DEF Carried
    <2>2. OnTrip(v)
      BY <1>6 DEF OnTrip
    <2>. QED  BY <2>1, <2>2 DEF Kept
  <1>11. ~Whole(w)
    BY DEF Whole
  <1>. QED  BY <1>6, <1>7, <1>9, <1>10, <1>11 DEF Ends

\* resumeAfterTravel(): what has waited is begun.
LEMMA ResumeKeeps ==
  ASSUME NEW c, NEW d, NEW w \in SoundWorlds(c, d), Kept(w, c, d), ~OnTrip(w),
         w.life.doing = "travel", HasArrived(w), NEW f,
         f = [act |-> w.life.next, plan |-> w.life.nextPlan]
  PROVE  LET s == Begin(w, f) \o Skipped(Begin(w, f)[1])
         IN s \in Seq(Within(w, c, d)) /\ Ends(w, After(w, s), c, d)
  <1>. DEFINE u == Begin(w, f)[1]
              v == Skipped(u)[1]
  <1>1. w \in WorldType /\ w.life \in LifeRow
    BY DEF SoundWorlds, WorldType
  <1>2. /\ f.act = w.life.next /\ f.plan = w.life.nextPlan /\ f.act \in Acts
        /\ f.plan \in Plans \cup {None}
        /\ f.plan # None => f.act \in Activities
    BY <1>1, RowCarriesOne
  <1>3. MayCarry(w, c, f.plan)
    BY <1>2, CarriedMayBeCarried
  <1>4. /\ Begin(w, f) = <<u>> /\ u \in SoundWorlds(c, d)
        /\ u.life = Row(f.act, f.plan) /\ u.travel = w.travel /\ u.place = w.place
        /\ u.exists = w.exists /\ u.plans = w.plans
    BY <1>2, <1>3, BeginIsSound
  <1>. HIDE DEF u
  <1>5. /\ Skipped(u) = <<v>> /\ v \in SoundWorlds(c, d)
        /\ v.place = w.place /\ v.travel = w.travel /\ v.exists = w.exists
        /\ v.life = u.life
        /\ \A q \in Plans : v.plans[q].status = "active" => w.plans[q].status = "active"
    BY <1>4, WindowsAreSettled
  <1>. HIDE DEF v
  <1>6. u.life.doing = f.act /\ u.life.plan = f.plan /\ u.life.nextPlan = None
    BY <1>4, RowFields
  <1>7. u \in Within(w, c, d) /\ v \in Within(w, c, d)
    BY <1>2, <1>4, <1>5, <1>6 DEF Within, Begun, HasArrived, IsHere
  <1>8. Begin(w, f) \in Seq(Within(w, c, d))
    BY <1>4, <1>7, JustOne
  <1>9. /\ Begin(w, f) \o Skipped(u) \in Seq(Within(w, c, d))
        /\ After(w, Begin(w, f) \o Skipped(u)) = v
    BY <1>5, <1>7, <1>8, OneMore
  <1>11. ~OnTrip(v)
    BY <1>5 DEF OnTrip
  <1>12. Kept(v, c, d)
    <2>1. ASSUME NEW p \in Plans \ (c \cup d), v.plans[p].status = "active"
          PROVE  p \in Carried(v)
      <3>1. p \in Carried(w)
        BY <1>5, <2>1 DEF Kept
      <3>2. p = w.life.nextPlan
        BY <1>1, <3>1, RowCarriesOne, LifeTypes DEF Carried
      <3>. QED  BY <1>2, <1>5, <1>6, <3>2, LifeTypes DEF Carried
    <2>. QED  BY <1>5, <1>6, <2>1, LifeTypes DEF Kept
  <1>13. Whole(v)
    BY <1>5, <1>6, <1>11 DEF Whole
  <1>14. Ends(w, v, c, d)
    BY <1>5, <1>12, <1>13 DEF Ends
  <1>. QED  BY <1>9, <1>14 DEF u

\* A fresh activity, step by step: first the plan, the trip and the row of "now".
LEMMA FreshBegins ==
  ASSUME NEW c, NEW d, NEW w \in SoundWorlds(c, d), ~OnTrip(w),
         \A p \in Plans \ (c \cup d) : p \in Carried(w) => w.life.doing # "travel",
         NEW f \in Choices(w),
         NEW x \in Selectable(w, IF f.act = "sleep" THEN {} ELSE Fits[f.act])
  PROVE  LET a == Started(w, f.plan)     wa == After(w, a)
             b == Going(wa, x, f)        wb == After(wa, b)
             u == Entered(wb, f)[1]
         IN /\ a \in Seq(SameRow(w, c, d)) /\ b \in Seq(SameRow(w, c, d))
            /\ Entered(wb, f) = <<u>> /\ u \in SoundWorlds(c, d) /\ u.exists = w.exists
            /\ u.life # NoRow /\ {u.life.plan, u.life.nextPlan} = {f.plan, None}
            /\ OnTrip(u) => /\ u.life = RoadRow(u.travel.to, f.act, f.plan)
                            /\ u.travel.to \in Places
                            /\ f.plan # None =>
                                 \/ u.travel.to \in Fits[f.act]
                                 \/ Fits[f.act] \cap u.exists = {}
            /\ ~OnTrip(u) => u.life = Row(f.act, f.plan)
            /\ \A q \in Plans \ {f.plan} : u.plans[q] = w.plans[q]
            /\ \A q \in (Plans \ c) \cap Carried(w) : MayCarry(u, c, q)
  <1>. DEFINE a == Started(w, f.plan)
              wa == After(w, a)
              b == Going(wa, x, f)
              wb == After(wa, b)
              e == Entered(wb, f)
              u == e[1]
  <1>1. w \in WorldType
    BY DEF SoundWorlds
  <1>2. /\ f.act \in Acts /\ f.plan \in Plans \cup {None}
        /\ f.plan # None => f.act \in Activities /\ f.plan \in Plans /\ IsDue(w, f.plan)
    BY LifeTypes DEF Choices, Acts
  <1>3. x # None => /\ x \in w.exists
                    /\ f.plan # None => x \in Fits[f.act] \/ Fits[f.act] \cap w.exists = {}
    BY <1>2, PlaceIsChosen, LifeTypes
  <1>4. /\ a \in Seq(SameRow(w, c, d)) /\ wa \in SoundWorlds(c, d)
        /\ MayCarry(wa, c, f.plan) /\ wa.travel = w.travel /\ wa.exists = w.exists
        /\ wa.life = w.life /\ \A q \in Plans \ {f.plan} : wa.plans[q] = w.plans[q]
    <2>1. CASE f.plan = None
      <3>1. a = <<>> /\ wa = w
        BY <2>1 DEF Started, After
      <3>. QED  BY <2>1, <3>1, CarriedMayBeCarried
    <2>2. CASE f.plan # None
      <3>. DEFINE ready == [w EXCEPT !.plans[f.plan].status = "active"]
      <3>1. /\ ready \in SoundWorlds(c, d) /\ MayCarry(ready, c, f.plan)
            /\ ready.travel = w.travel /\ ready.exists = w.exists /\ ready.life = w.life
            /\ \A q \in Plans \ {f.plan} : ready.plans[q] = w.plans[q]
        BY <1>2, <2>2, PlanStarts
      <3>2. a = <<ready>>
        BY <2>2 DEF Started
      <3>. HIDE DEF ready
      <3>3. a \in Seq(SameRow(w, c, d)) /\ wa = ready
        BY <3>1, <3>2, JustOne DEF SameRow
      <3>. QED  BY <3>1, <3>3
    <2>. QED  BY <2>1, <2>2
  <1>. HIDE DEF a, wa
  <1>5. \A p \in Plans \ (c \cup d) : p \in Carried(wa) => wa.life.doing # "travel"
    BY <1>4 DEF Carried
  <1>6. /\ b \in Seq(SameRow(w, c, d)) /\ wb \in SoundWorlds(c, d)
        /\ wb.exists = w.exists /\ wb.life = w.life /\ wb.plans = wa.plans
        /\ MayCarry(wb, c, f.plan) /\ (OnTrip(wb) => wb.travel.to = x /\ x # None)
    <2>1. CASE x \in {None, wa.place}
      <3>1. b = <<>> /\ wb = wa
        BY <2>1 DEF Going, After
      <3>2. ~OnTrip(wb)
        BY <1>4, <3>1 DEF OnTrip
      <3>. QED  BY <1>4, <3>1, <3>2
    <2>2. CASE x \notin {None, wa.place}
      <3>1. b = Departure(wa, x, f)
        BY <2>2 DEF Going
      <3>2. /\ b \in Seq(SameRow(wa, c, d)) /\ wb \in SoundWorlds(c, d)
            /\ wb.travel.to = x /\ wb.exists = wa.exists /\ wb.life = wa.life
            /\ wb.plans = wa.plans /\ wb.told = wa.told
        BY <1>2, <1>3, <1>4, <1>5, <2>2, <3>1, DepartureIsSound
      <3>3. SameRow(wa, c, d) = SameRow(w, c, d)
        BY <1>4 DEF SameRow
      <3>. QED  BY <1>4, <2>2, <3>2, <3>3 DEF MayCarry
    <2>. QED  BY <2>1, <2>2
  <1>. HIDE DEF b, wb
  <1>7. /\ e = <<u>> /\ u \in SoundWorlds(c, d) /\ u.exists = w.exists
        /\ u.life # NoRow /\ u.travel = wb.travel /\ u.plans = wb.plans /\ u.told = wb.told
        /\ OnTrip(wb) => u.life = RoadRow(wb.travel.to, f.act, f.plan)
        /\ ~OnTrip(wb) => u.life = Row(f.act, f.plan)
    <2>1. CASE OnTrip(wb)
      <3>1. e = Enter(wb, f)
        BY <2>1 DEF Entered
      <3>. QED  BY <1>2, <1>3, <1>6, <2>1, <3>1, EnterIsSound
    <2>2. CASE ~OnTrip(wb)
      <3>1. e = Begin(wb, f)
        BY <2>2 DEF Entered
      <3>. QED  BY <1>2, <1>6, <2>2, <3>1, BeginIsSound
    <2>. QED  BY <2>1, <2>2
  <1>. HIDE DEF e, u
  <1>8. OnTrip(u) <=> OnTrip(wb)
    BY <1>7 DEF OnTrip
  <1>9. {u.life.plan, u.life.nextPlan} = {f.plan, None}
    BY <1>7, RowFields
  <1>10. \A q \in (Plans \ c) \cap Carried(w) : MayCarry(u, c, q)
    <2>1. \A q \in Carried(w) : MayCarry(wb, c, q)
      BY <1>6, CarriedMayBeCarried DEF Carried
    <2>. QED  BY <1>7, <2>1 DEF MayCarry
  <1>11. \A q \in Plans \ {f.plan} : u.plans[q] = w.plans[q]
    BY <1>4, <1>6, <1>7
  <1>12. OnTrip(u) => /\ u.life = RoadRow(u.travel.to, f.act, f.plan)
                      /\ u.travel.to \in Places
                      /\ f.plan # None =>
                           u.travel.to \in Fits[f.act] \/ Fits[f.act] \cap u.exists = {}
    <2>1. \A y \in w.exists : y \in Places
      BY <1>1 DEF WorldType
    <2>. QED  BY <1>3, <1>6, <1>7, <1>8, <2>1
  <1>. QED
    BY <1>4, <1>6, <1>7, <1>8, <1>9, <1>10, <1>11, <1>12 DEF a, wa, b, wb, e, u

\* Then the end of the activity before: its plan is no longer active.
LEMMA FreshEnds ==
  ASSUME NEW c, NEW d, NEW u \in SoundWorlds(c, d), u.life # NoRow,
         NEW old \in LifeRow,
         old.plan \in Plans \ c => old.plan \notin Carried(u) /\ MayCarry(u, c, old.plan)
  PROVE  LET s == Finish(u, old)
             v == After(u, s)
         IN /\ s \in Seq(SameRow(u, c, d)) /\ v \in SoundWorlds(c, d)
            /\ v.life = u.life /\ v.travel = u.travel /\ v.exists = u.exists
            /\ \A q \in Plans : v.plans[q].status = "active" =>
                 q # old.plan /\ u.plans[q].status = "active"
  <1>1. CASE old.plan = None
    <2>1. Finish(u, old) = <<>> /\ After(u, Finish(u, old)) = u
      BY <1>1 DEF Finish, After
    <2>. QED  BY <1>1, <2>1, LifeTypes
  <1>2. CASE old.plan # None
    <2>. DEFINE p == old.plan
                said == Said(u, p)
                ended == Ended(said, p)
    <2>1. p \in Plans /\ old.doing \in Activities
      BY <1>2, RowCarriesOne
    <2>2. /\ said \in SoundWorlds(c, d) /\ said.life = u.life
          /\ ended \in SoundWorlds(c, d) /\ ended.life = u.life
          /\ ended.travel = u.travel /\ ended.exists = u.exists
          /\ ended.plans[p].status = "completed"
          /\ \A q \in Plans \ {p} : ended.plans[q] = u.plans[q]
      BY <2>1, OutcomeIsSaid
    <2>3. Finish(u, old) = <<said, ended>>
      BY <1>2, <2>1 DEF Finish, Said, Ended
    <2>. HIDE DEF said, ended
    <2>4. After(u, Finish(u, old)) = ended
      BY <2>3 DEF After
    <2>5. Finish(u, old) \in Seq(SameRow(u, c, d))
      BY <2>2, <2>3 DEF SameRow
    <2>6. \A q \in Plans : ended.plans[q].status = "active" =>
            q # old.plan /\ u.plans[q].status = "active"
      BY <2>2
    <2>. QED  BY <2>2, <2>4, <2>5, <2>6
  <1>. QED  BY <1>1, <1>2

LEMMA FreshKeeps ==
  ASSUME NEW c, NEW d, NEW w \in SoundWorlds(c, d), Kept(w, c, d), ~OnTrip(w),
         ~(w.life.doing = "travel" /\ HasArrived(w)), NEW f \in Choices(w),
         NEW x \in Selectable(w, IF f.act = "sleep" THEN {} ELSE Fits[f.act])
  PROVE  /\ Fresh(w, f, x) \in Seq(Within(w, c, d))
         /\ Ends(w, After(w, Fresh(w, f, x)), c, d)
  <1>. DEFINE a == Started(w, f.plan)
              wa == After(w, a)
              b == Going(wa, x, f)
              wb == After(wa, b)
              e == Entered(wb, f)
              u == e[1]
              g == Finish(u, w.life)
              wg == After(u, g)
              v == Skipped(wg)[1]
  <1>1. w \in WorldType /\ w.life \in LifeRow /\ Sound(w, c, d)
    BY DEF SoundWorlds, WorldType
  <1>2. ASSUME NEW p \in Plans \ (c \cup d), p \in Carried(w)
        PROVE  p = w.life.plan /\ w.life.doing # "travel"
    <2>1. TripIsTrue(w)
      BY <1>1, <1>2 DEF Sound
    <2>2. ~(w.life.nextPlan = p /\ w.life.doing = "travel")
      BY <1>2, <2>1 DEF Kept, TripIsTrue, HasArrived, IsHere
    <2>3. w.life.nextPlan # p
      BY <1>1, <2>2, RowCarriesOne, LifeTypes
    <2>4. p = w.life.plan
      BY <1>2, <2>3 DEF Carried
    <2>. QED  BY <1>1, <2>4, RowCarriesOne, LifeTypes
  <1>3. /\ a \in Seq(SameRow(w, c, d)) /\ b \in Seq(SameRow(w, c, d))
        /\ e = <<u>> /\ u \in SoundWorlds(c, d) /\ u.exists = w.exists
        /\ u.life # NoRow /\ {u.life.plan, u.life.nextPlan} = {f.plan, None}
        /\ OnTrip(u) => /\ u.life = RoadRow(u.travel.to, f.act, f.plan)
                        /\ u.travel.to \in Places
                        /\ f.plan # None =>
                             \/ u.travel.to \in Fits[f.act]
                             \/ Fits[f.act] \cap u.exists = {}
        /\ ~OnTrip(u) => u.life = Row(f.act, f.plan)
        /\ \A q \in Plans \ {f.plan} : u.plans[q] = w.plans[q]
        /\ \A q \in (Plans \ c) \cap Carried(w) : MayCarry(u, c, q)
    BY <1>2, FreshBegins
  <1>. HIDE DEF a, b, e, u
  <1>4. f.plan \notin (Plans \ c) \cap Carried(w) /\ f.plan \in Plans \cup {None}
    <2>1. ASSUME f.plan \in (Plans \ c) \cap Carried(w) PROVE FALSE
      <3>1. IsDue(w, f.plan)
        BY <2>1, LifeTypes DEF Choices
      <3>2. MayCarry(w, c, f.plan)
        BY <2>1, CarriedMayBeCarried
      <3>. QED  BY <2>1, <3>1, <3>2 DEF MayCarry, IsDue
    <2>. QED  BY <2>1 DEF Choices
  <1>5. ASSUME NEW y \in SoundWorlds(c, d), y.life = u.life PROVE y \in Within(w, c, d)
    <2>1. \A p \in Plans \ c : ~(w.life.nextPlan = p /\ y.life.plan = p)
      BY <1>3, <1>4, <1>5, LifeTypes DEF Carried
    <2>. QED  BY <2>1 DEF Within, Begun
  <1>6. u \in Within(w, c, d)
    BY <1>3, <1>5
  <1>7. /\ g \in Seq(SameRow(u, c, d)) /\ wg \in SoundWorlds(c, d)
        /\ wg.life = u.life /\ wg.travel = u.travel /\ wg.exists = u.exists
        /\ \A q \in Plans : wg.plans[q].status = "active" =>
             q # w.life.plan /\ u.plans[q].status = "active"
    <2>1. w.life.plan \in Plans \ c =>
            w.life.plan \notin Carried(u) /\ MayCarry(u, c, w.life.plan)
      BY <1>3, <1>4, LifeTypes DEF Carried
    <2>. QED  BY <1>1, <1>3, <2>1, FreshEnds
  <1>. HIDE DEF g, wg
  <1>8. /\ v \in SoundWorlds(c, d) /\ Skipped(wg) = <<v>>
        /\ v.travel = u.travel /\ v.exists = u.exists /\ v.life = u.life
        /\ \A q \in Plans : v.plans[q].status = "active" => wg.plans[q].status = "active"
    BY <1>7, WindowsAreSettled
  <1>. HIDE DEF v
  <1>9. v \in Within(w, c, d) /\ g \in Seq(Within(w, c, d))
    <2>1. SameRow(u, c, d) \subseteq Within(w, c, d)
      BY <1>5 DEF SameRow
    <2>. QED  BY <1>5, <1>7, <1>8, <2>1, SeqGrows
  <1>10. a \in Seq(Within(w, c, d)) /\ b \in Seq(Within(w, c, d))
    BY <1>1, <1>3, SameRowIsWithin, SeqGrows
  <1>11. Fresh(w, f, x) \in Seq(Within(w, c, d)) /\ After(w, Fresh(w, f, x)) = v
    <2>1. a \o b \in Seq(Within(w, c, d))
      BY <1>10, AfterBoth
    <2>2. a \o b \o e \in Seq(Within(w, c, d))
      BY <1>3, <1>6, <2>1, OneMore
    <2>3. a \o b \o e \o g \in Seq(Within(w, c, d))
      BY <1>9, <2>2, AfterBoth
    <2>4. ASSUME NEW h \in Seq(Within(w, c, d))
          PROVE  h \o Skipped(wg) \in Seq(Within(w, c, d)) /\ After(w, h \o Skipped(wg)) = v
      BY <1>8, <1>9, OneMore
    <2>5. Fresh(w, f, x) = a \o b \o e \o g \o Skipped(wg)
      BY DEF Fresh, a, wa, b, wb, e, u, g, wg
    <2>. QED  BY <2>3, <2>4, <2>5
  <1>12. Kept(v, c, d)
    <2>1. ASSUME NEW p \in Plans \ (c \cup d), v.plans[p].status = "active"
          PROVE  p \in Carried(v)
      <3>1. u.plans[p].status = "active" /\ p # w.life.plan
        BY <1>7, <1>8, <2>1
      <3>2. p = f.plan
        <4>. SUFFICES ASSUME p # f.plan PROVE FALSE
          OBVIOUS
        <4>1. w.plans[p].status = "active"
          BY <1>3, <3>1
        <4>2. p \in Carried(w)
          BY <4>1 DEF Kept
        <4>. QED  BY <1>2, <3>1, <4>2
      <3>. QED  BY <1>3, <1>8, <3>2, LifeTypes DEF Carried
    <2>2. OnTrip(v) \/ v.life.nextPlan = None
      BY <1>3, <1>8, RowFields DEF OnTrip
    <2>. QED  BY <2>1, <2>2, LifeTypes DEF Kept
  <1>13. Whole(v)
    <2>1. CASE OnTrip(u)
      <3>1. /\ v.life.doing = "travel" /\ v.life.to = u.travel.to
            /\ v.life.next = f.act /\ v.life.nextPlan = f.plan
        BY <1>3, <1>8, <2>1, RowFields
      <3>. QED  BY <1>3, <1>8, <2>1, <3>1 DEF Whole
    <2>2. CASE ~OnTrip(u)
      <3>1. v.life.nextPlan = None /\ ~OnTrip(v)
        BY <1>3, <1>8, <2>2, RowFields DEF OnTrip
      <3>. QED  BY <3>1 DEF Whole
    <2>. QED  BY <2>1, <2>2
  <1>. QED  BY <1>8, <1>11, <1>12, <1>13 DEF Ends

\* Every outcome of a tick.
LEMMA TicksKeep ==
  ASSUME NEW c, NEW d, NEW w \in SoundWorlds(c, d), Kept(w, c, d), NEW t \in Ticks(w)
  PROVE  t \in Seq(Within(w, c, d)) /\ Ends(w, After(w, t), c, d)
  <1>1. w \in WorldType /\ w.life \in LifeRow
    BY DEF SoundWorlds, WorldType
  <1>2. ASSUME Whole(w) \/ w.life.doing # "travel" => Whole(w), t = <<>>
        PROVE  t \in Seq(Within(w, c, d)) /\ Ends(w, After(w, t), c, d)
    BY <1>2 DEF After, Ends
  <1>3. CASE OnTrip(w) /\ w.life.to = w.travel.to
    <2>1. t = <<>>
      BY <1>3 DEF Ticks
    <2>2. w.life.doing = "travel"
      BY <1>1, <1>3, RowCarriesOne DEF OnTrip
    <2>. QED  BY <1>2, <2>1, <2>2
  <1>4. CASE OnTrip(w) /\ w.life.to # w.travel.to
    <2>1. t = Enter(w, IF w.life = NoRow THEN w.travel ELSE Pending(w.life))
      BY <1>4 DEF Ticks
    <2>. QED  BY <1>4, <2>1, RoadKeeps
  <1>5. CASE ~OnTrip(w) /\ w.life.doing = "travel" /\ HasArrived(w)
    <2>. DEFINE f == [act |-> w.life.next, plan |-> w.life.nextPlan]
    <2>1. ~IsOngoing(w)
      BY <1>5, LifeTypes DEF IsOngoing
    <2>2. t = Begin(w, f) \o Skipped(Begin(w, f)[1])
      BY <1>5, <2>1 DEF Ticks
    <2>. QED  BY <1>5, <2>2, ResumeKeeps
  <1>6. CASE /\ ~OnTrip(w) /\ ~(w.life.doing = "travel" /\ HasArrived(w)) /\ IsOngoing(w)
    <2>1. w.life.doing \in Activities /\ Whole(w)
      BY <1>1, <1>6, RowCarriesOne, LifeTypes DEF IsOngoing, Whole
    <2>2. t = <<>> \/ \E x \in Selectable(w, Fits[w.life.doing]) :
                        x \notin {None, w.place} /\ t = Repair(w, x)
      BY <1>6 DEF Ticks
    <2>. QED  BY <1>2, <2>1, <2>2, RepairKeeps
  <1>7. CASE /\ ~OnTrip(w) /\ ~(w.life.doing = "travel" /\ HasArrived(w)) /\ ~IsOngoing(w)
    <2>1. PICK f \in Choices(w) :
            \E x \in Selectable(w, IF f.act = "sleep" THEN {} ELSE Fits[f.act]) :
              t = Fresh(w, f, x)
      BY <1>7 DEF Ticks
    <2>. QED  BY <1>7, <2>1, FreshKeeps
  <1>. QED  BY <1>3, <1>4, <1>5, <1>6, <1>7

-------------------------------------------------------------------------------
(***************************************************************************)
(* From worlds to states.                                                  *)
(***************************************************************************)
LEMMA WorldFields ==
  /\ World.place = place /\ World.travel = travel /\ World.visits = visits
  /\ World.exists = exists /\ World.life = life /\ World.plans = plans
  /\ World.told = told
  BY DEF World

LEMMA WorldFieldsNext ==
  /\ World'.place = place' /\ World'.travel = travel' /\ World'.visits = visits'
  /\ World'.exists = exists' /\ World'.life = life' /\ World'.plans = plans'
  /\ World'.told = told'
  BY DEF World

LEMMA WhatIsCommitted ==
  ASSUME NEW w \in WorldType, Commit(w)
  PROVE  World' = w
  BY DEF Commit, World, WorldType

LEMMA SoundGrows ==
  ASSUME NEW c, NEW d, NEW c2, NEW d2, c \subseteq c2, d \subseteq d2,
         NEW w \in SoundWorlds(c, d)
  PROVE  w \in SoundWorlds(c2, d2)
  BY DEF SoundWorlds, Sound

LEMMA InvariantNext ==
  ASSUME LifeInvariant, NEW v \in SoundWorlds(touched, dropped), World' = v,
         touched \subseteq touched', touched' \subseteq Plans,
         dropped \subseteq dropped', dropped' \subseteq Plans, torn' \in BOOLEAN,
         Kept(v, touched', dropped'), ~torn' => Whole(v)
  PROVE  LifeInvariant'
  <1>1. v \in SoundWorlds(touched', dropped')
    BY SoundGrows
  <1>2. World' \in SoundWorlds(touched', dropped') /\ Kept(World', touched', dropped')
        /\ (~torn' => Whole(World'))
    BY <1>1
  <1>. QED  BY <1>2 DEF LifeInvariant

\* What the invariant says of the world an operation begins in.
LEMMA InvariantNow ==
  ASSUME LifeInvariant
  PROVE  /\ World \in WorldType /\ World \in SoundWorlds(touched, dropped)
         /\ Kept(World, touched, dropped) /\ (~torn => Whole(World))
         /\ life \in LifeRow /\ touched \subseteq Plans /\ dropped \subseteq Plans
         /\ torn \in BOOLEAN
  <1>1. World \in WorldType /\ World.life \in LifeRow
    BY DEF LifeInvariant, SoundWorlds, WorldType
  <1>. QED  BY <1>1, WorldFields DEF LifeInvariant

LEMMA SettledKeeps ==
  ASSUME NEW c, NEW d, NEW w \in SoundWorlds(c, d), Kept(w, c, d)
  PROVE  /\ Settled(w) \in SoundWorlds(c, d) /\ Kept(Settled(w), c, d)
         /\ Whole(w) => Whole(Settled(w))
  <1>. DEFINE v == Settled(w)
  <1>1. /\ v \in SoundWorlds(c, d) /\ v.life = w.life /\ v.plans = w.plans
        /\ v.exists = w.exists
        /\ w.travel.due => OnTrip(w) /\ v.place = w.travel.to /\ ~OnTrip(v)
        /\ ~w.travel.due => v = w
    BY ArrivalIsSound
  <1>. HIDE DEF v
  <1>2. w.life \in LifeRow /\ Sound(w, c, d)
    BY DEF SoundWorlds, WorldType
  <1>3. CASE ~w.travel.due
    BY <1>1, <1>3 DEF v
  <1>4. CASE w.travel.due
    <2>1. ASSUME NEW p \in Plans \ (c \cup d), v.life.nextPlan = p
          PROVE  v.place = v.life.to
      <3>1. p \in Carried(w) /\ w.life.doing = "travel"
        BY <1>1, <1>2, <2>1, RowCarriesOne, LifeTypes DEF Carried
      <3>2. w.travel.to = w.life.to
        BY <1>1, <1>2, <1>4, <3>1 DEF Sound, TripIsTrue
      <3>. QED  BY <1>1, <1>4, <3>2
    <2>2. Kept(v, c, d)
      BY <1>1, <2>1 DEF Kept, Carried
    <2>3. Whole(w) => Whole(v)
      BY <1>1, <1>4 DEF Whole
    <2>. QED  BY <1>1, <2>2, <2>3 DEF v
  <1>. QED  BY <1>3, <1>4

\* The worlds of a tick, and the one it leaves behind.
LEMMA TickIsSound ==
  ASSUME LifeInvariant, NEW s \in TickWrites
  PROVE  /\ s \in Seq(Within(World, touched, dropped))
         /\ Ends(World, After(World, s), touched, dropped)
  <1>. DEFINE w == Settled(World)
              S == Within(World, touched, dropped)
  <1>1. PICK t \in Ticks(w) : s = Arrival(World) \o t
    BY DEF TickWrites
  <1>2. /\ World \in WorldType /\ World \in SoundWorlds(touched, dropped)
        /\ Kept(World, touched, dropped)
    BY InvariantNow
  <1>3. /\ Arrival(World) \in Seq(SameRow(World, touched, dropped))
        /\ w \in SoundWorlds(touched, dropped) /\ Kept(w, touched, dropped)
        /\ w.life = World.life /\ w.exists = World.exists
        /\ Whole(World) => Whole(w)
    BY <1>2, ArrivalIsSound, SettledKeeps
  <1>4. /\ t \in Seq(Within(w, touched, dropped))
        /\ Ends(w, After(w, t), touched, dropped)
    BY <1>3, TicksKeep
  <1>5. Within(w, touched, dropped) = S
    BY <1>3 DEF Within, Begun
  <1>6. Arrival(World) \in Seq(S) /\ t \in Seq(S)
    BY <1>2, <1>3, <1>4, <1>5, SameRowIsWithin, SeqGrows
  <1>7. s \in Seq(S) /\ After(World, s) = After(After(World, Arrival(World)), t)
    BY <1>1, <1>6, AfterBoth
  <1>8. After(World, s) = After(w, t)
    BY <1>7 DEF Settled
  <1>. QED  BY <1>3, <1>4, <1>7, <1>8 DEF Ends

LEMMA CutShortIsSound ==
  ASSUME LifeInvariant, NEW w \in CutShort
  PROVE  w \in Within(World, touched, dropped)
  <1>. DEFINE S == Within(World, touched, dropped)
  <1>1. /\ World \in WorldType /\ World \in SoundWorlds(touched, dropped)
        /\ SameRow(World, touched, dropped) \subseteq S
    BY InvariantNow, SameRowIsWithin
  <1>2. World \in S
    BY <1>1 DEF SameRow
  <1>3. ASSUME NEW s \in TickWrites PROVE Prefixes(s) \subseteq S
    <2>1. s \in Seq(S)
      BY TickIsSound
    <2>. QED  BY <1>2, <2>1, PrefixIsOne
  <1>4. ASSUME NEW x \in exists PROVE Prefixes(Overridden(World, x)) \subseteq S
    <2>1. x \in World.exists
      BY WorldFields
    <2>2. Overridden(World, x) \in Seq(SameRow(World, touched, dropped))
      BY <1>1, <2>1, OverrideIsSound
    <2>3. Overridden(World, x) \in Seq(S)
      BY <1>1, <2>2, SeqGrows
    <2>. QED  BY <1>2, <2>3, PrefixIsOne
  <1>5. \/ w = World
        \/ \E s \in TickWrites : w \in Prefixes(s)
        \/ \E x \in exists : w \in Prefixes(Overridden(World, x))
    <2>1. \/ w = World
          \/ w \in UNION {Prefixes(s) : s \in TickWrites}
          \/ w \in UNION {Prefixes(Overridden(World, x)) : x \in exists}
      BY DEF CutShort
    <2>. QED  BY <2>1
  <1>. HIDE DEF S
  <1>. QED  BY <1>2, <1>3, <1>4, <1>5 DEF S

-------------------------------------------------------------------------------
(***************************************************************************)
(* The invariant.                                                          *)
(***************************************************************************)
LEMMA LifeBegins == Init => LifeInvariant
  <1>. SUFFICES ASSUME Init PROVE LifeInvariant
    OBVIOUS
  <1>1. /\ World.place = Home /\ World.travel = NoTravel /\ World.exists = Places
        /\ World.visits = [x \in Places |-> IF x = Home THEN 1 ELSE 0]
        /\ World.life = NoRow
        /\ World.plans = [p \in Plans |-> [status |-> None, start |-> "ahead"]]
        /\ World.told = [p \in Plans |-> 0]
    BY WorldFields DEF Init, LocationInit
  <1>2. World \in WorldType
    <2>1. [p \in Plans |-> [status |-> None, start |-> "ahead"]] \in [Plans -> PlanRow]
      BY DEF PlanRow
    <2>2. /\ [x \in Places |-> IF x = Home THEN 1 ELSE 0] \in [Places -> Nat]
          /\ [p \in Plans |-> 0] \in [Plans -> Nat]
      OBVIOUS
    <2>3. /\ place \in Places /\ travel \in TravelRow /\ visits \in [Places -> Nat]
          /\ exists \in SUBSET Places /\ life \in LifeRow /\ plans \in [Plans -> PlanRow]
          /\ told \in [Plans -> Nat]
      BY <1>1, <2>1, <2>2, LifeTypes, WorldFields
    <2>. QED  BY <2>3 DEF World, WorldType
  <1>3. ~OnTrip(World)
    BY <1>1 DEF OnTrip, NoTravel
  <1>4. Closed(World)
    BY <1>1, <1>3 DEF Closed
  <1>5. Carried(World) = {}
    BY <1>1 DEF Carried, NoRow
  <1>6. ASSUME NEW p \in Plans
        PROVE  PlanIsTrue(World, p) /\ World.plans[p].status # "active"
    <2>1. World.plans[p].status = None /\ World.told[p] = 0
      BY <1>1
    <2>. QED  BY <1>1, <1>5, <2>1, LifeTypes DEF PlanIsTrue, NoTravel, None
  <1>7. Kept(World, touched, dropped) /\ Whole(World)
    BY <1>1, <1>3, <1>6, LifeTypes DEF Kept, Whole, NoRow
  <1>. QED
    BY <1>2, <1>4, <1>5, <1>6, <1>7 DEF LifeInvariant, SoundWorlds, Sound, Init

LEMMA TickKeeps ==
  ASSUME LifeInvariant, Tick
  PROVE  LifeInvariant'
  <1>1. PICK s \in TickWrites : Commit(After(World, s))
    BY DEF Tick
  <1>. DEFINE v == After(World, s)
  <1>2. Ends(World, v, touched, dropped)
    BY TickIsSound
  <1>. HIDE DEF v
  <1>3. v \in WorldType
    BY <1>2 DEF Ends, SoundWorlds
  <1>4. World' = v
    BY <1>1, <1>3, WhatIsCommitted DEF v
  <1>5. /\ torn' = (torn /\ life'.doing = "travel") /\ touched' = touched
        /\ dropped' = dropped
    BY DEF Tick
  <1>6. ~torn' => Whole(v)
    BY <1>2, <1>4, <1>5, InvariantNow, WorldFieldsNext DEF Ends
  <1>7. torn' \in BOOLEAN
    BY <1>5, InvariantNow
  <1>. QED  BY <1>2, <1>4, <1>5, <1>6, <1>7, InvariantNow, InvariantNext DEF Ends

LEMMA ReadKeeps ==
  ASSUME LifeInvariant, Read
  PROVE  LifeInvariant'
  <1>1. /\ Settled(World) \in SoundWorlds(touched, dropped)
        /\ Kept(Settled(World), touched, dropped)
        /\ Whole(World) => Whole(Settled(World))
    BY InvariantNow, SettledKeeps
  <1>2. World' = Settled(World)
    BY <1>1, WhatIsCommitted DEF Read, SoundWorlds
  <1>3. UNCHANGED <<touched, dropped, torn>>
    BY DEF Read, history
  <1>. QED  BY <1>1, <1>2, <1>3, InvariantNow, InvariantNext

\* Plans are written: only those of the admin become active or completed.
LEMMA PlansKeep ==
  ASSUME LifeInvariant, plans' \in [Plans -> PlanRow],
         UNCHANGED <<locationVars, life, told, dropped, torn>>,
         touched \subseteq touched', touched' \subseteq Plans,
         \A p \in Plans \ touched' : plans'[p].status # plans[p].status =>
           plans[p].status = None /\ plans'[p].status = "planned"
  PROVE  LifeInvariant'
  <1>1. /\ World'.place = World.place /\ World'.travel = World.travel
        /\ World'.visits = World.visits /\ World'.exists = World.exists
        /\ World'.life = World.life /\ World'.told = World.told
        /\ World'.plans = plans' /\ World.plans = plans
    BY WorldFields, WorldFieldsNext DEF locationVars
  <1>2. /\ World \in WorldType /\ World \in SoundWorlds(touched, dropped)
        /\ Kept(World, touched, dropped) /\ (~torn => Whole(World))
    BY InvariantNow
  <1>3. World' \in WorldType
    BY <1>1, <1>2, WorldFieldsNext DEF World, WorldType
  <1>4. Closed(World') /\ Sound(World, touched', dropped)
    BY <1>1, <1>2 DEF SoundWorlds, Sound, Closed, OnTrip
  <1>5. ASSUME NEW p \in Plans \ touched' PROVE PlanIsTrue(World', p)
    <2>1. PlanIsTrue(World, p)
      BY <1>4 DEF Sound
    <2>. QED  BY <1>1, <2>1 DEF PlanIsTrue, Carried, None
  <1>6. ASSUME NEW p \in Plans \ (touched' \cup dropped), p \in Carried(World')
        PROVE  TripIsTrue(World')
    <2>1. TripIsTrue(World)
      BY <1>1, <1>4, <1>6 DEF Sound, Carried
    <2>. QED  BY <1>1, <2>1 DEF TripIsTrue, OnTrip
  <1>7. Kept(World', touched', dropped)
    BY <1>1, <1>2 DEF Kept, Carried, OnTrip
  <1>8. ~torn' => Whole(World')
    BY <1>1, <1>2 DEF Whole, OnTrip
  <1>. QED
    BY <1>3, <1>4, <1>5, <1>6, <1>7, <1>8, InvariantNow
    DEF LifeInvariant, SoundWorlds, Sound

\* Only the row of "now" or of the trip is marked: it leads and carries as before.
LEMMA MarksKeep ==
  ASSUME LifeInvariant, UNCHANGED <<place, visits, exists, plans, told, history>>,
         travel' \in TravelRow, travel'.to = travel.to, travel'.plan = travel.plan,
         life' \in LifeRow, life' = NoRow <=> life = NoRow,
         life'.doing = life.doing, life'.plan = life.plan, life'.to = life.to,
         life'.next = life.next, life'.nextPlan = life.nextPlan
  PROVE  LifeInvariant'
  <1>1. /\ World'.place = World.place /\ World'.visits = World.visits
        /\ World'.exists = World.exists /\ World'.plans = World.plans
        /\ World'.told = World.told /\ World'.travel = travel' /\ World'.life = life'
        /\ World.travel = travel /\ World.life = life
    BY WorldFields, WorldFieldsNext
  <1>2. /\ World \in WorldType /\ World \in SoundWorlds(touched, dropped)
        /\ Kept(World, touched, dropped) /\ (~torn => Whole(World))
    BY InvariantNow
  <1>3. World' \in WorldType
    BY <1>1, <1>2, WorldFieldsNext DEF World, WorldType
  <1>4. (OnTrip(World') <=> OnTrip(World)) /\ Carried(World') = Carried(World)
    BY <1>1 DEF OnTrip, Carried
  <1>5. Closed(World') /\ Sound(World, touched, dropped)
    BY <1>1, <1>2, <1>4 DEF SoundWorlds, Sound, Closed
  <1>6. ASSUME NEW p \in Plans \ touched PROVE PlanIsTrue(World', p)
    <2>1. PlanIsTrue(World, p)
      BY <1>5 DEF Sound
    <2>. QED  BY <1>1, <1>4, <2>1 DEF PlanIsTrue
  <1>7. TripIsTrue(World) => TripIsTrue(World')
    BY <1>1, <1>4 DEF TripIsTrue
  <1>8. World' \in SoundWorlds(touched, dropped)
    BY <1>3, <1>4, <1>5, <1>6, <1>7 DEF SoundWorlds, Sound
  <1>9. Kept(World', touched, dropped) /\ (Whole(World) => Whole(World'))
    BY <1>1, <1>2, <1>4 DEF Kept, Whole
  <1>10. UNCHANGED <<touched, dropped, torn>>
    BY DEF history
  <1>. QED  BY <1>2, <1>8, <1>9, <1>10, InvariantNow, InvariantNext

LEMMA PlanActionsKeep ==
  ASSUME LifeInvariant, NEW p \in Plans, MakePlan(p) \/ StartComes(p) \/ PatchPlan(p)
  PROVE  LifeInvariant'
  <1>1. plans \in [Plans -> PlanRow] /\ touched \subseteq Plans
    BY InvariantNow, WorldFields DEF WorldType
  <1>2. CASE MakePlan(p)
    <2>1. plans' \in [Plans -> PlanRow]
      BY <1>1, <1>2 DEF MakePlan, PlanRow
    <2>2. /\ UNCHANGED <<locationVars, life, told, touched, dropped, torn>>
          /\ \A q \in Plans : plans'[q].status # plans[q].status =>
               plans[q].status = None /\ plans'[q].status = "planned"
      BY <1>1, <1>2 DEF MakePlan, history, PlanRow
    <2>. QED  BY <1>1, <2>1, <2>2, PlansKeep
  <1>3. CASE StartComes(p)
    <2>1. plans' \in [Plans -> PlanRow]
      BY <1>1, <1>3 DEF StartComes, PlanRow
    <2>2. /\ UNCHANGED <<locationVars, life, told, touched, dropped, torn>>
          /\ \A q \in Plans : plans'[q].status = plans[q].status
      BY <1>1, <1>3 DEF StartComes, history, PlanRow
    <2>. QED  BY <1>1, <2>1, <2>2, PlansKeep
  <1>4. CASE PatchPlan(p)
    <2>1. PICK s \in {"planned", "active", "completed", "cancelled"} :
            \E start \in {"ahead", "none"} :
              plans' = [plans EXCEPT ![p] = [status |-> s, start |-> start]]
      BY <1>4 DEF PatchPlan
    <2>2. /\ plans' \in [Plans -> PlanRow]
          /\ \A q \in Plans \ {p} : plans'[q] = plans[q]
      BY <1>1, <2>1 DEF PlanRow
    <2>3. UNCHANGED <<locationVars, life, told, dropped, torn>> /\ touched' = touched \cup {p}
      BY <1>4 DEF PatchPlan
    <2>. QED  BY <1>1, <2>2, <2>3, PlansKeep
  <1>. QED  BY <1>2, <1>3, <1>4

LEMMA TimeKeeps ==
  ASSUME LifeInvariant, TripComesDue \/ ActivityRunsOut
  PROVE  LifeInvariant'
  <1>1. life \in LifeRow /\ travel \in TravelRow
    BY InvariantNow, WorldFields DEF WorldType
  <1>2. CASE TripComesDue
    <2>1. travel' \in TravelRow /\ travel'.to = travel.to /\ travel'.plan = travel.plan
      BY <1>1, <1>2 DEF TripComesDue, Arriving, TravelRow
    <2>2. UNCHANGED <<place, visits, exists, plans, told, history>> /\ life' = life
      BY <1>2 DEF TripComesDue, lifeVars
    <2>. QED  BY <1>1, <2>1, <2>2, MarksKeep
  <1>3. CASE ActivityRunsOut
    <2>1. life.doing \in Activities /\ life' = [life EXCEPT !.over = TRUE]
      BY <1>3 DEF ActivityRunsOut
    <2>2. /\ life'.doing = life.doing /\ life'.plan = life.plan /\ life'.to = life.to
          /\ life'.next = life.next /\ life'.nextPlan = life.nextPlan
          /\ life # NoRow /\ life' # NoRow
      BY <1>1, <2>1, LifeTypes DEF LifeRow, NoRow
    <2>3. life' \in LifeRow
      BY <1>1, <2>1, <2>2 DEF LifeRow
    <2>4. UNCHANGED <<place, visits, exists, plans, told, history>> /\ travel' = travel
      BY <1>3 DEF ActivityRunsOut, locationVars
    <2>. QED  BY <1>1, <2>2, <2>3, <2>4, MarksKeep
  <1>. QED  BY <1>2, <1>3

\* What waits behind a trip that was called off is lost, and known to be.
LEMMA CallingOffKeeps ==
  ASSUME NEW c, NEW d, NEW w, NEW v, Kept(w, c, d),
         v.life \in LifeRow, v.life = w.life, v.plans = w.plans
  PROVE  Kept(v, c, d \cup CalledOff(v))
  <1>1. ASSUME NEW p \in Plans \ (c \cup d \cup CalledOff(v)),
               v.life.nextPlan = p, ~OnTrip(v)
        PROVE  v.place = v.life.to
    <2>1. v.life.doing = "travel" /\ p \in Carried(v)
      BY <1>1, RowCarriesOne, LifeTypes DEF Carried
    <2>. QED  BY <1>1, <2>1 DEF CalledOff, HasArrived
  <1>. QED  BY <1>1 DEF Kept, Carried

LEMMA CarriedIsOfPlans ==
  ASSUME NEW w, w.life \in LifeRow
  PROVE  Carried(w) \subseteq Plans /\ CalledOff(w) \subseteq Plans
  BY RowCarriesOne DEF Carried, CalledOff

LEMMA OverrideKeeps ==
  ASSUME LifeInvariant, NEW x \in Places, Override(x)
  PROVE  LifeInvariant'
  <1>. DEFINE v == After(World, Overridden(World, x))
  <1>1. /\ x \in World.exists /\ Commit(v) /\ dropped' = dropped \cup CalledOff(World')
        /\ UNCHANGED <<touched, torn>>
    BY WorldFields DEF Override, CalledOff, Carried, HasArrived, IsHere, OnTrip
  <1>2. /\ World \in WorldType /\ World \in SoundWorlds(touched, dropped)
        /\ Kept(World, touched, dropped) /\ (~torn => Whole(World))
    BY InvariantNow
  <1>3. /\ v \in SoundWorlds(touched, dropped) /\ ~OnTrip(v) /\ v.life = World.life
        /\ v.plans = World.plans /\ v.exists = World.exists
    BY <1>1, <1>2, OverrideIsSound
  <1>. HIDE DEF v
  <1>4. v \in WorldType /\ v.life \in LifeRow
    BY <1>3 DEF SoundWorlds, WorldType
  <1>5. World' = v
    BY <1>1, <1>4, WhatIsCommitted
  <1>6. Kept(v, touched', dropped') /\ dropped' \subseteq Plans
    BY <1>1, <1>2, <1>3, <1>4, <1>5, CallingOffKeeps, CarriedIsOfPlans, InvariantNow
  <1>7. ~torn' => Whole(v)
    BY <1>1, <1>2, <1>3 DEF Whole
  <1>. QED  BY <1>1, <1>3, <1>5, <1>6, <1>7, InvariantNow, InvariantNext

LEMMA ChangeCityKeeps ==
  ASSUME LifeInvariant, ChangeCity
  PROVE  LifeInvariant'
  <1>. DEFINE v == [World EXCEPT !.travel = NoTravel]
  <1>1. /\ travel' = NoTravel /\ dropped' = dropped \cup CalledOff(World')
        /\ UNCHANGED <<place, visits, exists, life, plans, told, touched, torn>>
    BY DEF ChangeCity, CalledOff, Carried, HasArrived, IsHere, OnTrip, lifeVars
  <1>2. /\ World \in WorldType /\ World \in SoundWorlds(touched, dropped)
        /\ Kept(World, touched, dropped) /\ (~torn => Whole(World))
    BY InvariantNow
  <1>3. /\ v \in SoundWorlds(touched, dropped) /\ ~OnTrip(v) /\ v.life = World.life
        /\ v.plans = World.plans /\ v.exists = World.exists
    BY <1>2, TripEnds
  <1>4. World' = v
    BY <1>1 DEF World
  <1>. HIDE DEF v
  <1>5. v.life \in LifeRow
    BY <1>3 DEF SoundWorlds, WorldType
  <1>6. Kept(v, touched', dropped') /\ dropped' \subseteq Plans
    BY <1>1, <1>2, <1>3, <1>4, <1>5, CallingOffKeeps, CarriedIsOfPlans, InvariantNow
  <1>7. ~torn' => Whole(v)
    BY <1>1, <1>2, <1>3 DEF Whole
  <1>. QED  BY <1>1, <1>3, <1>4, <1>6, <1>7, InvariantNow, InvariantNext

LEMMA DeletePlaceKeeps ==
  ASSUME LifeInvariant, NEW x \in Places, DeletePlace(x)
  PROVE  LifeInvariant'
  <1>. DEFINE w == Settled(World)
              v == [w EXCEPT !.exists = @ \ {x}]
  <1>1. /\ World \in WorldType /\ World \in SoundWorlds(touched, dropped)
        /\ Kept(World, touched, dropped) /\ (~torn => Whole(World))
    BY InvariantNow
  <1>2. /\ w \in SoundWorlds(touched, dropped) /\ Kept(w, touched, dropped)
        /\ w.life = World.life /\ (Whole(World) => Whole(w))
        /\ w.travel.to # None => w.travel.to = World.travel.to
    BY <1>1, ArrivalIsSound, SettledKeeps DEF OnTrip
  <1>. HIDE DEF w
  <1>3. w \in WorldType /\ Sound(w, touched, dropped)
    BY <1>2 DEF SoundWorlds
  <1>4. /\ v.place = w.place /\ v.travel = w.travel /\ v.visits = w.visits
        /\ v.life = w.life /\ v.plans = w.plans /\ v.told = w.told
        /\ v.exists = w.exists \ {x} /\ v \in WorldType
    BY <1>3 DEF WorldType
  <1>. HIDE DEF v
  <1>5. Commit(v) /\ UNCHANGED <<touched, torn>>
    BY DEF DeletePlace, w, v
  <1>6. World' = v
    BY <1>4, <1>5, WhatIsCommitted
  <1>7. /\ dropped' = IF x \in {World.life.to, World.travel.to}
                        THEN dropped \cup Carried(World) ELSE dropped
        /\ dropped' \subseteq Plans
    BY InvariantNow, WorldFields, CarriedIsOfPlans DEF DeletePlace
  <1>8. Carried(v) = Carried(World) /\ Carried(v) = Carried(w) /\ (OnTrip(v) <=> OnTrip(w))
    BY <1>2, <1>4 DEF Carried, OnTrip
  <1>9. Closed(v)
    BY <1>3, <1>4, <1>8 DEF Sound, Closed
  <1>10. ASSUME NEW p \in Plans \ touched PROVE PlanIsTrue(v, p)
    <2>1. PlanIsTrue(w, p)
      BY <1>3 DEF Sound
    <2>. QED  BY <1>4, <1>8, <2>1 DEF PlanIsTrue
  <1>11. ASSUME NEW p \in Plans \ (touched \cup dropped'), p \in Carried(v)
         PROVE  TripIsTrue(v)
    <2>1. p \notin dropped /\ x \notin {World.life.to, World.travel.to}
      BY <1>7, <1>8, <1>11
    <2>2. TripIsTrue(w)
      BY <1>3, <1>8, <1>11, <2>1 DEF Sound
    <2>. QED  BY <1>2, <1>4, <1>8, <2>1, <2>2 DEF TripIsTrue, OnTrip
  <1>12. v \in SoundWorlds(touched, dropped')
    BY <1>4, <1>9, <1>10, <1>11 DEF SoundWorlds, Sound
  <1>13. Kept(v, touched, dropped')
    BY <1>2, <1>4, <1>7, <1>8 DEF Kept
  <1>14. ~torn => Whole(v)
    BY <1>1, <1>2, <1>4, <1>8 DEF Whole
  <1>. QED
    BY <1>5, <1>6, <1>7, <1>12, <1>13, <1>14, InvariantNow DEF LifeInvariant

LEMMA CrashKeepsLife ==
  ASSUME LifeInvariant, Crash
  PROVE  LifeInvariant'
  <1>1. PICK w \in CutShort : Commit(Normalized(w)) /\ torn' = (torn \/ World' # World)
    BY DEF Crash
  <1>. DEFINE v == Normalized(w)
  <1>2. w \in SoundWorlds(touched, dropped)
    BY CutShortIsSound DEF Within
  <1>3. v \in SoundWorlds(touched, dropped)
    BY <1>2, BootIsSound
  <1>4. v \in WorldType /\ v.life \in LifeRow
    BY <1>3 DEF SoundWorlds, WorldType
  <1>5. World' = v
    BY <1>1, <1>4, WhatIsCommitted
  <1>. HIDE DEF v
  <1>6. /\ dropped' = dropped \cup CalledOff(v) \cup
             {p \in Plans : v.plans[p].status = "active" /\ p \notin Carried(v)}
        /\ touched' = touched
    <2>1. /\ dropped' = dropped \cup CalledOff(World') \cup
               {p \in Plans : plans'[p].status = "active" /\ p \notin Carried(World')}
          /\ touched' = touched
      BY DEF Crash, CalledOff, Carried, HasArrived, IsHere, OnTrip
    <2>. QED  BY <1>5, <2>1, WorldFieldsNext
  <1>7. dropped \subseteq dropped' /\ dropped' \subseteq Plans
    BY <1>4, <1>6, CarriedIsOfPlans, InvariantNow
  <1>8. Kept(v, touched', dropped')
    <2>1. ASSUME NEW p \in Plans \ (touched' \cup dropped'), v.plans[p].status = "active"
          PROVE  p \in Carried(v)
      BY <1>6, <2>1
    <2>2. ASSUME NEW p \in Plans \ (touched' \cup dropped'),
                 v.life.nextPlan = p, ~OnTrip(v)
          PROVE  v.place = v.life.to
      <3>1. v.life.doing = "travel" /\ p \in Carried(v)
        BY <1>4, <2>2, RowCarriesOne, LifeTypes DEF Carried
      <3>2. p \notin CalledOff(v)
        BY <1>6, <2>2
      <3>. QED  BY <2>2, <3>1, <3>2 DEF CalledOff, HasArrived
    <2>. QED  BY <2>1, <2>2 DEF Kept
  <1>9. (~torn' => Whole(v)) /\ torn' \in BOOLEAN
    BY <1>1, <1>5, InvariantNow
  <1>. QED  BY <1>3, <1>5, <1>6, <1>7, <1>8, <1>9, InvariantNow, InvariantNext

LEMMA LifeStepKeeps == LifeInvariant /\ [Next]_vars => LifeInvariant'
  <1>. SUFFICES ASSUME LifeInvariant, [Next]_vars PROVE LifeInvariant'
    OBVIOUS
  <1>1. CASE Tick  BY <1>1, TickKeeps
  <1>2. CASE Read  BY <1>2, ReadKeeps
  <1>3. CASE TripComesDue \/ ActivityRunsOut  BY <1>3, TimeKeeps
  <1>4. CASE ChangeCity  BY <1>4, ChangeCityKeeps
  <1>5. CASE Crash  BY <1>5, CrashKeepsLife
  <1>6. ASSUME NEW p \in Plans, MakePlan(p) \/ StartComes(p) \/ PatchPlan(p)
        PROVE  LifeInvariant'
    BY <1>6, PlanActionsKeep
  <1>7. ASSUME NEW x \in Places, Override(x) \/ DeletePlace(x) PROVE LifeInvariant'
    BY <1>7, OverrideKeeps, DeletePlaceKeeps
  <1>8. CASE UNCHANGED vars
    <2>1. travel \in TravelRow /\ life \in LifeRow
      BY InvariantNow, WorldFields DEF WorldType
    <2>2. UNCHANGED <<place, visits, exists, plans, told, history>>
          /\ travel' = travel /\ life' = life
      BY <1>8 DEF vars, locationVars, lifeVars
    <2>. QED  BY <2>1, <2>2, MarksKeep
  <1>. QED  BY <1>1, <1>2, <1>3, <1>4, <1>5, <1>6, <1>7, <1>8 DEF Next

\* The world before a step that begins what a plan has waited for.
LEMMA StepBegins ==
  LifeInvariant /\ [Next]_vars =>
    \A p \in Plans \ touched : life.nextPlan = p /\ life'.plan = p =>
      /\ place' = life.to /\ exists' = exists /\ life'.doing = life.next
  <1>. SUFFICES ASSUME LifeInvariant, [Next]_vars, NEW p \in Plans \ touched,
                       life.nextPlan = p, life'.plan = p
                PROVE  place' = life.to /\ exists' = exists /\ life'.doing = life.next
    OBVIOUS
  <1>1. life.nextPlan # life.plan
    BY InvariantNow, RowCarriesOne, LifeTypes
  <1>2. ASSUME NEW v \in Within(World, touched, dropped), v.life.plan = p
        PROVE  /\ v.place = life.to /\ v.place \in v.exists /\ v.exists = exists
               /\ v.life.doing = life.next
    BY <1>2, WorldFields DEF Within, Begun
  <1>3. CASE Tick
    <2>1. PICK s \in TickWrites : s # <<>> /\ Commit(After(World, s))
      BY <1>3 DEF Tick
    <2>2. s \in Seq(Within(World, touched, dropped))
      BY TickIsSound
    <2>3. After(World, s) \in Within(World, touched, dropped)
      <3>1. Len(s) \in 1 .. Len(s)
        BY <2>1, <2>2
      <3>. QED  BY <2>1, <2>2, <3>1 DEF After
    <2>4. World' = After(World, s)
      BY <2>1, <2>3, WhatIsCommitted DEF Within, SoundWorlds
    <2>. QED  BY <1>2, <2>3, <2>4, WorldFieldsNext
  <1>4. CASE Crash
    <2>1. PICK w \in CutShort : Commit(Normalized(w))
      BY <1>4 DEF Crash
    <2>2. w \in Within(World, touched, dropped) /\ w \in SoundWorlds(touched, dropped)
      BY CutShortIsSound DEF Within
    <2>3. /\ Normalized(w) \in SoundWorlds(touched, dropped) /\ Normalized(w).life = w.life
          /\ Normalized(w).exists = w.exists
          /\ IsHere(w) => Normalized(w).place = w.place
      BY <2>2, BootIsSound
    <2>4. World' = Normalized(w)
      BY <2>1, <2>3, WhatIsCommitted DEF SoundWorlds
    <2>5. w.life.plan = p
      BY <2>3, <2>4, WorldFieldsNext
    <2>6. /\ w.place = life.to /\ w.place \in w.exists /\ w.exists = exists
          /\ w.life.doing = life.next
      BY <1>2, <2>2, <2>5
    <2>. QED  BY <2>3, <2>4, <2>6, WorldFieldsNext DEF IsHere
  <1>5. ASSUME life'.plan = life.plan PROVE FALSE
    BY <1>1, <1>5
  <1>6. CASE Read
    <2>1. Settled(World) \in SoundWorlds(touched, dropped) /\ Settled(World).life = World.life
      BY InvariantNow, ArrivalIsSound
    <2>2. life' = life
      BY <1>6, <2>1, WorldFields DEF Read, Commit
    <2>. QED  BY <1>5, <2>2
  <1>7. ASSUME NEW x \in Places, Override(x) PROVE FALSE
    <2>1. x \in World.exists /\ Commit(After(World, Overridden(World, x)))
      BY <1>7, WorldFields DEF Override
    <2>2. After(World, Overridden(World, x)).life = World.life
      BY <2>1, InvariantNow, OverrideIsSound
    <2>3. life' = life
      BY <2>1, <2>2, WorldFields DEF Commit
    <2>. QED  BY <1>5, <2>3
  <1>8. ASSUME NEW x \in Places, DeletePlace(x) PROVE FALSE
    <2>1. Settled(World) \in WorldType /\ Settled(World).life = World.life
      BY InvariantNow, ArrivalIsSound DEF SoundWorlds
    <2>2. [Settled(World) EXCEPT !.exists = @ \ {x}].life = World.life
      BY <2>1 DEF WorldType
    <2>3. life' = life
      BY <1>8, <2>2, WorldFields DEF DeletePlace, Commit
    <2>. QED  BY <1>5, <2>3
  <1>9. CASE ActivityRunsOut
    <2>1. life'.plan = life.plan
      BY <1>9, InvariantNow DEF ActivityRunsOut, LifeRow
    <2>. QED  BY <1>5, <2>1
  <1>10. CASE \/ TripComesDue \/ ChangeCity \/ UNCHANGED vars
              \/ \E q \in Plans : MakePlan(q) \/ StartComes(q) \/ PatchPlan(q)
    <2>1. life' = life
      BY <1>10 DEF TripComesDue, ChangeCity, MakePlan, StartComes, PatchPlan, vars, lifeVars
    <2>. QED  BY <1>5, <2>1
  <1>. QED
    BY <1>3, <1>4, <1>6, <1>7, <1>8, <1>9, <1>10 DEF Next

-------------------------------------------------------------------------------
\* Every world that a tick, an override or a read writes on its way is sound,
\* and a process that dies between two of the writes leaves a sound one behind.
THEOREM LifeInvariantHolds == Spec => []LifeInvariant
  <1>. QED  BY LifeBegins, LifeStepKeeps, PTL DEF Spec

\* A place of the map that she has left has no open visit: not by a trip that
\* arrives, is diverted or loses its destination, not by an override or a
\* deletion, and not by a crash between two writes of an operation
\* (location/service.ts startTravel, settleTravelIfDue).
THEOREM VisitsStayClosed == Spec => []VisitsAreClosed
  <1>1. LifeInvariant => VisitsAreClosed
    <2>1. LifeInvariant => Closed(World)
      BY DEF LifeInvariant, SoundWorlds, Sound
    <2>. QED  BY <2>1, WorldFields DEF Closed, VisitsAreClosed
  <1>. QED  BY <1>1, LifeInvariantHolds, PTL

\* A plan that was started is carried by the row that says "now" or by the trip
\* on the way to it, unless the admin or a repair took it away, and has no more
\* than one outcome, told when it is completed, wherever a tick is cut short
\* (resolveNext, finishActivity, enterTravel, normalize).
THEOREM PlansStayKept == Spec => []PlansAreKept
  <1>1. LifeInvariant => PlansAreKept
    <2>. SUFFICES ASSUME LifeInvariant PROVE PlansAreKept
      OBVIOUS
    <2>1. /\ Kept(World, touched, dropped)
          /\ \A p \in Plans \ touched : PlanIsTrue(World, p)
      BY DEF LifeInvariant, SoundWorlds, Sound
    <2>2. StartedIsCarried
      BY <2>1, WorldFields DEF Kept, StartedIsCarried
    <2>3. OneOutcome
      BY <2>1, WorldFields DEF PlanIsTrue, OneOutcome
    <2>. QED  BY <2>2, <2>3 DEF PlansAreKept
  <1>. QED  BY <1>1, LifeInvariantHolds, PTL

\* A plan she travelled for begins at a place that fits it, or there is no such
\* place; a deletion, an override or a change of city on the way does not make
\* her begin it somewhere else (resumeAfterTravel).
THEOREM BeginsWhereItFits == Spec => BegunWhereItFits
  <1>1. ASSUME LifeInvariant, [Next]_vars, NEW p \in Plans \ touched,
               life.nextPlan = p, life'.plan = p, ~torn
        PROVE  place' \in Fits[life'.doing] \/ Fits[life'.doing] \cap exists' = {}
    <2>1. place' = life.to /\ exists' = exists /\ life'.doing = life.next
      BY <1>1, StepBegins
    <2>2. \/ life.to \in Fits[life.next]
          \/ Fits[life.next] \cap exists = {}
      BY <1>1, InvariantNow, LifeTypes, WorldFields DEF Whole
    <2>. QED  BY <2>1, <2>2
  <1>2. LifeInvariant /\ [Next]_vars =>
          [\A p \in Plans \ touched :
             life.nextPlan = p /\ life'.plan = p /\ ~torn =>
               LET fits == Fits[life'.doing]
               IN place' \in fits \/ fits \cap exists' = {}]_vars
    BY <1>1
  <1>. QED  BY <1>2, LifeInvariantHolds, PTL DEF Spec, BegunWhereItFits

-------------------------------------------------------------------------------
(***************************************************************************)
(* Memory.                                                                 *)
(*                                                                         *)
(* What bounds the runs of a batch is what may still come: the runs there  *)
(* were, those a receipt still lets begin and those the admin has asked    *)
(* for were all granted, by the batch, a retry or a death.                 *)
(***************************************************************************)

\* The lane works on batch b.
WorksOn(b) == work # Idle /\ work.batch = b

\* It has run the tools and not yet said what came of it.
InLoop(b) == WorksOn(b) /\ work.phase \in {"thinking", "calling", "reconnecting"}

\* The runs that may still come without anybody asking: the first one, and the
\* one of a receipt that a death has left running.
Left(b) ==
  IF receipt[b] = "none" \/ (receipt[b] = "running" /\ ~InLoop(b)) THEN 1 ELSE 0

\* The run that the admin has asked for and the lane has not begun.
Asked(b) ==
  IF WorksOn(b) /\ work.manual /\ work.phase = "claimed" THEN 1 ELSE 0

\* The runs there were and the runs that may still come were all granted.
RunsAreGranted(b) ==
  runs[b] + Left(b) + again[b] + Asked(b) <= 1 + retries[b] + 2 * (epoch - 1)

\* Whoever rests and is not worked on has an outcome.
OutcomeIsTold(b) ==
  job[b] \in {"done", "failed"} /\ b \in current /\ again[b] = 0 /\ ~WorksOn(b)
    => receipt[b] \in Outcomes

\* What the lane holds agrees with the queue, the receipt and the server.
WorkIsTrue ==
  work # Idle =>
    /\ ~work.manual => job[work.batch] = "running"
    /\ work.ok => work.batch \in answered
    /\ work.phase \in {"claimed", "thinking"} => work.round < MaxRounds
    /\ work.phase \in {"done", "thrown"} /\ work.batch \in current
         => receipt[work.batch] \in Outcomes

\* A dream knows at least the completions it was asked for.
DreamIsTrue ==
  /\ watermark <= atCall
  /\ dream.at <= news /\ (dream.phase = "dreaming" => dream.at <= dream.seen)

MemoryInvariant ==
  /\ TypeOK /\ (mode = "down" => epoch < MaxEpoch)
  /\ WorkIsTrue /\ DreamIsTrue
  /\ \A b \in Batches : RunsAreGranted(b) /\ CompletedIsAnswered(b) /\ OutcomeIsTold(b)

LEMMA InvariantGivesRecords == MemoryInvariant => RecordsAreTrue
  <1>. SUFFICES ASSUME MemoryInvariant PROVE RecordsAreTrue
    OBVIOUS
  <1>1. TypeOK /\ WatermarkIsEarly
    BY DEF MemoryInvariant, DreamIsTrue, WatermarkIsEarly
  <1>2. ASSUME NEW b \in Batches PROVE RunOnce(b)
    <2>1. /\ runs[b] \in Nat /\ again[b] \in Nat /\ retries[b] \in Nat /\ epoch \in Nat
          /\ Left(b) \in Nat /\ Asked(b) \in Nat
      BY <1>1 DEF TypeOK, Left, Asked
    <2>2. RunsAreGranted(b)
      BY DEF MemoryInvariant
    <2>. QED
      BY <2>1, <2>2 DEF RunsAreGranted, RunOnce
  <1>3. ASSUME NEW b \in Batches PROVE CompletedIsAnswered(b) /\ RestIsTold(b)
    BY DEF MemoryInvariant, OutcomeIsTold, WorksOn, RestIsTold
  <1>. QED
    BY <1>1, <1>2, <1>3 DEF RecordsAreTrue, ReceiptsAreTrue

LEMMA InitRemembers == MemoryInit => MemoryInvariant
  <1>. SUFFICES ASSUME MemoryInit PROVE MemoryInvariant
    OBVIOUS
  <1>1. TypeOK
    BY OmbreConstants DEF MemoryInit, TypeOK, States, Awake
  <1>2. WorkIsTrue /\ DreamIsTrue /\ mode # "down"
    BY DEF MemoryInit, WorkIsTrue, DreamIsTrue, Awake
  <1>3. ASSUME NEW b \in Batches
        PROVE  RunsAreGranted(b) /\ CompletedIsAnswered(b) /\ OutcomeIsTold(b)
    BY DEF MemoryInit, RunsAreGranted, CompletedIsAnswered, OutcomeIsTold, Left, Asked,
           WorksOn
  <1>. QED
    BY <1>1, <1>2, <1>3 DEF MemoryInvariant

-------------------------------------------------------------------------------
(***************************************************************************)
(* What the writes of the lane do to its row and to the receipt.           *)
(***************************************************************************)
LEMMA AtWork ==
  ASSUME TypeOK, work.phase # "idle"
  PROVE  /\ work # Idle /\ work \in WorkRow /\ work.phase \in Phases
         /\ work.batch \in Batches /\ work.manual \in BOOLEAN /\ work.ok \in BOOLEAN
         /\ work.round \in 0 .. MaxRounds /\ work.second \in BOOLEAN
  BY DEF TypeOK, Idle, WorkRow

LEMMA MovedTo ==
  ASSUME TypeOK, work.phase # "idle", NEW p \in Phases, To(p)
  PROVE  /\ work' \in WorkRow /\ work'.phase = p /\ work'.batch = work.batch
         /\ work'.manual = work.manual /\ work'.round = work.round /\ work'.ok = work.ok
  BY AtWork DEF WorkRow, To

LEMMA Written ==
  ASSUME TypeOK, NEW m \in Batches, work.batch = m, NEW s \in States, NEW n \in BOOLEAN,
         Write(s, n)
  PROVE  /\ receipt' \in [Batches -> States] /\ named' \subseteq Batches
         /\ receipt'[m] = s /\ \A b \in Batches \ {m} : receipt'[b] = receipt[b]
  BY DEF TypeOK, Write

\* A step of the lane with its batch m keeps everything, if it makes true what
\* it says of m and takes no run that was not granted.
LEMMA LaneMoves ==
  ASSUME MemoryInvariant, TypeOK', work # Idle, work' # Idle,
         NEW m \in Batches, work.batch = m, work'.batch = m, work'.manual = work.manual,
         UNCHANGED <<queue, dreams, process>>, news <= news', answered \subseteq answered',
         \A b \in Batches \ {m} : receipt'[b] = receipt[b] /\ runs'[b] = runs[b],
         runs'[m] + Left(m)' + Asked(m)' <= runs[m] + Left(m) + Asked(m),
         receipt'[m] = "completed" \/ work'.ok => m \in answered',
         work'.phase \in {"claimed", "thinking"} => work'.round < MaxRounds,
         work'.phase \in {"done", "thrown"} /\ m \in current => receipt'[m] \in Outcomes
  PROVE  MemoryInvariant'
  <1>1. TypeOK /\ (mode = "down" => epoch < MaxEpoch)
    BY DEF MemoryInvariant
  <1>2. UNCHANGED <<job, tries, again, retries, current, watermark, dream, atCall,
                    mode, epoch>>
    BY DEF queue, dreams, process
  <1>3. WorkIsTrue'
    BY <1>2 DEF MemoryInvariant, WorkIsTrue
  <1>4. DreamIsTrue'
    <2>1. news \in Nat /\ news' \in Nat /\ dream.at \in Nat
      BY <1>1 DEF TypeOK
    <2>. QED  BY <1>2, <2>1 DEF MemoryInvariant, DreamIsTrue
  <1>5. ASSUME NEW b \in Batches
        PROVE  (RunsAreGranted(b) /\ CompletedIsAnswered(b) /\ OutcomeIsTold(b))'
    <2>0. RunsAreGranted(b) /\ CompletedIsAnswered(b) /\ OutcomeIsTold(b)
      BY DEF MemoryInvariant
    <2>1. CASE b = m
      <3>1. /\ runs[m] \in Nat /\ runs'[m] \in Nat /\ again[m] \in Nat /\ retries[m] \in Nat
            /\ Left(m) \in Nat /\ Asked(m) \in Nat /\ epoch \in Nat
            /\ Left(m)' \in Nat /\ Asked(m)' \in Nat
        BY <1>1 DEF TypeOK, Left, Asked
      <3>2. RunsAreGranted(b)'
        BY <1>2, <2>0, <2>1, <3>1 DEF RunsAreGranted
      <3>. QED
        BY <2>1, <3>2 DEF CompletedIsAnswered, OutcomeIsTold, WorksOn
    <2>2. CASE b # m
      <3>1. receipt'[b] = receipt[b] /\ runs'[b] = runs[b] /\ ~WorksOn(b) /\ ~WorksOn(b)'
        BY <2>2 DEF WorksOn
      <3>2. Left(b)' = Left(b) /\ Asked(b)' = Asked(b)
        BY <3>1 DEF Left, Asked, InLoop
      <3>3. RunsAreGranted(b)'
        BY <1>2, <2>0, <3>1, <3>2 DEF RunsAreGranted
      <3>. QED
        BY <1>2, <2>0, <3>1, <3>3 DEF CompletedIsAnswered, OutcomeIsTold
    <2>. QED  BY <2>1, <2>2
  <1>. QED
    BY <1>1, <1>2, <1>3, <1>4, <1>5 DEF MemoryInvariant

\* The lane looks on: the receipt and the runs stay.
LEMMA LaneLooks ==
  ASSUME MemoryInvariant, TypeOK', work.phase = "claimed", To("done"),
         UNCHANGED <<queue, receipts, news, dreams, process>>,
         work.batch \in current => receipt[work.batch] \in Outcomes
  PROVE  MemoryInvariant'
  <1>. DEFINE m == work.batch
  <1>1. TypeOK /\ WorkIsTrue /\ (\A b \in Batches : CompletedIsAnswered(b))
    BY DEF MemoryInvariant
  <1>2. /\ work # Idle /\ m \in Batches /\ work'.batch = m /\ work'.phase = "done"
        /\ work'.manual = work.manual /\ work'.round = work.round /\ work'.ok = work.ok
        /\ work' \in WorkRow
    BY <1>1, AtWork, MovedTo DEF Phases
  <1>3. work' # Idle
    BY <1>2 DEF Idle, WorkRow
  <1>4. UNCHANGED <<receipt, named, answered, runs>> /\ news \in Nat
    BY <1>1 DEF receipts, TypeOK
  <1>5. /\ ~InLoop(m) /\ ~InLoop(m)' /\ WorksOn(m)
        /\ Asked(m)' = 0 /\ Asked(m) \in {0, 1}
    BY <1>2 DEF InLoop, WorksOn, Asked
  <1>6. runs'[m] + Left(m)' + Asked(m)' <= runs[m] + Left(m) + Asked(m)
    <2>1. Left(m)' = Left(m)  BY <1>2, <1>4, <1>5 DEF Left
    <2>2. runs[m] \in Nat /\ Left(m) \in Nat /\ Asked(m) \in Nat /\ Asked(m)' \in Nat
      BY <1>1, <1>2 DEF TypeOK, Left, Asked
    <2>. QED  BY <1>4, <1>5, <2>1, <2>2
  <1>7. work.ok => m \in answered
    BY <1>1, <1>2 DEF WorkIsTrue
  <1>8. receipt[m] = "completed" => m \in answered
    BY <1>1, <1>2 DEF CompletedIsAnswered
  <1>. HIDE DEF m
  <1>. QED
    BY <1>2, <1>3, <1>4, <1>6, <1>7, <1>8, LaneMoves DEF m

\* The lane says what came of it: no run is left to it.
LEMMA LaneSettles ==
  ASSUME MemoryInvariant, TypeOK', work.phase \notin {"idle", "done", "thrown"},
         NEW s \in Outcomes, NEW n \in BOOLEAN, Write(s, n),
         NEW p \in {"done", "thrown"}, To(p),
         UNCHANGED <<queue, runs, dreams, process>>, news <= news',
         answered \subseteq answered', s = "completed" => work.batch \in answered'
  PROVE  MemoryInvariant'
  <1>. DEFINE m == work.batch
  <1>1. TypeOK /\ WorkIsTrue /\ s \in States
    BY DEF MemoryInvariant, Outcomes, States
  <1>2. /\ work # Idle /\ m \in Batches /\ work'.batch = m /\ work'.phase = p
        /\ work'.manual = work.manual /\ work'.ok = work.ok /\ work' \in WorkRow
    BY <1>1, AtWork, MovedTo DEF Phases
  <1>3. work' # Idle
    BY <1>2 DEF Idle, WorkRow
  <1>4. receipt'[m] = s /\ \A b \in Batches \ {m} : receipt'[b] = receipt[b]
    BY <1>1, <1>2, Written
  <1>5. Left(m)' = 0 /\ Asked(m)' = 0
    BY <1>2, <1>4 DEF Left, Asked, Outcomes
  <1>6. runs'[m] + Left(m)' + Asked(m)' <= runs[m] + Left(m) + Asked(m)
    <2>1. runs[m] \in Nat /\ Left(m) \in Nat /\ Asked(m) \in Nat
      BY <1>1, <1>2 DEF TypeOK, Left, Asked
    <2>. QED  BY <1>5, <2>1
  <1>7. work.ok => m \in answered
    BY <1>1, <1>2 DEF WorkIsTrue
  <1>. HIDE DEF m
  <1>. QED
    BY <1>2, <1>3, <1>4, <1>6, <1>7, LaneMoves DEF m

\* The loop goes on with the next round, or with the same call.
LEMMA LoopGoesOn ==
  ASSUME MemoryInvariant, TypeOK', work.phase \in {"thinking", "calling", "reconnecting"},
         work' # Idle, work'.batch = work.batch, work'.manual = work.manual,
         work'.phase \in {"thinking", "calling", "reconnecting"},
         work'.phase = "thinking" => work'.round < MaxRounds,
         answered \subseteq answered', work'.ok => work.ok \/ work.batch \in answered',
         UNCHANGED <<queue, receipt, runs, news, dreams, process>>
  PROVE  MemoryInvariant'
  <1>. DEFINE m == work.batch
  <1>1. TypeOK /\ WorkIsTrue /\ (\A b \in Batches : CompletedIsAnswered(b))
    BY DEF MemoryInvariant
  <1>2. work # Idle /\ m \in Batches
    BY <1>1, AtWork
  <1>3. Left(m)' = Left(m) /\ Asked(m)' = Asked(m) /\ news \in Nat
    BY <1>1, <1>2 DEF Left, Asked, InLoop, WorksOn, TypeOK
  <1>4. runs'[m] + Left(m)' + Asked(m)' <= runs[m] + Left(m) + Asked(m)
    <2>1. runs[m] \in Nat /\ Left(m) \in Nat /\ Asked(m) \in Nat
      BY <1>1, <1>2 DEF TypeOK, Left, Asked
    <2>. QED  BY <1>3, <2>1
  <1>5. work.ok => m \in answered
    BY <1>1, <1>2 DEF WorkIsTrue
  <1>6. receipt[m] = "completed" => m \in answered
    BY <1>1, <1>2 DEF CompletedIsAnswered
  <1>. HIDE DEF m
  <1>. QED
    BY <1>2, <1>3, <1>4, <1>5, <1>6, LaneMoves DEF m

\* After a call there is a next round, or the loop concludes.
LEMMA CallOverKeeps ==
  ASSUME MemoryInvariant, work.phase \in {"thinking", "calling", "reconnecting"},
         NEW round \in 0 .. MaxRounds, NEW ok \in BOOLEAN, CallOver(round, ok),
         UNCHANGED <<queue, dreams, process>>, answered \subseteq answered',
         answered' \subseteq Batches,
         conn' \in {"ready", "connecting", "degraded"}, tools' \in BOOLEAN,
         ok => work.ok \/ work.batch \in answered',
         work.ok => ok
  PROVE  MemoryInvariant'
  <1>1. TypeOK
    BY DEF MemoryInvariant
  <1>2. /\ work # Idle /\ work \in WorkRow /\ work.batch \in Batches
    BY <1>1, AtWork
  <1>3. work.ok => work.batch \in answered
    BY <1>2 DEF MemoryInvariant, WorkIsTrue
  <1>4. CASE round < MaxRounds
    <2>1. /\ work' = [work EXCEPT !.phase = "thinking", !.round = round,
                                  !.ok = ok, !.second = FALSE]
          /\ UNCHANGED <<receipt, named, news, runs>>
      BY <1>4 DEF CallOver
    <2>2. /\ work' \in WorkRow /\ work'.phase = "thinking" /\ work'.round = round
          /\ work'.batch = work.batch /\ work'.manual = work.manual /\ work'.ok = ok
      BY <1>2, <2>1 DEF WorkRow, Phases
    <2>3. TypeOK'
      BY <1>1, <2>1, <2>2 DEF TypeOK, queue, dreams, process
    <2>4. work' # Idle
      BY <2>2 DEF Idle
    <2>. QED
      BY <1>3, <1>4, <2>1, <2>2, <2>3, <2>4, LoopGoesOn
  <1>5. CASE ~(round < MaxRounds)
    <2>1. Conclude(ok)
      BY <1>5 DEF CallOver
    <2>. DEFINE s == IF ok THEN "completed" ELSE "uncertain"
    <2>2. /\ Write(s, FALSE) /\ To("done") /\ UNCHANGED runs
          /\ news' \in {news, news + 1}
      BY <2>1 DEF Conclude, MarkCompleted, MarkFailedCalls
    <2>3. s \in States /\ s \in Outcomes /\ (s = "completed" => ok)
      BY DEF States, Outcomes
    <2>. HIDE DEF s
    <2>4. work' \in WorkRow
      BY <1>1, <2>2, MovedTo DEF Phases
    <2>5. receipt' \in [Batches -> States] /\ named' \subseteq Batches
      BY <1>1, <1>2, <2>2, <2>3, Written
    <2>6. news' \in Nat /\ news <= news'
      BY <1>1, <2>2 DEF TypeOK
    <2>7. TypeOK'
      BY <1>1, <2>2, <2>4, <2>5, <2>6 DEF TypeOK, queue, dreams, process
    <2>. QED
      BY <1>3, <2>2, <2>3, <2>6, <2>7, LaneSettles
  <1>. QED  BY <1>4, <1>5

-------------------------------------------------------------------------------
(***************************************************************************)
(* One lemma for each action, in the order of the model.                   *)
(***************************************************************************)
LEMMA HandOverKeeps ==
  ASSUME MemoryInvariant, NEW m \in Batches, HandOver(m)
  PROVE  MemoryInvariant'
  <1>1. TypeOK /\ WorkIsTrue /\ DreamIsTrue
    BY DEF MemoryInvariant
  <1>2. /\ job' = [job EXCEPT ![m] = "pending"] /\ current' = current \cup {m}
        /\ UNCHANGED <<tries, again, retries, receipt, named, answered, runs, work, conn,
                       tools, news, watermark, dream, atCall, mode, epoch>>
        /\ job[m] = "none"
    BY DEF HandOver, receipts, connection, dreams, process
  <1>3. TypeOK'
    BY <1>1, <1>2 DEF TypeOK
  <1>4. WorkIsTrue' /\ DreamIsTrue'
    <2>1. CASE work = Idle
      BY <1>1, <1>2, <2>1 DEF WorkIsTrue, DreamIsTrue
    <2>2. CASE work # Idle
      <3>1. work.batch \in Batches /\ work.phase \in Phases /\ work.manual \in BOOLEAN
        BY <1>1, <2>2 DEF TypeOK, WorkRow
      <3>2. ~work.manual => work.batch # m /\ job'[work.batch] = "running"
        BY <1>1, <1>2, <2>2, <3>1 DEF WorkIsTrue, TypeOK
      <3>3. work.phase \in {"done", "thrown"} => receipt[work.batch] \in Outcomes
        BY DEF HandOver, ThreadIsFree, Holding
      <3>. QED
        BY <1>1, <1>2, <3>2, <3>3 DEF WorkIsTrue, DreamIsTrue
    <2>. QED  BY <2>1, <2>2
  <1>5. ASSUME NEW b \in Batches
        PROVE  (RunsAreGranted(b) /\ CompletedIsAnswered(b) /\ OutcomeIsTold(b))'
    <2>1. RunsAreGranted(b) /\ CompletedIsAnswered(b) /\ OutcomeIsTold(b)
      BY DEF MemoryInvariant
    <2>2. RunsAreGranted(b)' /\ CompletedIsAnswered(b)'
      BY <1>2, <2>1
      DEF RunsAreGranted, CompletedIsAnswered, Left, Asked, InLoop, WorksOn
    <2>3. OutcomeIsTold(b)'
      BY <1>1, <1>2, <2>1 DEF TypeOK, OutcomeIsTold, WorksOn
    <2>. QED  BY <2>2, <2>3
  <1>. QED
    BY <1>1, <1>2, <1>3, <1>4, <1>5 DEF MemoryInvariant

\* A retry grants the run that it asks for.
LEMMA AdminRetryKeeps ==
  ASSUME MemoryInvariant, NEW m \in Batches, AdminRetry(m)
  PROVE  MemoryInvariant'
  <1>1. TypeOK /\ WorkIsTrue /\ DreamIsTrue
    BY DEF MemoryInvariant
  <1>2. /\ again' = [again EXCEPT ![m] = @ + 1] /\ retries' = [retries EXCEPT ![m] = @ + 1]
        /\ UNCHANGED <<job, tries, current, receipt, named, answered, runs, work, conn,
                       tools, news, watermark, dream, atCall, mode, epoch>>
    BY DEF AdminRetry, receipts, connection, dreams, process
  <1>3. TypeOK'
    BY <1>1, <1>2 DEF TypeOK
  <1>4. WorkIsTrue' /\ DreamIsTrue'
    BY <1>1, <1>2 DEF WorkIsTrue, DreamIsTrue
  <1>5. ASSUME NEW b \in Batches
        PROVE  (RunsAreGranted(b) /\ CompletedIsAnswered(b) /\ OutcomeIsTold(b))'
    <2>1. RunsAreGranted(b) /\ CompletedIsAnswered(b) /\ OutcomeIsTold(b)
      BY DEF MemoryInvariant
    <2>2. Left(b)' = Left(b) /\ Asked(b)' = Asked(b)
      BY <1>2 DEF Left, Asked, InLoop, WorksOn
    <2>3. /\ runs[b] \in Nat /\ again[b] \in Nat /\ retries[b] \in Nat /\ epoch \in Nat
          /\ Left(b) \in Nat /\ Asked(b) \in Nat
      BY <1>1 DEF TypeOK, Left, Asked
    <2>4. \/ b = m /\ again'[b] = again[b] + 1 /\ retries'[b] = retries[b] + 1
          \/ b # m /\ again'[b] = again[b] /\ retries'[b] = retries[b]
      BY <1>1, <1>2 DEF TypeOK
    <2>5. RunsAreGranted(b)'
      BY <1>2, <2>1, <2>2, <2>3, <2>4 DEF RunsAreGranted
    <2>6. CompletedIsAnswered(b)' /\ OutcomeIsTold(b)'
      BY <1>2, <2>1, <2>3, <2>4 DEF CompletedIsAnswered, OutcomeIsTold, WorksOn
    <2>. QED  BY <2>5, <2>6
  <1>. QED
    BY <1>1, <1>2, <1>3, <1>4, <1>5 DEF MemoryInvariant

LEMMA ClearKeeps ==
  ASSUME MemoryInvariant, Clear
  PROVE  MemoryInvariant'
  <1>1. /\ current' = {}
        /\ UNCHANGED <<job, tries, again, retries, receipt, named, answered, runs, work, conn,
                       tools, news, watermark, dream, atCall, mode, epoch>>
    BY DEF Clear, receipts, connection, dreams, process
  <1>2. TypeOK'
    BY <1>1 DEF MemoryInvariant, TypeOK
  <1>3. WorkIsTrue' /\ DreamIsTrue'
    BY <1>1 DEF MemoryInvariant, WorkIsTrue, DreamIsTrue
  <1>4. ASSUME NEW b \in Batches
        PROVE  (RunsAreGranted(b) /\ CompletedIsAnswered(b) /\ OutcomeIsTold(b))'
    BY <1>1
    DEF MemoryInvariant, RunsAreGranted, CompletedIsAnswered, OutcomeIsTold, Left, Asked,
        InLoop, WorksOn
  <1>. QED
    BY <1>1, <1>2, <1>3, <1>4 DEF MemoryInvariant

\* The lane begins on m: a job of the queue, or one that the admin asked for.
LEMMA ClaimKeeps ==
  ASSUME MemoryInvariant, NEW m \in Batches, Take(m) \/ TakeManual(m)
  PROVE  MemoryInvariant'
  <1>1. TypeOK /\ DreamIsTrue /\ work = Idle
    BY DEF MemoryInvariant, Take, TakeManual
  <1>2. PICK manual \in BOOLEAN :
          /\ work' = Claim(m, manual)
          /\ manual => /\ again[m] > 0 /\ again' = [again EXCEPT ![m] = @ - 1]
                       /\ UNCHANGED <<job, tries>>
          /\ ~manual => /\ job' = [job EXCEPT ![m] = "running"]
                        /\ tries' = [tries EXCEPT ![m] = @ + 1] /\ UNCHANGED again
          /\ UNCHANGED <<current, retries, receipt, named, answered, runs, conn,
                         tools, news, watermark, dream, atCall, mode, epoch>>
    BY DEF Take, TakeManual, receipts, connection, dreams, process
  <1>3. /\ work' \in WorkRow /\ work'.batch = m /\ work'.manual = manual /\ work'.ok = FALSE
        /\ work'.round = 0 /\ work'.phase = "claimed" /\ work' # Idle
    BY <1>1, <1>2, OmbreConstants DEF Claim, WorkRow, Phases, Idle
  <1>4. again' \in [Batches -> Nat]
    BY <1>1, <1>2 DEF TypeOK
  <1>5. TypeOK'
    BY <1>1, <1>2, <1>3, <1>4 DEF TypeOK
  <1>6. WorkIsTrue' /\ DreamIsTrue'
    BY <1>1, <1>2, <1>3, OmbreConstants DEF TypeOK, WorkIsTrue, DreamIsTrue
  <1>7. ASSUME NEW b \in Batches
        PROVE  (RunsAreGranted(b) /\ CompletedIsAnswered(b) /\ OutcomeIsTold(b))'
    <2>1. RunsAreGranted(b) /\ CompletedIsAnswered(b) /\ OutcomeIsTold(b)
      BY DEF MemoryInvariant
    <2>2. Left(b)' = Left(b) /\ Asked(b) = 0
      BY <1>1, <1>2, <1>3 DEF Left, Asked, InLoop, WorksOn
    <2>3. /\ runs[b] \in Nat /\ again[b] \in Nat /\ retries[b] \in Nat /\ epoch \in Nat
          /\ Left(b) \in Nat
      BY <1>1 DEF TypeOK, Left
    <2>4. CASE b = m
      <3>1. WorksOn(b)'
        BY <1>3, <2>4 DEF WorksOn
      <3>2. again'[b] + Asked(b)' = again[b]
        <4>1. CASE manual
          <5>1. Asked(b)' = 1  BY <1>3, <3>1, <4>1 DEF Asked
          <5>2. again'[b] = again[b] - 1  BY <1>1, <1>2, <2>4, <4>1 DEF TypeOK
          <5>. QED  BY <2>3, <5>1, <5>2
        <4>2. CASE ~manual
          <5>1. Asked(b)' = 0  BY <1>3, <4>2 DEF Asked
          <5>. QED  BY <1>2, <2>3, <4>2, <5>1
        <4>. QED  BY <4>1, <4>2
      <3>3. Asked(b)' \in Nat /\ again'[b] \in Nat
        BY <1>4 DEF Asked
      <3>4. RunsAreGranted(b)'
        BY <1>2, <2>1, <2>2, <2>3, <3>2, <3>3 DEF RunsAreGranted
      <3>. QED
        BY <1>2, <2>1, <3>1, <3>4 DEF CompletedIsAnswered, OutcomeIsTold
    <2>5. CASE b # m
      <3>1. ~WorksOn(b)' /\ ~WorksOn(b)
        BY <1>1, <1>3, <2>5 DEF WorksOn
      <3>2. again'[b] = again[b] /\ job'[b] = job[b]
        BY <1>1, <1>2, <2>5 DEF TypeOK
      <3>3. Asked(b)' = 0
        BY <3>1 DEF Asked
      <3>4. RunsAreGranted(b)'
        BY <1>2, <2>1, <2>2, <3>2, <3>3 DEF RunsAreGranted
      <3>. QED
        BY <1>2, <2>1, <3>1, <3>2, <3>4 DEF CompletedIsAnswered, OutcomeIsTold
    <2>. QED  BY <2>4, <2>5
  <1>. QED
    BY <1>1, <1>2, <1>5, <1>6, <1>7 DEF MemoryInvariant

LEMMA LooksKeep ==
  ASSUME MemoryInvariant, NothingToDo \/ LeaveUncertain
  PROVE  MemoryInvariant'
  <1>1. TypeOK
    BY DEF MemoryInvariant
  <1>2. /\ To("done") /\ work.phase = "claimed"
        /\ work.batch \in current => receipt[work.batch] \in Outcomes
        /\ UNCHANGED <<queue, receipts, connection, news, dreams, process>>
    BY DEF NothingToDo, LeaveUncertain, Unproven, Outcomes
  <1>3. work' \in WorkRow
    BY <1>1, <1>2, MovedTo DEF Phases
  <1>4. TypeOK'
    BY <1>1, <1>2, <1>3 DEF TypeOK, queue, receipts, connection, dreams, process
  <1>. QED
    BY <1>2, <1>4, LaneLooks

\* What LaneSettles asks for, of a step that settles the receipt.
LEMMA SettlesKeep ==
  ASSUME MemoryInvariant, work.phase \notin {"idle", "done", "thrown"},
         NEW s \in Outcomes, NEW n \in BOOLEAN, Write(s, n),
         NEW p \in {"done", "thrown"}, To(p),
         UNCHANGED <<queue, runs, connection, dreams, process>>,
         news' \in {news, news + 1},
         answered \subseteq answered', answered' \subseteq Batches,
         s = "completed" => work.batch \in answered'
  PROVE  MemoryInvariant'
  <1>1. TypeOK /\ s \in States
    BY DEF MemoryInvariant, Outcomes, States
  <1>2. work' \in WorkRow
    BY <1>1, MovedTo DEF Phases
  <1>3. receipt' \in [Batches -> States] /\ named' \subseteq Batches
    BY <1>1, AtWork, Written
  <1>4. news' \in Nat /\ news <= news'
    BY <1>1 DEF TypeOK
  <1>5. TypeOK'
    BY <1>1, <1>2, <1>3, <1>4 DEF TypeOK, queue, connection, dreams, process
  <1>. QED
    BY <1>4, <1>5, LaneSettles

LEMMA SkipCommitKeeps ==
  ASSUME MemoryInvariant, SkipCommit
  PROVE  MemoryInvariant'
  <1>1. work.phase = "claimed" /\ TypeOK
    BY DEF MemoryInvariant, SkipCommit, MayStart, Unproven
  <1>2. /\ Write("skipped", FALSE) /\ To("done")
        /\ UNCHANGED <<queue, runs, news, answered, connection, dreams, process>>
    BY DEF SkipCommit, MarkSkipped
  <1>3. answered \subseteq Batches
    BY <1>1 DEF TypeOK
  <1>. QED
    BY <1>1, <1>2, <1>3, SettlesKeep DEF Outcomes

\* The run that starts was granted: it is the first one, a death has left it, or
\* the admin has asked for it.
LEMMA StartCommitKeeps ==
  ASSUME MemoryInvariant, StartCommit
  PROVE  MemoryInvariant'
  <1>1. TypeOK /\ WorkIsTrue /\ work.phase = "claimed" /\ work # Idle
    BY DEF MemoryInvariant, StartCommit, MayStart, Unproven
  <1>2. PICK m \in Batches : m = work.batch
    BY <1>1, AtWork
  <1>3. /\ Write("running", TRUE) /\ To("thinking")
        /\ runs' = [runs EXCEPT ![m] = @ + 1]
        /\ UNCHANGED <<queue, connection, answered, news, dreams, process>>
    BY <1>2 DEF StartCommit
  <1>4. /\ receipt' \in [Batches -> States] /\ named' \subseteq Batches
        /\ receipt'[m] = "running" /\ \A b \in Batches \ {m} : receipt'[b] = receipt[b]
    BY <1>1, <1>2, <1>3, Written DEF States
  <1>5. /\ work' \in WorkRow /\ work'.phase = "thinking" /\ work'.batch = m
        /\ work'.manual = work.manual /\ work'.round = work.round /\ work'.ok = work.ok
    BY <1>1, <1>2, <1>3, MovedTo DEF Phases
  <1>6. /\ runs' \in [Batches -> Nat] /\ runs'[m] = runs[m] + 1 /\ runs[m] \in Nat
        /\ \A b \in Batches \ {m} : runs'[b] = runs[b]
    BY <1>1, <1>3 DEF TypeOK
  <1>7. TypeOK' /\ news <= news'
    BY <1>1, <1>3, <1>4, <1>5, <1>6 DEF TypeOK, queue, connection, dreams, process
  <1>8. work' # Idle
    BY <1>5 DEF Idle
  <1>9. Left(m)' = 0 /\ Asked(m)' = 0
    BY <1>4, <1>5, <1>8 DEF Left, Asked, InLoop, WorksOn
  <1>10. Left(m) + Asked(m) >= 1
    <2>1. Left(m) \in {0, 1} /\ Asked(m) \in {0, 1}
      BY DEF Left, Asked
    <2>2. CASE receipt[m] \in {"none", "running"}
      <3>1. ~InLoop(m)  BY <1>1 DEF InLoop
      <3>2. Left(m) = 1  BY <2>2, <3>1 DEF Left
      <3>. QED  BY <2>1, <3>2
    <2>3. CASE receipt[m] \notin {"none", "running"}
      <3>1. work.manual
        BY <1>2, <2>3 DEF StartCommit, MayStart
      <3>2. Asked(m) = 1
        BY <1>1, <1>2, <3>1 DEF Asked, WorksOn
      <3>. QED  BY <2>1, <3>2
    <2>. QED  BY <2>2, <2>3
  <1>11. runs'[m] + Left(m)' + Asked(m)' <= runs[m] + Left(m) + Asked(m)
    <2>1. Left(m) \in Nat /\ Asked(m) \in Nat
      BY DEF Left, Asked
    <2>. QED  BY <1>6, <1>9, <1>10, <2>1
  <1>12. work.ok => m \in answered
    BY <1>1, <1>2 DEF WorkIsTrue
  <1>13. work.round < MaxRounds
    BY <1>1 DEF WorkIsTrue
  <1>. QED
    BY <1>1, <1>2, <1>3, <1>4, <1>5, <1>6, <1>7, <1>8, <1>11, <1>12, <1>13, LaneMoves

LEMMA ModelKeeps ==
  ASSUME MemoryInvariant, ModelThrows \/ ModelIsDone
  PROVE  MemoryInvariant'
  <1>1. TypeOK /\ WorkIsTrue /\ work.phase = "thinking"
    BY DEF MemoryInvariant, ModelThrows, ModelIsDone
  <1>2. work.ok => work.batch \in answered
    BY <1>1, AtWork DEF WorkIsTrue
  <1>3. PICK s \in Outcomes, n \in BOOLEAN, p \in {"done", "thrown"} :
          /\ Write(s, n) /\ To(p) /\ news' \in {news, news + 1} /\ UNCHANGED runs
          /\ s = "completed" => work.ok
    BY DEF ModelThrows, ModelIsDone, MarkThrown, MarkSkipped, Conclude, MarkCompleted,
           MarkFailedCalls, Outcomes
  <1>4. UNCHANGED <<queue, answered, connection, dreams, process>>
    BY DEF ModelThrows, ModelIsDone
  <1>5. answered \subseteq Batches
    BY <1>1 DEF TypeOK
  <1>. QED
    BY <1>1, <1>2, <1>3, <1>4, <1>5, SettlesKeep

LEMMA CallsKeep ==
  ASSUME MemoryInvariant, CallRefused \/ CallAnswered \/ CallFails
  PROVE  MemoryInvariant'
  <1>1. TypeOK /\ WorkIsTrue /\ work.phase \in {"thinking", "calling", "reconnecting"}
    BY DEF MemoryInvariant, CallRefused, CallAnswered, CallFails
  <1>2. /\ work.round \in 0 .. MaxRounds /\ work.ok \in BOOLEAN /\ work.batch \in Batches
        /\ work # Idle /\ MaxRounds \in Nat
    BY <1>1, AtWork, OmbreConstants DEF MemoryInvariant
  <1>3. UNCHANGED <<queue, connection, dreams, process>>
    BY DEF CallRefused, CallAnswered, CallFails
  <1>4. conn' \in {"ready", "connecting", "degraded"} /\ tools' \in BOOLEAN
    BY <1>1, <1>3 DEF TypeOK, connection
  <1>5. CASE CallRefused
    <2>1. work.round + 1 \in 0 .. MaxRounds
      BY <1>1, <1>2, <1>5 DEF CallRefused, WorkIsTrue
    <2>2. CallOver(work.round + 1, work.ok) /\ UNCHANGED answered /\ answered \subseteq Batches
      BY <1>1, <1>5 DEF CallRefused, TypeOK
    <2>. QED
      BY <1>1, <1>2, <1>3, <1>4, <2>1, <2>2, CallOverKeeps
  <1>6. CASE CallAnswered
    <2>1. /\ CallOver(work.round, TRUE) /\ answered' = answered \cup {work.batch}
          /\ answered' \subseteq Batches
      BY <1>1, <1>2, <1>6 DEF CallAnswered, TypeOK
    <2>. QED
      BY <1>1, <1>2, <1>3, <1>4, <2>1, CallOverKeeps
  <1>7. CASE CallFails
    <2>1. /\ CallOver(work.round, work.ok) /\ UNCHANGED answered
          /\ answered \subseteq Batches
      BY <1>1, <1>7 DEF CallFails, TypeOK
    <2>. QED
      BY <1>1, <1>2, <1>3, <1>4, <2>1, CallOverKeeps
  <1>. QED  BY <1>5, <1>6, <1>7

\* A call begins, or waits for the connection.
LEMMA CallBeginsKeeps ==
  ASSUME MemoryInvariant, CallMade \/ CallBreaks
  PROVE  MemoryInvariant'
  <1>1. TypeOK /\ WorkIsTrue /\ work.phase \in {"thinking", "calling"}
    BY DEF MemoryInvariant, CallMade, CallBreaks
  <1>2. /\ work \in WorkRow /\ work # Idle /\ work.batch \in Batches
        /\ work.round \in 0 .. MaxRounds
    BY <1>1, AtWork
  <1>3. PICK p \in {"calling", "reconnecting"}, r \in 0 .. MaxRounds :
          work' = [work EXCEPT !.phase = p, !.round = r]
    <2>1. CASE CallMade
      <3>1. work.round + 1 \in 0 .. MaxRounds
        BY <1>1, <1>2, <2>1, OmbreConstants DEF CallMade, WorkIsTrue
      <3>. QED  BY <2>1, <3>1 DEF CallMade
    <2>2. CASE CallBreaks
      <3>1. work' = [work EXCEPT !.phase = "reconnecting", !.round = work.round]
        BY <1>2, <2>2 DEF CallBreaks, To, WorkRow
      <3>. QED  BY <1>2, <3>1
    <2>. QED  BY <2>1, <2>2
  <1>4. /\ work' \in WorkRow /\ work'.phase = p /\ work'.batch = work.batch
        /\ work'.manual = work.manual /\ work'.ok = work.ok
    BY <1>2, <1>3 DEF WorkRow, Phases
  <1>5. work' # Idle
    BY <1>4 DEF Idle
  <1>6. UNCHANGED <<queue, receipts, tools, news, dreams, process>>
    BY DEF CallMade, CallBreaks
  <1>7. conn' \in {"ready", "connecting", "degraded"}
    BY <1>1 DEF TypeOK, CallMade, CallBreaks
  <1>8. TypeOK'
    BY <1>1, <1>4, <1>6, <1>7 DEF TypeOK, queue, receipts, dreams, process
  <1>. QED
    BY <1>1, <1>4, <1>5, <1>6, <1>8, LoopGoesOn DEF receipts

\* The lane is free again, and its job is done, to be tried again, or failed.
LEMMA LaneEndsKeeps ==
  ASSUME MemoryInvariant, JobEnds \/ JobThrows
  PROVE  MemoryInvariant'
  <1>1. /\ TypeOK /\ WorkIsTrue /\ DreamIsTrue /\ work.phase \in {"done", "thrown"}
        /\ work' = Idle
    BY DEF MemoryInvariant, JobEnds, JobThrows
  <1>2. work # Idle
    BY <1>1 DEF Idle
  <1>3. PICK m \in Batches : m = work.batch
    BY <1>1, AtWork
  <1>4. UNCHANGED <<tries, again, current, retries, receipt, named, answered, runs, conn,
                    tools, news, watermark, dream, atCall, mode, epoch>>
    BY DEF JobEnds, JobThrows, receipts, connection, dreams, process
  <1>5. PICK s \in {"done", "pending", "failed"} :
          job' = IF work.manual THEN job ELSE [job EXCEPT ![m] = s]
    BY <1>3 DEF JobEnds, JobThrows
  <1>6. TypeOK'
    BY <1>1, <1>4, <1>5 DEF TypeOK
  <1>7. WorkIsTrue' /\ DreamIsTrue'
    BY <1>1, <1>4 DEF WorkIsTrue, DreamIsTrue
  <1>8. ASSUME NEW b \in Batches
        PROVE  (RunsAreGranted(b) /\ CompletedIsAnswered(b) /\ OutcomeIsTold(b))'
    <2>1. RunsAreGranted(b) /\ CompletedIsAnswered(b) /\ OutcomeIsTold(b)
      BY DEF MemoryInvariant
    <2>2. ~InLoop(b) /\ ~WorksOn(b)'
      BY <1>1 DEF InLoop, WorksOn
    <2>3. Left(b)' = Left(b) /\ Asked(b)' = 0 /\ Asked(b) = 0
      BY <1>1, <1>4, <2>2 DEF Left, Asked, InLoop
    <2>4. RunsAreGranted(b)' /\ CompletedIsAnswered(b)'
      BY <1>4, <2>1, <2>3 DEF RunsAreGranted, CompletedIsAnswered
    <2>5. OutcomeIsTold(b)'
      <3>1. CASE b = m
        BY <1>1, <1>2, <1>3, <1>4, <3>1 DEF WorkIsTrue, OutcomeIsTold
      <3>2. CASE b # m
        BY <1>1, <1>3, <1>4, <1>5, <2>1, <3>2 DEF TypeOK, WorksOn, OutcomeIsTold
      <3>. QED  BY <3>1, <3>2
    <2>. QED  BY <2>4, <2>5
  <1>. QED
    BY <1>1, <1>4, <1>6, <1>7, <1>8 DEF MemoryInvariant

\* The connection and the dreams touch neither the queue nor the receipts.
LEMMA OthersKeep ==
  ASSUME MemoryInvariant, TypeOK', DreamIsTrue',
         UNCHANGED <<queue, receipts, work, news, process>>
  PROVE  MemoryInvariant'
  <1>1. UNCHANGED <<job, again, retries, current, receipt, answered, runs, work, mode, epoch>>
    BY DEF queue, receipts, process
  <1>2. WorkIsTrue'
    BY <1>1 DEF MemoryInvariant, WorkIsTrue
  <1>3. ASSUME NEW b \in Batches
        PROVE  (RunsAreGranted(b) /\ CompletedIsAnswered(b) /\ OutcomeIsTold(b))'
    BY <1>1
    DEF MemoryInvariant, RunsAreGranted, CompletedIsAnswered, OutcomeIsTold, Left, Asked,
        InLoop, WorksOn
  <1>. QED
    BY <1>1, <1>2, <1>3 DEF MemoryInvariant

LEMMA OthersReconnectKeeps ==
  ASSUME MemoryInvariant, OthersReconnect
  PROVE  MemoryInvariant'
  <1>1. TypeOK' /\ DreamIsTrue'
    BY DEF MemoryInvariant, OthersReconnect, TypeOK, DreamIsTrue, queue, receipts, dreams,
           process
  <1>. QED
    BY <1>1, OthersKeep DEF OthersReconnect

LEMMA ConnectingKeeps ==
  ASSUME MemoryInvariant, Connecting
  PROVE  MemoryInvariant'
  <1>1. TypeOK /\ WorkIsTrue /\ DreamIsTrue
    BY DEF MemoryInvariant
  <1>2. conn' \in {"ready", "connecting", "degraded"} /\ tools' \in BOOLEAN
    BY DEF Connecting, Connected, ConnectFails
  <1>3. UNCHANGED <<queue, answered, dreams, process>> /\ answered \subseteq Batches
    BY <1>1 DEF Connecting, Connected, ConnectFails, receipts, TypeOK
  <1>4. CASE work.phase # "reconnecting"
    <2>1. UNCHANGED <<receipts, work, news>>
      BY <1>4 DEF Connecting, Connected, ConnectFails, receipts
    <2>2. TypeOK' /\ DreamIsTrue'
      BY <1>1, <1>2, <1>3, <2>1 DEF TypeOK, DreamIsTrue, queue, receipts, dreams, process
    <2>. QED  BY <1>3, <2>1, <2>2, OthersKeep
  <1>5. CASE work.phase = "reconnecting"
    <2>1. /\ work \in WorkRow /\ work # Idle /\ work.batch \in Batches
          /\ work.round \in 0 .. MaxRounds /\ work.ok \in BOOLEAN
      BY <1>1, <1>5, AtWork
    <2>2. CASE Connected
      <3>1. /\ work' = [work EXCEPT !.phase = "calling", !.second = TRUE]
            /\ UNCHANGED <<receipts, news>>
        BY <1>5, <2>2 DEF Connected
      <3>2. /\ work' \in WorkRow /\ work'.phase = "calling" /\ work'.batch = work.batch
            /\ work'.manual = work.manual /\ work'.ok = work.ok
        BY <2>1, <3>1 DEF WorkRow, Phases
      <3>3. TypeOK' /\ work' # Idle
        BY <1>1, <1>2, <1>3, <3>1, <3>2 DEF TypeOK, queue, receipts, dreams, process, Idle
      <3>. QED
        BY <1>3, <1>5, <3>1, <3>2, <3>3, LoopGoesOn DEF receipts
    <2>3. CASE ConnectFails
      <3>1. CallOver(work.round, work.ok)
        BY <1>5, <2>3 DEF ConnectFails
      <3>. QED
        BY <1>2, <1>3, <1>5, <2>1, <3>1, CallOverKeeps
    <2>. QED  BY <2>2, <2>3 DEF Connecting
  <1>. QED  BY <1>4, <1>5

\* A dream is asked for with what is known, and begins with no less.
LEMMA DreamingKeeps ==
  ASSUME MemoryInvariant, Dreaming
  PROVE  MemoryInvariant'
  <1>1. TypeOK /\ DreamIsTrue
    BY DEF MemoryInvariant
  <1>2. UNCHANGED <<queue, receipts, work, connection, news, process>>
    BY DEF Dreaming, EnqueueDream, StartDream, NoDream, EndDream, DreamThrows
  <1>3. /\ news \in Nat /\ watermark \in Nat /\ atCall \in Nat
        /\ dream \in [phase : {"none", "pending", "dreaming"}, at : Nat, seen : Nat]
    BY <1>1 DEF TypeOK
  <1>4. Awake \in [phase : {"none", "pending", "dreaming"}, at : Nat, seen : Nat]
    BY DEF Awake
  <1>5. /\ watermark' \in Nat /\ atCall' \in Nat
        /\ dream' \in [phase : {"none", "pending", "dreaming"}, at : Nat, seen : Nat]
        /\ DreamIsTrue'
    <2>0. UNCHANGED news  BY <1>2
    <2>1. CASE EnqueueDream
      <3>1. /\ dream' = [phase |-> "pending", at |-> news, seen |-> 0]
            /\ UNCHANGED <<watermark, atCall>>
        BY <2>1 DEF EnqueueDream, Awake
      <3>. QED  BY <1>1, <1>3, <2>0, <3>1 DEF DreamIsTrue
    <2>2. CASE StartDream
      BY <1>1, <1>3, <2>0, <2>2 DEF StartDream, DreamIsTrue
    <2>3. CASE NoDream
      BY <1>1, <1>3, <2>0, <2>3 DEF NoDream, DreamIsTrue, Awake
    <2>4. CASE EndDream
      BY <1>1, <1>3, <2>0, <2>4 DEF EndDream, DreamIsTrue, Awake
    <2>5. CASE DreamThrows
      BY <1>1, <1>3, <2>0, <2>5 DEF DreamThrows, DreamIsTrue, Awake
    <2>. QED  BY <2>1, <2>2, <2>3, <2>4, <2>5 DEF Dreaming
  <1>6. TypeOK'
    BY <1>1, <1>2, <1>5 DEF TypeOK, queue, receipts, connection, process
  <1>. QED
    BY <1>2, <1>5, <1>6, OthersKeep

LEMMA CrashKeeps ==
  ASSUME MemoryInvariant, ProcessDies
  PROVE  MemoryInvariant'
  <1>1. /\ TypeOK /\ mode' = "down" /\ epoch' = epoch /\ epoch < MaxEpoch
        /\ UNCHANGED <<job, tries, again, current, retries, receipt, named, answered, runs,
                       work, conn, tools, news, watermark, dream, atCall>>
    BY DEF MemoryInvariant, ProcessDies, queue, receipts, connection, dreams
  <1>2. TypeOK'
    BY <1>1 DEF TypeOK
  <1>3. WorkIsTrue' /\ DreamIsTrue'
    BY <1>1 DEF MemoryInvariant, WorkIsTrue, DreamIsTrue
  <1>4. ASSUME NEW b \in Batches
        PROVE  (RunsAreGranted(b) /\ CompletedIsAnswered(b) /\ OutcomeIsTold(b))'
    BY <1>1
    DEF MemoryInvariant, RunsAreGranted, CompletedIsAnswered, OutcomeIsTold, Left, Asked,
        InLoop, WorksOn
  <1>. QED
    BY <1>1, <1>2, <1>3, <1>4 DEF MemoryInvariant

\* A death grants two runs: a receipt that says running lets any job run the
\* tools, and a job of the admin is given back.
LEMMA RestartKeeps ==
  ASSUME MemoryInvariant, Restart
  PROVE  MemoryInvariant'
  <1>1. TypeOK /\ WorkIsTrue /\ DreamIsTrue /\ epoch < MaxEpoch
    BY DEF MemoryInvariant, Restart
  <1>2. /\ mode' = "up" /\ epoch' = epoch + 1 /\ work' = Idle
        /\ job' = [b \in Batches |-> IF job[b] = "running" THEN "pending" ELSE job[b]]
        /\ again' = IF work # Idle /\ work.manual
                      THEN [again EXCEPT ![work.batch] = @ + 1] ELSE again
        /\ UNCHANGED <<tries, current, retries, receipt, named, answered, runs, news,
                       watermark, atCall>>
    BY DEF Restart, receipts
  <1>3. dream' = dream \/ dream' = [dream EXCEPT !.phase = "pending"]
    BY DEF Restart
  <1>4. /\ dream' \in [phase : {"none", "pending", "dreaming"}, at : Nat, seen : Nat]
        /\ DreamIsTrue'
    BY <1>1, <1>2, <1>3 DEF TypeOK, DreamIsTrue
  <1>5. work # Idle => work \in WorkRow /\ work.batch \in Batches /\ work.manual \in BOOLEAN
    BY <1>1 DEF TypeOK, WorkRow
  <1>6. again' \in [Batches -> Nat]
    BY <1>1, <1>2, <1>5 DEF TypeOK
  <1>7. epoch' \in 1 .. MaxEpoch /\ epoch \in Nat
    BY <1>1, <1>2, OmbreConstants DEF TypeOK
  <1>8. conn' \in {"ready", "degraded"} /\ tools' \in BOOLEAN
    BY DEF Restart
  <1>9. TypeOK'
    BY <1>1, <1>2, <1>4, <1>6, <1>7, <1>8 DEF TypeOK
  <1>10. WorkIsTrue'
    BY <1>2 DEF WorkIsTrue
  <1>11. ASSUME NEW b \in Batches
         PROVE  (RunsAreGranted(b) /\ CompletedIsAnswered(b) /\ OutcomeIsTold(b))'
    <2>1. RunsAreGranted(b) /\ CompletedIsAnswered(b) /\ OutcomeIsTold(b)
      BY DEF MemoryInvariant
    <2>2. ~WorksOn(b)'
      BY <1>2 DEF WorksOn
    <2>3. /\ runs[b] \in Nat /\ again[b] \in Nat /\ again'[b] \in Nat /\ retries[b] \in Nat
          /\ Left(b) \in {0, 1} /\ Left(b)' \in {0, 1} /\ Asked(b) \in {0, 1}
      BY <1>1, <1>6 DEF TypeOK, Left, Asked
    <2>4. Asked(b)' = 0
      BY <2>2 DEF Asked
    <2>5. again'[b] \in {again[b], again[b] + 1}
      BY <1>1, <1>2, <1>5 DEF TypeOK
    <2>6. runs'[b] + Left(b)' + again'[b] + Asked(b)'
            <= runs[b] + Left(b) + again[b] + Asked(b) + 2
      BY <1>2, <2>3, <2>4, <2>5
    <2>7. RunsAreGranted(b)'
      BY <1>2, <1>7, <2>1, <2>3, <2>4, <2>6 DEF RunsAreGranted
    <2>8. OutcomeIsTold(b)'
      <3>1. CASE WorksOn(b)
        <4>1. work.manual => again'[b] # 0
          BY <1>1, <1>2, <1>5, <2>3, <3>1 DEF WorksOn, TypeOK
        <4>2. ~work.manual => job'[b] = "pending"
          BY <1>1, <1>2, <1>5, <3>1 DEF WorksOn, WorkIsTrue
        <4>. QED  BY <4>1, <4>2 DEF OutcomeIsTold
      <3>2. CASE ~WorksOn(b)
        <4>1. again'[b] = again[b]
          BY <1>1, <1>2, <1>5, <3>2 DEF WorksOn, TypeOK
        <4>2. job'[b] \in {"done", "failed"} => job'[b] = job[b]
          BY <1>2
        <4>. QED  BY <1>2, <2>1, <3>2, <4>1, <4>2 DEF OutcomeIsTold
      <3>. QED  BY <3>1, <3>2
    <2>. QED
      BY <1>2, <2>1, <2>7, <2>8 DEF CompletedIsAnswered
  <1>. QED
    BY <1>1, <1>2, <1>4, <1>9, <1>10, <1>11 DEF MemoryInvariant

LEMMA StepRemembers == MemoryInvariant /\ [MemoryNext]_memoryVars => MemoryInvariant'
  <1>. SUFFICES ASSUME MemoryInvariant, [MemoryNext]_memoryVars PROVE MemoryInvariant'
    OBVIOUS
  <1>1. ASSUME NEW b \in Batches, Asking(b) PROVE MemoryInvariant'
    BY <1>1, HandOverKeeps, AdminRetryKeeps DEF Asking
  <1>2. ASSUME NEW b \in Batches, Lane(b) PROVE MemoryInvariant'
    BY <1>2, ClaimKeeps DEF Lane
  <1>3. CASE Clear  BY <1>3, ClearKeeps
  <1>4. CASE Opening
    BY <1>4, LooksKeep, SkipCommitKeeps, StartCommitKeeps DEF Opening
  <1>5. CASE Loop
    BY <1>5, ModelKeeps, CallsKeep, CallBeginsKeeps DEF Loop
  <1>6. CASE JobEnds \/ JobThrows  BY <1>6, LaneEndsKeeps
  <1>7. CASE OthersReconnect  BY <1>7, OthersReconnectKeeps
  <1>8. CASE Connecting  BY <1>8, ConnectingKeeps
  <1>9. CASE Dreaming  BY <1>9, DreamingKeeps
  <1>10. CASE ProcessDies  BY <1>10, CrashKeeps
  <1>11. CASE Restart  BY <1>11, RestartKeeps
  <1>12. CASE UNCHANGED memoryVars
    <2>1. /\ UNCHANGED <<queue, receipts, work, news, process>>
          /\ UNCHANGED <<connection, dreams>>
      BY <1>12 DEF memoryVars
    <2>2. TypeOK' /\ DreamIsTrue'
      BY <2>1
      DEF MemoryInvariant, TypeOK, DreamIsTrue, queue, receipts, connection, dreams, process
    <2>. QED  BY <2>1, <2>2, OthersKeep
  <1>. QED
    BY <1>1, <1>2, <1>3, <1>4, <1>5, <1>6, <1>7, <1>8, <1>9, <1>10, <1>11, <1>12
    DEF MemoryNext, Handler

-------------------------------------------------------------------------------
\* Queue, receipt, lane and memory server agree in every reachable state, for
\* any number of batches, attempts, rounds, retries and deaths of the process.
THEOREM MemoryInvariantHolds == MemorySpec => []MemoryInvariant
  <1>1. MemoryInit => MemoryInvariant  BY InitRemembers
  <1>. QED  BY <1>1, StepRemembers, PTL DEF MemorySpec

\* The tools of a batch run no more often than was granted, "completed" is said
\* only after a call of the batch was answered without an error, a job at rest has
\* told its outcome, and a dream leaves beyond the watermark every commit that
\* completed after its call was made (commit() of ombre-memory.ts, the jobs
\* ombre.memory_commit and ombre.dream).
THEOREM RecordsStayTrue == MemorySpec => []RecordsAreTrue
  <1>1. MemorySpec => []MemoryInvariant  BY MemoryInvariantHolds
  <1>. QED  BY <1>1, InvariantGivesRecords, PTL
===============================================================================
