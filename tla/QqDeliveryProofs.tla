--------------------------- MODULE QqDeliveryProofs ----------------------------
(***************************************************************************)
(* For any messages, splits, attempts and deaths of the process: a message *)
(* has one executor, the user reads a passive reply in order, once and     *)
(* within its budget, and a message that counts as sent was shown whole.   *)
(*                                                                         *)
(* The proof goes along the progress of one row.  What the row's completed *)
(* steps say of the fragments the user has seen (RowIsTrue) is kept by     *)
(* each of the things an attempt may do with it; the split of the text     *)
(* does not change under them, because it is settled with the thought,     *)
(* before the first bubble.  The rest is frame: one slot at a time.        *)
(***************************************************************************)
EXTENDS QqDelivery, FiniteSetTheorems, WellFoundedInduction, TLAPS

LEMMA Constants ==
  /\ "none" \notin Messages /\ Passive \subseteq Messages
  /\ \A m \in Messages :
       /\ Lines[m] \in Nat /\ Media[m] \in Nat /\ Paragraphs[m] \in Nat
       /\ Paragraphs[m] <= Lines[m] /\ (Lines[m] > 0 => Paragraphs[m] > 0)
  /\ MaxPassiveSends \in Nat \ {0} /\ MaxAttempts \in Nat \ {0}
  /\ MaxQueued \in Nat \ {0} /\ MaxResets \in Nat /\ MaxEpoch \in Nat \ {0}
  BY DeliveryConstants DEF DeliveryConstants

-------------------------------------------------------------------------------
(***************************************************************************)
(* The operators of the layout.                                            *)
(***************************************************************************)
\* The CHOOSE of Least has something to choose.
LEMMA LeastIsThere ==
  ASSUME NEW S \in SUBSET Nat, S # {}
  PROVE  Least(S) \in S /\ \A q \in S : Least(S) <= q
  <1>. DEFINE R == OpToRel(<, Nat)
  <1>1. IsWellFoundedOn(R, Nat)
    BY NatLessThanWellFounded
  <1>2. \A q, p \in Nat : q < p => <<q, p>> \in R
    BY DEF OpToRel
  <1>. HIDE DEF R
  <1>3. PICK p \in S : \A q \in S : <<q, p>> \notin R
    BY <1>1, WFMin
  <1>4. ASSUME NEW q \in S PROVE p <= q
    <2>1. q \in Nat /\ p \in Nat  OBVIOUS
    <2>2. ~ (q < p)  BY <2>1, <1>2, <1>3, Zenon
    <2>. QED  BY <2>1, <2>2
  <1>. QED  BY <1>4 DEF Least

LEMMA LargerFacts ==
  \A a, b \in Int : Larger(a, b) \in {a, b} /\ Larger(a, b) >= a /\ Larger(a, b) >= b
  BY DEF Larger

\* A text has a bubble unless it is empty, never more than lines, and one when
\* the reply is not passive.  A passive reply fits its budget with its media,
\* and with the thought when one may be sent at all.
LEMMA SplitFacts ==
  ASSUME NEW m \in Messages, NEW ts \in {0, 1}
  PROVE  /\ Split(m, ts) \in 0 .. Lines[m] /\ (Lines[m] > 0 => Split(m, ts) > 0)
         /\ m \notin Passive => Split(m, ts) <= 1
         /\ m \in Passive /\ (ts = 1 => CanThink(m)) =>
              Split(m, ts) + Media[m] + ts <= Larger(MaxPassiveSends, LeastSends(m))
  <1>. DEFINE room == RoomForBubbles(m, ts)
  <1>0. /\ Lines[m] \in Nat /\ Media[m] \in Nat /\ Paragraphs[m] \in Nat
        /\ Paragraphs[m] <= Lines[m] /\ (Lines[m] > 0 => Paragraphs[m] > 0)
        /\ MaxPassiveSends \in Nat /\ LeastSends(m) \in Nat
    BY Constants DEF LeastSends
  <1>1. /\ room \in Nat \ {0} /\ (m \notin Passive => room = 1)
        /\ m \in Passive /\ room # 1 => room = MaxPassiveSends - Media[m] - ts
    BY <1>0 DEF RoomForBubbles, Larger
  <1>2. Split(m, ts) = IF room = 1 THEN (IF Lines[m] = 0 THEN 0 ELSE 1)
                       ELSE IF Lines[m] <= room THEN Lines[m]
                       ELSE IF Paragraphs[m] <= room THEN Paragraphs[m] ELSE room
    BY DEF Split, Bubbles, NoRow
  <1>. HIDE DEF room
  <1>3. Split(m, ts) \in 0 .. Lines[m] /\ (Lines[m] > 0 => Split(m, ts) > 0)
        /\ Split(m, ts) <= room
    BY <1>0, <1>1, <1>2
  <1>4. ASSUME m \in Passive, ts = 1 => CanThink(m)
        PROVE  Split(m, ts) + Media[m] + ts <= Larger(MaxPassiveSends, LeastSends(m))
    <2>1. CASE room = 1
      <3>1. Split(m, ts) + Media[m] = LeastSends(m)
        BY <1>0, <1>2, <2>1 DEF LeastSends
      <3>2. LeastSends(m) + ts <= Larger(MaxPassiveSends, LeastSends(m))
        BY <1>0, <1>4 DEF Larger, CanThink
      <3>. QED  BY <3>1, <3>2
    <2>2. CASE room # 1
      BY <1>0, <1>1, <1>3, <1>4, <2>2 DEF Larger
    <2>. QED  BY <2>1, <2>2
  <1>. QED  BY <1>1, <1>3, <1>4

LEMMA ThoughtSlotFacts ==
  ASSUME NEW r, NEW thinks \in BOOLEAN
  PROVE  /\ ThoughtSlot(r, thinks) \in {0, 1}
         /\ Thought \in r.done => ThoughtSlot(r, thinks) = 1
         /\ Thought \notin r.done /\ ~thinks => ThoughtSlot(r, thinks) = 0
         /\ thinks => ThoughtSlot(r, thinks) = 1
  BY DEF ThoughtSlot

-------------------------------------------------------------------------------
(***************************************************************************)
(* The steps of one attempt over a row of which RowIsTrue holds.  The      *)
(* thought is decided when an attempt goes on: Ready.                      *)
(***************************************************************************)
Ready(m, r, thinks) ==
  IF thinks THEN CanThink(m) /\ NoThought \notin r.done ELSE ~NeedsThought(m, r)

StepKey(n, pos) ==
  IF pos = 0 THEN Thought ELSE IF pos > n THEN Part(pos - n) ELSE TextKey(n, pos)
StepFragment(n, pos) ==
  IF pos = 0 THEN <<0, 0>> ELSE IF pos > n THEN <<0, pos - n>> ELSE <<n, pos>>

LEMMA StepKeyFacts ==
  ASSUME NEW n \in Nat, NEW p \in Nat
  PROVE  /\ StepKey(n, p) \in Int \ {NoThought}
         /\ StepKey(n, p) = Thought <=> p = 0
         /\ StepKey(n, p) = WholeText => n = 1
         /\ p \in 1 .. n => StepKey(n, p) = TextKey(n, p)
         /\ \A q \in Nat : StepKey(n, p) = StepKey(n, q) => p = q
  BY DEF StepKey, TextKey, Thought, NoThought, WholeText, Part, Bubble

LEMMA TextKeyFacts ==
  ASSUME NEW n \in Nat, NEW i \in 1 .. n
  PROVE  TextKey(n, i) \in Nat /\ TextKey(n, i) # Thought /\ TextKey(n, i) # NoThought
  BY DEF TextKey, Thought, NoThought, WholeText, Bubble

\* The thought slot of a row changes only while the thought itself is sent,
\* before anything else.
LEMMA SlotIsSettled ==
  ASSUME NEW m \in Messages, NEW r \in RowType, NEW seen, NEW spent,
         RowIsTrue(m, r, seen, spent), NEW thinks \in BOOLEAN, Ready(m, r, thinks)
  PROVE  \/ ThoughtSlot(r, thinks) = ThoughtSlot(r, FALSE)
         \/ /\ thinks /\ NeedsThought(m, r) /\ r.done = {} /\ seen \subseteq {<<0, 0>>}
            /\ ThoughtSlot(r, FALSE) = 0
  <1>1. CASE thinks /\ Thought \notin r.done
    <2>1. NeedsThought(m, r)
      BY <1>1 DEF Ready, NeedsThought
    <2>2. r.done = {} /\ seen \subseteq {<<0, 0>>}
      BY <2>1, Zenon DEF RowIsTrue
    <2>. QED  BY <1>1, <2>1, <2>2, ThoughtSlotFacts
  <1>2. CASE ~thinks \/ Thought \in r.done
    BY <1>2 DEF ThoughtSlot
  <1>. QED  BY <1>1, <1>2

\* So the bubbles of every attempt are those of the first.
LEMMA LayoutIsSettled ==
  ASSUME NEW m \in Messages, NEW r \in RowType, NEW seen, NEW spent,
         RowIsTrue(m, r, seen, spent), NEW thinks \in BOOLEAN, Ready(m, r, thinks),
         NEW ts, ts = ThoughtSlot(r, thinks), NEW n, n = Split(m, ts)
  PROVE  /\ ts \in {0, 1} /\ n \in Nat /\ Media[m] \in Nat /\ Bubbles(m, r, ts) = n
         /\ Positions(m, r, ts, thinks) =
              (IF thinks THEN {0} ELSE {}) \cup 1 .. n + Media[m]
         /\ \A pos : Key(m, r, ts, pos) = StepKey(n, pos)
                     /\ Fragment(m, r, ts, pos) = StepFragment(n, pos)
  <1>1. ts \in {0, 1} /\ n \in Nat /\ Media[m] \in Nat /\ Lines[m] \in Nat
        /\ (n > 0 => Lines[m] > 0)
    BY ThoughtSlotFacts, SplitFacts, Constants
  <1>2. Bubbles(m, r, ts) = n
    <2>1. CASE WholeText \notin r.done
      BY <2>1 DEF Bubbles, Split, NoRow
    <2>2. CASE WholeText \in r.done
      <3>1. ts = ThoughtSlot(r, FALSE)
        BY <2>2, SlotIsSettled
      <3>2. n = 1
        BY <2>2, <3>1 DEF RowIsTrue
      <3>. QED  BY <1>1, <2>2, <3>2 DEF Bubbles
    <2>. QED  BY <2>1, <2>2
  <1>3. Positions(m, r, ts, thinks) =
          (IF thinks THEN {0} ELSE {}) \cup 1 .. n + Media[m]
    BY <1>2 DEF Positions
  <1>4. \A pos : Key(m, r, ts, pos) = StepKey(n, pos)
                 /\ Fragment(m, r, ts, pos) = StepFragment(n, pos)
    BY <1>2 DEF Key, Fragment, StepKey, StepFragment, TextKey
  <1>. QED  BY <1>1, <1>2, <1>3, <1>4

\* What an attempt is at, in terms of the settled layout.
Placed(m, r, seen, pos, thinks) ==
  LET ts == ThoughtSlot(r, thinks)
      n == Split(m, ts)
  IN
  /\ Ready(m, r, thinks)
  /\ pos <= n + Media[m] /\ (pos = 0 => thinks) /\ StepKey(n, pos) \notin r.done
  /\ \A q \in 1 .. pos - 1 : StepKey(n, q) \in r.done
  /\ pos = 0 => NeedsThought(m, r) /\ r.done = {} /\ seen \subseteq {<<0, 0>>}
  /\ pos # 0 => /\ ts = ThoughtSlot(r, FALSE) /\ ~NeedsThought(m, r)
                /\ thinks => Thought \in r.done

LEMMA StepIsPlaced ==
  ASSUME NEW m \in Messages, NEW r \in RowType, NEW seen, NEW spent,
         RowIsTrue(m, r, seen, spent), NEW thinks \in BOOLEAN, NEW pos \in Nat,
         AtStep(m, r, pos, thinks)
  PROVE  Placed(m, r, seen, pos, thinks)
  <1>. DEFINE ts == ThoughtSlot(r, thinks)
              n == Split(m, ts)
  <1>1. Ready(m, r, thinks)
    BY DEF AtStep, Ready
  <1>2. /\ n \in Nat /\ Media[m] \in Nat
        /\ Positions(m, r, ts, thinks) =
             (IF thinks THEN {0} ELSE {}) \cup 1 .. n + Media[m]
        /\ \A p : Key(m, r, ts, p) = StepKey(n, p)
    BY <1>1, LayoutIsSettled
  <1>3. /\ pos \in Positions(m, r, ts, thinks) /\ Key(m, r, ts, pos) \notin r.done
        /\ \A q \in Positions(m, r, ts, thinks) : q < pos => Key(m, r, ts, q) \in r.done
    BY DEF AtStep
  <1>. DEFINE steps == (IF thinks THEN {0} ELSE {}) \cup 1 .. n + Media[m]
  <1>4. /\ pos \in steps /\ StepKey(n, pos) \notin r.done
        /\ \A q \in steps : q < pos => StepKey(n, q) \in r.done
    BY <1>2, <1>3, Zenon
  <1>5. pos <= n + Media[m] /\ (pos = 0 => thinks)
    BY <1>2, <1>4
  <1>6. \A q \in 1 .. pos - 1 : StepKey(n, q) \in r.done
    BY <1>2, <1>4, <1>5
  <1>7. ASSUME pos = 0
        PROVE  NeedsThought(m, r) /\ r.done = {} /\ seen \subseteq {<<0, 0>>}
    <2>1. Thought \notin r.done
      BY <1>4, <1>7 DEF StepKey
    <2>2. NeedsThought(m, r)
      BY <1>1, <1>5, <1>7, <2>1 DEF Ready, NeedsThought
    <2>. QED  BY <2>2, Zenon DEF RowIsTrue
  <1>8. ASSUME pos # 0
        PROVE  /\ ts = ThoughtSlot(r, FALSE) /\ ~NeedsThought(m, r)
               /\ thinks => Thought \in r.done
    <2>1. ASSUME thinks PROVE Thought \in r.done
      <3>1. 0 \in steps /\ 0 < pos
        BY <1>8, <2>1
      <3>2. StepKey(n, 0) \in r.done
        BY <1>4, <3>1
      <3>. QED  BY <3>2 DEF StepKey
    <2>. QED  BY <1>1, <2>1 DEF Ready, NeedsThought, ThoughtSlot
  <1>. QED  BY <1>1, <1>4, <1>5, <1>6, <1>7, <1>8 DEF Placed

-------------------------------------------------------------------------------
(***************************************************************************)
(* What an attempt does to one row and to what the user has seen of it.    *)
(***************************************************************************)
\* A claim, a failure, a retry, a recovery: the completed steps stay.
LEMMA StatusMoves ==
  ASSUME NEW m, NEW r, NEW s, NEW seen, NEW spent, RowIsTrue(m, r, seen, spent),
         s.done = r.done, s.status # "sent"
  PROVE  RowIsTrue(m, s, seen, spent) /\ (NeedsThought(m, s) <=> NeedsThought(m, r))
  <1>1. ThoughtSlot(s, FALSE) = ThoughtSlot(r, FALSE)
    BY DEF ThoughtSlot
  <1>2. NeedsThought(m, s) <=> NeedsThought(m, r)
    BY DEF NeedsThought
  <1>. QED  BY <1>1, <1>2, Zenon DEF RowIsTrue

\* 'thought:none': the thought is decided, nothing was sent.
LEMMA ThoughtIsGivenUp ==
  ASSUME NEW m \in Messages, NEW r \in RowType, NEW s \in RowType, NEW seen, NEW spent,
         RowIsTrue(m, r, seen, spent), NeedsThought(m, r),
         s.done = r.done \cup {NoThought}, s.status # "sent"
  PROVE  RowIsTrue(m, s, seen, spent) /\ Ready(m, s, FALSE)
  <1>. DEFINE n == Split(m, 0)
  <1>1. r.done = {} /\ seen \subseteq {<<0, 0>>}
    BY Zenon DEF RowIsTrue
  <1>2. /\ s.done = {NoThought} /\ ~NeedsThought(m, s)
        /\ Thought \notin s.done /\ WholeText \notin s.done
    BY <1>1 DEF NeedsThought, Thought, NoThought, WholeText
  <1>3. ThoughtSlot(r, FALSE) = 0 /\ ThoughtSlot(s, FALSE) = 0
    BY <1>1, <1>2, ThoughtSlotFacts
  <1>4. n \in Nat
    BY SplitFacts
  <1>5. \A i \in 1 .. n : TextKey(n, i) \notin s.done /\ <<n, i>> \notin seen
    BY <1>1, <1>2, <1>4, TextKeyFacts
  <1>6. /\ m \in Passive => \A f \in seen : Spends(n, 0, f) \in spent
        /\ m \in Passive => \A q \in spent : q <= Larger(MaxPassiveSends, LeastSends(m))
    BY <1>3, Zenon DEF RowIsTrue
  <1>. HIDE DEF n
  <1>7. seen \subseteq {<<0, 0>>} \cup ({n} \X (1 .. n)) \cup ({0} \X (1 .. Media[m]))
    BY <1>1
  <1>8. RowIsTrue(m, s, seen, spent)
    BY <1>2, <1>3, <1>5, <1>6, <1>7, Zenon DEF RowIsTrue, n
  <1>. QED  BY <1>2, <1>8 DEF Ready

\* markStepCompleted(): a step that was shown, or a media part given up.
LEMMA StepIsRecorded ==
  ASSUME NEW m \in Messages, NEW r \in RowType, NEW s \in RowType, NEW seen, NEW spent,
         RowIsTrue(m, r, seen, spent), NEW thinks \in BOOLEAN, NEW pos \in Nat,
         AtStep(m, r, pos, thinks),
         NEW ts, ts = ThoughtSlot(r, thinks), NEW n, n = Split(m, ts),
         s.done = r.done \cup {StepKey(n, pos)}, s.status # "sent",
         pos <= n => StepFragment(n, pos) \in seen
  PROVE  RowIsTrue(m, s, seen, spent) /\ Ready(m, s, thinks)
  <1>1. ts \in {0, 1} /\ n \in Nat /\ Media[m] \in Nat
    BY ThoughtSlotFacts, SplitFacts, Constants
  <1>o. Placed(m, r, seen, pos, thinks)
    BY StepIsPlaced
  <1>p. /\ Ready(m, r, thinks)
        /\ pos = 0 => NeedsThought(m, r) /\ r.done = {} /\ seen \subseteq {<<0, 0>>}
        /\ pos # 0 => /\ ts = ThoughtSlot(r, FALSE) /\ ~NeedsThought(m, r)
                      /\ thinks => Thought \in r.done
    BY <1>o DEF Placed
  <1>q. /\ pos <= n + Media[m] /\ (pos = 0 => thinks)
        /\ \A q \in 1 .. pos - 1 : StepKey(n, q) \in r.done
    BY <1>o DEF Placed
  <1>2. CASE pos = 0
    <2>. DEFINE k == Split(m, 1)
    <2>1. /\ thinks /\ CanThink(m) /\ NoThought \notin r.done
          /\ r.done = {} /\ seen \subseteq {<<0, 0>>}
      BY <1>2, <1>p, <1>q DEF Ready
    <2>2. s.done = {Thought} /\ <<0, 0>> \in seen
      BY <1>1, <1>2, <2>1 DEF StepKey, StepFragment
    <2>3. /\ NoThought \notin s.done /\ WholeText \notin s.done /\ Thought \in s.done
          /\ ~NeedsThought(m, s)
      BY <2>2 DEF NeedsThought, Thought, NoThought, WholeText
    <2>4. ThoughtSlot(s, FALSE) = 1 /\ k \in Nat
      BY <2>3, SplitFacts DEF ThoughtSlot
    <2>5. \A i \in 1 .. k : TextKey(k, i) \notin s.done /\ <<k, i>> \notin seen
      <3>1. \A i \in 1 .. k : TextKey(k, i) # Thought
        BY <2>4, TextKeyFacts
      <3>2. \A i \in 1 .. k : <<k, i>> # <<0, 0>>
        BY <2>4
      <3>. QED  BY <2>1, <2>2, <3>1, <3>2
    <2>6. ThoughtSlot(r, FALSE) = 0
      BY <2>1 DEF ThoughtSlot
    <2>7. /\ m \in Passive => \A f \in seen : Spends(Split(m, 0), 0, f) \in spent
          /\ m \in Passive => \A q \in spent : q <= Larger(MaxPassiveSends, LeastSends(m))
      BY <2>6, Zenon DEF RowIsTrue
    <2>8. m \in Passive => \A f \in seen : Spends(k, 1, f) \in spent
      BY <2>1, <2>7 DEF Spends
    <2>. HIDE DEF k
    <2>9. seen \subseteq {<<0, 0>>} \cup ({k} \X (1 .. k)) \cup ({0} \X (1 .. Media[m]))
      BY <2>1
    <2>10. RowIsTrue(m, s, seen, spent)
      BY <2>1, <2>2, <2>3, <2>4, <2>5, <2>7, <2>8, <2>9, Zenon DEF RowIsTrue, k
    <2>. QED  BY <2>1, <2>3, <2>10 DEF Ready
  <1>3. CASE pos # 0
    <2>1. /\ Ready(m, r, thinks) /\ ts = ThoughtSlot(r, FALSE) /\ ~NeedsThought(m, r)
          /\ thinks => Thought \in r.done
      BY <1>3, <1>p, Zenon
    <2>2. StepKey(n, pos) # Thought /\ StepKey(n, pos) # NoThought
      BY <1>1, <1>3, StepKeyFacts
    <2>3. /\ Thought \in s.done <=> Thought \in r.done
          /\ NoThought \in s.done <=> NoThought \in r.done
      BY <2>2
    <2>4. ~NeedsThought(m, s) /\ ThoughtSlot(s, FALSE) = ts
      BY <2>1, <2>3 DEF NeedsThought, ThoughtSlot
    <2>5. WholeText \in s.done => n = 1
      BY <1>1, <2>1, StepKeyFacts DEF RowIsTrue
    <2>6. ASSUME NEW i \in 1 .. n, TextKey(n, i) \in s.done
          PROVE  <<n, i>> \in seen
      <3>1. TextKey(n, i) = StepKey(n, i)
        BY <1>1, StepKeyFacts
      <3>2. CASE TextKey(n, i) \in r.done
        BY <2>1, <3>2 DEF RowIsTrue
      <3>3. CASE StepKey(n, i) = StepKey(n, pos)
        <4>1. i = pos
          BY <1>1, <3>3, StepKeyFacts
        <4>. QED  BY <1>1, <4>1 DEF StepFragment
      <3>. QED  BY <2>6, <3>1, <3>2, <3>3
    <2>7. RowIsTrue(m, s, seen, spent)
      BY <2>1, <2>3, <2>4, <2>5, <2>6, Zenon DEF RowIsTrue
    <2>. QED  BY <2>1, <2>3, <2>4, <2>7 DEF Ready
  <1>. QED  BY <1>2, <1>3

\* The platform shows the step: with a msg_seq of its own, and behind those
\* before it.
LEMMA StepIsShown ==
  ASSUME NEW m \in Messages, NEW r \in RowType, r.status # "sent",
         NEW seen, NEW spent, RowIsTrue(m, r, seen, spent),
         NEW thinks \in BOOLEAN, NEW pos \in Nat, AtStep(m, r, pos, thinks),
         NEW ts, ts = ThoughtSlot(r, thinks), NEW n, n = Split(m, ts),
         NEW after, m \in Passive => after = spent \cup {Seq(r, ts, pos)}
  PROVE  /\ RowIsTrue(m, r, seen \cup {StepFragment(n, pos)}, after)
         /\ m \in Passive /\ StepFragment(n, pos) \in seen => Seq(r, ts, pos) \in spent
  <1>. DEFINE f == StepFragment(n, pos)
  <1>1. ts \in {0, 1} /\ n \in Nat /\ Media[m] \in Nat
        /\ MaxPassiveSends \in Nat \ {0} /\ LeastSends(m) \in Nat
    BY ThoughtSlotFacts, SplitFacts, Constants DEF LeastSends
  <1>o. Placed(m, r, seen, pos, thinks)
    BY StepIsPlaced
  <1>p. /\ Ready(m, r, thinks)
        /\ pos = 0 => NeedsThought(m, r) /\ r.done = {} /\ seen \subseteq {<<0, 0>>}
        /\ pos # 0 => /\ ts = ThoughtSlot(r, FALSE) /\ ~NeedsThought(m, r)
                      /\ thinks => Thought \in r.done
    BY <1>o DEF Placed
  <1>q. /\ pos <= n + Media[m] /\ (pos = 0 => thinks)
        /\ \A q \in 1 .. pos - 1 : StepKey(n, q) \in r.done
    BY <1>o DEF Placed
  <1>2. CASE pos = 0
    <2>. DEFINE k == Split(m, 0)
    <2>1. /\ thinks /\ CanThink(m) /\ NoThought \notin r.done /\ NeedsThought(m, r)
          /\ r.done = {} /\ seen \subseteq {<<0, 0>>}
      BY <1>2, <1>p, <1>q DEF Ready
    <2>2. ThoughtSlot(r, FALSE) = 0 /\ k \in Nat
      BY <2>1, SplitFacts DEF ThoughtSlot
    <2>3. f = <<0, 0>> /\ Seq(r, ts, pos) = 1 /\ Spends(k, 0, f) = 1
      BY <1>2 DEF StepFragment, Seq, Spends
    <2>4. 1 <= Larger(MaxPassiveSends, LeastSends(m))
      BY <1>1 DEF Larger
    <2>5. /\ m \in Passive => \A g \in seen : Spends(k, 0, g) \in spent
          /\ m \in Passive => \A q \in spent : q <= Larger(MaxPassiveSends, LeastSends(m))
      BY <2>2, Zenon DEF RowIsTrue
    <2>. HIDE DEF f, k
    <2>6. /\ m \in Passive => \A g \in seen \cup {f} : Spends(k, 0, g) \in after
          /\ m \in Passive => \A q \in after : q <= Larger(MaxPassiveSends, LeastSends(m))
      BY <2>3, <2>4, <2>5
    <2>7. /\ seen \cup {f} \subseteq {<<0, 0>>}
          /\ \A i \in 1 .. k : <<k, i>> \notin seen \cup {f}
      BY <2>1, <2>2, <2>3
    <2>8. seen \cup {f} \subseteq {<<0, 0>>} \cup ({k} \X (1 .. k)) \cup ({0} \X (1 .. Media[m]))
      BY <2>7
    <2>9. RowIsTrue(m, r, seen \cup {f}, after)
      BY <2>1, <2>2, <2>6, <2>7, <2>8, Zenon DEF RowIsTrue, k
    <2>10. m \in Passive /\ f \in seen => Seq(r, ts, pos) \in spent
      BY <2>3, <2>5
    <2>. QED  BY <2>9, <2>10 DEF f
  <1>3. CASE pos # 0
    <2>1. ts = ThoughtSlot(r, FALSE) /\ ~NeedsThought(m, r)
      BY <1>3, <1>p, Zenon
    <2>2. Seq(r, ts, pos) = pos + ts /\ Spends(n, ts, f) = pos + ts
      BY <1>1, <1>3 DEF Seq, Spends, StepFragment
    <2>3. ASSUME m \in Passive PROVE pos + ts <= Larger(MaxPassiveSends, LeastSends(m))
      <3>1. ts = 1 => CanThink(m)
        <4>1. ts = 1 => Thought \in r.done
          BY <2>1 DEF ThoughtSlot
        <4>. QED  BY <4>1, Zenon DEF RowIsTrue
      <3>2. n + Media[m] + ts <= Larger(MaxPassiveSends, LeastSends(m))
        BY <1>1, <2>3, <3>1, SplitFacts
      <3>3. Larger(MaxPassiveSends, LeastSends(m)) \in Int
        BY <1>1 DEF Larger
      <3>. QED  BY <1>1, <1>q, <3>2, <3>3
    <2>4. f \in ({n} \X (1 .. n)) \cup ({0} \X (1 .. Media[m]))
      BY <1>1, <1>3, <1>q DEF StepFragment
    <2>5. /\ m \in Passive => \A g \in seen : Spends(n, ts, g) \in spent
          /\ m \in Passive => \A q \in spent : q <= Larger(MaxPassiveSends, LeastSends(m))
          /\ \A i \in 1 .. n : TextKey(n, i) \in r.done => <<n, i>> \in seen
          /\ \A i \in 1 .. n : <<n, i>> \in seen => \A j \in 1 .. i : <<n, j>> \in seen
          /\ seen \subseteq {<<0, 0>>} \cup ({n} \X (1 .. n)) \cup ({0} \X (1 .. Media[m]))
      BY <2>1, Zenon DEF RowIsTrue
    <2>6. ASSUME NEW i \in 1 .. n, <<n, i>> \in seen \cup {f}, NEW j \in 1 .. i
          PROVE  <<n, j>> \in seen \cup {f}
      <3>1. CASE <<n, i>> \in seen
        BY <2>5, <3>1
      <3>2. CASE <<n, i>> = f
        <4>1. pos <= n /\ i = pos
          BY <1>1, <1>3, <3>2 DEF StepFragment
        <4>2. CASE j = pos
          BY <3>2, <4>1, <4>2
        <4>3. CASE j # pos
          <5>1. StepKey(n, j) \in r.done /\ TextKey(n, j) = StepKey(n, j)
            BY <1>1, <1>q, <4>1, <4>3, StepKeyFacts
          <5>. QED  BY <1>1, <2>5, <4>1, <5>1
        <4>. QED  BY <4>2, <4>3
      <3>. QED  BY <2>6, <3>1, <3>2
    <2>. HIDE DEF f
    <2>7. /\ m \in Passive => \A g \in seen \cup {f} : Spends(n, ts, g) \in after
          /\ m \in Passive => \A q \in after : q <= Larger(MaxPassiveSends, LeastSends(m))
      BY <2>2, <2>3, <2>5
    <2>8. seen \cup {f} \subseteq {<<0, 0>>} \cup ({n} \X (1 .. n)) \cup ({0} \X (1 .. Media[m]))
      BY <2>4, <2>5
    <2>9. /\ Thought \in r.done =>
               CanThink(m) /\ NoThought \notin r.done /\ <<0, 0>> \in seen \cup {f}
          /\ \A i \in 1 .. n : TextKey(n, i) \in r.done => <<n, i>> \in seen \cup {f}
          /\ WholeText \in r.done => n = 1
      BY <2>1, <2>5 DEF RowIsTrue
    <2>10. RowIsTrue(m, r, seen \cup {f}, after)
      BY <2>1, <2>6, <2>7, <2>8, <2>9, Zenon DEF RowIsTrue
    <2>11. m \in Passive /\ f \in seen => Seq(r, ts, pos) \in spent
      BY <2>2, <2>5
    <2>. QED  BY <2>10, <2>11 DEF f
  <1>. QED  BY <1>2, <1>3

-------------------------------------------------------------------------------
(***************************************************************************)
(* The frame: one slot works on one message.                               *)
(***************************************************************************)
LEMMA InvByPart ==
  DeliveryInvariant <=>
    /\ TypeOK /\ ClaimsAreLeft /\ SlotsAreApart
    /\ \A k \in Messages : RowIsTrue(k, row[k], shown[k], used[k])
    /\ \A k \in Passive : k \notin doubled
    /\ \A f \in Slots : SlotIsTrue(f)
  BY Zenon DEF DeliveryInvariant

\* A slot whose message nobody touches is where it was.
LEMMA SlotStays ==
  ASSUME NEW e \in Slots, SlotIsTrue(e), slot'[e] = slot[e],
         slot[e].phase = "idle" \/
           (row'[slot[e].m] = row[slot[e].m] /\ shown'[slot[e].m] = shown[slot[e].m])
  PROVE  SlotIsTrue(e)'
  <1>1. CASE slot[e].phase = "idle"
    BY <1>1 DEF SlotIsTrue
  <1>2. CASE row'[slot[e].m] = row[slot[e].m] /\ shown'[slot[e].m] = shown[slot[e].m]
    <2>1. FragmentOf(e)' = FragmentOf(e)
      BY <1>2 DEF FragmentOf, TsOf
    <2>. QED  BY <1>2, <2>1 DEF SlotIsTrue
  <1>. QED  BY <1>1, <1>2

LEMMA SlotMoves ==
  ASSUME DeliveryInvariant, NEW e \in Slots, NEW m \in Messages, TypeOK',
         mode = "up", UNCHANGED <<mode, epoch, resets>>,
         \A k \in Messages \ {m} :
           row'[k] = row[k] /\ shown'[k] = shown[k] /\ used'[k] = used[k],
         \A f \in Slots \ {e} : slot'[f] = slot[f] /\ slot[f].m # m,
         slot[e].m \in {m, "none"}, slot'[e].m \in {m, "none"},
         slot'[e].phase = "idle" <=> slot'[e].m = "none",
         row'[m].status = "sending" <=> slot'[e].m = m,
         row'[m].status \in {"none", "pending", "retry"} =>
           row'[m].attempts <= MaxAttempts + resets + epoch - 2,
         RowIsTrue(m, row'[m], shown'[m], used'[m]),
         m \in Passive => doubled' = doubled, doubled' \subseteq doubled \cup {m},
         SlotIsTrue(e)'
  PROVE  DeliveryInvariant'
  <1>1. TypeOK /\ ClaimsAreLeft /\ SlotsAreApart
        /\ (\A k \in Messages : RowIsTrue(k, row[k], shown[k], used[k]))
        /\ (\A k \in Passive : k \notin doubled) /\ \A f \in Slots : SlotIsTrue(f)
    BY InvByPart, Zenon
  <1>2. TypeOK' /\ ClaimsAreLeft'
    BY <1>1 DEF ClaimsAreLeft
  <1>3. SlotsAreApart'
    <2>0. "none" \notin Messages
      BY Constants
    <2>1. ASSUME NEW f \in Slots
          PROVE  /\ slot'[f].phase = "idle" <=> slot'[f].m = "none"
                 /\ slot'[f].m \in Messages => row'[slot'[f].m].status = "sending"
                 /\ \A g \in Slots : slot'[f].m = slot'[g].m /\ slot'[f].m \in Messages => f = g
      <3>1. CASE f = e
        BY <1>1, <2>0, <3>1 DEF SlotsAreApart
      <3>2. CASE f # e
        BY <1>1, <2>0, <3>2 DEF SlotsAreApart
      <3>. QED  BY <3>1, <3>2
    <2>2. ASSUME NEW k \in Messages, row'[k].status = "sending"
          PROVE  \E f \in Slots : slot'[f].m = k
      <3>1. CASE k = m
        BY <2>2, <3>1
      <3>2. CASE k # m
        <4>1. PICK f \in Slots : slot[f].m = k
          BY <1>1, <2>2, <3>2 DEF SlotsAreApart
        <4>2. f # e
          BY <2>0, <3>2, <4>1
        <4>. QED  BY <4>1, <4>2
      <3>. QED  BY <3>1, <3>2
    <2>. QED  BY <2>1, <2>2 DEF SlotsAreApart
  <1>4. ASSUME NEW k \in Messages
        PROVE  RowIsTrue(k, row'[k], shown'[k], used'[k])
    <2>1. CASE k = m
      BY <2>1
    <2>2. CASE k # m
      BY <1>1, <2>2
    <2>. QED  BY <2>1, <2>2
  <1>5. ASSUME NEW k \in Passive PROVE k \notin doubled'
    BY <1>1
  <1>6. ASSUME NEW f \in Slots PROVE SlotIsTrue(f)'
    <2>1. CASE f = e
      BY <2>1
    <2>2. CASE f # e
      <3>1. slot[f].phase # "idle" => slot[f].m \in Messages \ {m}
        <4>1. slot[f].m \in Messages \cup {"none"} /\ slot[f].m # m
          BY <1>1, <2>2 DEF TypeOK, SlotType
        <4>. QED  BY <1>1, <4>1 DEF SlotsAreApart
      <3>. QED  BY <1>1, <2>2, <3>1, SlotStays
    <2>. QED  BY <2>1, <2>2
  <1>7. (\A k \in Messages : RowIsTrue(k, row[k], shown[k], used[k]))'
    BY <1>4
  <1>8. (\A k \in Passive : k \notin doubled)' /\ (\A f \in Slots : SlotIsTrue(f))'
    BY <1>5, <1>6
  <1>. QED  BY <1>2, <1>3, <1>7, <1>8, InvByPart, PTL

\* deliver() goes on: the next step that is left, or the end of the message.
LEMMA GoOnMoves ==
  ASSUME TypeOK, NEW e \in Slots, NEW m \in Messages, NEW r \in RowType,
         NEW thinks \in BOOLEAN, RowIsTrue(m, r, shown[m], used[m]),
         Ready(m, r, thinks), r.status = "sending",
         GoOn(e, m, r, thinks), UNCHANGED <<shown, used>>
  PROVE  /\ row' \in [Messages -> RowType] /\ slot' \in [Slots -> SlotType]
         /\ \A k \in Messages \ {m} : row'[k] = row[k]
         /\ \A f \in Slots \ {e} : slot'[f] = slot[f]
         /\ row'[m].attempts = r.attempts /\ row'[m].status \in {"sending", "sent"}
         /\ slot'[e].m \in {m, "none"}
         /\ slot'[e].phase = "idle" <=> slot'[e].m = "none"
         /\ row'[m].status = "sending" <=> slot'[e].m = m
         /\ RowIsTrue(m, row'[m], shown'[m], used'[m])
         /\ SlotIsTrue(e)'
  <1>. DEFINE ts == ThoughtSlot(r, thinks)
              n == Split(m, ts)
              steps == (IF thinks THEN {0} ELSE {}) \cup 1 .. n + Media[m]
              left == Undone(m, r, thinks)
  <1>0. "none" # m /\ Media[m] \in Nat
    BY Constants
  <1>1. /\ n \in Nat /\ Positions(m, r, ts, thinks) = steps
        /\ \A p : Key(m, r, ts, p) = StepKey(n, p)
    BY LayoutIsSettled
  <1>2. left = {p \in steps : StepKey(n, p) \notin r.done}
    BY <1>1 DEF Undone
  <1>3. left \in SUBSET Nat
    BY <1>0, <1>1, <1>2
  <1>4. CASE left = {}
    <2>. DEFINE s == [r EXCEPT !.status = "sent"]
    <2>1. row' = [row EXCEPT ![m] = s] /\ slot' = [slot EXCEPT ![e] = Idle]
      BY <1>4 DEF GoOn
    <2>2. s \in RowType /\ s.status = "sent" /\ s.done = r.done /\ s.attempts = r.attempts
      BY DEF RowType, Statuses
    <2>3. thinks => Thought \in r.done
      <3>1. thinks => 0 \in steps
        OBVIOUS
      <3>2. StepKey(n, 0) = Thought
        BY DEF StepKey
      <3>. QED  BY <1>2, <1>4, <3>1, <3>2
    <2>4. ts = ThoughtSlot(r, FALSE) /\ ~NeedsThought(m, r)
      BY <2>3 DEF Ready, NeedsThought, ThoughtSlot
    <2>5. ASSUME NEW i \in 1 .. n PROVE TextKey(n, i) \in r.done
      <3>1. i \in steps
        BY <1>0, <1>1
      <3>2. StepKey(n, i) = TextKey(n, i)
        BY <1>1, StepKeyFacts
      <3>. QED  BY <1>2, <1>4, <3>1, <3>2
    <2>. HIDE DEF s
    <2>6. RowIsTrue(m, s, shown[m], used[m])
      <3>1. ThoughtSlot(s, FALSE) = ts /\ ~NeedsThought(m, s)
        BY <2>2, <2>4 DEF NeedsThought, ThoughtSlot
      <3>. QED  BY <2>2, <2>4, <2>5, <3>1, Zenon DEF RowIsTrue
    <2>7. Idle \in SlotType /\ Idle.phase = "idle" /\ Idle.m = "none"
      BY DEF Idle, SlotType
    <2>8. /\ row' \in [Messages -> RowType] /\ row'[m] = s
          /\ \A k \in Messages \ {m} : row'[k] = row[k]
      BY <2>1, <2>2 DEF TypeOK
    <2>9. /\ slot' \in [Slots -> SlotType] /\ slot'[e] = Idle
          /\ \A f \in Slots \ {e} : slot'[f] = slot[f]
      BY <2>1, <2>7 DEF TypeOK
    <2>10. SlotIsTrue(e)'
      BY <2>7, <2>9 DEF SlotIsTrue
    <2>. QED  BY <1>0, <2>2, <2>6, <2>7, <2>8, <2>9, <2>10
  <1>5. CASE left # {}
    <2>. DEFINE at == Least(left)
                next == [phase |-> "sending", m |-> m, pos |-> at,
                         thinks |-> thinks, fallback |-> FALSE]
    <2>1. row' = [row EXCEPT ![m] = r] /\ slot' = [slot EXCEPT ![e] = next]
      BY <1>5 DEF GoOn
    <2>2. at \in left /\ \A q \in left : at <= q
      BY <1>3, <1>5, LeastIsThere
    <2>3. /\ next \in SlotType /\ next.phase = "sending" /\ next.m = m
          /\ next.pos = at /\ next.thinks = thinks
      BY <1>3, <2>2 DEF SlotType
    <2>. HIDE DEF next
    <2>4. /\ row' \in [Messages -> RowType] /\ row'[m] = r
          /\ \A k \in Messages \ {m} : row'[k] = row[k]
      BY <2>1 DEF TypeOK
    <2>5. /\ slot' \in [Slots -> SlotType] /\ slot'[e] = next
          /\ \A f \in Slots \ {e} : slot'[f] = slot[f]
      BY <2>1, <2>3 DEF TypeOK
    <2>6. AtStep(m, r, at, thinks)
      <3>. HIDE DEF at
      <3>1. at \in steps /\ StepKey(n, at) \notin r.done
        BY <1>2, <2>2
      <3>2. ASSUME NEW q \in steps, q < at PROVE StepKey(n, q) \in r.done
        <4>1. q \in Nat /\ at \in Nat
          BY <1>3, <2>2, <1>0, <1>1
        <4>2. q \notin left
          BY <2>2, <3>2, <4>1
        <4>. QED  BY <1>2, <4>2
      <3>. HIDE DEF ts, n, steps
      <3>3. /\ at \in Positions(m, r, ts, thinks) /\ Key(m, r, ts, at) \notin r.done
            /\ \A q \in Positions(m, r, ts, thinks) : q < at => Key(m, r, ts, q) \in r.done
        BY <1>1, <3>1, <3>2
      <3>. QED  BY <3>3 DEF AtStep, Ready, ts
    <2>7. SlotIsTrue(e)'
      BY <2>3, <2>4, <2>5, <2>6 DEF SlotIsTrue
    <2>. QED  BY <1>0, <2>3, <2>4, <2>5, <2>7
  <1>. QED  BY <1>4, <1>5

LEMMA SlotGoesOn ==
  ASSUME DeliveryInvariant, NEW e \in Slots, NEW m \in Messages, mode = "up",
         slot[e].m \in {m, "none"}, \A f \in Slots \ {e} : slot[f].m # m,
         NEW r \in RowType, r.status = "sending",
         r.attempts <= MaxAttempts + resets + epoch - 1,
         NEW thinks \in BOOLEAN, RowIsTrue(m, r, shown[m], used[m]),
         Ready(m, r, thinks), GoOn(e, m, r, thinks),
         UNCHANGED <<bound, present, handed, mode, epoch, resets, platform>>,
         queued' \in [Messages -> 0 .. MaxQueued]
  PROVE  DeliveryInvariant'
  <1>0. TypeOK /\ UNCHANGED <<shown, used, doubled>>
    BY DEF DeliveryInvariant, platform
  <1>1. /\ row' \in [Messages -> RowType] /\ slot' \in [Slots -> SlotType]
        /\ \A k \in Messages \ {m} : row'[k] = row[k]
        /\ \A f \in Slots \ {e} : slot'[f] = slot[f]
        /\ row'[m].attempts = r.attempts /\ row'[m].status \in {"sending", "sent"}
        /\ slot'[e].m \in {m, "none"}
        /\ slot'[e].phase = "idle" <=> slot'[e].m = "none"
        /\ row'[m].status = "sending" <=> slot'[e].m = m
        /\ RowIsTrue(m, row'[m], shown'[m], used'[m])
        /\ SlotIsTrue(e)'
    BY <1>0, GoOnMoves
  <1>2. TypeOK'
    <2>1. \A k \in Messages : row'[k].attempts <= MaxAttempts + resets + epoch - 1
      BY <1>0, <1>1 DEF TypeOK
    <2>. QED  BY <1>0, <1>1, <2>1 DEF TypeOK
  <1>. QED  BY <1>0, <1>1, <1>2, SlotMoves

\* A working slot has its message for itself.
LEMMA SlotWorks ==
  ASSUME DeliveryInvariant, NEW e \in Slots, slot[e].phase # "idle"
  PROVE  /\ slot[e].m \in Messages /\ row[slot[e].m].status = "sending"
         /\ \A f \in Slots \ {e} : slot[f].m # slot[e].m
         /\ mode = "up" /\ slot[e].m # "none"
         /\ row[slot[e].m] \in RowType /\ slot[e] \in SlotType
         /\ row[slot[e].m].attempts <= MaxAttempts + resets + epoch - 1
         /\ RowIsTrue(slot[e].m, row[slot[e].m], shown[slot[e].m], used[slot[e].m])
         /\ SlotIsTrue(e)
  <1>1. /\ slot[e] \in SlotType /\ slot[e].m \in Messages
        /\ row[slot[e].m].status = "sending" /\ slot[e].m # "none"
        /\ \A f \in Slots \ {e} : slot[f].m # slot[e].m
    BY Constants DEF DeliveryInvariant, TypeOK, SlotType, SlotsAreApart
  <1>2. mode = "up"
    BY DEF DeliveryInvariant, TypeOK, ClaimsAreLeft, Idle
  <1>3. /\ row[slot[e].m] \in RowType
        /\ row[slot[e].m].attempts <= MaxAttempts + resets + epoch - 1
    BY <1>1 DEF DeliveryInvariant, TypeOK
  <1>4. /\ RowIsTrue(slot[e].m, row[slot[e].m], shown[slot[e].m], used[slot[e].m])
        /\ SlotIsTrue(e)
    BY <1>1 DEF DeliveryInvariant
  <1>. QED  BY <1>1, <1>2, <1>3, <1>4, Zenon

\* A row that no slot works on.
LEMMA SlotIsFree ==
  ASSUME DeliveryInvariant, NEW m \in Messages, row[m].status # "sending"
  PROVE  /\ \A f \in Slots : slot[f].m # m
         /\ \A f \in Slots : slot[f].phase = "idle" => slot[f].m = "none"
         /\ row[m] \in RowType /\ RowIsTrue(m, row[m], shown[m], used[m])
  <1>1. \A f \in Slots : slot[f].m # m /\ (slot[f].phase = "idle" => slot[f].m = "none")
    BY DEF DeliveryInvariant, SlotsAreApart
  <1>. QED  BY <1>1 DEF DeliveryInvariant, TypeOK

-------------------------------------------------------------------------------
(***************************************************************************)
(* The actions.                                                            *)
(***************************************************************************)
\* The queue, the owner, the messages: no row and no slot moves.
LEMMA QuietMoves ==
  ASSUME DeliveryInvariant, TypeOK',
         UNCHANGED <<row, slot, mode, epoch, resets, shown, doubled, used>>
  PROVE  DeliveryInvariant'
  <1>1. ClaimsAreLeft' /\ SlotsAreApart'
    BY DEF DeliveryInvariant, ClaimsAreLeft, SlotsAreApart
  <1>2. \A f \in Slots : SlotIsTrue(f)'
    BY SlotStays DEF DeliveryInvariant
  <1>. QED  BY <1>1, <1>2 DEF DeliveryInvariant

\* Rows get another status and keep their steps; slots stop or stay.
LEMMA RowsMove ==
  ASSUME DeliveryInvariant, TypeOK', ClaimsAreLeft', SlotsAreApart',
         UNCHANGED platform,
         \A k \in Messages :
           \/ row'[k] = row[k]
           \/ row'[k].done = row[k].done /\ row'[k].status # "sent",
         \A f \in Slots :
           \/ slot'[f] = Idle
           \/ /\ slot'[f] = slot[f]
              /\ slot[f].phase = "idle" \/ row'[slot[f].m] = row[slot[f].m]
  PROVE  DeliveryInvariant'
  <1>0. UNCHANGED <<shown, doubled, used>>
    BY DEF platform
  <1>1. ASSUME NEW k \in Messages
        PROVE  RowIsTrue(k, row'[k], shown'[k], used'[k])
    <2>1. RowIsTrue(k, row[k], shown[k], used[k])
      BY DEF DeliveryInvariant
    <2>2. CASE row'[k] = row[k]
      BY <1>0, <2>1, <2>2
    <2>3. CASE row'[k].done = row[k].done /\ row'[k].status # "sent"
      BY <1>0, <2>1, <2>3, StatusMoves
    <2>. QED  BY <2>2, <2>3
  <1>2. ASSUME NEW f \in Slots PROVE SlotIsTrue(f)'
    <2>1. CASE slot'[f] = Idle
      BY <2>1 DEF SlotIsTrue, Idle
    <2>2. CASE slot'[f] # Idle
      BY <1>0, <2>2, SlotStays DEF DeliveryInvariant
    <2>. QED  BY <2>1, <2>2
  <1>. QED  BY <1>0, <1>1, <1>2 DEF DeliveryInvariant

LEMMA OneMoreFits ==
  ASSUME TypeOK, NEW m \in Messages
  PROVE  OneMore(m) \in 0 .. MaxQueued /\ queued[m] \in 0 .. MaxQueued
  BY Constants DEF TypeOK, OneMore

LEMMA QuietActions ==
  ASSUME DeliveryInvariant,
         \/ \E m \in Messages : HandOver(m) \/ DeleteMessage(m)
         \/ \E e \in Slots, m \in Messages : DeliverNothing(e, m)
         \/ BindOwner \/ Sweep
  PROVE  DeliveryInvariant'
  <1>0. TypeOK
    BY DEF DeliveryInvariant
  <1>1. ASSUME NEW m \in Messages, HandOver(m) PROVE DeliveryInvariant'
    BY <1>0, <1>1, QuietMoves, Constants DEF HandOver, TypeOK, process, platform
  <1>2. ASSUME NEW m \in Messages, DeleteMessage(m) PROVE DeliveryInvariant'
    BY <1>0, <1>2, QuietMoves DEF DeleteMessage, TypeOK, process, platform
  <1>3. ASSUME NEW e \in Slots, NEW m \in Messages, DeliverNothing(e, m)
        PROVE  DeliveryInvariant'
    <2>1. queued' \in [Messages -> 0 .. MaxQueued]
      BY <1>0, <1>3, Constants DEF DeliverNothing, TakesJob, TypeOK
    <2>. QED
      BY <1>0, <1>3, <2>1, QuietMoves DEF DeliverNothing, TypeOK, process, platform
  <1>4. CASE BindOwner
    BY <1>0, <1>4, QuietMoves DEF BindOwner, TypeOK, process, platform
  <1>5. CASE Sweep
    <2>1. queued' \in [Messages -> 0 .. MaxQueued]
      BY <1>0, <1>5, OneMoreFits DEF Sweep
    <2>. QED  BY <1>0, <1>5, <2>1, QuietMoves DEF Sweep, TypeOK, process, platform
  <1>. QED  BY <1>1, <1>2, <1>3, <1>4, <1>5

\* begin(): a claim takes an attempt that is left.
LEMMA ClaimTakesAnAttempt ==
  ASSUME DeliveryInvariant, NEW m \in Messages, CanClaim(Enqueued(row[m])),
         NEW r, r = Claimed(Enqueued(row[m]))
  PROVE  /\ row[m].status \in {"none", "pending", "retry"}
         /\ r \in RowType /\ r.status = "sending" /\ r.done = row[m].done
         /\ r.attempts <= MaxAttempts + resets + epoch - 1
         /\ RowIsTrue(m, r, shown[m], used[m])
         /\ NeedsThought(m, r) <=> NeedsThought(m, row[m])
  <1>1. /\ row[m] \in RowType /\ RowIsTrue(m, row[m], shown[m], used[m])
        /\ resets \in Nat /\ epoch \in Nat /\ MaxAttempts \in Nat
    BY Constants DEF DeliveryInvariant, TypeOK
  <1>2. row[m].status \in {"none", "pending", "retry"}
    BY DEF CanClaim, Enqueued
  <1>3. row[m].attempts <= MaxAttempts + resets + epoch - 2
    BY <1>2 DEF DeliveryInvariant, ClaimsAreLeft
  <1>4. r \in RowType /\ r.status = "sending" /\ r.done = row[m].done
        /\ r.attempts = row[m].attempts + 1
    <2>. DEFINE q == Enqueued(row[m])
    <2>1. q \in RowType /\ q.done = row[m].done /\ q.attempts = row[m].attempts
      BY <1>1 DEF Enqueued, RowType, Statuses
    <2>. HIDE DEF q
    <2>2. r = [status |-> "sending", attempts |-> q.attempts + 1, done |-> q.done]
      BY <2>1 DEF Claimed, q, RowType
    <2>3. q.attempts \in Nat /\ q.done \in SUBSET Int
      BY <2>1 DEF RowType
    <2>. QED  BY <2>1, <2>2, <2>3 DEF RowType, Statuses
  <1>5. r.attempts <= MaxAttempts + resets + epoch - 1
    BY <1>1, <1>3, <1>4 DEF RowType
  <1>. QED  BY <1>1, <1>2, <1>4, <1>5, StatusMoves

LEMMA DeliverMissingKeeps ==
  ASSUME DeliveryInvariant, NEW e \in Slots, NEW m \in Messages, DeliverMissing(e, m)
  PROVE  DeliveryInvariant'
  <1>. DEFINE c == Claimed(Enqueued(row[m]))
              s == [c EXCEPT !.status = "failed"]
  <1>0. TypeOK
    BY DEF DeliveryInvariant
  <1>1. /\ mode = "up" /\ queued[m] > 0 /\ CanClaim(Enqueued(row[m]))
        /\ queued' = [queued EXCEPT ![m] = @ - 1] /\ row' = [row EXCEPT ![m] = s]
        /\ UNCHANGED <<bound, present, handed, slot, mode, epoch, resets, shown, doubled, used>>
    BY DEF DeliverMissing, TakesJob, process, platform
  <1>2. /\ row[m].status \in {"none", "pending", "retry"} /\ c \in RowType
        /\ c.done = row[m].done /\ c.attempts <= MaxAttempts + resets + epoch - 1
    BY <1>1, ClaimTakesAnAttempt
  <1>3. s \in RowType /\ s.status = "failed" /\ s.done = row[m].done
        /\ s.attempts <= MaxAttempts + resets + epoch - 1
    BY <1>2 DEF RowType, Statuses
  <1>. HIDE DEF s
  <1>4. /\ row' \in [Messages -> RowType] /\ row'[m] = s
        /\ \A k \in Messages \ {m} : row'[k] = row[k]
    BY <1>0, <1>1, <1>3 DEF TypeOK
  <1>5. queued' \in [Messages -> 0 .. MaxQueued]
    BY <1>0, <1>1, Constants DEF TypeOK
  <1>6. TypeOK'
    <2>1. \A k \in Messages : row'[k].attempts <= MaxAttempts + resets + epoch - 1
      BY <1>0, <1>3, <1>4 DEF TypeOK
    <2>. QED  BY <1>0, <1>1, <1>4, <1>5, <2>1 DEF TypeOK
  <1>7. \A f \in Slots : slot[f].m # m
    BY <1>2, SlotIsFree
  <1>8. ClaimsAreLeft'
    BY <1>1, <1>3, <1>4 DEF DeliveryInvariant, ClaimsAreLeft
  <1>9. SlotsAreApart'
    BY <1>1, <1>3, <1>4, <1>7 DEF DeliveryInvariant, SlotsAreApart
  <1>10. \A f \in Slots : slot[f].phase = "idle" \/ row'[slot[f].m] = row[slot[f].m]
    BY <1>4, <1>7, SlotWorks
  <1>11. UNCHANGED platform
    BY <1>1 DEF platform
  <1>. QED  BY <1>1, <1>3, <1>4, <1>6, <1>8, <1>9, <1>10, <1>11, RowsMove

LEMMA DeliverKeeps ==
  ASSUME DeliveryInvariant, NEW e \in Slots, NEW m \in Messages, Deliver(e, m)
  PROVE  DeliveryInvariant'
  <1>. DEFINE r == Claimed(Enqueued(row[m]))
  <1>0. TypeOK
    BY DEF DeliveryInvariant
  <1>1. /\ mode = "up" /\ slot[e].phase = "idle" /\ queued[m] > 0
        /\ CanClaim(Enqueued(row[m])) /\ queued' = [queued EXCEPT ![m] = @ - 1]
        /\ UNCHANGED <<bound, present, handed, mode, epoch, resets, platform>>
        /\ IF NeedsThought(m, r)
           THEN /\ row' = [row EXCEPT ![m] = r]
                /\ slot' = [slot EXCEPT ![e] = [Idle EXCEPT !.phase = "thinking", !.m = m]]
           ELSE GoOn(e, m, r, FALSE)
    BY DEF Deliver, TakesJob
  <1>2. /\ row[m].status \in {"none", "pending", "retry"}
        /\ r \in RowType /\ r.status = "sending" /\ r.done = row[m].done
        /\ r.attempts <= MaxAttempts + resets + epoch - 1
        /\ RowIsTrue(m, r, shown[m], used[m])
    BY <1>1, ClaimTakesAnAttempt
  <1>3. slot[e].m = "none" /\ \A f \in Slots : slot[f].m # m
    BY <1>1, <1>2, SlotIsFree
  <1>4. queued' \in [Messages -> 0 .. MaxQueued]
    BY <1>0, <1>1, Constants DEF TypeOK
  <1>. HIDE DEF r
  <1>5. CASE ~NeedsThought(m, r)
    <2>1. Ready(m, r, FALSE) /\ GoOn(e, m, r, FALSE)
      BY <1>1, <1>5 DEF Ready
    <2>. QED  BY <1>1, <1>2, <1>3, <1>4, <2>1, SlotGoesOn
  <1>6. CASE NeedsThought(m, r)
    <2>. DEFINE s == [Idle EXCEPT !.phase = "thinking", !.m = m]
    <2>1. row' = [row EXCEPT ![m] = r] /\ slot' = [slot EXCEPT ![e] = s]
      BY <1>1, <1>6
    <2>2. s \in SlotType /\ s.phase = "thinking" /\ s.m = m
      BY DEF Idle, SlotType
    <2>. HIDE DEF s
    <2>3. /\ row' \in [Messages -> RowType] /\ row'[m] = r
          /\ \A k \in Messages \ {m} : row'[k] = row[k]
      BY <1>0, <1>2, <2>1 DEF TypeOK
    <2>4. /\ slot' \in [Slots -> SlotType] /\ slot'[e] = s
          /\ \A f \in Slots \ {e} : slot'[f] = slot[f]
      BY <1>0, <2>1, <2>2 DEF TypeOK
    <2>5. UNCHANGED <<shown, doubled, used>>
      BY <1>1 DEF platform
    <2>6. TypeOK'
      <3>1. \A k \in Messages : row'[k].attempts <= MaxAttempts + resets + epoch - 1
        BY <1>0, <1>2, <2>3 DEF TypeOK
      <3>. QED  BY <1>0, <1>1, <1>4, <2>3, <2>4, <2>5, <3>1 DEF TypeOK
    <2>7. SlotIsTrue(e)'
      BY <1>6, <2>2, <2>3, <2>4 DEF SlotIsTrue
    <2>8. m # "none"
      BY Constants
    <2>. QED  BY <1>1, <1>2, <1>3, <2>2, <2>3, <2>4, <2>5, <2>6, <2>7, <2>8, SlotMoves
  <1>. QED  BY <1>5, <1>6

\* The wait for the thought ends: with a text, or with none for all attempts.
LEMMA ThoughtKeeps ==
  ASSUME DeliveryInvariant, NEW e \in Slots, ThoughtArrives(e) \/ ThoughtMissing(e)
  PROVE  DeliveryInvariant'
  <1>. DEFINE m == slot[e].m
              s == [row[m] EXCEPT !.done = @ \cup {NoThought}]
  <1>0. TypeOK
    BY DEF DeliveryInvariant
  <1>1. /\ slot[e].phase = "thinking" /\ UNCHANGED queued
        /\ UNCHANGED <<bound, present, handed, mode, epoch, resets, platform>>
        /\ GoOn(e, m, row[m], TRUE) \/ GoOn(e, m, s, FALSE)
    BY DEF ThoughtArrives, ThoughtMissing, slotRest
  <1>2. /\ m \in Messages /\ row[m].status = "sending" /\ mode = "up"
        /\ \A f \in Slots \ {e} : slot[f].m # m
        /\ row[m] \in RowType /\ row[m].attempts <= MaxAttempts + resets + epoch - 1
        /\ RowIsTrue(m, row[m], shown[m], used[m]) /\ SlotIsTrue(e)
    BY <1>1, SlotWorks
  <1>3. NeedsThought(m, row[m])
    BY <1>1, <1>2 DEF SlotIsTrue
  <1>4. queued' \in [Messages -> 0 .. MaxQueued]
    BY <1>0, <1>1 DEF TypeOK
  <1>5. s \in RowType /\ s.done = row[m].done \cup {NoThought}
        /\ s.status = "sending" /\ s.attempts = row[m].attempts
    BY <1>2 DEF RowType, NoThought
  <1>6. Ready(m, row[m], TRUE)
    BY <1>3 DEF Ready, NeedsThought
  <1>. HIDE DEF m, s
  <1>7. RowIsTrue(m, s, shown[m], used[m]) /\ Ready(m, s, FALSE)
    BY <1>2, <1>3, <1>5, ThoughtIsGivenUp
  <1>8. slot[e].m \in {m, "none"}
    BY DEF m
  <1>9. CASE GoOn(e, m, row[m], TRUE)
    BY <1>1, <1>2, <1>4, <1>6, <1>8, <1>9, SlotGoesOn
  <1>10. CASE GoOn(e, m, s, FALSE)
    BY <1>1, <1>2, <1>4, <1>5, <1>7, <1>8, <1>10, SlotGoesOn
  <1>. QED  BY <1>1, <1>9, <1>10

\* CompleteStep(): the step a slot is at is recorded, and the loop goes on.
LEMMA CompleteKeeps ==
  ASSUME DeliveryInvariant, NEW e \in Slots,
         \/ StepDone(e) \/ DropMedia(e)
  PROVE  DeliveryInvariant'
  <1>. DEFINE m == slot[e].m
              r == row[m]
              pos == slot[e].pos
              thinks == slot[e].thinks
              ts == ThoughtSlot(r, thinks)
              n == Split(m, ts)
              s == [r EXCEPT !.done = @ \cup {StepKey(n, pos)}]
  <1>0. TypeOK
    BY DEF DeliveryInvariant
  <1>1. /\ slot[e].phase \in {"sending", "accepted"} /\ CompleteStep(e)
        /\ UNCHANGED <<queued, bound, present, handed, mode, epoch, resets, platform>>
        /\ slot[e].phase = "accepted" \/ IsMedia(e)
    BY DEF StepDone, DropMedia, slotRest
  <1>2. /\ m \in Messages /\ r.status = "sending" /\ mode = "up"
        /\ \A f \in Slots \ {e} : slot[f].m # m
        /\ r \in RowType /\ r.attempts <= MaxAttempts + resets + epoch - 1
        /\ RowIsTrue(m, r, shown[m], used[m]) /\ SlotIsTrue(e)
        /\ slot[e] \in SlotType
    BY <1>1, SlotWorks
  <1>3. pos \in Nat /\ thinks \in BOOLEAN
    BY <1>2 DEF SlotType
  <1>4. AtStep(m, r, pos, thinks) /\ (slot[e].phase = "accepted" => FragmentOf(e) \in shown[m])
    BY <1>1, <1>2 DEF SlotIsTrue
  <1>5. Ready(m, r, thinks)
    BY <1>4 DEF AtStep, Ready
  <1>6. /\ n \in Nat /\ Bubbles(m, r, ts) = n
        /\ Key(m, r, ts, pos) = StepKey(n, pos)
        /\ Fragment(m, r, ts, pos) = StepFragment(n, pos)
    BY <1>2, <1>3, <1>5, LayoutIsSettled
  <1>7. GoOn(e, m, s, thinks)
    BY <1>1, <1>6 DEF CompleteStep, TsOf
  <1>8. pos <= n => StepFragment(n, pos) \in shown[m]
    <2>1. FragmentOf(e) = StepFragment(n, pos) /\ (IsMedia(e) <=> pos > n)
      BY <1>6 DEF FragmentOf, IsMedia, TsOf
    <2>. QED  BY <1>1, <1>3, <1>4, <1>6, <2>1
  <1>9. StepKey(n, pos) \in Int
    BY <1>3, <1>6, StepKeyFacts
  <1>10. s \in RowType /\ s.done = r.done \cup {StepKey(n, pos)}
         /\ s.status = "sending" /\ s.attempts = r.attempts
    BY <1>2, <1>9 DEF RowType
  <1>11. queued' \in [Messages -> 0 .. MaxQueued]
         /\ UNCHANGED <<bound, present, handed, mode, epoch, resets, platform>>
    BY <1>0, <1>1 DEF TypeOK
  <1>. HIDE DEF m, r, pos, thinks, s
  <1>12. RowIsTrue(m, s, shown[m], used[m]) /\ Ready(m, s, thinks)
    BY <1>2, <1>3, <1>4, <1>8, <1>10, StepIsRecorded
  <1>13. slot[e].m \in {m, "none"}
    BY DEF m
  <1>. QED
    BY <1>2, <1>3, <1>7, <1>10, <1>11, <1>12, <1>13, SlotGoesOn

LEMMA PlatformAcceptsKeeps ==
  ASSUME DeliveryInvariant, NEW e \in Slots, PlatformAccepts(e)
  PROVE  DeliveryInvariant'
  <1>. DEFINE m == slot[e].m
              r == row[m]
              pos == slot[e].pos
              thinks == slot[e].thinks
              ts == ThoughtSlot(r, thinks)
              n == Split(m, ts)
              f == StepFragment(n, pos)
              q == Seq(r, ts, pos)
              s == [slot[e] EXCEPT !.phase = "accepted"]
  <1>0. TypeOK
    BY DEF DeliveryInvariant
  <1>1. /\ slot[e].phase = "sending" /\ ~DuplicateSeq(e)
        /\ shown' = [shown EXCEPT ![m] = @ \cup {FragmentOf(e)}]
        /\ doubled' = IF FragmentOf(e) \in shown[m] THEN doubled \cup {m} ELSE doubled
        /\ used' = IF m \in Passive THEN [used EXCEPT ![m] = @ \cup {SeqOf(e)}] ELSE used
        /\ slot' = [slot EXCEPT ![e] = s]
        /\ UNCHANGED <<row, queued, bound, present, handed, mode, epoch, resets>>
    BY DEF PlatformAccepts, slotRest
  <1>2. /\ m \in Messages /\ r.status = "sending" /\ mode = "up" /\ m # "none"
        /\ \A g \in Slots \ {e} : slot[g].m # m
        /\ r \in RowType /\ r.attempts <= MaxAttempts + resets + epoch - 1
        /\ RowIsTrue(m, r, shown[m], used[m]) /\ SlotIsTrue(e)
        /\ slot[e] \in SlotType
    BY <1>1, SlotWorks
  <1>3. pos \in Nat /\ thinks \in BOOLEAN
    BY <1>2 DEF SlotType
  <1>4. AtStep(m, r, pos, thinks)
    BY <1>1, <1>2 DEF SlotIsTrue
  <1>5. Ready(m, r, thinks)
    BY <1>4 DEF AtStep, Ready
  <1>6. n \in Nat /\ ts \in {0, 1} /\ Fragment(m, r, ts, pos) = f
    BY <1>2, <1>3, <1>5, LayoutIsSettled
  <1>7. FragmentOf(e) = f /\ SeqOf(e) = q
    BY <1>6 DEF FragmentOf, SeqOf, TsOf
  <1>8. m \in Passive => q \notin used[m]
    BY <1>1, <1>7 DEF DuplicateSeq
  <1>9. f \in Nat \X Nat /\ q \in Nat
    BY <1>3, <1>6 DEF StepFragment, Seq
  <1>10. s \in SlotType /\ s.m = m /\ s.phase = "accepted" /\ s.pos = pos /\ s.thinks = thinks
    BY <1>2 DEF SlotType
  <1>. HIDE DEF m, r, pos, thinks, n, f, q, s
  <1>11. /\ shown' \in [Messages -> SUBSET (Nat \X Nat)] /\ shown'[m] = shown[m] \cup {f}
         /\ \A k \in Messages \ {m} : shown'[k] = shown[k]
    BY <1>0, <1>1, <1>2, <1>7, <1>9 DEF TypeOK
  <1>12. /\ used' \in [Messages -> SUBSET Nat]
         /\ m \in Passive => used'[m] = used[m] \cup {q}
         /\ \A k \in Messages \ {m} : used'[k] = used[k]
    BY <1>0, <1>1, <1>2, <1>7, <1>9 DEF TypeOK
  <1>13. /\ slot' \in [Slots -> SlotType] /\ slot'[e] = s
         /\ \A g \in Slots \ {e} : slot'[g] = slot[g]
    BY <1>0, <1>1, <1>10 DEF TypeOK
  <1>14. /\ RowIsTrue(m, r, shown'[m], used'[m])
         /\ m \in Passive /\ f \in shown[m] => q \in used[m]
    <2>1. /\ RowIsTrue(m, r, shown[m] \cup {f}, used'[m])
          /\ m \in Passive /\ f \in shown[m] => q \in used[m]
      BY <1>2, <1>3, <1>4, <1>12, StepIsShown DEF f, q, n
    <2>. QED  BY <1>11, <2>1
  <1>15. doubled' \subseteq doubled \cup {m} /\ (m \in Passive => doubled' = doubled)
    BY <1>1, <1>7, <1>8, <1>14
  <1>16. doubled' \subseteq Messages
    BY <1>0, <1>2, <1>15 DEF TypeOK
  <1>17. TypeOK'
    BY <1>0, <1>1, <1>11, <1>12, <1>13, <1>16 DEF TypeOK
  <1>18. SlotIsTrue(e)'
    <2>1. slot'[e].m = m /\ row'[m] = r /\ slot'[e].pos = pos /\ slot'[e].thinks = thinks
          /\ slot'[e].phase = "accepted"
      BY <1>1, <1>10, <1>13 DEF r
    <2>2. FragmentOf(e)' = f
      BY <1>6, <2>1 DEF FragmentOf, TsOf
    <2>. QED  BY <1>4, <1>11, <2>1, <2>2 DEF SlotIsTrue
  <1>19. row'[m] = r /\ r.status = "sending"
    BY <1>1, <1>2 DEF r
  <1>20. slot[e].m = m
    BY DEF m
  <1>. QED
    BY <1>1, <1>2, <1>10, <1>11, <1>12, <1>13, <1>14, <1>15, <1>17, <1>18, <1>19, <1>20,
       SlotMoves

\* An error: the fallback of the same step, another attempt, or the end.
LEMMA ErrorKeeps ==
  ASSUME DeliveryInvariant, NEW e \in Slots,
         SendFails(e) \/ SendRefused(e) \/ AnswerLost(e)
  PROVE  DeliveryInvariant'
  <1>. DEFINE m == slot[e].m
              r == row[m]
  <1>0. TypeOK /\ MaxAttempts \in Nat
    BY Constants DEF DeliveryInvariant
  <1>1. /\ slot[e].phase \in {"sending", "accepted"}
        /\ UNCHANGED <<bound, present, handed, mode, epoch, resets, shown, doubled, used>>
        /\ FallBack(e) \/ Retryable(e) \/ Permanent(e)
    BY DEF SendFails, SendRefused, AnswerLost, slotRest, platform
  <1>2. /\ m \in Messages /\ r.status = "sending" /\ mode = "up" /\ m # "none"
        /\ \A g \in Slots \ {e} : slot[g].m # m
        /\ r \in RowType /\ r.attempts <= MaxAttempts + resets + epoch - 1
        /\ RowIsTrue(m, r, shown[m], used[m]) /\ SlotIsTrue(e)
        /\ slot[e] \in SlotType
    BY <1>1, SlotWorks
  <1>3. resets \in Nat /\ epoch \in Nat \ {0} /\ r.attempts \in Nat
    BY <1>0, <1>2, Constants DEF TypeOK, RowType
  <1>4. CASE FallBack(e)
    <2>. DEFINE s == [slot[e] EXCEPT !.phase = "sending", !.fallback = TRUE]
    <2>1. slot' = [slot EXCEPT ![e] = s] /\ UNCHANGED <<row, queued>>
      BY <1>0, <1>4 DEF FallBack, TypeOK
    <2>2. /\ s \in SlotType /\ s.m = m /\ s.phase = "sending"
          /\ s.pos = slot[e].pos /\ s.thinks = slot[e].thinks
      BY <1>2 DEF SlotType
    <2>3. AtStep(m, r, slot[e].pos, slot[e].thinks)
      BY <1>1, <1>2 DEF SlotIsTrue
    <2>. HIDE DEF s
    <2>4. /\ slot' \in [Slots -> SlotType] /\ slot'[e] = s
          /\ \A g \in Slots \ {e} : slot'[g] = slot[g]
      BY <1>0, <2>1, <2>2 DEF TypeOK
    <2>5. SlotIsTrue(e)'
      BY <2>1, <2>2, <2>3, <2>4 DEF SlotIsTrue
    <2>6. TypeOK'
      BY <1>0, <1>1, <2>1, <2>4 DEF TypeOK
    <2>. QED  BY <1>1, <1>2, <2>1, <2>2, <2>4, <2>5, <2>6, SlotMoves
  <1>5. CASE Retryable(e) \/ Permanent(e)
    <2>. DEFINE Ends(st) == [r EXCEPT !.status = st]
    <2>1. /\ slot' = [slot EXCEPT ![e] = Idle]
          /\ queued' \in [Messages -> 0 .. MaxQueued]
      BY <1>0, <1>2, <1>5, OneMoreFits DEF Retryable, Permanent, TypeOK
    <2>2. PICK st \in {"retry", "failed"} :
            /\ row' = [row EXCEPT ![m].status = st]
            /\ st = "retry" => r.attempts < MaxAttempts
      BY <1>0, <1>3, <1>5 DEF Retryable, Permanent
    <2>. DEFINE s == Ends(st)
    <2>3. row' = [row EXCEPT ![m] = s]
      BY <1>0, <2>2 DEF TypeOK
    <2>4. s \in RowType /\ s.status = st /\ s.done = r.done /\ s.attempts = r.attempts
      BY <1>2 DEF RowType, Statuses
    <2>. HIDE DEF s
    <2>5. /\ row' \in [Messages -> RowType] /\ row'[m] = s
          /\ \A k \in Messages \ {m} : row'[k] = row[k]
      BY <1>0, <1>2, <2>3, <2>4 DEF TypeOK
    <2>6. Idle \in SlotType /\ Idle.phase = "idle" /\ Idle.m = "none"
      BY DEF Idle, SlotType
    <2>7. /\ slot' \in [Slots -> SlotType] /\ slot'[e] = Idle
          /\ \A g \in Slots \ {e} : slot'[g] = slot[g]
      BY <1>0, <2>1, <2>6 DEF TypeOK
    <2>8. TypeOK'
      <3>1. \A k \in Messages : row'[k].attempts <= MaxAttempts + resets + epoch - 1
        BY <1>0, <1>2, <2>4, <2>5 DEF TypeOK
      <3>. QED  BY <1>0, <1>1, <2>1, <2>5, <2>7, <3>1 DEF TypeOK
    <2>9. RowIsTrue(m, row'[m], shown'[m], used'[m])
      BY <1>1, <1>2, <2>2, <2>4, <2>5, StatusMoves
    <2>10. row'[m].status = "retry" => row'[m].attempts <= MaxAttempts + resets + epoch - 2
      BY <1>0, <1>3, <2>2, <2>4, <2>5
    <2>11. SlotIsTrue(e)'
      BY <2>6, <2>7 DEF SlotIsTrue
    <2>. HIDE DEF m, r
    <2>12. slot[e].m = m
      BY DEF m
    <2>13. row'[m].status \in {"retry", "failed"}
      BY <2>2, <2>4, <2>5
    <2>. QED
      BY <1>1, <1>2, <2>5, <2>6, <2>7, <2>8, <2>9, <2>10, <2>11, <2>12, <2>13, SlotMoves
  <1>. QED  BY <1>1, <1>4, <1>5

\* resetForRetry(): the row is free, and the retry grants one attempt more.
LEMMA ResetRow ==
  ASSUME DeliveryInvariant, NEW m \in Messages, resets < MaxResets,
         row[m].status \in {"failed", "retry"},
         row' = [row EXCEPT ![m].status = "pending"], resets' = resets + 1
  PROVE  /\ row' \in [Messages -> RowType] /\ resets' \in 0 .. MaxResets
         /\ \A k \in Messages \ {m} : row'[k] = row[k]
         /\ row'[m].done = row[m].done /\ row'[m].status = "pending"
         /\ \A k \in Messages :
              /\ row'[k].attempts <= MaxAttempts + resets' + epoch - 1
              /\ row'[k].status \in {"none", "pending", "retry"} =>
                   row'[k].attempts <= MaxAttempts + resets' + epoch - 2
         /\ \A f \in Slots : slot[f].m # m
         /\ \A f \in Slots : slot[f].phase = "idle" \/ row'[slot[f].m] = row[slot[f].m]
  <1>. DEFINE s == [row[m] EXCEPT !.status = "pending"]
  <1>0. TypeOK /\ ClaimsAreLeft /\ resets \in Nat /\ epoch \in Nat /\ MaxAttempts \in Nat
        /\ resets' \in 0 .. MaxResets
    BY Constants DEF DeliveryInvariant, TypeOK
  <1>1. row[m] \in RowType /\ row' = [row EXCEPT ![m] = s]
    BY <1>0 DEF TypeOK
  <1>2. s \in RowType /\ s.status = "pending" /\ s.done = row[m].done
        /\ s.attempts = row[m].attempts
    BY <1>1 DEF RowType, Statuses
  <1>. HIDE DEF s
  <1>3. /\ row' \in [Messages -> RowType] /\ row'[m] = s
        /\ \A k \in Messages \ {m} : row'[k] = row[k]
    BY <1>0, <1>1, <1>2 DEF TypeOK
  <1>4. ASSUME NEW k \in Messages
        PROVE  /\ row'[k].attempts <= MaxAttempts + resets' + epoch - 1
               /\ row'[k].status \in {"none", "pending", "retry"} =>
                    row'[k].attempts <= MaxAttempts + resets' + epoch - 2
    <2>1. /\ row[k].attempts \in Nat
          /\ row[k].attempts <= MaxAttempts + resets + epoch - 1
          /\ row[k].status \in {"none", "pending", "retry"} =>
               row[k].attempts <= MaxAttempts + resets + epoch - 2
      BY <1>0 DEF TypeOK, RowType, ClaimsAreLeft
    <2>2. row'[k].attempts = row[k].attempts /\ (k # m => row'[k] = row[k])
      BY <1>2, <1>3
    <2>. QED  BY <1>0, <2>1, <2>2
  <1>5. \A f \in Slots : slot[f].m # m
    BY SlotIsFree
  <1>6. \A f \in Slots : slot[f].phase = "idle" \/ row'[slot[f].m] = row[slot[f].m]
    BY <1>3, <1>5, SlotWorks
  <1>. QED  BY <1>0, <1>2, <1>3, <1>4, <1>5, <1>6

LEMMA AdminRetryKeeps ==
  ASSUME DeliveryInvariant, NEW m \in Messages, AdminRetry(m)
  PROVE  DeliveryInvariant'
  <1>0. TypeOK /\ ClaimsAreLeft /\ SlotsAreApart
    BY DEF DeliveryInvariant
  <1>1. /\ mode = "up" /\ resets < MaxResets /\ row[m].status \in {"failed", "retry"}
        /\ row' = [row EXCEPT ![m].status = "pending"] /\ resets' = resets + 1
        /\ queued' = [queued EXCEPT ![m] = OneMore(m)]
        /\ UNCHANGED <<bound, present, handed, slot, mode, epoch, shown, doubled, used, platform>>
    BY DEF AdminRetry, process, platform
  <1>2. /\ row' \in [Messages -> RowType] /\ resets' \in 0 .. MaxResets
        /\ \A k \in Messages \ {m} : row'[k] = row[k]
        /\ row'[m].done = row[m].done /\ row'[m].status = "pending"
        /\ \A k \in Messages :
             /\ row'[k].attempts <= MaxAttempts + resets' + epoch - 1
             /\ row'[k].status \in {"none", "pending", "retry"} =>
                  row'[k].attempts <= MaxAttempts + resets' + epoch - 2
        /\ \A f \in Slots : slot[f].m # m
        /\ \A f \in Slots : slot[f].phase = "idle" \/ row'[slot[f].m] = row[slot[f].m]
    BY <1>1, ResetRow
  <1>3. queued' \in [Messages -> 0 .. MaxQueued]
    BY <1>0, <1>1, OneMoreFits DEF TypeOK
  <1>4. TypeOK'
    BY <1>0, <1>1, <1>2, <1>3 DEF TypeOK
  <1>5. ClaimsAreLeft'
    BY <1>1, <1>2 DEF ClaimsAreLeft
  <1>6. SlotsAreApart'
    BY <1>0, <1>1, <1>2 DEF SlotsAreApart
  <1>. QED  BY <1>1, <1>2, <1>4, <1>5, <1>6, RowsMove

LEMMA DieStopsAll ==
  ASSUME TypeOK, Die
  PROVE  /\ slot' \in [Slots -> SlotType] /\ \A f \in Slots : slot'[f] = Idle
         /\ queued' \in [Messages -> 0 .. MaxQueued]
         /\ mode' = "down" /\ epoch' = epoch /\ epoch < MaxEpoch
  <1>1. Idle \in SlotType
    BY DEF Idle, SlotType
  <1>. QED  BY <1>1, OneMoreFits DEF Die

LEMMA CrashKeeps ==
  ASSUME DeliveryInvariant, Crash \/ \E m \in Messages : CrashInAdminRetry(m)
  PROVE  DeliveryInvariant'
  <1>0. TypeOK /\ ClaimsAreLeft
    BY DEF DeliveryInvariant
  <1>1. /\ slot' \in [Slots -> SlotType] /\ \A f \in Slots : slot'[f] = Idle
        /\ queued' \in [Messages -> 0 .. MaxQueued]
        /\ mode' = "down" /\ epoch' = epoch /\ epoch < MaxEpoch
        /\ UNCHANGED <<bound, present, handed, platform, shown, doubled, used>>
    BY <1>0, DieStopsAll DEF Crash, CrashInAdminRetry, platform
  <1>2. SlotsAreApart'
    BY <1>1, Constants DEF SlotsAreApart, Idle
  <1>3. CASE Crash
    <2>1. UNCHANGED <<row, resets>>
      BY <1>3 DEF Crash
    <2>2. TypeOK' /\ ClaimsAreLeft'
      BY <1>0, <1>1, <2>1 DEF TypeOK, ClaimsAreLeft
    <2>. QED  BY <1>1, <1>2, <2>1, <2>2, RowsMove
  <1>4. ASSUME NEW m \in Messages, CrashInAdminRetry(m)
        PROVE  DeliveryInvariant'
    <2>1. /\ row' \in [Messages -> RowType] /\ resets' \in 0 .. MaxResets
          /\ \A k \in Messages \ {m} : row'[k] = row[k]
          /\ row'[m].done = row[m].done /\ row'[m].status = "pending"
          /\ \A k \in Messages :
               /\ row'[k].attempts <= MaxAttempts + resets' + epoch - 1
               /\ row'[k].status \in {"none", "pending", "retry"} =>
                    row'[k].attempts <= MaxAttempts + resets' + epoch - 2
      BY <1>4, ResetRow DEF CrashInAdminRetry
    <2>2. TypeOK' /\ ClaimsAreLeft'
      BY <1>0, <1>1, <2>1 DEF TypeOK, ClaimsAreLeft
    <2>. QED  BY <1>1, <1>2, <2>1, <2>2, RowsMove
  <1>. QED  BY <1>3, <1>4

\* recoverInFlight(): a claimed row waits again, for an attempt that the new
\* incarnation grants.
LEMMA RestartKeeps ==
  ASSUME DeliveryInvariant, Restart
  PROVE  DeliveryInvariant'
  <1>0. TypeOK /\ ClaimsAreLeft /\ SlotsAreApart /\ MaxAttempts \in Nat
    BY Constants DEF DeliveryInvariant
  <1>1. /\ mode = "down" /\ mode' = "up" /\ epoch' = epoch + 1
        /\ row' = [m \in Messages |-> Recovered(row[m])]
        /\ UNCHANGED <<queued, bound, present, handed, slot, resets, shown, doubled, used, platform>>
    BY DEF Restart, platform
  <1>2. epoch' \in 1 .. MaxEpoch /\ resets \in Nat /\ epoch \in Nat
        /\ \A f \in Slots : slot'[f] = Idle
    <2>1. epoch < MaxEpoch /\ \A f \in Slots : slot[f] = Idle
      BY <1>0, <1>1 DEF ClaimsAreLeft
    <2>2. epoch \in 1 .. MaxEpoch /\ resets \in 0 .. MaxResets
      BY <1>0 DEF TypeOK
    <2>. QED  BY <1>1, <2>1, <2>2, Constants
  <1>3. ASSUME NEW m \in Messages
        PROVE  /\ row'[m] \in RowType /\ row'[m].attempts = row[m].attempts
               /\ row'[m].done = row[m].done /\ row'[m].status # "sending"
               /\ row'[m] = row[m] \/ row'[m].status = "pending"
    BY <1>0, <1>1 DEF TypeOK, Recovered, RowType, Statuses
  <1>4. ASSUME NEW m \in Messages
        PROVE  row'[m].attempts <= MaxAttempts + resets' + epoch' - 2
    <2>1. row[m].attempts \in Nat /\ row[m].attempts <= MaxAttempts + resets + epoch - 1
      BY <1>0 DEF TypeOK, RowType
    <2>. QED  BY <1>0, <1>1, <1>2, <1>3, <2>1
  <1>5. TypeOK'
    <2>1. row' \in [Messages -> RowType]
      BY <1>1, <1>3
    <2>2. \A m \in Messages : row'[m].attempts <= MaxAttempts + resets' + epoch' - 1
      BY <1>0, <1>1, <1>2, <1>3, <1>4 DEF RowType
    <2>. QED  BY <1>0, <1>1, <1>2, <2>1, <2>2 DEF TypeOK
  <1>6. ClaimsAreLeft'
    BY <1>1, <1>4 DEF ClaimsAreLeft
  <1>7. SlotsAreApart'
    BY <1>2, <1>3, Constants DEF SlotsAreApart, Idle
  <1>8. \A m \in Messages :
          row'[m] = row[m] \/ (row'[m].done = row[m].done /\ row'[m].status # "sent")
    BY <1>3
  <1>. QED  BY <1>1, <1>2, <1>5, <1>6, <1>7, <1>8, RowsMove

LEMMA InitKeeps == Init => DeliveryInvariant
  <1>. SUFFICES ASSUME Init PROVE DeliveryInvariant
    OBVIOUS
  <1>0. NoRow \in RowType /\ Idle \in SlotType
    BY DEF NoRow, Idle, RowType, SlotType, Statuses
  <1>1. TypeOK
    BY <1>0, Constants DEF Init, TypeOK, NoRow
  <1>2. ClaimsAreLeft /\ SlotsAreApart
    BY Constants DEF Init, ClaimsAreLeft, SlotsAreApart, NoRow, Idle
  <1>3. ASSUME NEW m \in Messages PROVE RowIsTrue(m, row[m], shown[m], used[m])
    <2>1. row[m].done = {} /\ row[m].status # "sent" /\ shown[m] = {} /\ used[m] = {}
      BY DEF Init, NoRow
    <2>. QED  BY <2>1 DEF RowIsTrue
  <1>4. \A e \in Slots : SlotIsTrue(e)
    BY DEF Init, SlotIsTrue, Idle
  <1>5. doubled = {}
    BY DEF Init
  <1>. QED  BY <1>1, <1>2, <1>3, <1>4, <1>5 DEF DeliveryInvariant

LEMMA NextKeeps == DeliveryInvariant /\ [Next]_vars => DeliveryInvariant'
  <1>. SUFFICES ASSUME DeliveryInvariant, [Next]_vars PROVE DeliveryInvariant'
    OBVIOUS
  <1>1. CASE UNCHANGED vars
    <2>1. TypeOK'
      BY <1>1 DEF vars, DeliveryInvariant, TypeOK
    <2>. QED  BY <1>1, <2>1, QuietMoves DEF vars
  <1>2. ASSUME NEW m \in Messages,
               HandOver(m) \/ DeleteMessage(m) \/ AdminRetry(m) \/ CrashInAdminRetry(m)
        PROVE  DeliveryInvariant'
    BY <1>2, QuietActions, AdminRetryKeeps, CrashKeeps, Zenon
  <1>3. ASSUME NEW e \in Slots, NEW m \in Messages, TakeJob(e, m)
        PROVE  DeliveryInvariant'
    BY <1>3, QuietActions, DeliverMissingKeeps, DeliverKeeps, Zenon DEF TakeJob
  <1>4. ASSUME NEW e \in Slots, Progress(e)
        PROVE  DeliveryInvariant'
    BY <1>4, ThoughtKeeps, PlatformAcceptsKeeps, CompleteKeeps, ErrorKeeps, Zenon
       DEF Progress
  <1>5. CASE BindOwner \/ Sweep \/ Crash \/ Restart
    BY <1>5, QuietActions, CrashKeeps, RestartKeeps, Zenon
  <1>. QED  BY <1>1, <1>2, <1>3, <1>4, <1>5 DEF Next

-------------------------------------------------------------------------------
(***************************************************************************)
(* What the invariant says of the delivery.                                *)
(***************************************************************************)
LEMMA InvGivesClaims == DeliveryInvariant => ClaimsAreSound
  <1>. SUFFICES ASSUME DeliveryInvariant PROVE ClaimsAreSound
    OBVIOUS
  <1>1. ASSUME mode = "up", NEW m \in Messages
        PROVE  /\ Cardinality({e \in Slots : slot[e].m = m}) <= 1
               /\ row[m].status = "sending" <=> \E e \in Slots : slot[e].m = m
    <2>1. row[m].status = "sending" <=> \E e \in Slots : slot[e].m = m
      BY <1>1 DEF DeliveryInvariant, SlotsAreApart
    <2>2. CASE {e \in Slots : slot[e].m = m} = {}
      BY <2>1, <2>2, FS_EmptySet
    <2>3. CASE \E e \in Slots : slot[e].m = m
      <3>1. PICK e \in Slots : slot[e].m = m
        BY <2>3
      <3>2. {f \in Slots : slot[f].m = m} = {e}
        BY <3>1 DEF DeliveryInvariant, SlotsAreApart
      <3>. QED  BY <2>1, <3>2, FS_Singleton
    <2>. QED  BY <2>2, <2>3
  <1>. QED  BY <1>1 DEF ClaimsAreSound, OneExecutor, DeliveryInvariant

\* The fragments of a text are the first bubbles of its one split.
LEMMA TextsAreOneSplit ==
  ASSUME DeliveryInvariant, NEW m \in Messages
  PROVE  \E n \in 0 .. Lines[m] :
           /\ Lines[m] > 0 => n > 0
           /\ \A f \in Texts(m) :
                f[1] = n /\ f[2] \in 1 .. n /\ \A j \in 1 .. f[2] : <<n, j>> \in shown[m]
           /\ Thought \in row[m].done => <<0, 0>> \in shown[m]
           /\ row[m].status = "sent" => \A i \in 1 .. n : <<n, i>> \in shown[m]
  <1>. DEFINE ts == ThoughtSlot(row[m], FALSE)
              n == Split(m, ts)
  <1>1. n \in 0 .. Lines[m] /\ (Lines[m] > 0 => n > 0) /\ Lines[m] \in Nat
    BY ThoughtSlotFacts, SplitFacts, Constants
  <1>2. RowIsTrue(m, row[m], shown[m], used[m])
    BY DEF DeliveryInvariant
  <1>3. /\ shown[m] \subseteq {<<0, 0>>} \cup ({n} \X (1 .. n)) \cup ({0} \X (1 .. Media[m]))
        /\ \A i \in 1 .. n : <<n, i>> \in shown[m] => \A j \in 1 .. i : <<n, j>> \in shown[m]
        /\ Thought \in row[m].done => <<0, 0>> \in shown[m]
        /\ row[m].status = "sent" => \A i \in 1 .. n : <<n, i>> \in shown[m]
    BY <1>2, Zenon DEF RowIsTrue
  <1>. HIDE DEF n
  <1>4. ASSUME NEW f \in Texts(m)
        PROVE  f[1] = n /\ f[2] \in 1 .. n /\ \A j \in 1 .. f[2] : <<n, j>> \in shown[m]
    <2>1. f \in shown[m] /\ f[1] > 0
      BY DEF Texts
    <2>2. f \in {n} \X (1 .. n)
      BY <1>3, <2>1
    <2>3. f = <<n, f[2]>> /\ f[2] \in 1 .. n
      BY <2>2
    <2>. QED  BY <1>3, <2>1, <2>3
  <1>. QED  BY <1>1, <1>3, <1>4

LEMMA InvGivesShown ==
  DeliveryInvariant => PassiveNeverTwice /\ ShownAsWritten /\ WithinPassiveBudget
  <1>. SUFFICES ASSUME DeliveryInvariant
                PROVE  PassiveNeverTwice /\ ShownAsWritten /\ WithinPassiveBudget
    OBVIOUS
  <1>1. PassiveNeverTwice
    BY TextsAreOneSplit, Constants DEF DeliveryInvariant, PassiveNeverTwice
  <1>2. ShownInOrder
    <2>1. ASSUME NEW m \in Messages, NEW f \in Texts(m)
          PROVE  /\ \A i \in 1 .. f[2] - 1 : <<f[1], i>> \in shown[m]
                 /\ Thought \in row[m].done => <<0, 0>> \in shown[m]
      <3>1. PICK n \in 0 .. Lines[m] :
              /\ f[1] = n /\ f[2] \in 1 .. n /\ \A j \in 1 .. f[2] : <<n, j>> \in shown[m]
              /\ Thought \in row[m].done => <<0, 0>> \in shown[m]
        BY TextsAreOneSplit
      <3>2. \A i \in 1 .. f[2] - 1 : i \in 1 .. f[2]
        BY <3>1, Constants
      <3>. QED  BY <3>1, <3>2
    <2>. QED  BY <2>1 DEF ShownInOrder
  <1>3. SentMeansShown
    <2>1. ASSUME NEW m \in Messages, row[m].status = "sent", Lines[m] > 0
          PROVE  \E n \in 1 .. Lines[m] : \A i \in 1 .. n : <<n, i>> \in shown[m]
      <3>1. PICK n \in 0 .. Lines[m] : n > 0 /\ \A i \in 1 .. n : <<n, i>> \in shown[m]
        BY <2>1, TextsAreOneSplit
      <3>2. n \in 1 .. Lines[m]
        BY <3>1, Constants
      <3>. QED  BY <3>1, <3>2
    <2>. QED  BY <2>1 DEF SentMeansShown
  <1>4. WithinPassiveBudget
    <2>1. ASSUME NEW m \in Passive, NEW s \in used[m]
          PROVE  s <= Larger(MaxPassiveSends, LeastSends(m))
      <3>1. RowIsTrue(m, row[m], shown[m], used[m])
        BY Constants DEF DeliveryInvariant
      <3>. QED  BY <3>1, Zenon DEF RowIsTrue
    <2>. QED  BY <2>1 DEF WithinPassiveBudget
  <1>. QED  BY <1>1, <1>2, <1>3, <1>4 DEF ShownAsWritten

-------------------------------------------------------------------------------
\* The inductive invariant of the module holds: through two executors, lost
\* answers, refusals, retries, an admin and deaths of the process.
THEOREM DeliveryInvariantHolds == Spec => []DeliveryInvariant
  BY InitKeeps, NextKeeps, PTL DEF Spec

\* For any number of messages and attempts: a message has one executor, a live
\* process leaves no row claimed, and a row is attempted no more often than
\* MAX_DELIVERY_ATTEMPTS, the manual retries and the deaths allow.
THEOREM OneExecutorHasIt == Spec => []ClaimsAreSound
  BY DeliveryInvariantHolds, InvGivesClaims, PTL

\* However the text is split and whichever answers are lost: no fragment of a
\* passive reply is shown twice, and its text is never split in two ways.
THEOREM NothingIsReadTwice == Spec => []PassiveNeverTwice
  BY DeliveryInvariantHolds, InvGivesShown, PTL

\* What the user sees of a text is a beginning of it, behind its thought, and the
\* whole of it once the row is sent.
THEOREM ReadInOrder == Spec => []ShownAsWritten
  BY DeliveryInvariantHolds, InvGivesShown, PTL

\* For any number of media parts and any MAX_PASSIVE_SENDS: thought, bubbles and
\* media fit the budget, unless the media parts alone exceed it.
THEOREM BudgetIsKept == Spec => []WithinPassiveBudget
  BY DeliveryInvariantHolds, InvGivesShown, PTL
===============================================================================
