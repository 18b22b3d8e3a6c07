---------------------------- MODULE DayTradeProofs ----------------------------
(***************************************************************************)
(* Proofs about DayTrade: that no side outlives its stop, that the result  *)
(* of the backtest is earned, what the replay and the backtest say of the  *)
(* same trade, and that the story of a day is one a trader could have lived*)
(* and only grows, for any range, prices, plans and number of bars.        *)
(***************************************************************************)
EXTENDS DayTrade, FiniteSetTheorems, TLAPS

Kinds == {"trigger", "target_1"} \cup Endings
Events == [type : Kinds, side : Sides, bar : Nat]
States == [active : BOOLEAN, first : BOOLEAN, done : BOOLEAN]
Replays == [side : [Sides -> States], events : Seq(Events), cut : BOOLEAN]
Candles == [low : Int, high : Int, close : Int, open : Int]
LivePlans == [mode : Modes, stop : Int \cup {NoLevel}, second : [Sides -> Int \cup {NoLevel}]]

EventsOf(d) == {d.events[i] : i \in DOMAIN d.events}
Event(type, s, k) == [type |-> type, side |-> s, bar |-> k]
Touches(p, s, bar) == p.stop # NoLevel /\ Seen(s, bar).low <= StopAt(p, s)
Triggers(p, s, bar) == Allowed(s, p.mode) /\ Seen(s, bar).high >= Entry(s)
Live(d, s) == d.side[s].active \/ d.side[s].done

(* What a bar must have done for an event of this kind to be told.         *)
Warranted(p, s, bar, type) ==
    /\ type = "trigger" => Triggers(p, s, bar)
    /\ type = "target_1" => Seen(s, bar).high >= FirstLevel(s) /\ ~Touches(p, s, bar)
    /\ type \in {"stop", "ambiguous"} => Touches(p, s, bar)

Ended(d, s) == \E y \in EventsOf(d) : y.side = s /\ y.type \in Endings \cup {"target_1"}

(* The checks of a bar take the replay from d to e.                        *)
Along(p, d, e, bar, k) ==
    /\ e \in Replays
    /\ EventsOf(d) \subseteq EventsOf(e)
    /\ \A x \in EventsOf(e) \ EventsOf(d) :
          x.bar = k /\ Warranted(p, x.side, bar, x.type) /\ Live(e, x.side)
    /\ \A s \in Sides : Live(d, s) => Live(e, s)
    /\ \A s \in Sides : Live(e, s) => Live(d, s) \/ Event("trigger", s, k) \in EventsOf(e)
    /\ \A s \in Sides : e.side[s].done => d.side[s].done \/ Ended(e, s)
    /\ d.cut => e.cut /\ \A s \in Sides : e.side[s].active => d.side[s].active
    /\ e.cut => \/ d.cut
                \/ \E s \in Sides : ~e.side[s].active /\ Event("ambiguous", s, k) \in EventsOf(e)

(* After the triggers no check makes a side active or looks at the rest of *)
(* the bar again.                                                          *)
Settles(d, e) ==
    /\ \A s \in Sides : e.side[s].active => d.side[s].active
    /\ d.cut => e.cut

-----------------------------------------------------------------------------
LEMMA Telling ==
    ASSUME NEW d \in Replays, NEW type \in Kinds, NEW s \in Sides, NEW k \in Nat
    PROVE  Tells(d, type, s, k) = Append(d.events, Event(type, s, k)) /\ Tells(d, type, s, k) \in Seq(Events)
  <1>1. Event(type, s, k) \in Events
    BY DEF Event, Events
  <1>2. d.events \in Seq(Events)
    BY DEF Replays
  <1>3. Tells(d, type, s, k) = Append(d.events, Event(type, s, k))
    BY DEF Tells, Event
  <1> QED BY <1>1, <1>2, <1>3

LEMMA TellingAdds ==
    ASSUME NEW d \in Replays, NEW type \in Kinds, NEW s \in Sides, NEW k \in Nat, NEW e \in Replays,
           e.events = Tells(d, type, s, k)
    PROVE  EventsOf(e) = EventsOf(d) \cup {Event(type, s, k)}
  <1> DEFINE x == Event(type, s, k)
  <1>1. x \in Events
    BY DEF Event, Events
  <1>2. d.events \in Seq(Events)
    BY DEF Replays
  <1>3. e.events = Append(d.events, x)
    BY Telling
  <1>4. /\ Len(Append(d.events, x)) = Len(d.events) + 1
        /\ Append(d.events, x) \in Seq(Events)
        /\ \A i \in 1 .. Len(d.events) : Append(d.events, x)[i] = d.events[i]
        /\ Append(d.events, x)[Len(d.events) + 1] = x
    BY <1>1, <1>2
  <1>5. /\ DOMAIN d.events = 1 .. Len(d.events)
        /\ DOMAIN e.events = 1 .. Len(d.events) + 1 /\ Len(d.events) \in Nat
        /\ \A i \in 1 .. Len(d.events) : e.events[i] = d.events[i]
        /\ e.events[Len(d.events) + 1] = x
    BY <1>2, <1>3, <1>4
  <1> HIDE DEF x
  <1>6. {e.events[i] : i \in 1 .. Len(d.events) + 1}
           = {d.events[i] : i \in 1 .. Len(d.events)} \cup {x}
    <2>1. \A i \in 1 .. Len(d.events) + 1 : i \in 1 .. Len(d.events) \/ i = Len(d.events) + 1
      BY <1>5
    <2> QED BY <1>5, <2>1
  <1> QED BY <1>5, <1>6 DEF EventsOf, x

LEMMA Standing ==
    ASSUME NEW p, NEW d \in Replays, NEW bar, NEW k
    PROVE  Along(p, d, d, bar, k) /\ Settles(d, d)
  BY DEF Along, Live, Settles

(* A side that is under way ends, and the bar warrants it.                 *)
LEMMA EndingMoves ==
    ASSUME NEW p, NEW d \in Replays, NEW type \in Endings \cup {"target_1"}, NEW s \in Sides,
           NEW bar, NEW k \in Nat, NEW e \in Replays,
           e.events = Tells(d, type, s, k), \A r \in Sides \ {s} : e.side[r] = d.side[r],
           Warranted(p, s, bar, type), d.side[s].active, e.side[s].active \/ e.side[s].done,
           d.cut => e.cut, e.cut => d.cut \/ (type = "ambiguous" /\ ~e.side[s].active)
    PROVE  Along(p, d, e, bar, k) /\ Settles(d, e)
  <1> DEFINE x == Event(type, s, k)
  <1>1. type \in Kinds
    BY DEF Kinds
  <1>3. EventsOf(e) = EventsOf(d) \cup {x}
    BY <1>1, TellingAdds
  <1>4. x.side = s /\ x.bar = k /\ x.type = type
    BY DEF Event
  <1>5. e.cut => d.cut \/ (x = Event("ambiguous", s, k) /\ ~e.side[s].active)
    OBVIOUS
  <1> HIDE DEF x
  <1>6. Ended(e, s)
    BY <1>3, <1>4 DEF Ended
  <1>7. Settles(d, e)
    BY <1>3 DEF Settles
  <1>8. \A r \in Sides : Live(d, r) <=> Live(e, r)
    BY <1>3 DEF Live
  <1>9. /\ \A y \in EventsOf(e) \ EventsOf(d) :
              y.bar = k /\ Warranted(p, y.side, bar, y.type) /\ Live(e, y.side)
        /\ \A r \in Sides : e.side[r].done => d.side[r].done \/ Ended(e, r)
    BY <1>3, <1>4, <1>6, <1>8 DEF Live
  <1>10. e.cut => \/ d.cut
                  \/ \E r \in Sides : ~e.side[r].active /\ Event("ambiguous", r, k) \in EventsOf(e)
    BY <1>3, <1>5
  <1> QED BY <1>3, <1>7, <1>8, <1>9, <1>10 DEF Along, Settles

(* What two checks do one after the other they do together.                *)
LEMMA Chain ==
    ASSUME NEW p, NEW bar, NEW k, NEW d, NEW e, NEW f,
           Along(p, d, e, bar, k), Along(p, e, f, bar, k)
    PROVE  /\ Along(p, d, f, bar, k)
           /\ Settles(d, e) /\ Settles(e, f) => Settles(d, f)
  <1>1. \A s \in Sides : Ended(e, s) => Ended(f, s)
    BY DEF Along, Ended
  <1>2. \A x \in EventsOf(f) \ EventsOf(d) :
           x.bar = k /\ Warranted(p, x.side, bar, x.type) /\ Live(f, x.side)
    <2> TAKE x \in EventsOf(f) \ EventsOf(d)
    <2>1. CASE x \in EventsOf(e)
      <3>1. x.bar = k /\ Warranted(p, x.side, bar, x.type) /\ Live(e, x.side)
        BY <2>1 DEF Along
      <3>2. x.side \in Sides
        <4>1. e \in Replays
          BY DEF Along
        <4>2. EventsOf(e) \subseteq Events
          BY <4>1 DEF Replays, EventsOf
        <4> QED BY <2>1, <4>2 DEF Events
      <3> QED BY <3>1, <3>2 DEF Along
    <2>2. CASE x \notin EventsOf(e)
      BY <2>2 DEF Along
    <2> QED BY <2>1, <2>2
  <1>3. f.cut => \/ d.cut
                 \/ \E s \in Sides : ~f.side[s].active /\ Event("ambiguous", s, k) \in EventsOf(f)
    BY DEF Along
  <1>4. Along(p, d, f, bar, k)
    BY <1>1, <1>2, <1>3 DEF Along
  <1> QED BY <1>4 DEF Settles

-----------------------------------------------------------------------------
LEMMA TriggerMoves ==
    ASSUME NEW p, NEW d \in Replays, NEW s \in Sides, NEW bar, NEW k \in Nat, ~d.cut
    PROVE  /\ Along(p, d, Trigger(p, d, s, bar, k), bar, k)
           /\ ~Trigger(p, d, s, bar, k).cut
           /\ Triggers(p, s, bar) => Live(Trigger(p, d, s, bar, k), s)
  <1>1. CASE ~Allowed(s, p.mode) \/ d.side[s].done \/ d.side[s].active \/ ~(Seen(s, bar).high >= Entry(s))
    <2>1. Trigger(p, d, s, bar, k) = d
      BY <1>1 DEF Trigger
    <2>2. Triggers(p, s, bar) => Live(d, s)
      BY <1>1 DEF Triggers, Live
    <2> QED BY <2>1, <2>2, Standing
  <1>2. CASE Allowed(s, p.mode) /\ ~d.side[s].done /\ ~d.side[s].active /\ Seen(s, bar).high >= Entry(s)
    <2> DEFINE e == Trigger(p, d, s, bar, k)
               x == Event("trigger", s, k)
    <2>1. "trigger" \in Kinds
      BY DEF Kinds
    <2>2. Tells(d, "trigger", s, k) \in Seq(Events)
      BY <2>1, Telling
    <2>3. e = [d EXCEPT !.side[s].active = TRUE, !.events = Tells(d, "trigger", s, k)]
      BY <1>2 DEF Trigger
    <2> HIDE DEF e
    <2>4. e \in Replays /\ e.events = Tells(d, "trigger", s, k) /\ e.cut = d.cut
      BY <2>2, <2>3 DEF Replays, States
    <2>5. /\ e.side[s].active /\ e.side[s].done = d.side[s].done
          /\ \A r \in Sides \ {s} : e.side[r] = d.side[r]
      BY <2>3 DEF Replays, States
    <2>7. EventsOf(e) = EventsOf(d) \cup {x}
      BY <2>1, <2>4, TellingAdds
    <2>8. x.side = s /\ x.bar = k /\ Warranted(p, s, bar, x.type)
      BY <1>2 DEF Event, Warranted, Triggers
    <2>9. /\ Live(e, s) /\ e.side[s].done = d.side[s].done
          /\ \A r \in Sides \ {s} : e.side[r] = d.side[r]
      BY <2>5 DEF Live
    <2>10. \A r \in Sides : /\ Live(d, r) => Live(e, r)
                            /\ Live(e, r) => Live(d, r) \/ Event("trigger", r, k) \in EventsOf(e)
      BY <2>7, <2>9 DEF Live
    <2> HIDE DEF x
    <2>11. Along(p, d, e, bar, k)
      <3>1. \A r \in Sides : e.side[r].done => d.side[r].done \/ Ended(e, r)
        BY <2>9
      <3>2. \A y \in EventsOf(e) \ EventsOf(d) :
               y.bar = k /\ Warranted(p, y.side, bar, y.type) /\ Live(e, y.side)
        BY <2>7, <2>8, <2>9
      <3> QED BY <2>4, <2>7, <2>10, <3>1, <3>2 DEF Along
    <2> QED BY <2>4, <2>9, <2>11 DEF e
  <1> QED BY <1>1, <1>2

LEMMA EndsMoves ==
    ASSUME NEW p, NEW d \in Replays, NEW type \in Endings, NEW s \in Sides, NEW bar, NEW k \in Nat,
           d.side[s].active, Warranted(p, s, bar, type)
    PROVE  /\ Along(p, d, Ends(d, type, s, k), bar, k) /\ Settles(d, Ends(d, type, s, k))
           /\ ~Ends(d, type, s, k).side[s].active
  <1> DEFINE e == Ends(d, type, s, k)
  <1>1. Tells(d, type, s, k) \in Seq(Events)
    BY Telling DEF Kinds
  <1>2. e = [d EXCEPT !.side[s].active = FALSE, !.side[s].done = TRUE, !.events = Tells(d, type, s, k)]
    BY DEF Ends
  <1> HIDE DEF e
  <1>3. /\ e \in Replays /\ e.events = Tells(d, type, s, k) /\ e.cut = d.cut
        /\ ~e.side[s].active /\ e.side[s].done
        /\ \A r \in Sides \ {s} : e.side[r] = d.side[r]
    BY <1>1, <1>2 DEF Replays, States
  <1>4. Along(p, d, e, bar, k) /\ Settles(d, e)
    BY <1>3, EndingMoves
  <1> QED BY <1>3, <1>4 DEF e

LEMMA FirstTargetMoves ==
    ASSUME NEW p \in LivePlans, NEW d \in Replays, NEW s \in Sides, NEW bar \in Candles, NEW k \in Nat
    PROVE  LET e == FirstTarget(p, d, s, bar, k)
           IN  Along(p, d, e, bar, k) /\ Settles(d, e)
  <1> DEFINE e == FirstTarget(p, d, s, bar, k)
             reached == [d EXCEPT !.side[s].first = TRUE, !.events = Tells(d, "target_1", s, k)]
             over == [reached EXCEPT !.side[s].active = FALSE, !.side[s].done = TRUE]
             halted == Ends(d, "ambiguous", s, k)
             cut == [halted EXCEPT !.cut = TRUE]
             idle == d.cut \/ ~d.side[s].active \/ d.side[s].first \/ Seen(s, bar).high < FirstLevel(s)
  <1> SUFFICES Along(p, d, e, bar, k) /\ Settles(d, e)
    OBVIOUS
  <1>0. /\ idle => e = d
        /\ ~idle /\ Touches(p, s, bar) => e = cut
        /\ ~idle /\ ~Touches(p, s, bar) /\ p.second[s] # NoLevel => e = reached
        /\ ~idle /\ ~Touches(p, s, bar) /\ p.second[s] = NoLevel => e = over
    BY DEF FirstTarget, Touches
  <1> HIDE DEF e
  <1>1. CASE idle
    BY <1>0, <1>1, Standing
  <1>2. CASE ~idle /\ Touches(p, s, bar)
    <2>1. Tells(d, "ambiguous", s, k) \in Seq(Events)
      BY Telling DEF Kinds, Endings
    <2>2. halted = [d EXCEPT !.side[s].active = FALSE, !.side[s].done = TRUE, !.events = Tells(d, "ambiguous", s, k)]
      BY DEF Ends
    <2> HIDE DEF halted
    <2>3. /\ halted \in Replays /\ halted.events = Tells(d, "ambiguous", s, k)
          /\ ~halted.side[s].active /\ halted.side[s].done
          /\ \A r \in Sides \ {s} : halted.side[r] = d.side[r]
      BY <2>1, <2>2 DEF Replays, States
    <2>4. /\ e \in Replays /\ e.events = halted.events /\ e.side = halted.side /\ e.cut
      BY <1>0, <1>2, <2>3 DEF Replays
    <2>5. Warranted(p, s, bar, "ambiguous") /\ "ambiguous" \in Endings
      BY <1>2 DEF Warranted, Endings
    <2>6. d.side[s].active /\ d.cut \in BOOLEAN
      BY <1>2 DEF Replays
    <2> QED BY <2>3, <2>4, <2>5, <2>6, EndingMoves
  <1>3. CASE ~idle /\ ~Touches(p, s, bar)
    <2>1. Tells(d, "target_1", s, k) \in Seq(Events)
      BY Telling DEF Kinds
    <2> HIDE DEF reached
    <2>2. /\ reached \in Replays /\ reached.events = Tells(d, "target_1", s, k) /\ reached.cut = d.cut
          /\ reached.side[s].active = d.side[s].active
          /\ \A r \in Sides \ {s} : reached.side[r] = d.side[r]
      BY <2>1 DEF Replays, States, reached
    <2> HIDE DEF over
    <2>3. /\ over \in Replays /\ over.events = reached.events /\ over.cut = reached.cut
          /\ ~over.side[s].active /\ over.side[s].done
          /\ \A r \in Sides \ {s} : over.side[r] = reached.side[r]
      <3>1. over = [reached EXCEPT !.side[s].active = FALSE, !.side[s].done = TRUE]
        BY DEF over
      <3>2. over.events = reached.events /\ over.cut = reached.cut
        BY <2>2, <3>1 DEF Replays
      <3>3. ~over.side[s].active /\ over.side[s].done
        BY <2>2, <3>1 DEF Replays, States
      <3>4. \A r \in Sides \ {s} : over.side[r] = reached.side[r]
        BY <2>2, <3>1 DEF Replays, States
      <3>5. over \in Replays
        <4>1. reached \in Replays
          BY <2>2
        <4>2. over.side \in [Sides -> States]
          <5>1. over.side = [reached.side EXCEPT ![s].active = FALSE, ![s].done = TRUE]
            BY <3>1, <4>1 DEF Replays
          <5>2. reached.side \in [Sides -> States]
            BY <4>1 DEF Replays
          <5>3. \A f \in [Sides -> States] : [f EXCEPT ![s].active = FALSE, ![s].done = TRUE] \in [Sides -> States]
            BY ONLY s \in Sides DEF States
          <5> QED BY ONLY <5>1, <5>2, <5>3
        <4>3. over.events \in Seq(Events) /\ over.cut \in BOOLEAN
          BY <3>2, <4>1 DEF Replays
        <4>4. over = [side |-> over.side, events |-> over.events, cut |-> over.cut]
          BY <3>1, <4>1 DEF Replays
        <4> QED BY <4>2, <4>3, <4>4 DEF Replays
      <3> QED BY <3>2, <3>3, <3>4, <3>5
    <2>4. e = reached \/ e = over
      BY <1>0, <1>3
    <2>5. /\ e \in Replays /\ e.events = Tells(d, "target_1", s, k) /\ e.cut = d.cut
          /\ e.side[s].active \/ e.side[s].done
          /\ \A r \in Sides \ {s} : e.side[r] = d.side[r]
      BY <1>3, <2>2, <2>3, <2>4
    <2>6. Warranted(p, s, bar, "target_1")
      <3>1. Seen(s, bar).high \in Int /\ FirstLevel(s) \in Int
        BY DayBounds DEF Candles, Seen, FirstLevel, Entry, Edge, Buffer, Width, Sides
      <3> QED BY <1>3, <3>1 DEF Warranted
    <2>7. d.side[s].active
      BY <1>3
    <2> QED BY <2>5, <2>6, <2>7, EndingMoves
  <1> QED BY <1>1, <1>2, <1>3

LEMMA SecondTargetMoves ==
    ASSUME NEW p, NEW d \in Replays, NEW s \in Sides, NEW bar, NEW k \in Nat
    PROVE  LET e == SecondTarget(p, d, s, bar, k)
           IN  Along(p, d, e, bar, k) /\ Settles(d, e)
  <1>1. Warranted(p, s, bar, "target_2") /\ "target_2" \in Endings
    BY DEF Warranted, Endings
  <1> QED BY <1>1, EndsMoves, Standing DEF SecondTarget

LEMMA StopHitMoves ==
    ASSUME NEW p, NEW d \in Replays, NEW s \in Sides, NEW bar, NEW k \in Nat
    PROVE  LET e == StopHit(p, d, s, bar, k)
           IN  /\ Along(p, d, e, bar, k) /\ Settles(d, e)
               /\ e.side[s].active /\ Touches(p, s, bar) => e.cut
  <1>1. Touches(p, s, bar) => Warranted(p, s, bar, "stop")
    BY DEF Warranted
  <1>2. "stop" \in Endings
    BY DEF Endings
  <1>3. CASE ~d.cut /\ d.side[s].active /\ Touches(p, s, bar)
    <2>1. StopHit(p, d, s, bar, k) = Ends(d, "stop", s, k)
      BY <1>3 DEF StopHit, Touches
    <2> QED BY <1>1, <1>2, <1>3, <2>1, EndsMoves
  <1>4. CASE ~(~d.cut /\ d.side[s].active /\ Touches(p, s, bar))
    <2>1. StopHit(p, d, s, bar, k) = d
      BY <1>4 DEF StopHit, Touches
    <2> QED BY <1>4, <2>1, Standing
  <1> QED BY <1>3, <1>4

LEMMA ExtendedMoves ==
    ASSUME NEW p, NEW d \in Replays, NEW s \in Sides, NEW bar, NEW k \in Nat
    PROVE  LET e == Extended(p, d, s, bar, k)
           IN  Along(p, d, e, bar, k) /\ Settles(d, e)
  <1>1. Warranted(p, s, bar, "extended") /\ "extended" \in Endings
    BY DEF Warranted, Endings
  <1> QED BY <1>1, EndsMoves, Standing DEF Extended

LEMMA InvalidatedMoves ==
    ASSUME NEW p, NEW d \in Replays, NEW s \in Sides, NEW bar, NEW k \in Nat
    PROVE  LET e == Invalidated(d, s, bar, k)
           IN  Along(p, d, e, bar, k) /\ Settles(d, e)
  <1>1. Warranted(p, s, bar, "invalidated") /\ "invalidated" \in Endings
    BY DEF Warranted, Endings
  <1> QED BY <1>1, EndsMoves, Standing DEF Invalidated

-----------------------------------------------------------------------------
(* A pair of checks, the long side first.                                  *)
LEMMA Both ==
    ASSUME NEW p, NEW bar, NEW k, NEW d, NEW e, NEW f, NEW g,
           Along(p, d, e, bar, k), Settles(d, e),
           Along(p, e, f, bar, k), Settles(e, f),
           Along(p, f, g, bar, k), Settles(f, g)
    PROVE  Along(p, d, g, bar, k) /\ Settles(d, g)
  <1>1. Along(p, d, f, bar, k) /\ Settles(d, f)
    BY Chain
  <1> QED BY <1>1, Chain

(* What one bar does to the story: every check of it, for both sides.      *)
LEMMA BarMoves ==
    ASSUME NEW p \in LivePlans, NEW d \in Replays, NEW bar \in Candles, NEW k \in Nat, ~d.cut
    PROVE  LET e == AfterBar(p, d, bar, k)
           IN  /\ Along(p, d, e, bar, k) /\ ~e.cut
               /\ \A s \in Sides : Triggers(p, s, bar) => Live(e, s)
               /\ \A s \in Sides : e.side[s].active /\ Touches(p, s, bar) =>
                                  Event("ambiguous", Other(s), k) \in EventsOf(e)
  <1> DEFINE t1 == Trigger(p, d, "long", bar, k)
             t2 == Trigger(p, t1, "short", bar, k)
             f1 == FirstTarget(p, t2, "long", bar, k)
             f2 == FirstTarget(p, f1, "short", bar, k)
             g1 == SecondTarget(p, f2, "long", bar, k)
             g2 == SecondTarget(p, g1, "short", bar, k)
             h1 == StopHit(p, g2, "long", bar, k)
             h2 == StopHit(p, h1, "short", bar, k)
             x1 == Extended(p, h2, "long", bar, k)
             x2 == Extended(p, x1, "short", bar, k)
             c1 == Invalidated(x2, "long", bar, k)
             c2 == Invalidated(c1, "short", bar, k)
             e == [c2 EXCEPT !.cut = FALSE]
  <1>0. AfterBar(p, d, bar, k) = e
    BY DEF AfterBar
  <1>1. "long" \in Sides /\ "short" \in Sides
    BY DEF Sides
  <1>2. /\ Along(p, d, t1, bar, k) /\ ~t1.cut /\ t1 \in Replays
        /\ Triggers(p, "long", bar) => Live(t1, "long")
    <2>1. Along(p, d, t1, bar, k) /\ ~t1.cut /\ (Triggers(p, "long", bar) => Live(t1, "long"))
      BY <1>1, TriggerMoves
    <2> QED BY <2>1 DEF Along
  <1> HIDE DEF t1
  <1>3. /\ Along(p, t1, t2, bar, k) /\ ~t2.cut /\ t2 \in Replays
        /\ Triggers(p, "short", bar) => Live(t2, "short")
    <2>1. Along(p, t1, t2, bar, k) /\ ~t2.cut /\ (Triggers(p, "short", bar) => Live(t2, "short"))
      BY <1>1, <1>2, TriggerMoves
    <2> QED BY <2>1 DEF Along
  <1> HIDE DEF t2
  <1>4. Along(p, t2, f1, bar, k) /\ Settles(t2, f1) /\ f1 \in Replays
    <2>1. Along(p, t2, f1, bar, k) /\ Settles(t2, f1)
      BY <1>1, <1>3, FirstTargetMoves
    <2> QED BY <2>1 DEF Along
  <1> HIDE DEF f1
  <1>5. Along(p, f1, f2, bar, k) /\ Settles(f1, f2) /\ f2 \in Replays
    <2>1. Along(p, f1, f2, bar, k) /\ Settles(f1, f2)
      BY <1>1, <1>4, FirstTargetMoves
    <2> QED BY <2>1 DEF Along
  <1> HIDE DEF f2
  <1>6. Along(p, f2, g1, bar, k) /\ Settles(f2, g1) /\ g1 \in Replays
    <2>1. Along(p, f2, g1, bar, k) /\ Settles(f2, g1)
      BY <1>1, <1>5, SecondTargetMoves
    <2> QED BY <2>1 DEF Along
  <1> HIDE DEF g1
  <1>7. Along(p, g1, g2, bar, k) /\ Settles(g1, g2) /\ g2 \in Replays
    <2>1. Along(p, g1, g2, bar, k) /\ Settles(g1, g2)
      BY <1>1, <1>6, SecondTargetMoves
    <2> QED BY <2>1 DEF Along
  <1> HIDE DEF g2
  <1>8. /\ Along(p, g2, h1, bar, k) /\ Settles(g2, h1) /\ h1 \in Replays
        /\ h1.side["long"].active /\ Touches(p, "long", bar) => h1.cut
    <2>1. /\ Along(p, g2, h1, bar, k) /\ Settles(g2, h1)
          /\ h1.side["long"].active /\ Touches(p, "long", bar) => h1.cut
      BY <1>1, <1>7, StopHitMoves
    <2> QED BY <2>1 DEF Along
  <1> HIDE DEF h1
  <1>9. /\ Along(p, h1, h2, bar, k) /\ Settles(h1, h2) /\ h2 \in Replays
        /\ h2.side["short"].active /\ Touches(p, "short", bar) => h2.cut
    <2>1. /\ Along(p, h1, h2, bar, k) /\ Settles(h1, h2)
          /\ h2.side["short"].active /\ Touches(p, "short", bar) => h2.cut
      BY <1>1, <1>8, StopHitMoves
    <2> QED BY <2>1 DEF Along
  <1> HIDE DEF h2
  <1>10. Along(p, h2, x1, bar, k) /\ Settles(h2, x1) /\ x1 \in Replays
    <2>1. Along(p, h2, x1, bar, k) /\ Settles(h2, x1)
      BY <1>1, <1>9, ExtendedMoves
    <2> QED BY <2>1 DEF Along
  <1> HIDE DEF x1
  <1>11. Along(p, x1, x2, bar, k) /\ Settles(x1, x2) /\ x2 \in Replays
    <2>1. Along(p, x1, x2, bar, k) /\ Settles(x1, x2)
      BY <1>1, <1>10, ExtendedMoves
    <2> QED BY <2>1 DEF Along
  <1> HIDE DEF x2
  <1>12. Along(p, x2, c1, bar, k) /\ Settles(x2, c1) /\ c1 \in Replays
    <2>1. Along(p, x2, c1, bar, k) /\ Settles(x2, c1)
      BY <1>1, <1>11, InvalidatedMoves
    <2> QED BY <2>1 DEF Along
  <1> HIDE DEF c1
  <1>13. Along(p, c1, c2, bar, k) /\ Settles(c1, c2) /\ c2 \in Replays
    <2>1. Along(p, c1, c2, bar, k) /\ Settles(c1, c2)
      BY <1>1, <1>12, InvalidatedMoves
    <2> QED BY <2>1 DEF Along
  <1> HIDE DEF c2
  <1>14. Along(p, d, t2, bar, k)
    BY <1>2, <1>3, Chain
  <1>15. Along(p, t2, g1, bar, k) /\ Settles(t2, g1)
    BY <1>4, <1>5, <1>6, Both
  <1>16. Along(p, g1, h1, bar, k) /\ Settles(g1, h1)
    BY <1>7, <1>8, Chain
  <1>17. Along(p, h2, c2, bar, k) /\ Settles(h2, c2)
    <2>1. Along(p, h2, c1, bar, k) /\ Settles(h2, c1)
      BY <1>10, <1>11, <1>12, Both
    <2> QED BY <2>1, <1>13, Chain
  <1>18. Along(p, t2, c2, bar, k) /\ Settles(h1, c2)
    <2>1. Along(p, t2, h1, bar, k)
      BY <1>15, <1>16, Chain
    <2>2. Along(p, h1, c2, bar, k) /\ Settles(h1, c2)
      BY <1>9, <1>17, Chain
    <2> QED BY <2>1, <2>2, Chain
  <1>19. Along(p, d, c2, bar, k)
    BY <1>14, <1>18, Chain
  <1>20. \A s \in Sides : Triggers(p, s, bar) => Live(c2, s)
    <2>1. /\ Triggers(p, "long", bar) => Live(t2, "long")
          /\ Triggers(p, "short", bar) => Live(t2, "short")
      BY <1>1, <1>2, <1>3 DEF Along
    <2>2. \A s \in Sides : Live(t2, s) => Live(c2, s)
      BY <1>18 DEF Along
    <2> QED BY <2>1, <2>2 DEF Sides
  <1>21. \A s \in Sides : c2.side[s].active /\ Touches(p, s, bar) => c2.cut
    <2>1. \A s \in Sides : /\ c2.side[s].active => h1.side[s].active
                           /\ c2.side[s].active => h2.side[s].active
      BY <1>17, <1>18 DEF Settles
    <2>2. (h1.cut => c2.cut) /\ (h2.cut => c2.cut)
      BY <1>17, <1>18 DEF Settles
    <2>3. /\ c2.side["long"].active /\ Touches(p, "long", bar) => c2.cut
          /\ c2.side["short"].active /\ Touches(p, "short", bar) => c2.cut
      BY <1>1, <1>8, <1>9, <2>1, <2>2
    <2> QED BY <2>3 DEF Sides
  <1>22. c2.cut => \E r \in Sides : ~c2.side[r].active /\ Event("ambiguous", r, k) \in EventsOf(c2)
    BY <1>19 DEF Along
  <1>23. \A s \in Sides : \A r \in Sides : c2.side[s].active /\ ~c2.side[r].active => r = Other(s)
    BY DEF Sides, Other
  <1>24. \A s \in Sides : c2.side[s].active /\ Touches(p, s, bar) =>
                          Event("ambiguous", Other(s), k) \in EventsOf(c2)
    BY <1>21, <1>22, <1>23
  <1>25. e \in Replays /\ e.side = c2.side /\ e.events = c2.events /\ ~e.cut
    BY <1>13 DEF Replays
  <1> HIDE DEF e
  <1>26. EventsOf(e) = EventsOf(c2)
    BY <1>25 DEF EventsOf
  <1>27. \A s \in Sides : (Live(e, s) <=> Live(c2, s)) /\ (Ended(c2, s) <=> Ended(e, s))
    BY <1>25, <1>26 DEF Live, Ended
  <1>28. Along(p, d, e, bar, k)
    <2>1. \A x \in EventsOf(e) \ EventsOf(d) : x.side \in Sides
      <3>1. EventsOf(e) \subseteq Events
        BY <1>25 DEF Replays, EventsOf
      <3> QED BY <3>1 DEF Events
    <2> QED BY <1>19, <1>25, <1>26, <1>27, <2>1 DEF Along
  <1> QED BY <1>0, <1>20, <1>24, <1>25, <1>26, <1>27, <1>28

-----------------------------------------------------------------------------
Rows == [at : {"waiting", "open", "over"}, side : Sides \cup {"none"}, entered : Nat, inside : Nat,
         exit : {"none", "stop", "target_1", "target_2", "invalidated", "close"},
         exited : Nat, result : Int, best : Int, worst : Int, last : Int]

(* An open trade touched neither its stop nor its first target so far.     *)
Open(r) ==
    /\ r.side \in Sides /\ r.exit = "none"
    /\ 0 <= r.worst /\ r.worst < Risk(r.side)
    /\ 0 <= r.best /\ r.best < Width
    /\ -r.worst <= r.last /\ r.last <= r.best

Earned(r) ==
    /\ -r.worst <= r.result /\ r.result <= r.best
    /\ r.exit = "stop" <=> r.worst >= Risk(r.side)
    /\ r.exit \in {"invalidated", "close"} => r.best < Width

Shaped(c) == c.low <= c.close /\ c.close <= c.high

LEMMA Levels ==
    ASSUME NEW s \in Sides
    PROVE  /\ Entry(s) \in Int /\ Edge(s) \in Int /\ Mirrored(s, Vwap) \in Int /\ Width \in Int
           /\ FirstLevel(s) = Entry(s) + Width
           /\ Risk(s) = Entry(s) - Mirrored(s, Vwap) /\ 0 < Risk(s) /\ Risk(s) <= Width
  BY DayBounds DEF Entry, Edge, Mirrored, Width, FirstLevel, Risk, Buffer, Sides

LEMMA SeenCandle ==
    ASSUME NEW s \in Sides, NEW c \in Candles, Shaped(c)
    PROVE  /\ Seen(s, c).low \in Int /\ Seen(s, c).high \in Int /\ Seen(s, c).close \in Int
           /\ Seen(s, c).low <= Seen(s, c).close /\ Seen(s, c).close <= Seen(s, c).high
  BY DEF Seen, Candles, Shaped, Sides

(* What a candle does to an open trade.                                    *)
LEMMA OpenTrade ==
    ASSUME NEW r \in Rows, NEW c \in Candles, NEW k \in Nat, r.at = "open", Open(r), Shaped(c)
    PROVE  LET x == Exited(r, c, k)
               stopped == Seen(r.side, c).low <= Mirrored(r.side, Vwap)
           IN  /\ x \in Rows /\ x.side = r.side /\ x.entered = r.entered
               /\ \/ /\ x.at = "open" /\ Open(x) /\ ~stopped
                     /\ ~(Seen(r.side, c).high >= FirstLevel(r.side))
                  \/ /\ x.at = "over" /\ x.exit # "none" /\ x.exited = k /\ Earned(x)
                     /\ x.exit = "stop" => stopped
                     /\ x.exit \in {"target_1", "target_2"} => ~stopped
  <1> DEFINE s == r.side
             seen == Seen(s, c)
             v == Mirrored(s, Vwap)
             best == IF seen.high - Entry(s) > r.best THEN seen.high - Entry(s) ELSE r.best
             worst == IF Entry(s) - seen.low > r.worst THEN Entry(s) - seen.low ELSE r.worst
             last == seen.close - Entry(s)
             held == [r EXCEPT !.best = best, !.worst = worst, !.last = last]
             inside == IF k = r.entered THEN 0 ELSE IF seen.close < Edge(s) THEN r.inside + 1 ELSE 0
             x == Exited(r, c, k)
  <1>1. s \in Sides
    BY DEF Open
  <1>2. /\ Entry(s) \in Int /\ Edge(s) \in Int /\ v \in Int /\ Width \in Int
        /\ FirstLevel(s) = Entry(s) + Width
        /\ Risk(s) = Entry(s) - v /\ 0 < Risk(s) /\ Risk(s) <= Width
    BY <1>1, Levels
  <1>3. /\ seen.low \in Int /\ seen.high \in Int /\ seen.close \in Int
        /\ seen.low <= seen.close /\ seen.close <= seen.high
    BY <1>1, SeenCandle
  <1>4. /\ r.best \in Int /\ r.worst \in Int /\ r.inside \in Nat /\ r.last \in Int
        /\ 0 <= r.worst /\ r.worst < Risk(s) /\ 0 <= r.best /\ r.best < Width
    BY DEF Rows, Open
  <1> HIDE DEF s
  <1> HIDE DEF seen, v
  <1>5. /\ best \in Int /\ worst \in Int /\ last \in Int /\ inside \in Nat
        /\ 0 <= worst /\ 0 <= best /\ -worst <= last /\ last <= best
        /\ worst >= Risk(s) <=> seen.low <= v
        /\ best >= Width <=> seen.high >= FirstLevel(s)
        /\ seen.high >= Entry(s) + 2 * Width => 2 * Risk(s) <= best
        /\ seen.high >= FirstLevel(s) => Risk(s) <= best
    BY <1>2, <1>3, <1>4
  <1>6. /\ seen.low <= v => x = Exits(held, "stop", k, -Risk(s))
        /\ ~(seen.low <= v) /\ seen.high >= Entry(s) + 2 * Width => x = Exits(held, "target_2", k, 2 * Risk(s))
        /\ ~(seen.low <= v) /\ ~(seen.high >= Entry(s) + 2 * Width) /\ seen.high >= FirstLevel(s)
              => x = Exits(held, "target_1", k, Risk(s))
        /\ ~(seen.low <= v) /\ ~(seen.high >= Entry(s) + 2 * Width) /\ ~(seen.high >= FirstLevel(s))
              => \/ x = Exits(held, "invalidated", k, last)
                 \/ x = [held EXCEPT !.inside = inside]
    BY DEF Exited, s, seen, v, Rows
  <1> HIDE DEF best, worst, last, inside, x
  <1>7. /\ held \in Rows /\ held.best = best /\ held.worst = worst /\ held.last = last
        /\ held.side = s /\ held.entered = r.entered /\ held.at = "open" /\ held.exit = "none"
    BY <1>1, <1>5 DEF Rows, s, Open
  <1> HIDE DEF held
  <1>8. ASSUME NEW why \in {"stop", "target_1", "target_2", "invalidated"}, NEW result \in Int,
               x = Exits(held, why, k, result)
        PROVE  /\ x \in Rows /\ x.at = "over" /\ x.exit = why /\ x.exited = k /\ x.result = result
               /\ x.best = best /\ x.worst = worst /\ x.side = s /\ x.entered = r.entered
    BY <1>7, <1>8 DEF Exits, Rows
  <1>9. CASE seen.low <= v
    <2>1. x = Exits(held, "stop", k, -Risk(s)) /\ -Risk(s) \in Int
      BY <1>2, <1>6, <1>9
    <2>2. /\ x \in Rows /\ x.at = "over" /\ x.exit = "stop" /\ x.exited = k /\ x.result = -Risk(s)
          /\ x.best = best /\ x.worst = worst /\ x.side = s /\ x.entered = r.entered
      BY <1>8, <2>1
    <2>3. Earned(x)
      BY <1>2, <1>5, <1>9, <2>2 DEF Earned
    <2> QED BY <1>9, <2>2, <2>3 DEF x, seen, v, s
  <1>10. CASE ~(seen.low <= v) /\ seen.high >= Entry(s) + 2 * Width
    <2>1. x = Exits(held, "target_2", k, 2 * Risk(s)) /\ 2 * Risk(s) \in Int
      BY <1>2, <1>6, <1>10
    <2>2. /\ x \in Rows /\ x.at = "over" /\ x.exit = "target_2" /\ x.exited = k /\ x.result = 2 * Risk(s)
          /\ x.best = best /\ x.worst = worst /\ x.side = s /\ x.entered = r.entered
      BY <1>8, <2>1
    <2>3. Earned(x)
      BY <1>2, <1>5, <1>10, <2>2 DEF Earned
    <2> QED BY <1>10, <2>2, <2>3 DEF x, seen, v, s
  <1>11. CASE ~(seen.low <= v) /\ ~(seen.high >= Entry(s) + 2 * Width) /\ seen.high >= FirstLevel(s)
    <2>1. x = Exits(held, "target_1", k, Risk(s)) /\ Risk(s) \in Int
      BY <1>2, <1>6, <1>11
    <2>2. /\ x \in Rows /\ x.at = "over" /\ x.exit = "target_1" /\ x.exited = k /\ x.result = Risk(s)
          /\ x.best = best /\ x.worst = worst /\ x.side = s /\ x.entered = r.entered
      BY <1>8, <2>1
    <2>3. Earned(x)
      BY <1>2, <1>5, <1>11, <2>2 DEF Earned
    <2> QED BY <1>11, <2>2, <2>3 DEF x, seen, v, s
  <1>12. CASE ~(seen.low <= v) /\ ~(seen.high >= Entry(s) + 2 * Width) /\ ~(seen.high >= FirstLevel(s))
    <2>1. CASE x = Exits(held, "invalidated", k, last)
      <3>1. /\ x \in Rows /\ x.at = "over" /\ x.exit = "invalidated" /\ x.exited = k /\ x.result = last
            /\ x.best = best /\ x.worst = worst /\ x.side = s /\ x.entered = r.entered
        BY <1>5, <1>8, <2>1
      <3>2. Earned(x)
        BY <1>2, <1>5, <1>12, <3>1 DEF Earned
      <3> QED BY <1>12, <3>1, <3>2 DEF x, seen, v, s
    <2>2. CASE x = [held EXCEPT !.inside = inside]
      <3>1. /\ x \in Rows /\ x.at = "open" /\ x.exit = "none" /\ x.last = last
            /\ x.best = best /\ x.worst = worst /\ x.side = s /\ x.entered = r.entered
        BY <1>5, <1>7, <2>2 DEF Rows
      <3>2. Open(x)
        BY <1>1, <1>2, <1>3, <1>5, <1>12, <3>1 DEF Open
      <3> QED BY <1>12, <3>1, <3>2 DEF x, seen, v, s
    <2> QED BY <1>6, <1>12, <2>1, <2>2
  <1> QED BY <1>9, <1>10, <1>11, <1>12

(* A waiting day enters on a candle that hits, at the first that does.     *)
LEMMA WaitingDay ==
    ASSUME NEW f \in Filters, NEW r \in Rows, NEW c \in Candles, NEW k \in Nat, r = NoTrade
    PROVE  LET x == Entered(f, r, c, k)
           IN  /\ x \in Rows
               /\ \/ x = NoTrade /\ \A s \in Sides : ~Hit(f, s, c)
                  \/ x.at = "over" /\ x.side = "none" /\ x.exit = "none"
                  \/ /\ x.at = "open" /\ x.side \in Sides /\ Hit(f, x.side, c)
                     /\ x.entered = k /\ Open(x)
  <1> DEFINE side == SideOf(f, c)
  <1>1. \/ side = "none" /\ \A s \in Sides : ~Hit(f, s, c)
        \/ side \in Sides /\ side # "none" /\ Hit(f, side, c)
    <2>1. Hit(f, "long", c) \in BOOLEAN /\ Hit(f, "short", c) \in BOOLEAN
      BY DEF Hit
    <2>2. CASE Hit(f, "long", c) /\ Hit(f, "short", c)
      BY <2>2 DEF SideOf, Sides
    <2>3. CASE Hit(f, "long", c) /\ ~Hit(f, "short", c)
      BY <2>3 DEF SideOf, Sides
    <2>4. CASE ~Hit(f, "long", c) /\ Hit(f, "short", c)
      BY <2>4 DEF SideOf, Sides
    <2>5. CASE ~Hit(f, "long", c) /\ ~Hit(f, "short", c)
      BY <2>5 DEF SideOf, Sides
    <2> QED BY <2>2, <2>3, <2>4, <2>5
  <1>2. /\ r.at = "waiting" /\ r.exit = "none" /\ r.side = "none"
        /\ r.best = 0 /\ r.worst = 0 /\ r.last = 0
    BY DEF NoTrade
  <1> HIDE DEF side
  <1>3. \/ Entered(f, r, c, k) = [r EXCEPT !.at = "over"]
        \/ Entered(f, r, c, k) = r /\ side = "none"
        \/ Entered(f, r, c, k) = [r EXCEPT !.at = "open", !.side = side, !.entered = k] /\ side # "none"
    BY <1>2 DEF Entered, side
  <1> DEFINE x == Entered(f, r, c, k)
  <1> HIDE DEF x
  <1>4. CASE x = [r EXCEPT !.at = "over"]
    <2>1. x \in Rows /\ x.at = "over" /\ x.side = "none" /\ x.exit = "none"
      BY <1>2, <1>4 DEF Rows
    <2> QED BY <2>1 DEF x
  <1>5. CASE x = r /\ side = "none"
    BY <1>1, <1>5 DEF x
  <1>6. CASE x = [r EXCEPT !.at = "open", !.side = side, !.entered = k] /\ side # "none"
    <2>1. side \in Sides /\ Hit(f, side, c)
      BY <1>1, <1>6
    <2>2. /\ x \in Rows /\ x.at = "open" /\ x.side = side /\ x.entered = k /\ x.exit = "none"
          /\ x.best = 0 /\ x.worst = 0 /\ x.last = 0
      BY <1>2, <1>6, <2>1 DEF Rows
    <2>3. Open(x)
      BY <2>1, <2>2, Levels DEF Open
    <2> QED BY <2>1, <2>2, <2>3 DEF x
  <1> QED BY <1>3, <1>4, <1>5, <1>6 DEF x

-----------------------------------------------------------------------------
TradeBegun(r, d) ==
    r.side # "none" => \E x \in EventsOf(d) : x.type = "trigger" /\ x.side = r.side /\ x.bar <= r.entered

NoCloseFilter == ~filters.confirmed /\ ~filters.aligned

LossTold(r, d) ==
    /\ \A x \in EventsOf(d) : x.side = r.side /\ x.type = "target_1" => x.bar > r.exited
    /\ \/ \E x \in EventsOf(d) : x.side = r.side /\ x.type \in Endings /\ x.bar <= r.exited
       \/ Event("ambiguous", Other(r.side), r.exited) \in EventsOf(d)

WinTold(r, d) ==
    \A x \in EventsOf(d) : x.side = r.side /\ x.type \in {"stop", "ambiguous"} => x.bar > r.exited

Given ==
    /\ plan \in LivePlans /\ filters \in Filters /\ filters.mode = plan.mode
    /\ n \in Nat

(* The story: every event of a side under way, every such side triggered,  *)
(* a side that is done was told to have ended.                             *)
StoryInv ==
    /\ told \in Replays /\ ~told.cut
    /\ \A x \in EventsOf(told) : x.bar <= n /\ Live(told, x.side)
    /\ \A s \in Sides : Live(told, s) =>
          \E x \in EventsOf(told) : x.type = "trigger" /\ x.side = s
    /\ \A s \in Sides : told.side[s].done => Ended(told, s)
    /\ \A s \in Sides : told.side[s].active /\ wide[s] => Event("ambiguous", Other(s), n) \in EventsOf(told)

RowInv ==
    /\ row \in Rows
    /\ row.at = "waiting" => row = NoTrade
    /\ row.at = "open" => Open(row)
    /\ row.at = "over" /\ row.exit # "none" => row.side \in Sides /\ row.exited <= n /\ Earned(row)
    /\ row.side # "none" => row.entered <= n
    /\ ended => row.at = "over"

(* What the two say of the same trade.                                     *)
TradeInv ==
    /\ TradeBegun(row, told)
    /\ NoCloseFilter =>
          /\ row.at = "waiting" => EventsOf(told) = {}
          /\ row.side # "none" => \A x \in EventsOf(told) : x.type = "trigger" => row.entered <= x.bar
    /\ Alike =>
          /\ row.at = "open" => \A x \in EventsOf(told) :
                x.side = row.side => x.type \notin {"target_1", "stop", "ambiguous"}
          /\ row.exit = "stop" => LossTold(row, told)
          /\ row.exit \in {"target_1", "target_2"} => WinTold(row, told)

IInv == Given /\ StoryInv /\ RowInv /\ TradeInv

LEMMA Start == Init => IInv
  <1> SUFFICES ASSUME Init PROVE IInv
    OBVIOUS
  <1>1. Given
    <2>1. Plans \subseteq LivePlans
      <3>1. \A s \in Sides : Edge(s) \in Int
        BY Levels
      <3>2. \A v \in LiveStops : v \in Int \cup {NoLevel}
        BY PricesAreInts
      <3>3. \A t \in LiveTargets : [s \in Sides |-> SecondLevel(s, t[s])] \in [Sides -> Int \cup {NoLevel}]
        BY <3>1, PricesAreInts DEF SecondLevel
      <3> QED BY <3>2, <3>3 DEF Plans, LivePlans
    <2>2. plan \in LivePlans /\ n = 0
      BY <2>1 DEF Init
    <2>3. filters \in Filters /\ filters.mode = plan.mode
      <3>1. PICK a \in Asked : filters = [mode |-> plan.mode, confirmed |-> a.confirmed,
                                           aligned |-> a.aligned, morning |-> a.morning]
        BY DEF Init
      <3>2. a \in [confirmed : BOOLEAN, aligned : BOOLEAN, morning : BOOLEAN] /\ plan.mode \in Modes
        BY <2>2, PricesAreInts DEF LivePlans
      <3> QED BY <3>1, <3>2 DEF Filters
    <2> QED BY <2>2, <2>3 DEF Given
  <1>2. /\ told.side = [s \in Sides |-> Unmoved] /\ told.events = <<>> /\ told.cut = FALSE
        /\ told \in Replays
    BY DEF Init, NothingTold, Unmoved, Replays, States
  <1>3. EventsOf(told) = {}
    BY <1>2 DEF EventsOf
  <1>4. \A s \in Sides : ~told.side[s].active /\ ~told.side[s].done
    BY <1>2 DEF Unmoved
  <1>5. StoryInv
    BY <1>2, <1>3, <1>4 DEF StoryInv, Live
  <1>6. row = NoTrade /\ row.at = "waiting" /\ row.side = "none" /\ row.exit = "none" /\ ~ended
    BY DEF Init, NoTrade
  <1>7. row \in Rows
    BY <1>6 DEF NoTrade, Rows
  <1>8. RowInv
    BY <1>6, <1>7 DEF RowInv
  <1>9. TradeInv
    BY <1>3, <1>6 DEF TradeInv, TradeBegun
  <1> QED BY <1>1, <1>5, <1>8, <1>9 DEF IInv

(* What a bar may do to the row, whichever state the row is in.            *)
RowStep(r, x, f, c, k) ==
    \/ x = NoTrade /\ r = NoTrade /\ \A s \in Sides : ~Hit(f, s, c)
    \/ x.at = "over" /\ x.side = "none" /\ x.exit = "none"
    \/ x = r /\ r.at = "over"
    \/ /\ \/ r.at = "open" /\ x.side = r.side /\ x.entered = r.entered
          \/ r.at = "waiting" /\ x.side \in Sides /\ x.entered = k /\ Hit(f, x.side, c)
       /\ x.side \in Sides
       /\ \/ /\ x.at = "open" /\ Open(x)
             /\ ~(Seen(x.side, c).low <= Mirrored(x.side, Vwap))
             /\ ~(Seen(x.side, c).high >= FirstLevel(x.side))
          \/ /\ x.at = "over" /\ x.exit # "none" /\ x.exited = k /\ Earned(x)
             /\ x.exit = "stop" => Seen(x.side, c).low <= Mirrored(x.side, Vwap)
             /\ x.exit \in {"target_1", "target_2"} => ~(Seen(x.side, c).low <= Mirrored(x.side, Vwap))

LEMMA RowSteps ==
    ASSUME NEW f \in Filters, NEW r \in Rows, NEW c \in Candles, NEW k \in Nat, Shaped(c),
           r.at = "waiting" => r = NoTrade, r.at = "open" => Open(r)
    PROVE  LET x == AfterCandle(f, r, c, k) IN x \in Rows /\ RowStep(r, x, f, c, k)
  <1> DEFINE x == AfterCandle(f, r, c, k)
             e == Entered(f, r, c, k)
  <1>1. x = Exited(e, c, k)
    BY DEF AfterCandle
  <1> HIDE DEF x
  <1>2. CASE r.at = "waiting"
    <2>1. r = NoTrade
      BY <1>2
    <2>2. /\ e \in Rows
          /\ \/ e = NoTrade /\ \A s \in Sides : ~Hit(f, s, c)
             \/ e.at = "over" /\ e.side = "none" /\ e.exit = "none"
             \/ /\ e.at = "open" /\ e.side \in Sides /\ Hit(f, e.side, c)
                /\ e.entered = k /\ Open(e)
      BY <2>1, WaitingDay
    <2> HIDE DEF e
    <2>3. CASE e = NoTrade /\ \A s \in Sides : ~Hit(f, s, c)
      <3>1. e.at # "open"
        BY <2>3 DEF NoTrade
      <3>2. x = e
        BY <1>1, <3>1 DEF Exited
      <3> QED BY <2>1, <2>2, <2>3, <3>2 DEF RowStep, x
    <2>4. CASE e.at = "over" /\ e.side = "none" /\ e.exit = "none"
      <3>1. x = e
        BY <1>1, <2>4 DEF Exited
      <3> QED BY <2>2, <2>4, <3>1 DEF RowStep, x
    <2>5. CASE e.at = "open" /\ e.side \in Sides /\ Hit(f, e.side, c) /\ e.entered = k /\ Open(e)
      <3>1. /\ x \in Rows /\ x.side = e.side /\ x.entered = e.entered
            /\ \/ /\ x.at = "open" /\ Open(x) /\ ~(Seen(e.side, c).low <= Mirrored(e.side, Vwap))
                  /\ ~(Seen(e.side, c).high >= FirstLevel(e.side))
               \/ /\ x.at = "over" /\ x.exit # "none" /\ x.exited = k /\ Earned(x)
                  /\ x.exit = "stop" => Seen(e.side, c).low <= Mirrored(e.side, Vwap)
                  /\ x.exit \in {"target_1", "target_2"} => ~(Seen(e.side, c).low <= Mirrored(e.side, Vwap))
        BY <1>1, <2>2, <2>5, OpenTrade
      <3> QED BY <1>2, <2>5, <3>1 DEF RowStep, x
    <2> QED BY <2>2, <2>3, <2>4, <2>5
  <1>3. CASE r.at = "open"
    <2>1. e = r
      BY <1>3 DEF Entered
    <2>2. /\ x \in Rows /\ x.side = r.side /\ x.entered = r.entered
          /\ \/ /\ x.at = "open" /\ Open(x) /\ ~(Seen(r.side, c).low <= Mirrored(r.side, Vwap))
                /\ ~(Seen(r.side, c).high >= FirstLevel(r.side))
             \/ /\ x.at = "over" /\ x.exit # "none" /\ x.exited = k /\ Earned(x)
                /\ x.exit = "stop" => Seen(r.side, c).low <= Mirrored(r.side, Vwap)
                /\ x.exit \in {"target_1", "target_2"} => ~(Seen(r.side, c).low <= Mirrored(r.side, Vwap))
      BY <1>1, <1>3, <2>1, OpenTrade
    <2>3. r.side \in Sides
      BY <1>3 DEF Open
    <2> QED BY <1>3, <2>2, <2>3 DEF RowStep, x
  <1>4. CASE r.at = "over"
    <2>1. x = r
      BY <1>1, <1>4 DEF Entered, Exited
    <2> QED BY <1>4, <2>1 DEF RowStep, x
  <1> QED BY <1>2, <1>3, <1>4 DEF Rows

LEMMA BarsAreCandles ==
    ASSUME NEW b \in Bars
    PROVE  b \in Candles /\ Shaped(b)
  BY PricesAreInts DEF Bars, Candles, Shaped

LEMMA ToldAreEvents ==
    ASSUME NEW d \in Replays, NEW x \in EventsOf(d)
    PROVE  x \in Events /\ x.side \in Sides /\ x.bar \in Nat /\ x.type \in Kinds
  <1>1. d.events \in Seq(Events)
    BY DEF Replays
  <1>2. x \in Events
    BY <1>1 DEF EventsOf
  <1> QED BY <1>2 DEF Events

(* A bar, with what BarMoves and RowSteps say of it.                       *)
BarFacts(b) ==
    /\ Along(plan, told, told', b, n + 1) /\ ~told'.cut
    /\ \A s \in Sides : Triggers(plan, s, b) => Live(told', s)
    /\ \A s \in Sides : told'.side[s].active /\ Touches(plan, s, b) =>
                       Event("ambiguous", Other(s), n + 1) \in EventsOf(told')
    /\ row' \in Rows
    /\ \/ RowStep(row, row', filters, b, n + 1)
       \/ row' = row /\ row.at = "over"

LEMMA BarFactsHold ==
    ASSUME IInv, NEW b \in Bars, Bar(b)
    PROVE  BarFacts(b)
  <1>1. b \in Candles /\ Shaped(b)
    BY BarsAreCandles
  <1>2. n + 1 \in Nat /\ plan \in LivePlans /\ filters \in Filters /\ told \in Replays /\ ~told.cut
    BY DEF IInv, Given, StoryInv
  <1>3. told' = AfterBar(plan, told, b, n + 1)
    BY DEF Bar
  <1>4. /\ Along(plan, told, told', b, n + 1) /\ ~told'.cut
        /\ \A s \in Sides : Triggers(plan, s, b) => Live(told', s)
        /\ \A s \in Sides : told'.side[s].active /\ Touches(plan, s, b) =>
                           Event("ambiguous", Other(s), n + 1) \in EventsOf(told')
    BY <1>1, <1>2, <1>3, BarMoves
  <1>5. CASE ended
    BY <1>4, <1>5 DEF Bar, BarFacts, IInv, RowInv
  <1>6. CASE ~ended
    <2>1. row' = AfterCandle(filters, row, b, n + 1)
      BY <1>6 DEF Bar
    <2>2. row \in Rows /\ (row.at = "waiting" => row = NoTrade) /\ (row.at = "open" => Open(row))
      BY DEF IInv, RowInv
    <2>3. row' \in Rows /\ RowStep(row, row', filters, b, n + 1)
      BY <1>1, <1>2, <2>1, <2>2, RowSteps
    <2> QED BY <1>4, <2>3 DEF BarFacts
  <1> QED BY <1>5, <1>6

LEMMA BarKeepsStory ==
    ASSUME IInv, NEW b \in Bars, Bar(b), BarFacts(b)
    PROVE  StoryInv'
  <1>1. /\ told' \in Replays /\ ~told'.cut
        /\ EventsOf(told) \subseteq EventsOf(told')
        /\ \A x \in EventsOf(told') \ EventsOf(told) : x.bar = n + 1 /\ Live(told', x.side)
        /\ \A s \in Sides : Live(told, s) => Live(told', s)
        /\ \A s \in Sides : Live(told', s) => Live(told, s) \/ Event("trigger", s, n + 1) \in EventsOf(told')
        /\ \A s \in Sides : told'.side[s].done => told.side[s].done \/ Ended(told', s)
    BY DEF BarFacts, Along
  <1>2. n \in Nat /\ n' = n + 1
    BY DEF IInv, Given, Bar
  <1>3. \A x \in EventsOf(told') : x.bar <= n' /\ Live(told', x.side)
    <2> TAKE x \in EventsOf(told')
    <2>1. CASE x \in EventsOf(told)
      <3>1. x.bar <= n /\ Live(told, x.side) /\ told \in Replays
        BY <2>1 DEF IInv, StoryInv
      <3>2. x.side \in Sides /\ x.bar \in Nat
        BY <2>1, <3>1, ToldAreEvents
      <3> QED BY <1>1, <1>2, <3>1, <3>2
    <2>2. CASE x \notin EventsOf(told)
      BY <1>1, <1>2, <2>2
    <2> QED BY <2>1, <2>2
  <1>4. ASSUME NEW s \in Sides, Live(told', s)
        PROVE  \E x \in EventsOf(told') : x.type = "trigger" /\ x.side = s
    <2>1. CASE Live(told, s)
      BY <1>1, <2>1 DEF IInv, StoryInv
    <2>2. CASE Event("trigger", s, n + 1) \in EventsOf(told')
      <3>1. Event("trigger", s, n + 1).type = "trigger" /\ Event("trigger", s, n + 1).side = s
        BY DEF Event
      <3> QED BY <2>2, <3>1
    <2> QED BY <1>1, <1>4, <2>1, <2>2
  <1>5. ASSUME NEW s \in Sides, told'.side[s].done
        PROVE  Ended(told', s)
    <2>1. CASE told.side[s].done
      <3>1. Ended(told, s)
        BY <2>1 DEF IInv, StoryInv
      <3> QED BY <1>1, <3>1 DEF Ended
    <2> QED BY <1>1, <1>5, <2>1
  <1>6. ASSUME NEW s \in Sides, told'.side[s].active, wide'[s]
        PROVE  Event("ambiguous", Other(s), n') \in EventsOf(told')
    <2>1. wide'[s] = Touches(plan, s, b)
      BY DEF Bar, Touches
    <2>2. Touches(plan, s, b)
      BY <1>6, <2>1
    <2>3. \A r \in Sides : told'.side[r].active /\ Touches(plan, r, b) =>
                         Event("ambiguous", Other(r), n + 1) \in EventsOf(told')
      BY DEF BarFacts
    <2> QED BY <1>2, <1>6, <2>2, <2>3
  <1>7. \A s \in Sides : told'.side[s].done => Ended(told', s)
    BY <1>5
  <1>8. \A s \in Sides : Live(told', s) => \E x \in EventsOf(told') : x.type = "trigger" /\ x.side = s
    BY <1>4
  <1>9. \A s \in Sides : told'.side[s].active /\ wide'[s] => Event("ambiguous", Other(s), n') \in EventsOf(told')
    BY <1>6
  <1> QED BY <1>1, <1>3, <1>7, <1>8, <1>9 DEF StoryInv, EventsOf, Ended, Live

LEMMA BarKeepsRow ==
    ASSUME IInv, NEW b \in Bars, Bar(b), BarFacts(b)
    PROVE  RowInv'
  <1>1. n \in Nat /\ n' = n + 1 /\ ended' = ended /\ RowInv
    BY DEF IInv, Given, Bar
  <1>2. row' \in Rows /\ row \in Rows
    BY <1>1 DEF BarFacts, RowInv
  <1>3. CASE row' = row /\ row.at = "over"
    BY <1>1, <1>2, <1>3 DEF RowInv, Rows
  <1>4. CASE RowStep(row, row', filters, b, n + 1) /\ ~(row' = row /\ row.at = "over")
    <2>0. ~ended
      <3>1. ended => row' = row
        BY DEF Bar
      <3> QED BY <1>1, <1>4, <3>1 DEF RowInv
    <2>1. CASE row' = NoTrade
      BY <1>1, <1>2, <2>0, <2>1 DEF RowInv, NoTrade
    <2>2. CASE row'.at = "over" /\ row'.side = "none" /\ row'.exit = "none"
      BY <1>1, <1>2, <2>0, <2>2 DEF RowInv
    <2>3. CASE /\ \/ row.at = "open" /\ row'.side = row.side /\ row'.entered = row.entered
                  \/ row.at = "waiting" /\ row'.side \in Sides /\ row'.entered = n + 1
               /\ row'.side \in Sides
               /\ \/ row'.at = "open" /\ Open(row')
                  \/ row'.at = "over" /\ row'.exit # "none" /\ row'.exited = n + 1 /\ Earned(row')
      <3>1. row'.entered <= n'
        <4>1. row.at = "open" => row.side \in Sides
          BY <1>1 DEF RowInv, Open
        <4>2. "none" \notin Sides
          BY DEF Sides
        <4>3. row.at = "open" => row.entered <= n
          BY <1>1, <4>1, <4>2 DEF RowInv
        <4> QED BY <1>1, <1>2, <2>3, <4>3 DEF Rows
      <3> QED BY <1>1, <1>2, <2>0, <2>3, <3>1 DEF RowInv
    <2> QED BY <1>4, <2>1, <2>2, <2>3 DEF RowStep
  <1> QED BY <1>3, <1>4 DEF BarFacts

(* The backtest enters where the replay triggers; without a filter on the  *)
(* close, and under the same stop, they see the same.                      *)
LEMMA SameLevels ==
    ASSUME Given, NEW s \in Sides, NEW b
    PROVE  /\ Hit(filters, s, b) => Triggers(plan, s, b)
           /\ NoCloseFilter /\ Triggers(plan, s, b) => Hit(filters, s, b)
           /\ Alike => (Touches(plan, s, b) <=> Seen(s, b).low <= Mirrored(s, Vwap))
  <1>1. Vwap # NoLevel
    BY DayBounds
  <1> QED BY <1>1 DEF Given, Hit, Triggers, LetsIn, NoCloseFilter, Alike, Touches, StopAt

LEMMA BarKeepsTrade ==
    ASSUME IInv, NEW b \in Bars, Bar(b), BarFacts(b)
    PROVE  TradeInv'
  <1> DEFINE k == n + 1
             old == EventsOf(told)
             new == EventsOf(told')
  <1>1. /\ n \in Nat /\ k \in Nat /\ Given /\ StoryInv /\ RowInv /\ TradeInv
        /\ plan' = plan /\ filters' = filters /\ n' = k
    BY DEF IInv, Given, Bar
  <1>2. /\ told' \in Replays /\ old \subseteq new
        /\ \A x \in new \ old : x.bar = k /\ Warranted(plan, x.side, b, x.type) /\ Live(told', x.side)
        /\ \A s \in Sides : Live(told', s) => Live(told, s) \/ Event("trigger", s, k) \in new
        /\ \A s \in Sides : Triggers(plan, s, b) => Live(told', s)
    BY DEF BarFacts, Along
  <1>3. /\ \A x \in old : x.bar <= n /\ x.bar \in Nat /\ Live(told, x.side) /\ x.side \in Sides
        /\ \A x \in new : x.bar \in Nat /\ x.side \in Sides
    BY <1>1, <1>2, ToldAreEvents DEF StoryInv
  <1>4. row' \in Rows /\ row \in Rows
    BY <1>1 DEF BarFacts, RowInv
  <1>5. "none" \notin Sides
    BY DEF Sides
  <1> HIDE DEF old, new
  <1>6. CASE row' = row /\ row.at = "over"
    <2>1. TradeBegun(row', told')
      BY <1>1, <1>2, <1>6 DEF TradeInv, TradeBegun, old, new
    <2>2. ASSUME NoCloseFilter, row.side # "none"
          PROVE  \A x \in new : x.type = "trigger" => row.entered <= x.bar
      <3>1. \A x \in old : x.type = "trigger" => row.entered <= x.bar
        BY <1>1, <2>2 DEF TradeInv, old
      <3>2. row.entered <= n /\ row.entered \in Nat
        BY <1>1, <1>4, <2>2 DEF RowInv, Rows
      <3> QED BY <1>1, <1>2, <3>1, <3>2
    <2>3. row.exit # "none" => row.exited <= n /\ row.exited \in Nat
      BY <1>1, <1>4, <1>6 DEF RowInv, Rows
    <2>4. ASSUME Alike, row.exit = "stop"
          PROVE  LossTold(row, told')
      <3>1. LossTold(row, told)
        BY <1>1, <2>4 DEF TradeInv
      <3>2. row.exited <= n /\ row.exited \in Nat
        BY <2>3, <2>4
      <3>3. \A x \in new : x.side = row.side /\ x.type = "target_1" => x.bar > row.exited
        <4> TAKE x \in new
        <4>1. CASE x \in old
          BY <3>1, <4>1 DEF LossTold, old
        <4>2. CASE x \notin old
          BY <1>1, <1>2, <3>2, <4>2
        <4> QED BY <4>1, <4>2
      <3> QED BY <1>2, <3>1, <3>3 DEF LossTold, old, new
    <2>5. ASSUME Alike, row.exit \in {"target_1", "target_2"}
          PROVE  WinTold(row, told')
      <3>1. WinTold(row, told)
        BY <1>1, <2>5 DEF TradeInv
      <3>2. row.exited <= n /\ row.exited \in Nat
        BY <2>3, <2>5
      <3>3. \A x \in new : x.side = row.side /\ x.type \in {"stop", "ambiguous"} => x.bar > row.exited
        <4> TAKE x \in new
        <4>1. CASE x \in old
          BY <3>1, <4>1 DEF WinTold, old
        <4>2. CASE x \notin old
          BY <1>1, <1>2, <3>2, <4>2
        <4> QED BY <4>1, <4>2
      <3> QED BY <3>3 DEF WinTold, new
    <2> QED BY <1>1, <1>6, <2>1, <2>2, <2>4, <2>5 DEF TradeInv, NoCloseFilter, Alike, new
  <1>7. CASE row' = NoTrade /\ row = NoTrade /\ \A s \in Sides : ~Hit(filters, s, b)
    <2>1. row'.at = "waiting" /\ row'.side = "none" /\ row'.exit = "none" /\ row.at = "waiting"
      BY <1>7 DEF NoTrade
    <2>2. ASSUME NoCloseFilter
          PROVE  new = {}
      <3>1. old = {}
        BY <1>1, <2>1, <2>2 DEF TradeInv, old
      <3>2. \A s \in Sides : ~Triggers(plan, s, b)
        BY <1>1, <1>7, <2>2, SameLevels
      <3>3. \A s \in Sides : ~Live(told, s)
        BY <1>1, <3>1 DEF StoryInv, old
      <3>4. \A s \in Sides : Event("trigger", s, k) \notin new
        <4> SUFFICES ASSUME NEW s \in Sides, Event("trigger", s, k) \in new PROVE FALSE
          OBVIOUS
        <4>1. Event("trigger", s, k).type = "trigger" /\ Event("trigger", s, k).side = s
          BY DEF Event
        <4>2. Warranted(plan, s, b, "trigger")
          BY <1>2, <3>1, <4>1
        <4> QED BY <3>2, <4>2 DEF Warranted
      <3>5. \A s \in Sides : ~Live(told', s)
        BY <1>2, <3>3, <3>4
      <3> QED BY <1>2, <1>3, <3>1, <3>5
    <2> QED BY <1>1, <2>1, <2>2 DEF TradeInv, TradeBegun, NoCloseFilter, new
  <1>8. CASE row'.at = "over" /\ row'.side = "none" /\ row'.exit = "none"
    BY <1>8 DEF TradeInv, TradeBegun
  <1>9. CASE /\ \/ row.at = "open" /\ row'.side = row.side /\ row'.entered = row.entered
                \/ row.at = "waiting" /\ row'.side \in Sides /\ row'.entered = k /\ Hit(filters, row'.side, b)
             /\ row'.side \in Sides
             /\ \/ /\ row'.at = "open" /\ Open(row')
                   /\ ~(Seen(row'.side, b).low <= Mirrored(row'.side, Vwap))
                   /\ ~(Seen(row'.side, b).high >= FirstLevel(row'.side))
                \/ /\ row'.at = "over" /\ row'.exit # "none" /\ row'.exited = k /\ Earned(row')
                   /\ row'.exit = "stop" => Seen(row'.side, b).low <= Mirrored(row'.side, Vwap)
                   /\ row'.exit \in {"target_1", "target_2"} =>
                         ~(Seen(row'.side, b).low <= Mirrored(row'.side, Vwap))
    <2> DEFINE s == row'.side
    <2>1. s \in Sides /\ s # "none"
      BY <1>5, <1>9
    <2>2. TradeBegun(row', told')
      <3>1. CASE row.at = "open" /\ row'.side = row.side /\ row'.entered = row.entered
        BY <1>1, <1>2, <1>5, <1>9, <3>1 DEF TradeInv, TradeBegun, old, new
      <3>2. CASE row.at = "waiting" /\ row'.entered = k /\ Hit(filters, s, b)
        <4>1. Live(told', s)
          BY <1>1, <1>2, <2>1, <3>2, SameLevels
        <4>2. CASE Live(told, s)
          <5>1. \E x \in old : x.type = "trigger" /\ x.side = s
            BY <1>1, <2>1, <4>2 DEF StoryInv, old
          <5> QED BY <1>1, <1>2, <1>3, <3>2, <5>1 DEF TradeBegun, new
        <4>3. CASE Event("trigger", s, k) \in new
          <5>1. /\ Event("trigger", s, k).type = "trigger" /\ Event("trigger", s, k).side = s
                /\ Event("trigger", s, k).bar = k
            BY DEF Event
          <5> QED BY <1>1, <3>2, <4>3, <5>1 DEF TradeBegun, new
        <4> QED BY <1>2, <2>1, <4>1, <4>2, <4>3
      <3> QED BY <1>9, <3>1, <3>2
    <2>3. row'.at # "waiting"
      BY <1>9
    <2>4. ASSUME NoCloseFilter
          PROVE  \A x \in new : x.type = "trigger" => row'.entered <= x.bar
      <3>1. CASE row.at = "open" /\ row'.side = row.side /\ row'.entered = row.entered
        <4>1. \A x \in old : x.type = "trigger" => row.entered <= x.bar
          BY <1>1, <2>1, <2>4, <3>1 DEF TradeInv, old
        <4>2. row.entered <= n /\ row.entered \in Nat
          BY <1>1, <1>4, <2>1, <3>1 DEF RowInv, Rows
        <4> QED BY <1>1, <1>2, <3>1, <4>1, <4>2
      <3>2. CASE row.at = "waiting" /\ row'.entered = k
        <4>1. old = {}
          BY <1>1, <2>4, <3>2 DEF TradeInv, old
        <4> QED BY <1>1, <1>2, <3>2, <4>1
      <3> QED BY <1>9, <3>1, <3>2
    <2>5. ASSUME Alike
          PROVE  \A x \in old : x.side = s => x.type \notin {"target_1", "stop", "ambiguous"}
      <3>1. CASE row.at = "open" /\ row'.side = row.side
        BY <1>1, <2>5, <3>1 DEF TradeInv, old
      <3>2. CASE row.at = "waiting"
        <4>1. NoCloseFilter
          BY <2>5 DEF Alike, NoCloseFilter
        <4>2. old = {}
          BY <1>1, <3>2, <4>1 DEF TradeInv, old
        <4> QED BY <4>2
      <3> QED BY <1>9, <3>1, <3>2
    <2>6. Alike => (Touches(plan, s, b) <=> Seen(s, b).low <= Mirrored(s, Vwap))
      BY <1>1, <2>1, SameLevels
    <2>7. \A x \in new \ old : x.side = s =>
             /\ x.type = "target_1" => Seen(s, b).high >= FirstLevel(s) /\ ~Touches(plan, s, b)
             /\ x.type \in {"stop", "ambiguous"} => Touches(plan, s, b)
      BY <1>2 DEF Warranted
    <2>8. ASSUME Alike, row'.at = "open"
          PROVE  \A x \in new : x.side = s => x.type \notin {"target_1", "stop", "ambiguous"}
      BY <1>9, <2>5, <2>6, <2>7, <2>8
    <2>9. row'.exit # "none" => row'.exited = k /\ row'.at = "over"
      BY <1>9 DEF Open
    <2>10. ASSUME Alike, row'.exit = "stop"
           PROVE  LossTold(row', told')
      <3>1. Touches(plan, s, b) /\ row'.exited = k
        BY <1>9, <2>6, <2>9, <2>10 DEF Open
      <3>2. \A x \in new : x.side = s => x.type # "target_1"
        BY <2>5, <2>7, <2>10, <3>1
      <3>3. CASE told'.side[s].active
        <4>1. Event("ambiguous", Other(s), k) \in new
          BY <2>1, <3>1, <3>3 DEF BarFacts, new
        <4> QED BY <3>1, <3>2, <4>1 DEF LossTold, new
      <3>4. CASE ~told'.side[s].active
        <4>1. Live(told', s)
          <5>1. PICK x \in new : x.side = s
            BY <2>1, <2>2 DEF TradeBegun, new
          <5>2. StoryInv'
            BY BarKeepsStory
          <5> QED BY <5>1, <5>2 DEF StoryInv, new, EventsOf, Live
        <4>2. Ended(told', s)
          <5>1. told'.side[s].done
            BY <3>4, <4>1 DEF Live
          <5>2. StoryInv'
            BY BarKeepsStory
          <5> QED BY <2>1, <5>1, <5>2 DEF StoryInv, Ended, EventsOf
        <4>3. PICK x \in new : x.side = s /\ x.type \in Endings
          BY <3>2, <4>2 DEF Ended, new
        <4>4. x.bar <= k
          BY <1>1, <1>2, <1>3, <4>3
        <4> QED BY <3>1, <3>2, <4>3, <4>4 DEF LossTold, new
      <3> QED BY <3>3, <3>4
    <2>11. ASSUME Alike, row'.exit \in {"target_1", "target_2"}
           PROVE  WinTold(row', told')
      <3>1. ~Touches(plan, s, b)
        BY <1>9, <2>6, <2>9, <2>11
      <3> QED BY <2>5, <2>7, <2>11, <3>1 DEF WinTold, new
    <2> QED BY <1>1, <2>1, <2>2, <2>3, <2>4, <2>8, <2>10, <2>11 DEF TradeInv, NoCloseFilter, Alike, new
  <1> QED BY <1>6, <1>7, <1>8, <1>9 DEF BarFacts, RowStep

LEMMA CloseKeeps ==
    ASSUME IInv, CloseSession
    PROVE  IInv'
  <1>1. /\ n \in Nat /\ Given /\ StoryInv /\ RowInv /\ TradeInv
        /\ plan' = plan /\ filters' = filters /\ told' = told /\ n' = n /\ wide' = wide
        /\ row' = AtTheClose(row, n)
    BY DEF IInv, Given, CloseSession
  <1>2. Given' /\ StoryInv'
    BY <1>1 DEF Given, StoryInv, EventsOf, Live, Ended
  <1>3. row \in Rows
    BY <1>1 DEF RowInv
  <1>4. CASE row.at = "open"
    <2>1. row' = [row EXCEPT !.at = "over", !.exit = "close", !.exited = n, !.result = row.last]
      BY <1>1, <1>4 DEF AtTheClose, Exits
    <2>2. /\ row' \in Rows /\ row'.at = "over" /\ row'.exit = "close" /\ row'.exited = n
          /\ row'.side = row.side /\ row'.entered = row.entered /\ row'.result = row.last
          /\ row'.best = row.best /\ row'.worst = row.worst
      BY <1>1, <1>3, <2>1 DEF Rows
    <2>3. Open(row) /\ row.side \in Sides
      BY <1>1, <1>4 DEF RowInv, Open
    <2>4. Earned(row')
      <3>1. Risk(row.side) \in Int
        BY <2>3, Levels
      <3>2. row.worst \in Int /\ row.best \in Int
        BY <1>3 DEF Rows
      <3> QED BY <2>2, <2>3, <3>1, <3>2 DEF Open, Earned
    <2>5. RowInv'
      BY <1>1, <2>2, <2>3, <2>4 DEF RowInv
    <2>6. TradeInv'
      BY <1>1, <2>2 DEF TradeInv, TradeBegun, NoCloseFilter, Alike
    <2> QED BY <1>2, <2>5, <2>6 DEF IInv
  <1>5. CASE row.at = "waiting"
    <2>1. row = NoTrade /\ row' = [row EXCEPT !.at = "over"]
      BY <1>1, <1>5 DEF RowInv, AtTheClose
    <2>2. row' \in Rows /\ row'.at = "over" /\ row'.exit = "none" /\ row'.side = "none"
      BY <1>3, <2>1 DEF Rows, NoTrade
    <2>3. RowInv' /\ TradeInv'
      BY <2>2 DEF RowInv, TradeInv, TradeBegun
    <2> QED BY <1>2, <2>3 DEF IInv
  <1>6. CASE row.at = "over"
    <2>1. row' = row
      BY <1>1, <1>3, <1>6 DEF AtTheClose, Rows
    <2>2. RowInv' /\ TradeInv'
      BY <1>1, <1>6, <2>1 DEF RowInv, TradeInv, NoCloseFilter, Alike
    <2> QED BY <1>2, <2>2 DEF IInv
  <1> QED BY <1>3, <1>4, <1>5, <1>6 DEF Rows

LEMMA Steps == IInv /\ [Next]_vars => IInv'
  <1> SUFFICES ASSUME IInv, [Next]_vars PROVE IInv'
    OBVIOUS
  <1>1. ASSUME NEW b \in Bars, Bar(b)
        PROVE  IInv'
    <2>1. BarFacts(b)
      BY <1>1, BarFactsHold
    <2>2. Given'
      BY <1>1 DEF IInv, Given, Bar
    <2> QED BY <1>1, <2>1, <2>2, BarKeepsStory, BarKeepsRow, BarKeepsTrade DEF IInv
  <1>2. CASE CloseSession
    BY <1>2, CloseKeeps
  <1>3. CASE UNCHANGED vars
    BY <1>3 DEF vars, IInv, Given, StoryInv, RowInv, TradeInv, TradeBegun, NoCloseFilter, Alike,
                LossTold, WinTold, EventsOf, Live, Ended
  <1> QED BY <1>1, <1>2, <1>3 DEF Next

LEMMA Always == Spec => []IInv
  BY Start, Steps, PTL DEF Spec

-----------------------------------------------------------------------------
(* The bars at which something was told are the bars of the events.        *)
LEMMA BarsAreOfEvents ==
    ASSUME NEW s, NEW types
    PROVE  /\ \A k \in BarsOf(s, types) : \E x \in EventsOf(told) : x.side = s /\ x.type \in types /\ x.bar = k
           /\ \A x \in EventsOf(told) : x.side = s /\ x.type \in types => x.bar \in BarsOf(s, types)
  BY DEF BarsOf, EventsOf

(* No side stays active through a bar that touched its stop, but for the   *)
(* bar the other side's ambiguity cut short (build_replay_events).         *)
THEOREM NoSideOutlivesItsStop == Spec => []ActiveIsUnstopped
  <1>1. ASSUME IInv PROVE ActiveIsUnstopped
    <2> SUFFICES ASSUME NEW s \in Sides, told.side[s].active, wide[s]
                 PROVE  n \in BarsOf(Other(s), {"ambiguous"})
      BY DEF ActiveIsUnstopped
    <2>1. Event("ambiguous", Other(s), n) \in EventsOf(told)
      BY <1>1 DEF IInv, StoryInv
    <2>2. /\ Event("ambiguous", Other(s), n).side = Other(s)
          /\ Event("ambiguous", Other(s), n).type = "ambiguous"
          /\ Event("ambiguous", Other(s), n).bar = n
      BY DEF Event
    <2> QED BY <2>1, <2>2, BarsAreOfEvents
  <1> QED BY <1>1, Always, PTL

(* The result of the backtest lies between the worst and the best price of *)
(* the trade, and is a loss exactly when the stop was touched              *)
(* (_simulate_exit).                                                       *)
THEOREM TheResultIsEarned == Spec => []ResultIsEarned
  <1>1. ASSUME IInv PROVE ResultIsEarned
    <2> SUFFICES ASSUME row.exit # "none" PROVE Earned(row)
      BY DEF ResultIsEarned, Earned
    <2>1. RowInv /\ row \in Rows
      BY <1>1 DEF IInv, RowInv
    <2>2. row.at = "over"
      BY <2>1 DEF RowInv, Rows, NoTrade, Open
    <2> QED BY <2>1, <2>2 DEF RowInv
  <1> QED BY <1>1, Always, PTL

(* What the backtest trades, the replay has told by then, and without a    *)
(* filter on the close the backtest takes the first side told.             *)
THEOREM TheEntryIsTriggered == Spec => []EntryIsTriggered
  <1>1. ASSUME IInv PROVE EntryIsTriggered
    <2> SUFFICES ASSUME row.side # "none"
                 PROVE  /\ \E k \in BarsOf(row.side, {"trigger"}) : k <= row.entered
                        /\ NoCloseFilter =>
                              \A s \in Sides : \A k \in BarsOf(s, {"trigger"}) : row.entered <= k
      BY DEF EntryIsTriggered, NoCloseFilter
    <2>1. TradeInv
      BY <1>1 DEF IInv
    <2>2. \E k \in BarsOf(row.side, {"trigger"}) : k <= row.entered
      BY <2>1, BarsAreOfEvents DEF TradeInv, TradeBegun
    <2>3. ASSUME NoCloseFilter, NEW s \in Sides, NEW k \in BarsOf(s, {"trigger"})
          PROVE  row.entered <= k
      BY <2>1, <2>3, BarsAreOfEvents DEF TradeInv
    <2> QED BY <2>2, <2>3
  <1> QED BY <1>1, Always, PTL

(* Under the same stop, what the backtest counts as a loss the replay has  *)
(* ended without a target by then, unless the bar was cut short.           *)
THEOREM TheLossIsTold == Spec => []LossIsTold
  <1>1. ASSUME IInv PROVE LossIsTold
    <2> SUFFICES ASSUME Alike, row.exit = "stop"
                 PROVE  /\ \A k \in BarsOf(row.side, {"target_1"}) : k > row.exited
                        /\ \/ \E k \in BarsOf(row.side, Endings) : k <= row.exited
                           \/ row.exited \in BarsOf(Other(row.side), {"ambiguous"})
      BY DEF LossIsTold
    <2>1. LossTold(row, told)
      BY <1>1 DEF IInv, TradeInv
    <2>2. \A k \in BarsOf(row.side, {"target_1"}) : k > row.exited
      BY <2>1, BarsAreOfEvents DEF LossTold
    <2>3. CASE \E x \in EventsOf(told) : x.side = row.side /\ x.type \in Endings /\ x.bar <= row.exited
      BY <2>2, <2>3, BarsAreOfEvents
    <2>4. CASE Event("ambiguous", Other(row.side), row.exited) \in EventsOf(told)
      <3>1. /\ Event("ambiguous", Other(row.side), row.exited).side = Other(row.side)
            /\ Event("ambiguous", Other(row.side), row.exited).type = "ambiguous"
            /\ Event("ambiguous", Other(row.side), row.exited).bar = row.exited
        BY DEF Event
      <3> QED BY <2>2, <2>4, <3>1, BarsAreOfEvents
    <2> QED BY <2>1, <2>3, <2>4 DEF LossTold
  <1> QED BY <1>1, Always, PTL

(* Under the same stop, what the backtest counts as won was not stopped in *)
(* the replay by then.                                                     *)
THEOREM TheWinIsNotStopped == Spec => []WinIsNotStopped
  <1>1. ASSUME IInv PROVE WinIsNotStopped
    <2> SUFFICES ASSUME Alike, row.exit \in {"target_1", "target_2"}
                 PROVE  \A k \in BarsOf(row.side, {"stop", "ambiguous"}) : k > row.exited
      BY DEF WinIsNotStopped
    <2>1. WinTold(row, told)
      BY <1>1 DEF IInv, TradeInv
    <2> QED BY <2>1, BarsAreOfEvents DEF WinTold
  <1> QED BY <1>1, Always, PTL

(* Backtest and replay tell the same day, for any bars, plan and filters.  *)
THEOREM TheBacktestAgrees == Spec => []BacktestAgrees
  BY TheEntryIsTriggered, TheLossIsTold, TheWinIsNotStopped, TheResultIsEarned, PTL
     DEF BacktestAgrees
-----------------------------------------------------------------------------
(* The list of what was told: its events stand in the order of the bars,   *)
(* each fits those of its side before it, and the flags of a side say which*)
(* those are.                                                              *)
TypesOf(tale, s) == {tale[i].type : i \in {h \in DOMAIN tale : tale[h].side = s}}

Sound(d, k) ==
    /\ d \in Replays
    /\ \A i \in DOMAIN d.events :
          d.events[i].bar \in 1 .. k /\ Fits(d.events[i].type, Before(d.events, i))
    /\ \A i, j \in DOMAIN d.events : i < j => d.events[i].bar <= d.events[j].bar
    /\ \A s \in Sides :
          /\ ~Live(d, s) => TypesOf(d.events, s) = {} /\ ~d.side[s].first
          /\ d.side[s].active =>
                /\ ~d.side[s].done
                /\ TypesOf(d.events, s) = IF d.side[s].first THEN {"trigger", "target_1"} ELSE {"trigger"}

(* What was told stands, and what was added is of the k-th bar.            *)
Stands(d, e, k) ==
    /\ DOMAIN d.events \subseteq DOMAIN e.events
    /\ \A i \in DOMAIN d.events : e.events[i] = d.events[i]
    /\ \A i \in DOMAIN e.events : i \in DOMAIN d.events \/ e.events[i].bar = k

Goes(d, e, k) == Sound(e, k) /\ Stands(d, e, k)

LEMMA TellGoes ==
    ASSUME NEW k \in Nat \ {0}, NEW d, Sound(d, k), NEW type \in Kinds, NEW s \in Sides,
           NEW e \in Replays, e.events = Tells(d, type, s, k), Fits(type, TypesOf(d.events, s)),
           \A r \in Sides \ {s} : e.side[r] = d.side[r], Live(e, s),
           e.side[s].active =>
              /\ ~e.side[s].done
              /\ TypesOf(d.events, s) \cup {type} = IF e.side[s].first THEN {"trigger", "target_1"} ELSE {"trigger"}
    PROVE  Goes(d, e, k)
  <1> DEFINE x == Event(type, s, k)
             old == d.events
             new == e.events
             l == Len(old)
  <1>1. d \in Replays /\ old \in Seq(Events) /\ new \in Seq(Events)
    BY DEF Sound, Replays
  <1>2. x \in Events /\ x.type = type /\ x.side = s /\ x.bar = k
    BY DEF Event, Events
  <1>3. new = Append(old, x)
    BY <1>1, Telling
  <1> HIDE DEF x, old, new
  <1>4. /\ l \in Nat /\ DOMAIN old = 1 .. l /\ DOMAIN new = 1 .. l + 1 /\ new[l + 1] = x
        /\ \A i \in 1 .. l : new[i] = old[i]
    BY <1>1, <1>2, <1>3
  <1> HIDE DEF l
  <1>5. /\ \A i \in DOMAIN old : old[i].bar \in 1 .. k /\ Fits(old[i].type, Before(old, i))
        /\ \A i, j \in DOMAIN old : i < j => old[i].bar <= old[j].bar
    BY DEF Sound, old
  <1>6. \A j \in 1 .. l : Before(new, j) = Before(old, j)
    BY <1>4 DEF Before
  <1>7. Before(new, l + 1) = TypesOf(old, s)
    <2>1. \A i : i \in 1 .. (l + 1) - 1 <=> i \in DOMAIN old
      BY <1>4
    <2>2. {h \in 1 .. (l + 1) - 1 : new[h].side = new[l + 1].side} = {h \in DOMAIN old : old[h].side = s}
      BY <1>2, <1>4, <2>1
    <2> QED BY <1>4, <2>2 DEF Before, TypesOf
  <1>8. /\ TypesOf(new, s) = TypesOf(old, s) \cup {type}
        /\ \A r \in Sides \ {s} : TypesOf(new, r) = TypesOf(old, r)
    <2>1. \A i \in 1 .. l + 1 : i \in 1 .. l \/ i = l + 1
      BY <1>4
    <2>2. \A r : {h \in DOMAIN new : new[h].side = r}
                    = {h \in DOMAIN old : old[h].side = r} \cup (IF r = s THEN {l + 1} ELSE {})
      BY <1>2, <1>4, <2>1
    <2> QED BY <1>2, <1>4, <2>2 DEF TypesOf
  <1>9. \A i \in DOMAIN new : new[i].bar \in 1 .. k /\ Fits(new[i].type, Before(new, i))
    <2> TAKE i \in DOMAIN new
    <2>1. CASE i \in 1 .. l
      BY <1>4, <1>5, <1>6, <2>1
    <2>2. CASE i = l + 1
      BY <1>2, <1>4, <1>7, <2>2 DEF old
    <2> QED BY <1>4, <2>1, <2>2
  <1>10. ASSUME NEW i \in DOMAIN new, NEW j \in DOMAIN new, i < j PROVE new[i].bar <= new[j].bar
    <2>1. i \in 1 .. l
      BY <1>4, <1>10
    <2>2. CASE j \in 1 .. l
      BY <1>4, <1>5, <1>10, <2>1, <2>2
    <2>3. CASE j = l + 1
      BY <1>2, <1>4, <1>5, <2>1, <2>3
    <2> QED BY <1>4, <2>2, <2>3
  <1>11. ASSUME NEW r \in Sides
         PROVE  /\ ~Live(e, r) => TypesOf(new, r) = {} /\ ~e.side[r].first
                /\ e.side[r].active =>
                     /\ ~e.side[r].done
                     /\ TypesOf(new, r) = IF e.side[r].first THEN {"trigger", "target_1"} ELSE {"trigger"}
    <2>1. CASE r = s
      BY <1>8, <2>1 DEF old
    <2>2. CASE r # s
      <3>1. e.side[r] = d.side[r] /\ TypesOf(new, r) = TypesOf(old, r) /\ (Live(e, r) <=> Live(d, r))
        BY <1>8, <2>2 DEF Live
      <3> QED BY <3>1 DEF Sound, old
    <2> QED BY <2>1, <2>2
  <1>12. Sound(e, k)
    BY <1>9, <1>10, <1>11 DEF Sound, new
  <1>13. Stands(d, e, k)
    BY <1>2, <1>4 DEF Stands, old, new
  <1> QED BY <1>12, <1>13 DEF Goes

LEMMA StandingGoes == ASSUME NEW d, NEW k, Sound(d, k) PROVE Goes(d, d, k)
  BY DEF Goes, Stands

LEMMA GoesOn ==
    ASSUME NEW k, NEW d, NEW e, NEW f, Goes(d, e, k), Goes(e, f, k)
    PROVE  Goes(d, f, k)
  BY DEF Goes, Stands

LEMMA SameTale ==
    ASSUME NEW k, NEW d, NEW e, NEW f \in Replays, Goes(d, e, k), f.events = e.events, f.side = e.side
    PROVE  Goes(d, f, k)
  BY DEF Goes, Stands, Sound, Live

LEMMA TriggerGoes ==
    ASSUME NEW p, NEW k \in Nat \ {0}, NEW d, Sound(d, k), NEW s \in Sides, NEW bar
    PROVE  Goes(d, Trigger(p, d, s, bar, k), k)
  <1> DEFINE e == Trigger(p, d, s, bar, k)
  <1>0. d \in Replays
    BY DEF Sound
  <1>1. CASE e = d
    BY <1>1, StandingGoes
  <1>2. CASE e # d
    <2>1. ~Live(d, s) /\ e = [d EXCEPT !.side[s].active = TRUE, !.events = Tells(d, "trigger", s, k)]
      BY <1>2 DEF Trigger, Live
    <2>2. Tells(d, "trigger", s, k) \in Seq(Events) /\ "trigger" \in Kinds
      BY <1>0, Telling DEF Kinds
    <2> HIDE DEF e
    <2>3. e \in Replays /\ e.events = Tells(d, "trigger", s, k)
      BY <1>0, <2>1, <2>2 DEF Replays, States
    <2>4. /\ e.side[s].active /\ e.side[s].done = d.side[s].done /\ e.side[s].first = d.side[s].first
          /\ \A r \in Sides \ {s} : e.side[r] = d.side[r]
      BY <1>0, <2>1 DEF Replays, States
    <2>5. TypesOf(d.events, s) = {} /\ ~d.side[s].first /\ ~d.side[s].done
      BY <2>1 DEF Sound, Live
    <2>6. Fits("trigger", TypesOf(d.events, s)) /\ Live(e, s)
      BY <2>4, <2>5 DEF Fits, Live
    <2>7. ~e.side[s].done /\ TypesOf(d.events, s) \cup {"trigger"} = IF e.side[s].first THEN {"trigger", "target_1"} ELSE {"trigger"}
      BY <2>4, <2>5
    <2>8. Goes(d, e, k)
      BY <2>2, <2>3, <2>4, <2>6, <2>7, TellGoes
    <2> QED BY <2>8 DEF e
  <1> QED BY <1>1, <1>2

LEMMA EndsGoes ==
    ASSUME NEW k \in Nat \ {0}, NEW d, Sound(d, k), NEW type \in Endings, NEW s \in Sides,
           d.side[s].active, type = "target_2" => d.side[s].first
    PROVE  Goes(d, Ends(d, type, s, k), k)
  <1> DEFINE e == Ends(d, type, s, k)
  <1>0. d \in Replays
    BY DEF Sound
  <1>1. Tells(d, type, s, k) \in Seq(Events) /\ type \in Kinds
    BY <1>0, Telling DEF Kinds
  <1>2. e = [d EXCEPT !.side[s].active = FALSE, !.side[s].done = TRUE, !.events = Tells(d, type, s, k)]
    BY DEF Ends
  <1> HIDE DEF e
  <1>3. /\ e \in Replays /\ e.events = Tells(d, type, s, k) /\ e.cut = d.cut
        /\ ~e.side[s].active /\ e.side[s].done
        /\ \A r \in Sides \ {s} : e.side[r] = d.side[r]
    BY <1>0, <1>1, <1>2 DEF Replays, States
  <1>4. TypesOf(d.events, s) = IF d.side[s].first THEN {"trigger", "target_1"} ELSE {"trigger"}
    BY DEF Sound
  <1>5. Fits(type, TypesOf(d.events, s))
    BY <1>4 DEF Fits, Endings
  <1>6. Live(e, s) /\ ~e.side[s].active
    BY <1>3 DEF Live
  <1>7. Goes(d, e, k)
    BY <1>1, <1>3, <1>5, <1>6, TellGoes
  <1> QED BY <1>7 DEF e

LEMMA FirstTargetGoes ==
    ASSUME NEW p, NEW k \in Nat \ {0}, NEW d, Sound(d, k), NEW s \in Sides, NEW bar
    PROVE  Goes(d, FirstTarget(p, d, s, bar, k), k)
  <1> DEFINE e == FirstTarget(p, d, s, bar, k)
             reached == [d EXCEPT !.side[s].first = TRUE, !.events = Tells(d, "target_1", s, k)]
             over == [reached EXCEPT !.side[s].active = FALSE, !.side[s].done = TRUE]
             halted == Ends(d, "ambiguous", s, k)
             cut == [halted EXCEPT !.cut = TRUE]
  <1>0. d \in Replays
    BY DEF Sound
  <1>1. e = d \/ (d.side[s].active /\ ~d.side[s].first /\ e \in {reached, over, cut})
    BY DEF FirstTarget
  <1>2. /\ Tells(d, "target_1", s, k) \in Seq(Events) /\ "target_1" \in Kinds
        /\ "ambiguous" \in Endings /\ "ambiguous" # "target_2"
    BY <1>0, Telling DEF Kinds, Endings
  <1> HIDE DEF e
  <1>3. CASE e = d
    BY <1>3, StandingGoes DEF e
  <1>4. CASE d.side[s].active /\ e = cut
    <2>1. Goes(d, halted, k)
      BY <1>2, <1>4, EndsGoes
    <2> HIDE DEF halted
    <2>2. cut \in Replays /\ cut.events = halted.events /\ cut.side = halted.side
      BY <2>1 DEF Goes, Sound, Replays
    <2> HIDE DEF cut
    <2>3. Goes(d, cut, k)
      BY <2>1, <2>2, SameTale
    <2> QED BY <1>4, <2>3 DEF e
  <1>5. CASE d.side[s].active /\ ~d.side[s].first /\ e \in {reached, over}
    <2>1. TypesOf(d.events, s) = {"trigger"} /\ ~d.side[s].done
      BY <1>5 DEF Sound
    <2>2. Fits("target_1", TypesOf(d.events, s))
      BY <2>1 DEF Fits
    <2> HIDE DEF reached
    <2>3. /\ reached \in Replays /\ reached.events = Tells(d, "target_1", s, k)
          /\ reached.side[s].active = d.side[s].active /\ reached.side[s].done = d.side[s].done
          /\ reached.side[s].first
          /\ \A r \in Sides \ {s} : reached.side[r] = d.side[r]
      BY <1>0, <1>2 DEF Replays, States, reached
    <2>4. CASE e = reached
      <3>1. Live(e, s)
        BY <1>5, <2>3, <2>4 DEF Live
      <3>2. ~e.side[s].done /\ TypesOf(d.events, s) \cup {"target_1"} = IF e.side[s].first THEN {"trigger", "target_1"} ELSE {"trigger"}
        BY <2>1, <2>3, <2>4
      <3>3. Goes(d, e, k)
        BY <1>2, <2>2, <2>3, <2>4, <3>1, <3>2, TellGoes
      <3> QED BY <3>3 DEF e
    <2>5. CASE e = over
      <3> HIDE DEF over
      <3>1. over = [reached EXCEPT !.side[s].active = FALSE, !.side[s].done = TRUE]
        BY DEF over
      <3>2. over.events = reached.events /\ over.cut = reached.cut
        BY <2>3, <3>1 DEF Replays
      <3>3. ~over.side[s].active /\ over.side[s].done
        BY <2>3, <3>1 DEF Replays, States
      <3>4. \A r \in Sides \ {s} : over.side[r] = reached.side[r]
        BY <2>3, <3>1 DEF Replays, States
      <3>5. over \in Replays
        <4>1. reached \in Replays
          BY <2>3
        <4>2. over.side = [reached.side EXCEPT ![s].active = FALSE, ![s].done = TRUE]
          BY <3>1, <4>1 DEF Replays
        <4>3. reached.side \in [Sides -> States]
          BY <4>1 DEF Replays
        <4>4. \A f \in [Sides -> States] : [f EXCEPT ![s].active = FALSE, ![s].done = TRUE] \in [Sides -> States]
          BY ONLY s \in Sides DEF States
        <4>5. over.side \in [Sides -> States]
          BY ONLY <4>2, <4>3, <4>4
        <4>6. over.events \in Seq(Events) /\ over.cut \in BOOLEAN
          BY <3>2, <4>1 DEF Replays
        <4>7. over = [side |-> over.side, events |-> over.events, cut |-> over.cut]
          BY <3>1, <4>1 DEF Replays
        <4> QED BY <4>5, <4>6, <4>7 DEF Replays
      <3>6. Live(over, s)
        BY <3>3 DEF Live
      <3>7. Goes(d, over, k)
        BY <1>2, <2>2, <2>3, <3>2, <3>3, <3>4, <3>5, <3>6, TellGoes
      <3> QED BY <2>5, <3>7 DEF e
    <2> QED BY <1>5, <2>4, <2>5
  <1> QED BY <1>1, <1>3, <1>4, <1>5

LEMMA LooksGo ==
    ASSUME NEW p, NEW k \in Nat \ {0}, NEW d, Sound(d, k), NEW s \in Sides, NEW bar
    PROVE  /\ Goes(d, SecondTarget(p, d, s, bar, k), k)
           /\ Goes(d, StopHit(p, d, s, bar, k), k)
           /\ Goes(d, Extended(p, d, s, bar, k), k)
           /\ Goes(d, Invalidated(d, s, bar, k), k)
  <1>1. {"target_2", "stop", "extended", "invalidated"} \subseteq Endings
    BY DEF Endings
  <1>2. Goes(d, SecondTarget(p, d, s, bar, k), k)
    BY <1>1, EndsGoes, StandingGoes DEF SecondTarget
  <1>3. Goes(d, StopHit(p, d, s, bar, k), k)
    BY <1>1, EndsGoes, StandingGoes DEF StopHit
  <1>4. Goes(d, Extended(p, d, s, bar, k), k)
    BY <1>1, EndsGoes, StandingGoes DEF Extended
  <1>5. Goes(d, Invalidated(d, s, bar, k), k)
    BY <1>1, EndsGoes, StandingGoes DEF Invalidated
  <1> QED BY <1>2, <1>3, <1>4, <1>5

(* The whole bar.                                                          *)
LEMMA BarGoes ==
    ASSUME NEW p, NEW k \in Nat \ {0}, NEW d, Sound(d, k), NEW bar
    PROVE  Goes(d, AfterBar(p, d, bar, k), k)
  <1> DEFINE t1 == Trigger(p, d, "long", bar, k)
             t2 == Trigger(p, t1, "short", bar, k)
             f1 == FirstTarget(p, t2, "long", bar, k)
             f2 == FirstTarget(p, f1, "short", bar, k)
             g1 == SecondTarget(p, f2, "long", bar, k)
             g2 == SecondTarget(p, g1, "short", bar, k)
             h1 == StopHit(p, g2, "long", bar, k)
             h2 == StopHit(p, h1, "short", bar, k)
             x1 == Extended(p, h2, "long", bar, k)
             x2 == Extended(p, x1, "short", bar, k)
             c1 == Invalidated(x2, "long", bar, k)
             c2 == Invalidated(c1, "short", bar, k)
             e == [c2 EXCEPT !.cut = FALSE]
  <1>0. AfterBar(p, d, bar, k) = e
    BY DEF AfterBar
  <1>1. "long" \in Sides /\ "short" \in Sides
    BY DEF Sides
  <1>2. Goes(d, t1, k)
    BY <1>1, TriggerGoes
  <1> HIDE DEF t1
  <1>3. Goes(d, t2, k)
    <2>1. Goes(t1, t2, k)
      BY <1>1, <1>2, TriggerGoes DEF Goes
    <2> QED BY <1>2, <2>1, GoesOn
  <1> HIDE DEF t2
  <1>4. Goes(d, f1, k)
    <2>1. Goes(t2, f1, k)
      BY <1>1, <1>3, FirstTargetGoes DEF Goes
    <2> QED BY <1>3, <2>1, GoesOn
  <1> HIDE DEF f1
  <1>5. Goes(d, f2, k)
    <2>1. Goes(f1, f2, k)
      BY <1>1, <1>4, FirstTargetGoes DEF Goes
    <2> QED BY <1>4, <2>1, GoesOn
  <1> HIDE DEF f2
  <1>6. Goes(d, g1, k)
    <2>1. Goes(f2, g1, k)
      BY <1>1, <1>5, LooksGo DEF Goes
    <2> QED BY <1>5, <2>1, GoesOn
  <1> HIDE DEF g1
  <1>7. Goes(d, g2, k)
    <2>1. Goes(g1, g2, k)
      BY <1>1, <1>6, LooksGo DEF Goes
    <2> QED BY <1>6, <2>1, GoesOn
  <1> HIDE DEF g2
  <1>8. Goes(d, h1, k)
    <2>1. Goes(g2, h1, k)
      BY <1>1, <1>7, LooksGo DEF Goes
    <2> QED BY <1>7, <2>1, GoesOn
  <1> HIDE DEF h1
  <1>9. Goes(d, h2, k)
    <2>1. Goes(h1, h2, k)
      BY <1>1, <1>8, LooksGo DEF Goes
    <2> QED BY <1>8, <2>1, GoesOn
  <1> HIDE DEF h2
  <1>10. Goes(d, x1, k)
    <2>1. Goes(h2, x1, k)
      BY <1>1, <1>9, LooksGo DEF Goes
    <2> QED BY <1>9, <2>1, GoesOn
  <1> HIDE DEF x1
  <1>11. Goes(d, x2, k)
    <2>1. Goes(x1, x2, k)
      BY <1>1, <1>10, LooksGo DEF Goes
    <2> QED BY <1>10, <2>1, GoesOn
  <1> HIDE DEF x2
  <1>12. Goes(d, c1, k)
    <2>1. Goes(x2, c1, k)
      BY <1>1, <1>11, LooksGo DEF Goes
    <2> QED BY <1>11, <2>1, GoesOn
  <1> HIDE DEF c1
  <1>13. Goes(d, c2, k)
    <2>1. Goes(c1, c2, k)
      BY <1>1, <1>12, LooksGo DEF Goes
    <2> QED BY <1>12, <2>1, GoesOn
  <1> HIDE DEF c2
  <1>14. e \in Replays /\ e.events = c2.events /\ e.side = c2.side
    BY <1>13 DEF Goes, Sound, Replays
  <1> HIDE DEF e
  <1>15. Goes(d, e, k)
    BY <1>13, <1>14, SameTale
  <1> QED BY <1>0, <1>15
-----------------------------------------------------------------------------
(* Sorting: the rank of an event is its place, and places follow the order.*)
Precedes(tale, i, j) ==
    \/ tale[i].bar < tale[j].bar
    \/ /\ tale[i].bar = tale[j].bar
       /\ \/ Rank(tale[i]) < Rank(tale[j])
          \/ Rank(tale[i]) = Rank(tale[j]) /\ i < j

Ahead(tale, j) == {i \in DOMAIN tale : Precedes(tale, i, j)}
RankOf(tale) == [j \in DOMAIN tale |-> Cardinality(Ahead(tale, j)) + 1]

LEMMA PrecedesIsOrder ==
    ASSUME NEW tale \in Seq(Events)
    PROVE  /\ \A i \in DOMAIN tale : ~Precedes(tale, i, i)
           /\ \A i, j \in DOMAIN tale : i # j => Precedes(tale, i, j) \/ Precedes(tale, j, i)
           /\ \A i, j, k \in DOMAIN tale :
                 Precedes(tale, i, j) /\ Precedes(tale, j, k) => Precedes(tale, i, k)
<1> DEFINE bar(i) == tale[i].bar
           rank(i) == Rank(tale[i])
<1>1. \A i \in DOMAIN tale : i \in Nat /\ bar(i) \in Int /\ rank(i) \in Int
  <2> TAKE i \in DOMAIN tale
  <2>1. tale[i] \in Events /\ i \in Nat
    OBVIOUS
  <2>2. tale[i].type \in Kinds /\ tale[i].bar \in Nat
    BY <2>1 DEF Events
  <2>3. rank(i) \in Int
    BY <2>2 DEF Rank, Kinds, Endings
  <2>4. QED
    BY <2>1, <2>2, <2>3
<1>2. \A i, j \in DOMAIN tale :
         Precedes(tale, i, j) <=> \/ bar(i) < bar(j)
                                    \/ /\ bar(i) = bar(j)
                                       /\ \/ rank(i) < rank(j)
                                          \/ rank(i) = rank(j) /\ i < j
  BY DEF Precedes
<1> HIDE DEF bar, rank
<1>3. QED
  BY <1>1, <1>2

LEMMA RanksAreOneToOne ==
    ASSUME NEW tale \in Seq(Events)
    PROVE  /\ RankOf(tale) \in [DOMAIN tale -> DOMAIN tale]
           /\ \A i, j \in DOMAIN tale : Precedes(tale, i, j) => RankOf(tale)[i] < RankOf(tale)[j]
           /\ \A k \in DOMAIN tale : \E j \in DOMAIN tale : RankOf(tale)[j] = k
           /\ \A i, j \in DOMAIN tale : RankOf(tale)[i] = RankOf(tale)[j] => i = j
<1> DEFINE l == Len(tale)
           D == DOMAIN tale
           rank == RankOf(tale)
<1>1. l \in Nat /\ D = 1 .. l /\ IsFiniteSet(D) /\ Cardinality(D) = l
  <2>1. l \in Nat /\ D = 1 .. l
    OBVIOUS
  <2>2. IsFiniteSet(1 .. l) /\ Cardinality(1 .. l) = l
    BY <2>1, FS_Interval
  <2>3. QED
    BY <2>1, <2>2
<1>2. \A j \in D : /\ IsFiniteSet(Ahead(tale, j)) /\ Cardinality(Ahead(tale, j)) \in 0 .. l - 1
  <2> TAKE j \in D
  <2>1. Ahead(tale, j) \subseteq D \ {j}
    BY PrecedesIsOrder DEF Ahead
  <2>2. IsFiniteSet(D \ {j}) /\ Cardinality(D \ {j}) = l - 1
    BY <1>1, FS_RemoveElement
  <2>3. IsFiniteSet(Ahead(tale, j)) /\ Cardinality(Ahead(tale, j)) <= l - 1
    BY <2>1, <2>2, FS_Subset
  <2>4. Cardinality(Ahead(tale, j)) \in Nat
    BY <2>3, FS_CardinalityType
  <2>5. QED
    BY <1>1, <2>3, <2>4
<1>3. rank \in [D -> D]
  BY <1>1, <1>2 DEF RankOf
<1>4. ASSUME NEW i \in D, NEW j \in D, Precedes(tale, i, j)
      PROVE  rank[i] < rank[j]
  <2>1. Ahead(tale, i) \subseteq Ahead(tale, j) /\ Ahead(tale, i) # Ahead(tale, j)
    BY <1>4, PrecedesIsOrder DEF Ahead
  <2>2. /\ Cardinality(Ahead(tale, i)) <= Cardinality(Ahead(tale, j))
        /\ Cardinality(Ahead(tale, i)) # Cardinality(Ahead(tale, j))
    BY <1>2, <2>1, FS_Subset
  <2>3. QED
    BY <1>1, <1>2, <2>2 DEF RankOf
<1>5. \A i, j \in D : rank[i] = rank[j] => i = j
  <2>1. SUFFICES ASSUME NEW i \in D, NEW j \in D, rank[i] = rank[j], i # j PROVE FALSE
    OBVIOUS
  <2>2. Precedes(tale, i, j) \/ Precedes(tale, j, i)
    BY <2>1, PrecedesIsOrder
  <2>3. rank[i] \in Int /\ rank[j] \in Int
    BY <1>1, <1>3
  <2>4. QED
    BY <1>4, <2>1, <2>2, <2>3
<1>6. rank \in Injection(D, D)
  BY <1>3, <1>5 DEF Injection, IsInjective
<1>7. rank \in Surjection(D, D)
  BY <1>1, <1>6, FS_Injection
<1>8. QED
  BY <1>3, <1>4, <1>5, <1>7 DEF Surjection
(* The story holds every event of the tale, each at its rank.              *)
LEMMA SortedIsOrdered ==
    ASSUME NEW tale \in Seq(Events)
    PROVE  /\ Sorted(tale) \in Seq(Events) /\ DOMAIN Sorted(tale) = DOMAIN tale
           /\ \A j \in DOMAIN tale : Sorted(tale)[RankOf(tale)[j]] = tale[j]
<1> DEFINE l == Len(tale)
           D == DOMAIN tale
           rank == RankOf(tale)
           place(k) == CHOOSE j \in D : rank[j] = k
           story == [k \in D |-> tale[place(k)]]
<1>1. Sorted(tale) = story
  BY DEF Sorted, RankOf, Ahead, Precedes
<1>2. l \in Nat /\ D = 1 .. l
  OBVIOUS
<1>3. /\ \A k \in D : \E j \in D : rank[j] = k
      /\ \A i, j \in D : rank[i] = rank[j] => i = j
      /\ \A j \in D : rank[j] \in D
  BY RanksAreOneToOne
<1> HIDE DEF rank
<1>4. \A k \in D : place(k) \in D /\ rank[place(k)] = k
  BY <1>3
<1>5. \A j \in D : place(rank[j]) = j
  BY <1>3, <1>4
<1> HIDE DEF place
<1>6. \A k \in D : story[k] = tale[place(k)] /\ story[k] \in Events
  BY <1>4
<1>7. story \in Seq(Events) /\ DOMAIN story = D
  BY <1>2, <1>6
<1>8. \A j \in D : story[rank[j]] = tale[j]
  BY <1>3, <1>5, <1>6
<1> HIDE DEF story
<1>9. QED
  BY <1>1, <1>7, <1>8 DEF rank

(* What was told of one side was told in the order of the story.           *)
LEMMA TellingOrder ==
    ASSUME NEW d, NEW k, Sound(d, k), NEW i \in DOMAIN d.events, NEW j \in DOMAIN d.events,
           d.events[i].side = d.events[j].side
    PROVE  i < j <=> Precedes(d.events, i, j)
  <1> DEFINE tale == d.events
  <1>1. tale \in Seq(Events) /\ \A h \in DOMAIN tale : h \in Nat /\ tale[h].bar \in Nat /\ tale[h].type \in Kinds
    <2>1. tale \in Seq(Events)
      BY DEF Sound, Replays
    <2>2. \A h \in DOMAIN tale : h \in Nat /\ tale[h] \in Events
      BY <2>1
    <2> QED BY <2>1, <2>2 DEF Events
  <1>2. ASSUME NEW g \in DOMAIN tale, NEW h \in DOMAIN tale, g < h, tale[g].side = tale[h].side
        PROVE  Precedes(tale, g, h)
    <2>1. tale[g].bar <= tale[h].bar
      BY <1>2 DEF Sound
    <2>2. tale[g].type \in Before(tale, h)
      <3>1. g \in 1 .. h - 1
        <4>1. DOMAIN tale = 1 .. Len(tale) /\ Len(tale) \in Nat
          BY <1>1
        <4> QED BY <1>1, <1>2, <4>1
      <3> QED BY <1>2, <3>1 DEF Before
    <2>3. Fits(tale[h].type, Before(tale, h))
      BY DEF Sound
    <2>4. Rank(tale[g]) <= Rank(tale[h]) /\ Rank(tale[g]) \in Int /\ Rank(tale[h]) \in Int
      <3> HIDE DEF tale
      <3>1. /\ tale[h].type # "trigger"
            /\ tale[g].type \in {"trigger", "target_1"}
            /\ tale[h].type = "target_1" => tale[g].type = "trigger"
        BY <2>2, <2>3 DEF Fits
      <3>2. tale[h].type \in Kinds
        BY <1>1
      <3> QED BY <3>1, <3>2 DEF Rank, Kinds, Endings
    <2>5. tale[g].bar \in Nat /\ tale[h].bar \in Nat
      BY <1>1
    <2> HIDE DEF tale
    <2> QED BY <1>2, <2>1, <2>4, <2>5 DEF Precedes
  <1>3. ~Precedes(tale, i, i) /\ (Precedes(tale, i, j) => ~Precedes(tale, j, i))
    BY <1>1, PrecedesIsOrder
  <1>4. i \in Nat /\ j \in Nat
    BY <1>1
  <1> HIDE DEF tale
  <1>5. i < j => Precedes(tale, i, j)
    BY <1>2 DEF tale
  <1>6. j < i => Precedes(tale, j, i)
    BY <1>2 DEF tale
  <1>7. i = j \/ i < j \/ j < i
    BY <1>4
  <1>8. Precedes(tale, i, j) => i < j
    BY <1>3, <1>6, <1>7
  <1> QED BY <1>5, <1>8 DEF tale

(* So each event of the story has the same events of its side before it.   *)
LEMMA StoryOrder ==
    ASSUME NEW d, NEW k, Sound(d, k)
    PROVE  LET story == Sorted(d.events)
           IN  /\ story \in Seq(Events) /\ DOMAIN story = DOMAIN d.events
               /\ \A h \in DOMAIN story :
                     /\ \E j \in DOMAIN d.events : story[h] = d.events[j]
                     /\ story[h].bar \in 1 .. k
                     /\ Fits(story[h].type, Before(story, h))
               /\ \A g, h \in DOMAIN story : g < h => story[g].bar <= story[h].bar
               /\ \A j \in DOMAIN d.events : \E h \in DOMAIN story : story[h] = d.events[j]
  <1> DEFINE tale == d.events
             story == Sorted(tale)
             rank == RankOf(tale)
             D == DOMAIN tale
  <1>1. /\ tale \in Seq(Events)
        /\ \A j \in D : tale[j].bar \in 1 .. k /\ Fits(tale[j].type, Before(tale, j))
    BY DEF Sound, Replays
  <1>2. D = 1 .. Len(tale) /\ Len(tale) \in Nat
    BY <1>1
  <1>3. story \in Seq(Events) /\ DOMAIN story = D /\ \A j \in D : story[rank[j]] = tale[j]
    BY <1>1, SortedIsOrdered
  <1>4. /\ rank \in [D -> D]
        /\ \A i, j \in D : Precedes(tale, i, j) => rank[i] < rank[j]
        /\ \A h \in D : \E j \in D : rank[j] = h
    BY <1>1, RanksAreOneToOne
  <1>5. \A i, j \in D : i # j => Precedes(tale, i, j) \/ Precedes(tale, j, i)
    BY <1>1, PrecedesIsOrder
  <1>6. \A i, j \in D : tale[i].side = tale[j].side => (i < j <=> Precedes(tale, i, j))
    BY TellingOrder
  <1>7. \A i, j \in D : rank[i] < rank[j] <=> Precedes(tale, i, j)
    <2> TAKE i, j \in D
    <2> HIDE DEF rank
    <2>1. rank[i] \in Int /\ rank[j] \in Int
      BY <1>2, <1>4
    <2>2. Precedes(tale, i, j) => rank[i] < rank[j]
      BY <1>4
    <2>3. CASE i = j
      BY <2>1, <2>2, <2>3
    <2>4. CASE i # j
      <3>1. Precedes(tale, j, i) => rank[j] < rank[i]
        BY <1>4
      <3> QED BY <1>5, <2>1, <2>2, <2>4, <3>1
    <2> QED BY <2>3, <2>4
  <1> HIDE DEF rank
  <1>8. ASSUME NEW j \in D PROVE Before(story, rank[j]) = Before(tale, j)
    <2> DEFINE here == {h \in 1 .. rank[j] - 1 : story[h].side = story[rank[j]].side}
               there == {i \in 1 .. j - 1 : tale[i].side = tale[j].side}
    <2>1. \A i : i \in there <=> i \in D /\ tale[i].side = tale[j].side /\ i < j
      BY <1>2
    <2>2. \A h : h \in here <=> h \in D /\ story[h].side = tale[j].side /\ h < rank[j]
      <3>1. rank[j] \in 1 .. Len(tale) /\ story[rank[j]].side = tale[j].side
        BY <1>2, <1>3, <1>4
      <3>2. \A h : h \in 1 .. rank[j] - 1 <=> h \in D /\ h < rank[j]
        BY <1>2, <3>1
      <3> QED BY <3>1, <3>2
    <2>3. \A i \in there : rank[i] \in here /\ story[rank[i]] = tale[i]
      BY <1>3, <1>4, <1>6, <1>7, <2>1, <2>2
    <2>4. \A h \in here : \E i \in there : rank[i] = h /\ story[h] = tale[i]
      <3> TAKE h \in here
      <3>1. PICK i \in D : rank[i] = h
        BY <1>4, <2>2
      <3>2. story[h] = tale[i]
        BY <1>3, <3>1
      <3>3. i < j
        BY <1>6, <1>7, <2>2, <3>1, <3>2
      <3> QED BY <2>1, <2>2, <3>1, <3>2, <3>3
    <2>5. Before(story, rank[j]) = {story[h].type : h \in here} /\ Before(tale, j) = {tale[i].type : i \in there}
      BY DEF Before
    <2> HIDE DEF here, there, story, tale
    <2> QED BY <2>3, <2>4, <2>5
  <1>9. ASSUME NEW h \in D
        PROVE  \E j \in D : story[h] = tale[j] /\ Before(story, h) = Before(tale, j)
    BY <1>3, <1>4, <1>8
  <1>10. ASSUME NEW g \in D, NEW h \in D, g < h
         PROVE  story[g].bar <= story[h].bar
    <2>1. PICK i \in D : rank[i] = g /\ story[g] = tale[i]
      BY <1>3, <1>4
    <2>2. PICK j \in D : rank[j] = h /\ story[h] = tale[j]
      BY <1>3, <1>4
    <2>3. Precedes(tale, i, j)
      BY <1>7, <1>10, <2>1, <2>2
    <2>4. tale[i].bar \in Nat /\ tale[j].bar \in Nat
      BY <1>1 DEF Events
    <2> HIDE DEF story, tale
    <2> QED BY <2>1, <2>2, <2>3, <2>4 DEF Precedes
  <1>11. \A j \in D : \E h \in D : story[h] = tale[j]
    BY <1>3, <1>4
  <1> HIDE DEF story
  <1>12. \A h \in DOMAIN story :
            /\ \E j \in D : story[h] = tale[j]
            /\ story[h].bar \in 1 .. k /\ Fits(story[h].type, Before(story, h))
    BY <1>1, <1>3, <1>9
  <1>13. \A g, h \in DOMAIN story : g < h => story[g].bar <= story[h].bar
    BY <1>3, <1>10
  <1> QED BY <1>3, <1>11, <1>12, <1>13 DEF story
-----------------------------------------------------------------------------
(* What is told stays sound, and a bar only adds to it.                    *)
TaleInv ==
    /\ Sound(told, n)
    /\ plan \in Plans /\ n <= MaxBars /\ wide \in [Sides -> BOOLEAN] /\ ended \in BOOLEAN
    /\ row.at = "open" => row.inside < Confirmations

LEMMA InTime == ASSUME NEW d, NEW k \in Nat, Sound(d, k) PROVE Sound(d, k + 1)
  <1>1. \A i \in DOMAIN d.events : d.events[i].bar \in 1 .. k + 1
    BY DEF Sound
  <1> QED BY <1>1 DEF Sound

LEMMA TaleStarts == Init => TaleInv
  <1> SUFFICES ASSUME Init PROVE TaleInv
    OBVIOUS
  <1>1. /\ told.side = [s \in Sides |-> Unmoved] /\ told.events = <<>> /\ told \in Replays
    BY DEF Init, NothingTold, Unmoved, Replays, States
  <1>2. \A s \in Sides : ~told.side[s].active /\ ~told.side[s].done /\ ~told.side[s].first
    BY <1>1 DEF Unmoved
  <1>3. DOMAIN told.events = {}
    BY <1>1
  <1>4. Sound(told, n)
    BY <1>1, <1>2, <1>3 DEF Sound, TypesOf, Live
  <1>5. row.at # "open" /\ n <= MaxBars
    BY PricesAreInts DEF Init, NoTrade
  <1> QED BY <1>4, <1>5 DEF Init, TaleInv

(* A bar adds to the tale, and the tale of a step stands.                  *)
LEMMA BarAdds ==
    ASSUME IInv, TaleInv, NEW b \in Bars, Bar(b)
    PROVE  Goes(told, told', n + 1)
  <1>1. n \in Nat /\ n + 1 \in Nat \ {0}
    BY DEF IInv, Given
  <1>2. Sound(told, n + 1)
    BY <1>1, InTime DEF TaleInv
  <1>3. told' = AfterBar(plan, told, b, n + 1)
    BY DEF Bar
  <1> QED BY <1>1, <1>2, <1>3, BarGoes

LEMMA InsideIsCounted ==
    ASSUME NEW f, NEW x \in Rows, NEW c, NEW k, x.at = "open" => x.inside < Confirmations
    PROVE  AfterCandle(f, x, c, k).at = "open" => AfterCandle(f, x, c, k).inside < Confirmations
  <1> DEFINE y == Entered(f, x, c, k)
             z == Exited(y, c, k)
             seen == Seen(y.side, c)
             within == IF k = y.entered THEN 0 ELSE IF seen.close < Edge(y.side) THEN y.inside + 1 ELSE 0
  <1>1. y.inside = x.inside /\ x.inside \in Nat
    BY DEF Entered, Rows
  <1>2. Confirmations \in Nat
    BY BacktestBounds
  <1>3. ~(y.at = "open") => z = y
    BY DEF Exited
  <1>4. y.at = "open" => z.at = "over" \/ (~(within >= Confirmations) /\ z.inside = within)
    <2>1. y.at = "open" /\ within >= Confirmations => z.at = "over"
      <3> USE DEF Exits
      <3> QED BY DEF Exited
    <2>2. y.at = "open" => z.at = "over" \/ z.inside = within
      BY DEF Exited, Exits
    <2> QED BY <2>1, <2>2
  <1>5. within \in Nat
    BY <1>1
  <1> HIDE DEF within
  <1>6. z.at = "open" => z.inside < Confirmations
    BY <1>2, <1>3, <1>4, <1>5
  <1> QED BY <1>6 DEF AfterCandle

LEMMA TaleSteps == IInv /\ TaleInv /\ [Next]_vars => TaleInv'
  <1> SUFFICES ASSUME IInv, TaleInv, [Next]_vars PROVE TaleInv'
    OBVIOUS
  <1>0. row \in Rows /\ n \in Nat
    BY DEF IInv, RowInv, Given
  <1>1. ASSUME NEW b \in Bars, Bar(b) PROVE TaleInv'
    <2>1. Sound(told', n + 1) /\ n' = n + 1
      BY <1>1, BarAdds DEF Goes, Bar
    <2>2. plan' \in Plans /\ ended' \in BOOLEAN
      BY <1>1 DEF TaleInv, Bar
    <2>3. n' <= MaxBars
      BY <1>0, <1>1, PricesAreInts DEF Bar
    <2>4. wide' \in [Sides -> BOOLEAN]
      BY <1>1 DEF Bar
    <2>5. row'.at = "open" => row'.inside < Confirmations
      BY <1>0, <1>1, InsideIsCounted DEF TaleInv, Bar
    <2>6. Sound(told', n')
      BY <2>1
    <2> QED BY <2>2, <2>3, <2>4, <2>5, <2>6 DEF TaleInv, Sound, Live
  <1>2. CASE CloseSession
    <2>1. row'.at = "over"
      BY <1>0, <1>2 DEF CloseSession, AtTheClose, Exits, Rows
    <2>2. UNCHANGED <<plan, told, n, wide>> /\ ended' \in BOOLEAN
      BY <1>2 DEF CloseSession
    <2> QED BY <2>1, <2>2 DEF TaleInv, Sound, Live
  <1>3. CASE UNCHANGED vars
    BY <1>3 DEF vars, TaleInv, Sound, Live
  <1> QED BY <1>1, <1>2, <1>3 DEF Next

LEMMA TaleAlways == Spec => [](IInv /\ TaleInv)
  <1>1. Init => IInv /\ TaleInv
    BY Start, TaleStarts
  <1>2. (IInv /\ TaleInv) /\ [Next]_vars => (IInv /\ TaleInv)'
    BY Steps, TaleSteps
  <1> QED BY <1>1, <1>2, PTL DEF Spec

-----------------------------------------------------------------------------
(* An event told between two of the other side finds that side under way.  *)
LEMMA StoryFacts ==
    ASSUME IInv, TaleInv
    PROVE  /\ Story \in Seq(Events)
           /\ \A h \in DOMAIN Story :
                 /\ \E j \in DOMAIN told.events : Story[h] = told.events[j]
                 /\ Story[h].bar \in 1 .. n
                 /\ Fits(Story[h].type, Before(Story, h))
           /\ \A g, h \in DOMAIN Story : g < h => Story[g].bar <= Story[h].bar
  BY StoryOrder DEF TaleInv, Story

LEMMA EventsAreLive ==
    ASSUME IInv, TaleInv, NEW h \in DOMAIN Story, NEW k \in Nat, Story[h].bar >= k,
           \/ \E g \in DOMAIN Story : g <= h /\ Story[g].side = Story[h].side /\ Story[g].bar <= k /\ Story[g].type = "trigger"
           \/ Story[h].bar = k
    PROVE  LiveAt(Story[h].side, k)
  <1> DEFINE s == Story[h].side
  <1>1. /\ \A g \in DOMAIN Story : g \in Nat /\ Story[g].bar \in Nat
        /\ DOMAIN Story = 1 .. Len(Story) /\ Len(Story) \in Nat
    BY StoryFacts DEF Events
  <1>2. PICK g \in DOMAIN Story : Story[g].side = s /\ Story[g].bar <= k /\ Story[g].type = "trigger"
    <2>1. CASE Story[h].bar = k
      <3>1. CASE Story[h].type = "trigger"
        BY <1>1, <2>1, <3>1
      <3>2. CASE Story[h].type # "trigger"
        <4>1. "trigger" \in Before(Story, h)
          BY <3>2, StoryFacts DEF Fits
        <4>2. PICK g \in 1 .. h - 1 : Story[g].side = s /\ Story[g].type = "trigger"
          BY <4>1 DEF Before
        <4>3. g \in DOMAIN Story /\ g < h
          BY <1>1, <4>2
        <4>4. Story[g].bar <= Story[h].bar
          BY <4>3, StoryFacts
        <4> QED BY <1>1, <2>1, <4>2, <4>3, <4>4
      <3> QED BY <3>1, <3>2
    <2>2. CASE \E g \in DOMAIN Story : g <= h /\ Story[g].side = s /\ Story[g].bar <= k /\ Story[g].type = "trigger"
      BY <2>2
    <2> QED BY <2>1, <2>2
  <1>3. Story[g].bar \in BarsOf(s, {"trigger"})
    <2>1. PICK j \in DOMAIN told.events : Story[g] = told.events[j]
      BY StoryFacts
    <2> QED BY <1>2, <2>1 DEF BarsOf
  <1>4. \E i \in DOMAIN told.events : told.events[i].side = s /\ told.events[i].bar >= k
    <2>1. PICK j \in DOMAIN told.events : Story[h] = told.events[j]
      BY StoryFacts
    <2> QED BY <2>1
  <1> QED BY <1>2, <1>3, <1>4 DEF LiveAt

(* While the sides are never under way at once, a trigger, what follows on *)
(* its side, and nothing of the other side between them.                   *)
LEMMA NothingBetween ==
    ASSUME IInv, TaleInv, ~BothLive, NEW g \in DOMAIN Story, NEW h \in DOMAIN Story, g < h,
           \/ Story[g].type = "trigger" /\ h = g + 1 /\ Story[h].type # "trigger"
           \/ \E j \in DOMAIN Story : h < j /\ Story[j].side = Story[g].side /\ Story[g].type = "trigger"
    PROVE  Story[h].side = Story[g].side
  <1> SUFFICES ASSUME Story[h].side # Story[g].side PROVE FALSE
    OBVIOUS
  <1>1. /\ \A i \in DOMAIN Story : i \in Nat /\ Story[i].bar \in Nat /\ Story[i].bar \in 1 .. n /\ Story[i].side \in Sides
        /\ DOMAIN Story = 1 .. Len(Story) /\ Len(Story) \in Nat
    <2>1. Story \in Seq(Events) /\ \A i \in DOMAIN Story : Story[i].bar \in 1 .. n
      BY StoryFacts
    <2>2. /\ DOMAIN Story = 1 .. Len(Story) /\ Len(Story) \in Nat
          /\ \A i \in DOMAIN Story : i \in Nat /\ Story[i] \in Events
      BY <2>1
    <2> QED BY <2>1, <2>2 DEF Events
  <1>2. \A r \in Sides : r = Story[g].side \/ r = Story[h].side
    BY <1>1 DEF Sides
  <1>3. CASE Story[g].type = "trigger" /\ h = g + 1 /\ Story[h].type # "trigger"
    <2> DEFINE k == Story[g].bar
    <2>1. k \in Nat /\ k \in 1 .. n /\ LiveAt(Story[g].side, k)
      BY <1>1, EventsAreLive
    <2>2. "trigger" \in Before(Story, h)
      BY <1>3, StoryFacts DEF Fits
    <2>3. PICK i \in 1 .. h - 1 : Story[i].side = Story[h].side /\ Story[i].type = "trigger"
      BY <2>2 DEF Before
    <2>4. i \in DOMAIN Story /\ i < g
      <3>1. i # g
        BY <2>3
      <3> QED BY <1>1, <1>3, <2>3, <3>1
    <2>5. Story[i].bar <= k /\ Story[h].bar >= k
      BY <1>1, <2>4, StoryFacts
    <2>6. LiveAt(Story[h].side, k)
      BY <1>1, <2>1, <2>3, <2>4, <2>5, EventsAreLive
    <2> QED BY <1>2, <2>1, <2>6 DEF BothLive
  <1>4. ASSUME NEW j \in DOMAIN Story, h < j, Story[j].side = Story[g].side, Story[g].type = "trigger"
        PROVE  FALSE
    <2> DEFINE k == Story[h].bar
    <2>1. k \in Nat /\ k \in 1 .. n /\ LiveAt(Story[h].side, k)
      BY <1>1, EventsAreLive
    <2>2. Story[g].bar <= k /\ Story[j].bar >= k
      BY <1>1, <1>4, StoryFacts
    <2>3. LiveAt(Story[j].side, k)
      BY <1>1, <1>4, <2>1, <2>2, EventsAreLive
    <2> QED BY <1>2, <1>4, <2>1, <2>3 DEF BothLive
  <1> QED BY <1>3, <1>4

LEMMA MovesAreOwn == IInv /\ TaleInv => OwnSideWhenAlone
  <1> SUFFICES ASSUME IInv, TaleInv, ~BothLive
               PROVE  MissedMoves(told.events) =
                         {[trigger |-> Story[p[1]], end |-> Story[p[2]]] :
                             p \in {q \in (DOMAIN Story) \X (DOMAIN Story) :
                                       Story[q[1]].type = "trigger" /\ Follows(q[1], q[2])}}
    BY DEF OwnSideWhenAlone
  <1> DEFINE D == DOMAIN Story
             move(g, h) == [trigger |-> Story[g], end |-> Story[h]]
             said == {i \in 1 .. Len(Story) - 1 : Story[i].type = "trigger" /\ Story[i + 1].type # "trigger"}
             pairs == {q \in D \X D : Story[q[1]].type = "trigger" /\ Follows(q[1], q[2])}
  <1>1. /\ D = 1 .. Len(Story) /\ Len(Story) \in Nat
        /\ \A i \in D : Story[i].side \in Sides
        /\ \A i \in D : Fits(Story[i].type, Before(Story, i))
    <2>1. Story \in Seq(Events)
      BY StoryFacts
    <2>2. D = 1 .. Len(Story) /\ Len(Story) \in Nat /\ \A i \in D : Story[i] \in Events
      BY <2>1
    <2> QED BY <2>2, StoryFacts DEF Events
  <1>2. MissedMoves(told.events) = {move(k, k + 1) : k \in said}
    BY DEF MissedMoves, Story
  <1>3. ASSUME NEW k \in said PROVE <<k, k + 1>> \in pairs
    <2>1. k \in D /\ k + 1 \in D /\ k < k + 1 /\ Story[k].type = "trigger" /\ Story[k + 1].type # "trigger"
      BY <1>1
    <2>2. Story[k + 1].side = Story[k].side
      BY <2>1, NothingBetween
    <2>3. Follows(k, k + 1)
      BY <1>1, <2>1, <2>2 DEF Follows
    <2> QED BY <2>1, <2>3
  <1>4. ASSUME NEW q \in pairs PROVE q[1] \in said /\ q[2] = q[1] + 1
    <2> DEFINE g == q[1]
               j == q[2]
    <2>1. g \in D /\ j \in D /\ Story[g].type = "trigger" /\ Follows(g, j)
      OBVIOUS
    <2> HIDE DEF g, j
    <2>2. j = g + 1
      <3> SUFFICES ASSUME j # g + 1 PROVE FALSE
        OBVIOUS
      <3>1. g + 1 \in D /\ g < g + 1 /\ g + 1 < j /\ g + 1 \in g + 1 .. j - 1
        BY <1>1, <2>1 DEF Follows
      <3>2. Story[j].side = Story[g].side
        BY <2>1 DEF Follows
      <3>3. Story[g + 1].side = Story[g].side
        BY <2>1, <3>1, <3>2, NothingBetween
      <3> QED BY <2>1, <3>1, <3>3 DEF Follows
    <2>3. Story[j].type # "trigger"
      <3>1. g \in 1 .. j - 1 /\ Story[g].side = Story[j].side
        BY <1>1, <2>1 DEF Follows
      <3>2. Before(Story, j) # {}
        BY <3>1 DEF Before
      <3> QED BY <1>1, <2>1, <3>2 DEF Fits
    <2>4. g \in 1 .. Len(Story) - 1
      BY <1>1, <2>1, <2>2
    <2> QED BY <2>1, <2>2, <2>3, <2>4 DEF g, j
  <1> HIDE DEF said, pairs
  <1>5. {move(k, k + 1) : k \in said} = {move(p[1], p[2]) : p \in pairs}
    <2>1. \A k \in said : \E p \in pairs : p[1] = k /\ p[2] = k + 1
      BY <1>3
    <2> HIDE DEF move
    <2> QED BY <1>4, <2>1
  <1> QED BY <1>2, <1>5 DEF pairs, D

LEMMA StoryIsWellFormed == IInv /\ TaleInv => StoryWellFormed
  <1> SUFFICES ASSUME IInv, TaleInv PROVE StoryWellFormed
    OBVIOUS
  <1>1. told \in Replays /\ told.events \in Seq(Events)
    BY DEF IInv, StoryInv, Replays
  <1>2. ASSUME NEW j \in DOMAIN Story
        PROVE  Fits(Story[j].type, Before(Story, j)) /\ (Story[j].type \in Endings => told.side[Story[j].side].done)
    <2>1. PICK i \in DOMAIN told.events : Story[j] = told.events[i]
      BY <1>2, StoryFacts
    <2>2. told.events[i].side \in Sides /\ told.events[i].type \in TypesOf(told.events, told.events[i].side)
      <3>1. told.events[i] \in Events
        BY <1>1
      <3> QED BY <3>1 DEF Events, TypesOf
    <2> DEFINE s == told.events[i].side
    <2>3. Live(told, s)
      BY <2>2 DEF TaleInv, Sound
    <2>4. told.side[s].active => told.events[i].type \in {"trigger", "target_1"}
      BY <2>2 DEF TaleInv, Sound
    <2>5. told.events[i].type \in Endings => told.side[s].done
      BY <2>3, <2>4 DEF Live, Endings
    <2> QED BY <1>2, <2>1, <2>5, StoryFacts
  <1>3. ASSUME NEW s \in Sides, told.side[s].active
        PROVE  BarsOf(s, {"trigger"}) # {} /\ ~told.side[s].done
    <2>1. "trigger" \in TypesOf(told.events, s) /\ ~told.side[s].done
      BY <1>3 DEF TaleInv, Sound
    <2> QED BY <2>1 DEF TypesOf, BarsOf
  <1> QED BY <1>2, <1>3 DEF StoryWellFormed

LEMMA DayTypes == IInv /\ TaleInv => TypeOK
  <1> SUFFICES ASSUME IInv, TaleInv PROVE TypeOK
    OBVIOUS
  <1>1. plan \in Plans /\ filters \in Filters /\ n \in 0 .. MaxBars /\ ended \in BOOLEAN /\ wide \in [Sides -> BOOLEAN]
    BY PricesAreInts DEF IInv, Given, TaleInv
  <1>2. told.side \in [Sides -> [active : BOOLEAN, first : BOOLEAN, done : BOOLEAN]] /\ told.cut = FALSE
    BY DEF IInv, StoryInv, Replays, States
  <1>3. /\ row.at \in {"waiting", "open", "over"}
        /\ row.at = "waiting" => row = NoTrade /\ ~ended
        /\ row.at = "open" => row.side \in Sides /\ row.exit = "none" /\ row.inside < Confirmations
    BY DEF IInv, RowInv, Rows, Open, TaleInv
  <1> QED BY <1>1, <1>2, <1>3 DEF TypeOK

(* The story of a day is one a trader could have lived: a side's trigger,  *)
(* then its targets and its one ending; while the sides are never under    *)
(* way at once, a missed move pairs a trigger with what it led to          *)
(* (build_completed_missed_moves).                                         *)
THEOREM StoryStaysTrue == Spec => []StoryIsTrue
  <1>1. IInv /\ TaleInv => StoryIsTrue
    BY MovesAreOwn, StoryIsWellFormed, DayTypes DEF StoryIsTrue
  <1> QED BY <1>1, TaleAlways, PTL

-----------------------------------------------------------------------------
(* What is of a later bar is ranked behind what was told before.           *)
LEMMA RanksStand ==
    ASSUME NEW d, NEW e, NEW k \in Nat, Sound(d, k), Sound(e, k + 1), Stands(d, e, k + 1), NEW j \in DOMAIN d.events
    PROVE  RankOf(e.events)[j] = RankOf(d.events)[j]
  <1>1. d.events \in Seq(Events) /\ e.events \in Seq(Events)
    BY DEF Sound, Replays
  <1>2. /\ DOMAIN d.events \subseteq DOMAIN e.events
        /\ \A i \in DOMAIN d.events : e.events[i] = d.events[i] /\ d.events[i].bar \in 1 .. k
        /\ \A i \in DOMAIN e.events \ DOMAIN d.events : e.events[i].bar = k + 1
    BY DEF Stands, Sound
  <1>3. Ahead(e.events, j) = Ahead(d.events, j)
    <2>1. \A i \in DOMAIN e.events \ DOMAIN d.events : ~Precedes(e.events, i, j)
      BY <1>2 DEF Precedes
    <2>2. \A i \in DOMAIN d.events : Precedes(e.events, i, j) <=> Precedes(d.events, i, j)
      BY <1>2 DEF Precedes
    <2> QED BY <1>2, <2>1, <2>2 DEF Ahead
  <1> QED BY <1>2, <1>3 DEF RankOf

LEMMA StoryGrows ==
    ASSUME NEW d, NEW e, NEW k \in Nat, Sound(d, k), Sound(e, k + 1), Stands(d, e, k + 1)
    PROVE  SubSeq(Sorted(e.events), 1, Len(Sorted(d.events))) = Sorted(d.events)
  <1> DEFINE old == Sorted(d.events)
             new == Sorted(e.events)
             l == Len(old)
  <1>1. d.events \in Seq(Events) /\ e.events \in Seq(Events)
    BY DEF Sound, Replays
  <1>2. /\ old \in Seq(Events) /\ DOMAIN old = DOMAIN d.events
        /\ new \in Seq(Events) /\ DOMAIN new = DOMAIN e.events
        /\ \A j \in DOMAIN d.events : old[RankOf(d.events)[j]] = d.events[j]
        /\ \A j \in DOMAIN e.events : new[RankOf(e.events)[j]] = e.events[j]
    BY <1>1, SortedIsOrdered
  <1>3. \A h \in DOMAIN d.events : \E j \in DOMAIN d.events : RankOf(d.events)[j] = h
    BY <1>1, RanksAreOneToOne
  <1> HIDE DEF old, new
  <1>4. l \in Nat /\ DOMAIN old = 1 .. l /\ 1 .. l \subseteq 1 .. Len(new) /\ Len(new) \in Nat
    BY <1>2 DEF Stands
  <1>5. ASSUME NEW h \in 1 .. l PROVE new[h] = old[h]
    <2>1. PICK j \in DOMAIN d.events : RankOf(d.events)[j] = h
      BY <1>2, <1>3, <1>4
    <2>2. RankOf(e.events)[j] = h /\ j \in DOMAIN e.events /\ e.events[j] = d.events[j]
      BY <2>1, RanksStand DEF Stands
    <2> QED BY <1>2, <2>1, <2>2
  <1>6. l <= Len(new)
    BY <1>4
  <1>7. /\ SubSeq(new, 1, l) \in Seq(Events) /\ Len(SubSeq(new, 1, l)) = l
        /\ \A h \in 1 .. l : SubSeq(new, 1, l)[h] = new[h]
    BY <1>2, <1>4, <1>6
  <1> HIDE DEF l
  <1>8. SubSeq(new, 1, l) = old
    <2>1. Len(old) = l
      BY DEF l
    <2> QED BY <1>2, <1>5, <1>7, <2>1
  <1> QED BY <1>8 DEF old, new, l

(* A later bar only adds to the story: what a refresh stored during the    *)
(* day is still told at its end (build_replay_events).                     *)
THEOREM StoryOnlyGrows == Spec => StoryStands
  <1>1. IInv /\ TaleInv /\ [Next]_vars => [SubSeq(Story', 1, Len(Story)) = Story]_told
    <2> SUFFICES ASSUME IInv, TaleInv, [Next]_vars, told' # told PROVE SubSeq(Story', 1, Len(Story)) = Story
      OBVIOUS
    <2>1. PICK b \in Bars : Bar(b)
      BY DEF Next, CloseSession, vars
    <2>2. n \in Nat /\ Sound(told, n)
      BY DEF IInv, Given, TaleInv
    <2>3. Sound(told', n + 1) /\ Stands(told, told', n + 1)
      BY <2>1, BarAdds DEF Goes
    <2> QED BY <2>2, <2>3, StoryGrows DEF Story
  <1> QED BY <1>1, TaleAlways, PTL DEF Spec, StoryStands
=============================================================================
