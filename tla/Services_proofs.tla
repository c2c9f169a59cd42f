---------------------------- MODULE Services_proofs ----------------------------
(***************************************************************************)
(* Proofs about the components around the orchestrator: an automation      *)
(* fires once for a due time, a browser tells the story of a run once and  *)
(* whole, a delivery wakes a run once, each component runs among the       *)
(* others as it does alone, and all of them keep their types.              *)
(***************************************************************************)
EXTENDS Services, Workspaces_proofs, ToolsChannel_proofs, Persistence_proofs, Edges_proofs,
        FiniteSetTheorems, TLAPS

-----------------------------------------------------------------------------
(* Automations: a tick has copied what it goes through, and nobody else    *)
(* takes up an automation that it has in hand, or it is excused.           *)

Scheduled == [there : BOOLEAN, on : BOOLEAN, every : Every, next : Nat, last : Nat]
Copied == [id : AutoIds, every : Every, next : Nat, last : Nat]
FiredRun == [auto : AutoIds, due : Nat, status : FiredStatus]
TickRec == [at : Nat, todo : SUBSET Copied, pc : {"asks", "setup"}, run : Nat]

RunsOf(runs, a) == {p \in DOMAIN runs : runs[p].auto = a}
OwnRun(runs, p, a) == p # 0 => p \in DOMAIN runs /\ runs[p].auto = a
AutosTyped(as, runs, at) ==
  /\ at \in Nat /\ as \in [AutoIds -> Scheduled] /\ runs \in Seq(FiredRun)
  /\ \A a \in AutoIds : OwnRun(runs, as[a].last, a)
  /\ \A p \in DOMAIN runs : runs[p].due <= at
\* A tick, with what it copied, one item for an automation.
InSetup(tick, d) == tick.pc = "setup" /\ d = NextOf(tick.todo)
ItemsTyped(tick, runs, at) ==
  /\ tick \in TickRec /\ tick.at <= at
  /\ \A d \in tick.todo : d.next <= tick.at /\ OwnRun(runs, d.last, d.id)
  /\ \A d, e \in tick.todo : d.id = e.id => d = e
TickTyped(tick, runs, at) ==
  /\ ItemsTyped(tick, runs, at)
  /\ \A d \in tick.todo : InSetup(tick, d) => tick.run # 0 /\ OwnRun(runs, tick.run, d.id)

\* A due time and a worker for each run of an automation.
Separate(runs, a) ==
  \A p, q \in RunsOf(runs, a) : p # q =>
    runs[p].due # runs[q].due /\ ~(runs[p].status \in Busy /\ runs[q].status \in Busy)
\* Every due time so far is before `next`, and only the run `last` may work.
Settled(runs, a, next, last) ==
  \A p \in RunsOf(runs, a) : runs[p].due < next /\ (runs[p].status \in Busy => p = last)
Idle(runs, a, item) == item.there => Settled(runs, a, item.next, item.last)
\* An item that a tick has yet to come to, that it asks about, and that it sets a run up for.
Waits(as, runs, d) == d.last = as[d.id].last /\ Settled(runs, d.id, d.next, d.last)
InHand(as, runs, tick, d) ==
  IF InSetup(tick, d) THEN Settled(runs, d.id, tick.at + 1, tick.run)
  ELSE Waits(as, runs, d) /\ (d = NextOf(tick.todo) => ~PreviousBusy(d, runs))
SetUp(ts, a) == \E t \in DOMAIN ts : \E d \in ts[t].todo : d.id = a /\ InSetup(ts[t], d)
Has(tick, a) == \E d \in tick.todo : d.id = a
World(as, ts, runs, a) ==
  /\ Separate(runs, a)
  /\ \A t, u \in DOMAIN ts : Has(ts[t], a) /\ Has(ts[u], a) => t = u
  /\ \A t \in DOMAIN ts : \A d \in ts[t].todo : d.id = a => InHand(as, runs, ts[t], d)
  /\ Idle(runs, a, as[a]) \/ SetUp(ts, a)

Typed ==
  /\ AutosTyped(autos, fired, clock)
  /\ DOMAIN autoPast = {"ticks", "edits", "excused"} /\ autoPast.ticks \in Nat
  /\ DOMAIN ticks \subseteq 1..autoPast.ticks
  /\ \A t \in DOMAIN ticks : TickTyped(ticks[t], fired, clock) /\ ticks[t].todo # {}
AInv == Typed /\ \A a \in AutoIds \ autoPast.excused : World(autos, ticks, fired, a)

-----------------------------------------------------------------------------
LEMMA LeastId ==
  ASSUME NEW todo, todo # {}, \A d \in todo : d.id \in Nat
  PROVE  NextOf(todo) \in todo /\ \A e \in todo : NextOf(todo).id <= e.id
<1>1. \E d \in todo : \A e \in todo : d.id <= e.id
  <2>. DEFINE ids == {d.id : d \in todo}
  <2>1. ids \subseteq Nat /\ ids # {}
    OBVIOUS
  <2>2. PICK n \in ids : \A m \in ids : n <= m
    <3>. HIDE DEF ids
    <3>. QED BY <2>1, LeastNat
  <2>. QED BY <2>2
<1>. QED BY <1>1 DEF NextOf

\* The loop: what is left of the list, and what is put off.
Rest(tick, runs) == {d \in tick.todo : \E s \in tick.todo : s.id <= d.id /\ ~PreviousBusy(s, runs)}
PutOff(as, tick, skipped) ==
  [a \in AutoIds |->
     IF as[a].there /\ \E d \in skipped : d.id = a
     THEN Postponed(as[a], CHOOSE d \in skipped : d.id = a, tick.at) ELSE as[a]]
Later(tick, rest) == [tick EXCEPT !.todo = rest, !.pc = "asks", !.run = 0]

LEMMA LoopIs ==
  ASSUME NEW t, NEW tick, NEW as, NEW runs, Loop(t, tick, as, runs)
  PROVE  LET rest == Rest(tick, runs)
         IN /\ autos' = PutOff(as, tick, tick.todo \ rest) /\ fired' = runs
            /\ DOMAIN ticks' = (DOMAIN ticks \cup {t}) \ (IF rest = {} THEN {t} ELSE {})
            /\ \A u \in DOMAIN ticks' : ticks'[u] = IF u = t THEN Later(tick, rest) ELSE ticks[u]
BY DEF Loop, Rest, PutOff, Later

Shifted(new, was, tick, skipped, a) ==
  /\ new \in Scheduled /\ new.there = was.there /\ new.last = was.last
  /\ new = was \/ ((\E d \in skipped : d.id = a) /\ new.next > tick.at)

\* An automation that is put off is due again after the moment of the tick.
LEMMA PutOffAuto ==
  ASSUME NEW as \in [AutoIds -> Scheduled], NEW tick \in TickRec, NEW skipped \in SUBSET tick.todo,
         NEW a \in AutoIds
  PROVE  Shifted(PutOff(as, tick, skipped)[a], as[a], tick, skipped, a)
<1>1. PutOff(as, tick, skipped)[a]
        = IF as[a].there /\ \E d \in skipped : d.id = a
          THEN Postponed(as[a], CHOOSE d \in skipped : d.id = a, tick.at) ELSE as[a]
  BY DEF PutOff
<1>2. as[a] \in Scheduled
  OBVIOUS
<1>3. CASE as[a].there /\ \E d \in skipped : d.id = a
  <2>1. PICK d \in skipped : d = (CHOOSE x \in skipped : x.id = a) /\ d.id = a
    BY <1>3
  <2>2. d.every \in Every /\ tick.at \in Nat
    BY <2>1 DEF TickRec, Copied
  <2>3. PutOff(as, tick, skipped)[a] = [as[a] EXCEPT !.next = tick.at + d.every]
    BY <1>1, <1>3, <2>1 DEF Postponed, NextAt
  <2>4. tick.at + d.every \in Nat /\ tick.at + d.every > tick.at
    BY <2>2 DEF Every
  <2>. QED BY <1>2, <1>3, <2>3, <2>4 DEF Scheduled, Shifted
<1>4. CASE ~(as[a].there /\ \E d \in skipped : d.id = a)
  BY <1>1, <1>2, <1>4 DEF Shifted
<1>. QED BY <1>3, <1>4

LEMMA LoopTyped ==
  ASSUME NEW t, NEW tick, NEW as, NEW runs, NEW at,
         AutosTyped(as, runs, at), ItemsTyped(tick, runs, at), Loop(t, tick, as, runs),
         \A u \in DOMAIN ticks \ {t} : TickTyped(ticks[u], runs, at) /\ ticks[u].todo # {}
  PROVE  /\ AutosTyped(autos', runs, at) /\ fired' = runs
         /\ DOMAIN ticks' \subseteq DOMAIN ticks \cup {t}
         /\ \A u \in DOMAIN ticks' : TickTyped(ticks'[u], runs, at) /\ ticks'[u].todo # {}
<1>. DEFINE rest == Rest(tick, runs)
            late == Later(tick, rest)
<1>1. /\ autos' = PutOff(as, tick, tick.todo \ rest) /\ fired' = runs
      /\ DOMAIN ticks' = (DOMAIN ticks \cup {t}) \ (IF rest = {} THEN {t} ELSE {})
      /\ \A u \in DOMAIN ticks' : ticks'[u] = IF u = t THEN late ELSE ticks[u]
  BY LoopIs
<1>2. rest \subseteq tick.todo /\ tick \in TickRec
  BY DEF Rest, ItemsTyped
<1>3. late \in TickRec /\ late.at = tick.at /\ late.todo = rest /\ late.pc = "asks"
  BY <1>2 DEF Later, TickRec
<1>. HIDE DEF rest, late
<1>4. TickTyped(late, runs, at)
  <2>1. ItemsTyped(late, runs, at)
    BY <1>2, <1>3 DEF ItemsTyped
  <2>. QED BY <1>3, <2>1 DEF TickTyped, InSetup
<1>5. AutosTyped(autos', runs, at)
  <2>1. as \in [AutoIds -> Scheduled]
    BY DEF AutosTyped
  <2>2. \A a \in AutoIds : autos'[a] \in Scheduled /\ autos'[a].last = as[a].last
    <3>1. TAKE a \in AutoIds
    <3>2. Shifted(autos'[a], as[a], tick, tick.todo \ rest, a)
      BY <1>1, <1>2, <2>1, PutOffAuto
    <3>. QED BY <3>2 DEF Shifted
  <2>3. autos' \in [AutoIds -> Scheduled]
    BY <1>1, <2>2 DEF PutOff
  <2>. QED BY <2>2, <2>3 DEF AutosTyped
<1>6. t \in DOMAIN ticks' => rest # {}
  BY <1>1
<1>. QED BY <1>1, <1>3, <1>4, <1>5, <1>6

\* Before the loop goes on: the automation is at rest, or another tick has it in hand.
DueBefore(as, runs, t, tick, a) ==
  /\ Separate(runs, a)
  /\ \A u, v \in DOMAIN ticks \ {t} : Has(ticks[u], a) /\ Has(ticks[v], a) => u = v
  /\ \A u \in DOMAIN ticks \ {t} : Has(ticks[u], a) => ~Has(tick, a)
  /\ \A u \in DOMAIN ticks \ {t} : \A d \in ticks[u].todo : d.id = a => InHand(as, runs, ticks[u], d)
  /\ \A d \in tick.todo : d.id = a => Waits(as, runs, d)
  /\ \/ Idle(runs, a, as[a])
     \/ \E u \in DOMAIN ticks \ {t} : \E d \in ticks[u].todo : d.id = a /\ InSetup(ticks[u], d)

LEMMA LoopWorld ==
  ASSUME NEW t, NEW tick, NEW as, NEW runs, NEW at, NEW a \in AutoIds,
         AutosTyped(as, runs, at), ItemsTyped(tick, runs, at), Loop(t, tick, as, runs),
         DueBefore(as, runs, t, tick, a)
  PROVE  World(autos', ticks', runs, a)
<1>. DEFINE rest == Rest(tick, runs)
            late == Later(tick, rest)
<1>1. /\ autos' = PutOff(as, tick, tick.todo \ rest)
      /\ DOMAIN ticks' = (DOMAIN ticks \cup {t}) \ (IF rest = {} THEN {t} ELSE {})
      /\ \A u \in DOMAIN ticks' : ticks'[u] = IF u = t THEN late ELSE ticks[u]
  BY LoopIs
<1>2. rest \subseteq tick.todo /\ tick \in TickRec /\ as \in [AutoIds -> Scheduled]
  BY DEF Rest, ItemsTyped, AutosTyped
<1>3. late \in TickRec /\ late.at = tick.at /\ late.todo = rest /\ late.pc = "asks"
  BY <1>2 DEF Later, TickRec
<1>4. \A d \in rest : d = NextOf(rest) => ~PreviousBusy(d, runs)
  <2>1. SUFFICES ASSUME NEW d \in rest, d = NextOf(rest) PROVE ~PreviousBusy(d, runs)
    OBVIOUS
  <2>2. \A e \in tick.todo : e.id \in Nat
    BY <1>2 DEF TickRec, Copied, AutoIds
  <2>3. PICK s \in tick.todo : s.id <= d.id /\ ~PreviousBusy(s, runs)
    BY DEF Rest
  <2>4. s \in rest
    BY <2>2, <2>3 DEF Rest
  <2>5. d.id <= s.id
    <3>. HIDE DEF rest
    <3>. QED BY <1>2, <2>1, <2>2, <2>4, LeastId
  <2>6. s = d
    BY <1>2, <2>2, <2>3, <2>5 DEF ItemsTyped
  <2>. QED BY <2>3, <2>6
<1>. HIDE DEF rest, late
<1>s. \A b \in AutoIds : Shifted(autos'[b], as[b], tick, tick.todo \ rest, b)
  BY <1>1, <1>2, PutOffAuto
<1>5. \A b \in AutoIds : autos'[b].last = as[b].last
  BY <1>s DEF Shifted
<1>6. ASSUME NEW d, d.id = a, Waits(as, runs, d) PROVE Waits(autos', runs, d)
  BY <1>5, <1>6 DEF Waits
<1>7. ASSUME NEW u \in DOMAIN ticks', NEW d \in ticks'[u].todo, d.id = a
      PROVE  InHand(autos', runs, ticks'[u], d)
  <2>1. CASE u = t
    <3>1. ticks'[u] = late /\ d \in rest /\ d \in tick.todo
      BY <1>1, <1>2, <1>3, <1>7, <2>1
    <3>2. Waits(autos', runs, d)
      BY <1>6, <1>7, <3>1 DEF DueBefore
    <3>3. ~InSetup(late, d)
      BY <1>3 DEF InSetup
    <3>. QED BY <1>3, <1>4, <3>1, <3>2, <3>3 DEF InHand
  <2>2. CASE u # t
    <3>1. u \in DOMAIN ticks \ {t} /\ ticks'[u] = ticks[u]
      BY <1>1, <2>2
    <3>2. InHand(as, runs, ticks[u], d)
      BY <1>7, <3>1 DEF DueBefore
    <3>3. ~InSetup(ticks[u], d) => Waits(autos', runs, d)
      BY <1>6, <1>7, <3>2 DEF InHand
    <3>. QED BY <3>1, <3>2, <3>3 DEF InHand
  <2>. QED BY <2>1, <2>2
<1>8. \A u, v \in DOMAIN ticks' : Has(ticks'[u], a) /\ Has(ticks'[v], a) => u = v
  <2>1. Has(late, a) => Has(tick, a)
    BY <1>2, <1>3 DEF Has
  <2>. QED BY <1>1, <2>1 DEF DueBefore
<1>9. Idle(runs, a, as[a]) => Idle(runs, a, autos'[a])
  <2>1. SUFFICES ASSUME Idle(runs, a, as[a]), autos'[a].there PROVE Settled(runs, a, autos'[a].next, autos'[a].last)
    BY DEF Idle
  <2>2. /\ autos'[a].last = as[a].last /\ as[a].there
        /\ autos'[a] = as[a] \/ (autos'[a].next > tick.at /\ \E d \in tick.todo : d.id = a)
        /\ autos'[a].next \in Nat
    BY <1>s, <2>1 DEF Scheduled, Shifted
  <2>3. CASE autos'[a] = as[a]
    BY <2>1, <2>2, <2>3 DEF Idle
  <2>4. CASE autos'[a].next > tick.at /\ \E d \in tick.todo : d.id = a
    <3>1. PICK d \in tick.todo : d.id = a
      BY <2>4
    <3>2. Settled(runs, a, d.next, d.last) /\ d.next <= tick.at /\ d.next \in Nat /\ d.last = as[a].last /\ tick.at \in Nat
      BY <1>2, <3>1 DEF DueBefore, Waits, ItemsTyped, TickRec, Copied
    <3>3. \A p \in RunsOf(runs, a) : runs[p].due \in Nat
      <4>1. runs \in Seq(FiredRun)
        BY DEF AutosTyped
      <4>2. \A p \in DOMAIN runs : runs[p] \in FiredRun
        BY <4>1
      <4>. QED BY <4>2 DEF FiredRun, RunsOf
    <3>4. PICK n \in Nat : n = autos'[a].next
      BY <2>2
    <3>5. tick.at < n /\ d.next < n
      BY <2>4, <3>2, <3>4
    <3>6. \A p \in RunsOf(runs, a) : runs[p].due < n
      <4>1. TAKE p \in RunsOf(runs, a)
      <4>2. PICK was \in Nat, m \in Nat : was = runs[p].due /\ m = d.next
        BY <3>2, <3>3
      <4>3. was < m
        BY <3>2, <4>2 DEF Settled
      <4>4. m < n
        BY <3>5, <4>2
      <4>5. was < n
        BY <4>3, <4>4
      <4>. QED BY <4>2, <4>5
    <3>. QED BY <2>2, <3>2, <3>4, <3>6 DEF Settled
  <2>. QED BY <2>2, <2>3, <2>4
<1>10. Idle(runs, a, autos'[a]) \/ SetUp(ticks', a)
  <2>1. CASE Idle(runs, a, as[a])
    BY <1>9, <2>1
  <2>2. ASSUME NEW u \in DOMAIN ticks \ {t}, NEW d \in ticks[u].todo, d.id = a, InSetup(ticks[u], d)
        PROVE  SetUp(ticks', a)
    <3>1. u \in DOMAIN ticks' /\ ticks'[u] = ticks[u]
      BY <1>1
    <3>. QED BY <2>2, <3>1 DEF SetUp
  <2>. QED BY <2>1, <2>2 DEF DueBefore
<1>11. Separate(runs, a)
  BY DEF DueBefore
<1>. QED BY <1>7, <1>8, <1>10, <1>11 DEF World

-----------------------------------------------------------------------------
(* The steps. *)

LEMMA AInit == AutoInit => AInv
<1>. SUFFICES ASSUME AutoInit PROVE AInv
  OBVIOUS
<1>1. /\ autos = [a \in AutoIds |-> [there |-> TRUE, on |-> TRUE, every |-> 1, next |-> 1, last |-> 0]]
      /\ DOMAIN ticks = {} /\ fired = <<>> /\ clock = 0
      /\ autoPast = [ticks |-> 0, edits |-> 0, excused |-> {}]
  BY DEF AutoInit
<1>2. \A a \in AutoIds : autos[a] \in Scheduled /\ autos[a].last = 0
  BY <1>1 DEF Scheduled, Every
<1>3. autos \in [AutoIds -> Scheduled] /\ fired \in Seq(FiredRun)
  BY <1>1, <1>2
<1>4. Typed
  BY <1>1, <1>2, <1>3 DEF Typed, AutosTyped, OwnRun
<1>5. \A a \in AutoIds : RunsOf(fired, a) = {}
  BY <1>1 DEF RunsOf
<1>6. \A a \in AutoIds : World(autos, ticks, fired, a)
  BY <1>1, <1>5 DEF World, Separate, Idle, Settled
<1>. QED BY <1>4, <1>6 DEF AInv

\* A step that starts or moves no run and takes up nothing.
LEMMA AFrame ==
  ASSUME AInv, fired' = fired, ticks' = ticks, clock' \in Nat, clock <= clock',
         autos' \in [AutoIds -> Scheduled], DOMAIN autoPast' = DOMAIN autoPast,
         autoPast'.ticks = autoPast.ticks, autoPast.excused \subseteq autoPast'.excused,
         \A a \in AutoIds : /\ autos'[a].last = autos[a].last
                            /\ autos'[a].there => autos[a].there
                            /\ \/ autos'[a].next = autos[a].next
                               \/ autos'[a].next > clock
  PROVE  AInv'
<1>1. AutosTyped(autos, fired, clock) /\ clock \in Nat /\ fired \in Seq(FiredRun)
  BY DEF AInv, Typed, AutosTyped
<1>0. \A p \in DOMAIN fired : fired[p].due \in Nat /\ fired[p].due <= clock
  <2>1. \A p \in DOMAIN fired : fired[p] \in FiredRun /\ fired[p].due <= clock
    BY <1>1 DEF AutosTyped
  <2>. QED BY <2>1 DEF FiredRun
<1>2. AutosTyped(autos', fired, clock')
  BY <1>0, <1>1 DEF AutosTyped
<1>3. ASSUME NEW t \in DOMAIN ticks PROVE TickTyped(ticks[t], fired, clock') /\ ticks[t].todo # {}
  <2>1. TickTyped(ticks[t], fired, clock) /\ ticks[t].todo # {}
    BY DEF AInv, Typed
  <2>2. ticks[t].at \in Nat
    BY <2>1 DEF TickTyped, ItemsTyped, TickRec
  <2>. QED BY <1>1, <2>1, <2>2 DEF TickTyped, ItemsTyped
<1>4. Typed'
  BY <1>2, <1>3 DEF AInv, Typed
<1>5. ASSUME NEW a \in AutoIds, World(autos, ticks, fired, a) PROVE World(autos', ticks, fired, a)
  <2>1. Idle(fired, a, autos[a]) => Idle(fired, a, autos'[a])
    <3>1. CASE autos'[a].next = autos[a].next
      BY <3>1 DEF Idle
    <3>2. CASE autos'[a].next > clock
      <4>1. PICK n \in Nat : n = autos'[a].next /\ n > clock
        BY <3>2 DEF Scheduled
      <4>2. \A p \in RunsOf(fired, a) : fired[p].due < n
        BY <1>0, <1>1, <4>1 DEF RunsOf
      <4>. QED BY <4>1, <4>2 DEF Idle, Settled
    <3>. QED BY <3>1, <3>2
  <2>2. ASSUME NEW t \in DOMAIN ticks, NEW d \in ticks[t].todo, d.id = a
        PROVE  InHand(autos', fired, ticks[t], d)
    BY <1>5, <2>2 DEF World, InHand, Waits
  <2>. QED BY <1>5, <2>1, <2>2 DEF World
<1>. QED BY <1>4, <1>5 DEF AInv

\* A tick begins with a copy of what is due.
LEMMA TickBegins == AInv /\ FireDueAutomations => AInv'
<1>. SUFFICES ASSUME AInv, FireDueAutomations PROVE AInv'
  OBVIOUS
<1>. DEFINE t == autoPast.ticks + 1
            tick == [at |-> clock, todo |-> DueNow, pc |-> "asks", run |-> 0]
<1>1. /\ AutosTyped(autos, fired, clock) /\ clock \in Nat /\ autos \in [AutoIds -> Scheduled]
      /\ DOMAIN autoPast = {"ticks", "edits", "excused"} /\ autoPast.ticks \in Nat
      /\ DOMAIN ticks \subseteq 1..autoPast.ticks /\ t \notin DOMAIN ticks
      /\ \A u \in DOMAIN ticks : TickTyped(ticks[u], fired, clock) /\ ticks[u].todo # {}
  BY DEF AInv, Typed, AutosTyped
<1>2. \A d \in DueNow : /\ d.id \in AutoIds /\ autos[d.id].there /\ d.next = autos[d.id].next
                        /\ d.next <= clock /\ d.last = autos[d.id].last /\ d \in Copied
                        /\ d = [id |-> d.id, every |-> autos[d.id].every, next |-> autos[d.id].next,
                                last |-> autos[d.id].last]
  <2>1. \A a \in AutoIds : autos[a] \in Scheduled
    BY <1>1
  <2>. QED BY <2>1 DEF DueNow, Copied, Scheduled
<1>3. ItemsTyped(tick, fired, clock)
  <2>1. tick \in TickRec
    BY <1>1, <1>2 DEF TickRec
  <2>2. \A d \in DueNow : OwnRun(fired, d.last, d.id)
    BY <1>1, <1>2 DEF AutosTyped
  <2>3. \A d, e \in DueNow : d.id = e.id => d = e
    BY <1>2
  <2>. QED BY <1>1, <1>2, <2>1, <2>2, <2>3 DEF ItemsTyped
<1>4. Loop(t, tick, autos, fired) /\ UNCHANGED clock
  BY DEF FireDueAutomations
<1>5. /\ DOMAIN autoPast' = DOMAIN autoPast /\ autoPast'.ticks = t
      /\ autoPast'.excused = autoPast.excused \cup ({d.id : d \in UNION {ticks[u].todo : u \in DOMAIN ticks}}
                                                    \cap {d.id : d \in DueNow})
  BY <1>1 DEF FireDueAutomations
<1>6. tick.todo = DueNow
  OBVIOUS
<1>. HIDE DEF tick
<1>7. Typed'
  <2>1. /\ AutosTyped(autos', fired, clock) /\ fired' = fired /\ DOMAIN ticks' \subseteq DOMAIN ticks \cup {t}
        /\ \A u \in DOMAIN ticks' : TickTyped(ticks'[u], fired, clock) /\ ticks'[u].todo # {}
    BY <1>1, <1>3, <1>4, LoopTyped
  <2>. QED BY <1>1, <1>4, <1>5, <2>1 DEF Typed
<1>8. ASSUME NEW a \in AutoIds, a \notin autoPast'.excused PROVE World(autos', ticks', fired, a)
  <2>1. World(autos, ticks, fired, a)
    BY <1>5, <1>8 DEF AInv
  <2>2. \A u \in DOMAIN ticks : Has(ticks[u], a) => ~Has(tick, a)
    BY <1>5, <1>6, <1>8 DEF Has
  <2>3. ASSUME NEW d \in DueNow, d.id = a PROVE Idle(fired, a, autos[a]) /\ Waits(autos, fired, d)
    <3>1. \A u \in DOMAIN ticks : ~Has(ticks[u], a)
      BY <1>6, <2>2, <2>3 DEF Has
    <3>2. Idle(fired, a, autos[a])
      BY <2>1, <3>1 DEF World, SetUp, Has
    <3>. QED BY <1>2, <2>3, <3>2 DEF Idle, Waits
  <2>4. DueBefore(autos, fired, t, tick, a)
    <3>1. DOMAIN ticks \ {t} = DOMAIN ticks
      BY <1>1
    <3>2. \A d \in tick.todo : d.id = a => Waits(autos, fired, d)
      BY <1>6, <2>3
    <3>. HIDE DEF t
    <3>. QED BY <2>1, <2>2, <3>1, <3>2 DEF World, DueBefore, SetUp
  <2>. QED BY <1>1, <1>3, <1>4, <2>4, LoopWorld
<1>9. fired' = fired
  BY <1>4, LoopIs
<1>. QED BY <1>7, <1>8, <1>9 DEF AInv

\* Runs of which an automation has no others, and none that has begun to work.
Calmer(runs, new, a) ==
  /\ RunsOf(new, a) = RunsOf(runs, a)
  /\ \A p \in RunsOf(runs, a) :
       new[p].due = runs[p].due /\ (new[p].status \in Busy => runs[p].status \in Busy)

LEMMA CalmerKeeps ==
  ASSUME NEW runs, NEW new, NEW a, Calmer(runs, new, a)
  PROVE  /\ Separate(runs, a) => Separate(new, a)
         /\ \A next, last : Settled(runs, a, next, last) => Settled(new, a, next, last)
         /\ \A item : Idle(runs, a, item) => Idle(new, a, item)
         /\ \A as, tick, d : (d.id = a /\ OwnRun(runs, d.last, a) /\ InHand(as, runs, tick, d))
                               => InHand(as, new, tick, d)
<1>1. Separate(runs, a) => Separate(new, a)
  BY DEF Calmer, Separate
<1>2. \A next, last : Settled(runs, a, next, last) => Settled(new, a, next, last)
  BY DEF Calmer, Settled
<1>3. \A item : Idle(runs, a, item) => Idle(new, a, item)
  BY <1>2 DEF Idle
<1>4. ASSUME NEW as, NEW tick, NEW d, d.id = a, OwnRun(runs, d.last, a), InHand(as, runs, tick, d)
      PROVE  InHand(as, new, tick, d)
  <2>1. CASE InSetup(tick, d)
    BY <1>2, <1>4, <2>1 DEF InHand
  <2>2. CASE ~InSetup(tick, d)
    <3>1. Waits(as, runs, d) /\ (d = NextOf(tick.todo) => ~PreviousBusy(d, runs))
      BY <1>4, <2>2 DEF InHand
    <3>2. Waits(as, new, d)
      BY <1>2, <1>4, <3>1 DEF Waits
    <3>3. ~PreviousBusy(d, runs) => ~PreviousBusy(d, new)
      BY <1>4 DEF PreviousBusy, OwnRun, Calmer, RunsOf
    <3>. QED BY <2>2, <3>1, <3>2, <3>3 DEF InHand
  <2>. QED BY <2>1, <2>2
<1>. QED BY <1>1, <1>2, <1>3, <1>4

LEMMA FiredTypes ==
  ASSUME NEW runs \in Seq(FiredRun), NEW p \in DOMAIN runs
  PROVE  runs[p] \in FiredRun /\ runs[p].due \in Nat /\ runs[p].auto \in AutoIds /\ p \in Nat
<1>1. runs[p] \in FiredRun /\ p \in Nat
  OBVIOUS
<1>. QED BY <1>1 DEF FiredRun

LEMMA ServedIs ==
  ASSUME NEW was, NEW item, NEW tick,
         was \in Scheduled, item.every \in Every, tick.at \in Nat, tick.run \in Nat
  PROVE  /\ Served(was, item, tick) \in Scheduled /\ Served(was, item, tick).there = was.there
         /\ Served(was, item, tick).last = tick.run
         /\ Served(was, item, tick).next = tick.at + item.every
<1>1. NextAt(item, tick.at) \in Nat /\ NextAt(item, tick.at) = tick.at + item.every
  BY DEF NextAt, Every
<1>. DEFINE new == [was EXCEPT !.last = tick.run, !.next = NextAt(item, tick.at)]
<1>2. new \in Scheduled /\ new.there = was.there /\ new.last = tick.run /\ new.next = NextAt(item, tick.at)
  BY <1>1 DEF Scheduled
<1>. QED BY <1>1, <1>2 DEF Served

Resched(was, every, next) == [was EXCEPT !.every = every, !.next = next]

LEMMA ReschedIs ==
  ASSUME NEW was \in Scheduled, NEW every \in Every, NEW next \in Nat
  PROVE  /\ Resched(was, every, next) \in Scheduled /\ Resched(was, every, next).last = was.last
         /\ Resched(was, every, next).next = next
BY DEF Resched, Scheduled

LEMMA TickSet ==
  ASSUME NEW was \in TickRec, NEW n \in Nat
  PROVE  LET new == [was EXCEPT !.pc = "setup", !.run = n]
         IN /\ new \in TickRec /\ new.at = was.at /\ new.todo = was.todo
            /\ new.pc = "setup" /\ new.run = n
BY DEF TickRec

\* The same runs, with other statuses.
Renamed(runs, new) ==
  /\ new \in Seq(FiredRun) /\ DOMAIN new = DOMAIN runs
  /\ \A p \in DOMAIN runs : new[p].auto = runs[p].auto /\ new[p].due = runs[p].due

LEMMA StatusSet ==
  ASSUME NEW runs \in Seq(FiredRun), NEW r \in DOMAIN runs, NEW status \in FiredStatus
  PROVE  /\ Renamed(runs, [runs EXCEPT ![r].status = status])
         /\ [runs EXCEPT ![r].status = status][r].status = status
         /\ \A p \in DOMAIN runs \ {r} : [runs EXCEPT ![r].status = status][p] = runs[p]
<1>. DEFINE new == [runs EXCEPT ![r].status = status]
<1>1. DOMAIN new = DOMAIN runs /\ \A p \in DOMAIN runs \ {r} : new[p] = runs[p]
  OBVIOUS
<1>2. new[r] = [runs[r] EXCEPT !.status = status] /\ runs[r] \in FiredRun
  OBVIOUS
<1>3. new[r] \in FiredRun /\ new[r].status = status /\ new[r].auto = runs[r].auto /\ new[r].due = runs[r].due
  BY <1>2 DEF FiredRun
<1>4. new \in Seq(FiredRun)
  <2>1. \A p \in DOMAIN runs : new[p] \in FiredRun
    BY <1>1, <1>3
  <2>2. runs \in [1..Len(runs) -> FiredRun] /\ Len(runs) \in Nat
    OBVIOUS
  <2>3. new \in [1..Len(runs) -> FiredRun]
    BY <2>1, <2>2
  <2>. QED BY <2>2, <2>3
<1>. QED BY <1>1, <1>3, <1>4 DEF Renamed

LEMMA RenamedKeeps ==
  ASSUME NEW runs, NEW new, Renamed(runs, new), NEW at
  PROVE  /\ \A as : AutosTyped(as, runs, at) => AutosTyped(as, new, at)
         /\ \A tick : ItemsTyped(tick, runs, at) => ItemsTyped(tick, new, at)
         /\ \A tick : TickTyped(tick, runs, at) => TickTyped(tick, new, at)
         /\ \A a : RunsOf(new, a) = RunsOf(runs, a)
<1>1. \A p, a : OwnRun(runs, p, a) => OwnRun(new, p, a)
  BY DEF Renamed, OwnRun
<1>2. \A as : AutosTyped(as, runs, at) => AutosTyped(as, new, at)
  BY <1>1 DEF AutosTyped, Renamed
<1>3. \A tick : ItemsTyped(tick, runs, at) => ItemsTyped(tick, new, at)
  BY <1>1 DEF ItemsTyped
<1>4. \A tick : TickTyped(tick, runs, at) => TickTyped(tick, new, at)
  BY <1>1, <1>3 DEF TickTyped
<1>5. \A a : RunsOf(new, a) = RunsOf(runs, a)
  BY DEF RunsOf, Renamed
<1>. QED BY <1>2, <1>3, <1>4, <1>5

\* The head of a tick's list.
LEMMA HeadIs ==
  ASSUME Typed, NEW t \in DOMAIN ticks
  PROVE  LET d == NextOf(ticks[t].todo)
         IN /\ d \in ticks[t].todo /\ d \in Copied /\ ticks[t] \in TickRec
            /\ d.next <= ticks[t].at /\ ticks[t].at <= clock
            /\ OwnRun(fired, d.last, d.id)
            /\ \A e \in ticks[t].todo : e.id = d.id => e = d
            /\ ticks[t].pc = "setup" => ticks[t].run # 0 /\ OwnRun(fired, ticks[t].run, d.id)
<1>. DEFINE d == NextOf(ticks[t].todo)
<1>1. TickTyped(ticks[t], fired, clock) /\ ItemsTyped(ticks[t], fired, clock) /\ ticks[t].todo # {}
      /\ ticks[t] \in TickRec /\ ticks[t].todo \subseteq Copied
  BY DEF Typed, TickTyped, ItemsTyped, TickRec
<1>2. \A e \in ticks[t].todo : e.id \in Nat
  BY <1>1 DEF Copied, AutoIds
<1>3. d \in ticks[t].todo
  BY <1>1, <1>2, LeastId
<1>4. ticks[t].pc = "setup" => InSetup(ticks[t], d)
  BY DEF InSetup
<1>. HIDE DEF d
<1>5. /\ d.next <= ticks[t].at /\ ticks[t].at <= clock
      /\ OwnRun(fired, d.last, d.id)
      /\ \A e \in ticks[t].todo : e.id = d.id => e = d
  BY <1>1, <1>3 DEF ItemsTyped
<1>6. ticks[t].pc = "setup" => ticks[t].run # 0 /\ OwnRun(fired, ticks[t].run, d.id)
  BY <1>1, <1>3, <1>4 DEF TickTyped
<1>7. d \in Copied
  BY <1>1, <1>3
<1>. QED BY <1>1, <1>3, <1>5, <1>6, <1>7 DEF d

\* The loop goes on when the head of the list is done with.
LEMMA GoesOn ==
  ASSUME NEW t, NEW d, NEW as, NEW runs, AInv, t \in DOMAIN ticks, d = NextOf(ticks[t].todo),
         Renamed(fired, runs), as \in [AutoIds -> Scheduled], OwnRun(runs, as[d.id].last, d.id),
         \A a \in AutoIds : a # d.id => as[a] = autos[a],
         \A a \in AutoIds : a # d.id => Calmer(fired, runs, a),
         d.id \notin autoPast.excused => Separate(runs, d.id) /\ Idle(runs, d.id, as[d.id]),
         Loop(t, [ticks[t] EXCEPT !.todo = @ \ {d}], as, runs), UNCHANGED <<clock, autoPast>>
  PROVE  AInv'
<1>. DEFINE tick == [ticks[t] EXCEPT !.todo = @ \ {d}]
<1>0. /\ Typed /\ AutosTyped(autos, fired, clock)
      /\ \A u \in DOMAIN ticks : TickTyped(ticks[u], fired, clock) /\ ticks[u].todo # {}
  BY DEF AInv, Typed
<1>1. /\ d \in ticks[t].todo /\ d \in Copied /\ ticks[t] \in TickRec
      /\ \A e \in ticks[t].todo : e.id = d.id => e = d
  BY <1>0, HeadIs
<1>2. tick \in TickRec /\ tick.at = ticks[t].at /\ tick.todo = ticks[t].todo \ {d}
  BY <1>1 DEF TickRec
<1>. HIDE DEF tick
<1>3. ItemsTyped(tick, runs, clock)
  <2>1. ItemsTyped(ticks[t], runs, clock)
    BY <1>0, RenamedKeeps DEF TickTyped
  <2>. QED BY <1>2, <2>1 DEF ItemsTyped
<1>4. AutosTyped(as, runs, clock)
  <2>1. AutosTyped(autos, runs, clock)
    BY <1>0, RenamedKeeps
  <2>2. \A a \in AutoIds : OwnRun(runs, as[a].last, a)
    <3>1. \A a \in AutoIds : a # d.id => OwnRun(runs, as[a].last, a)
      BY <2>1 DEF AutosTyped
    <3>. QED BY <3>1
  <2>. QED BY <2>1, <2>2 DEF AutosTyped
<1>5. \A u \in DOMAIN ticks \ {t} : TickTyped(ticks[u], runs, clock) /\ ticks[u].todo # {}
  BY <1>0, RenamedKeeps
<1>l. Loop(t, tick, as, runs)
  BY DEF tick
<1>6. /\ AutosTyped(autos', runs, clock) /\ fired' = runs /\ DOMAIN ticks' \subseteq DOMAIN ticks \cup {t}
      /\ \A u \in DOMAIN ticks' : TickTyped(ticks'[u], runs, clock) /\ ticks'[u].todo # {}
  BY <1>3, <1>4, <1>5, <1>l, LoopTyped
<1>7. Typed'
  BY <1>0, <1>6 DEF Typed
<1>8. ASSUME NEW a \in AutoIds, a \notin autoPast.excused PROVE World(autos', ticks', runs, a)
  <2>0. World(autos, ticks, fired, a)
    BY <1>8 DEF AInv
  <2>i. Has(tick, a) => Has(ticks[t], a)
    BY <1>2 DEF Has
  <2>1. CASE a = d.id
    <3>1. ~Has(tick, a) /\ Has(ticks[t], a)
      BY <1>1, <1>2, <2>1 DEF Has
    <3>2. \A u \in DOMAIN ticks \ {t} : ~Has(ticks[u], a)
      BY <2>0, <3>1 DEF World
    <3>3. DueBefore(as, runs, t, tick, a)
      BY <1>8, <2>1, <3>1, <3>2 DEF DueBefore, Has
    <3>. QED BY <1>3, <1>4, <1>l, <3>3, LoopWorld
  <2>2. CASE a # d.id
    <3>1. Calmer(fired, runs, a) /\ as[a] = autos[a]
      BY <2>2
    <3>2. /\ Separate(runs, a)
          /\ Idle(fired, a, autos[a]) => Idle(runs, a, as[a])
      BY <2>0, <3>1, CalmerKeeps DEF World
    <3>3. ASSUME NEW u \in DOMAIN ticks, NEW e \in ticks[u].todo, e.id = a
          PROVE  InHand(as, runs, ticks[u], e)
      <4>1. InHand(autos, fired, ticks[u], e) /\ OwnRun(fired, e.last, a)
        BY <1>0, <2>0, <3>3 DEF World, TickTyped, ItemsTyped
      <4>2. InHand(autos, runs, ticks[u], e)
        BY <3>1, <3>3, <4>1, CalmerKeeps
      <4>. QED BY <3>1, <3>3, <4>2 DEF InHand, Waits
    <3>4. \A e \in tick.todo : e.id = a => Waits(as, runs, e)
      <4>1. SUFFICES ASSUME NEW e \in tick.todo, e.id = a PROVE Waits(as, runs, e)
        OBVIOUS
      <4>2. InHand(as, runs, ticks[t], e) /\ ~InSetup(ticks[t], e)
        BY <1>2, <2>2, <3>3, <4>1 DEF InSetup
      <4>. QED BY <4>2 DEF InHand
    <3>5. Idle(runs, a, as[a]) \/ \E u \in DOMAIN ticks \ {t} : \E e \in ticks[u].todo : e.id = a /\ InSetup(ticks[u], e)
      <4>1. ASSUME NEW u \in DOMAIN ticks, NEW e \in ticks[u].todo, e.id = a, InSetup(ticks[u], e) PROVE u # t
        BY <2>2, <4>1 DEF InSetup
      <4>. QED BY <2>0, <3>2, <4>1 DEF World, SetUp
    <3>6. DueBefore(as, runs, t, tick, a)
      BY <2>0, <2>i, <3>2, <3>3, <3>4, <3>5 DEF DueBefore, World
    <3>. QED BY <1>3, <1>4, <1>l, <3>6, LoopWorld
  <2>. QED BY <2>1, <2>2
<1>. QED BY <1>6, <1>7, <1>8 DEF AInv

LEMMA ReturnsAuto ==
  ASSUME AInv, NEW t \in DOMAIN ticks, CreateRunReturns(t)
  PROVE  AInv'
<1>. DEFINE d == NextOf(ticks[t].todo)
            r == ticks[t].run
            as == Written(autos, d.id, Served(autos[d.id], d, ticks[t]))
<1>1. PICK status \in {"RUNNING", "NOT_YET_STARTED", "IDLE"} :
        Loop(t, [ticks[t] EXCEPT !.todo = @ \ {d}], as, [fired EXCEPT ![r].status = status])
  BY DEF CreateRunReturns
<1>. DEFINE runs == [fired EXCEPT ![r].status = status]
<1>2. ticks[t].pc = "setup" /\ UNCHANGED <<clock, autoPast>>
  BY DEF CreateRunReturns
<1>3. /\ Typed /\ AutosTyped(autos, fired, clock) /\ fired \in Seq(FiredRun)
      /\ autos \in [AutoIds -> Scheduled]
  BY DEF AInv, Typed, AutosTyped
<1>4. /\ d \in ticks[t].todo /\ d \in Copied /\ ticks[t] \in TickRec
      /\ r # 0 /\ OwnRun(fired, r, d.id)
  BY <1>2, <1>3, HeadIs
<1>5. d.id \in AutoIds /\ d.every \in {1, 2} /\ ticks[t].at \in Nat /\ r \in DOMAIN fired /\ fired[r].auto = d.id
      /\ InSetup(ticks[t], d) /\ r \in Nat
  BY <1>2, <1>4 DEF Copied, Every, TickRec, OwnRun, InSetup
<1>6. /\ Renamed(fired, runs) /\ \A p \in DOMAIN fired \ {r} : runs[p] = fired[p]
  <2>1. status \in FiredStatus
    BY DEF FiredStatus, Busy
  <2>. HIDE DEF r
  <2>. QED BY <1>3, <1>5, <2>1, StatusSet
<1>7. /\ as \in [AutoIds -> Scheduled] /\ \A a \in AutoIds : a # d.id => as[a] = autos[a]
      /\ as[d.id].there = autos[d.id].there
      /\ as[d.id].there => as[d.id].last = r /\ as[d.id].next = ticks[t].at + d.every
      /\ ~as[d.id].there => as[d.id] = autos[d.id]
  <2>1. autos[d.id] \in Scheduled
    BY <1>3, <1>5
  <2>. DEFINE new == Served(autos[d.id], d, ticks[t])
  <2>2. /\ new \in Scheduled /\ new.there = autos[d.id].there /\ new.last = r
        /\ new.next = ticks[t].at + d.every
    <3>1. ticks[t].at + d.every \in Nat /\ d.every \in Every
      BY <1>5 DEF Every
    <3>. HIDE DEF d, r
    <3>. QED BY <1>5, <2>1, <3>1, ServedIs DEF new, r
  <2>3. as = IF autos[d.id].there THEN [autos EXCEPT ![d.id] = new] ELSE autos
    BY DEF Written
  <2>. HIDE DEF as, new
  <2>4. CASE autos[d.id].there
    BY <1>3, <1>5, <2>2, <2>3, <2>4
  <2>5. CASE ~autos[d.id].there
    BY <1>3, <2>3, <2>5
  <2>. QED BY <2>4, <2>5
<1>. HIDE DEF runs, as, d
<1>8. OwnRun(runs, as[d.id].last, d.id)
  <2>1. OwnRun(fired, autos[d.id].last, d.id)
    BY <1>3, <1>5 DEF AutosTyped
  <2>2. OwnRun(fired, as[d.id].last, d.id)
    BY <1>4, <1>7, <2>1
  <2>. QED BY <1>6, <2>2 DEF OwnRun, Renamed
<1>9. \A a \in AutoIds : a # d.id => Calmer(fired, runs, a)
  BY <1>5, <1>6, RenamedKeeps DEF Calmer, RunsOf
<1>10. d.id \notin autoPast.excused => Separate(runs, d.id) /\ Idle(runs, d.id, as[d.id])
  <2>. SUFFICES ASSUME d.id \notin autoPast.excused PROVE Separate(runs, d.id) /\ Idle(runs, d.id, as[d.id])
    OBVIOUS
  <2>1. World(autos, ticks, fired, d.id)
    BY <1>5 DEF AInv
  <2>2. Separate(fired, d.id) /\ Settled(fired, d.id, ticks[t].at + 1, r)
    BY <1>4, <1>5, <2>1 DEF World, InHand
  <2>3. RunsOf(runs, d.id) = RunsOf(fired, d.id) /\ RunsOf(fired, d.id) \subseteq DOMAIN fired
    BY <1>6, RenamedKeeps DEF RunsOf
  <2>4. \A p \in RunsOf(fired, d.id) : /\ runs[p].due = fired[p].due /\ fired[p].due \in Nat
                                       /\ runs[p].status \in Busy => p = r
    <3>1. \A p \in DOMAIN fired : fired[p].due \in Nat
      BY <1>3, FiredTypes
    <3>2. \A p \in RunsOf(fired, d.id) : fired[p].status \in Busy => p = r
      BY <2>2 DEF Settled
    <3>. QED BY <1>6, <2>3, <3>1, <3>2 DEF Renamed
  <2>5. Separate(runs, d.id)
    BY <2>2, <2>3, <2>4 DEF Separate
  <2>6. ASSUME NEW p \in RunsOf(fired, d.id) PROVE fired[p].due < ticks[t].at + d.every
    <3>1. fired[p].due < ticks[t].at + 1
      BY <2>2 DEF Settled
    <3>2. PICK was \in Nat, at \in Nat, e \in {1, 2} : was = fired[p].due /\ at = ticks[t].at /\ e = d.every
      BY <1>5, <2>4
    <3>3. was < at + 1
      BY <3>1, <3>2
    <3>4. was < at + e
      BY <3>3
    <3>. QED BY <3>2, <3>4
  <2>7. Idle(runs, d.id, as[d.id])
    BY <1>7, <2>3, <2>4, <2>6 DEF Idle, Settled
  <2>. QED BY <2>5, <2>7
<1>11. Loop(t, [ticks[t] EXCEPT !.todo = @ \ {d}], as, runs)
  BY <1>1 DEF runs
<1>12. d = NextOf(ticks[t].todo)
  BY DEF d
<1>13. Renamed(fired, runs) /\ as \in [AutoIds -> Scheduled] /\ \A a \in AutoIds : a # d.id => as[a] = autos[a]
  BY <1>6, <1>7
<1>. QED BY <1>2, <1>8, <1>9, <1>10, <1>11, <1>12, <1>13, GoesOn

LEMMA ThrowsAuto ==
  ASSUME AInv, NEW t \in DOMAIN ticks, CreateRunThrows(t)
  PROVE  AInv'
<1>. DEFINE d == NextOf(ticks[t].todo)
            as == Written(autos, d.id, Postponed(autos[d.id], d, ticks[t].at))
<1>1. /\ Loop(t, [ticks[t] EXCEPT !.todo = @ \ {d}], as, fired)
      /\ ticks[t].pc = "asks" /\ UNCHANGED <<clock, autoPast>>
  BY DEF CreateRunThrows
<1>2. /\ Typed /\ AutosTyped(autos, fired, clock) /\ fired \in Seq(FiredRun)
      /\ autos \in [AutoIds -> Scheduled]
  BY DEF AInv, Typed, AutosTyped
<1>3. /\ d \in ticks[t].todo /\ d \in Copied /\ ticks[t] \in TickRec /\ d.next <= ticks[t].at
  BY <1>2, HeadIs
<1>4. d.id \in AutoIds /\ d.every \in {1, 2} /\ ticks[t].at \in Nat /\ d.next \in Nat /\ ~InSetup(ticks[t], d)
  BY <1>1, <1>3 DEF Copied, Every, TickRec, InSetup
<1>5. /\ as \in [AutoIds -> Scheduled] /\ \A a \in AutoIds : a # d.id => as[a] = autos[a]
      /\ as[d.id].last = autos[d.id].last
      /\ as[d.id].there => as[d.id].next = ticks[t].at + d.every
  <2>1. autos[d.id] \in Scheduled
    BY <1>2, <1>4
  <2>. DEFINE new == Postponed(autos[d.id], d, ticks[t].at)
  <2>2. /\ new \in Scheduled /\ new.there = autos[d.id].there /\ new.last = autos[d.id].last
        /\ new.next = ticks[t].at + d.every
    BY <1>4, <2>1 DEF Postponed, NextAt, Scheduled
  <2>3. as = IF autos[d.id].there THEN [autos EXCEPT ![d.id] = new] ELSE autos
    BY DEF Written
  <2>. HIDE DEF as, new
  <2>4. CASE autos[d.id].there
    BY <1>2, <1>4, <2>2, <2>3, <2>4
  <2>5. CASE ~autos[d.id].there
    BY <1>2, <2>3, <2>5
  <2>. QED BY <2>4, <2>5
<1>. HIDE DEF as, d
<1>6. OwnRun(fired, as[d.id].last, d.id)
  BY <1>2, <1>4, <1>5 DEF AutosTyped
<1>7. Renamed(fired, fired) /\ \A a \in AutoIds : Calmer(fired, fired, a)
  BY <1>2 DEF Renamed, Calmer
<1>8. d.id \notin autoPast.excused => Separate(fired, d.id) /\ Idle(fired, d.id, as[d.id])
  <2>. SUFFICES ASSUME d.id \notin autoPast.excused PROVE Separate(fired, d.id) /\ Idle(fired, d.id, as[d.id])
    OBVIOUS
  <2>1. World(autos, ticks, fired, d.id)
    BY <1>4 DEF AInv
  <2>2. Separate(fired, d.id) /\ Waits(autos, fired, d)
    BY <1>3, <1>4, <2>1 DEF World, InHand
  <2>3. \A p \in RunsOf(fired, d.id) : fired[p].due \in Nat
    BY <1>2, FiredTypes DEF RunsOf
  <2>4. ASSUME NEW p \in RunsOf(fired, d.id) PROVE fired[p].due < ticks[t].at + d.every
    <3>1. fired[p].due < d.next
      BY <2>2 DEF Waits, Settled
    <3>2. PICK was \in Nat, at \in Nat, e \in {1, 2}, n \in Nat :
            was = fired[p].due /\ at = ticks[t].at /\ e = d.every /\ n = d.next
      BY <1>4, <2>3
    <3>3. was < n /\ n <= at
      BY <1>3, <3>1, <3>2
    <3>4. was < at + e
      BY <3>3
    <3>. QED BY <3>2, <3>4
  <2>5. Idle(fired, d.id, as[d.id])
    BY <1>5, <2>2, <2>4 DEF Idle, Settled, Waits
  <2>. QED BY <2>2, <2>5
<1>9. d = NextOf(ticks[t].todo)
  BY DEF d
<1>. QED BY <1>1, <1>5, <1>6, <1>7, <1>8, <1>9, GoesOn

LEMMA MovesAuto ==
  ASSUME AInv, NEW r \in DOMAIN fired, RunMoves(r)
  PROVE  AInv'
<1>1. PICK status \in Busy \cup {"IDLE"} :
        /\ <<fired[r].status, status>> \in {<<"NOT_YET_STARTED", "RUNNING">>, <<"RUNNING", "IDLE">>,
                                            <<"PROVISIONING", "IDLE">>, <<"IDLE", "RUNNING">>}
        /\ fired' = [fired EXCEPT ![r].status = status]
        /\ autoPast' = IF fired[r].status \in {"NOT_YET_STARTED", "IDLE"}
                       THEN [autoPast EXCEPT !.excused = @ \cup {fired[r].auto}] ELSE autoPast
  BY DEF RunMoves
<1>2. UNCHANGED <<autos, ticks, clock>>
  BY DEF RunMoves
<1>3. Typed /\ fired \in Seq(FiredRun)
  BY DEF AInv, Typed, AutosTyped
<1>. DEFINE runs == [fired EXCEPT ![r].status = status]
<1>4. /\ Renamed(fired, runs) /\ runs[r].status = status /\ \A p \in DOMAIN fired \ {r} : runs[p] = fired[p]
  <2>1. status \in FiredStatus
    BY DEF FiredStatus
  <2>. QED BY <1>3, <2>1, StatusSet
<1>. HIDE DEF runs
<1>5. fired' = runs
  BY <1>1 DEF runs
<1>6. /\ DOMAIN autoPast' = DOMAIN autoPast /\ autoPast'.ticks = autoPast.ticks
      /\ autoPast.excused \subseteq autoPast'.excused
      /\ fired[r].status \in {"NOT_YET_STARTED", "IDLE"} => fired[r].auto \in autoPast'.excused
  BY <1>1, <1>3 DEF Typed
<1>7. Typed'
  <2>1. AutosTyped(autos, runs, clock) /\ \A t \in DOMAIN ticks : TickTyped(ticks[t], runs, clock) /\ ticks[t].todo # {}
    BY <1>3, <1>4, RenamedKeeps DEF Typed
  <2>. QED BY <1>2, <1>3, <1>5, <1>6, <2>1 DEF Typed
<1>8. ASSUME NEW a \in AutoIds, a \notin autoPast'.excused PROVE World(autos, ticks, runs, a)
  <2>1. World(autos, ticks, fired, a)
    BY <1>6, <1>8 DEF AInv
  <2>2. Calmer(fired, runs, a)
    <3>1. ASSUME NEW p \in RunsOf(fired, a)
          PROVE  runs[p].due = fired[p].due /\ (runs[p].status \in Busy => fired[p].status \in Busy)
      <4>1. p \in DOMAIN fired /\ fired[p].auto = a
        BY DEF RunsOf
      <4>2. CASE p = r
        BY <1>1, <1>4, <1>6, <1>8, <4>1, <4>2 DEF Busy, Renamed
      <4>. QED BY <1>4, <4>1, <4>2
    <3>. QED BY <1>4, <3>1, RenamedKeeps DEF Calmer
  <2>3. ASSUME NEW t \in DOMAIN ticks, NEW e \in ticks[t].todo, e.id = a
        PROVE  InHand(autos, runs, ticks[t], e)
    <3>1. InHand(autos, fired, ticks[t], e) /\ OwnRun(fired, e.last, a)
      BY <1>3, <2>1, <2>3 DEF World, Typed, TickTyped, ItemsTyped
    <3>. QED BY <2>2, <2>3, <3>1, CalmerKeeps
  <2>. QED BY <2>1, <2>2, <2>3, CalmerKeeps DEF World
<1>. QED BY <1>2, <1>5, <1>7, <1>8 DEF AInv

LEMMA DiesAuto == AInv /\ ControlPlaneDies => AInv'
<1>. SUFFICES ASSUME AInv, ControlPlaneDies PROVE AInv'
  OBVIOUS
<1>1. /\ DOMAIN ticks' = {} /\ UNCHANGED <<autos, fired, clock>>
      /\ autoPast' = [autoPast EXCEPT !.edits = @ + 1,
                        !.excused = @ \cup {NextOf(ticks[t].todo).id : t \in DOMAIN ticks}]
  BY DEF ControlPlaneDies
<1>2. /\ DOMAIN autoPast' = DOMAIN autoPast /\ autoPast'.ticks = autoPast.ticks
      /\ autoPast'.excused = autoPast.excused \cup {NextOf(ticks[t].todo).id : t \in DOMAIN ticks}
  BY <1>1 DEF AInv, Typed
<1>3. Typed'
  BY <1>1, <1>2 DEF AInv, Typed
<1>4. ASSUME NEW a \in AutoIds, a \notin autoPast'.excused PROVE World(autos', ticks', fired', a)
  <2>1. World(autos, ticks, fired, a) /\ ~SetUp(ticks, a)
    BY <1>2, <1>4 DEF AInv, SetUp, InSetup
  <2>. QED BY <1>1, <2>1 DEF World
<1>. QED BY <1>3, <1>4 DEF AInv

\* The record of a run is appended.
LEMMA StartsAuto ==
  ASSUME AInv, NEW t \in DOMAIN ticks, CreateRunStarts(t)
  PROVE  AInv'
<1>. DEFINE d == NextOf(ticks[t].todo)
            n == Len(fired) + 1
            tick == [ticks[t] EXCEPT !.pc = "setup", !.run = n]
<1>1. /\ fired' = Append(fired, [auto |-> d.id, due |-> d.next, status |-> "PROVISIONING"])
      /\ ticks' = [ticks EXCEPT ![t].pc = "setup", ![t].run = n]
      /\ ticks[t].pc = "asks" /\ UNCHANGED <<autos, clock, autoPast>>
  BY DEF CreateRunStarts
<1>2. /\ Typed /\ AutosTyped(autos, fired, clock) /\ fired \in Seq(FiredRun) /\ clock \in Nat
      /\ \A u \in DOMAIN ticks : TickTyped(ticks[u], fired, clock) /\ ticks[u].todo # {}
  BY DEF AInv, Typed, AutosTyped
<1>3. /\ d \in ticks[t].todo /\ d \in Copied /\ ticks[t] \in TickRec /\ d.next <= ticks[t].at
      /\ ticks[t].at <= clock /\ \A e \in ticks[t].todo : e.id = d.id => e = d
  BY <1>2, HeadIs
<1>4. /\ tick \in TickRec /\ tick.at = ticks[t].at /\ tick.todo = ticks[t].todo /\ tick.pc = "setup"
      /\ tick.run = n
  <2>1. n \in Nat
    BY <1>2
  <2>. HIDE DEF n
  <2>. QED BY <1>3, <2>1, TickSet
<1>5. DOMAIN ticks' = DOMAIN ticks /\ \A u \in DOMAIN ticks : ticks'[u] = IF u = t THEN tick ELSE ticks[u]
  BY <1>1
<1>6. d.id \in AutoIds /\ d.next \in Nat /\ ticks[t].at \in Nat
  BY <1>3 DEF Copied, TickRec
<1>7. /\ fired' \in Seq(FiredRun) /\ DOMAIN fired' = DOMAIN fired \cup {n} /\ n \notin DOMAIN fired /\ n # 0
      /\ fired'[n] = [auto |-> d.id, due |-> d.next, status |-> "PROVISIONING"]
      /\ \A p \in DOMAIN fired : fired'[p] = fired[p]
  <2>1. [auto |-> d.id, due |-> d.next, status |-> "PROVISIONING"] \in FiredRun
    BY <1>6 DEF FiredRun, FiredStatus, Busy
  <2>. QED BY <1>1, <1>2, <2>1
<1>d. InSetup(tick, d)
  BY <1>4 DEF InSetup
<1>s. \A e \in tick.todo : InSetup(tick, e) => e = d
  BY <1>4 DEF InSetup
<1>a. \A e \in ticks[t].todo : ~InSetup(ticks[t], e)
  BY <1>1 DEF InSetup
<1>h. \A e \in tick.todo : e = NextOf(tick.todo) => e = d
  BY <1>4
<1>. HIDE DEF d, n, tick
<1>8. \A p, a : OwnRun(fired, p, a) => OwnRun(fired', p, a)
  BY <1>7 DEF OwnRun
<1>9. Typed'
  <2>1. fired'[n].due <= clock
    <3>1. PICK x \in Nat, y \in Nat, z \in Nat : x = d.next /\ y = ticks[t].at /\ z = clock
      BY <1>2, <1>6
    <3>2. x <= y /\ y <= z
      BY <1>3, <3>1
    <3>3. x <= z
      BY <3>2
    <3>. QED BY <1>7, <3>1, <3>3
  <2>2. AutosTyped(autos, fired', clock)
    BY <1>2, <1>7, <1>8, <2>1 DEF AutosTyped
  <2>3. ASSUME NEW u \in DOMAIN ticks, u # t PROVE TickTyped(ticks[u], fired', clock)
    BY <1>2, <1>8, <2>3 DEF TickTyped, ItemsTyped
  <2>4. TickTyped(tick, fired', clock)
    <3>1. ItemsTyped(tick, fired', clock)
      BY <1>2, <1>4, <1>8 DEF TickTyped, ItemsTyped
    <3>2. OwnRun(fired', n, d.id)
      BY <1>7 DEF OwnRun
    <3>. QED BY <1>4, <1>7, <1>s, <3>1, <3>2 DEF TickTyped
  <2>5. \A u \in DOMAIN ticks' : TickTyped(ticks'[u], fired', clock) /\ ticks'[u].todo # {}
    <3>1. TAKE u \in DOMAIN ticks'
    <3>2. CASE u = t
      <4>1. ticks'[u] = tick /\ tick.todo # {}
        BY <1>2, <1>4, <1>5, <3>2
      <4>. QED BY <2>4, <4>1
    <3>3. CASE u # t
      <4>1. u \in DOMAIN ticks /\ ticks'[u] = ticks[u] /\ ticks[u].todo # {}
        BY <1>2, <1>5, <3>3
      <4>. QED BY <2>3, <3>3, <4>1
    <3>. QED BY <3>2, <3>3
  <2>6. /\ UNCHANGED <<clock, autos, autoPast>>
        /\ DOMAIN autoPast = {"ticks", "edits", "excused"} /\ autoPast.ticks \in Nat
        /\ DOMAIN ticks' \subseteq 1..autoPast.ticks
    BY <1>1, <1>2, <1>5 DEF Typed
  <2>. QED BY <2>2, <2>5, <2>6 DEF Typed
<1>10. ASSUME NEW a \in AutoIds, a \notin autoPast.excused PROVE World(autos, ticks', fired', a)
  <2>1. World(autos, ticks, fired, a)
    BY <1>10 DEF AInv
  <2>2. \A u, v \in DOMAIN ticks' : Has(ticks'[u], a) /\ Has(ticks'[v], a) => u = v
    <3>1. \A u \in DOMAIN ticks : Has(ticks'[u], a) <=> Has(ticks[u], a)
      BY <1>4, <1>5 DEF Has
    <3>. QED BY <1>5, <2>1, <3>1 DEF World
  <2>3. CASE a = d.id
    <3>1. Waits(autos, fired, d) /\ ~PreviousBusy(d, fired)
      <4>1. InHand(autos, fired, ticks[t], d)
        BY <1>3, <2>1, <2>3 DEF World
      <4>. QED BY <1>3, <1>a, <4>1 DEF InHand, d
    <3>2. \A p \in RunsOf(fired, a) : fired[p].due < d.next /\ fired[p].status \notin Busy
      <4>1. \A p \in RunsOf(fired, a) : fired[p].due < d.next /\ (fired[p].status \in Busy => p = d.last)
        BY <2>3, <3>1 DEF Waits, Settled
      <4>2. \A p \in RunsOf(fired, a) : p # 0
        BY <1>2 DEF RunsOf
      <4>. QED BY <3>1, <4>1, <4>2 DEF PreviousBusy
    <3>3. RunsOf(fired', a) = RunsOf(fired, a) \cup {n} /\ n \notin RunsOf(fired, a)
      BY <1>7, <2>3 DEF RunsOf
    <3>4. \A p \in RunsOf(fired, a) : fired'[p] = fired[p] /\ fired[p].due \in Nat
      <4>1. \A p \in DOMAIN fired : fired[p].due \in Nat
        BY <1>2, FiredTypes
      <4>. QED BY <1>7, <4>1 DEF RunsOf
    <3>5. \A p \in RunsOf(fired, a) : fired[p].due # d.next
      BY <1>6, <3>2, <3>4
    <3>6. Separate(fired', a)
      <4>1. Separate(fired, a) /\ fired'[n].due = d.next
        BY <1>7, <2>1 DEF World
      <4>. QED BY <3>2, <3>3, <3>4, <3>5, <4>1 DEF Separate
    <3>7. Settled(fired', a, tick.at + 1, n)
      <4>1. ASSUME NEW p \in RunsOf(fired, a) PROVE fired[p].due < tick.at + 1
        <5>1. PICK x \in Nat, y \in Nat, z \in Nat : x = fired[p].due /\ y = d.next /\ z = tick.at
          BY <1>4, <1>6, <3>4
        <5>2. x < y /\ y <= z
          BY <1>3, <1>4, <3>2, <5>1
        <5>3. x < z + 1
          BY <5>2
        <5>. QED BY <5>1, <5>3
      <4>2. d.next < tick.at + 1
        BY <1>3, <1>4, <1>6
      <4>3. fired'[n].due < tick.at + 1
        BY <1>7, <4>2
      <4>. QED BY <3>2, <3>3, <3>4, <4>1, <4>3 DEF Settled
    <3>8. ASSUME NEW u \in DOMAIN ticks', NEW e \in ticks'[u].todo, e.id = a
          PROVE  InHand(autos, fired', ticks'[u], e)
      <4>1. u = t
        <5>1. Has(ticks[u], a) /\ Has(ticks[t], a)
          BY <1>3, <1>4, <1>5, <2>3, <3>8 DEF Has
        <5>. QED BY <1>5, <2>1, <5>1 DEF World
      <4>2. e = d /\ ticks'[u] = tick
        BY <1>3, <1>4, <1>5, <2>3, <3>8, <4>1
      <4>. QED BY <1>d, <1>4, <2>3, <3>7, <4>2 DEF InHand
    <3>9. SetUp(ticks', a)
      BY <1>3, <1>4, <1>5, <1>d, <2>3 DEF SetUp
    <3>. QED BY <2>2, <3>6, <3>8, <3>9 DEF World
  <2>4. CASE a # d.id
    <3>1. Calmer(fired, fired', a)
      BY <1>7, <2>4 DEF Calmer, RunsOf
    <3>2. ASSUME NEW u \in DOMAIN ticks', NEW e \in ticks'[u].todo, e.id = a
          PROVE  InHand(autos, fired', ticks'[u], e)
      <4>1. InHand(autos, fired, ticks[u], e) /\ OwnRun(fired, e.last, a) /\ e \in ticks[u].todo
        BY <1>2, <1>4, <1>5, <2>1, <3>2 DEF World, TickTyped, ItemsTyped
      <4>2. InHand(autos, fired', ticks[u], e)
        BY <3>1, <3>2, <4>1, CalmerKeeps
      <4>3. CASE u = t
        <5>1. ~InSetup(tick, e) /\ e # NextOf(tick.todo) /\ ticks'[u] = tick
          BY <1>4, <1>5, <1>h, <1>s, <2>4, <3>2, <4>3
        <5>2. Waits(autos, fired', e)
          BY <1>a, <4>1, <4>2, <4>3 DEF InHand
        <5>. QED BY <5>1, <5>2 DEF InHand
      <4>. QED BY <1>5, <4>2, <4>3
    <3>3. Idle(fired', a, autos[a]) \/ SetUp(ticks', a)
      <4>1. SetUp(ticks, a) => SetUp(ticks', a)
        BY <1>a, <1>5 DEF SetUp
      <4>. QED BY <2>1, <3>1, <4>1, CalmerKeeps DEF World
    <3>. QED BY <2>1, <2>2, <3>1, <3>2, <3>3, CalmerKeeps DEF World
  <2>. QED BY <2>3, <2>4
<1>. QED BY <1>1, <1>9, <1>10 DEF AInv

Edited(was, new, a) ==
  /\ new \in [AutoIds -> Scheduled] /\ \A b \in AutoIds \ {a} : new[b] = was[b]
  /\ new[a].last = was[a].last /\ (new[a].next = was[a].next \/ new[a].next > clock)

LEMMA EditsAuto ==
  ASSUME AInv, NEW a \in AutoIds, UserEdits(a)
  PROVE  AInv'
<1>1. /\ autos[a].there /\ fired' = fired /\ ticks' = ticks /\ clock' = clock
      /\ autoPast' = [autoPast EXCEPT !.edits = @ + 1]
  BY DEF UserEdits
<1>2. /\ autos \in [AutoIds -> Scheduled] /\ clock \in Nat
      /\ DOMAIN autoPast = {"ticks", "edits", "excused"}
  BY DEF AInv, Typed, AutosTyped
<1>3. Edited(autos, autos', a)
  <2>1. autos[a] \in Scheduled
    BY <1>2
  <2>2. ASSUME NEW every \in Every, autos' = [autos EXCEPT ![a].every = every, ![a].next = clock + every]
        PROVE  Edited(autos, autos', a)
    <3>. DEFINE new == Resched(autos[a], every, clock + every)
    <3>1. new \in Scheduled /\ new.last = autos[a].last /\ new.next > clock
      <4>1. clock + every \in Nat /\ clock + every > clock
        BY <1>2 DEF Every
      <4>2. /\ Resched(autos[a], every, clock + every) \in Scheduled
            /\ Resched(autos[a], every, clock + every).last = autos[a].last
            /\ Resched(autos[a], every, clock + every).next = clock + every
        BY <2>1, <4>1, ReschedIs
      <4>. QED BY <4>1, <4>2
    <3>2. autos' = [autos EXCEPT ![a] = new]
      BY <2>2 DEF Resched
    <3>. HIDE DEF new
    <3>. QED BY <1>2, <3>1, <3>2 DEF Edited
  <2>3. ASSUME NEW on \in BOOLEAN, NEW there \in BOOLEAN,
               autos' = [autos EXCEPT ![a].on = on] \/ autos' = [autos EXCEPT ![a].there = there]
        PROVE  Edited(autos, autos', a)
    <3>1. [autos[a] EXCEPT !.on = on] \in Scheduled /\ [autos[a] EXCEPT !.there = there] \in Scheduled
      BY <2>1 DEF Scheduled
    <3>2. \A b \in AutoIds : autos'[b] = autos[b] \/ (b = a /\ autos'[a] \in {[autos[a] EXCEPT !.on = on], [autos[a] EXCEPT !.there = there]})
      BY <1>2, <2>3
    <3>3. /\ [autos[a] EXCEPT !.on = on].last = autos[a].last /\ [autos[a] EXCEPT !.on = on].next = autos[a].next
          /\ [autos[a] EXCEPT !.there = there].last = autos[a].last /\ [autos[a] EXCEPT !.there = there].next = autos[a].next
      BY <2>1 DEF Scheduled
    <3>4. DOMAIN autos' = AutoIds /\ autos' = [b \in AutoIds |-> autos'[b]]
      BY <1>2, <2>3
    <3>. QED BY <1>2, <3>1, <3>2, <3>3, <3>4 DEF Edited
  <2>4. autos[a].on \in BOOLEAN
    BY <2>1 DEF Scheduled
  <2>5. /\ \A every \in Every : autos' = [autos EXCEPT ![a].every = every, ![a].next = clock + every] => Edited(autos, autos', a)
        /\ autos' = [autos EXCEPT ![a].on = ~autos[a].on] => Edited(autos, autos', a)
        /\ autos' = [autos EXCEPT ![a].there = FALSE] => Edited(autos, autos', a)
    BY <2>2, <2>3, <2>4
  <2>6. \/ \E every \in Every : autos' = [autos EXCEPT ![a].every = every, ![a].next = clock + every]
        \/ autos' = [autos EXCEPT ![a].on = ~autos[a].on]
        \/ autos' = [autos EXCEPT ![a].there = FALSE]
    BY DEF UserEdits
  <2>. QED BY <2>5, <2>6
<1>. QED BY <1>1, <1>2, <1>3, AFrame DEF Edited

LEMMA ANext == AInv /\ [AutoNext]_autoVars => AInv'
<1>. SUFFICES ASSUME AInv, [AutoNext]_autoVars PROVE AInv'
  OBVIOUS
<1>1. CASE TimePasses
  <2>1. clock \in Nat /\ autos \in [AutoIds -> Scheduled]
    BY DEF AInv, Typed, AutosTyped
  <2>. QED BY <1>1, <2>1, AFrame DEF TimePasses
<1>2. CASE UNCHANGED autoVars
  BY <1>2 DEF autoVars, AInv, Typed
<1>. QED BY <1>1, <1>2, TickBegins, DiesAuto, StartsAuto, ReturnsAuto, ThrowsAuto, MovesAuto, EditsAuto DEF AutoNext

\* Whatever number of automations, ticks and edits there is, a due time starts one
\* run and an automation has one worker at a time, outside of what the property
\* excuses (automations/runner.ts fireDueAutomations).
THEOREM OneRunPerDue == AutoSpec => []FiresOnce
<1>1. ASSUME AInv PROVE FiresOnce
  <2>1. ASSUME NEW p \in DOMAIN fired, NEW q \in DOMAIN fired, p < q, fired[p].auto = fired[q].auto,
               fired[p].auto \notin autoPast.excused
        PROVE  fired[p].due # fired[q].due /\ ~(fired[p].status \in Busy /\ fired[q].status \in Busy)
    <3>1. fired[p].auto \in AutoIds /\ p # q
      <4>1. fired \in Seq(FiredRun)
        BY <1>1 DEF AInv, Typed, AutosTyped
      <4>. QED BY <2>1, <4>1, FiredTypes
    <3>2. Separate(fired, fired[p].auto)
      BY <1>1, <2>1, <3>1 DEF AInv, World
    <3>. QED BY <2>1, <3>1, <3>2 DEF Separate, RunsOf
  <2>. QED BY <2>1 DEF FiresOnce
<1>. QED BY <1>1, AInit, ANext, PTL DEF AutoSpec

-----------------------------------------------------------------------------
(* The types of the automations: whatever names a run names one that was     *)
(* started.                                                                  *)

Timed ==
  /\ clock \in 0..MaxClock /\ Len(fired) <= MaxFired
  /\ autoPast.ticks \in 0..MaxTicks /\ autoPast.edits \in 0..MaxEdits /\ autoPast.excused \subseteq AutoIds
RunsNamed == \A t \in DOMAIN ticks : ticks[t].run <= Len(fired)

\* The loop leaves the number of runs as it is, and its tick names none.
LEMMA LoopNames ==
  ASSUME RunsNamed, NEW t, NEW tick \in TickRec, NEW as, NEW runs, Loop(t, tick, as, runs),
         Len(runs) = Len(fired), Len(fired) \in Nat
  PROVE  fired' = runs /\ RunsNamed'
<1>. DEFINE rest == Rest(tick, runs)
            late == Later(tick, rest)
<1>1. /\ fired' = runs /\ DOMAIN ticks' \subseteq DOMAIN ticks \cup {t}
      /\ \A u \in DOMAIN ticks' : ticks'[u] = IF u = t THEN late ELSE ticks[u]
  BY LoopIs
<1>2. late.run = 0
  BY DEF Later, TickRec
<1>. HIDE DEF late
<1>3. ASSUME NEW u \in DOMAIN ticks'
      PROVE  ticks'[u].run <= Len(fired)
  <2>1. CASE u = t
    BY <1>1, <1>2, <2>1
  <2>2. CASE u # t
    BY <1>1, <2>2 DEF RunsNamed
  <2>. QED BY <2>1, <2>2
<1>. QED BY <1>1, <1>3 DEF RunsNamed

LEMMA TimedStep == ASSUME AInv, Timed, RunsNamed, [AutoNext]_autoVars PROVE Timed' /\ RunsNamed'
<1>1. /\ fired \in Seq(FiredRun) /\ Len(fired) \in Nat /\ clock \in Nat /\ Typed
      /\ DOMAIN autoPast = {"ticks", "edits", "excused"}
      /\ \A t \in DOMAIN ticks : ticks[t] \in TickRec
  BY DEF AInv, Typed, AutosTyped, TickTyped, ItemsTyped
<1>2. CASE UNCHANGED autoVars
  BY <1>2 DEF autoVars, Timed, RunsNamed
<1>3. CASE FireDueAutomations
  <2>1. PICK ids : /\ autoPast' = [autoPast EXCEPT !.ticks = autoPast.ticks + 1,
                                     !.excused = autoPast.excused \cup (ids \cap {d.id : d \in DueNow})]
                   /\ UNCHANGED clock /\ autoPast.ticks < MaxTicks
    BY <1>3 DEF FireDueAutomations
  <2>2. PICK begun : begun = [at |-> clock, todo |-> DueNow, pc |-> "asks", run |-> 0]
    OBVIOUS
  <2>3. DueNow \in SUBSET Copied
    <3>1. \A a \in AutoIds : autos[a].every \in Every /\ autos[a].next \in Nat /\ autos[a].last \in Nat
      BY <1>1 DEF Typed, AutosTyped, Scheduled
    <3>. QED BY <3>1 DEF DueNow, Copied
  <2>4. begun \in TickRec
    BY <1>1, <2>2, <2>3 DEF TickRec
  <2>5. Loop(autoPast.ticks + 1, begun, autos, fired)
    BY <1>3, <2>2 DEF FireDueAutomations
  <2>6. fired' = fired /\ RunsNamed'
    BY <1>1, <2>4, <2>5, LoopNames
  <2>7. {d.id : d \in DueNow} \subseteq AutoIds
    BY <2>3 DEF Copied
  <2>8. /\ autoPast'.ticks = autoPast.ticks + 1 /\ autoPast'.edits = autoPast.edits
        /\ autoPast'.excused \subseteq AutoIds
    BY <1>1, <2>1, <2>7 DEF Timed
  <2>. QED BY <2>1, <2>6, <2>8, AutoNumbers DEF Timed
<1>4. CASE TimePasses
  BY <1>4, AutoNumbers DEF TimePasses, Timed, RunsNamed
<1>5. CASE ControlPlaneDies
  <2>1. {NextOf(ticks[t].todo).id : t \in DOMAIN ticks} \subseteq AutoIds
    <3>1. \A t \in DOMAIN ticks : NextOf(ticks[t].todo) \in Copied
      BY <1>1, HeadIs
    <3>. QED BY <3>1 DEF Copied
  <2>2. PICK dead \in SUBSET AutoIds : dead = {NextOf(ticks[t].todo).id : t \in DOMAIN ticks}
    BY <2>1
  <2>3. /\ autoPast' = [autoPast EXCEPT !.edits = autoPast.edits + 1, !.excused = autoPast.excused \cup dead]
        /\ DOMAIN ticks' = {} /\ UNCHANGED <<fired, clock>> /\ autoPast.edits < MaxEdits
    BY <1>5, <2>2 DEF ControlPlaneDies
  <2>4. /\ autoPast'.ticks = autoPast.ticks /\ autoPast'.edits = autoPast.edits + 1
        /\ autoPast'.excused \subseteq AutoIds
    BY <1>1, <2>3 DEF Timed
  <2>. QED BY <2>3, <2>4, AutoNumbers DEF Timed, RunsNamed
<1>6. ASSUME NEW t \in DOMAIN ticks, CreateRunStarts(t)
      PROVE  Timed' /\ RunsNamed'
  <2>. DEFINE n == Len(fired) + 1
  <2>1. PICK r : fired' = Append(fired, r)
    BY <1>6 DEF CreateRunStarts
  <2>2. Len(fired') = n /\ n <= MaxFired /\ n \in Nat
    BY <1>1, <1>6, <2>1, AutoNumbers DEF CreateRunStarts
  <2>3. ticks' = [ticks EXCEPT ![t].pc = "setup", ![t].run = n] /\ UNCHANGED <<clock, autoPast>>
    BY <1>6 DEF CreateRunStarts
  <2>. HIDE DEF n
  <2>4. ASSUME NEW u \in DOMAIN ticks'
        PROVE  ticks'[u].run <= n
    <3>1. CASE u = t
      <4>1. ticks'[u] = [ticks[t] EXCEPT !.pc = "setup", !.run = n] /\ ticks[t] \in TickRec
        BY <1>1, <2>3, <3>1
      <4>2. ticks'[u].run = n
        BY <4>1 DEF TickRec
      <4>. QED BY <2>2, <4>2
    <3>2. CASE u # t
      <4>1. ticks'[u] = ticks[u] /\ u \in DOMAIN ticks
        BY <2>3, <3>2
      <4>2. ticks[u].run \in Nat /\ ticks[u].run <= Len(fired)
        BY <1>1, <4>1 DEF RunsNamed, TickRec
      <4>. QED BY <1>1, <4>1, <4>2 DEF n
    <3>. QED BY <3>1, <3>2
  <2>. QED BY <2>2, <2>3, <2>4 DEF Timed, RunsNamed
<1>7. ASSUME NEW t \in DOMAIN ticks, CreateRunReturns(t) \/ CreateRunThrows(t)
      PROVE  Timed' /\ RunsNamed'
  <2>. DEFINE item == NextOf(ticks[t].todo)
              tick == [ticks[t] EXCEPT !.todo = @ \ {item}]
  <2>1. tick \in TickRec
    BY <1>1 DEF TickRec
  <2>2. PICK as, runs : Loop(t, tick, as, runs) /\ Len(runs) = Len(fired)
    <3>1. CASE CreateRunReturns(t)
      <4>1. PICK status : Loop(t, tick, Written(autos, item.id, Served(autos[item.id], item, ticks[t])),
                               [fired EXCEPT ![ticks[t].run].status = status])
        BY <3>1 DEF CreateRunReturns
      <4>2. \A x, y : Len([fired EXCEPT ![x] = y]) = Len(fired)
        BY <1>1
      <4>. QED BY <4>1, <4>2
    <3>2. CASE CreateRunThrows(t)
      BY <3>2 DEF CreateRunThrows
    <3>. QED BY <1>7, <3>1, <3>2
  <2>. HIDE DEF tick
  <2>3. fired' = runs /\ RunsNamed'
    BY <1>1, <2>1, <2>2, LoopNames
  <2>4. UNCHANGED <<clock, autoPast>>
    BY <1>7 DEF CreateRunReturns, CreateRunThrows
  <2>. QED BY <2>2, <2>3, <2>4 DEF Timed
<1>8. ASSUME NEW r \in DOMAIN fired, RunMoves(r)
      PROVE  Timed' /\ RunsNamed'
  <2>1. PICK status : /\ fired' = [fired EXCEPT ![r].status = status]
                      /\ autoPast' = autoPast \/ autoPast' = [autoPast EXCEPT !.excused = @ \cup {fired[r].auto}]
    BY <1>8 DEF RunMoves
  <2>2. fired[r].auto \in AutoIds
    BY <1>1, FiredTypes
  <2>3. Len(fired') = Len(fired)
    BY <1>1, <2>1
  <2>4. /\ autoPast'.ticks = autoPast.ticks /\ autoPast'.edits = autoPast.edits
        /\ autoPast'.excused \subseteq AutoIds
    BY <1>1, <2>1, <2>2 DEF Timed
  <2>. QED BY <1>8, <2>3, <2>4 DEF RunMoves, Timed, RunsNamed
<1>9. ASSUME NEW a \in AutoIds, UserEdits(a)
      PROVE  Timed' /\ RunsNamed'
  <2>1. /\ autoPast' = [autoPast EXCEPT !.edits = autoPast.edits + 1] /\ autoPast.edits < MaxEdits
        /\ UNCHANGED <<ticks, fired, clock>>
    BY <1>9 DEF UserEdits
  <2>2. /\ autoPast'.ticks = autoPast.ticks /\ autoPast'.edits = autoPast.edits + 1
        /\ autoPast'.excused = autoPast.excused
    BY <1>1, <2>1
  <2>. QED BY <2>1, <2>2, AutoNumbers DEF Timed, RunsNamed
<1>. QED BY <1>2, <1>3, <1>4, <1>5, <1>6, <1>7, <1>8, <1>9 DEF AutoNext

\* The automations, the ticks that have not returned and the runs they started have their
\* types: `lastRunId` stays within the runs that may be fired, because however ticks
\* overlap it is nothing or one that was fired (automations/runner.ts).
THEOREM AutoTypes == AutoSpec => []AutoTypeOK
<1>1. AInv /\ Timed /\ RunsNamed => AutoTypeOK
  <2>. SUFFICES ASSUME AInv, Timed, RunsNamed PROVE AutoTypeOK
    OBVIOUS
  <2>1. /\ fired \in Seq(FiredRun) /\ Len(fired) \in Nat /\ Len(fired) <= MaxFired /\ Typed
        /\ autos \in [AutoIds -> Scheduled] /\ \A a \in AutoIds : OwnRun(fired, autos[a].last, a)
        /\ clock \in 0..MaxClock
    BY DEF AInv, Typed, AutosTyped, Timed
  <2>2. ASSUME NEW p \in Nat, NEW a, OwnRun(fired, p, a)
        PROVE  p \in 0..MaxFired
    BY <2>1, <2>2, AutoNumbers DEF OwnRun
  <2>3. autos \in [AutoIds -> [there : BOOLEAN, on : BOOLEAN, every : Every, next : Nat, last : 0..MaxFired]]
    <3>1. ASSUME NEW a \in AutoIds
          PROVE  autos[a] \in [there : BOOLEAN, on : BOOLEAN, every : Every, next : Nat, last : 0..MaxFired]
      <4>1. autos[a] \in Scheduled /\ autos[a].last \in Nat
        BY <2>1 DEF Scheduled
      <4>2. autos[a].last \in 0..MaxFired
        BY <2>1, <2>2, <4>1
      <4>. QED BY <4>1, <4>2 DEF Scheduled
    <3>. QED BY <2>1, <3>1
  <2>4. ASSUME NEW t \in DOMAIN ticks
        PROVE  ticks[t] \in Tick
    <3>1. /\ ticks[t] \in TickRec /\ ticks[t].at <= clock /\ ticks[t].run <= Len(fired)
          /\ \A d \in ticks[t].todo : OwnRun(fired, d.last, d.id)
      BY <2>1 DEF Typed, TickTyped, ItemsTyped, RunsNamed
    <3>2. ticks[t].todo \subseteq Due
      <4>1. ASSUME NEW d \in ticks[t].todo
            PROVE  d \in Due
        <5>1. d \in Copied /\ d.last \in Nat
          BY <3>1 DEF TickRec, Copied
        <5>2. d.last \in 0..MaxFired
          BY <2>2, <3>1, <5>1
        <5>. QED BY <5>1, <5>2 DEF Copied, Due
      <4>. QED BY <4>1
    <3>3. ticks[t].at \in 0..MaxClock
      BY <2>1, <3>1, AutoNumbers DEF TickRec
    <3>4. ticks[t].run \in 0..MaxFired
      BY <2>1, <3>1, AutoNumbers DEF TickRec
    <3>. QED BY <3>1, <3>2, <3>3, <3>4 DEF TickRec, Tick
  <2>5. DOMAIN ticks \subseteq 1..MaxTicks
    BY <2>1, AutoNumbers DEF Typed, Timed
  <2>. QED BY <2>1, <2>3, <2>4, <2>5 DEF AutoTypeOK, Timed, FiredRun
<1>2. AutoInit => Timed /\ RunsNamed
  BY AutoNumbers DEF AutoInit, Timed, RunsNamed
<1>3. AInv /\ Timed /\ RunsNamed /\ [AutoNext]_autoVars => Timed' /\ RunsNamed'
  BY TimedStep
<1>. QED BY <1>1, <1>2, <1>3, AInit, ANext, PTL DEF AutoSpec

-----------------------------------------------------------------------------
(* The event stream: what memory and the wire hold is a list of items that   *)
(* rise and, unless an event came after the archive, leave nothing out.      *)

Carrier == [from : Nat, to : Nat]
\* A list of items up to event n, each after the one before it.
Rising(list, n) ==
  /\ list \in Seq(Carrier)
  /\ \A i \in DOMAIN list : 1 <= list[i].from /\ list[i].from <= list[i].to /\ list[i].to <= n
  /\ \A i, j \in DOMAIN list : i < j => list[i].to < list[j].from
\* No event between two items, and none after the last.
NoGap(list) == \A i \in DOMAIN list : i > 1 => list[i].from = list[i - 1].to + 1
UpToEnd(list, n) == list # <<>> => list[Len(list)].to = n
\* The whole story up to event n.
Telling(list, n) ==
  /\ Rising(list, n) /\ NoGap(list) /\ UpToEnd(list, n)
  /\ IF list = <<>> THEN n = 0 ELSE list[1].from = 1

\* What the loop of compactHotEvents has after each event.
Outs(kinds, g, n) ==
  g = [i \in 0..n |-> IF i = 0 THEN <<>> ELSE FoldIn(kinds, g[i - 1], i)]

LEMMA OutsExist ==
  ASSUME NEW kinds, NEW m \in Nat
  PROVE  \E g : Outs(kinds, g, m)
<1>. DEFINE S == {n \in Nat : ~\E g : Outs(kinds, g, n)}
<1>1. CASE S = {}
  BY <1>1
<1>2. CASE S # {}
  <2>1. PICK n \in S : \A k \in S : n <= k
    <3>1. S \subseteq Nat
      OBVIOUS
    <3>. HIDE DEF S
    <3>. QED BY <1>2, <3>1, LeastNat
  <2>2. n # 0
    <3>1. Outs(kinds, [i \in 0..0 |-> <<>>], 0)
      BY DEF Outs
    <3>. QED BY <3>1
  <2>3. PICK g : Outs(kinds, g, n - 1)
    BY <2>1, <2>2
  <2>. DEFINE h == [i \in 0..n |-> IF i = n THEN FoldIn(kinds, g[n - 1], n) ELSE g[i]]
  <2>4. Outs(kinds, h, n)
    <3>1. ASSUME NEW i \in 0..n
          PROVE  h[i] = IF i = 0 THEN <<>> ELSE FoldIn(kinds, h[i - 1], i)
      <4>1. CASE i = n
        BY <4>1, <2>2
      <4>2. CASE i # n
        <5>1. i \in 0..(n - 1) /\ h[i] = g[i]
          BY <4>2, <2>2
        <5>2. g[i] = IF i = 0 THEN <<>> ELSE FoldIn(kinds, g[i - 1], i)
          BY <2>3, <5>1 DEF Outs
        <5>3. i # 0 => h[i - 1] = g[i - 1]
          BY <5>1, <2>2
        <5>. QED BY <5>1, <5>2, <5>3
      <4>. QED BY <4>1, <4>2
    <3>2. h = [i \in 0..n |-> h[i]]
      OBVIOUS
    <3>. HIDE DEF h
    <3>. QED BY <3>1, <3>2 DEF Outs
  <2>. QED BY <2>4
<1>. QED BY <1>1, <1>2

\* One more event.
LEMMA AddRises ==
  ASSUME NEW list, NEW n \in Nat, NEW p \in Nat, NEW q \in Nat,
         Rising(list, n), n < p, p <= q
  PROVE  /\ Rising(Append(list, [from |-> p, to |-> q]), q)
         /\ UpToEnd(Append(list, [from |-> p, to |-> q]), q)
         /\ Append(list, [from |-> p, to |-> q]) # <<>>
         /\ NoGap(list) /\ UpToEnd(list, p - 1) => NoGap(Append(list, [from |-> p, to |-> q]))
<1>. DEFINE item == [from |-> p, to |-> q]
            new == Append(list, item)
            k == Len(list)
<1>1. list \in Seq(Carrier) /\ item \in Carrier /\ item.from = p /\ item.to = q
  BY DEF Rising, Carrier
<1>. HIDE DEF item
<1>2. /\ new \in Seq(Carrier) /\ Len(new) = k + 1 /\ k \in Nat
      /\ DOMAIN new = 1..(k + 1) /\ DOMAIN list = 1..k
      /\ \A i \in 1..k : new[i] = list[i]
      /\ new[k + 1] = item
  BY <1>1
<1>3. new # <<>> /\ (list = <<>> <=> k = 0)
  BY <1>1, <1>2
<1>. HIDE DEF new, k
<1>4. \A i \in 1..k : list[i].from \in Nat /\ list[i].to \in Nat
  <2>1. \A i \in 1..k : list[i] \in Carrier
    BY <1>1, <1>2
  <2>. QED BY <2>1 DEF Carrier
<1>5. Rising(new, q)
  <2>1. \A i \in DOMAIN new : 1 <= new[i].from /\ new[i].from <= new[i].to /\ new[i].to <= q
    BY <1>1, <1>2, <1>4 DEF Rising
  <2>2. ASSUME NEW i \in 1..(k + 1), NEW j \in 1..(k + 1), i < j
        PROVE  new[i].to < new[j].from
    <3>1. i \in 1..k /\ new[i] = list[i] /\ list[i].to \in Nat /\ list[i].to <= n
      BY <1>2, <1>4, <2>2 DEF Rising
    <3>2. CASE j = k + 1
      BY <1>1, <1>2, <3>1, <3>2
    <3>3. CASE j # k + 1
      <4>1. j \in 1..k /\ new[j] = list[j]
        BY <1>2, <3>3
      <4>. QED BY <1>2, <2>2, <3>1, <4>1 DEF Rising
    <3>. QED BY <3>2, <3>3
  <2>. QED BY <1>2, <2>1, <2>2 DEF Rising
<1>6. UpToEnd(new, q)
  BY <1>1, <1>2 DEF UpToEnd
<1>7. ASSUME NoGap(list), UpToEnd(list, p - 1)
      PROVE  NoGap(new)
  <2>1. ASSUME NEW i \in DOMAIN new, i > 1
        PROVE  new[i].from = new[i - 1].to + 1
    <3>1. CASE i = k + 1
      <4>1. list[k].to = p - 1
        BY <1>2, <1>3, <1>7, <2>1, <3>1 DEF UpToEnd, k
      <4>. QED BY <1>1, <1>2, <2>1, <3>1, <4>1
    <3>2. CASE i # k + 1
      BY <1>2, <1>7, <2>1, <3>2 DEF NoGap
    <3>. QED BY <3>1, <3>2
  <2>. QED BY <2>1 DEF NoGap
<1>. QED BY <1>3, <1>5, <1>6, <1>7 DEF new, item

LEMMA AddTells ==
  ASSUME NEW list, NEW n \in Nat, Telling(list, n)
  PROVE  Telling(Append(list, [from |-> n + 1, to |-> n + 1]), n + 1)
<1>. DEFINE item == [from |-> n + 1, to |-> n + 1]
            new == Append(list, item)
<1>1. /\ Rising(new, n + 1) /\ UpToEnd(new, n + 1) /\ new # <<>> /\ NoGap(new)
  <2>1. Rising(list, n) /\ NoGap(list) /\ UpToEnd(list, (n + 1) - 1)
    BY DEF Telling
  <2>2. n + 1 \in Nat /\ n < n + 1 /\ n + 1 <= n + 1
    OBVIOUS
  <2>. QED BY <2>1, <2>2, AddRises
<1>2. new[1].from = 1
  <2>1. CASE list = <<>>
    <3>1. n = 0
      BY <2>1 DEF Telling
    <3>. QED BY <2>1, <3>1
  <2>2. CASE list # <<>>
    <3>1. list \in Seq(Carrier) /\ list[1].from = 1
      BY <2>2 DEF Telling, Rising
    <3>2. new[1] = list[1]
      BY <2>2, <3>1
    <3>. QED BY <3>1, <3>2
  <2>. QED BY <2>1, <2>2
<1>. QED BY <1>1, <1>2 DEF Telling

LEMMA NoneTells == Telling(<<>>, 0) /\ \A n : Rising(<<>>, n) /\ NoGap(<<>>) /\ UpToEnd(<<>>, n)
<1>1. <<>> \in Seq(Carrier) /\ DOMAIN <<>> = {}
  OBVIOUS
<1>. QED BY <1>1 DEF Telling, Rising, NoGap, UpToEnd

\* The last item takes in later events.
LEMMA StretchTells ==
  ASSUME NEW list \in Seq(Carrier), NEW n \in Nat, NEW id \in Nat, NEW k \in Nat, k # 0, n < id,
         NEW end \in Carrier, NEW new \in Seq(Carrier), DOMAIN list = 1..k, DOMAIN new = 1..k,
         Len(new) = k, end.from = list[k].from, end.to = id,
         \A i \in 1..k : new[i] = IF i = k THEN end ELSE list[i],
         Rising(list, n), NoGap(list)
  PROVE  Rising(new, id) /\ NoGap(new) /\ UpToEnd(new, id) /\ new[1].from = list[1].from
<1>1. \A i \in 1..k : /\ list[i].from \in Nat /\ list[i].to \in Nat
                       /\ new[i].from = list[i].from
                       /\ new[i].to = IF i = k THEN id ELSE list[i].to
  <2>1. \A i \in 1..k : list[i] \in Carrier
    OBVIOUS
  <2>. QED BY <2>1 DEF Carrier
<1>2. \A i \in 1..k : 1 <= list[i].from /\ list[i].from <= list[i].to /\ list[i].to <= n
  BY DEF Rising
<1>3. \A i \in 1..k : \A j \in 1..k : i < j => list[i].to < list[j].from
  BY DEF Rising
<1>4. Rising(new, id)
  <2>1. \A i \in 1..k : 1 <= new[i].from /\ new[i].from <= new[i].to /\ new[i].to <= id
    BY <1>1, <1>2
  <2>2. \A i, j \in 1..k : i < j => new[i].to < new[j].from
    BY <1>1, <1>3
  <2>. QED BY <2>1, <2>2 DEF Rising
<1>5. NoGap(new)
  <2>1. \A i \in 1..k : i > 1 => list[i].from = list[i - 1].to + 1
    BY DEF NoGap
  <2>2. \A i \in 1..k : i > 1 => new[i].from = new[i - 1].to + 1
    BY <1>1, <2>1
  <2>. QED BY <2>2 DEF NoGap
<1>6. UpToEnd(new, id) /\ new[1].from = list[1].from
  BY <1>1 DEF UpToEnd
<1>. QED BY <1>4, <1>5, <1>6

LEMMA FoldInTells ==
  ASSUME NEW kinds, NEW list, NEW n \in Nat, Telling(list, n)
  PROVE  Telling(FoldIn(kinds, list, n + 1), n + 1)
<1>. DEFINE id == n + 1
<1>1. list \in Seq(Carrier) /\ id \in Nat
  BY DEF Telling, Rising
<1>2. CASE list # <<>> /\ kinds[id] = "delta" /\ IsDelta(kinds, Last(list))
  <2>. DEFINE k == Len(list)
              end == [list[k] EXCEPT !.to = id]
              new == [list EXCEPT ![k] = end]
  <2>1. FoldIn(kinds, list, id) = new
    BY <1>2 DEF FoldIn
  <2>2. k \in DOMAIN list /\ k \in Nat /\ DOMAIN list = 1..k
    BY <1>1, <1>2
  <2>3. list[k] \in Carrier
    BY <1>1, <2>2
  <2>4. end \in Carrier /\ end.from = list[k].from /\ end.to = id
    BY <1>1, <2>3 DEF Carrier
  <2>. HIDE DEF end
  <2>5. /\ new \in Seq(Carrier) /\ Len(new) = k /\ DOMAIN new = 1..k
        /\ \A i \in DOMAIN list : new[i] = IF i = k THEN end ELSE list[i]
    BY <1>1, <2>2, <2>4
  <2>6. new # <<>>
    BY <2>2, <2>5
  <2>. HIDE DEF new, k
  <2>7. Rising(new, id) /\ NoGap(new) /\ UpToEnd(new, id) /\ new[1].from = list[1].from
    <3>1. /\ list \in Seq(Carrier) /\ id \in Nat /\ k \in Nat /\ k # 0 /\ n < id
          /\ DOMAIN list = 1..k /\ DOMAIN new = 1..k /\ Len(new) = k
          /\ \A i \in 1..k : new[i] = IF i = k THEN end ELSE list[i]
      BY <1>1, <2>2, <2>5
    <3>2. Rising(list, n) /\ NoGap(list)
      BY DEF Telling
    <3>. HIDE DEF k, new, id
    <3>. QED BY <2>4, <2>5, <3>1, <3>2, StretchTells
  <2>. QED BY <1>2, <2>1, <2>6, <2>7 DEF Telling
<1>3. CASE ~(list # <<>> /\ kinds[id] = "delta" /\ IsDelta(kinds, Last(list)))
  <2>1. FoldIn(kinds, list, id) = Append(list, [from |-> id, to |-> id])
    BY <1>3 DEF FoldIn
  <2>. QED BY <2>1, AddTells
<1>. QED BY <1>2, <1>3

\* The persisted log read back and folded is the whole story.
LEMMA CompactTells ==
  ASSUME NEW kinds \in Seq(Kinds)
  PROVE  Telling(CompactHot(kinds), Len(kinds))
<1>. DEFINE L == Len(kinds)
            G == CHOOSE g : Outs(kinds, g, L)
<1>1. L \in Nat
  OBVIOUS
<1>2. Outs(kinds, G, L)
  BY <1>1, OutsExist
<1>3. CompactHot(kinds) = G[L]
  BY DEF CompactHot, Outs
<1>. HIDE DEF G, L
<1>. DEFINE S == {n \in 0..L : ~Telling(G[n], n)}
<1>4. CASE S = {}
  <2>1. L \in 0..L /\ L \notin S
    BY <1>1, <1>4
  <2>. QED BY <1>3, <2>1 DEF L
<1>5. CASE S # {}
  <2>1. PICK n \in S : \A k \in S : n <= k
    <3>1. S \subseteq Nat
      BY <1>1
    <3>. HIDE DEF S
    <3>. QED BY <1>5, <3>1, LeastNat
  <2>2. n # 0
    <3>1. G[0] = <<>>
      BY <1>1, <1>2 DEF Outs
    <3>. QED BY <2>1, <3>1, NoneTells
  <2>3. n \in Nat /\ n - 1 \in 0..L /\ n - 1 \notin S /\ n \in 0..L
    BY <1>1, <2>1, <2>2
  <2>4. Telling(G[n - 1], n - 1)
    BY <2>3
  <2>5. G[n] = FoldIn(kinds, G[n - 1], n)
    BY <1>1, <1>2, <2>2, <2>3 DEF Outs
  <2>6. Telling(FoldIn(kinds, G[n - 1], n), n)
    <3>1. n - 1 \in Nat /\ (n - 1) + 1 = n
      BY <2>2, <2>3
    <3>. QED BY <2>4, <3>1, FoldInTells
  <2>. QED BY <2>1, <2>5, <2>6
<1>. QED BY <1>4, <1>5

\* A run of deltas that ends at place i begins somewhere.
LEMMA RunStarts ==
  ASSUME NEW kinds, NEW list, NEW i \in Nat, i # 0, IsDelta(kinds, list[i])
  PROVE  RunStart(kinds, list, i) \in 1..i
<1>. DEFINE S == {k \in 1..i : \A j \in k..i : IsDelta(kinds, list[j])}
<1>1. i \in S
  <2>1. \A j \in i..i : j = i
    OBVIOUS
  <2>. QED BY <2>1
<1>2. PICK k \in S : \A m \in S : k <= m
  <2>1. S \subseteq Nat /\ S # {}
    BY <1>1
  <2>. HIDE DEF S
  <2>. QED BY <2>1, LeastNat
<1>3. k > 1 => ~IsDelta(kinds, list[k - 1])
  <2>. SUFFICES ASSUME k > 1, IsDelta(kinds, list[k - 1]) PROVE FALSE
    OBVIOUS
  <2>1. k - 1 \in 1..i /\ k \in 1..i
    BY <1>2
  <2>2. \A j \in (k - 1)..i : IsDelta(kinds, list[j])
    <3>1. \A j \in (k - 1)..i : j = k - 1 \/ j \in k..i
      BY <2>1
    <3>. QED BY <1>2, <3>1
  <2>3. k - 1 \in S
    BY <2>1, <2>2
  <2>. QED BY <1>2, <2>1, <2>3
<1>. DEFINE P(n) == /\ \A j \in n..i : IsDelta(kinds, list[j])
                    /\ n > 1 => ~IsDelta(kinds, list[n - 1])
<1>4. k \in 1..i /\ P(k)
  BY <1>2, <1>3
<1>5. RunStart(kinds, list, i) = CHOOSE n \in 1..i : P(n)
  BY DEF RunStart
<1>. HIDE DEF P
<1>. QED BY <1>4, <1>5

\* Items k..i become one.
LEMMA MergeTells ==
  ASSUME NEW list \in Seq(Carrier), NEW n \in Nat, NEW i \in Nat, NEW k \in 1..i,
         DOMAIN list = 1..(i + 1), Rising(list, n),
         NEW new \in Seq(Carrier), DOMAIN new = 1..(k + 1), Len(new) = k + 1, Len(list) = i + 1,
         \A j \in 1..(k - 1) : new[j] = list[j],
         new[k] = [from |-> list[k].from, to |-> list[i].to], new[k + 1] = list[i + 1]
  PROVE  /\ Rising(new, n) /\ new[1].from = list[1].from
         /\ NoGap(list) => NoGap(new)
         /\ UpToEnd(list, n) => UpToEnd(new, n)
<1>1. \A j \in 1..(i + 1) : list[j].from \in Nat /\ list[j].to \in Nat
  <2>1. \A j \in 1..(i + 1) : list[j] \in Carrier
    OBVIOUS
  <2>. QED BY <2>1 DEF Carrier
<1>2. /\ \A j \in 1..k : new[j].from = list[j].from
      /\ \A j \in 1..(k - 1) : new[j].to = list[j].to
      /\ new[k].to = list[i].to /\ new[k + 1].from = list[i + 1].from
      /\ new[k + 1].to = list[i + 1].to
  OBVIOUS
<1>3. /\ \A j \in 1..(i + 1) : /\ 1 <= list[j].from /\ list[j].from <= list[j].to
                               /\ list[j].to <= n
      /\ \A j, m \in 1..(i + 1) : j < m => list[j].to < list[m].from
  BY DEF Rising
<1>4. Rising(new, n)
  <2>1. \A j \in 1..(k + 1) : j \in 1..(k - 1) \/ j = k \/ j = k + 1
    OBVIOUS
  <2>2. list[k].from <= list[i].to
    <3>1. k \in 1..(i + 1) /\ i \in 1..(i + 1) /\ (k = i \/ k < i)
      OBVIOUS
    <3>2. list[k].from <= list[k].to /\ list[i].from <= list[i].to
      BY <1>3, <3>1
    <3>3. list[k].from \in Nat /\ list[k].to \in Nat /\ list[i].from \in Nat /\ list[i].to \in Nat
      BY <1>1, <3>1
    <3>4. k < i => list[k].to < list[i].from
      BY <1>3, <3>1
    <3>. QED BY <3>1, <3>2, <3>3, <3>4
  <2>3. \A j \in 1..(k + 1) : 1 <= new[j].from /\ new[j].from <= new[j].to /\ new[j].to <= n
    <3>1. \A j \in 1..(k - 1) : 1 <= new[j].from /\ new[j].from <= new[j].to /\ new[j].to <= n
      BY <1>2, <1>3
    <3>2. 1 <= new[k].from /\ new[k].from <= new[k].to /\ new[k].to <= n
      BY <1>2, <1>3, <2>2
    <3>3. /\ 1 <= new[k + 1].from /\ new[k + 1].from <= new[k + 1].to
          /\ new[k + 1].to <= n
      BY <1>2, <1>3
    <3>. QED BY <2>1, <3>1, <3>2, <3>3
  <2>4. ASSUME NEW j \in 1..(k + 1), NEW m \in 1..(k + 1), j < m
        PROVE  new[j].to < new[m].from
    <3>1. CASE m = k + 1
      <4>1. new[m].from = list[i + 1].from
        BY <1>2, <3>1
      <4>2. CASE j = k
        BY <1>1, <1>2, <1>3, <4>1, <4>2
      <4>3. CASE j # k
        <5>1. j \in 1..(k - 1) /\ j < i + 1
          BY <2>4, <3>1, <4>3
        <5>. QED BY <1>2, <1>3, <4>1, <5>1
      <4>. QED BY <4>2, <4>3
    <3>2. CASE m # k + 1
      <4>1. j \in 1..(k - 1) /\ m \in 1..k
        BY <2>4, <3>2
      <4>. QED BY <1>2, <1>3, <2>4, <4>1
    <3>. QED BY <3>1, <3>2
  <2>. QED BY <2>3, <2>4 DEF Rising
<1>5. ASSUME NoGap(list)
      PROVE  NoGap(new)
  <2>1. \A j \in 1..(i + 1) : j > 1 => list[j].from = list[j - 1].to + 1
    BY <1>5 DEF NoGap
  <2>2. ASSUME NEW j \in 1..(k + 1), j > 1
        PROVE  new[j].from = new[j - 1].to + 1
    <3>1. CASE j = k + 1
      <4>1. list[i + 1].from = list[i].to + 1
        <5>1. i + 1 \in 1..(i + 1) /\ i + 1 > 1 /\ (i + 1) - 1 = i
          OBVIOUS
        <5>. QED BY <2>1, <5>1
      <4>2. j - 1 = k
        BY <3>1
      <4>. QED BY <1>2, <3>1, <4>1, <4>2
    <3>2. CASE j # k + 1
      <4>1. j \in 1..k /\ j - 1 \in 1..(k - 1) /\ j \in 1..(i + 1)
        BY <2>2, <3>2
      <4>. QED BY <1>2, <2>1, <2>2, <4>1
    <3>. QED BY <3>1, <3>2
  <2>. QED BY <2>2 DEF NoGap
<1>6. ASSUME UpToEnd(list, n)
      PROVE  UpToEnd(new, n)
  <2>1. list # <<>>
    OBVIOUS
  <2>. QED BY <1>2, <1>6, <2>1 DEF UpToEnd
<1>. QED BY <1>2, <1>4, <1>5, <1>6

LEMMA FoldTells ==
  ASSUME NEW kinds, NEW list, NEW n \in Nat, Rising(list, n)
  PROVE  /\ Rising(FoldClosed(kinds, list), n)
         /\ list # <<>> => FoldClosed(kinds, list) # <<>>
         /\ Telling(list, n) => Telling(FoldClosed(kinds, list), n)
<1>. DEFINE i == Len(list) - 1
            new == FoldClosed(kinds, list)
<1>1. list \in Seq(Carrier)
  BY DEF Rising
<1>2. CASE i < 2 \/ kinds[Last(list).to] # "end" \/ ~IsDelta(kinds, list[i])
  BY <1>2 DEF FoldClosed
<1>3. CASE ~(i < 2 \/ kinds[Last(list).to] # "end" \/ ~IsDelta(kinds, list[i]))
  <2>. DEFINE k == RunStart(kinds, list, i)
              m == [from |-> list[k].from, to |-> list[i].to]
              l == list[i + 1]
              pre == SubSeq(list, 1, k - 1)
  <2>1. i \in Nat /\ Len(list) = i + 1 /\ DOMAIN list = 1..(i + 1) /\ i # 0 /\ IsDelta(kinds, list[i])
    BY <1>1, <1>3
  <2>2. k \in 1..i
    BY <2>1, RunStarts
  <2>3. new = pre \o <<m, l>>
    BY <1>3, <2>1 DEF FoldClosed, Last
  <2>4. m \in Carrier /\ l \in Carrier
    <3>1. list[k] \in Carrier /\ list[i] \in Carrier /\ l \in Carrier
      <4>1. k \in 1..(i + 1) /\ i \in 1..(i + 1) /\ i + 1 \in 1..(i + 1)
        BY <2>1, <2>2
      <4>. HIDE DEF i, k
      <4>. QED BY <1>1, <2>1, <4>1
    <3>. QED BY <3>1 DEF Carrier
  <2>. HIDE DEF i, k
  <2>5. /\ pre \in Seq(Carrier) /\ Len(pre) = k - 1
        /\ \A j \in 1..(k - 1) : pre[j] = list[j]
    BY <1>1, <2>1, <2>2
  <2>. HIDE DEF pre, m, l, new
  <2>6. new \in Seq(Carrier)
    BY <2>3, <2>4, <2>5
  <2>7. Len(new) = k + 1 /\ DOMAIN new = 1..(k + 1)
    BY <2>2, <2>3, <2>4, <2>5
  <2>8. \A j \in 1..(k - 1) : new[j] = list[j]
    BY <2>2, <2>3, <2>4, <2>5
  <2>9. new[k] = m /\ new[k + 1] = l
    <3>. DEFINE tail == <<m, l>>
    <3>1. tail \in Seq(Carrier) /\ Len(tail) = 2 /\ tail[1] = m /\ tail[2] = l
      BY <2>4
    <3>. HIDE DEF tail
    <3>2. \A j \in 1..(k + 1) : new[j] = IF j <= k - 1 THEN pre[j] ELSE tail[j - (k - 1)]
      BY <2>2, <2>3, <2>5, <3>1 DEF tail
    <3>3. k \in 1..(k + 1) /\ k + 1 \in 1..(k + 1) /\ k - (k - 1) = 1 /\ (k + 1) - (k - 1) = 2
          /\ ~(k <= k - 1) /\ ~(k + 1 <= k - 1)
      BY <2>2
    <3>. QED BY <3>1, <3>2, <3>3
  <2>10. /\ Rising(new, n) /\ new[1].from = list[1].from
         /\ NoGap(list) => NoGap(new)
         /\ UpToEnd(list, n) => UpToEnd(new, n)
    BY <1>1, <2>1, <2>2, <2>6, <2>7, <2>8, <2>9, MergeTells DEF m, l
  <2>11. new # <<>> /\ list # <<>>
    BY <1>1, <2>1, <2>2, <2>6, <2>7
  <2>. QED BY <2>10, <2>11 DEF Telling, new
<1>. QED BY <1>2, <1>3

\* What a reader that knows `cursor` is sent: the items after it.
LEMMA AfterTells ==
  ASSUME NEW list, NEW n \in Nat, NEW cursor \in Nat, Rising(list, n)
  PROVE  LET items == After(list, cursor)
         IN /\ Rising(items, n) /\ \A i \in DOMAIN items : cursor < items[i].from
            /\ Telling(list, n) /\ (cursor = 0 \/ \E i \in DOMAIN list : list[i].to = cursor)
                 => /\ NoGap(items) /\ UpToEnd(items, n)
                    /\ IF items = <<>> THEN cursor = n ELSE items[1].from = cursor + 1
<1>. DEFINE known == {i \in DOMAIN list : list[i].to = cursor}
            items == After(list, cursor)
            k == Len(list)
<1>1. /\ list \in Seq(Carrier) /\ k \in Nat /\ DOMAIN list = 1..k
      /\ \A i \in 1..k : list[i].from \in Nat /\ list[i].to \in Nat
  <2>1. list \in Seq(Carrier)
    BY DEF Rising
  <2>2. \A i \in 1..k : list[i] \in Carrier
    BY <2>1
  <2>. QED BY <2>1, <2>2 DEF Carrier
<1>2. CASE cursor = 0
  <2>1. items = list
    BY <1>2 DEF After
  <2>2. \A i \in DOMAIN list : cursor < list[i].from
    BY <1>1, <1>2 DEF Rising
  <2>3. Telling(list, n) => /\ NoGap(list) /\ UpToEnd(list, n)
                            /\ IF list = <<>> THEN cursor = n ELSE list[1].from = cursor + 1
    BY <1>2 DEF Telling
  <2>. QED BY <2>1, <2>2, <2>3
<1>3. CASE cursor # 0 /\ known = {}
  <2>1. items = <<>>
    BY <1>3 DEF After
  <2>2. ~(cursor = 0 \/ \E i \in DOMAIN list : list[i].to = cursor)
    BY <1>3
  <2>. QED BY <2>1, <2>2, NoneTells
<1>4. CASE cursor # 0 /\ known # {}
  <2>1. PICK i \in 1..k : list[i].to = cursor
    BY <1>1, <1>4
  <2>2. \A j \in known : j = i
    <3>1. ASSUME NEW j \in 1..k, list[j].to = cursor, j # i
          PROVE  FALSE
      <4>1. \A p, q \in 1..k : p < q => list[p].to < list[q].from
        BY <1>1 DEF Rising
      <4>2. \A p \in 1..k : list[p].from <= list[p].to
        BY <1>1 DEF Rising
      <4>3. i < j \/ j < i
        BY <3>1
      <4>. QED BY <1>1, <2>1, <3>1, <4>1, <4>2, <4>3
    <3>. QED BY <1>1, <3>1
  <2>3. known = {i}
    BY <1>1, <2>1, <2>2
  <2>4. Max(known) = i
    <3>. HIDE DEF known
    <3>. QED BY <2>1, <2>3 DEF Max
  <2>5. items = SubSeq(list, i + 1, k)
    <3>1. items = SubSeq(list, Max(known) + 1, k)
      BY <1>4 DEF After
    <3>. QED BY <2>4, <3>1
  <2>. HIDE DEF items, known, k
  <2>6. /\ items \in Seq(Carrier) /\ Len(items) = k - i /\ DOMAIN items = 1..(k - i)
        /\ \A j \in 1..(k - i) : items[j] = list[i + j]
    <3>1. i + 1 \in 1..(k + 1) /\ k \in 0..k /\ k \in Nat /\ i \in Nat
      BY <1>1, <2>1
    <3>2. k = Len(list)
      BY DEF k
    <3>5. items \in Seq(Carrier)
      BY <1>1, <2>5, <3>1, <3>2
    <3>6. Len(items) = k - i
      <4>1. Len(SubSeq(list, i + 1, k)) = IF i + 1 <= k THEN k - (i + 1) + 1 ELSE 0
        BY <1>1, <3>1
      <4>. QED BY <1>1, <2>5, <3>1, <4>1
    <3>7. \A j \in 1..(k - i) : items[j] = list[(i + 1) + j - 1]
      BY <1>1, <2>5, <3>1, <3>2
    <3>3. /\ items \in Seq(Carrier) /\ Len(items) = k - i
          /\ \A j \in 1..(k - i) : items[j] = list[(i + 1) + j - 1]
      BY <3>5, <3>6, <3>7
    <3>4. \A j \in 1..(k - i) : (i + 1) + j - 1 = i + j
      BY <3>1
    <3>. QED BY <3>3, <3>4
  <2>7. \A j \in 1..(k - i) : i + j \in 1..k /\ i < i + j
    BY <1>1, <2>1
  <2>8. Rising(items, n)
    <3>1. \A j \in 1..(k - i) : /\ 1 <= items[j].from /\ items[j].from <= items[j].to
                                 /\ items[j].to <= n
      BY <1>1, <2>6, <2>7 DEF Rising
    <3>2. ASSUME NEW p \in 1..(k - i), NEW q \in 1..(k - i), p < q
          PROVE  items[p].to < items[q].from
      <4>1. i + p < i + q /\ i + p \in 1..k /\ i + q \in 1..k
        BY <2>1, <2>7, <3>2
      <4>2. list[i + p].to < list[i + q].from
        BY <1>1, <4>1 DEF Rising
      <4>. QED BY <2>6, <4>2
    <3>. QED BY <2>6, <3>1, <3>2 DEF Rising
  <2>9. \A j \in DOMAIN items : cursor < items[j].from
    <3>1. ASSUME NEW j \in 1..(k - i)
          PROVE  cursor < items[j].from
      <4>1. list[i].to < list[i + j].from
        BY <1>1, <2>1, <2>7 DEF Rising
      <4>. QED BY <2>1, <2>6, <4>1
    <3>. QED BY <2>6, <3>1
  <2>10. ASSUME Telling(list, n)
         PROVE  /\ NoGap(items) /\ UpToEnd(items, n)
                /\ IF items = <<>> THEN cursor = n ELSE items[1].from = cursor + 1
    <3>1. \A j \in 1..k : j > 1 => list[j].from = list[j - 1].to + 1
      BY <1>1, <2>10 DEF Telling, NoGap
    <3>2. list # <<>> /\ list[k].to = n
      <4>1. k # 0
        BY <1>1, <2>1
      <4>2. list # <<>>
        BY <4>1 DEF k
      <4>. QED BY <2>10, <4>2 DEF Telling, UpToEnd, k
    <3>3. NoGap(items)
      <4>1. ASSUME NEW j \in 1..(k - i), j > 1
            PROVE  items[j].from = items[j - 1].to + 1
        <5>1. j - 1 \in 1..(k - i) /\ (i + j) - 1 = i + (j - 1) /\ i + j > 1
          BY <1>1, <2>1, <4>1
        <5>. QED BY <2>6, <2>7, <3>1, <5>1
      <4>. QED BY <2>6, <4>1 DEF NoGap
    <3>4. UpToEnd(items, n)
      <4>1. ASSUME items # <<>>
            PROVE  items[Len(items)].to = n
        <5>1. k - i \in 1..(k - i) /\ i + (k - i) = k
          BY <1>1, <2>1, <2>6, <4>1
        <5>. QED BY <2>6, <3>2, <5>1
      <4>. QED BY <4>1 DEF UpToEnd
    <3>5. CASE items = <<>>
      <4>1. k = i
        BY <1>1, <2>1, <2>6, <3>5
      <4>. QED BY <2>1, <3>2, <3>3, <3>4, <3>5, <4>1
    <3>6. CASE items # <<>>
      <4>1. 1 \in 1..(k - i) /\ (i + 1) - 1 = i /\ i + 1 > 1
        BY <1>1, <2>1, <2>6, <3>6
      <4>2. items[1].from = list[i].to + 1
        BY <2>6, <2>7, <3>1, <4>1
      <4>. QED BY <2>1, <3>3, <3>4, <3>6, <4>2
    <3>. QED BY <3>5, <3>6
  <2>. QED BY <2>8, <2>9, <2>10 DEF items
<1>. QED BY <1>2, <1>3, <1>4

\* What a transcript made of a list shows.
LEMMA CoveredIs ==
  ASSUME NEW list, NEW n \in Nat, Rising(list, n)
  PROVE  LET s == SnapshotOf(list)
         IN /\ s \in [last : Nat, shown : SUBSET Nat]
            /\ s.last <= n /\ s.shown \subseteq 1..s.last
            /\ Telling(list, n) => s.last = n /\ s.shown = 1..n
<1>. DEFINE k == Len(list)
            last == IF list = <<>> THEN 0 ELSE list[k].to
            s == SnapshotOf(list)
<1>1. /\ list \in Seq(Carrier) /\ k \in Nat /\ DOMAIN list = 1..k
      /\ \A i \in 1..k : list[i].from \in Nat /\ list[i].to \in Nat
  <2>1. list \in Seq(Carrier)
    BY DEF Rising
  <2>2. \A i \in 1..k : list[i] \in Carrier
    BY <2>1
  <2>. QED BY <2>1, <2>2 DEF Carrier
<1>2. s = [last |-> last, shown |-> Covered(list)]
  BY DEF SnapshotOf, Last
<1>3. list = <<>> <=> k = 0
  BY <1>1
<1>. HIDE DEF s, k
<1>4. last \in Nat /\ last <= n
  BY <1>1, <1>3 DEF Rising
<1>5. ASSUME NEW i \in 1..k
      PROVE  1 <= list[i].from /\ list[i].from <= list[i].to /\ list[i].to <= last
  <2>1. 1 <= list[i].from /\ list[i].from <= list[i].to
    BY <1>1 DEF Rising
  <2>2. last = list[k].to /\ k \in 1..k
    BY <1>1, <1>3
  <2>3. CASE i = k
    BY <1>1, <2>1, <2>2, <2>3
  <2>4. CASE i # k
    <3>1. list[i].to < list[k].from /\ list[k].from <= list[k].to
      BY <1>1, <2>2, <2>4 DEF Rising
    <3>. QED BY <1>1, <2>1, <2>2, <3>1
  <2>. QED BY <2>3, <2>4
<1>. HIDE DEF last
<1>6. Covered(list) \subseteq 1..last
  <2>1. ASSUME NEW i \in 1..k, NEW x \in list[i].from..list[i].to
        PROVE  x \in 1..last
    <3>1. 1 <= list[i].from /\ list[i].to <= last /\ list[i].from \in Nat /\ list[i].to \in Nat
      BY <1>1, <1>5
    <3>. QED BY <1>4, <3>1
  <2>. QED BY <1>1, <2>1 DEF Covered
<1>7. ASSUME Telling(list, n)
      PROVE  last = n /\ 1..n \subseteq Covered(list)
  <2>1. last = n
    BY <1>3, <1>7 DEF Telling, UpToEnd, last, k
  <2>2. ASSUME NEW x \in 1..n
        PROVE  \E i \in 1..k : x \in list[i].from..list[i].to
    <3>. DEFINE S == {i \in 1..k : x <= list[i].to}
    <3>1. k \in S
      <4>1. list # <<>>
        BY <1>7, <2>2 DEF Telling
      <4>2. k \in 1..k /\ list[k].to = n
        BY <1>1, <1>3, <1>7, <4>1 DEF Telling, UpToEnd, k
      <4>. QED BY <2>2, <4>2
    <3>2. PICK i \in S : \A j \in S : i <= j
      <4>1. S \subseteq Nat /\ S # {}
        BY <1>1, <3>1
      <4>. HIDE DEF S
      <4>. QED BY <4>1, LeastNat
    <3>3. list[i].from <= x
      <4>1. CASE i = 1
        <5>1. list # <<>>
          BY <1>3, <3>2
        <5>. QED BY <1>7, <2>2, <4>1, <5>1 DEF Telling
      <4>2. CASE i # 1
        <5>1. i - 1 \in 1..k /\ i - 1 \notin S /\ i \in 1..k /\ i > 1
          BY <3>2, <4>2, <1>1
        <5>2. list[i - 1].to < x
          BY <1>1, <2>2, <5>1
        <5>3. list[i].from = list[i - 1].to + 1
          BY <1>1, <1>7, <5>1 DEF Telling, NoGap
        <5>. QED BY <1>1, <2>2, <5>1, <5>2, <5>3
      <4>. QED BY <4>1, <4>2
    <3>4. i \in 1..k /\ list[i].from \in Nat /\ list[i].to \in Nat /\ x <= list[i].to
      BY <1>1, <3>2
    <3>. QED BY <2>2, <3>3, <3>4
  <2>. QED BY <1>1, <2>1, <2>2 DEF Covered
<1>8. Covered(list) \subseteq Nat
  BY <1>4, <1>6
<1>9. s.last = last /\ s.shown = Covered(list) /\ s \in [last : Nat, shown : SUBSET Nat]
  BY <1>2, <1>4, <1>8
<1>10. Telling(list, n) => s.last = n /\ s.shown = 1..n
  BY <1>6, <1>7, <1>9
<1>. QED BY <1>4, <1>6, <1>9, <1>10 DEF s

-----------------------------------------------------------------------------
Shot == [last : Nat, shown : SUBSET Nat]
ReaderRec ==
  [pc : {"closed", "opening", "off", "open"}, snapshot : Shot, shown : SUBSET Nat,
   applied : SUBSET Nat, cursor : Nat, last : Nat, poll : {"no", "run", "body"}, polled : Shot]
PastRec == [breaks : Nat, twice : BOOLEAN, lostCursor : BOOLEAN, polled : BOOLEAN,
            stale : BOOLEAN, late : BOOLEAN]

\* A transcript of some of the first n events, up to its last.
Seen(s, n) == s \in Shot /\ s.last <= n /\ s.shown \subseteq 1..s.last
AllShown(s) == s.shown = 1..s.last
ReaderTyped(r, w, n) ==
  /\ r \in ReaderRec /\ Seen(r.snapshot, n) /\ Seen(r.polled, n)
  /\ Rising(w, n) /\ (w # <<>> => r.pc = "open")
  /\ r.pc \in {"closed", "opening"} => r.applied = {}
\* A reader no snapshot was polled for: what comes is after all it has shown.
Follows(r, w, n) ==
  /\ r.last = r.cursor /\ r.cursor <= n
  /\ r.shown \subseteq 1..r.cursor /\ r.applied \subseteq 1..r.cursor
  /\ \A i \in DOMAIN w : r.cursor < w[i].from
\* A reader that shows the first m events, and what comes goes on from there, or before.
Shows(r, w, n, m) ==
  /\ m \in 0..n /\ r.shown = 1..m /\ r.applied \subseteq r.shown
  /\ r.cursor <= m /\ r.last <= m
  /\ NoGap(w) /\ UpToEnd(w, n)
  /\ IF w = <<>> THEN r.pc = "open" => m = n ELSE w[1].from <= m + 1

HotWhole(h, n) == IF h = <<>> THEN archived \/ n = 0 ELSE ~archived /\ Telling(h, n)
LogWhole ==
  /\ HotWhole(hot, Len(log)) /\ AllShown(saved) /\ AllShown(reader.snapshot)
  /\ reader.poll = "body" => AllShown(reader.polled)
StreamTyped ==
  /\ log \in Seq(Kinds) /\ archived \in BOOLEAN /\ past \in PastRec
  /\ Rising(hot, Len(log)) /\ Seen(saved, Len(log)) /\ ReaderTyped(reader, wire, Len(log))
Once == past.polled \/ (~past.twice /\ Follows(reader, wire, Len(log)))
NoHole == past.lostCursor \/ past.stale \/ past.late \/ \E m \in Nat : Shows(reader, wire, Len(log), m)
SInv == StreamTyped /\ Once /\ (past.late \/ LogWhole) /\ NoHole

\* An event is sent to the reader if its stream is open.
Sent(w, r, n) == IF r.pc = "open" THEN Append(w, [from |-> n + 1, to |-> n + 1]) ELSE w

LEMMA RisesMore ==
  ASSUME NEW list, NEW n \in Nat, Rising(list, n)
  PROVE  Rising(list, n + 1)
<1>1. \A i \in DOMAIN list : list[i].to \in Nat
  <2>1. \A i \in DOMAIN list : list[i] \in Carrier
    BY DEF Rising
  <2>. QED BY <2>1 DEF Carrier
<1>. QED BY <1>1 DEF Rising

LEMMA SentKeeps ==
  ASSUME NEW w, NEW n \in Nat, NEW r, ReaderTyped(r, w, n)
  PROVE  /\ ReaderTyped(r, Sent(w, r, n), n + 1)
         /\ Follows(r, w, n) => Follows(r, Sent(w, r, n), n + 1)
         /\ \A m \in Nat : Shows(r, w, n, m) => Shows(r, Sent(w, r, n), n + 1, m)
<1>1. Rising(w, n) /\ Rising(w, n + 1) /\ w \in Seq(Carrier) /\ Len(w) \in Nat /\ DOMAIN w = 1..Len(w)
  <2>1. Rising(w, n)
    BY DEF ReaderTyped
  <2>2. w \in Seq(Carrier)
    BY <2>1 DEF Rising
  <2>. QED BY <2>1, <2>2, RisesMore
<1>2. /\ r.cursor \in Nat /\ r.last \in Nat /\ r.snapshot.last \in Nat /\ r.polled.last \in Nat
  BY DEF ReaderTyped, ReaderRec, Shot
<1>3. Seen(r.snapshot, n + 1) /\ Seen(r.polled, n + 1)
  BY <1>2 DEF ReaderTyped, Seen
<1>4. CASE r.pc # "open"
  <2>1. Sent(w, r, n) = w /\ w = <<>>
    BY <1>4 DEF Sent, ReaderTyped
  <2>2. ReaderTyped(r, w, n + 1)
    BY <1>1, <1>3 DEF ReaderTyped
  <2>3. Follows(r, w, n) => Follows(r, w, n + 1)
    BY <1>2 DEF Follows
  <2>4. \A m \in Nat : Shows(r, w, n, m) => Shows(r, w, n + 1, m)
    BY <1>4, <2>1 DEF Shows, UpToEnd
  <2>. QED BY <2>1, <2>2, <2>3, <2>4
<1>5. CASE r.pc = "open"
  <2>. DEFINE new == Append(w, [from |-> n + 1, to |-> n + 1])
  <2>1. Sent(w, r, n) = new
    BY <1>5 DEF Sent
  <2>2. /\ Rising(new, n + 1) /\ UpToEnd(new, n + 1) /\ new # <<>>
        /\ NoGap(w) /\ UpToEnd(w, (n + 1) - 1) => NoGap(new)
    <3>1. n + 1 \in Nat /\ n < n + 1 /\ n + 1 <= n + 1
      OBVIOUS
    <3>. QED BY <1>1, <3>1, AddRises
  <2>3. /\ DOMAIN new = 1..(Len(w) + 1) /\ \A i \in 1..Len(w) : new[i] = w[i]
        /\ new[Len(w) + 1].from = n + 1
    BY <1>1
  <2>4. ReaderTyped(r, new, n + 1)
    BY <1>3, <1>5, <2>2 DEF ReaderTyped
  <2>. HIDE DEF new
  <2>5. Follows(r, w, n) => Follows(r, new, n + 1)
    BY <1>1, <1>2, <2>3 DEF Follows
  <2>6. ASSUME NEW m \in Nat, Shows(r, w, n, m)
        PROVE  Shows(r, new, n + 1, m)
    <3>1. (n + 1) - 1 = n
      OBVIOUS
    <3>2. NoGap(new)
      BY <2>2, <2>6, <3>1 DEF Shows
    <3>3. new[1].from <= m + 1
      <4>1. CASE w = <<>>
        <5>1. Len(w) = 0 /\ m = n
          BY <1>5, <2>6, <4>1 DEF Shows
        <5>. QED BY <2>3, <5>1
      <4>2. CASE w # <<>>
        <5>1. 1 \in 1..Len(w)
          BY <1>1, <4>2
        <5>. QED BY <2>3, <2>6, <4>2, <5>1 DEF Shows
      <4>. QED BY <4>1, <4>2
    <3>. QED BY <2>2, <2>6, <3>2, <3>3 DEF Shows
  <2>. QED BY <2>1, <2>4, <2>5, <2>6
<1>. QED BY <1>4, <1>5

LEMMA TailTells ==
  ASSUME NEW w, NEW n \in Nat, Rising(w, n), w # <<>>
  PROVE  /\ Rising(Tail(w), n) /\ Head(w) \in Carrier /\ Head(w) = w[1]
         /\ 1 <= Head(w).from /\ Head(w).from <= Head(w).to /\ Head(w).to <= n
         /\ \A i \in DOMAIN Tail(w) : Head(w).to < Tail(w)[i].from
         /\ NoGap(w) => NoGap(Tail(w)) /\ (Tail(w) # <<>> => Tail(w)[1].from = Head(w).to + 1)
         /\ UpToEnd(w, n) => UpToEnd(Tail(w), n) /\ (Tail(w) = <<>> => Head(w).to = n)
<1>. DEFINE k == Len(w)
            t == Tail(w)
<1>1. w \in Seq(Carrier) /\ k \in Nat /\ DOMAIN w = 1..k /\ k # 0 /\ 1 \in 1..k
  BY DEF Rising
<1>2. /\ t \in Seq(Carrier) /\ Len(t) = k - 1 /\ DOMAIN t = 1..(k - 1)
      /\ \A i \in 1..(k - 1) : t[i] = w[i + 1]
  BY <1>1
<1>3. Head(w) = w[1] /\ w[1] \in Carrier
  BY <1>1
<1>. HIDE DEF t, k
<1>4. t = <<>> <=> k = 1
  BY <1>1, <1>2
<1>5. \A i \in 1..(k - 1) : i + 1 \in 1..k /\ 1 < i + 1 /\ (i > 1 => i - 1 \in 1..(k - 1) /\ (i + 1) - 1 = (i - 1) + 1)
  BY <1>1
<1>6. Rising(t, n)
  <2>1. \A i \in 1..(k - 1) : 1 <= t[i].from /\ t[i].from <= t[i].to /\ t[i].to <= n
    BY <1>1, <1>2, <1>5 DEF Rising
  <2>2. ASSUME NEW i \in 1..(k - 1), NEW j \in 1..(k - 1), i < j
        PROVE  t[i].to < t[j].from
    <3>1. i + 1 < j + 1 /\ i + 1 \in 1..k /\ j + 1 \in 1..k
      BY <1>5, <2>2
    <3>2. w[i + 1].to < w[j + 1].from
      BY <1>1, <3>1 DEF Rising
    <3>. QED BY <1>2, <3>2
  <2>. QED BY <1>2, <2>1, <2>2 DEF Rising
<1>7. 1 <= w[1].from /\ w[1].from <= w[1].to /\ w[1].to <= n
  BY <1>1 DEF Rising
<1>8. \A i \in 1..(k - 1) : w[1].to < t[i].from
  BY <1>1, <1>2, <1>5 DEF Rising
<1>9. ASSUME NoGap(w)
      PROVE  NoGap(t) /\ (t # <<>> => t[1].from = w[1].to + 1)
  <2>1. \A i \in 1..k : i > 1 => w[i].from = w[i - 1].to + 1
    BY <1>1, <1>9 DEF NoGap
  <2>2. \A i \in 1..(k - 1) : i > 1 => t[i].from = t[i - 1].to + 1
    BY <1>2, <1>5, <2>1
  <2>3. ASSUME t # <<>>
        PROVE  t[1].from = w[1].to + 1
    <3>1. 1 \in 1..(k - 1) /\ 1 + 1 = 2 /\ 2 \in 1..k /\ 2 > 1 /\ 2 - 1 = 1
      BY <1>1, <1>4, <2>3
    <3>2. t[1] = w[2]
      BY <1>2, <3>1
    <3>. QED BY <2>1, <3>1, <3>2
  <2>. QED BY <1>2, <2>2, <2>3 DEF NoGap
<1>10. ASSUME UpToEnd(w, n)
       PROVE  UpToEnd(t, n) /\ (t = <<>> => w[1].to = n)
  <2>1. w[k].to = n
    BY <1>10 DEF UpToEnd, k
  <2>2. ASSUME t # <<>>
        PROVE  t[Len(t)].to = n
    <3>1. k - 1 \in 1..(k - 1) /\ (k - 1) + 1 = k
      BY <1>1, <1>4, <2>2
    <3>. QED BY <1>2, <2>1, <3>1
  <2>. QED BY <1>4, <2>1, <2>2 DEF UpToEnd
<1>. QED BY <1>2, <1>3, <1>6, <1>7, <1>8, <1>9, <1>10 DEF t

\* What the log of a run gives to a reader.
LEMMA LogGives ==
  ASSUME StreamTyped
  PROVE  LET n == Len(log)
         IN /\ n \in Nat /\ Rising(EventsForRun, n) /\ Seen(SnapshotForRun, n)
            /\ ~past.late /\ LogWhole => Telling(EventsForRun, n) /\ AllShown(SnapshotForRun)
            /\ LastEventId \in 0..n
<1>. DEFINE n == Len(log)
<1>1. n \in Nat /\ log \in Seq(Kinds)
  BY DEF StreamTyped
<1>2. Telling(CompactHot(log), n)
  BY <1>1, CompactTells
<1>. HIDE DEF n
<1>3. Rising(EventsForRun, n)
  BY <1>2 DEF EventsForRun, Telling, StreamTyped, n
<1>4. ASSUME ~past.late, LogWhole
      PROVE  Telling(EventsForRun, n)
  <2>1. CASE hot = <<>>
    BY <1>2, <2>1 DEF EventsForRun
  <2>2. CASE hot # <<>>
    BY <1>4, <2>2 DEF EventsForRun, LogWhole, HotWhole, n
  <2>. QED BY <2>1, <2>2
<1>5. Seen(SnapshotForRun, n) /\ (~past.late /\ LogWhole => AllShown(SnapshotForRun))
  <2>1. CASE hot = <<>> /\ saved.last = Len(log)
    <3>1. SnapshotForRun = saved
      BY <2>1 DEF SnapshotForRun
    <3>. QED BY <3>1 DEF StreamTyped, LogWhole, n
  <2>2. CASE ~(hot = <<>> /\ saved.last = Len(log))
    <3>1. SnapshotForRun = SnapshotOf(EventsForRun)
      BY <2>2 DEF SnapshotForRun
    <3>2. LET s == SnapshotOf(EventsForRun)
          IN /\ s \in [last : Nat, shown : SUBSET Nat]
             /\ s.last <= n /\ s.shown \subseteq 1..s.last
             /\ Telling(EventsForRun, n) => s.last = n /\ s.shown = 1..n
      BY <1>1, <1>3, CoveredIs
    <3>. QED BY <1>4, <3>1, <3>2 DEF Seen, AllShown, Shot
  <2>. QED BY <2>1, <2>2
<1>6. LastEventId \in 0..n
  <2>1. CASE hot = <<>>
    BY <1>1, <2>1 DEF LastEventId, n
  <2>2. CASE hot # <<>>
    <3>1. hot \in Seq(Carrier) /\ Len(hot) \in 1..Len(hot) /\ DOMAIN hot = 1..Len(hot)
      <4>1. hot \in Seq(Carrier)
        BY DEF StreamTyped, Rising
      <4>. QED BY <2>2, <4>1
    <3>2. hot[Len(hot)].to \in Nat
      <4>1. hot[Len(hot)] \in Carrier
        BY <3>1
      <4>. QED BY <4>1 DEF Carrier
    <3>3. hot[Len(hot)].to <= n
      BY <3>1 DEF StreamTyped, Rising, n
    <3>. QED BY <1>1, <2>2, <3>2, <3>3 DEF LastEventId, Last
  <2>. QED BY <2>1, <2>2
<1>. QED BY <1>1, <1>3, <1>4, <1>5, <1>6 DEF n

LEMMA SInit == StreamInit => SInv
<1>. SUFFICES ASSUME StreamInit PROVE SInv
  OBVIOUS
<1>1. log = <<>> /\ Len(log) = 0 /\ log \in Seq(Kinds)
  BY DEF StreamInit
<1>2. Seen(Nothing, 0) /\ AllShown(Nothing) /\ Nothing \in Shot
  BY DEF Nothing, Seen, AllShown, Shot
<1>3. past \in PastRec /\ archived \in BOOLEAN /\ past.twice = FALSE /\ archived = FALSE
  BY DEF StreamInit, PastRec
<1>4. /\ reader.pc = "closed" /\ reader.snapshot = Nothing /\ reader.shown = {}
      /\ reader.applied = {} /\ reader.cursor = 0 /\ reader.last = 0 /\ reader.poll = "no"
      /\ reader.polled = Nothing /\ reader \in ReaderRec
  BY <1>2 DEF StreamInit, ReaderRec
<1>5. hot = <<>> /\ wire = <<>> /\ saved = Nothing
  BY DEF StreamInit
<1>6. ReaderTyped(reader, wire, 0)
  BY <1>2, <1>4, <1>5, NoneTells DEF ReaderTyped
<1>7. StreamTyped
  BY <1>1, <1>2, <1>3, <1>5, <1>6, NoneTells DEF StreamTyped
<1>8. Follows(reader, wire, 0)
  BY <1>4, <1>5 DEF Follows
<1>9. Shows(reader, wire, 0, 0)
  BY <1>4, <1>5, NoneTells DEF Shows
<1>10. LogWhole
  BY <1>1, <1>2, <1>4, <1>5 DEF LogWhole, HotWhole
<1>. QED BY <1>1, <1>3, <1>7, <1>8, <1>9, <1>10 DEF SInv, Once, NoHole

\* What the control plane does to the log, to memory and to the wire.
LEMMA PublishKeeps ==
  ASSUME SInv, NEW kind \in Kinds, PublishEvent(kind)
  PROVE  SInv'
<1>. DEFINE n == Len(log)
            id == n + 1
            grown == Append(hot, [from |-> id, to |-> id])
            list == FoldClosed(Append(log, kind), grown)
<1>1. /\ log \in Seq(Kinds) /\ n \in Nat /\ log' = Append(log, kind) /\ Len(log') = id
      /\ log' \in Seq(Kinds) /\ Rising(hot, n) /\ Seen(saved, n) /\ ReaderTyped(reader, wire, n)
  BY DEF SInv, StreamTyped, PublishEvent, Publish
<1>2. /\ hot' = list /\ reader' = reader /\ archived' = archived
      /\ saved' = IF kind = "delta" THEN saved ELSE SnapshotOf(list)
      /\ wire' = Sent(wire, reader, n)
  BY DEF PublishEvent, Publish, Sent
<1>3. PICK v \in BOOLEAN : past' = [past EXCEPT !.late = v] /\ v = (past.late \/ archived)
  <2>1. past' = [past EXCEPT !.late = past.late \/ archived]
    BY DEF PublishEvent
  <2>. QED BY <2>1
<1>4. /\ past' \in PastRec /\ past'.late = v /\ past'.polled = past.polled
      /\ past'.twice = past.twice /\ past'.lostCursor = past.lostCursor /\ past'.stale = past.stale
  BY <1>3 DEF SInv, StreamTyped, PastRec
<1>5. Rising(grown, id) /\ grown # <<>> /\ (Telling(hot, n) => Telling(grown, id))
  <2>1. id \in Nat /\ n < id /\ id <= id
    BY <1>1
  <2>. QED BY <1>1, <2>1, AddRises, AddTells
<1>. HIDE DEF grown
<1>6. Rising(list, id) /\ list # <<>> /\ (Telling(grown, id) => Telling(list, id))
  <2>1. id \in Nat
    BY <1>1
  <2>. HIDE DEF id
  <2>. QED BY <1>5, <2>1, FoldTells
<1>. HIDE DEF list
<1>7. Seen(saved', id)
  <2>1. CASE kind = "delta"
    BY <1>1, <1>2, <2>1 DEF Seen, Shot
  <2>2. CASE kind # "delta"
    <3>1. saved' = SnapshotOf(list) /\ id \in Nat
      BY <1>1, <1>2, <2>2
    <3>. HIDE DEF id
    <3>. QED BY <1>6, <3>1, CoveredIs DEF Seen, Shot
  <2>. QED BY <2>1, <2>2
<1>8. /\ ReaderTyped(reader, wire', id)
      /\ Follows(reader, wire, n) => Follows(reader, wire', id)
      /\ \A m \in Nat : Shows(reader, wire, n, m) => Shows(reader, wire', id, m)
  BY <1>1, <1>2, SentKeeps
<1>9. StreamTyped'
  BY <1>1, <1>2, <1>4, <1>6, <1>7, <1>8 DEF StreamTyped, SInv
<1>10. Once'
  BY <1>1, <1>2, <1>4, <1>8 DEF SInv, Once
<1>11. NoHole'
  BY <1>1, <1>2, <1>3, <1>4, <1>8 DEF SInv, NoHole
<1>12. ASSUME ~past'.late
       PROVE  LogWhole'
  <2>1. ~past.late /\ ~archived
    BY <1>3, <1>4, <1>12
  <2>2. LogWhole
    BY <2>1 DEF SInv
  <2>3. Telling(hot, n)
    <3>1. CASE hot = <<>>
      BY <2>1, <2>2, <3>1, NoneTells DEF LogWhole, HotWhole
    <3>2. CASE hot # <<>>
      BY <2>2, <3>2 DEF LogWhole, HotWhole
    <3>. QED BY <3>1, <3>2
  <2>4. Telling(list, id)
    BY <1>5, <1>6, <2>3
  <2>5. AllShown(saved')
    <3>1. CASE kind = "delta"
      BY <1>2, <2>2, <3>1 DEF LogWhole
    <3>2. CASE kind # "delta"
      <4>1. saved' = SnapshotOf(list) /\ id \in Nat
        BY <1>1, <1>2, <3>2
      <4>. HIDE DEF id
      <4>. QED BY <1>6, <2>4, <4>1, CoveredIs DEF AllShown
    <3>. QED BY <3>1, <3>2
  <2>. QED BY <1>1, <1>2, <1>6, <2>1, <2>2, <2>4, <2>5 DEF LogWhole, HotWhole
<1>. QED BY <1>9, <1>10, <1>11, <1>12 DEF SInv

LEMMA ArchiveKeeps ==
  ASSUME SInv, ArchiveDropsHistory
  PROVE  SInv'
<1>. DEFINE n == Len(log)
            id == n + 1
            grown == Append(hot, [from |-> id, to |-> id])
<1>1. /\ log \in Seq(Kinds) /\ n \in Nat /\ log' = Append(log, "other") /\ Len(log') = id
      /\ log' \in Seq(Kinds) /\ Rising(hot, n) /\ Seen(saved, n) /\ ReaderTyped(reader, wire, n)
  BY DEF SInv, StreamTyped, ArchiveDropsHistory, Kinds
<1>2. /\ hot' = <<>> /\ reader' = reader /\ ~archived /\ archived' = TRUE
      /\ saved' = SnapshotOf(grown) /\ wire' = Sent(wire, reader, n) /\ past' = past
  BY DEF ArchiveDropsHistory, Sent
<1>5. Rising(grown, id) /\ grown # <<>> /\ (Telling(hot, n) => Telling(grown, id))
  <2>1. id \in Nat /\ n < id /\ id <= id
    BY <1>1
  <2>. QED BY <1>1, <2>1, AddRises, AddTells
<1>. HIDE DEF grown
<1>7. Seen(saved', id)
  <2>1. id \in Nat
    BY <1>1
  <2>. HIDE DEF id
  <2>. QED BY <1>2, <1>5, <2>1, CoveredIs DEF Seen, Shot
<1>8. /\ ReaderTyped(reader, wire', id)
      /\ Follows(reader, wire, n) => Follows(reader, wire', id)
      /\ \A m \in Nat : Shows(reader, wire, n, m) => Shows(reader, wire', id, m)
  BY <1>1, <1>2, SentKeeps
<1>6. Rising(<<>>, id)
  BY NoneTells
<1>9. StreamTyped'
  BY <1>1, <1>2, <1>6, <1>7, <1>8 DEF StreamTyped, SInv
<1>10. Once'
  BY <1>1, <1>2, <1>8 DEF SInv, Once
<1>11. NoHole'
  BY <1>1, <1>2, <1>8 DEF SInv, NoHole
<1>12. ASSUME ~past'.late
       PROVE  LogWhole'
  <2>2. LogWhole
    BY <1>2, <1>12 DEF SInv
  <2>3. Telling(hot, n)
    <3>1. CASE hot = <<>>
      BY <1>2, <2>2, <3>1, NoneTells DEF LogWhole, HotWhole
    <3>2. CASE hot # <<>>
      BY <2>2, <3>2 DEF LogWhole, HotWhole
    <3>. QED BY <3>1, <3>2
  <2>4. AllShown(saved')
    <3>1. id \in Nat
      BY <1>1
    <3>. HIDE DEF id
    <3>. QED BY <1>2, <1>5, <2>3, <3>1, CoveredIs DEF AllShown
  <2>. QED BY <1>2, <2>2, <2>4 DEF LogWhole, HotWhole
<1>. QED BY <1>9, <1>10, <1>11, <1>12 DEF SInv

\* The stream is cut off, by a restart or on the way.
LEMMA CutKeeps ==
  ASSUME NEW r, NEW w, NEW n \in Nat, NEW s, ReaderTyped(r, w, n),
         s = [r EXCEPT !.pc = IF @ = "open" THEN "off" ELSE @]
  PROVE  /\ ReaderTyped(s, <<>>, n)
         /\ s.snapshot = r.snapshot /\ s.poll = r.poll /\ s.polled = r.polled
         /\ Follows(r, w, n) => Follows(s, <<>>, n)
         /\ \A m \in Nat : Shows(r, w, n, m) => Shows(s, <<>>, n, m)
<1>1. /\ s \in ReaderRec /\ s.snapshot = r.snapshot /\ s.poll = r.poll /\ s.polled = r.polled
      /\ s.shown = r.shown /\ s.applied = r.applied /\ s.cursor = r.cursor /\ s.last = r.last
      /\ s.pc # "open" /\ (s.pc \in {"closed", "opening"} => s.pc = r.pc)
  BY DEF ReaderTyped, ReaderRec
<1>2. ReaderTyped(s, <<>>, n)
  BY <1>1, NoneTells DEF ReaderTyped
<1>3. Follows(r, w, n) => Follows(s, <<>>, n)
  BY <1>1 DEF Follows
<1>4. \A m \in Nat : Shows(r, w, n, m) => Shows(s, <<>>, n, m)
  BY <1>1, NoneTells DEF Shows
<1>. QED BY <1>1, <1>2, <1>3, <1>4

LEMMA RestartKeeps ==
  ASSUME SInv, Restart \/ StreamDrops
  PROVE  SInv'
<1>1. /\ Len(log) \in Nat /\ log \in Seq(Kinds) /\ ReaderTyped(reader, wire, Len(log))
      /\ Seen(saved, Len(log)) /\ past \in PastRec /\ Rising(hot, Len(log)) /\ archived \in BOOLEAN
  BY DEF SInv, StreamTyped
<1>2. /\ log' = log /\ saved' = saved /\ archived' = archived /\ wire' = <<>>
      /\ hot' = hot \/ hot' = IF archived THEN <<>> ELSE CompactHot(log)
      /\ past' = [past EXCEPT !.breaks = past.breaks + 1]
  BY DEF Restart, StreamDrops
<1>3. reader' = [reader EXCEPT !.pc = IF @ = "open" THEN "off" ELSE @]
  BY DEF Restart, StreamDrops
<1>4. /\ ReaderTyped(reader', <<>>, Len(log))
      /\ reader'.snapshot = reader.snapshot /\ reader'.poll = reader.poll /\ reader'.polled = reader.polled
      /\ Follows(reader, wire, Len(log)) => Follows(reader', <<>>, Len(log))
      /\ \A m \in Nat : Shows(reader, wire, Len(log), m) => Shows(reader', <<>>, Len(log), m)
  BY <1>1, <1>3, CutKeeps
<1>5. /\ past' \in PastRec /\ past'.late = past.late /\ past'.polled = past.polled
      /\ past'.twice = past.twice /\ past'.lostCursor = past.lostCursor /\ past'.stale = past.stale
  BY <1>1, <1>2 DEF PastRec
<1>6. Telling(CompactHot(log), Len(log))
  BY <1>1, CompactTells
<1>7. Rising(hot', Len(log))
  BY <1>1, <1>2, <1>6, NoneTells DEF Telling
<1>8. HotWhole(hot, Len(log)) => HotWhole(hot', Len(log))
  BY <1>2, <1>6 DEF HotWhole, Telling
<1>9. StreamTyped'
  BY <1>1, <1>2, <1>4, <1>5, <1>7 DEF StreamTyped
<1>10. Once'
  BY <1>2, <1>4, <1>5 DEF SInv, Once
<1>11. NoHole'
  BY <1>2, <1>4, <1>5 DEF SInv, NoHole
<1>12. past'.late \/ LogWhole'
  BY <1>2, <1>4, <1>5, <1>8 DEF SInv, LogWhole, HotWhole
<1>. QED BY <1>9, <1>10, <1>11, <1>12 DEF SInv

\* What the reader does with the log left alone.
LEMMA ReaderMoves ==
  ASSUME SInv, UNCHANGED <<log, hot, saved, archived>>, past' \in PastRec, past'.late = past.late,
         ReaderTyped(reader', wire', Len(log)),
         past'.polled \/ (~past'.twice /\ Follows(reader', wire', Len(log))),
         ~past.late /\ LogWhole =>
           AllShown(reader'.snapshot) /\ (reader'.poll = "body" => AllShown(reader'.polled)),
         \/ past'.lostCursor \/ past'.stale \/ past'.late
         \/ \E m \in Nat : Shows(reader', wire', Len(log), m)
  PROVE  SInv'
<1>1. StreamTyped'
  BY DEF SInv, StreamTyped
<1>2. Once' /\ NoHole'
  BY DEF Once, NoHole
<1>3. past'.late \/ LogWhole'
  BY DEF SInv, LogWhole, HotWhole
<1>. QED BY <1>1, <1>2, <1>3 DEF SInv

LEMMA OpenSteps ==
  ASSUME SInv, OpensRun \/ ShowsRun
  PROVE  SInv'
<1>. DEFINE n == Len(log)
<1>1. n \in Nat /\ ReaderTyped(reader, wire, n) /\ reader \in ReaderRec /\ Rising(wire, n)
  BY DEF SInv, StreamTyped, ReaderTyped
<1>2. UNCHANGED <<log, hot, saved, archived, wire, past>> /\ past' \in PastRec
  BY DEF OpensRun, ShowsRun, SInv, StreamTyped
<1>3. Seen(SnapshotForRun, n) /\ (~past.late /\ LogWhole => AllShown(SnapshotForRun))
  BY LogGives DEF SInv
<1>4. CASE OpensRun
  <2>1. reader.pc = "closed" /\ reader' = [reader EXCEPT !.pc = "opening", !.snapshot = SnapshotForRun]
    BY <1>4 DEF OpensRun
  <2>2. SnapshotForRun \in Shot
    BY <1>3 DEF Seen
  <2>3. /\ reader' \in ReaderRec /\ reader'.pc = "opening" /\ reader'.snapshot = SnapshotForRun
        /\ reader'.poll = reader.poll /\ reader'.polled = reader.polled
        /\ reader'.shown = reader.shown /\ reader'.applied = reader.applied
        /\ reader'.cursor = reader.cursor /\ reader'.last = reader.last
    BY <1>1, <2>1, <2>2 DEF ReaderRec
  <2>4. ReaderTyped(reader', wire', n) /\ wire = <<>>
    BY <1>1, <1>2, <1>3, <2>1, <2>3 DEF ReaderTyped
  <2>5. Follows(reader, wire, n) => Follows(reader', wire', n)
    BY <1>2, <2>3 DEF Follows
  <2>6. \A m \in Nat : Shows(reader, wire, n, m) => Shows(reader', wire', n, m)
    BY <1>2, <2>3, <2>4 DEF Shows
  <2>. QED BY <1>2, <1>3, <2>3, <2>4, <2>5, <2>6, ReaderMoves DEF SInv, Once, NoHole, LogWhole
<1>5. CASE ShowsRun
  <2>. DEFINE s == reader.snapshot
  <2>1. /\ reader.pc = "opening"
        /\ reader' = [reader EXCEPT !.pc = "off", !.snapshot = Nothing, !.shown = s.shown,
                                    !.cursor = s.last, !.last = s.last]
    BY <1>5 DEF ShowsRun
  <2>2. s \in Shot /\ s.last \in Nat /\ s.shown \in SUBSET Nat /\ Seen(s, n)
    BY <1>1 DEF ReaderTyped, ReaderRec, Shot
  <2>3. Nothing \in Shot /\ Seen(Nothing, n) /\ AllShown(Nothing)
    BY <1>1 DEF Nothing, Seen, AllShown, Shot
  <2>. HIDE DEF s
  <2>4. /\ reader' \in ReaderRec /\ reader'.pc = "off" /\ reader'.snapshot = Nothing
        /\ reader'.poll = reader.poll /\ reader'.polled = reader.polled
        /\ reader'.shown = s.shown /\ reader'.applied = reader.applied
        /\ reader'.cursor = s.last /\ reader'.last = s.last
    BY <1>1, <2>1, <2>2, <2>3 DEF ReaderRec
  <2>5. reader.applied = {} /\ wire = <<>>
    BY <1>1, <2>1 DEF ReaderTyped
  <2>6. ReaderTyped(reader', wire', n)
    BY <1>1, <1>2, <2>3, <2>4, <2>5 DEF ReaderTyped
  <2>7. Follows(reader', wire', n)
    BY <1>2, <2>2, <2>4, <2>5 DEF Follows, Seen
  <2>8. AllShown(s) => Shows(reader', wire', n, s.last)
    BY <1>1, <1>2, <2>2, <2>4, <2>5, NoneTells DEF Shows, AllShown, Seen
  <2>9. past.late \/ \E m \in Nat : Shows(reader', wire', n, m)
    BY <2>2, <2>8 DEF SInv, LogWhole, s
  <2>10. past'.polled \/ ~past'.twice
    BY <1>2 DEF SInv, Once
  <2>11. LogWhole => AllShown(reader'.snapshot) /\ (reader'.poll = "body" => AllShown(reader'.polled))
    BY <2>3, <2>4 DEF LogWhole
  <2>. QED BY <1>2, <2>6, <2>7, <2>9, <2>10, <2>11, ReaderMoves
<1>. QED BY <1>4, <1>5

LEMMA ConnectSteps ==
  ASSUME SInv, Connects
  PROVE  SInv'
<1>. DEFINE n == Len(log)
<1>1. n \in Nat /\ ReaderTyped(reader, wire, n) /\ reader \in ReaderRec /\ reader.pc = "off" /\ wire = <<>>
  BY DEF SInv, StreamTyped, ReaderTyped, Connects
<1>2. PICK cursor \in {reader.last, reader.cursor} :
        /\ reader' = [reader EXCEPT !.pc = "open", !.last = cursor]
        /\ wire' = ListEventsAfter(cursor)
        /\ past' = [past EXCEPT !.lostCursor = @ \/ Unknown(cursor)]
  BY DEF Connects
<1>3. UNCHANGED <<log, hot, saved, archived>>
  BY DEF Connects
<1>4. PICK v \in BOOLEAN : past' = [past EXCEPT !.lostCursor = v] /\ v = (past.lostCursor \/ Unknown(cursor))
  <2>1. past' = [past EXCEPT !.lostCursor = past.lostCursor \/ Unknown(cursor)]
    BY <1>2
  <2>. QED BY <2>1
<1>5. /\ past' \in PastRec /\ past'.late = past.late /\ past'.polled = past.polled
      /\ past'.twice = past.twice /\ past'.lostCursor = v /\ past'.stale = past.stale
  BY <1>4 DEF SInv, StreamTyped, PastRec
<1>6. cursor \in Nat
  BY <1>1, <1>2 DEF ReaderRec
<1>7. /\ reader' \in ReaderRec /\ reader'.pc = "open" /\ reader'.snapshot = reader.snapshot
      /\ reader'.poll = reader.poll /\ reader'.polled = reader.polled
      /\ reader'.shown = reader.shown /\ reader'.applied = reader.applied
      /\ reader'.cursor = reader.cursor /\ reader'.last = cursor
  BY <1>1, <1>2, <1>6 DEF ReaderRec
<1>8. /\ Rising(EventsForRun, n)
      /\ ~past.late /\ LogWhole => Telling(EventsForRun, n)
  BY LogGives DEF SInv
<1>9. LET w == After(EventsForRun, cursor)
      IN /\ Rising(w, n) /\ \A i \in DOMAIN w : cursor < w[i].from
         /\ Telling(EventsForRun, n) /\ (cursor = 0 \/ \E i \in DOMAIN EventsForRun : EventsForRun[i].to = cursor)
              => /\ NoGap(w) /\ UpToEnd(w, n)
                 /\ IF w = <<>> THEN cursor = n ELSE w[1].from = cursor + 1
  BY <1>1, <1>6, <1>8, AfterTells
<1>10. /\ Rising(wire', n) /\ \A i \in DOMAIN wire' : cursor < wire'[i].from
       /\ Telling(EventsForRun, n) /\ ~Unknown(cursor)
              => /\ NoGap(wire') /\ UpToEnd(wire', n)
                 /\ IF wire' = <<>> THEN cursor = n ELSE wire'[1].from = cursor + 1
  BY <1>2, <1>9 DEF ListEventsAfter, Unknown
<1>11. ReaderTyped(reader', wire', n)
  BY <1>1, <1>7, <1>10 DEF ReaderTyped
<1>12. Follows(reader, wire, n) => Follows(reader', wire', n)
  BY <1>2, <1>7, <1>10 DEF Follows
<1>13. ASSUME NEW m \in Nat, Shows(reader, wire, n, m), Telling(EventsForRun, n), ~Unknown(cursor)
       PROVE  Shows(reader', wire', n, m)
  <2>1. cursor <= m /\ m <= n
    BY <1>2, <1>13 DEF Shows
  <2>2. IF wire' = <<>> THEN m = n ELSE wire'[1].from <= m + 1
    BY <1>1, <1>6, <1>10, <1>13, <2>1
  <2>. QED BY <1>7, <1>10, <1>13, <2>1, <2>2 DEF Shows
<1>14. past'.polled \/ (~past'.twice /\ Follows(reader', wire', n))
  BY <1>5, <1>12 DEF SInv, Once
<1>15. past'.lostCursor \/ past'.stale \/ past'.late \/ \E m \in Nat : Shows(reader', wire', n, m)
  BY <1>4, <1>5, <1>8, <1>13 DEF SInv, NoHole
<1>16. LogWhole => AllShown(reader'.snapshot) /\ (reader'.poll = "body" => AllShown(reader'.polled))
  BY <1>7 DEF LogWhole
<1>. QED BY <1>3, <1>5, <1>11, <1>14, <1>15, <1>16, ReaderMoves

LEMMA ReceiveSteps ==
  ASSUME SInv, Receives
  PROVE  SInv'
<1>. DEFINE n == Len(log)
            item == Head(wire)
            carried == item.from..item.to
<1>1. n \in Nat /\ ReaderTyped(reader, wire, n) /\ reader \in ReaderRec /\ wire # <<>> /\ reader.pc = "open"
  BY DEF SInv, StreamTyped, ReaderTyped, Receives
<1>2. UNCHANGED <<log, hot, saved, archived>> /\ wire' = Tail(wire)
  BY DEF Receives
<1>3. /\ Rising(Tail(wire), n) /\ item \in Carrier /\ item = wire[1]
      /\ 1 <= item.from /\ item.from <= item.to /\ item.to <= n
      /\ \A i \in DOMAIN Tail(wire) : item.to < Tail(wire)[i].from
      /\ NoGap(wire) => NoGap(Tail(wire)) /\ (Tail(wire) # <<>> => Tail(wire)[1].from = item.to + 1)
      /\ UpToEnd(wire, n) => UpToEnd(Tail(wire), n) /\ (Tail(wire) = <<>> => item.to = n)
  BY <1>1, TailTells DEF ReaderTyped
<1>4. item.from \in Nat /\ item.to \in Nat
  BY <1>3 DEF Carrier
<1>5. 1 \in DOMAIN wire
  <2>1. wire \in Seq(Carrier)
    BY <1>1 DEF ReaderTyped, Rising
  <2>. QED BY <1>1, <2>1
<1>6. reader.cursor \in Nat /\ reader.last \in Nat /\ reader.shown \subseteq Nat /\ reader.applied \subseteq Nat
  BY <1>1 DEF ReaderRec
<1>. HIDE DEF item
<1>7. CASE item.to \in reader.applied
  <2>1. reader' = [reader EXCEPT !.last = item.to] /\ past' = past
    BY <1>7 DEF Receives, item
  <2>2. /\ reader' \in ReaderRec /\ reader'.pc = reader.pc /\ reader'.snapshot = reader.snapshot
        /\ reader'.poll = reader.poll /\ reader'.polled = reader.polled
        /\ reader'.shown = reader.shown /\ reader'.applied = reader.applied
        /\ reader'.cursor = reader.cursor /\ reader'.last = item.to
    BY <1>1, <1>4, <2>1 DEF ReaderRec
  <2>3. ReaderTyped(reader', wire', n)
    BY <1>1, <1>2, <1>3, <2>2 DEF ReaderTyped
  <2>4. ~Follows(reader, wire, n)
    <3>1. ASSUME Follows(reader, wire, n)
          PROVE  FALSE
      <4>1. reader.cursor < item.from /\ item.to <= reader.cursor
        BY <1>3, <1>5, <1>7, <3>1 DEF Follows
      <4>. QED BY <1>3, <1>4, <1>6, <4>1
    <3>. QED BY <3>1
  <2>5. ASSUME NEW m \in Nat, Shows(reader, wire, n, m)
        PROVE  Shows(reader', wire', n, m)
    <3>1. item.to <= m
      BY <1>7, <2>5 DEF Shows
    <3>2. NoGap(wire') /\ UpToEnd(wire', n)
      BY <1>2, <1>3, <2>5 DEF Shows
    <3>3. IF wire' = <<>> THEN m = n ELSE wire'[1].from <= m + 1
      <4>1. m <= n /\ NoGap(wire) /\ UpToEnd(wire, n)
        BY <2>5 DEF Shows
      <4>. QED BY <1>1, <1>2, <1>3, <1>4, <3>1, <4>1
    <3>. QED BY <2>2, <2>5, <3>1, <3>2, <3>3 DEF Shows
  <2>6. past'.polled
    BY <2>1, <2>4 DEF SInv, Once
  <2>7. past'.lostCursor \/ past'.stale \/ past'.late \/ \E m \in Nat : Shows(reader', wire', n, m)
    BY <2>1, <2>5 DEF SInv, NoHole
  <2>8. LogWhole => AllShown(reader'.snapshot) /\ (reader'.poll = "body" => AllShown(reader'.polled))
    BY <2>2 DEF LogWhole
  <2>9. past' \in PastRec /\ past'.late = past.late
    BY <2>1 DEF SInv, StreamTyped
  <2>. QED BY <1>2, <2>3, <2>6, <2>7, <2>8, <2>9, ReaderMoves
<1>8. CASE item.to \notin reader.applied
  <2>1. /\ reader' = [reader EXCEPT !.last = item.to, !.cursor = item.to,
                         !.applied = reader.applied \cup {item.to}, !.shown = reader.shown \cup carried]
        /\ past' = [past EXCEPT !.twice = past.twice \/ \E id \in carried \cap reader.shown : log[id] = "delta"]
    BY <1>8 DEF Receives, item
  <2>2. PICK v \in BOOLEAN : /\ past' = [past EXCEPT !.twice = v]
                             /\ v = (past.twice \/ \E id \in carried \cap reader.shown : log[id] = "delta")
    BY <2>1
  <2>3. /\ past' \in PastRec /\ past'.late = past.late /\ past'.polled = past.polled
        /\ past'.twice = v /\ past'.lostCursor = past.lostCursor /\ past'.stale = past.stale
    BY <2>2 DEF SInv, StreamTyped, PastRec
  <2>4. carried \subseteq Nat
    BY <1>4
  <2>. HIDE DEF carried
  <2>5. /\ reader' \in ReaderRec /\ reader'.pc = reader.pc /\ reader'.snapshot = reader.snapshot
        /\ reader'.poll = reader.poll /\ reader'.polled = reader.polled
        /\ reader'.shown = reader.shown \cup carried /\ reader'.applied = reader.applied \cup {item.to}
        /\ reader'.cursor = item.to /\ reader'.last = item.to
    BY <1>1, <1>4, <1>6, <2>1, <2>4 DEF ReaderRec
  <2>6. ReaderTyped(reader', wire', n)
    BY <1>1, <1>2, <1>3, <2>5 DEF ReaderTyped
  <2>7. ASSUME Follows(reader, wire, n)
        PROVE  Follows(reader', wire', n) /\ carried \cap reader.shown = {}
    <3>1. reader.cursor < item.from
      BY <1>3, <1>5, <2>7 DEF Follows
    <3>2. \A x \in carried : reader.cursor < x /\ 1 <= x /\ x <= item.to
      BY <1>3, <1>4, <1>6, <3>1 DEF carried
    <3>3. \A x \in reader.shown \cup reader.applied : 1 <= x /\ x <= reader.cursor
      BY <2>7 DEF Follows
    <3>4. carried \cap reader.shown = {}
      BY <1>6, <2>4, <3>2, <3>3
    <3>5. reader'.shown \subseteq 1..item.to /\ reader'.applied \subseteq 1..item.to
      <4>1. reader.cursor < item.to
        BY <1>3, <1>4, <1>6, <3>1
      <4>2. \A x \in reader.shown \cup reader.applied : x \in 1..item.to
        BY <1>4, <1>6, <3>3, <4>1
      <4>3. \A x \in carried : x \in 1..item.to
        BY <1>4, <2>4, <3>2
      <4>4. item.to \in 1..item.to
        BY <1>3, <1>4
      <4>. QED BY <2>5, <4>2, <4>3, <4>4
    <3>. QED BY <1>2, <1>3, <2>5, <3>4, <3>5 DEF Follows
  <2>8. ASSUME NEW m \in Nat, Shows(reader, wire, n, m)
        PROVE  \E q \in Nat : Shows(reader', wire', n, q)
    <3>1. PICK q \in {m, item.to} : m <= q /\ item.to <= q
      BY <1>4
    <3>2. q \in Nat /\ q <= n /\ m <= n
      BY <1>3, <1>4, <2>8, <3>1 DEF Shows
    <3>3. item.from <= m + 1 /\ reader.shown = 1..m
      BY <1>1, <1>3, <2>8 DEF Shows
    <3>4. reader.shown \cup carried = 1..q
      <4>1. ASSUME NEW x \in 1..q PROVE x \in 1..m \/ x \in carried
        BY <1>4, <3>1, <3>2, <3>3 DEF carried
      <4>2. ASSUME NEW x \in carried PROVE x \in 1..q
        BY <1>3, <1>4, <3>1, <3>2 DEF carried
      <4>3. ASSUME NEW x \in 1..m PROVE x \in 1..q
        BY <3>1, <3>2
      <4>. QED BY <3>3, <4>1, <4>2, <4>3
    <3>5. item.to \in carried
      BY <1>3, <1>4 DEF carried
    <3>6. reader'.applied \subseteq reader'.shown
      BY <2>5, <2>8, <3>5 DEF Shows
    <3>7. NoGap(wire') /\ UpToEnd(wire', n) /\ NoGap(wire) /\ UpToEnd(wire, n)
      BY <1>2, <1>3, <2>8 DEF Shows
    <3>8. IF wire' = <<>> THEN q = n ELSE wire'[1].from <= q + 1
      <4>1. CASE wire' = <<>>
        <5>1. item.to = n
          BY <1>2, <1>3, <3>7, <4>1
        <5>. QED BY <1>1, <1>4, <3>1, <3>2, <4>1, <5>1
      <4>2. CASE wire' # <<>>
        <5>1. wire'[1].from = item.to + 1
          BY <1>2, <1>3, <3>7, <4>2
        <5>. QED BY <1>4, <3>1, <3>2, <4>2, <5>1
      <4>. QED BY <4>1, <4>2
    <3>9. Shows(reader', wire', n, q)
      BY <1>1, <2>5, <3>1, <3>2, <3>4, <3>6, <3>7, <3>8 DEF Shows
    <3>. QED BY <3>2, <3>9
  <2>9. past'.polled \/ (~past'.twice /\ Follows(reader', wire', n))
    <3>1. CASE past.polled
      BY <2>3, <3>1
    <3>2. CASE ~past.polled
      <4>1. ~past.twice /\ Follows(reader, wire, n)
        BY <3>2 DEF SInv, Once
      <4>2. Follows(reader', wire', n) /\ carried \cap reader.shown = {}
        BY <2>7, <4>1
      <4>3. ~v
        BY <2>2, <4>1, <4>2
      <4>. QED BY <2>3, <4>2, <4>3
    <3>. QED BY <3>1, <3>2
  <2>10. past'.lostCursor \/ past'.stale \/ past'.late \/ \E m \in Nat : Shows(reader', wire', n, m)
    BY <2>3, <2>8 DEF SInv, NoHole
  <2>11. LogWhole => AllShown(reader'.snapshot) /\ (reader'.poll = "body" => AllShown(reader'.polled))
    BY <2>5 DEF LogWhole
  <2>. QED BY <1>2, <2>3, <2>6, <2>9, <2>10, <2>11, ReaderMoves
<1>. QED BY <1>7, <1>8

LEMMA ReaderAsks ==
  ASSUME SInv, PollAsks \/ PollCompares
  PROVE  SInv'
<1>. DEFINE n == Len(log)
<1>1. n \in Nat /\ ReaderTyped(reader, wire, n) /\ reader \in ReaderRec
  BY DEF SInv, StreamTyped, ReaderTyped
<1>2. UNCHANGED <<log, hot, saved, archived, wire, past>> /\ past' \in PastRec
  BY DEF PollAsks, PollCompares, SInv, StreamTyped
<1>3. /\ Seen(SnapshotForRun, n) /\ (~past.late /\ LogWhole => AllShown(SnapshotForRun))
      /\ LastEventId \in 0..n
  BY LogGives DEF SInv
<1>4. \E poll \in {"no", "run", "body"}, s \in Shot :
        /\ reader' = [reader EXCEPT !.poll = poll, !.polled = s] /\ Seen(s, n)
        /\ ~past.late /\ LogWhole /\ poll = "body" => AllShown(s)
  <2>1. CASE PollAsks
    <3>. DEFINE s == [last |-> LastEventId, shown |-> {}]
    <3>1. s \in Shot /\ Seen(s, n)
      BY <1>3 DEF Shot, Seen
    <3>. QED BY <2>1, <3>1 DEF PollAsks
  <2>2. CASE PollCompares
    <3>1. CASE TranscriptBodyNeeded(reader.polled.last)
      <4>1. reader' = [reader EXCEPT !.poll = "body", !.polled = SnapshotForRun]
        BY <2>2, <3>1 DEF PollCompares
      <4>2. SnapshotForRun \in Shot
        BY <1>3 DEF Seen
      <4>. QED BY <1>3, <4>1, <4>2
    <3>2. CASE ~TranscriptBodyNeeded(reader.polled.last)
      <4>1. reader' = [reader EXCEPT !.poll = "no", !.polled = Nothing]
        BY <2>2, <3>2 DEF PollCompares
      <4>2. Nothing \in Shot /\ Seen(Nothing, n)
        BY <1>1 DEF Nothing, Seen, Shot
      <4>. QED BY <4>1, <4>2
    <3>. QED BY <3>1, <3>2
  <2>. QED BY <2>1, <2>2
<1>5. PICK poll \in {"no", "run", "body"} : \E s \in Shot :
        /\ reader' = [reader EXCEPT !.poll = poll, !.polled = s] /\ Seen(s, n)
        /\ ~past.late /\ LogWhole /\ poll = "body" => AllShown(s)
  BY <1>4
<1>6. PICK s \in Shot :
        /\ reader' = [reader EXCEPT !.poll = poll, !.polled = s] /\ Seen(s, n)
        /\ ~past.late /\ LogWhole /\ poll = "body" => AllShown(s)
  BY <1>5
<1>7. /\ reader' \in ReaderRec /\ reader'.pc = reader.pc /\ reader'.snapshot = reader.snapshot
      /\ reader'.poll = poll /\ reader'.polled = s
      /\ reader'.shown = reader.shown /\ reader'.applied = reader.applied
      /\ reader'.cursor = reader.cursor /\ reader'.last = reader.last
  BY <1>1, <1>6 DEF ReaderRec
<1>8. ReaderTyped(reader', wire', n)
  BY <1>1, <1>2, <1>6, <1>7 DEF ReaderTyped
<1>9. Follows(reader, wire, n) => Follows(reader', wire', n)
  BY <1>2, <1>7 DEF Follows
<1>10. \A m \in Nat : Shows(reader, wire, n, m) => Shows(reader', wire', n, m)
  BY <1>2, <1>7 DEF Shows
<1>11. past'.polled \/ (~past'.twice /\ Follows(reader', wire', n))
  BY <1>2, <1>9 DEF SInv, Once
<1>12. past'.lostCursor \/ past'.stale \/ past'.late \/ \E m \in Nat : Shows(reader', wire', n, m)
  BY <1>2, <1>10 DEF SInv, NoHole
<1>13. ~past.late /\ LogWhole => AllShown(reader'.snapshot) /\ (reader'.poll = "body" => AllShown(reader'.polled))
  BY <1>6, <1>7 DEF LogWhole
<1>. QED BY <1>2, <1>8, <1>11, <1>12, <1>13, ReaderMoves

LEMMA ShowSteps ==
  ASSUME SInv, PollShows
  PROVE  SInv'
<1>. DEFINE n == Len(log)
            body == reader.polled
            r == [reader EXCEPT !.poll = "no", !.polled = Nothing]
<1>1. n \in Nat /\ ReaderTyped(reader, wire, n) /\ reader \in ReaderRec /\ past \in PastRec
  BY DEF SInv, StreamTyped, ReaderTyped
<1>2. UNCHANGED <<log, hot, saved, archived, wire>> /\ reader.poll = "body"
  BY DEF PollShows
<1>3. Nothing \in Shot /\ Seen(Nothing, n)
  BY <1>1 DEF Nothing, Seen, Shot
<1>4. /\ r \in ReaderRec /\ r.pc = reader.pc /\ r.snapshot = reader.snapshot
      /\ r.poll = "no" /\ r.polled = Nothing
      /\ r.shown = reader.shown /\ r.applied = reader.applied
      /\ r.cursor = reader.cursor /\ r.last = reader.last
  BY <1>1, <1>3 DEF ReaderRec
<1>5. body \in Shot /\ body.last \in Nat /\ body.shown \in SUBSET Nat /\ Seen(body, n)
  BY <1>1 DEF ReaderTyped, ReaderRec, Shot
<1>6. CASE body.last = reader.cursor
  <2>1. reader' = r /\ past' = past
    BY <1>6 DEF PollShows
  <2>. HIDE DEF r
  <2>2. ReaderTyped(r, wire, n)
    BY <1>1, <1>3, <1>4 DEF ReaderTyped
  <2>3. Follows(reader, wire, n) => Follows(r, wire, n)
    BY <1>4 DEF Follows
  <2>4. \A m \in Nat : Shows(reader, wire, n, m) => Shows(r, wire, n, m)
    BY <1>4 DEF Shows
  <2>5. past'.polled \/ (~past'.twice /\ Follows(reader', wire', n))
    BY <1>2, <2>1, <2>3 DEF SInv, Once
  <2>6. past'.lostCursor \/ past'.stale \/ past'.late \/ \E m \in Nat : Shows(reader', wire', n, m)
    BY <1>2, <2>1, <2>4 DEF SInv, NoHole
  <2>7. LogWhole => AllShown(reader'.snapshot) /\ (reader'.poll = "body" => AllShown(reader'.polled))
    BY <1>4, <2>1 DEF LogWhole
  <2>. QED BY <1>1, <1>2, <2>1, <2>2, <2>5, <2>6, <2>7, ReaderMoves
<1>7. CASE body.last # reader.cursor
  <2>1. /\ reader' = [r EXCEPT !.shown = body.shown, !.cursor = body.last]
        /\ past' = [past EXCEPT !.polled = TRUE,
                                !.stale = past.stale \/ ~(reader.shown \subseteq body.shown)]
    BY <1>7 DEF PollShows
  <2>2. PICK v \in BOOLEAN : /\ past' = [past EXCEPT !.polled = TRUE, !.stale = v]
                             /\ v = (past.stale \/ ~(reader.shown \subseteq body.shown))
    BY <2>1
  <2>3. /\ past' \in PastRec /\ past'.late = past.late /\ past'.polled = TRUE
        /\ past'.lostCursor = past.lostCursor /\ past'.stale = v
    BY <1>1, <2>2 DEF PastRec
  <2>. HIDE DEF r, body
  <2>4. /\ reader' \in ReaderRec /\ reader'.pc = reader.pc /\ reader'.snapshot = reader.snapshot
        /\ reader'.poll = "no" /\ reader'.polled = Nothing
        /\ reader'.shown = body.shown /\ reader'.applied = reader.applied
        /\ reader'.cursor = body.last /\ reader'.last = reader.last
    BY <1>4, <1>5, <2>1 DEF ReaderRec
  <2>5. ReaderTyped(reader', wire', n)
    BY <1>1, <1>2, <1>3, <2>4 DEF ReaderTyped
  <2>6. ASSUME ~past'.lostCursor, ~past'.stale, ~past'.late
        PROVE  \E m \in Nat : Shows(reader', wire', n, m)
    <3>1. ~past.late /\ reader.shown \subseteq body.shown /\ ~past.lostCursor /\ ~past.stale
      BY <2>2, <2>3, <2>6
    <3>2. PICK m \in Nat : Shows(reader, wire, n, m)
      BY <3>1 DEF SInv, NoHole
    <3>3. body.shown = 1..body.last /\ body.last <= n
      BY <1>2, <1>5, <3>1 DEF SInv, LogWhole, AllShown, Seen, body
    <3>4. m <= body.last
      <4>1. reader.shown = 1..m
        BY <3>2 DEF Shows
      <4>2. m # 0 => m \in 1..m
        OBVIOUS
      <4>. QED BY <1>5, <3>1, <3>3, <4>1, <4>2
    <3>5. reader.last \in Nat /\ reader.last <= m /\ reader.applied \subseteq reader.shown
      BY <1>1, <3>2 DEF Shows, ReaderRec
    <3>6. NoGap(wire) /\ UpToEnd(wire, n)
      BY <3>2 DEF Shows
    <3>7. IF wire = <<>> THEN reader.pc = "open" => body.last = n ELSE wire[1].from <= body.last + 1
      <4>1. CASE wire = <<>>
        BY <1>1, <1>5, <3>2, <3>3, <3>4, <4>1 DEF Shows
      <4>2. CASE wire # <<>>
        <5>1. wire[1].from <= m + 1 /\ wire[1].from \in Nat
          <6>1. wire \in Seq(Carrier)
            BY <1>1 DEF ReaderTyped, Rising
          <6>2. wire[1] \in Carrier
            BY <4>2, <6>1
          <6>. QED BY <3>2, <4>2, <6>2 DEF Shows, Carrier
        <5>. QED BY <1>5, <3>4, <4>2, <5>1
      <4>. QED BY <4>1, <4>2
    <3>8. reader.last <= body.last
      BY <1>5, <3>4, <3>5
    <3>9. Shows(reader', wire', n, body.last)
      BY <1>1, <1>2, <1>5, <2>4, <3>1, <3>3, <3>5, <3>6, <3>7, <3>8 DEF Shows
    <3>. QED BY <1>5, <3>9
  <2>7. LogWhole => AllShown(reader'.snapshot) /\ (reader'.poll = "body" => AllShown(reader'.polled))
    BY <2>4 DEF LogWhole
  <2>. QED BY <1>2, <2>3, <2>5, <2>6, <2>7, ReaderMoves
<1>. QED BY <1>6, <1>7

LEMMA SAlways == StreamSpec => []SInv
<1>1. StreamInit => SInv
  BY SInit
<1>2. SInv /\ [StreamNext]_streamVars => SInv'
  <2>. SUFFICES ASSUME SInv, [StreamNext]_streamVars PROVE SInv'
    OBVIOUS
  <2>1. CASE UNCHANGED streamVars
    BY <2>1 DEF streamVars, SInv, StreamTyped, Once, LogWhole, HotWhole, NoHole
  <2>2. CASE StreamNext
    BY <2>2, PublishKeeps, ArchiveKeeps, RestartKeeps, OpenSteps, ConnectSteps, ReceiveSteps, ReaderAsks,
       ShowSteps DEF StreamNext, ClientMoves
  <2>. QED BY <2>1, <2>2
<1>. QED BY <1>1, <1>2, PTL DEF StreamSpec

\* No token is shown twice over reconnects, restarts and folded messages, unless a polled snapshot
\* took the place of what the stream had brought (bus.ts listEventsAfter, history.ts).
THEOREM TokensOnce == StreamSpec => []StoryOnce
<1>1. SInv => StoryOnce
  BY DEF SInv, Once, StoryOnce
<1>. QED BY <1>1, SAlways, PTL

\* What a reader shows has no hole before its last event, but for the reasons StoryWhole names.
THEOREM NoHoles == StreamSpec => []StoryWhole
<1>1. SInv => StoryWhole
  <2>. SUFFICES ASSUME SInv, ~(past.lostCursor \/ past.stale \/ past.late) PROVE Whole
    BY DEF StoryWhole
  <2>1. PICK m \in Nat : Shows(reader, wire, Len(log), m)
    BY DEF SInv, NoHole
  <2>2. reader.shown = 1..m
    BY <2>1 DEF Shows
  <2>. QED BY <2>2 DEF Whole
<1>. QED BY <1>1, SAlways, PTL

-----------------------------------------------------------------------------
(* The types of the event stream: what is shown and what the cursors name    *)
(* are events of the log, and the log stays within its bound.                *)

Cursors == 0..MaxEvents
LEMMA CursorsAre ==
  /\ 0 \in Cursors /\ Cursors \subseteq Nat /\ Ids \subseteq Cursors
  /\ \A n \in Cursors : \A k \in Nat : k <= n => k \in Cursors /\ (1 <= k => k \in Ids)
  /\ \A n \in Nat : n < MaxEvents => n + 1 \in Cursors
  /\ \A n \in Cursors : 1..n \subseteq Ids
BY StreamNumbers DEF Cursors, Ids

\* What the reader has is of the first n events.
InLog(r, n) == r.shown \subseteq 1..n /\ r.applied \subseteq 1..n /\ r.cursor \in 0..n /\ r.last \in 0..n
Bounds == Len(log) \in Cursors /\ past.breaks <= MaxBreaks /\ InLog(reader, Len(log))

LEMMA ReadsOn == ASSUME NEW r, NEW n \in Nat, InLog(r, n) PROVE InLog(r, n + 1)
BY DEF InLog

LEMMA BoundsStep == ASSUME SInv, Bounds, [StreamNext]_streamVars PROVE Bounds'
<1>. DEFINE n == Len(log)
<1>1. /\ n \in Nat /\ log \in Seq(Kinds) /\ reader \in ReaderRec /\ past \in PastRec
      /\ Seen(reader.snapshot, n) /\ Seen(reader.polled, n) /\ Rising(wire, n)
      /\ n \in Cursors /\ past.breaks <= MaxBreaks /\ InLog(reader, n)
  BY DEF SInv, StreamTyped, ReaderTyped, Bounds
<1>2. /\ reader.shown \subseteq 1..n /\ reader.applied \subseteq 1..n
      /\ reader.cursor \in 0..n /\ reader.last \in 0..n
  BY <1>1 DEF InLog
<1>3. CASE UNCHANGED streamVars
  BY <1>3 DEF streamVars, Bounds
<1>4. ASSUME Len(log') = n + 1, n < MaxEvents, reader' = reader, past'.breaks = past.breaks
      PROVE  Bounds'
  BY <1>1, <1>4, CursorsAre, ReadsOn DEF Bounds
<1>5. ASSUME NEW kind \in Kinds, PublishEvent(kind)
      PROVE  Bounds'
  <2>1. Len(log') = n + 1 /\ n < MaxEvents /\ reader' = reader
    BY <1>1, <1>5 DEF PublishEvent, Publish
  <2>2. past'.breaks = past.breaks
    BY <1>1, <1>5 DEF PublishEvent, PastRec
  <2>. QED BY <1>4, <2>1, <2>2
<1>6. CASE ArchiveDropsHistory
  BY <1>1, <1>4, <1>6 DEF ArchiveDropsHistory
<1>7. CASE Restart \/ StreamDrops
  <2>1. /\ log' = log /\ past' = [past EXCEPT !.breaks = past.breaks + 1] /\ past.breaks < MaxBreaks
        /\ \/ reader' = [reader EXCEPT !.pc = IF @ = "open" THEN "off" ELSE @]
           \/ reader' = [reader EXCEPT !.pc = "off"]
    BY <1>7 DEF Restart, StreamDrops
  <2>2. past'.breaks = past.breaks + 1 /\ past.breaks \in Nat
    BY <1>1, <2>1 DEF PastRec
  <2>3. /\ reader'.shown = reader.shown /\ reader'.applied = reader.applied
        /\ reader'.cursor = reader.cursor /\ reader'.last = reader.last
    BY <1>1, <2>1 DEF ReaderRec
  <2>. QED BY <1>1, <2>1, <2>2, <2>3, StreamNumbers DEF Bounds, InLog
<1>8. ASSUME log' = log, past'.breaks = past.breaks, InLog(reader', n)
      PROVE  Bounds'
  BY <1>1, <1>8 DEF Bounds
<1>9. CASE OpensRun
  <2>1. reader' = [reader EXCEPT !.pc = "opening", !.snapshot = SnapshotForRun] /\ log' = log /\ past' = past
    BY <1>9 DEF OpensRun
  <2>2. /\ reader'.shown = reader.shown /\ reader'.applied = reader.applied
        /\ reader'.cursor = reader.cursor /\ reader'.last = reader.last
    BY <1>1, <2>1 DEF ReaderRec
  <2>. QED BY <1>2, <1>8, <2>1, <2>2 DEF InLog
<1>10. CASE ShowsRun
  <2>1. /\ reader' = [reader EXCEPT !.pc = "off", !.snapshot = Nothing, !.shown = reader.snapshot.shown,
                                    !.cursor = reader.snapshot.last, !.last = reader.snapshot.last]
        /\ log' = log /\ past' = past
    BY <1>10 DEF ShowsRun
  <2>2. /\ reader'.shown = reader.snapshot.shown /\ reader'.applied = reader.applied
        /\ reader'.cursor = reader.snapshot.last /\ reader'.last = reader.snapshot.last
    BY <1>1, <2>1 DEF ReaderRec
  <2>3. reader.snapshot.shown \subseteq 1..n /\ reader.snapshot.last \in 0..n
    BY <1>1 DEF Seen, Shot
  <2>. QED BY <1>2, <1>8, <2>1, <2>2, <2>3 DEF InLog
<1>11. CASE Connects
  <2>1. PICK cursor \in {reader.last, reader.cursor} :
          /\ reader' = [reader EXCEPT !.pc = "open", !.last = cursor] /\ log' = log
          /\ past' = [past EXCEPT !.lostCursor = @ \/ Unknown(cursor)]
    BY <1>11 DEF Connects
  <2>2. /\ reader'.shown = reader.shown /\ reader'.applied = reader.applied
        /\ reader'.cursor = reader.cursor /\ reader'.last = cursor /\ past'.breaks = past.breaks
    BY <1>1, <2>1 DEF ReaderRec, PastRec
  <2>. QED BY <1>2, <1>8, <2>1, <2>2 DEF InLog
<1>12. CASE Receives
  <2>. DEFINE item == Head(wire)
              carried == item.from..item.to
  <2>1. /\ item \in Carrier /\ 1 <= item.from /\ item.from <= item.to /\ item.to <= n
    BY <1>1, <1>12, TailTells DEF Receives
  <2>2. item.to \in 1..n /\ carried \subseteq 1..n
    BY <1>1, <2>1 DEF Carrier
  <2>. HIDE DEF item, carried
  <2>3. log' = log /\ \/ reader' = [reader EXCEPT !.last = item.to] /\ past' = past
                      \/ /\ reader' = [reader EXCEPT !.last = item.to, !.cursor = item.to,
                                         !.applied = @ \cup {item.to}, !.shown = @ \cup carried]
                         /\ past' = [past EXCEPT !.twice = @ \/ \E id \in carried \cap reader.shown :
                                                                  log[id] = "delta"]
    BY <1>12 DEF Receives, item, carried
  <2>4. /\ reader'.shown \subseteq reader.shown \cup carried
        /\ reader'.applied \subseteq reader.applied \cup {item.to}
        /\ reader'.cursor \in {reader.cursor, item.to} /\ reader'.last = item.to
        /\ past'.breaks = past.breaks
    BY <1>1, <2>3 DEF ReaderRec, PastRec
  <2>5. InLog(reader', n)
    <3>1. item.to \in 0..n
      BY <1>1, <2>2
    <3>2. reader'.shown \subseteq 1..n
      BY <1>2, <2>2, <2>4
    <3>3. reader'.applied \subseteq 1..n
      BY <1>2, <2>2, <2>4
    <3>4. reader'.cursor \in 0..n /\ reader'.last \in 0..n
      BY <1>2, <2>4, <3>1
    <3>. QED BY <3>2, <3>3, <3>4 DEF InLog
  <2>. QED BY <1>8, <2>3, <2>4, <2>5
<1>13. CASE PollAsks \/ PollCompares
  <2>1. /\ log' = log /\ past' = past
        /\ \/ reader' = [reader EXCEPT !.poll = "run", !.polled = [last |-> LastEventId, shown |-> {}]]
           \/ reader' = [reader EXCEPT !.poll = "body", !.polled = SnapshotForRun]
           \/ reader' = [reader EXCEPT !.poll = "no", !.polled = Nothing]
    BY <1>13 DEF PollAsks, PollCompares
  <2>2. /\ reader'.shown = reader.shown /\ reader'.applied = reader.applied
        /\ reader'.cursor = reader.cursor /\ reader'.last = reader.last
    BY <1>1, <2>1 DEF ReaderRec
  <2>. QED BY <1>2, <1>8, <2>1, <2>2 DEF InLog
<1>14. CASE PollShows
  <2>. DEFINE body == reader.polled
              r == [reader EXCEPT !.poll = "no", !.polled = Nothing]
  <2>1. /\ r.shown = reader.shown /\ r.applied = reader.applied /\ r.cursor = reader.cursor
        /\ r.last = reader.last /\ DOMAIN r = DOMAIN reader
    BY <1>1 DEF ReaderRec
  <2>2. body.shown \subseteq 1..n /\ body.last \in 0..n
    BY <1>1 DEF Seen, Shot
  <2>. HIDE DEF body
  <2>3. /\ log' = log
        /\ \/ reader' = r /\ past' = past
           \/ /\ reader' = [r EXCEPT !.shown = body.shown, !.cursor = body.last]
              /\ past' = [past EXCEPT !.polled = TRUE,
                                      !.stale = @ \/ ~(reader.shown \subseteq body.shown)]
    BY <1>14 DEF PollShows, body
  <2>. HIDE DEF r
  <2>4. DOMAIN reader = {"pc", "snapshot", "shown", "applied", "cursor", "last", "poll", "polled"}
    BY <1>1 DEF ReaderRec
  <2>5. InLog(reader', n) /\ past'.breaks = past.breaks
    BY <1>1, <1>2, <2>1, <2>2, <2>3, <2>4 DEF InLog, PastRec
  <2>. QED BY <1>8, <2>3, <2>5
<1>. QED BY <1>3, <1>5, <1>6, <1>7, <1>9, <1>10, <1>11, <1>12, <1>13, <1>14 DEF StreamNext, ClientMoves

LEMMA ItemsOf == ASSUME NEW list, NEW n \in Cursors, Rising(list, n) PROVE list \in Seq(Item)
<1>1. list \in Seq(Carrier) /\ Len(list) \in Nat /\ DOMAIN list = 1..Len(list)
  BY DEF Rising
<1>2. ASSUME NEW i \in 1..Len(list)
      PROVE  list[i] \in Item
  <2>1. list[i] \in Carrier /\ 1 <= list[i].from /\ list[i].from <= list[i].to /\ list[i].to <= n
    BY <1>1 DEF Rising
  <2>2. list[i].from <= n /\ list[i].from \in Nat /\ list[i].to \in Nat /\ 1 <= list[i].to /\ n \in Nat
    BY <2>1, CursorsAre DEF Carrier
  <2>3. list[i].from \in Ids /\ list[i].to \in Ids
    BY <2>1, <2>2, CursorsAre
  <2>. QED BY <2>1, <2>3 DEF Item, Carrier
<1>. QED BY <1>1, <1>2

LEMMA SnapshotOk == ASSUME NEW s, NEW n \in Cursors, Seen(s, n) PROVE s \in Snapshot
<1>1. s \in [last : Nat, shown : SUBSET Nat] /\ s.last <= n /\ s.shown \subseteq 1..s.last
  BY DEF Seen, Shot
<1>2. s.last \in Cursors
  BY <1>1, CursorsAre
<1>3. s.shown \subseteq Ids
  BY <1>1, <1>2, CursorsAre
<1>. QED BY <1>1, <1>2, <1>3 DEF Snapshot, Cursors

\* The log, and what memory, the disk, the wire and the reader have of it, have their types:
\* what the reader shows and acknowledges are event numbers of the run, because it has
\* them all from the log (events/bus.ts).
THEOREM StreamTypes == StreamSpec => []StreamTypeOK
<1>1. SInv /\ Bounds => StreamTypeOK
  <2>. SUFFICES ASSUME SInv, Bounds PROVE StreamTypeOK
    OBVIOUS
  <2>. DEFINE n == Len(log)
  <2>1. /\ n \in Cursors /\ log \in Seq(Kinds) /\ archived \in BOOLEAN /\ past \in PastRec
        /\ Rising(hot, n) /\ Rising(wire, n) /\ Seen(saved, n) /\ reader \in ReaderRec
        /\ Seen(reader.snapshot, n) /\ Seen(reader.polled, n) /\ past.breaks <= MaxBreaks
        /\ InLog(reader, n)
    BY DEF SInv, StreamTyped, ReaderTyped, Bounds
  <2>2. n \in Nat /\ n <= MaxEvents
    BY <2>1, StreamNumbers DEF Cursors
  <2>. HIDE DEF n
  <2>3. hot \in Seq(Item) /\ wire \in Seq(Item)
    BY <2>1, ItemsOf
  <2>4. saved \in Snapshot /\ reader.snapshot \in Snapshot /\ reader.polled \in Snapshot
    BY <2>1, SnapshotOk
  <2>5. reader.shown \subseteq Ids /\ reader.applied \subseteq Ids
    BY <2>1, CursorsAre DEF InLog
  <2>6. reader.cursor \in 0..MaxEvents /\ reader.last \in 0..MaxEvents
    BY <2>1, <2>2, StreamNumbers DEF InLog
  <2>7. reader.pc \in {"closed", "opening", "off", "open"} /\ reader.poll \in {"no", "run", "body"}
    BY <2>1 DEF ReaderRec
  <2>8. /\ past.breaks \in 0..MaxBreaks
        /\ {past.twice, past.lostCursor, past.polled, past.stale, past.late} \subseteq BOOLEAN
    BY <2>1, StreamNumbers DEF PastRec
  <2>. QED BY <2>1, <2>2, <2>3, <2>4, <2>5, <2>6, <2>7, <2>8 DEF StreamTypeOK, n
<1>2. StreamInit => Bounds
  <2>. SUFFICES ASSUME StreamInit PROVE Bounds
    OBVIOUS
  <2>1. /\ Len(log) = 0 /\ past.breaks = 0 /\ reader.shown = {} /\ reader.applied = {}
        /\ reader.cursor = 0 /\ reader.last = 0
    BY DEF StreamInit
  <2>. QED BY <2>1, CursorsAre, StreamNumbers DEF Bounds, InLog
<1>3. SInv /\ Bounds /\ [StreamNext]_streamVars => Bounds'
  BY BoundsStep
<1>. QED BY <1>1, <1>2, <1>3, SAlways, PTL DEF StreamSpec

-----------------------------------------------------------------------------
(* Subscriptions: whatever GitHub delivers, how often and in what order,    *)
(* and however many webhook calls wait side by side, a subscription wakes    *)
(* its run once for a delivery and within its limits.                        *)

\* A subscription whose counts are numbers; that they are within the limits is proved.
Counts == [kind : {"github_pr", "github_ci"}, target : {"branch", "pr"}, mode : Actions,
           wakes : Nat, fixes : Nat, last : 0..MaxKeys, fresh : BOOLEAN]
Hook == [key : Keys, at : Nat, action : Actions, pc : {"account", "resume"}]

\* What was asked for subscription i with one of the actions A, and the calls that are
\* about to ask: their wake is counted, the follow-up is not there yet.
AskedFor(i, A) ==
  {p \in DOMAIN followUps : followUps[p].by = "hook" /\ followUps[p].sub = i /\ followUps[p].action \in A}
AboutTo(i, A) ==
  {h \in DOMAIN hooks : hooks[h].pc = "account" /\ hooks[h].at = i /\ hooks[h].action \in A}
Repair == {"autofix"}

WakesTyped ==
  /\ subs \in Seq(Counts) /\ followUps \in Seq(FollowUpOf)
  /\ hookPast.calls \in Nat /\ DOMAIN hookPast = {"calls", "between"}
  /\ DOMAIN hooks \subseteq 1..hookPast.calls
  /\ \A h \in DOMAIN hooks : hooks[h] \in Hook
\* Who asks, or is about to, asks for a subscription that is there.
Placed ==
  /\ \A h \in DOMAIN hooks : hooks[h].at \in DOMAIN subs
  /\ \A p \in DOMAIN followUps :
       followUps[p].by = "hook" => followUps[p].sub \in DOMAIN subs /\ followUps[p].key \in Keys
\* Every follow-up, there or to come, is counted.
Accounted ==
  \A i \in DOMAIN subs :
    /\ Cardinality(AskedFor(i, Actions)) + Cardinality(AboutTo(i, Actions)) <= subs[i].wakes
    /\ Cardinality(AskedFor(i, Repair)) + Cardinality(AboutTo(i, Repair)) <= subs[i].fixes
    /\ subs[i].wakes <= MaxSubscriptionWakes /\ subs[i].fixes <= MaxCiAutofix
\* The key of a delivery that was asked for is the one kept, or another one came since ...
WakesKept(i, k) == subs[i].last = k \/ <<i, k>> \in hookPast.between
KeyKept ==
  /\ \A p \in DOMAIN followUps : followUps[p].by = "hook" => WakesKept(followUps[p].sub, followUps[p].key)
  /\ \A h \in DOMAIN hooks : hooks[h].pc = "account" => WakesKept(hooks[h].at, hooks[h].key)
\* ... and nobody else has asked for it, or is about to, unless another one came.
Single ==
  /\ \A p, q \in DOMAIN followUps :
       (p # q /\ followUps[p].by = "hook" /\ followUps[q].by = "hook"
        /\ followUps[p].sub = followUps[q].sub /\ followUps[p].key = followUps[q].key)
         => <<followUps[p].sub, followUps[p].key>> \in hookPast.between
  /\ \A p \in DOMAIN followUps, h \in DOMAIN hooks :
       (followUps[p].by = "hook" /\ hooks[h].pc = "account"
        /\ followUps[p].sub = hooks[h].at /\ followUps[p].key = hooks[h].key)
         => <<hooks[h].at, hooks[h].key>> \in hookPast.between
  /\ \A g, h \in DOMAIN hooks :
       (g # h /\ hooks[g].pc = "account" /\ hooks[h].pc = "account"
        /\ hooks[g].at = hooks[h].at /\ hooks[g].key = hooks[h].key)
         => <<hooks[h].at, hooks[h].key>> \in hookPast.between
HInv == WakesTyped /\ Placed /\ Accounted /\ KeyKept /\ Single

-----------------------------------------------------------------------------
LEMMA FiniteSides ==
  ASSUME HInv
  PROVE  \A i, A : /\ IsFiniteSet(AskedFor(i, A)) /\ Cardinality(AskedFor(i, A)) \in Nat
                   /\ IsFiniteSet(AboutTo(i, A)) /\ Cardinality(AboutTo(i, A)) \in Nat
<1>1. IsFiniteSet(1..Len(followUps)) /\ IsFiniteSet(1..hookPast.calls)
  BY FS_Interval DEF HInv, WakesTyped
<1>2. \A i, A : AskedFor(i, A) \subseteq 1..Len(followUps) /\ AboutTo(i, A) \subseteq 1..hookPast.calls
  BY DEF HInv, WakesTyped, AskedFor, AboutTo
<1>. QED BY <1>1, <1>2, FS_Subset, FS_CardinalityType

LEMMA HInit == HookInit => HInv
<1>. SUFFICES ASSUME HookInit PROVE HInv
  OBVIOUS
<1>1. subs = <<>> /\ followUps = <<>> /\ DOMAIN hooks = {} /\ DOMAIN subs = {} /\ DOMAIN followUps = {}
  BY DEF HookInit
<1>2. hookPast.calls = 0 /\ DOMAIN hookPast = {"calls", "between"}
  BY DEF HookInit
<1>3. WakesTyped
  BY <1>1, <1>2 DEF WakesTyped
<1>. QED BY <1>1, <1>3 DEF HInv, Placed, Accounted, KeyKept, Single

LEMMA SubsNumbers ==
  ASSUME HInv, NEW i \in DOMAIN subs
  PROVE  /\ subs[i] \in Counts /\ subs[i].wakes \in Nat /\ subs[i].fixes \in Nat
         /\ subs[i].last \in 0..MaxKeys /\ subs[i].mode \in Actions
<1>1. subs \in Seq(Counts)
  BY DEF HInv, WakesTyped
<1>2. subs[i] \in Counts
  BY <1>1
<1>. QED BY <1>2 DEF Counts

\* What a step does that adds no follow-up and no call that is about to ask: all that was
\* counted stays counted.
LEMMA Quiet ==
  ASSUME HInv, WakesTyped', followUps' = followUps \/ followUps' = <<>>,
         DOMAIN subs \subseteq DOMAIN subs',
         \A i \in DOMAIN subs : /\ subs'[i].wakes = subs[i].wakes /\ subs'[i].fixes = subs[i].fixes
                                /\ subs'[i].last = subs[i].last,
         \A i \in DOMAIN subs' \ DOMAIN subs : subs'[i].wakes = 0 /\ subs'[i].fixes = 0,
         hookPast'.between = hookPast.between,
         DOMAIN hooks' \subseteq DOMAIN hooks,
         \A h \in DOMAIN hooks' : /\ hooks'[h].at = hooks[h].at
                                  /\ hooks'[h].pc = "account" => hooks'[h] = hooks[h]
  PROVE  HInv'
<1>0. /\ DOMAIN followUps' \subseteq DOMAIN followUps
      /\ \A p \in DOMAIN followUps' : followUps'[p] = followUps[p]
  OBVIOUS
<1>1. Placed'
  <2>1. ASSUME NEW h \in DOMAIN hooks' PROVE hooks'[h].at \in DOMAIN subs'
    BY DEF HInv, Placed
  <2>2. ASSUME NEW p \in DOMAIN followUps', followUps'[p].by = "hook"
        PROVE  followUps'[p].sub \in DOMAIN subs' /\ followUps'[p].key \in Keys
    BY <1>0, <2>2 DEF HInv, Placed
  <2>. QED BY <2>1, <2>2 DEF Placed
<1>2. \A i, A : AskedFor(i, A)' \subseteq AskedFor(i, A) /\ AboutTo(i, A)' \subseteq AboutTo(i, A)
  BY <1>0 DEF AskedFor, AboutTo
<1>3. \A i, A : /\ Cardinality(AskedFor(i, A)') \in Nat /\ Cardinality(AboutTo(i, A)') \in Nat
                /\ Cardinality(AskedFor(i, A)') <= Cardinality(AskedFor(i, A))
                /\ Cardinality(AboutTo(i, A)') <= Cardinality(AboutTo(i, A))
  BY <1>2, FiniteSides, FS_Subset, FS_CardinalityType
<1>4. Accounted'
  <2>1. ASSUME NEW i \in DOMAIN subs'
        PROVE  /\ Cardinality(AskedFor(i, Actions)') + Cardinality(AboutTo(i, Actions)') <= subs'[i].wakes
               /\ Cardinality(AskedFor(i, Repair)') + Cardinality(AboutTo(i, Repair)') <= subs'[i].fixes
               /\ subs'[i].wakes <= MaxSubscriptionWakes /\ subs'[i].fixes <= MaxCiAutofix
    <3>1. CASE i \in DOMAIN subs
      <4>1. subs[i].wakes \in Nat /\ subs[i].fixes \in Nat
        BY <3>1, SubsNumbers
      <4>2. subs'[i].wakes = subs[i].wakes /\ subs'[i].fixes = subs[i].fixes
        BY <3>1
      <4>3. /\ Cardinality(AskedFor(i, Actions)) + Cardinality(AboutTo(i, Actions)) <= subs[i].wakes
            /\ Cardinality(AskedFor(i, Repair)) + Cardinality(AboutTo(i, Repair)) <= subs[i].fixes
            /\ subs[i].wakes <= MaxSubscriptionWakes /\ subs[i].fixes <= MaxCiAutofix
        BY <3>1 DEF HInv, Accounted
      <4>. QED BY <4>1, <4>2, <4>3, <1>3, FiniteSides
    <3>2. CASE i \notin DOMAIN subs
      <4>1. \A A : AskedFor(i, A) = {} /\ AboutTo(i, A) = {}
        BY <3>2 DEF HInv, Placed, AskedFor, AboutTo
      <4>2. subs'[i].wakes = 0 /\ subs'[i].fixes = 0
        BY <3>2
      <4>3. \A A : AskedFor(i, A)' = {} /\ AboutTo(i, A)' = {}
        BY <4>1, <1>2
      <4>4. \A A : Cardinality(AskedFor(i, A)') = 0 /\ Cardinality(AboutTo(i, A)') = 0
        BY <4>3, FS_EmptySet
      <4>. QED BY <4>2, <4>4, HookNumbers
    <3>. QED BY <3>1, <3>2
  <2>. QED BY <2>1 DEF Accounted
<1>5. KeyKept'
  <2>1. ASSUME NEW h \in DOMAIN hooks', hooks'[h].pc = "account"
        PROVE  WakesKept(hooks[h].at, hooks[h].key)'
    <3>1. hooks'[h] = hooks[h] /\ hooks[h].at \in DOMAIN subs /\ WakesKept(hooks[h].at, hooks[h].key)
      BY <2>1 DEF HInv, KeyKept, Placed
    <3>. QED BY <3>1 DEF WakesKept
  <2>2. ASSUME NEW p \in DOMAIN followUps', followUps'[p].by = "hook"
        PROVE  WakesKept(followUps[p].sub, followUps[p].key)'
    <3>1. /\ followUps'[p] = followUps[p] /\ followUps[p].sub \in DOMAIN subs
          /\ WakesKept(followUps[p].sub, followUps[p].key)
      BY <1>0, <2>2 DEF HInv, KeyKept, Placed
    <3>. QED BY <3>1 DEF WakesKept
  <2>. QED BY <2>1, <2>2 DEF KeyKept
<1>6. Single'
  BY <1>0 DEF HInv, Single
<1>. QED BY <1>1, <1>4, <1>5, <1>6 DEF HInv

-----------------------------------------------------------------------------
(* The loop over the subscriptions. *)

\* An action is asked for only within the limit of repairs.
LEMMA Decided ==
  ASSUME NEW s, NEW m, NEW action \in DecideSubscriptionWake(s, m)
  PROVE  action \in Actions /\ (action = "autofix" => ~(s.fixes >= MaxCiAutofix))
BY DEF DecideSubscriptionWake, Actions

\* What a call keeps in the subscription it is about to ask for.
LEMMA NotedCounts ==
  ASSUME NEW s \in Counts, NEW key \in 0..MaxKeys, NEW action
  PROVE  /\ Noted(s, key, action) \in Counts /\ Noted(s, key, action).wakes = s.wakes + 1
         /\ Noted(s, key, action).last = key
         /\ Noted(s, key, action).fixes = IF action = "autofix" THEN s.fixes + 1 ELSE s.fixes
<1>. DEFINE wakes == s.wakes + 1
<1>. DEFINE fixes == IF action = "autofix" THEN s.fixes + 1 ELSE s.fixes
<1>. DEFINE fresh == TRUE
<1>1. wakes \in Nat /\ fixes \in Nat /\ fresh \in BOOLEAN
  BY DEF Counts
<1>. DEFINE b == [s EXCEPT !.wakes = wakes, !.fresh = fresh, !.fixes = fixes]
<1>. DEFINE c == [b EXCEPT !.last = key]
<1>2. Noted(s, key, action) = c
  BY DEF Noted, Counted
<1>. HIDE DEF wakes, fixes, fresh
<1>3. b \in Counts /\ b.wakes = wakes /\ b.fixes = fixes
  BY <1>1 DEF Counts
<1>. HIDE DEF b
<1>4. c \in Counts /\ c.wakes = b.wakes /\ c.last = key /\ c.fixes = b.fixes
  BY <1>3 DEF Counts
<1>. HIDE DEF c
<1>. QED BY <1>2, <1>3, <1>4 DEF wakes, fixes

\* The loop of a call that was not about to ask.
LEMMA HookLoopKept ==
  ASSUME HInv, NEW h \in Nat \ {0}, h <= hookPast.calls + 1,
         h \in DOMAIN hooks => hooks[h].pc = "resume",
         NEW key \in Keys, NEW m, NEW from \in Nat \ {0}, HookLoop(h, key, m, from), UNCHANGED followUps
  PROVE  HInv'
<1>. DEFINE owed == Wakes(key, m, from)
<1>. DEFINE waits == IF h > hookPast.calls THEN h ELSE hookPast.calls
<1>0. /\ hookPast.calls \in Nat /\ waits \in Nat /\ waits >= h /\ waits >= hookPast.calls
      /\ DOMAIN hooks \subseteq 1..hookPast.calls /\ DOMAIN hookPast = {"calls", "between"}
  BY DEF HInv, WakesTyped
<1>1. CASE owed = {}
  <2>1. /\ hooks' = Restrict(hooks, DOMAIN hooks \ {h}) /\ UNCHANGED subs
        /\ hookPast' = [hookPast EXCEPT !.calls = waits]
    BY <1>1 DEF HookLoop
  <2>. HIDE DEF waits
  <2>2. DOMAIN hooks' \subseteq DOMAIN hooks /\ \A g \in DOMAIN hooks' : hooks'[g] = hooks[g]
    BY <2>1 DEF Restrict
  <2>3. /\ hookPast'.calls = waits /\ hookPast'.between = hookPast.between
        /\ DOMAIN hookPast' = {"calls", "between"}
    BY <1>0, <2>1
  <2>4. WakesTyped'
    <3>1. DOMAIN hooks' \subseteq 1..waits /\ \A g \in DOMAIN hooks' : hooks'[g] \in Hook
      BY <1>0, <2>2 DEF HInv, WakesTyped
    <3>. QED BY <1>0, <2>1, <2>3, <3>1 DEF HInv, WakesTyped
  <2>. QED BY <2>1, <2>2, <2>3, <2>4, Quiet
<1>2. CASE owed # {}
  <2>. DEFINE Takes(i, action) ==
          /\ subs' = [subs EXCEPT ![i] = Noted(subs[i], key, action)]
          /\ hooks' = [g \in DOMAIN hooks \cup {h} |->
               IF g = h THEN [key |-> key, at |-> i, action |-> action, pc |-> "account"] ELSE hooks[g]]
          /\ hookPast' = [calls |-> waits,
               between |-> hookPast.between \cup ({<<i, subs[i].last>>} \cap (Nat \X (Keys \ {key})))]
  <2>0. PICK i \in owed : \E action \in DecideSubscriptionWake(subs[i], m) : Takes(i, action)
    BY <1>2 DEF HookLoop
  <2>1. PICK action \in DecideSubscriptionWake(subs[i], m) : Takes(i, action)
    BY <2>0
  <2>. HIDE DEF waits
  <2>2. /\ i \in DOMAIN subs /\ i \in Nat /\ subs[i].last # key /\ subs[i].wakes < MaxSubscriptionWakes
    BY DEF Wakes, HInv, WakesTyped
  <2>3. action \in Actions /\ (action = "autofix" => ~(subs[i].fixes >= MaxCiAutofix))
    BY Decided
  <2>. DEFINE new == [key |-> key, at |-> i, action |-> action, pc |-> "account"]
  <2>4. /\ DOMAIN hooks' = DOMAIN hooks \cup {h} /\ hooks'[h] = new
        /\ \A g \in DOMAIN hooks : g # h => hooks'[g] = hooks[g]
    BY <2>1
  <2>5. new \in Hook /\ new.key = key /\ new.at = i /\ new.action = action /\ new.pc = "account"
    BY <2>2, <2>3 DEF Hook
  <2>. HIDE DEF new
  <2>6. /\ hookPast'.calls = waits /\ DOMAIN hookPast' = {"calls", "between"}
        /\ hookPast.between \subseteq hookPast'.between
        /\ subs[i].last \in Keys => <<i, subs[i].last>> \in hookPast'.between
    BY <2>1, <2>2
  <2>7. /\ DOMAIN subs' = DOMAIN subs /\ subs' \in Seq(Counts)
        /\ \A j \in DOMAIN subs : j # i => subs'[j] = subs[j]
        /\ subs'[i].wakes = subs[i].wakes + 1 /\ subs'[i].last = key
        /\ subs'[i].fixes = IF action = "autofix" THEN subs[i].fixes + 1 ELSE subs[i].fixes
    <3>1. subs[i] \in Counts /\ key \in 0..MaxKeys
      BY <2>2, SubsNumbers, HookNumbers DEF Keys
    <3>2. /\ Noted(subs[i], key, action) \in Counts
          /\ Noted(subs[i], key, action).wakes = subs[i].wakes + 1
          /\ Noted(subs[i], key, action).last = key
          /\ Noted(subs[i], key, action).fixes = IF action = "autofix" THEN subs[i].fixes + 1 ELSE subs[i].fixes
      BY <3>1, <2>3, NotedCounts
    <3>3. subs \in Seq(Counts)
      BY DEF HInv, WakesTyped
    <3>. QED BY <2>1, <2>2, <3>2, <3>3
  <2>8. WakesTyped'
    <3>1. \A g \in DOMAIN hooks' : hooks'[g] \in Hook
      BY <2>4, <2>5 DEF HInv, WakesTyped
    <3>2. DOMAIN hooks' \subseteq 1..waits
      BY <1>0, <2>4
    <3>. QED BY <1>0, <2>6, <2>7, <3>1, <3>2 DEF HInv, WakesTyped
  <2>9. Placed'
    <3>1. \A g \in DOMAIN hooks' : hooks'[g].at \in DOMAIN subs'
      BY <2>2, <2>4, <2>5, <2>7 DEF HInv, Placed
    <3>. QED BY <2>7, <3>1 DEF HInv, Placed
  <2>10. \A j, A : /\ AskedFor(j, A)' = AskedFor(j, A) /\ h \notin AboutTo(j, A)
                   /\ AboutTo(j, A)' = IF j = i /\ action \in A THEN AboutTo(j, A) \cup {h} ELSE AboutTo(j, A)
    BY <2>4, <2>5 DEF AskedFor, AboutTo
  <2>11. \A j, A : /\ Cardinality(AskedFor(j, A)') = Cardinality(AskedFor(j, A))
                   /\ Cardinality(AboutTo(j, A)') = IF j = i /\ action \in A THEN Cardinality(AboutTo(j, A)) + 1
                                                    ELSE Cardinality(AboutTo(j, A))
    BY <2>10, FiniteSides, FS_AddElement
  <2>12. Accounted'
    <3>1. ASSUME NEW j \in DOMAIN subs'
          PROVE  /\ Cardinality(AskedFor(j, Actions)') + Cardinality(AboutTo(j, Actions)') <= subs'[j].wakes
                 /\ Cardinality(AskedFor(j, Repair)') + Cardinality(AboutTo(j, Repair)') <= subs'[j].fixes
                 /\ subs'[j].wakes <= MaxSubscriptionWakes /\ subs'[j].fixes <= MaxCiAutofix
      <4>1. /\ Cardinality(AskedFor(j, Actions)) + Cardinality(AboutTo(j, Actions)) <= subs[j].wakes
            /\ Cardinality(AskedFor(j, Repair)) + Cardinality(AboutTo(j, Repair)) <= subs[j].fixes
            /\ subs[j].wakes <= MaxSubscriptionWakes /\ subs[j].fixes <= MaxCiAutofix
            /\ subs[j].wakes \in Nat /\ subs[j].fixes \in Nat
        BY <2>7, SubsNumbers DEF HInv, Accounted
      <4>2. CASE j # i
        BY <2>7, <2>11, <4>1, <4>2
      <4>3. CASE j = i
        <5>1. action \in Repair <=> action = "autofix"
          BY DEF Repair
        <5>2. /\ Cardinality(AskedFor(j, Actions)') = Cardinality(AskedFor(j, Actions))
              /\ Cardinality(AboutTo(j, Actions)') = Cardinality(AboutTo(j, Actions)) + 1
              /\ Cardinality(AskedFor(j, Repair)') = Cardinality(AskedFor(j, Repair))
              /\ Cardinality(AboutTo(j, Repair)') = IF action = "autofix" THEN Cardinality(AboutTo(j, Repair)) + 1
                                                    ELSE Cardinality(AboutTo(j, Repair))
          BY <2>3, <2>11, <4>3, <5>1
        <5>3. /\ Cardinality(AskedFor(j, Actions)) \in Nat /\ Cardinality(AboutTo(j, Actions)) \in Nat
              /\ Cardinality(AskedFor(j, Repair)) \in Nat /\ Cardinality(AboutTo(j, Repair)) \in Nat
          BY FiniteSides
        <5>4. /\ subs'[j].wakes = subs[j].wakes + 1 /\ subs[j].wakes < MaxSubscriptionWakes
              /\ subs'[j].fixes = IF action = "autofix" THEN subs[j].fixes + 1 ELSE subs[j].fixes
              /\ action = "autofix" => ~(subs[j].fixes >= MaxCiAutofix)
          BY <2>2, <2>3, <2>7, <4>3
        <5>. QED BY <4>1, <5>2, <5>3, <5>4, HookNumbers
      <4>. QED BY <4>2, <4>3
    <3>. QED BY <3>1 DEF Accounted
  <2>13. \A j \in DOMAIN subs : \A k \in Keys : WakesKept(j, k) => WakesKept(j, k)'
    BY <2>6, <2>7 DEF WakesKept
  <2>14. ASSUME NEW k \in Keys, WakesKept(i, k), k = key PROVE <<i, k>> \in hookPast'.between
    BY <2>2, <2>6, <2>14 DEF WakesKept
  <2>15. KeyKept'
    <3>1. ASSUME NEW g \in DOMAIN hooks', hooks'[g].pc = "account" PROVE WakesKept(hooks[g].at, hooks[g].key)'
      <4>1. CASE g = h
        BY <2>4, <2>5, <2>7, <4>1 DEF WakesKept
      <4>2. CASE g # h
        <5>1. g \in DOMAIN hooks /\ hooks'[g] = hooks[g] /\ hooks[g].pc = "account"
          BY <2>4, <3>1, <4>2
        <5>2. hooks[g].at \in DOMAIN subs /\ hooks[g].key \in Keys /\ WakesKept(hooks[g].at, hooks[g].key)
          BY <5>1 DEF HInv, WakesTyped, Hook, Placed, KeyKept
        <5>. QED BY <2>13, <5>1, <5>2 DEF WakesKept
      <4>. QED BY <4>1, <4>2
    <3>2. ASSUME NEW p \in DOMAIN followUps, followUps[p].by = "hook"
          PROVE  /\ followUps[p].sub \in DOMAIN subs /\ followUps[p].key \in Keys
                 /\ WakesKept(followUps[p].sub, followUps[p].key)
      BY <3>2 DEF HInv, Placed, KeyKept
    <3>3. ASSUME NEW p \in DOMAIN followUps', followUps'[p].by = "hook"
          PROVE  WakesKept(followUps[p].sub, followUps[p].key)'
      BY <2>13, <3>2, <3>3 DEF WakesKept
    <3>. QED BY <3>1, <3>3 DEF KeyKept
  <2>16. Single'
    <3>1. ASSUME NEW p \in DOMAIN followUps, followUps[p].by = "hook", followUps[p].sub = i, followUps[p].key = key
          PROVE  <<i, key>> \in hookPast'.between
      BY <2>14, <3>1 DEF HInv, KeyKept
    <3>2. ASSUME NEW g \in DOMAIN hooks, g # h, hooks[g].pc = "account", hooks[g].at = i, hooks[g].key = key
          PROVE  <<i, key>> \in hookPast'.between
      BY <2>14, <3>2 DEF HInv, KeyKept
    <3>3. ASSUME NEW p \in DOMAIN followUps, NEW g \in DOMAIN hooks', followUps[p].by = "hook",
                 hooks'[g].pc = "account", followUps[p].sub = hooks'[g].at, followUps[p].key = hooks'[g].key
          PROVE  <<hooks'[g].at, hooks'[g].key>> \in hookPast'.between
      <4>1. CASE g = h
        BY <2>4, <2>5, <3>1, <3>3, <4>1
      <4>2. CASE g # h
        BY <2>4, <2>6, <3>3, <4>2 DEF HInv, Single
      <4>. QED BY <4>1, <4>2
    <3>4. ASSUME NEW f \in DOMAIN hooks', NEW g \in DOMAIN hooks', f # g, hooks'[f].pc = "account",
                 hooks'[g].pc = "account", hooks'[f].at = hooks'[g].at, hooks'[f].key = hooks'[g].key
          PROVE  <<hooks'[g].at, hooks'[g].key>> \in hookPast'.between
      <4>1. CASE g = h
        BY <2>4, <2>5, <3>2, <3>4, <4>1
      <4>2. CASE f = h
        BY <2>4, <2>5, <3>2, <3>4, <4>2
      <4>3. CASE g # h /\ f # h
        BY <2>4, <2>6, <3>4, <4>3 DEF HInv, Single
      <4>. QED BY <4>1, <4>2, <4>3
    <3>5. ASSUME NEW p \in DOMAIN followUps, NEW q \in DOMAIN followUps, p # q,
                 followUps[p].by = "hook", followUps[q].by = "hook",
                 followUps[p].sub = followUps[q].sub, followUps[p].key = followUps[q].key
          PROVE  <<followUps[p].sub, followUps[p].key>> \in hookPast'.between
      BY <2>6, <3>5 DEF HInv, Single
    <3>. QED BY <3>3, <3>4, <3>5 DEF Single
  <2>. QED BY <2>8, <2>9, <2>12, <2>15, <2>16 DEF HInv
<1>. QED BY <1>1, <1>2

-----------------------------------------------------------------------------
(* The other steps. *)

\* New subscriptions come after the others, and count nothing yet.
LEMMA SubscribedAdds ==
  ASSUME HInv, NEW pr \in BOOLEAN, subs' = Subscribed(pr)
  PROVE  /\ subs' \in Seq(Counts) /\ DOMAIN subs \subseteq DOMAIN subs'
         /\ \A i \in DOMAIN subs : subs'[i] = subs[i]
         /\ \A i \in DOMAIN subs' \ DOMAIN subs : subs'[i].wakes = 0 /\ subs'[i].fixes = 0
<1>. DEFINE target == IF pr THEN "pr" ELSE "branch"
<1>. DEFINE New(kind) == \A i \in DOMAIN subs : subs[i].kind # kind \/ subs[i].target # target
<1>. DEFINE Added(kind) == IF New(kind) THEN <<Fresh(kind, target)>> ELSE <<>>
<1>1. subs' = subs \o Added("github_pr") \o Added("github_ci")
  BY DEF Subscribed
<1>2. \A kind \in {"github_pr", "github_ci"} :
        /\ Fresh(kind, target) \in Counts
        /\ Fresh(kind, target).wakes = 0 /\ Fresh(kind, target).fixes = 0
  BY HookNumbers DEF Fresh, Counts, Actions
<1>. HIDE DEF target, New
<1>3. \A kind \in {"github_pr", "github_ci"} :
        /\ Added(kind) \in Seq(Counts)
        /\ \A i \in 1..Len(Added(kind)) : Added(kind)[i].wakes = 0 /\ Added(kind)[i].fixes = 0
  BY <1>2
<1>. DEFINE a == Added("github_pr")
<1>. DEFINE b == Added("github_ci")
<1>. HIDE DEF Added
<1>4. /\ a \in Seq(Counts) /\ \A i \in 1..Len(a) : a[i].wakes = 0 /\ a[i].fixes = 0
      /\ b \in Seq(Counts) /\ \A i \in 1..Len(b) : b[i].wakes = 0 /\ b[i].fixes = 0
  BY <1>3
<1>5. subs \in Seq(Counts) /\ subs' = (subs \o a) \o b
  BY <1>1 DEF HInv, WakesTyped
<1>. HIDE DEF a, b
<1>6. /\ subs \o a \in Seq(Counts) /\ Len(subs \o a) = Len(subs) + Len(a)
      /\ \A i \in 1..Len(subs) : (subs \o a)[i] = subs[i]
      /\ \A i \in Len(subs) + 1 .. Len(subs \o a) : (subs \o a)[i] = a[i - Len(subs)]
  BY <1>4, <1>5
<1>. DEFINE c == subs \o a
<1>. HIDE DEF c
<1>7. /\ subs' \in Seq(Counts) /\ Len(subs') = Len(c) + Len(b)
      /\ \A i \in 1..Len(c) : subs'[i] = c[i]
      /\ \A i \in Len(c) + 1 .. Len(subs') : subs'[i] = b[i - Len(c)]
  BY <1>4, <1>5, <1>6 DEF c
<1>8. \A i \in DOMAIN subs : i \in DOMAIN subs' /\ subs'[i] = subs[i]
  BY <1>4, <1>5, <1>6, <1>7 DEF c
<1>9. ASSUME NEW i \in DOMAIN subs' \ DOMAIN subs PROVE subs'[i].wakes = 0 /\ subs'[i].fixes = 0
  <2>1. i \in Len(subs) + 1 .. Len(c) \/ i \in Len(c) + 1 .. Len(subs')
    BY <1>4, <1>5, <1>6, <1>7 DEF c
  <2>2. CASE i \in Len(subs) + 1 .. Len(c)
    <3>1. subs'[i] = a[i - Len(subs)] /\ i - Len(subs) \in 1..Len(a)
      BY <1>4, <1>5, <1>6, <1>7, <2>2 DEF c
    <3>. QED BY <1>4, <3>1
  <2>3. CASE i \in Len(c) + 1 .. Len(subs')
    <3>1. subs'[i] = b[i - Len(c)] /\ i - Len(c) \in 1..Len(b)
      BY <1>4, <1>5, <1>6, <1>7, <2>3 DEF c
    <3>. QED BY <1>4, <3>1
  <2>. QED BY <2>1, <2>2, <2>3
<1>. QED BY <1>7, <1>8, <1>9

LEMMA SubscribeKept ==
  ASSUME HInv, NEW pr \in BOOLEAN, subs' = Subscribed(pr), UNCHANGED <<hooks, followUps, hookPast>>
  PROVE  HInv'
<1>1. WakesTyped'
  BY SubscribedAdds DEF HInv, WakesTyped
<1>2. \A i \in DOMAIN subs : /\ subs'[i].wakes = subs[i].wakes /\ subs'[i].fixes = subs[i].fixes
                             /\ subs'[i].last = subs[i].last
  BY SubscribedAdds
<1>. QED BY <1>1, <1>2, SubscribedAdds, Quiet

LEMMA CoolsKept ==
  ASSUME HInv, NEW i \in DOMAIN subs, Cools(i)
  PROVE  HInv'
<1>1. UNCHANGED <<hooks, followUps, hookPast>> /\ subs' = [subs EXCEPT ![i].fresh = FALSE]
  BY DEF Cools
<1>. DEFINE fresh == FALSE
<1>2. fresh \in BOOLEAN /\ subs' = [subs EXCEPT ![i].fresh = fresh] /\ subs \in Seq(Counts)
  BY <1>1 DEF HInv, WakesTyped
<1>. HIDE DEF fresh
<1>3. \A j \in DOMAIN subs : subs[j] \in Counts
  BY <1>2
<1>4. \A s \in Counts : /\ [s EXCEPT !.fresh = fresh] \in Counts
                        /\ [s EXCEPT !.fresh = fresh].wakes = s.wakes
                        /\ [s EXCEPT !.fresh = fresh].fixes = s.fixes
                        /\ [s EXCEPT !.fresh = fresh].last = s.last
  BY <1>2 DEF Counts
<1>5. \A j \in DOMAIN subs : subs'[j] = IF j = i THEN [subs[j] EXCEPT !.fresh = fresh] ELSE subs[j]
  BY <1>2
<1>6. DOMAIN subs' = DOMAIN subs /\ subs' \in Seq(Counts)
  BY <1>2, <1>3, <1>4, <1>5
<1>7. \A j \in DOMAIN subs : /\ subs'[j].wakes = subs[j].wakes /\ subs'[j].fixes = subs[j].fixes
                             /\ subs'[j].last = subs[j].last
  BY <1>3, <1>4, <1>5
<1>8. WakesTyped'
  BY <1>1, <1>6 DEF HInv, WakesTyped
<1>. QED BY <1>1, <1>6, <1>7, <1>8, Quiet

\* A call that asks: what was to come is there.
LEMMA EnqueueKept ==
  ASSUME HInv, NEW h \in DOMAIN hooks, EnqueueFollowUp(h)
  PROVE  HInv'
<1>. DEFINE new == [by |-> "hook", sub |-> hooks[h].at, key |-> hooks[h].key, action |-> hooks[h].action]
<1>1. /\ hooks[h].pc = "account" /\ hooks' = [hooks EXCEPT ![h].pc = "resume"]
      /\ UNCHANGED <<subs, hookPast>>
      /\ followUps' = IF owner.archived THEN followUps ELSE Append(followUps, new)
  BY DEF EnqueueFollowUp
<1>2. /\ hooks[h] \in Hook /\ hooks[h].at \in DOMAIN subs /\ hooks[h].key \in Keys /\ hooks[h].at \in Nat
      /\ hooks[h].action \in Actions
  BY DEF HInv, WakesTyped, Hook, Placed
<1>3. /\ DOMAIN hooks' = DOMAIN hooks /\ hooks'[h].pc = "resume" /\ hooks'[h].at = hooks[h].at
      /\ hooks'[h] \in Hook /\ \A g \in DOMAIN hooks : g # h => hooks'[g] = hooks[g]
  BY <1>1, <1>2 DEF Hook
<1>4. \A g \in DOMAIN hooks' : hooks'[g] \in Hook
  BY <1>3 DEF HInv, WakesTyped
<1>5. CASE owner.archived
  <2>1. WakesTyped'
    BY <1>1, <1>3, <1>4, <1>5 DEF HInv, WakesTyped
  <2>2. \A g \in DOMAIN hooks' : /\ hooks'[g].at = hooks[g].at
                                 /\ hooks'[g].pc = "account" => hooks'[g] = hooks[g]
    BY <1>3
  <2>. QED BY <1>1, <1>3, <1>5, <2>1, <2>2, Quiet
<1>6. CASE ~owner.archived
  <2>. DEFINE n == Len(followUps) + 1
  <2>1. new \in FollowUpOf /\ new.by = "hook" /\ new.sub = hooks[h].at /\ new.key = hooks[h].key
        /\ new.action = hooks[h].action
    BY <1>2, HookNumbers DEF FollowUpOf, Keys, Actions
  <2>. HIDE DEF new
  <2>2. followUps \in Seq(FollowUpOf) /\ followUps' = Append(followUps, new)
    BY <1>1, <1>6 DEF HInv, WakesTyped
  <2>3. /\ followUps' \in Seq(FollowUpOf) /\ DOMAIN followUps' = DOMAIN followUps \cup {n}
        /\ n \notin DOMAIN followUps /\ followUps'[n] = new
        /\ \A p \in DOMAIN followUps : followUps'[p] = followUps[p]
    BY <2>1, <2>2
  <2>. HIDE DEF n
  <2>4. WakesTyped'
    BY <1>1, <1>3, <1>4, <2>3 DEF HInv, WakesTyped
  <2>5. Placed'
    <3>1. \A g \in DOMAIN hooks' : hooks'[g].at \in DOMAIN subs'
      BY <1>1, <1>2, <1>3 DEF HInv, Placed
    <3>2. ASSUME NEW p \in DOMAIN followUps', followUps'[p].by = "hook"
          PROVE  followUps'[p].sub \in DOMAIN subs' /\ followUps'[p].key \in Keys
      BY <1>1, <1>2, <2>1, <2>3, <3>2 DEF HInv, Placed
    <3>. QED BY <3>1, <3>2 DEF Placed
  <2>6. ASSUME NEW i, NEW A
        PROVE  /\ ~(hooks[h].at = i /\ hooks[h].action \in A)
                    => AskedFor(i, A)' = AskedFor(i, A) /\ AboutTo(i, A)' = AboutTo(i, A)
               /\ (hooks[h].at = i /\ hooks[h].action \in A)
                    => /\ AskedFor(i, A)' = AskedFor(i, A) \cup {n} /\ n \notin AskedFor(i, A)
                       /\ AboutTo(i, A)' = AboutTo(i, A) \ {h} /\ h \in AboutTo(i, A)
    BY <1>1, <1>3, <2>1, <2>3 DEF AskedFor, AboutTo
  <2>7. ASSUME NEW i, NEW A
        PROVE  Cardinality(AskedFor(i, A)') + Cardinality(AboutTo(i, A)')
                 = Cardinality(AskedFor(i, A)) + Cardinality(AboutTo(i, A))
    <3>1. /\ IsFiniteSet(AskedFor(i, A)) /\ Cardinality(AskedFor(i, A)) \in Nat
          /\ IsFiniteSet(AboutTo(i, A)) /\ Cardinality(AboutTo(i, A)) \in Nat
      BY FiniteSides
    <3>2. CASE ~(hooks[h].at = i /\ hooks[h].action \in A)
      BY <2>6, <3>2
    <3>3. CASE hooks[h].at = i /\ hooks[h].action \in A
      <4>1. Cardinality(AskedFor(i, A)') = Cardinality(AskedFor(i, A)) + 1
        BY <2>6, <3>1, <3>3, FS_AddElement
      <4>2. Cardinality(AboutTo(i, A)') = Cardinality(AboutTo(i, A)) - 1
        BY <2>6, <3>1, <3>3, FS_RemoveElement
      <4>. QED BY <3>1, <4>1, <4>2
    <3>. QED BY <3>2, <3>3
  <2>8. Accounted'
    <3>1. ASSUME NEW i \in DOMAIN subs'
          PROVE  /\ Cardinality(AskedFor(i, Actions)') + Cardinality(AboutTo(i, Actions)') <= subs'[i].wakes
                 /\ Cardinality(AskedFor(i, Repair)') + Cardinality(AboutTo(i, Repair)') <= subs'[i].fixes
                 /\ subs'[i].wakes <= MaxSubscriptionWakes /\ subs'[i].fixes <= MaxCiAutofix
      BY <1>1, <2>7 DEF HInv, Accounted
    <3>. QED BY <3>1 DEF Accounted
  <2>9. KeyKept'
    <3>1. ASSUME NEW g \in DOMAIN hooks', hooks'[g].pc = "account" PROVE WakesKept(hooks[g].at, hooks[g].key)'
      <4>1. g \in DOMAIN hooks /\ hooks'[g] = hooks[g] /\ WakesKept(hooks[g].at, hooks[g].key)
        BY <1>3, <3>1 DEF HInv, KeyKept
      <4>. QED BY <1>1, <4>1 DEF WakesKept
    <3>2. ASSUME NEW p \in DOMAIN followUps', followUps'[p].by = "hook"
          PROVE  WakesKept(followUps[p].sub, followUps[p].key)'
      <4>1. CASE p = n
        <5>1. WakesKept(hooks[h].at, hooks[h].key) /\ followUps'[p].sub = hooks[h].at /\ followUps'[p].key = hooks[h].key
          BY <1>1, <2>1, <2>3, <4>1 DEF HInv, KeyKept
        <5>. QED BY <1>1, <5>1 DEF WakesKept
      <4>2. CASE p # n
        <5>1. followUps'[p] = followUps[p] /\ WakesKept(followUps[p].sub, followUps[p].key)
          BY <2>3, <3>2, <4>2 DEF HInv, KeyKept
        <5>. QED BY <1>1, <5>1 DEF WakesKept
      <4>. QED BY <4>1, <4>2
    <3>. QED BY <3>1, <3>2 DEF KeyKept
  <2>10. Single'
    <3>1. ASSUME NEW p \in DOMAIN followUps', NEW g \in DOMAIN hooks', followUps'[p].by = "hook",
                 hooks'[g].pc = "account", followUps'[p].sub = hooks'[g].at, followUps'[p].key = hooks'[g].key
          PROVE  <<hooks'[g].at, hooks'[g].key>> \in hookPast'.between
      <4>1. g \in DOMAIN hooks /\ g # h /\ hooks'[g] = hooks[g]
        BY <1>3, <3>1
      <4>2. CASE p = n
        BY <1>1, <2>1, <2>3, <3>1, <4>1, <4>2 DEF HInv, Single
      <4>3. CASE p # n
        BY <1>1, <2>3, <3>1, <4>1, <4>3 DEF HInv, Single
      <4>. QED BY <4>2, <4>3
    <3>2. ASSUME NEW f \in DOMAIN hooks', NEW g \in DOMAIN hooks', f # g, hooks'[f].pc = "account",
                 hooks'[g].pc = "account", hooks'[f].at = hooks'[g].at, hooks'[f].key = hooks'[g].key
          PROVE  <<hooks'[g].at, hooks'[g].key>> \in hookPast'.between
      BY <1>1, <1>3, <3>2 DEF HInv, Single
    <3>3. ASSUME NEW p \in DOMAIN followUps', NEW q \in DOMAIN followUps', p # q,
                 followUps'[p].by = "hook", followUps'[q].by = "hook",
                 followUps'[p].sub = followUps'[q].sub, followUps'[p].key = followUps'[q].key
          PROVE  <<followUps'[p].sub, followUps'[p].key>> \in hookPast'.between
      <4>1. CASE p = n
        BY <1>1, <2>1, <2>3, <3>3, <4>1 DEF HInv, Single
      <4>2. CASE q = n
        BY <1>1, <2>1, <2>3, <3>3, <4>2 DEF HInv, Single
      <4>3. CASE p # n /\ q # n
        BY <1>1, <2>3, <3>3, <4>3 DEF HInv, Single
      <4>. QED BY <4>1, <4>2, <4>3
    <3>. QED BY <3>1, <3>2, <3>3 DEF Single
  <2>. QED BY <2>4, <2>5, <2>8, <2>9, <2>10 DEF HInv
<1>. QED BY <1>5, <1>6

LEMMA UserKept == HInv /\ UserFollowsUp => HInv'
<1>. SUFFICES ASSUME HInv, UserFollowsUp PROVE HInv'
  OBVIOUS
<1>. DEFINE n == Len(followUps) + 1
<1>. DEFINE new == [by |-> "user", sub |-> 0, key |-> 0, action |-> "watch"]
<1>1. UNCHANGED <<subs, hooks, hookPast>> /\ followUps' = Append(followUps, new) /\ followUps \in Seq(FollowUpOf)
  BY DEF UserFollowsUp, HInv, WakesTyped
<1>2. new \in FollowUpOf /\ new.by = "user"
  BY HookNumbers DEF FollowUpOf, Actions
<1>. HIDE DEF new
<1>3. /\ followUps' \in Seq(FollowUpOf) /\ DOMAIN followUps' = DOMAIN followUps \cup {n}
      /\ n \notin DOMAIN followUps /\ followUps'[n] = new
      /\ \A p \in DOMAIN followUps : followUps'[p] = followUps[p]
  BY <1>1, <1>2
<1>. HIDE DEF n
<1>4. \A p \in DOMAIN followUps' : followUps'[p].by = "hook" => p \in DOMAIN followUps /\ followUps'[p] = followUps[p]
  BY <1>2, <1>3
<1>5. \A i, A : AskedFor(i, A)' = AskedFor(i, A) /\ AboutTo(i, A)' = AboutTo(i, A)
  BY <1>1, <1>3, <1>4 DEF AskedFor, AboutTo
<1>6. WakesTyped'
  BY <1>1, <1>3 DEF HInv, WakesTyped
<1>7. Placed'
  BY <1>1, <1>4 DEF HInv, Placed
<1>8. Accounted'
  BY <1>1, <1>5 DEF HInv, Accounted
<1>9. KeyKept'
  BY <1>1, <1>4 DEF HInv, KeyKept, WakesKept
<1>10. Single'
  BY <1>1, <1>4 DEF HInv, Single
<1>. QED BY <1>6, <1>7, <1>8, <1>9, <1>10 DEF HInv

LEMMA HNext == HInv /\ [HookNext]_hookVars => HInv'
<1>. SUFFICES ASSUME HInv, [HookNext]_hookVars PROVE HInv'
  OBVIOUS
<1>1. CASE UNCHANGED hookVars
  <2>1. WakesTyped'
    BY <1>1 DEF hookVars, HInv, WakesTyped
  <2>. QED BY <1>1, <2>1, Quiet DEF hookVars
<1>2. CASE SubscribeRun
  <2>1. UNCHANGED <<hooks, followUps, hookPast>> /\ subs' = Subscribed(owner.pr)
    BY <1>2 DEF SubscribeRun
  <2>2. Subscribed(owner.pr) = Subscribed(TRUE) \/ Subscribed(owner.pr) = Subscribed(FALSE)
    BY DEF Subscribed
  <2>. QED BY <2>1, <2>2, SubscribeKept
<1>3. CASE OpenPullRequest
  BY <1>3, SubscribeKept DEF OpenPullRequest
<1>4. CASE UserFollowsUp
  BY <1>4, UserKept
<1>5. CASE RunIsArchived
  <2>1. UNCHANGED <<subs, hooks, hookPast>> /\ followUps' = <<>>
    BY <1>5 DEF RunIsArchived
  <2>2. WakesTyped'
    BY <2>1 DEF HInv, WakesTyped
  <2>. QED BY <2>1, <2>2, Quiet
<1>6. ASSUME NEW key \in Keys, NEW m \in Deliveries, IngestGitHubWebhook(key, m) PROVE HInv'
  <2>1. PICK from \in Nat \ {0} : HookLoop(hookPast.calls + 1, key, m, from)
    BY <1>6 DEF IngestGitHubWebhook, HInv, WakesTyped
  <2>2. hookPast.calls + 1 \in Nat \ {0} /\ hookPast.calls + 1 \notin DOMAIN hooks /\ UNCHANGED followUps
    BY <1>6 DEF IngestGitHubWebhook, HInv, WakesTyped
  <2>. QED BY <2>1, <2>2, HookLoopKept
<1>7. ASSUME NEW h \in DOMAIN hooks, EnqueueFollowUp(h) PROVE HInv'
  BY <1>7, EnqueueKept
<1>8. ASSUME NEW h \in DOMAIN hooks, HookGoesOn(h) PROVE HInv'
  <2>1. /\ h \in Nat \ {0} /\ h <= hookPast.calls + 1 /\ hooks[h].pc = "resume" /\ UNCHANGED followUps
        /\ hooks[h].key \in Keys /\ hooks[h].at \in Nat
    BY <1>8 DEF HookGoesOn, HInv, WakesTyped, Hook
  <2>2. \E from \in Nat \ {0} : HookLoop(h, hooks[h].key, mail[hooks[h].key], from)
    BY <1>8, <2>1 DEF HookGoesOn, HInv, WakesTyped
  <2>. QED BY <2>1, <2>2, HookLoopKept
<1>9. ASSUME NEW h \in DOMAIN hooks, EnqueueThrows(h) PROVE HInv'
  <2>1. UNCHANGED <<subs, followUps, hookPast>> /\ hooks' = Restrict(hooks, DOMAIN hooks \ {h})
    BY <1>9 DEF EnqueueThrows
  <2>2. DOMAIN hooks' \subseteq DOMAIN hooks /\ \A g \in DOMAIN hooks' : hooks'[g] = hooks[g]
    BY <2>1 DEF Restrict
  <2>3. WakesTyped'
    BY <2>1, <2>2 DEF HInv, WakesTyped
  <2>. QED BY <2>1, <2>2, <2>3, Quiet
<1>10. ASSUME NEW i \in DOMAIN subs, Cools(i) PROVE HInv'
  BY <1>10, CoolsKept
<1>. QED BY <1>1, <1>2, <1>3, <1>4, <1>5, <1>6, <1>7, <1>8, <1>9, <1>10 DEF HookNext

\* Whatever GitHub delivers and repeats, however many webhook calls wait side by side, and
\* whatever users do meanwhile: a subscription asks the agent once for a delivery, until the
\* key of another one was kept in its place, and never beyond MAX_CI_AUTOFIX repairs and
\* MAX_SUBSCRIPTION_WAKES wakes (orchestrator.ts ingestGitHubWebhook).
THEOREM OneWakePerDelivery == HookSpec => []WakesOnce
<1>1. HInv => WakesOnce
  <2>. SUFFICES ASSUME HInv, NEW i \in DOMAIN subs
                PROVE  /\ Cardinality(Asked(i)) <= MaxSubscriptionWakes
                       /\ Cardinality({p \in Asked(i) : followUps[p].action = "autofix"}) <= MaxCiAutofix
                       /\ \A p, q \in Asked(i) : (p < q /\ followUps[p].key = followUps[q].key)
                                                   => <<i, followUps[p].key>> \in hookPast.between
    BY DEF WakesOnce
  <2>1. \A p \in DOMAIN followUps : followUps[p].action \in Actions /\ p \in Nat
    <3>1. followUps \in Seq(FollowUpOf)
      BY DEF HInv, WakesTyped
    <3>2. \A p \in DOMAIN followUps : followUps[p] \in FollowUpOf /\ p \in Nat
      BY <3>1
    <3>. QED BY <3>2 DEF FollowUpOf
  <2>2. /\ Asked(i) = AskedFor(i, Actions)
        /\ {p \in Asked(i) : followUps[p].action = "autofix"} = AskedFor(i, Repair)
    BY <2>1 DEF Asked, AskedFor, Repair
  <2>3. /\ Cardinality(AskedFor(i, Actions)) + Cardinality(AboutTo(i, Actions)) <= subs[i].wakes
        /\ Cardinality(AskedFor(i, Repair)) + Cardinality(AboutTo(i, Repair)) <= subs[i].fixes
        /\ subs[i].wakes <= MaxSubscriptionWakes /\ subs[i].fixes <= MaxCiAutofix
        /\ subs[i].wakes \in Nat /\ subs[i].fixes \in Nat
    BY SubsNumbers DEF HInv, Accounted
  <2>4. Cardinality(Asked(i)) <= MaxSubscriptionWakes /\ Cardinality(AskedFor(i, Repair)) <= MaxCiAutofix
    BY <2>2, <2>3, FiniteSides, HookNumbers
  <2>5. ASSUME NEW p \in Asked(i), NEW q \in Asked(i), p < q, followUps[p].key = followUps[q].key
        PROVE  <<i, followUps[p].key>> \in hookPast.between
    BY <2>1, <2>5 DEF Asked, HInv, Single
  <2>. QED BY <2>2, <2>4, <2>5
<1>. QED BY <1>1, HInit, HNext, PTL DEF HookSpec

-----------------------------------------------------------------------------
(* The types of the subscriptions: the counts are within the limits by HInv, *)
(* what is left is the calls, the deliveries and the keys that were kept.    *)

Posted ==
  /\ mail \in Seq(Mail) /\ Len(mail) <= MaxKeys
  /\ owner \in [pr : BOOLEAN, archived : BOOLEAN, blocked : BOOLEAN]
  /\ hookPast.calls \in 0..MaxHooks /\ hookPast.between \subseteq Nat \X Keys

LEMMA LoopPosts ==
  ASSUME HInv, Posted, NEW h \in Nat, h <= MaxHooks, NEW key, NEW m, NEW from, HookLoop(h, key, m, from)
  PROVE  hookPast'.calls \in 0..MaxHooks /\ hookPast'.between \subseteq Nat \X Keys
<1>. DEFINE most == IF h > hookPast.calls THEN h ELSE hookPast.calls
<1>1. most \in 0..MaxHooks
  BY HookNumbers DEF Posted
<1>2. DOMAIN hookPast = {"calls", "between"} /\ hookPast.between \subseteq Nat \X Keys
  BY DEF HInv, WakesTyped, Posted
<1>3. \/ hookPast' = [hookPast EXCEPT !.calls = most]
      \/ \E x : /\ hookPast' = [calls |-> most, between |-> hookPast.between \cup (x \cap (Nat \X (Keys \ {key})))]
  BY DEF HookLoop
<1>. HIDE DEF most
<1>4. CASE hookPast' = [hookPast EXCEPT !.calls = most]
  BY <1>1, <1>2, <1>4
<1>5. ASSUME NEW x, hookPast' = [calls |-> most, between |-> hookPast.between \cup (x \cap (Nat \X (Keys \ {key})))]
      PROVE  hookPast'.calls \in 0..MaxHooks /\ hookPast'.between \subseteq Nat \X Keys
  <2>1. x \cap (Nat \X (Keys \ {key})) \subseteq Nat \X Keys
    OBVIOUS
  <2>. QED BY <1>1, <1>2, <1>5, <2>1
<1>. QED BY <1>3, <1>4, <1>5

LEMMA PostedStep == ASSUME HInv, Posted, [HookNext]_hookVars PROVE Posted'
<1>1. CASE UNCHANGED hookVars
  BY <1>1 DEF hookVars, Posted
<1>2. CASE SubscribeRun \/ UserFollowsUp
  BY <1>2 DEF SubscribeRun, UserFollowsUp, Posted
<1>3. CASE OpenPullRequest \/ RunIsArchived
  <2>1. UNCHANGED <<mail, hookPast>> /\ (owner' = [owner EXCEPT !.pr = TRUE] \/ owner' = [owner EXCEPT !.archived = TRUE])
    BY <1>3 DEF OpenPullRequest, RunIsArchived
  <2>. QED BY <2>1 DEF Posted
<1>4. ASSUME NEW key \in Keys, NEW m \in Deliveries, IngestGitHubWebhook(key, m)
      PROVE  Posted'
  <2>1. hookPast.calls + 1 \in Nat /\ hookPast.calls + 1 <= MaxHooks
    BY <1>4, HookNumbers DEF IngestGitHubWebhook, Posted
  <2>2. \E from : HookLoop(hookPast.calls + 1, key, m, from)
    BY <1>4 DEF IngestGitHubWebhook
  <2>3. hookPast'.calls \in 0..MaxHooks /\ hookPast'.between \subseteq Nat \X Keys
    BY <2>1, <2>2, LoopPosts
  <2>4. mail' \in Seq(Mail) /\ Len(mail') <= MaxKeys
    <3>1. mail' = IF key = Len(mail) + 1 THEN Append(mail, m) ELSE mail
      BY <1>4 DEF IngestGitHubWebhook
    <3>2. m \in Mail /\ mail \in Seq(Mail) /\ Len(mail) <= MaxKeys /\ key <= MaxKeys
      BY DeliveriesKnown, HookNumbers DEF Posted, Keys
    <3>. QED BY <3>1, <3>2
  <2>5. PICK b \in BOOLEAN : owner' = [owner EXCEPT !.blocked = b]
    <3>1. owner' = [owner EXCEPT !.blocked = @ \/ (~owner.archived /\ m.kind = "human_push"
                     /\ \E i \in DOMAIN subs : SubscriptionMatchesIngress(subs[i], m))]
      BY <1>4 DEF IngestGitHubWebhook
    <3>2. PICK b \in BOOLEAN : b = (owner.blocked \/ (~owner.archived /\ m.kind = "human_push"
                     /\ \E i \in DOMAIN subs : SubscriptionMatchesIngress(subs[i], m)))
      OBVIOUS
    <3>. QED BY <3>1, <3>2
  <2>. QED BY <2>3, <2>4, <2>5 DEF Posted
<1>5. ASSUME NEW h \in DOMAIN hooks, HookGoesOn(h)
      PROVE  Posted'
  <2>1. h \in Nat /\ h <= MaxHooks
    BY HookNumbers DEF HInv, WakesTyped, Posted
  <2>2. \E from : HookLoop(h, hooks[h].key, mail[hooks[h].key], from)
    BY <1>5 DEF HookGoesOn
  <2>3. hookPast'.calls \in 0..MaxHooks /\ hookPast'.between \subseteq Nat \X Keys
    BY <2>1, <2>2, LoopPosts
  <2>. QED BY <1>5, <2>3 DEF HookGoesOn, Posted
<1>6. ASSUME NEW h \in DOMAIN hooks, EnqueueFollowUp(h) \/ EnqueueThrows(h)
      PROVE  Posted'
  BY <1>6 DEF EnqueueFollowUp, EnqueueThrows, Posted
<1>7. ASSUME NEW i \in DOMAIN subs, Cools(i)
      PROVE  Posted'
  BY <1>7 DEF Cools, Posted
<1>. QED BY <1>1, <1>2, <1>3, <1>4, <1>5, <1>6, <1>7 DEF HookNext

\* The subscriptions of a run, the webhook calls that wait and what GitHub has delivered
\* have their types: no subscription counts more wakes or repairs than its limits allow.
THEOREM HookTypes == HookSpec => []HookTypeOK
<1>1. HInv /\ Posted => HookTypeOK
  <2>. SUFFICES ASSUME HInv, Posted PROVE HookTypeOK
    OBVIOUS
  <2>1. subs \in Seq(Subscription)
    <3>1. subs \in Seq(Counts) /\ DOMAIN subs = 1..Len(subs) /\ Len(subs) \in Nat
      BY DEF HInv, WakesTyped
    <3>2. ASSUME NEW i \in DOMAIN subs
          PROVE  subs[i] \in Subscription
      <4>1. subs[i] \in Counts /\ subs[i].wakes \in Nat /\ subs[i].fixes \in Nat
        BY SubsNumbers
      <4>2. subs[i].wakes <= MaxSubscriptionWakes /\ subs[i].fixes <= MaxCiAutofix
        BY DEF HInv, Accounted
      <4>3. subs[i].wakes \in 0..MaxSubscriptionWakes /\ subs[i].fixes \in 0..MaxCiAutofix
        BY <4>1, <4>2, HookNumbers
      <4>. QED BY <4>1, <4>3 DEF Counts, Subscription
    <3>. QED BY <3>1, <3>2
  <2>2. DOMAIN hooks \subseteq 1..MaxHooks /\ \A h \in DOMAIN hooks : hooks[h] \in Hook
    BY HookNumbers DEF HInv, WakesTyped, Posted
  <2>. QED BY <2>1, <2>2 DEF HInv, WakesTyped, Posted, HookTypeOK, Hook
<1>2. HookInit => Posted
  BY HookNumbers DEF HookInit, Posted
<1>3. HInv /\ Posted /\ [HookNext]_hookVars => Posted'
  BY PostedStep
<1>. QED BY <1>1, <1>2, <1>3, HInit, HNext, PTL DEF HookSpec

-----------------------------------------------------------------------------
(* All of them side by side. *)

\* No component's step disturbs another: whatever is proved of a component alone holds of it among the others.
THEOREM EachPartAlone ==
  ServicesSpec => /\ DeskSpec /\ ToolsSpec /\ StreamSpec /\ FilesSpec
                  /\ AutoSpec /\ HookSpec /\ StoreSpec /\ RateSpec
<1>1. ServicesInit => /\ DeskInit /\ ToolsInit /\ StreamInit /\ FilesInit
                      /\ AutoInit /\ HookInit /\ StoreInit /\ RateInit
  BY DEF ServicesInit
<1>2. [ServicesNext]_serviceVars =>
        /\ [DeskNext]_deskVars /\ [ToolsNext]_toolVars /\ [StreamNext]_streamVars /\ [FilesNext]_fileVars
        /\ [AutoNext]_autoVars /\ [HookNext]_hookVars /\ [StoreNext]_storeVars /\ [RateNext]_rateVars
  BY DEF ServicesNext, serviceVars
<1>. QED BY <1>1, <1>2, PTL
       DEF ServicesSpec, DeskSpec, ToolsSpec, StreamSpec, FilesSpec, AutoSpec, HookSpec, StoreSpec, RateSpec

-----------------------------------------------------------------------------
(* The types of all the parts together.                                      *)

LEMMA PartChosen == ServicesSpec => [](part \in Parts)
<1>1. ServicesInit => part \in Parts
  BY DEF ServicesInit
<1>2. part \in Parts /\ [ServicesNext]_serviceVars => (part \in Parts)'
  BY DEF ServicesNext, serviceVars
<1>. QED BY <1>1, <1>2, PTL DEF ServicesSpec

\* Every component keeps its types while it runs beside the others, for every number of
\* runs, calls, events, automations, subscriptions and limits: together with the theorem
\* that each part runs as it does alone.
THEOREM ServicesTypes == ServicesSpec => []ServicesTypeOK
<1>1. /\ part \in Parts /\ DeskTypeOK /\ ToolsTypeOK /\ StreamTypeOK /\ FilesTypeOK
      /\ AutoTypeOK /\ HookTypeOK /\ StoreTypeOK /\ RateTypeOK
      => ServicesTypeOK
  BY DEF ServicesTypeOK
<1>. QED BY <1>1, EachPartAlone, PartChosen, DeskTypes, ToolsTypes, StreamTypes, FilesTypes,
            AutoTypes, HookTypes, StoreTypes, RateTypes, PTL

=============================================================================
