------------------------------ MODULE Edges_proofs ------------------------------
(***************************************************************************)
(* Proofs about the edges of the control plane: the computers that it      *)
(* offers runs to (DeskHost) and the limits on what clients ask of it      *)
(* (RateLimits).  Whichever way and however often runs are offered to a    *)
(* computer, the entry of a run in localRuns tells who works for it, until *)
(* the entry is taken away.  Whatever the limits, the number of runs and   *)
(* the order of events, leases are given back exactly as they are taken,   *)
(* no bucket and no window lets in more than its limit, and what a refused *)
(* client is told of the wait is true.                                     *)
(***************************************************************************)
EXTENDS DeskHost, RateLimits, FiniteSetTheorems, TLAPS

-----------------------------------------------------------------------------
(* The desk.                                                                 *)

ProcOf(S) == [run : S, st : {"up", "turn", "served", "leaving", "gone"}]

Shapes ==
  /\ DOMAIN tale = {"sent", "stops", "cuts", "dropped", "reaped"} /\ tale.reaped \in BOOLEAN
  /\ hosted \in [Runs -> Int]
  /\ \E S : procs \in Seq(ProcOf(S))
  /\ \A s \in starts : DOMAIN s = {"run", "via", "pc", "seen", "pid"}
\* Only who waited for a reap waits for the look-up, or retires.
Reaps == ~tale.reaped => \A s \in starts : s.pc \notin {"reap", "retire"}
\* The runs whose entry was left alone.
Undisturbed(r) == r \notin tale.dropped /\ (~tale.reaped \/ tale.dropped = {})
\* Their entry is that of their one process, or stands for the one start that will spawn it.
Owned(r) ==
  /\ \A i \in DOMAIN procs : (procs[i].run = r /\ procs[i].st # "gone") => hosted[r] = i
  /\ \A s \in starts : (s.run = r /\ s.pc = "prepare") => hosted[r] = Reserved
  /\ \A s, t \in starts :
       (s.run = r /\ s.pc = "prepare" /\ t.run = r /\ t.pc = "prepare") => s = t
DInv == /\ Shapes /\ Reaps /\ HostLimit
        /\ \A r \in Runs : Undisturbed(r) => Owned(r)

-----------------------------------------------------------------------------
LEMMA DInit == DeskInit => DInv
<1>. SUFFICES ASSUME DeskInit PROVE DInv
  OBVIOUS
<1>1. /\ hosted = [r \in Runs |-> Free] /\ starts = {} /\ procs = <<>> /\ DOMAIN procs = {}
      /\ DOMAIN tale = {"sent", "stops", "cuts", "dropped", "reaped"} /\ tale.reaped = FALSE
  BY DEF DeskInit
<1>2. Hosting = {}
  BY <1>1 DEF Hosting
<1>3. HostLimit
  BY <1>2, FS_EmptySet, DeskNumbers DEF HostLimit
<1>4. Shapes
  <2>1. procs \in Seq(ProcOf({})) /\ hosted \in [Runs -> Int]
    BY <1>1 DEF Free
  <2>. QED BY <1>1, <2>1 DEF Shapes
<1>5. Reaps /\ \A r \in Runs : Owned(r)
  BY <1>1 DEF Reaps, Owned
<1>. QED BY <1>3, <1>4, <1>5 DEF DInv

LEMMA HostedCounted ==
  ASSUME DInv
  PROVE  \A Q \in SUBSET Runs : IsFiniteSet(Q) /\ Cardinality(Q) \in Nat
BY DeskRuns, FS_Subset, FS_CardinalityType

-----------------------------------------------------------------------------
\* The invariant says what is promised.
LEMMA OneOf ==
  ASSUME DInv
  PROVE  HostOneWorker /\ HostLimit
<1>. SUFFICES ASSUME NEW r \in Runs, r \notin tale.dropped, ~tale.reaped
              PROVE  Cardinality(HostedWorkers(r)) <= 1
  BY DEF DInv, HostOneWorker
<1>1. \A i \in HostedWorkers(r) : i = hosted[r]
  BY DEF DInv, Undisturbed, Owned, HostedWorkers
<1>2. HostedWorkers(r) = {} \/ HostedWorkers(r) = {hosted[r]}
  BY <1>1
<1>3. Cardinality({}) = 0 /\ Cardinality({hosted[r]}) = 1
  BY FS_EmptySet, FS_Singleton
<1>. QED BY <1>2, <1>3

-----------------------------------------------------------------------------
\* Steps that leave localRuns and the starts alone; processes may leave.
LEMMA HostKept ==
  ASSUME DInv, UNCHANGED <<hosted, starts>>,
         DOMAIN tale' = DOMAIN tale, tale'.reaped = tale.reaped, tale.dropped \subseteq tale'.dropped,
         DOMAIN procs' = DOMAIN procs, \E S : procs' \in Seq(ProcOf(S)),
         \A i \in DOMAIN procs : procs'[i].run = procs[i].run /\ (procs'[i].st # "gone" => procs[i].st # "gone")
  PROVE  DInv'
<1>1. Shapes' /\ Reaps'
  BY DEF DInv, Shapes, Reaps
<1>2. Hosting' = Hosting
  BY DEF Hosting
<1>3. HostLimit'
  BY <1>2 DEF DInv, HostLimit
<1>4. \A r \in Runs : Undisturbed(r)' => Undisturbed(r)
  BY DEF Undisturbed
<1>5. \A r \in Runs : Owned(r) => Owned(r)'
  BY DEF Owned
<1>. QED BY <1>1, <1>3, <1>4, <1>5 DEF DInv

LEMMA SameHost ==
  ASSUME DInv, UNCHANGED <<hosted, starts, procs>>,
         DOMAIN tale' = DOMAIN tale, tale'.reaped = tale.reaped, tale.dropped \subseteq tale'.dropped
  PROVE  DInv'
BY HostKept DEF DInv, Shapes

LEMMA ElsewhereKept ==
  ASSUME DInv,
         \/ LeasePoll \/ StreamOpens \/ WaiterTimesOut \/ LeaseBreaks \/ StreamBreaks \/ Detach
         \/ \E r \in Runs : Expire(r) \/ DeskFollowUp(r) \/ WebStops(r)
         \/ \E p \in posts : PostArrives(p)
  PROVE  DInv'
<1>1. DOMAIN tale = {"sent", "stops", "cuts", "dropped", "reaped"}
  BY DEF DInv, Shapes
<1>2. UNCHANGED <<hosted, starts, procs>>
  BY DEF LeasePoll, StreamOpens, WaiterTimesOut, LeaseBreaks, StreamBreaks, Detach, Expire, DeskFollowUp,
         WebStops, PostArrives
<1>3. \/ tale' = tale \/ tale' = [tale EXCEPT !.cuts = @ + 1] \/ tale' = [tale EXCEPT !.sent = @ + 1]
      \/ tale' = [tale EXCEPT !.stops = @ + 1]
  BY DEF LeasePoll, StreamOpens, WaiterTimesOut, LeaseBreaks, StreamBreaks, Detach, Expire, DeskFollowUp,
         WebStops, PostArrives
<1>4. DOMAIN tale' = DOMAIN tale /\ tale'.reaped = tale.reaped /\ tale'.dropped = tale.dropped
  BY <1>1, <1>3
<1>. QED BY <1>2, <1>4, SameHost

-----------------------------------------------------------------------------
(* startAssignment *)

LEMMA StartBegins ==
  ASSUME DInv, NEW r, NEW via, hosted[r] = Free, BeginStart(r, via), UNCHANGED procs
  PROVE  DInv'
<1>. DEFINE s == [run |-> r, via |-> via, pc |-> "prepare", seen |-> {}, pid |-> 0]
<1>0. /\ DOMAIN tale = {"sent", "stops", "cuts", "dropped", "reaped"} /\ tale.reaped \in BOOLEAN
      /\ hosted \in [Runs -> Int] /\ \A q \in starts : DOMAIN q = {"run", "via", "pc", "seen", "pid"}
  BY DEF DInv, Shapes
<1>1. CASE HasRoom(r, hosted)
  <2>1. hosted' = [hosted EXCEPT ![r] = Reserved] /\ starts' = starts \cup {s} /\ tale' = tale
    BY <1>1 DEF BeginStart
  <2>2. s.run = r /\ s.pc = "prepare" /\ DOMAIN s = {"run", "via", "pc", "seen", "pid"}
    OBVIOUS
  <2>. HIDE DEF s
  <2>3. Shapes' /\ Reaps'
    <3>1. hosted' \in [Runs -> Int]
      <4>1. Reserved \in Int
        BY DEF Reserved
      <4>. QED BY <1>0, <2>1, <4>1
    <3>2. \E S : procs' \in Seq(ProcOf(S))
      BY DEF DInv, Shapes
    <3>3. \A q \in starts' : DOMAIN q = {"run", "via", "pc", "seen", "pid"}
      BY <1>0, <2>1, <2>2
    <3>4. Reaps'
      BY <2>1, <2>2 DEF DInv, Reaps
    <3>. QED BY <1>0, <2>1, <3>1, <3>2, <3>3, <3>4 DEF Shapes
  <2>4. HostLimit'
    <3>1. CASE r \in Runs
      <4>. DEFINE others == {q \in Runs \ {r} : hosted[q] # Free}
      <4>1. Hosting' = others \cup {r}
        BY <1>0, <2>1, <3>1 DEF Hosting, Reserved, Free
      <4>2. IsFiniteSet(others) /\ Cardinality(others) \in Nat /\ r \notin others /\ Cardinality(others) < Limit
        BY <1>1, HostedCounted DEF HasRoom
      <4>3. Cardinality(others \cup {r}) = Cardinality(others) + 1
        BY <4>2, FS_AddElement
      <4>. HIDE DEF others
      <4>. QED BY <4>1, <4>2, <4>3, DeskNumbers DEF HostLimit
    <3>2. CASE r \notin Runs
      BY <1>0, <2>1, <3>2 DEF DInv, HostLimit, Hosting
    <3>. QED BY <3>1, <3>2
  <2>5. ASSUME NEW q \in Runs, Owned(q) PROVE Owned(q)'
    <3>1. CASE q = r
      <4>1. \A i \in DOMAIN procs : procs[i].run = r => procs[i].st = "gone"
        <5>1. ASSUME NEW i \in DOMAIN procs, procs[i].run = r, procs[i].st # "gone" PROVE FALSE
          <6>1. i \in Nat /\ i = Free
            BY <2>5, <3>1, <5>1 DEF DInv, Shapes, Owned
          <6>. QED BY <6>1 DEF Free
        <5>. QED BY <5>1
      <4>2. \A t \in starts : ~(t.run = r /\ t.pc = "prepare")
        BY <2>5, <3>1 DEF Owned, Free, Reserved
      <4>3. hosted'[r] = Reserved
        BY <1>0, <2>1, <3>1
      <4>. QED BY <2>1, <2>2, <3>1, <4>1, <4>2, <4>3 DEF Owned
    <3>2. CASE q # r
      BY <1>0, <2>1, <2>2, <2>5, <3>2 DEF Owned
    <3>. QED BY <3>1, <3>2
  <2>6. \A q \in Runs : Undisturbed(q)' => Undisturbed(q)
    BY <2>1 DEF Undisturbed
  <2>. QED BY <2>3, <2>4, <2>5, <2>6 DEF DInv
<1>2. CASE ~HasRoom(r, hosted)
  <2>1. PICK t : t = [s EXCEPT !.pc = "reap", !.seen = {q \in Hosting \ {r} : hosted[q] \in Pids}]
    OBVIOUS
  <2>2. hosted' = hosted /\ starts' = starts \cup {t} /\ tale' = [tale EXCEPT !.reaped = TRUE]
    BY <1>2, <2>1 DEF BeginStart
  <2>3. t.pc = "reap" /\ DOMAIN t = {"run", "via", "pc", "seen", "pid"}
    BY <2>1
  <2>4. DOMAIN tale' = DOMAIN tale /\ tale'.reaped /\ tale'.reaped \in BOOLEAN /\ tale'.dropped = tale.dropped
    BY <1>0, <2>2
  <2>5. Shapes' /\ Reaps'
    BY <2>2, <2>3, <2>4 DEF DInv, Shapes, Reaps
  <2>6. HostLimit'
    BY <2>2, <2>4 DEF DInv, HostLimit, Hosting
  <2>7. \A q \in Runs : Owned(q) => Owned(q)'
    BY <2>2, <2>3 DEF Owned
  <2>8. \A q \in Runs : Undisturbed(q)' => Undisturbed(q)
    BY <2>4 DEF Undisturbed
  <2>. QED BY <2>5, <2>6, <2>7, <2>8 DEF DInv
<1>. QED BY <1>1, <1>2

-----------------------------------------------------------------------------
(* stopRun and the exits *)

\* A signalled process is of the same run and has not gone; the others stay as they are.
SameProcs == /\ DOMAIN procs' = DOMAIN procs /\ \E S : procs' \in Seq(ProcOf(S))
             /\ \A i \in DOMAIN procs : /\ procs'[i].run = procs[i].run
                                        /\ procs'[i].st # "gone" => procs[i].st # "gone"

LEMMA SignalledShape ==
  ASSUME NEW S, NEW p \in ProcOf(S)
  PROVE  /\ Signalled(p) \in ProcOf(S) /\ Signalled(p).run = p.run
         /\ Signalled(p).st # "gone" => p.st # "gone"
BY DEF Signalled, ProcOf

LEMMA SignalledSame ==
  ASSUME DInv, NEW Q, procs' = [i \in DOMAIN procs |-> IF i \in Q THEN Signalled(procs[i]) ELSE procs[i]]
  PROVE  SameProcs
<1>1. PICK S : procs \in Seq(ProcOf(S))
  BY DEF DInv, Shapes
<1>2. \A i \in DOMAIN procs : procs[i] \in ProcOf(S)
  BY <1>1
<1>3. \A i \in DOMAIN procs : /\ Signalled(procs[i]) \in ProcOf(S) /\ Signalled(procs[i]).run = procs[i].run
                              /\ Signalled(procs[i]).st # "gone" => procs[i].st # "gone"
  BY <1>2, SignalledShape
<1>4. DOMAIN procs' = DOMAIN procs /\ DOMAIN procs = 1..Len(procs) /\ Len(procs) \in Nat
  BY <1>1
<1>5. \A i \in DOMAIN procs : procs'[i] \in ProcOf(S)
  BY <1>2, <1>3
<1>6. procs' \in Seq(ProcOf(S))
  <2>1. procs' = [i \in 1..Len(procs) |-> procs'[i]]
    BY <1>4
  <2>. QED BY <1>4, <1>5, <2>1
<1>. QED BY <1>3, <1>4, <1>6 DEF SameProcs

LEMMA KilledSame ==
  ASSUME DInv, NEW rs, procs' = KilledOf(hosted, rs)
  PROVE  SameProcs
<1>. DEFINE Q == {i \in DOMAIN procs : \E r \in rs : hosted[r] = i}
<1>1. procs' = [i \in DOMAIN procs |-> IF i \in Q THEN Signalled(procs[i]) ELSE procs[i]]
  BY DEF KilledOf
<1>. HIDE DEF Q
<1>. QED BY <1>1, SignalledSame

\* Entries are taken away: of runs that are disturbed by that.
LEMMA Forgotten ==
  ASSUME DInv, SameProcs, NEW rs, hosted' = StopHosted(hosted, rs), starts' \subseteq starts,
         DOMAIN tale' = DOMAIN tale, tale'.reaped = tale.reaped, tale'.dropped = tale.dropped \cup rs
  PROVE  DInv'
<1>0. hosted \in [Runs -> Int] /\ hosted' \in [Runs -> Int]
  <2>1. hosted \in [Runs -> Int] /\ Free \in Int
    BY DEF DInv, Shapes, Free
  <2>. QED BY <2>1 DEF StopHosted
<1>1. Shapes' /\ Reaps'
  BY <1>0 DEF DInv, Shapes, Reaps, SameProcs
<1>2. HostLimit'
  <2>1. Hosting' \subseteq Hosting /\ Hosting \subseteq Runs
    BY DEF Hosting, StopHosted
  <2>2. Cardinality(Hosting') <= Cardinality(Hosting)
    BY <2>1, DeskRuns, FS_Subset
  <2>3. Cardinality(Hosting) \in Nat /\ Cardinality(Hosting') \in Nat
    BY <2>1, DeskRuns, FS_Subset, FS_CardinalityType
  <2>. QED BY <2>2, <2>3, DeskNumbers DEF DInv, HostLimit
<1>3. ASSUME NEW r \in Runs, Undisturbed(r)' PROVE Owned(r)'
  <2>1. Undisturbed(r) /\ r \notin rs
    BY <1>3 DEF Undisturbed
  <2>2. Owned(r) /\ hosted'[r] = hosted[r]
    BY <2>1 DEF DInv, StopHosted
  <2>. QED BY <2>2 DEF Owned, SameProcs
<1>. QED BY <1>1, <1>2, <1>3 DEF DInv

LEMMA StopsKept ==
  ASSUME DInv, \E r \in Runs : WindowStops(r)
  PROVE  DInv'
<1>1. PICK r \in Runs : WindowStops(r)
  OBVIOUS
<1>2. DOMAIN tale = {"sent", "stops", "cuts", "dropped", "reaped"}
  BY DEF DInv, Shapes
<1>3. hosted' = StopHosted(hosted, {r}) /\ procs' = KilledOf(hosted, {r}) /\ starts' = starts
      /\ tale' = [tale EXCEPT !.stops = @ + 1, !.dropped = @ \cup {r}]
  BY <1>1 DEF WindowStops
<1>4. DOMAIN tale' = DOMAIN tale /\ tale'.reaped = tale.reaped /\ tale'.dropped = tale.dropped \cup {r}
  BY <1>2, <1>3
<1>5. SameProcs
  BY <1>3, KilledSame
<1>. QED BY <1>3, <1>4, <1>5, Forgotten

LEMMA StartFailsKept ==
  ASSUME DInv, NEW s \in starts, StartFails(s)
  PROVE  DInv'
<1>1. DOMAIN tale = {"sent", "stops", "cuts", "dropped", "reaped"} /\ hosted \in [Runs -> Int]
  BY DEF DInv, Shapes
<1>2. /\ tale' = [tale EXCEPT !.cuts = @ + 1, !.dropped = @ \cup {s.run}]
      /\ procs' = [i \in DOMAIN procs |-> IF i = s.pid THEN Signalled(procs[i]) ELSE procs[i]]
      /\ hosted' = [hosted EXCEPT ![s.run] = Free] /\ starts' = starts \ {s}
  BY DEF StartFails
<1>3. hosted' = StopHosted(hosted, {s.run})
  BY <1>1, <1>2 DEF StopHosted
<1>4. DOMAIN tale' = DOMAIN tale /\ tale'.reaped = tale.reaped /\ tale'.dropped = tale.dropped \cup {s.run}
  BY <1>1, <1>2
<1>5. SameProcs
  <2>1. procs' = [i \in DOMAIN procs |-> IF i \in {s.pid} THEN Signalled(procs[i]) ELSE procs[i]]
    BY <1>2
  <2>. QED BY <2>1, SignalledSame
<1>. QED BY <1>2, <1>3, <1>4, <1>5, Forgotten

\* An offer reaches the desk: it starts the run, or finds that the run is here.
LEMMA OfferHandled ==
  ASSUME DInv, NEW r, NEW via, HandleAssignment(r, via), UNCHANGED procs
  PROVE  DInv'
<1>1. CASE hosted[r] # Free \/ r \in startingHere
  <2>1. UNCHANGED <<hosted, starts, tale>>
    BY <1>1 DEF HandleAssignment
  <2>. QED BY <2>1, SameHost
<1>2. CASE ~(hosted[r] # Free \/ r \in startingHere)
  <2>1. hosted[r] = Free /\ BeginStart(r, via)
    BY <1>2 DEF HandleAssignment
  <2>. QED BY <2>1, StartBegins
<1>. QED BY <1>1, <1>2

LEMMA OffersKept ==
  ASSUME DInv, StreamDelivers \/ LeaseAnswers \/ \E r \in Runs : WindowStarts(r)
  PROVE  DInv'
<1>1. CASE LeaseAnswers
  <2>1. HandleAssignment(lease, "lease") /\ procs' = procs
    BY <1>1 DEF LeaseAnswers
  <2>. QED BY <2>1, OfferHandled
<1>2. CASE StreamDelivers
  <2>1. PICK e : e = Head(inbox.events)
    OBVIOUS
  <2>2. CASE e.kind = "cancel"
    <3>1. /\ hosted' = StopHosted(hosted, {e.run}) /\ procs' = KilledOf(hosted, {e.run})
          /\ tale' = [tale EXCEPT !.dropped = @ \cup {e.run}] /\ starts' = starts
      BY <1>2, <2>1, <2>2 DEF StreamDelivers
    <3>2. DOMAIN tale' = DOMAIN tale /\ tale'.reaped = tale.reaped /\ tale'.dropped = tale.dropped \cup {e.run}
      BY <3>1 DEF DInv, Shapes
    <3>3. SameProcs
      BY <3>1, KilledSame
    <3>. QED BY <3>1, <3>2, <3>3, Forgotten
  <2>3. CASE e.kind # "cancel"
    <3>1. HandleAssignment(e.run, "stream") /\ procs' = procs
      BY <1>2, <2>1, <2>3 DEF StreamDelivers
    <3>. QED BY <3>1, OfferHandled
  <2>. QED BY <2>2, <2>3
<1>3. ASSUME NEW r \in Runs, WindowStarts(r) PROVE DInv'
  <2>1. CASE hosted[r] # Free
    <3>1. UNCHANGED <<hosted, starts, tale, procs>>
      BY <1>3, <2>1 DEF WindowStarts
    <3>. QED BY <3>1, SameHost
  <2>2. CASE hosted[r] = Free
    <3>1. BeginStart(r, "window") /\ procs' = procs
      BY <1>3, <2>2 DEF WindowStarts
    <3>. QED BY <2>2, <3>1, StartBegins
  <2>. QED BY <2>1, <2>2
<1>. QED BY <1>1, <1>2, <1>3

-----------------------------------------------------------------------------
(* The rest of startAssignment *)

LEMMA LookUpKept ==
  ASSUME DInv, NEW s \in starts, ReapLooksUp(s)
  PROVE  DInv'
<1>1. PICK t : t = [s EXCEPT !.pc = "retire", !.seen = {q \in @ : desk[q].status \in {"IDLE", "ERROR"}}]
  OBVIOUS
<1>2. DOMAIN s = {"run", "via", "pc", "seen", "pid"} /\ tale.reaped
  BY DEF DInv, Shapes, Reaps, ReapLooksUp
<1>3. DOMAIN t = {"run", "via", "pc", "seen", "pid"} /\ t.pc = "retire"
  BY <1>1, <1>2
<1>4. starts' = (starts \ {s}) \cup {t} /\ UNCHANGED <<hosted, procs, tale>>
  BY <1>1 DEF ReapLooksUp, Moves
<1>5. Shapes' /\ Reaps'
  BY <1>2, <1>3, <1>4 DEF DInv, Shapes, Reaps
<1>6. HostLimit'
  BY <1>4 DEF DInv, HostLimit, Hosting
<1>7. \A r \in Runs : /\ Undisturbed(r)' => Undisturbed(r)
                      /\ Owned(r) => Owned(r)'
  BY <1>3, <1>4 DEF Undisturbed, Owned
<1>. QED BY <1>5, <1>6, <1>7 DEF DInv

LEMMA RetireKept ==
  ASSUME DInv, NEW s \in starts, Retire(s)
  PROVE  DInv'
<1>. DEFINE h == StopHosted(hosted, s.seen)
<1>1. DOMAIN s = {"run", "via", "pc", "seen", "pid"} /\ tale.reaped /\ tale.reaped \in BOOLEAN
      /\ DOMAIN tale = {"sent", "stops", "cuts", "dropped", "reaped"} /\ hosted \in [Runs -> Int]
  BY DEF DInv, Shapes, Reaps, Retire
<1>2. procs' = KilledOf(hosted, s.seen) /\ tale' = [tale EXCEPT !.dropped = @ \cup s.seen]
  BY DEF Retire
<1>3. DOMAIN tale' = DOMAIN tale /\ tale'.reaped = tale.reaped /\ tale'.dropped = tale.dropped \cup s.seen
  BY <1>1, <1>2
<1>4. SameProcs
  BY <1>2, KilledSame
<1>5. CASE s.seen # {} /\ HasRoom(s.run, h)
  <2>1. PICK t : t = [s EXCEPT !.pc = "prepare", !.seen = {}]
    OBVIOUS
  <2>2. hosted' = [h EXCEPT ![s.run] = Reserved] /\ starts' = (starts \ {s}) \cup {t}
    BY <1>5, <2>1 DEF Retire, Moves
  <2>3. DOMAIN t = {"run", "via", "pc", "seen", "pid"}
    BY <1>1, <2>1
  <2>4. h \in [Runs -> Int]
    <3>1. Free \in Int
      BY DEF Free
    <3>. QED BY <1>1, <3>1 DEF StopHosted
  <2>. HIDE DEF h
  <2>5. hosted' \in [Runs -> Int]
    <3>1. Reserved \in Int
      BY DEF Reserved
    <3>. QED BY <2>2, <2>4, <3>1
  <2>6. \A q \in starts' : DOMAIN q = {"run", "via", "pc", "seen", "pid"}
    BY <2>2, <2>3 DEF DInv, Shapes
  <2>7. Shapes' /\ Reaps'
    BY <1>1, <1>3, <1>4, <2>5, <2>6 DEF Shapes, Reaps, SameProcs
  <2>8. tale'.reaped /\ tale'.dropped # {}
    BY <1>1, <1>3, <1>5
  <2>. QED BY <2>7, <2>8 DEF DInv, HostLimit, Undisturbed
<1>6. CASE ~(s.seen # {} /\ HasRoom(s.run, h))
  <2>1. hosted' = h /\ starts' = starts \ {s}
    BY <1>6 DEF Retire
  <2>. QED BY <1>3, <1>4, <2>1, Forgotten
<1>. QED BY <1>5, <1>6

\* The worker takes the place of the start that reserved it.
LEMMA SpawnKept ==
  ASSUME DInv, NEW s \in starts, SpawnDeskWorker(s)
  PROVE  DInv'
<1>. DEFINE n == Len(procs) + 1
<1>. DEFINE p == [run |-> s.run, st |-> "up"]
<1>1. PICK S : procs \in Seq(ProcOf(S))
  BY DEF DInv, Shapes
<1>2. n \in Nat /\ n # 0 /\ n \notin DOMAIN procs /\ n # Free
  BY <1>1 DEF Free
<1>3. PICK t : t = [s EXCEPT !.pc = "claim", !.pid = n]
  OBVIOUS
<1>4. /\ procs' = Append(procs, p) /\ hosted' = [hosted EXCEPT ![s.run] = n]
      /\ starts' = (starts \ {s}) \cup {t} /\ tale' = tale /\ s.pc = "prepare"
  BY <1>3 DEF SpawnDeskWorker, Moves
<1>5. DOMAIN s = {"run", "via", "pc", "seen", "pid"} /\ hosted \in [Runs -> Int]
  BY DEF DInv, Shapes
<1>6. DOMAIN t = {"run", "via", "pc", "seen", "pid"} /\ t.pc = "claim"
  BY <1>3, <1>5
<1>7. DOMAIN procs' = DOMAIN procs \cup {n} /\ procs'[n] = p /\ \A i \in DOMAIN procs : procs'[i] = procs[i]
  BY <1>1, <1>4
<1>8. \E T : procs' \in Seq(ProcOf(T))
  <2>. DEFINE T == S \cup {s.run}
  <2>1. procs \in Seq(ProcOf(T))
    <3>1. \A i \in 1..Len(procs) : procs[i] \in ProcOf(S)
      BY <1>1
    <3>2. \A i \in 1..Len(procs) : procs[i] \in ProcOf(T)
      BY <3>1 DEF ProcOf
    <3>3. procs = [i \in 1..Len(procs) |-> procs[i]] /\ Len(procs) \in Nat
      BY <1>1
    <3>. HIDE DEF T
    <3>. QED BY <3>2, <3>3
  <2>2. p \in ProcOf(T)
    BY DEF ProcOf
  <2>3. procs' \in Seq(ProcOf(T))
    BY <1>4, <2>1, <2>2
  <2>. QED BY <2>3
<1>9. p.run = s.run
  OBVIOUS
<1>. HIDE DEF n, p
<1>10. Shapes' /\ Reaps'
  <2>1. hosted' \in [Runs -> Int]
    <3>1. n \in Int
      BY <1>2
    <3>2. hosted' = [hosted EXCEPT ![s.run] = n]
      BY <1>4
    <3>. QED BY <1>5, <3>1, <3>2
  <2>2. \A q \in starts' : DOMAIN q = {"run", "via", "pc", "seen", "pid"}
    BY <1>4, <1>6 DEF DInv, Shapes
  <2>3. Reaps'
    BY <1>4, <1>6 DEF DInv, Reaps
  <2>. QED BY <1>4, <1>8, <2>1, <2>2, <2>3 DEF DInv, Shapes
<1>11. HostLimit'
  <2>1. CASE tale.dropped = {} /\ s.run \in Runs
    <3>1. hosted[s.run] = Reserved
      BY <1>4, <2>1 DEF DInv, Undisturbed, Owned
    <3>2. Hosting' = Hosting
      BY <1>2, <1>4, <1>5, <3>1 DEF Hosting, Reserved, Free
    <3>. QED BY <1>4, <3>2 DEF DInv, HostLimit
  <2>2. CASE s.run \notin Runs
    BY <1>4, <1>5, <2>2 DEF DInv, HostLimit, Hosting
  <2>3. CASE tale.dropped # {}
    BY <1>4, <2>3 DEF HostLimit
  <2>. QED BY <2>1, <2>2, <2>3
<1>12. ASSUME NEW r \in Runs, Undisturbed(r)' PROVE Owned(r)'
  <2>1. Owned(r)
    BY <1>4, <1>12 DEF DInv, Undisturbed
  <2>2. CASE r = s.run
    <3>1. hosted[r] = Reserved /\ hosted'[r] = n
      BY <1>4, <1>5, <2>1, <2>2 DEF Owned
    <3>2. \A i \in DOMAIN procs : procs[i].run = r => procs[i].st = "gone"
      BY <1>1, <2>1, <3>1 DEF Owned, Reserved
    <3>3. \A q \in starts' : ~(q.run = r /\ q.pc = "prepare")
      BY <1>4, <1>6, <2>1, <2>2 DEF Owned
    <3>. QED BY <1>7, <3>1, <3>2, <3>3 DEF Owned
  <2>3. CASE r # s.run
    <3>1. hosted'[r] = hosted[r]
      BY <1>4, <1>5, <2>3
    <3>2. \A q \in starts' : q.pc = "prepare" => q \in starts
      BY <1>4, <1>6
    <3>3. \A i \in DOMAIN procs' : procs'[i].run = r => i \in DOMAIN procs
      BY <1>7, <1>9, <2>3
    <3>. QED BY <1>7, <2>1, <3>1, <3>2, <3>3 DEF Owned
  <2>. QED BY <2>2, <2>3
<1>. QED BY <1>10, <1>11, <1>12 DEF DInv

LEMMA ClaimKept ==
  ASSUME DInv, NEW s \in starts, ClaimReturns(s)
  PROVE  DInv'
<1>1. starts' = starts \ {s} /\ UNCHANGED <<hosted, procs, tale>>
  BY DEF ClaimReturns
<1>2. Shapes' /\ Reaps' /\ HostLimit'
  BY <1>1 DEF DInv, Shapes, Reaps, HostLimit, Hosting
<1>3. \A r \in Runs : /\ Undisturbed(r)' => Undisturbed(r)
                      /\ Owned(r) => Owned(r)'
  BY <1>1 DEF Undisturbed, Owned
<1>. QED BY <1>2, <1>3 DEF DInv

-----------------------------------------------------------------------------
(* The workers *)

LEMMA TurnsKept ==
  ASSUME DInv, NEW i \in DOMAIN procs, WorkerPolls(i) \/ TurnEnds(i)
  PROVE  DInv'
<1>1. PICK S : procs \in Seq(ProcOf(S))
  BY DEF DInv, Shapes
<1>2. UNCHANGED <<hosted, starts, tale>>
  BY DEF WorkerPolls, TurnEnds
<1>3. PICK st \in {"turn", "served", "leaving"} : procs' = [procs EXCEPT ![i].st = st]
  BY DEF WorkerPolls, TurnEnds
<1>4. procs[i].st # "gone"
  BY DEF WorkerPolls, TurnEnds
<1>5. procs[i] \in ProcOf(S)
  BY <1>1
<1>6. PICK p : p = [procs[i] EXCEPT !.st = st]
  OBVIOUS
<1>7. p \in ProcOf(S) /\ p.run = procs[i].run
  BY <1>3, <1>5, <1>6 DEF ProcOf
<1>8. procs' = [procs EXCEPT ![i] = p]
  BY <1>3, <1>6
<1>9. procs' \in Seq(ProcOf(S)) /\ DOMAIN procs' = DOMAIN procs
  BY <1>1, <1>7, <1>8
<1>10. \A j \in DOMAIN procs : procs'[j].run = procs[j].run /\ (procs'[j].st # "gone" => procs[j].st # "gone")
  BY <1>4, <1>7, <1>8
<1>. QED BY <1>2, <1>9, <1>10, HostKept

\* The exit of an undisturbed run's worker is that of the child in its entry.
LEMMA ExitKept ==
  ASSUME DInv, NEW i \in DOMAIN procs, WorkerExits(i) \/ WorkerCrashes(i)
  PROVE  DInv'
<1>1. PICK S : procs \in Seq(ProcOf(S))
  BY DEF DInv, Shapes
<1>2. PICK r : r = procs[i].run
  OBVIOUS
<1>3. /\ procs[i].st # "gone" /\ procs' = [procs EXCEPT ![i].st = "gone"]
      /\ hosted' = [hosted EXCEPT ![r] = Free] /\ UNCHANGED starts
      /\ DOMAIN tale' = DOMAIN tale /\ tale'.reaped = tale.reaped /\ tale'.dropped = tale.dropped
  BY <1>2 DEF WorkerExits, WorkerCrashes, ChildGone, DInv, Shapes
<1>4. procs[i] \in ProcOf(S)
  BY <1>1
<1>5. PICK p : p = [procs[i] EXCEPT !.st = "gone"]
  OBVIOUS
<1>6. p \in ProcOf(S) /\ p.run = r /\ p.st = "gone"
  BY <1>2, <1>4, <1>5 DEF ProcOf
<1>7. procs' = [procs EXCEPT ![i] = p]
  BY <1>3, <1>5
<1>8. procs' \in Seq(ProcOf(S)) /\ DOMAIN procs' = DOMAIN procs
  BY <1>1, <1>6, <1>7
<1>9. hosted \in [Runs -> Int] /\ hosted' \in [Runs -> Int]
  <2>1. Free \in Int
    BY DEF Free
  <2>. QED BY <1>3, <2>1 DEF DInv, Shapes
<1>10. Shapes' /\ Reaps'
  BY <1>3, <1>8, <1>9 DEF DInv, Shapes, Reaps
<1>11. HostLimit'
  <2>1. Hosting' \subseteq Hosting /\ Hosting \subseteq Runs
    BY <1>3, <1>9 DEF Hosting
  <2>2. Cardinality(Hosting') <= Cardinality(Hosting)
    BY <2>1, DeskRuns, FS_Subset
  <2>3. Cardinality(Hosting) \in Nat /\ Cardinality(Hosting') \in Nat
    BY <2>1, DeskRuns, FS_Subset, FS_CardinalityType
  <2>. QED BY <1>3, <2>2, <2>3, DeskNumbers DEF DInv, HostLimit
<1>12. ASSUME NEW q \in Runs, Undisturbed(q)' PROVE Owned(q)'
  <2>1. Owned(q)
    BY <1>3, <1>12 DEF DInv, Undisturbed
  <2>2. CASE q = r
    <3>1. hosted[q] = i /\ i \in Nat \ {0}
      BY <1>1, <1>2, <1>3, <2>1, <2>2 DEF Owned
    <3>2. \A j \in DOMAIN procs : procs'[j].run = q => procs'[j].st = "gone"
      BY <1>6, <1>7, <2>1, <3>1 DEF Owned
    <3>3. \A s \in starts : ~(s.run = q /\ s.pc = "prepare")
      BY <2>1, <3>1 DEF Owned, Reserved
    <3>. QED BY <1>3, <1>8, <3>2, <3>3 DEF Owned
  <2>3. CASE q # r
    <3>1. hosted'[q] = hosted[q]
      BY <1>3, <1>9, <2>3
    <3>2. \A j \in DOMAIN procs : procs'[j].run = q => procs'[j] = procs[j]
      BY <1>6, <1>7, <2>3
    <3>. QED BY <1>3, <1>8, <2>1, <3>1, <3>2 DEF Owned
  <2>. QED BY <2>2, <2>3
<1>. QED BY <1>10, <1>11, <1>12 DEF DInv

-----------------------------------------------------------------------------
LEMMA DStep == DInv /\ [DeskNext]_deskVars => DInv'
<1>. SUFFICES ASSUME DInv, [DeskNext]_deskVars PROVE DInv'
  OBVIOUS
<1>1. CASE UNCHANGED deskVars
  BY <1>1, SameHost DEF deskVars
<1>2. CASE DeskNext
  <2>1. CASE StreamDelivers \/ LeaseAnswers \/ \E r \in Runs : WindowStarts(r)
    BY <2>1, OffersKept
  <2>2. CASE \/ LeasePoll \/ StreamOpens \/ WaiterTimesOut \/ LeaseBreaks \/ StreamBreaks \/ Detach
             \/ \E r \in Runs : Expire(r) \/ DeskFollowUp(r) \/ WebStops(r)
             \/ \E p \in posts : PostArrives(p)
    BY <2>2, ElsewhereKept
  <2>3. CASE \E r \in Runs : WindowStops(r)
    BY <2>3, StopsKept
  <2>4. CASE \E s \in starts : HostStep(s) \/ StartFails(s)
    BY <2>4, LookUpKept, RetireKept, SpawnKept, ClaimKept, StartFailsKept DEF HostStep
  <2>5. CASE \E i \in DOMAIN procs : ProcStep(i) \/ WorkerCrashes(i)
    BY <2>5, TurnsKept, ExitKept DEF ProcStep
  <2>. QED BY <1>2, <2>1, <2>2, <2>3, <2>4, <2>5 DEF DeskNext, Delivery
<1>. QED BY <1>1, <1>2

LEMMA DInvariant == DeskSpec => []DInv
<1>. QED BY DInit, DStep, PTL DEF DeskSpec

\* On a computer with any number of runs, a run that is offered on the stream, on lease polls
\* and by the window in any order has one worker, as long as its entry in localRuns was not
\* taken away and no start had to wait for a reap.
THEOREM OneHostWorker == DeskSpec => []HostOneWorker
<1>1. DInv => HostOneWorker
  BY OneOf
<1>. QED BY <1>1, DInvariant, PTL

\* The number of runs that startAssignment has let in stays within maxLocalRuns, also while
\* others wait for a reap, as long as no entry in localRuns was taken away.
THEOREM WithinHostLimit == DeskSpec => []HostLimit
<1>1. DInv => HostLimit
  BY OneOf
<1>. QED BY <1>1, DInvariant, PTL

-----------------------------------------------------------------------------
(* The types.                                                              *)

Inbox == [live : BOOLEAN, dead : BOOLEAN, events : Seq(Event)]
DeskRecord == [status : {"NOT_YET_STARTED", "RUNNING", "IDLE", "ERROR"}, handle : BOOLEAN,
               turn : BOOLEAN, inbound : 0..MaxSent]
Tale == [sent : 0..MaxSent, stops : 0..MaxStops, cuts : 0..MaxCuts, dropped : SUBSET Runs,
         reaped : BOOLEAN]

\* What the control plane keeps, and what it has sent; a run has no more messages than
\* were sent to all, and a turn only after one was.
CloudTyped ==
  /\ offers \in Seq(Runs) /\ waiters \in Seq({"open", "dead"}) /\ inbox \in Inbox
  /\ lease \in Runs \cup {"off", "open"} /\ desk \in [Runs -> DeskRecord]
HomeTyped ==
  /\ hosted \in [Runs -> {Free, Reserved} \cup Pids]
  /\ startingHere \subseteq Runs /\ asked \subseteq Runs /\ starts \subseteq Start
  /\ procs \in Seq(ProcOf(Runs)) /\ posts \subseteq Post /\ tale \in Tale
InboxWithin(d, n) == d.inbound <= n /\ (d.turn => 1 <= n)
InboxCounted == \A r \in Runs : InboxWithin(desk[r], tale.sent)
DTyped == CloudTyped /\ HomeTyped /\ InboxCounted

LEMMA QueueSteps ==
  ASSUME NEW S, NEW q \in Seq(S)
  PROVE  /\ q # <<>> => Head(q) \in S /\ Tail(q) \in Seq(S)
         /\ \A e \in S : Append(q, e) \in Seq(S)
OBVIOUS

LEMMA DInitTyped == DeskInit => DTyped
<1>. SUFFICES ASSUME DeskInit PROVE DTyped
  OBVIOUS
<1>1. /\ asked \subseteq Runs /\ IsFiniteSet(asked) /\ Cardinality(asked) \in 0..MaxSent
      /\ \A r \in asked : 1 <= Cardinality(asked)
  <2>1. asked \subseteq Runs /\ Cardinality(asked) <= MaxSent
    BY DEF DeskInit
  <2>2. IsFiniteSet(asked) /\ Cardinality(asked) \in Nat
    BY <2>1, DeskRuns, FS_Subset, FS_CardinalityType
  <2>3. asked # {} => Cardinality(asked) # 0
    BY <2>2, FS_EmptySet
  <2>. QED BY <2>1, <2>2, <2>3, DeskNumbers
<1>2. /\ tale \in Tale /\ tale.sent = Cardinality(asked)
  BY <1>1, DeskNumbers DEF DeskInit, Tale
<1>3. desk \in [Runs -> DeskRecord] /\ \A r \in Runs : InboxWithin(desk[r], tale.sent)
  <2>1. \A r \in Runs : /\ desk[r] = [status |-> IF r \in asked THEN "NOT_YET_STARTED" ELSE "IDLE",
                                      handle |-> FALSE, turn |-> FALSE,
                                      inbound |-> IF r \in asked THEN 1 ELSE 0]
                        /\ IF r \in asked THEN 1 \in 0..Cardinality(asked) ELSE 0 \in 0..Cardinality(asked)
    BY <1>1 DEF DeskInit
  <2>2. desk = [r \in Runs |-> desk[r]]
    BY DEF DeskInit
  <2>3. ASSUME NEW r \in Runs PROVE desk[r] \in DeskRecord /\ InboxWithin(desk[r], tale.sent)
    <3>1. Cardinality(asked) \in Nat /\ MaxSent \in Nat /\ Cardinality(asked) <= MaxSent
      BY <1>1, DeskNumbers
    <3>2. CASE r \in asked
      <4>1. desk[r] = [status |-> "NOT_YET_STARTED", handle |-> FALSE, turn |-> FALSE, inbound |-> 1]
        BY <2>1, <3>2
      <4>2. 1 \in 0..MaxSent /\ 1 <= tale.sent
        BY <1>1, <1>2, <3>1, <3>2
      <4>. QED BY <4>1, <4>2 DEF DeskRecord, InboxWithin
    <3>3. CASE r \notin asked
      <4>1. desk[r] = [status |-> "IDLE", handle |-> FALSE, turn |-> FALSE, inbound |-> 0]
        BY <2>1, <3>3
      <4>2. 0 \in 0..MaxSent /\ 0 <= tale.sent
        BY <1>2, <3>1
      <4>. QED BY <4>1, <4>2 DEF DeskRecord, InboxWithin
    <3>. QED BY <3>2, <3>3
  <2>. QED BY <2>2, <2>3
<1>4. inbox \in Inbox
  BY DEF DeskInit, Inbox
<1>5. CloudTyped
  BY <1>3, <1>4 DEF DeskInit, CloudTyped
<1>6. HomeTyped
  BY <1>1, <1>2 DEF DeskInit, HomeTyped
<1>. QED BY <1>3, <1>5, <1>6 DEF DTyped, InboxCounted

-----------------------------------------------------------------------------
(* What the control plane's functions make.                                *)

LEMMA OfferedTyped ==
  ASSUME CloudTyped, NEW r \in Runs, Offered(r)
  PROVE  /\ offers' \in Seq(Runs) /\ waiters' \in Seq({"open", "dead"})
         /\ lease' \in Runs \cup {"off", "open"}
<1>. DEFINE queue == IF Contains(offers, r) THEN offers ELSE Append(offers, r)
<1>1. queue \in Seq(Runs)
  BY DEF CloudTyped
<1>2. queue # <<>>
  <2>1. CASE Contains(offers, r)
    <3>1. offers # <<>>
      BY <2>1 DEF CloudTyped, Contains
    <3>. QED BY <2>1, <3>1
  <2>2. CASE ~Contains(offers, r)
    BY <2>2 DEF CloudTyped
  <2>. QED BY <2>1, <2>2
<1>3. Head(queue) \in Runs /\ Tail(queue) \in Seq(Runs)
  BY <1>1, <1>2, QueueSteps
<1>4. \/ offers' = queue /\ UNCHANGED <<waiters, lease>>
      \/ /\ waiters # <<>> /\ offers' = Tail(queue) /\ waiters' = Tail(waiters)
         /\ lease' = IF Head(waiters) = "open" THEN Head(queue) ELSE lease
  BY DEF Offered
<1>. HIDE DEF queue
<1>5. waiters # <<>> => Tail(waiters) \in Seq({"open", "dead"})
  BY QueueSteps DEF CloudTyped
<1>. QED BY <1>1, <1>3, <1>4, <1>5 DEF CloudTyped

LEMMA PushedTyped ==
  ASSUME NEW i \in Inbox, NEW e \in Event
  PROVE  Pushed(i, e) \in Inbox
<1>1. Append(i.events, e) \in Seq(Event)
  BY DEF Inbox
<1>. QED BY <1>1 DEF Pushed, Inbox

\* What a function of the control plane may do to the record of a run: it makes it d.
LEMMA RecordTyped ==
  ASSUME DTyped, NEW r \in Runs, NEW d \in DeskRecord, desk' = [desk EXCEPT ![r] = d],
         InboxWithin(d, tale'.sent), tale' \in Tale, tale.sent <= tale'.sent
  PROVE  desk' \in [Runs -> DeskRecord] /\ InboxCounted'
<1>1. desk' \in [Runs -> DeskRecord]
  BY DEF DTyped, CloudTyped
<1>2. \A q \in Runs : desk'[q] = IF q = r THEN d ELSE desk[q]
  BY DEF DTyped, CloudTyped
<1>3. tale.sent \in Nat /\ tale'.sent \in Nat
      /\ \A q \in Runs : desk[q].inbound \in Nat /\ desk[q].turn \in BOOLEAN
  BY DeskNumbers DEF DTyped, CloudTyped, HomeTyped, Tale, DeskRecord
<1>4. ASSUME NEW q \in Runs PROVE InboxWithin(desk'[q], tale'.sent)
  <2>1. InboxWithin(desk[q], tale.sent)
    BY DEF DTyped, InboxCounted
  <2>2. InboxWithin(desk[q], tale'.sent)
    BY <1>3, <2>1 DEF InboxWithin
  <2>. QED BY <1>2, <2>2
<1>. QED BY <1>1, <1>4 DEF InboxCounted

LEMMA DispatchTyped ==
  ASSUME DTyped, NEW r \in Runs, NEW d \in DeskRecord, DispatchToDesk(r, d),
         InboxWithin(d, tale'.sent), tale' \in Tale, tale.sent <= tale'.sent
  PROVE  CloudTyped' /\ InboxCounted'
<1>1. [kind |-> "assignment", run |-> r] \in Event
  BY DEF Event
<1>2. inbox' \in Inbox
  BY <1>1, PushedTyped DEF DispatchToDesk, DTyped, CloudTyped
<1>3. QueueDeskRun(d) \in DeskRecord /\ InboxWithin(QueueDeskRun(d), tale'.sent)
  BY DEF QueueDeskRun, DeskRecord, InboxWithin
<1>4. desk' \in [Runs -> DeskRecord] /\ InboxCounted'
  BY <1>3, RecordTyped DEF DispatchToDesk
<1>. QED BY <1>2, <1>4, OfferedTyped DEF DispatchToDesk, DTyped, CloudTyped

LEMMA SmallSteps ==
  ASSUME DTyped
  PROVE  /\ \A r \in Runs : desk[r] \in DeskRecord /\ InboxWithin(desk[r], tale.sent)
         /\ tale.sent \in Nat /\ tale.sent <= MaxSent
         /\ tale.stops < MaxStops => [tale EXCEPT !.stops = @ + 1] \in Tale
         /\ tale.sent < MaxSent => [tale EXCEPT !.sent = @ + 1] \in Tale
         /\ tale.cuts < MaxCuts => [tale EXCEPT !.cuts = @ + 1] \in Tale
<1>1. tale \in Tale /\ \A r \in Runs : desk[r] \in DeskRecord /\ InboxWithin(desk[r], tale.sent)
  BY DEF DTyped, CloudTyped, HomeTyped, InboxCounted
<1>2. tale.sent \in Nat /\ tale.sent <= MaxSent
  BY <1>1, DeskNumbers DEF Tale
<1>3. tale.stops < MaxStops => [tale EXCEPT !.stops = @ + 1] \in Tale
  BY <1>1, DeskNumbers DEF Tale
<1>4. tale.sent < MaxSent => [tale EXCEPT !.sent = @ + 1] \in Tale
  BY <1>1, DeskNumbers DEF Tale
<1>5. tale.cuts < MaxCuts => [tale EXCEPT !.cuts = @ + 1] \in Tale
  BY <1>1, DeskNumbers DEF Tale
<1>. QED BY <1>1, <1>2, <1>3, <1>4, <1>5

-----------------------------------------------------------------------------
\* The control plane's half, on its own.
LEMMA FollowUpTyped ==
  ASSUME DTyped, NEW r \in Runs, DeskFollowUp(r)
  PROVE  DTyped'
<1>1. tale' \in Tale /\ tale'.sent = tale.sent + 1
  BY SmallSteps DEF DeskFollowUp, DTyped, HomeTyped, Tale
<1>2. PICK d : d = [desk[r] EXCEPT !.inbound = @ + 1]
  OBVIOUS
<1>3. d \in DeskRecord /\ InboxWithin(d, tale'.sent) /\ tale.sent <= tale'.sent
  <2>1. desk[r].inbound + 1 \in 0..MaxSent
    BY SmallSteps, DeskNumbers DEF DeskFollowUp, DeskRecord, InboxWithin
  <2>. QED BY <1>1, <1>2, <2>1, SmallSteps DEF DeskRecord, InboxWithin
<1>4. CASE desk' = [desk EXCEPT ![r] = d] /\ KeepsChannels
  <2>1. desk' \in [Runs -> DeskRecord] /\ InboxCounted'
    BY <1>1, <1>3, <1>4, RecordTyped
  <2>. QED BY <1>1, <1>4, <2>1 DEF DTyped, CloudTyped, HomeTyped, KeepsChannels, DeskFollowUp
<1>5. CASE DispatchToDesk(r, d)
  <2>1. CloudTyped' /\ InboxCounted'
    BY <1>1, <1>3, <1>5, DispatchTyped
  <2>. QED BY <1>1, <2>1 DEF DTyped, HomeTyped, DeskFollowUp
<1>. QED BY <1>2, <1>4, <1>5 DEF DeskFollowUp

\* The turn under way becomes a message: one was sent.
LEMMA RequeuedTyped ==
  ASSUME NEW d \in DeskRecord, NEW n \in Nat, n <= MaxSent, InboxWithin(d, n)
  PROVE  Requeued(d) \in DeskRecord /\ InboxWithin(Requeued(d), n)
<1>1. CASE d.inbound = 0 /\ d.turn
  <2>1. 1 <= n /\ 1 \in 0..MaxSent
    BY <1>1, DeskNumbers DEF InboxWithin
  <2>2. Requeued(d) = [d EXCEPT !.inbound = 1]
    BY <1>1 DEF Requeued
  <2>. QED BY <2>1, <2>2 DEF DeskRecord, InboxWithin
<1>2. CASE ~(d.inbound = 0 /\ d.turn)
  BY <1>2 DEF Requeued
<1>. QED BY <1>1, <1>2

LEMMA ExpireTyped ==
  ASSUME DTyped, NEW r \in Runs, Expire(r)
  PROVE  DTyped'
<1>1. [kind |-> "assignment", run |-> r] \in Event
  BY DEF Event
<1>2. inbox' \in Inbox
  BY <1>1, PushedTyped DEF Expire, DTyped, CloudTyped
<1>3. tale' \in Tale /\ tale'.sent = tale.sent /\ tale.sent \in Nat /\ tale.sent <= MaxSent
  BY SmallSteps DEF Expire, DTyped, HomeTyped, Tale
<1>4. PICK d : d = Requeued([desk[r] EXCEPT !.handle = FALSE])
  OBVIOUS
<1>5. d \in DeskRecord /\ InboxWithin(d, tale.sent)
  <2>1. PICK c : c = [desk[r] EXCEPT !.handle = FALSE]
    OBVIOUS
  <2>2. c \in DeskRecord /\ InboxWithin(c, tale.sent)
    BY <2>1, SmallSteps DEF DeskRecord, InboxWithin
  <2>. QED BY <1>3, <1>4, <2>1, <2>2, RequeuedTyped
<1>6. PICK e : e = IF d.inbound > 0 THEN QueueDeskRun(d) ELSE [d EXCEPT !.status = "IDLE"]
  OBVIOUS
<1>7. e \in DeskRecord /\ InboxWithin(e, tale.sent)
  BY <1>5, <1>6 DEF QueueDeskRun, DeskRecord, InboxWithin
<1>8. desk' = [desk EXCEPT ![r] = e]
  BY <1>4, <1>6 DEF Expire
<1>9. desk' \in [Runs -> DeskRecord] /\ InboxCounted'
  <2>1. e \in DeskRecord /\ InboxWithin(e, tale'.sent) /\ tale.sent <= tale'.sent
    BY <1>3, <1>7
  <2>. QED BY <1>3, <1>8, <2>1, RecordTyped
<1>. QED BY <1>2, <1>3, <1>9, OfferedTyped DEF Expire, DTyped, CloudTyped, HomeTyped

\* The three requests of a desk.
LEMMA RejectTyped ==
  ASSUME DTyped, NEW r \in Runs, RejectRun(r), tale' \in Tale, tale'.sent = tale.sent
  PROVE  CloudTyped' /\ InboxCounted'
<1>1. offers' \in Seq(Runs)
  <2>1. CASE Contains(offers, r)
    <3>1. PICK k : k = CHOOSE i \in DOMAIN offers : offers[i] = r
      OBVIOUS
    <3>2. offers \in Seq(Runs) /\ k \in DOMAIN offers
      BY <2>1, <3>1 DEF DTyped, CloudTyped, Contains
    <3>3. SubSeq(offers, 1, k - 1) \in Seq(Runs) /\ SubSeq(offers, k + 1, Len(offers)) \in Seq(Runs)
      BY <3>2
    <3>. QED BY <2>1, <3>1, <3>3 DEF RejectRun, RemoveAt
  <2>2. CASE ~Contains(offers, r)
    BY <2>2 DEF RejectRun, DTyped, CloudTyped
  <2>. QED BY <2>1, <2>2
<1>2. PICK d : d = [desk[r] EXCEPT !.status = "ERROR", !.inbound = 0, !.turn = FALSE]
  OBVIOUS
<1>3. d \in DeskRecord /\ InboxWithin(d, tale'.sent) /\ tale.sent <= tale'.sent
  <2>1. desk[r] \in DeskRecord /\ 0 \in 0..MaxSent
    BY SmallSteps, DeskNumbers
  <2>2. d \in DeskRecord /\ d.inbound = 0 /\ d.turn = FALSE
    BY <1>2, <2>1 DEF DeskRecord
  <2>3. 0 <= tale'.sent /\ tale.sent <= tale'.sent
    BY SmallSteps
  <2>. QED BY <2>2, <2>3 DEF InboxWithin
<1>4. desk' = [desk EXCEPT ![r] = d]
  BY <1>2 DEF RejectRun, DTyped, CloudTyped
<1>5. desk' \in [Runs -> DeskRecord] /\ InboxCounted'
  BY <1>3, <1>4, RecordTyped
<1>. QED BY <1>1, <1>5 DEF RejectRun, DTyped, CloudTyped

LEMMA ReleaseTyped ==
  ASSUME DTyped, NEW r \in Runs, NEW failed \in BOOLEAN, ReleaseRun(r, failed),
         tale' \in Tale, tale'.sent = tale.sent
  PROVE  CloudTyped' /\ InboxCounted'
<1>1. PICK d : d = [desk[r] EXCEPT !.handle = FALSE]
  OBVIOUS
<1>2. d \in DeskRecord /\ InboxWithin(d, tale'.sent) /\ tale.sent <= tale'.sent
  <2>1. desk[r] \in DeskRecord /\ InboxWithin(desk[r], tale'.sent)
    BY SmallSteps
  <2>2. d \in DeskRecord /\ InboxWithin(d, tale'.sent)
    BY <1>1, <2>1 DEF DeskRecord, InboxWithin
  <2>3. tale.sent <= tale'.sent
    BY SmallSteps
  <2>. QED BY <2>2, <2>3
<1>3. CASE DispatchToDesk(r, d)
  BY <1>2, <1>3, DispatchTyped
<1>4. ASSUME NEW e \in {FailedRun(d), SettledRun(d)}, desk' = [desk EXCEPT ![r] = e], KeepsChannels
      PROVE  CloudTyped' /\ InboxCounted'
  <2>1. 0 \in 0..MaxSent /\ tale'.sent \in Nat
    BY SmallSteps, DeskNumbers
  <2>2. FailedRun(d) \in DeskRecord /\ InboxWithin(FailedRun(d), tale'.sent)
    <3>1. FailedRun(d) \in DeskRecord
      BY <1>2, <2>1 DEF FailedRun, DeskRecord
    <3>2. FailedRun(d).inbound = 0 /\ FailedRun(d).turn = FALSE
      BY <1>2 DEF FailedRun, DeskRecord
    <3>. QED BY <2>1, <3>1, <3>2 DEF InboxWithin
  <2>3. SettledRun(d) \in DeskRecord /\ InboxWithin(SettledRun(d), tale'.sent)
    BY <1>2 DEF SettledRun, DeskRecord, InboxWithin
  <2>4. desk' \in [Runs -> DeskRecord] /\ InboxCounted'
    BY <1>2, <1>4, <2>2, <2>3, RecordTyped
  <2>. QED BY <1>4, <2>4 DEF KeepsChannels, DTyped, CloudTyped
<1>5. \/ DispatchToDesk(r, d)
      \/ KeepsChannels /\ \E e \in {FailedRun(d), SettledRun(d)} : desk' = [desk EXCEPT ![r] = e]
  BY <1>1 DEF ReleaseRun
<1>. QED BY <1>3, <1>4, <1>5

LEMMA AbortTyped ==
  ASSUME DTyped, NEW r \in Runs, AbortRun(r), tale' \in Tale, tale'.sent = tale.sent
  PROVE  CloudTyped' /\ InboxCounted'
<1>1. [kind |-> "cancel", run |-> r] \in Event
  BY DEF Event
<1>2. inbox' \in Inbox
  BY <1>1, PushedTyped DEF AbortRun, DTyped, CloudTyped
<1>3. PICK d : d = [desk[r] EXCEPT !.status = "IDLE", !.turn = FALSE]
  OBVIOUS
<1>4. d \in DeskRecord /\ InboxWithin(d, tale'.sent) /\ tale.sent <= tale'.sent
  <2>1. desk[r] \in DeskRecord /\ InboxWithin(desk[r], tale.sent)
    BY SmallSteps
  <2>2. d \in DeskRecord
    BY <1>3, <2>1 DEF DeskRecord
  <2>3. d.inbound = desk[r].inbound /\ d.turn = FALSE
    BY <1>3, <2>1 DEF DeskRecord
  <2>4. tale'.sent = tale.sent /\ tale.sent <= tale'.sent
    BY SmallSteps
  <2>. QED BY <2>1, <2>2, <2>3, <2>4 DEF InboxWithin
<1>5. desk' = [desk EXCEPT ![r] = d]
  BY <1>3 DEF AbortRun, DTyped, CloudTyped
<1>6. desk' \in [Runs -> DeskRecord] /\ InboxCounted'
  BY <1>4, <1>5, RecordTyped
<1>. QED BY <1>2, <1>6 DEF AbortRun, DTyped, CloudTyped

LEMMA PostTyped ==
  ASSUME DTyped, NEW p \in posts, PostArrives(p)
  PROVE  DTyped'
<1>1. p.run \in Runs
  BY DEF DTyped, HomeTyped, Post
<1>2. tale' \in Tale /\ tale'.sent = tale.sent /\ posts' \subseteq posts
  BY SmallSteps DEF PostArrives, DTyped, HomeTyped, Tale
<1>3. CloudTyped' /\ InboxCounted'
  BY <1>1, <1>2, RejectTyped, ReleaseTyped, AbortTyped DEF PostArrives
<1>. QED BY <1>2, <1>3 DEF PostArrives, DTyped, HomeTyped

LEMMA WebStopsTyped ==
  ASSUME DTyped, NEW r \in Runs, WebStops(r)
  PROVE  DTyped'
<1>1. tale' \in Tale /\ tale'.sent = tale.sent
  BY SmallSteps DEF WebStops, DTyped, HomeTyped, Tale
<1>2. CloudTyped' /\ InboxCounted'
  BY <1>1, AbortTyped DEF WebStops
<1>. QED BY <1>1, <1>2 DEF WebStops, DTyped, HomeTyped

\* The lease loop and the stream.
LEMMA ChannelsTyped ==
  ASSUME DTyped, LeasePoll \/ StreamOpens \/ WaiterTimesOut \/ LeaseBreaks \/ StreamBreaks \/ Detach
  PROVE  DTyped'
<1>1. tale' \in Tale /\ tale'.sent = tale.sent /\ desk' = desk
  BY SmallSteps DEF LeasePoll, StreamOpens, WaiterTimesOut, LeaseBreaks, StreamBreaks, Detach,
                    DTyped, HomeTyped, Tale
<1>2. HomeTyped' /\ InboxCounted'
  BY <1>1 DEF LeasePoll, StreamOpens, WaiterTimesOut, LeaseBreaks, StreamBreaks, Detach,
              DTyped, HomeTyped, InboxCounted
<1>3. CloudTyped'
  <2>. USE DEF DTyped, CloudTyped
  <2>1. CASE LeasePoll
    BY <2>1, QueueSteps DEF LeasePoll
  <2>2. CASE WaiterTimesOut
    BY <2>2, QueueSteps DEF WaiterTimesOut
  <2>3. CASE LeaseBreaks
    <3>1. [i \in DOMAIN waiters |-> "dead"] \in Seq({"open", "dead"})
      <4>1. DOMAIN waiters = 1..Len(waiters) /\ Len(waiters) \in Nat
        OBVIOUS
      <4>. QED BY <4>1
    <3>. QED BY <2>3, <3>1 DEF LeaseBreaks
  <2>4. CASE StreamBreaks
    BY <2>4 DEF StreamBreaks, Inbox
  <2>5. CASE Detach
    BY <2>5 DEF Detach, Inbox
  <2>6. CASE StreamOpens
    <3>. DEFINE events == [i \in DOMAIN offers |-> [kind |-> "assignment", run |-> offers[i]]]
    <3>1. DOMAIN offers = 1..Len(offers) /\ Len(offers) \in Nat
      OBVIOUS
    <3>2. \A i \in DOMAIN offers : [kind |-> "assignment", run |-> offers[i]] \in Event
      BY DEF Event
    <3>3. events \in Seq(Event)
      BY <3>1, <3>2
    <3>4. inbox' = [inbox EXCEPT !.live = TRUE, !.events = events]
      BY <2>6 DEF StreamOpens
    <3>. HIDE DEF events
    <3>5. inbox' \in Inbox
      BY <3>3, <3>4 DEF Inbox
    <3>. QED BY <2>6, <3>5 DEF StreamOpens
  <2>. QED BY <2>1, <2>2, <2>3, <2>4, <2>5, <2>6
<1>. QED BY <1>2, <1>3 DEF DTyped

-----------------------------------------------------------------------------
\* The desk's half, on its own: what it does to the control plane's is typed.
LEMMA HomeSteps ==
  ASSUME DTyped
  PROVE  /\ tale \in Tale
         /\ \A Q \in SUBSET Runs : [tale EXCEPT !.dropped = @ \cup Q] \in Tale
         /\ [tale EXCEPT !.reaped = TRUE] \in Tale
         /\ \A r \in Runs : \A kind \in {"reject", "release", "crash", "abort"} :
              [kind |-> kind, run |-> r] \in Post
         /\ \A r \in Runs : \A h \in {Free, Reserved} \cup Pids :
              [hosted EXCEPT ![r] = h] \in [Runs -> {Free, Reserved} \cup Pids]
         /\ \A s \in starts : s \in Start /\ s.run \in Runs /\ s.seen \subseteq Runs
<1>1. tale \in Tale
  BY DEF DTyped, HomeTyped
<1>2. \A Q \in SUBSET Runs : [tale EXCEPT !.dropped = @ \cup Q] \in Tale
  BY <1>1 DEF Tale
<1>3. [tale EXCEPT !.reaped = TRUE] \in Tale
  BY <1>1 DEF Tale
<1>4. \A r \in Runs : \A kind \in {"reject", "release", "crash", "abort"} : [kind |-> kind, run |-> r] \in Post
  BY DEF Post
<1>5. \A r \in Runs : \A h \in {Free, Reserved} \cup Pids :
        [hosted EXCEPT ![r] = h] \in [Runs -> {Free, Reserved} \cup Pids]
  BY DEF DTyped, HomeTyped
<1>6. \A s \in starts : s \in Start /\ s.run \in Runs /\ s.seen \subseteq Runs
  BY DEF DTyped, HomeTyped, Start
<1>. QED BY <1>1, <1>2, <1>3, <1>4, <1>5, <1>6

LEMMA SignalledTyped ==
  ASSUME DTyped, NEW Q
  PROVE  [i \in DOMAIN procs |-> IF i \in Q THEN Signalled(procs[i]) ELSE procs[i]] \in Seq(ProcOf(Runs))
<1>1. procs \in Seq(ProcOf(Runs))
  BY DEF DTyped, HomeTyped
<1>2. \A i \in DOMAIN procs : procs[i] \in ProcOf(Runs) /\ Signalled(procs[i]) \in ProcOf(Runs)
  BY <1>1, SignalledShape
<1>3. DOMAIN procs = 1..Len(procs) /\ Len(procs) \in Nat
  BY <1>1
<1>. QED BY <1>2, <1>3

LEMMA KilledTyped ==
  ASSUME DTyped, NEW h, NEW rs
  PROVE  KilledOf(h, rs) \in Seq(ProcOf(Runs))
<1>. DEFINE Q == {i \in DOMAIN procs : \E r \in rs : h[r] = i}
<1>1. KilledOf(h, rs) = [i \in DOMAIN procs |-> IF i \in Q THEN Signalled(procs[i]) ELSE procs[i]]
  BY DEF KilledOf
<1>. HIDE DEF Q
<1>. QED BY <1>1, SignalledTyped

LEMMA StoppedTyped ==
  ASSUME DTyped, NEW rs
  PROVE  StopHosted(hosted, rs) \in [Runs -> {Free, Reserved} \cup Pids]
BY DEF StopHosted, DTyped, HomeTyped

LEMMA BeginTyped ==
  ASSUME DTyped, NEW r \in Runs, NEW via \in Vias, BeginStart(r, via)
  PROVE  /\ hosted' \in [Runs -> {Free, Reserved} \cup Pids] /\ starts' \subseteq Start
         /\ tale' \in Tale /\ tale'.sent = tale.sent
<1>. DEFINE s == [run |-> r, via |-> via, pc |-> "prepare", seen |-> {}, pid |-> 0]
            seen == {q \in Hosting \ {r} : hosted[q] \in Pids}
<1>1. s \in Start /\ [s EXCEPT !.pc = "reap", !.seen = seen] \in Start
  <2>1. seen \subseteq Runs /\ 0 \in 0..MaxProcs
    BY DeskNumbers DEF Hosting
  <2>. QED BY <2>1 DEF Start
<1>2. \/ /\ hosted' = [hosted EXCEPT ![r] = Reserved] /\ starts' = starts \cup {s} /\ tale' = tale
      \/ /\ starts' = starts \cup {[s EXCEPT !.pc = "reap", !.seen = seen]}
         /\ tale' = [tale EXCEPT !.reaped = TRUE] /\ hosted' = hosted
  BY DEF BeginStart
<1>. HIDE DEF s, seen
<1>3. tale' \in Tale /\ tale'.sent = tale.sent
  BY <1>2, HomeSteps DEF Tale
<1>4. hosted' \in [Runs -> {Free, Reserved} \cup Pids]
  BY <1>2, HomeSteps DEF DTyped, HomeTyped
<1>. QED BY <1>1, <1>2, <1>3, <1>4 DEF DTyped, HomeTyped

LEMMA HandleTyped ==
  ASSUME DTyped, NEW r \in Runs, NEW via \in Vias, HandleAssignment(r, via)
  PROVE  /\ hosted' \in [Runs -> {Free, Reserved} \cup Pids] /\ starts' \subseteq Start
         /\ tale' \in Tale /\ tale'.sent = tale.sent
<1>1. CASE UNCHANGED <<hosted, starts, tale>>
  BY <1>1 DEF DTyped, HomeTyped
<1>2. CASE BeginStart(r, via)
  BY <1>2, BeginTyped
<1>. QED BY <1>1, <1>2 DEF HandleAssignment

\* The messages of the runs stay as they are.
LEMMA CloudKept ==
  ASSUME DTyped, UNCHANGED <<offers, waiters, lease, inbox, desk>>, tale'.sent = tale.sent
  PROVE  CloudTyped' /\ InboxCounted'
BY DEF DTyped, CloudTyped, InboxCounted

LEMMA OffersTyped ==
  ASSUME DTyped, StreamDelivers \/ LeaseAnswers \/ \E r \in Runs : WindowStarts(r)
  PROVE  DTyped'
<1>1. CASE LeaseAnswers
  <2>1. lease \in Runs /\ HandleAssignment(lease, "lease") /\ "lease" \in Vias
    BY <1>1 DEF LeaseAnswers, Vias
  <2>2. /\ hosted' \in [Runs -> {Free, Reserved} \cup Pids] /\ starts' \subseteq Start
        /\ tale' \in Tale /\ tale'.sent = tale.sent
    BY <2>1, HandleTyped
  <2>. QED BY <1>1, <2>2 DEF LeaseAnswers, DTyped, CloudTyped, HomeTyped, InboxCounted
<1>2. CASE StreamDelivers
  <2>1. PICK e : e = Head(inbox.events)
    OBVIOUS
  <2>2. e.run \in Runs /\ inbox' \in Inbox
    <3>1. inbox \in Inbox /\ inbox.events \in Seq(Event) /\ inbox.events # <<>>
      BY <1>2 DEF StreamDelivers, DTyped, CloudTyped, Inbox
    <3>2. e \in Event /\ Tail(inbox.events) \in Seq(Event)
      BY <2>1, <3>1, QueueSteps
    <3>. QED BY <1>2, <3>1, <3>2 DEF StreamDelivers, Inbox, Event
  <2>3. /\ hosted' \in [Runs -> {Free, Reserved} \cup Pids] /\ starts' \subseteq Start
        /\ tale' \in Tale /\ tale'.sent = tale.sent /\ procs' \in Seq(ProcOf(Runs))
    <3>1. CASE e.kind = "cancel"
      <4>1. /\ hosted' = StopHosted(hosted, {e.run}) /\ procs' = KilledOf(hosted, {e.run})
            /\ tale' = [tale EXCEPT !.dropped = @ \cup {e.run}] /\ starts' = starts
        BY <1>2, <2>1, <3>1 DEF StreamDelivers
      <4>2. tale' \in Tale /\ tale'.sent = tale.sent
        BY <2>2, <4>1, HomeSteps DEF Tale
      <4>. QED BY <4>1, <4>2, StoppedTyped, KilledTyped DEF DTyped, HomeTyped
    <3>2. CASE e.kind # "cancel"
      <4>1. HandleAssignment(e.run, "stream") /\ procs' = procs /\ "stream" \in Vias
        BY <1>2, <2>1, <3>2 DEF StreamDelivers, Vias
      <4>2. /\ hosted' \in [Runs -> {Free, Reserved} \cup Pids] /\ starts' \subseteq Start
            /\ tale' \in Tale /\ tale'.sent = tale.sent
        BY <2>2, <4>1, HandleTyped
      <4>. QED BY <4>1, <4>2 DEF DTyped, HomeTyped
    <3>. QED BY <3>1, <3>2
  <2>. QED BY <1>2, <2>2, <2>3 DEF StreamDelivers, DTyped, CloudTyped, HomeTyped, InboxCounted
<1>3. ASSUME NEW r \in Runs, WindowStarts(r) PROVE DTyped'
  <2>1. "window" \in Vias
    BY DEF Vias
  <2>2. /\ hosted' \in [Runs -> {Free, Reserved} \cup Pids] /\ starts' \subseteq Start
        /\ tale' \in Tale /\ tale'.sent = tale.sent /\ startingHere' \subseteq Runs
    <3>1. CASE UNCHANGED <<startingHere, hosted, starts, tale>>
      BY <3>1 DEF DTyped, HomeTyped
    <3>2. CASE startingHere' = startingHere \cup {r} /\ BeginStart(r, "window")
      BY <2>1, <3>2, BeginTyped DEF DTyped, HomeTyped
    <3>. QED BY <1>3, <3>1, <3>2 DEF WindowStarts
  <2>. QED BY <1>3, <2>2 DEF WindowStarts, DTyped, CloudTyped, HomeTyped, InboxCounted
<1>. QED BY <1>1, <1>2, <1>3

LEMMA StartsTyped ==
  ASSUME DTyped, NEW s \in starts, HostStep(s) \/ StartFails(s)
  PROVE  DTyped'
<1>1. s \in Start /\ s.run \in Runs /\ s.seen \subseteq Runs
  BY HomeSteps
<1>2. CASE ReapLooksUp(s)
  <2>1. PICK t : t = [s EXCEPT !.pc = "retire", !.seen = {q \in @ : desk[q].status \in {"IDLE", "ERROR"}}]
    OBVIOUS
  <2>2. t \in Start
    BY <1>1, <2>1 DEF Start
  <2>3. starts' = (starts \ {s}) \cup {t}
    BY <1>2, <2>1 DEF ReapLooksUp, Moves
  <2>. QED BY <1>2, <2>2, <2>3 DEF ReapLooksUp, DTyped, CloudTyped, HomeTyped, InboxCounted
<1>3. CASE Retire(s)
  <2>. DEFINE h == StopHosted(hosted, s.seen)
  <2>1. h \in [Runs -> {Free, Reserved} \cup Pids] /\ procs' \in Seq(ProcOf(Runs))
    BY <1>3, StoppedTyped, KilledTyped DEF Retire
  <2>2. tale' \in Tale /\ tale'.sent = tale.sent
    BY <1>1, <1>3, HomeSteps DEF Retire, Tale
  <2>3. [s EXCEPT !.pc = "prepare", !.seen = {}] \in Start
    BY <1>1 DEF Start
  <2>4. \/ /\ hosted' = [h EXCEPT ![s.run] = Reserved]
           /\ starts' = (starts \ {s}) \cup {[s EXCEPT !.pc = "prepare", !.seen = {}]}
           /\ UNCHANGED <<posts, startingHere>>
        \/ /\ hosted' = h /\ starts' = starts \ {s}
           /\ ToReject(s.run) /\ startingHere' \subseteq startingHere
    BY <1>3 DEF Retire, Moves, LeavesWindow
  <2>. HIDE DEF h
  <2>5. /\ hosted' \in [Runs -> {Free, Reserved} \cup Pids] /\ starts' \subseteq Start
        /\ posts' \subseteq Post /\ startingHere' \subseteq Runs
    BY <1>1, <2>1, <2>3, <2>4, HomeSteps DEF DTyped, HomeTyped, ToReject
  <2>. QED BY <1>3, <2>1, <2>2, <2>5 DEF Retire, DTyped, CloudTyped, HomeTyped, InboxCounted
<1>4. CASE SpawnDeskWorker(s)
  <2>. DEFINE n == Len(procs) + 1
  <2>1. procs \in Seq(ProcOf(Runs)) /\ n \in Pids /\ n \in 0..MaxProcs
    BY <1>4, DeskNumbers DEF SpawnDeskWorker, Pids, DTyped, HomeTyped
  <2>2. [run |-> s.run, st |-> "up"] \in ProcOf(Runs)
    BY <1>1 DEF ProcOf
  <2>3. procs' \in Seq(ProcOf(Runs))
    BY <1>4, <2>1, <2>2, QueueSteps DEF SpawnDeskWorker
  <2>. HIDE DEF n
  <2>4. [s EXCEPT !.pc = "claim", !.pid = n] \in Start
    BY <1>1, <2>1 DEF Start
  <2>5. /\ hosted' = [hosted EXCEPT ![s.run] = n]
        /\ starts' = (starts \ {s}) \cup {[s EXCEPT !.pc = "claim", !.pid = n]}
    BY <1>4 DEF SpawnDeskWorker, Moves, n
  <2>6. hosted' \in [Runs -> {Free, Reserved} \cup Pids] /\ starts' \subseteq Start
    BY <1>1, <2>1, <2>4, <2>5, HomeSteps DEF DTyped, HomeTyped
  <2>. QED BY <1>4, <2>3, <2>6 DEF SpawnDeskWorker, DTyped, CloudTyped, HomeTyped, InboxCounted
\* The claim of a run that leaves its messages alone, or none.
<1>5. ASSUME tale' \in Tale, tale'.sent = tale.sent, ClaimDeskRun(s.run) \/ desk' = desk
      PROVE  desk' \in [Runs -> DeskRecord] /\ InboxCounted'
  <2>1. CASE desk' = desk
    BY <1>5, <2>1 DEF DTyped, CloudTyped, InboxCounted
  <2>2. CASE ClaimDeskRun(s.run)
    <3>1. PICK d : d = [desk[s.run] EXCEPT !.handle = TRUE, !.status = "RUNNING"]
      OBVIOUS
    <3>2. d \in DeskRecord /\ InboxWithin(d, tale'.sent) /\ tale.sent <= tale'.sent
      <4>1. desk[s.run] \in DeskRecord /\ InboxWithin(desk[s.run], tale'.sent)
        BY <1>1, <1>5, SmallSteps
      <4>2. d \in DeskRecord /\ InboxWithin(d, tale'.sent)
        BY <3>1, <4>1 DEF DeskRecord, InboxWithin
      <4>3. tale.sent <= tale'.sent
        BY <1>5, SmallSteps
      <4>. QED BY <4>1, <4>2, <4>3
    <3>3. desk' = [desk EXCEPT ![s.run] = d]
      BY <2>2, <3>1 DEF ClaimDeskRun, DTyped, CloudTyped
    <3>. QED BY <1>1, <1>5, <3>2, <3>3, RecordTyped
  <2>. QED BY <1>5, <2>1, <2>2
<1>6. CASE ClaimReturns(s)
  <2>1. tale' \in Tale /\ tale'.sent = tale.sent
    BY <1>6 DEF ClaimReturns, DTyped, HomeTyped
  <2>2. desk' \in [Runs -> DeskRecord] /\ InboxCounted'
    BY <1>5, <1>6, <2>1 DEF ClaimReturns
  <2>3. startingHere' \subseteq Runs
    BY <1>6 DEF ClaimReturns, LeavesWindow, DTyped, HomeTyped
  <2>. QED BY <1>6, <2>1, <2>2, <2>3 DEF ClaimReturns, DTyped, CloudTyped, HomeTyped
<1>7. CASE StartFails(s)
  <2>1. tale' \in Tale /\ tale'.sent = tale.sent
    <3>1. [tale EXCEPT !.cuts = @ + 1] \in Tale
      BY <1>7, SmallSteps DEF StartFails
    <3>2. tale' = [tale EXCEPT !.cuts = @ + 1, !.dropped = @ \cup {s.run}]
      BY <1>7 DEF StartFails
    <3>3. tale \in Tale
      BY HomeSteps
    <3>. QED BY <1>1, <3>1, <3>2, <3>3 DEF Tale
  <2>2. desk' \in [Runs -> DeskRecord] /\ InboxCounted'
    BY <1>5, <1>7, <2>1 DEF StartFails
  <2>3. startingHere' \subseteq Runs /\ posts' \subseteq Post
    BY <1>1, <1>7, HomeSteps DEF StartFails, LeavesWindow, ToReject, DTyped, HomeTyped
  <2>4. procs' \in Seq(ProcOf(Runs))
    <3>1. procs' = [i \in DOMAIN procs |-> IF i \in {s.pid} THEN Signalled(procs[i]) ELSE procs[i]]
      BY <1>7 DEF StartFails
    <3>. QED BY <3>1, SignalledTyped
  <2>5. hosted' \in [Runs -> {Free, Reserved} \cup Pids] /\ starts' \subseteq Start
    BY <1>1, <1>7, HomeSteps DEF StartFails, DTyped, HomeTyped
  <2>. QED BY <1>7, <2>1, <2>2, <2>3, <2>4, <2>5 DEF StartFails, DTyped, CloudTyped, HomeTyped
<1>. QED BY <1>2, <1>3, <1>4, <1>6, <1>7 DEF HostStep

LEMMA WindowStopsTyped ==
  ASSUME DTyped, NEW r \in Runs, WindowStops(r)
  PROVE  DTyped'
<1>1. tale' \in Tale /\ tale'.sent = tale.sent
  <2>1. [tale EXCEPT !.stops = @ + 1] \in Tale /\ tale \in Tale
    BY SmallSteps, HomeSteps DEF WindowStops
  <2>2. tale' = [tale EXCEPT !.stops = @ + 1, !.dropped = @ \cup {r}]
    BY DEF WindowStops
  <2>. QED BY <2>1, <2>2 DEF Tale
<1>2. hosted' \in [Runs -> {Free, Reserved} \cup Pids] /\ procs' \in Seq(ProcOf(Runs))
  BY StoppedTyped, KilledTyped DEF WindowStops
<1>3. posts' \subseteq Post
  BY HomeSteps DEF WindowStops, DTyped, HomeTyped
<1>. QED BY <1>1, <1>2, <1>3 DEF WindowStops, DTyped, CloudTyped, HomeTyped, InboxCounted

LEMMA ProcsTyped ==
  ASSUME DTyped, NEW i \in DOMAIN procs, ProcStep(i) \/ WorkerCrashes(i)
  PROVE  DTyped'
<1>1. procs \in Seq(ProcOf(Runs)) /\ procs[i] \in ProcOf(Runs) /\ procs[i].run \in Runs
  <2>1. procs \in Seq(ProcOf(Runs))
    BY DEF DTyped, HomeTyped
  <2>2. procs[i] \in ProcOf(Runs)
    BY <2>1
  <2>. QED BY <2>1, <2>2 DEF ProcOf
<1>2. PICK st \in {"turn", "served", "leaving", "gone"} : procs' = [procs EXCEPT ![i].st = st]
  BY DEF ProcStep, WorkerPolls, TurnEnds, WorkerExits, WorkerCrashes, ChildGone
<1>3. procs' \in Seq(ProcOf(Runs))
  <2>1. PICK p : p = [procs[i] EXCEPT !.st = st]
    OBVIOUS
  <2>2. p \in ProcOf(Runs) /\ procs' = [procs EXCEPT ![i] = p]
    BY <1>1, <1>2, <2>1 DEF ProcOf
  <2>. QED BY <1>1, <2>2
<1>4. tale' \in Tale /\ tale'.sent = tale.sent /\ tale.sent \in Nat /\ tale.sent <= tale'.sent
  <2>1. tale.cuts < MaxCuts => [tale EXCEPT !.cuts = @ + 1] \in Tale
    BY SmallSteps
  <2>2. tale' = tale \/ (tale.cuts < MaxCuts /\ tale' = [tale EXCEPT !.cuts = @ + 1])
    BY DEF ProcStep, WorkerPolls, TurnEnds, WorkerExits, WorkerCrashes
  <2>3. tale' \in Tale /\ tale'.sent = tale.sent
    BY <2>1, <2>2, HomeSteps DEF Tale
  <2>. QED BY <2>3, SmallSteps
<1>5. desk' \in [Runs -> DeskRecord] /\ InboxCounted'
  <2>1. PICK r : r = procs[i].run
    OBVIOUS
  <2>2. desk[r] \in DeskRecord /\ InboxWithin(desk[r], tale.sent) /\ r \in Runs /\ desk \in [Runs -> DeskRecord]
    BY <1>1, <2>1, SmallSteps DEF DTyped, CloudTyped
  <2>3. CASE desk' = desk
    BY <1>4, <2>3 DEF DTyped, CloudTyped, InboxCounted
  <2>4. ASSUME desk[r].inbound > 0,
               desk' = [desk EXCEPT ![r].inbound = 0, ![r].status = "RUNNING", ![r].turn = TRUE]
        PROVE  desk' \in [Runs -> DeskRecord] /\ InboxCounted'
    <3>1. PICK d : d = [desk[r] EXCEPT !.inbound = 0, !.status = "RUNNING", !.turn = TRUE]
      OBVIOUS
    <3>2. d \in DeskRecord /\ InboxWithin(d, tale'.sent)
      <4>1. 0 \in 0..MaxSent /\ 1 <= tale.sent
        BY <1>4, <2>2, <2>4, DeskNumbers DEF InboxWithin, DeskRecord
      <4>2. d \in DeskRecord /\ d.inbound = 0
        BY <2>2, <3>1, <4>1 DEF DeskRecord
      <4>. QED BY <1>4, <4>1, <4>2 DEF InboxWithin
    <3>3. desk' = [desk EXCEPT ![r] = d]
      BY <2>2, <2>4, <3>1
    <3>. QED BY <1>4, <2>2, <3>2, <3>3, RecordTyped
  <2>5. CASE desk' = [desk EXCEPT ![r] = SettledRun(@)]
    <3>1. PICK d : d = SettledRun(desk[r])
      OBVIOUS
    <3>2. d \in DeskRecord /\ InboxWithin(d, tale'.sent) /\ desk' = [desk EXCEPT ![r] = d]
      BY <1>4, <2>2, <2>5, <3>1 DEF SettledRun, DeskRecord, InboxWithin
    <3>. QED BY <1>4, <2>2, <3>2, RecordTyped
  <2>6. \/ desk' = desk
        \/ /\ desk[r].inbound > 0
           /\ desk' = [desk EXCEPT ![r].inbound = 0, ![r].status = "RUNNING", ![r].turn = TRUE]
        \/ desk' = [desk EXCEPT ![r] = SettledRun(@)]
    BY <2>1 DEF ProcStep, WorkerPolls, TurnEnds, WorkerExits, WorkerCrashes, ChildGone
  <2>. QED BY <2>3, <2>4, <2>5, <2>6
<1>6. hosted' \in [Runs -> {Free, Reserved} \cup Pids] /\ posts' \subseteq Post
  BY <1>1, HomeSteps DEF ProcStep, WorkerPolls, TurnEnds, WorkerExits, WorkerCrashes, ChildGone,
                         DTyped, HomeTyped
<1>. QED BY <1>3, <1>4, <1>5, <1>6
     DEF ProcStep, WorkerPolls, TurnEnds, WorkerExits, WorkerCrashes, ChildGone, DTyped, CloudTyped,
         HomeTyped

LEMMA DStepTyped == DTyped /\ [DeskNext]_deskVars => DTyped'
<1>. SUFFICES ASSUME DTyped, [DeskNext]_deskVars PROVE DTyped'
  OBVIOUS
<1>1. CASE UNCHANGED deskVars
  BY <1>1 DEF deskVars, DTyped, CloudTyped, HomeTyped, InboxCounted
<1>2. CASE DeskNext
  BY <1>2, OffersTyped, ChannelsTyped, ExpireTyped, FollowUpTyped, WebStopsTyped, WindowStopsTyped,
     PostTyped, StartsTyped, ProcsTyped DEF DeskNext, Delivery
<1>. QED BY <1>1, <1>2

\* The types of a desk and of what the control plane keeps for it: no run ever has more
\* messages waiting than were sent, and every entry names a run and a process there is.
THEOREM DeskTypes == DeskSpec => []DeskTypeOK
<1>1. DTyped => DeskTypeOK
  BY DEF DTyped, CloudTyped, HomeTyped, Inbox, DeskRecord, Tale, ProcOf, DeskTypeOK
<1>. QED BY <1>1, DInitTyped, DStepTyped, PTL DEF DeskSpec

-----------------------------------------------------------------------------
(* The limits.                                                               *)

\* The requests of a run, and the event streams that hold a lease.
Of(s) == {c \in DOMAIN chats : chats[c].run = s}
Open == {v \in DOMAIN viewers : viewers[v].pc = "open"}

Chat == [run : Sessions, step : BOOLEAN, pc : {"body", "upstream", "stream"}]
Viewer == [pc : {"loading", "open"}, gone : BOOLEAN]

\* Requests have types, and numbers within the bound: there is one left for a new one.
Requests ==
  /\ DOMAIN chats \subseteq 1..MaxChats
  /\ \A c \in DOMAIN chats : chats[c] \in Chat
  /\ DOMAIN viewers \subseteq 1..ratePast.viewers
  /\ \A v \in DOMAIN viewers : viewers[v] \in Viewer
\* The history counts every request that is under way.
History ==
  /\ DOMAIN ratePast = {"admitted", "chats", "asks", "viewers", "stale", "told"}
  /\ ratePast.chats \in Nat /\ ratePast.viewers \in Nat
  /\ Cardinality(DOMAIN chats) <= ratePast.chats
\* LeasesCounted, with leases being numbers.
Leases ==
  /\ inflight \in [LeaseKeys -> Nat]
  /\ \A s \in Sessions : inflight[RunLease(s)] = Cardinality(Of(s))
  /\ inflight[OrgLease] = Cardinality(DOMAIN chats)
  /\ inflight[Sse] = Cardinality(Open)
  /\ \A k \in LeaseKeys : inflight[k] \in 0..AtOnce[k[1]]
RInv == Requests /\ History /\ Leases

-----------------------------------------------------------------------------
(* Finite sets and functions. *)

\* What holds the requests is finite.
LEMMA Finite ==
  ASSUME RInv
  PROVE  /\ IsFiniteSet(DOMAIN chats) /\ IsFiniteSet(DOMAIN viewers) /\ IsFiniteSet(Open)
         /\ \A s : IsFiniteSet(Of(s))
<1>1. IsFiniteSet(1..MaxChats) /\ IsFiniteSet(1..ratePast.viewers)
  BY FS_Interval, RateNumbers DEF RInv, History
<1>2. IsFiniteSet(DOMAIN chats) /\ IsFiniteSet(DOMAIN viewers)
  BY <1>1, FS_Subset DEF RInv, Requests
<1>3. Open \subseteq DOMAIN viewers /\ \A s : Of(s) \subseteq DOMAIN chats
  BY DEF Open, Of
<1>. QED BY <1>2, <1>3, FS_Subset

\* While fewer requests came than the bound allows, a number is free.
LEMMA SpareFree ==
  ASSUME RInv, ratePast.chats < MaxChats
  PROVE  Spare \in 1..MaxChats /\ Spare \notin DOMAIN chats
<1>1. \E i \in 1..MaxChats : i \notin DOMAIN chats
  <2>1. SUFFICES ASSUME 1..MaxChats \subseteq DOMAIN chats PROVE FALSE
    OBVIOUS
  <2>2. DOMAIN chats = 1..MaxChats
    BY <2>1 DEF RInv, Requests
  <2>3. Cardinality(1..MaxChats) = MaxChats
    BY FS_Interval, RateNumbers
  <2>. QED BY <2>2, <2>3, RateNumbers DEF RInv, History
<1>. QED BY <1>1 DEF Spare

\* The keys of leases differ.
LEMMA LeaseKeysApart ==
  /\ OrgLease \in LeaseKeys /\ Sse \in LeaseKeys /\ OrgLease # Sse
  /\ \A s \in Sessions : RunLease(s) \in LeaseKeys /\ RunLease(s) # OrgLease /\ RunLease(s) # Sse
  /\ \A s, t \in Sessions : RunLease(s) = RunLease(t) => s = t
  /\ \A k \in LeaseKeys : AtOnce[k[1]] \in Nat
BY RatesGiven DEF LeaseKeys, OrgLease, Sse, RunLease, Org, LeasePolicies

\* The cardinality of a set that gains or loses an element.
LEMMA OneMore ==
  ASSUME NEW S, IsFiniteSet(S), NEW x, x \notin S
  PROVE  Cardinality(S) \in Nat /\ Cardinality(S \cup {x}) = Cardinality(S) + 1
BY FS_AddElement, FS_CardinalityType
LEMMA OneLess ==
  ASSUME NEW S, IsFiniteSet(S), NEW x \in S
  PROVE  /\ Cardinality(S) \in Nat /\ Cardinality(S \ {x}) \in Nat
         /\ Cardinality(S) >= 1 /\ Cardinality(S \ {x}) = Cardinality(S) - 1
BY FS_RemoveElement, FS_CardinalityType

-----------------------------------------------------------------------------
(* The invariant. *)

LEMMA RInit == RateInit => RInv
<1>. SUFFICES ASSUME RateInit PROVE RInv
  OBVIOUS
<1>1. DOMAIN chats = {} /\ DOMAIN viewers = {}
  BY DEF RateInit
<1>2. Open = {} /\ \A s : Of(s) = {}
  BY <1>1 DEF Open, Of
<1>3. Requests
  BY <1>1 DEF Requests
<1>4. History
  BY <1>1, FS_EmptySet DEF RateInit, History
<1>5. Leases
  <2>1. \A k \in LeaseKeys : inflight[k] = 0
    BY DEF RateInit
  <2>2. inflight \in [LeaseKeys -> Nat]
    BY DEF RateInit
  <2>3. \A k \in LeaseKeys : inflight[k] \in 0..AtOnce[k[1]]
    BY <2>1, LeaseKeysApart
  <2>4. \A s \in Sessions : inflight[RunLease(s)] = Cardinality(Of(s))
    BY <1>2, <2>1, FS_EmptySet, LeaseKeysApart
  <2>5. inflight[OrgLease] = Cardinality(DOMAIN chats) /\ inflight[Sse] = Cardinality(Open)
    BY <1>1, <1>2, <2>1, FS_EmptySet, LeaseKeysApart
  <2>. QED BY <2>2, <2>3, <2>4, <2>5 DEF Leases
<1>. QED BY <1>3, <1>4, <1>5 DEF RInv

\* A step that leaves the gateway's requests, the streams and the leases alone.
LEMMA Untouched ==
  ASSUME RInv, UNCHANGED <<chats, viewers, inflight>>, DOMAIN ratePast' = DOMAIN ratePast,
         ratePast'.viewers = ratePast.viewers,
         ratePast'.chats \in {ratePast.chats, ratePast.chats + 1}
  PROVE  RInv'
<1>1. Requests'
  BY DEF RInv, Requests
<1>2. History'
  <2>1. Cardinality(DOMAIN chats) \in Nat
    BY Finite, FS_CardinalityType
  <2>. QED BY <2>1 DEF RInv, History
<1>3. Leases'
  <2>1. Open' = Open /\ \A s : Of(s)' = Of(s)
    BY DEF Open, Of
  <2>. QED BY <2>1 DEF RInv, Leases, RunLease, OrgLease, Sse, LeaseKeys
<1>. QED BY <1>1, <1>2, <1>3 DEF RInv

\* A call that is admitted takes a lease of its run and one of the organisation.
LEMMA ChatTaken ==
  ASSUME RInv, NEW s \in Sessions, NEW step \in BOOLEAN, ratePast.chats < MaxChats,
         LeaseLeft(RunLease(s)), LeaseLeft(OrgLease), inflight' = LeasesFor(s),
         chats' = Joined(chats, Spare, [run |-> s, step |-> step, pc |-> "body"]),
         UNCHANGED viewers, DOMAIN ratePast' = DOMAIN ratePast,
         ratePast'.chats = ratePast.chats + 1, ratePast'.viewers = ratePast.viewers
  PROVE  RInv'
<1>. DEFINE c0 == Spare
<1>. DEFINE new == [run |-> s, step |-> step, pc |-> "body"]
<1>1. c0 \in 1..MaxChats /\ c0 \notin DOMAIN chats
  BY SpareFree
<1>2. new \in Chat /\ new.run = s
  BY DEF Chat
<1>3. /\ DOMAIN chats' = DOMAIN chats \cup {c0} /\ chats'[c0] = new
      /\ \A c \in DOMAIN chats : chats'[c] = chats[c]
  BY <1>1 DEF Joined
<1>. HIDE DEF c0, new
<1>4. Requests'
  BY <1>1, <1>2, <1>3 DEF RInv, Requests
<1>5. Cardinality(DOMAIN chats)' = Cardinality(DOMAIN chats) + 1 /\ Cardinality(DOMAIN chats) \in Nat
  BY <1>1, <1>3, OneMore, Finite
<1>6. History'
  BY <1>5 DEF RInv, History
<1>7. Of(s)' = Of(s) \cup {c0} /\ c0 \notin Of(s)
  BY <1>1, <1>2, <1>3 DEF Of
<1>8. \A t \in Sessions : t # s => Of(t)' = Of(t)
  BY <1>1, <1>2, <1>3 DEF Of
<1>9. Cardinality(Of(s))' = Cardinality(Of(s)) + 1 /\ Cardinality(Of(s)) \in Nat
  BY <1>7, OneMore, Finite
<1>10. inflight' = [k \in LeaseKeys |-> inflight[k] + (IF k \in {RunLease(s), OrgLease} THEN 1 ELSE 0)]
  BY DEF LeasesFor, RunLease, OrgLease
<1>11. /\ inflight'[RunLease(s)] = inflight[RunLease(s)] + 1
       /\ inflight'[OrgLease] = inflight[OrgLease] + 1
       /\ \A k \in LeaseKeys : k \notin {RunLease(s), OrgLease} => inflight'[k] = inflight[k] + 0
  BY <1>10, LeaseKeysApart
<1>12. Leases'
  <2>1. inflight' \in [LeaseKeys -> Nat]
    BY <1>10 DEF RInv, Leases
  <2>2. \A t \in Sessions : inflight'[RunLease(t)] = Cardinality(Of(t)')
    <3>1. TAKE t \in Sessions
    <3>2. CASE t = s
      BY <3>2, <1>9, <1>11 DEF RInv, Leases
    <3>3. CASE t # s
      BY <3>3, <1>8, <1>11, LeaseKeysApart DEF RInv, Leases
    <3>. QED BY <3>2, <3>3
  <2>3. inflight'[OrgLease] = Cardinality(DOMAIN chats')
    BY <1>5, <1>11 DEF RInv, Leases
  <2>4. inflight'[Sse] = Cardinality(Open')
    BY <1>11, LeaseKeysApart DEF RInv, Leases, Open
  <2>5. \A k \in LeaseKeys : inflight'[k] \in 0..AtOnce[k[1]]
    <3>1. \A k \in {RunLease(s), OrgLease} : inflight'[k] = inflight[k] + 1 /\ inflight[k] < AtOnce[k[1]]
      BY <1>11 DEF LeaseLeft
    <3>2. TAKE k \in LeaseKeys
    <3>3. inflight[k] \in Nat /\ AtOnce[k[1]] \in Nat /\ inflight[k] <= AtOnce[k[1]]
      BY LeaseKeysApart DEF RInv, Leases
    <3>4. CASE k \in {RunLease(s), OrgLease}
      BY <3>1, <3>3, <3>4
    <3>5. CASE k \notin {RunLease(s), OrgLease}
      BY <1>11, <3>3, <3>5
    <3>. QED BY <3>4, <3>5
  <2>. QED BY <2>1, <2>2, <2>3, <2>4, <2>5 DEF Leases, RunLease, OrgLease, Sse, LeaseKeys
<1>. QED BY <1>4, <1>6, <1>12 DEF RInv

\* The end of a call gives back both.
LEMMA ChatEnds ==
  ASSUME RInv, NEW c \in DOMAIN chats, Ends(c), UNCHANGED <<viewers, ratePast>>
  PROVE  RInv'
<1>1. PICK s \in Sessions : s = chats[c].run
  BY DEF RInv, Requests, Chat
<1>2. DOMAIN chats' = DOMAIN chats \ {c} /\ \A d \in DOMAIN chats' : chats'[d] = chats[d]
  BY DEF Ends, Restrict
<1>3. c \in Of(s)
  BY <1>1 DEF Of
<1>4. Requests'
  BY <1>2 DEF RInv, Requests
<1>5. /\ Cardinality(DOMAIN chats)' = Cardinality(DOMAIN chats) - 1
      /\ Cardinality(DOMAIN chats) \in Nat /\ Cardinality(DOMAIN chats) >= 1
  BY <1>2, OneLess, Finite
<1>6. History'
  BY <1>5 DEF RInv, History
<1>7. Of(s)' = Of(s) \ {c}
  BY <1>2 DEF Of
<1>8. \A t \in Sessions : t # s => Of(t)' = Of(t)
  BY <1>1, <1>2 DEF Of
<1>9. /\ Cardinality(Of(s))' = Cardinality(Of(s)) - 1
      /\ Cardinality(Of(s)) \in Nat /\ Cardinality(Of(s)) >= 1
  BY <1>3, <1>7, OneLess, Finite
<1>10. inflight' = [k \in LeaseKeys |-> IF k \in {RunLease(s), OrgLease} THEN inflight[k] - 1 ELSE inflight[k]]
  BY <1>1 DEF Ends, Released
<1>11. /\ inflight'[RunLease(s)] = inflight[RunLease(s)] - 1
       /\ inflight'[OrgLease] = inflight[OrgLease] - 1
       /\ \A k \in LeaseKeys : k \notin {RunLease(s), OrgLease} => inflight'[k] = inflight[k]
  BY <1>1, <1>10, LeaseKeysApart
<1>12. Leases'
  <2>1. inflight[RunLease(s)] >= 1 /\ inflight[OrgLease] >= 1
    BY <1>1, <1>5, <1>9 DEF RInv, Leases
  <2>2. \A k \in LeaseKeys : inflight'[k] \in Nat /\ inflight'[k] <= inflight[k]
    BY <1>1, <1>11, <2>1, LeaseKeysApart DEF RInv, Leases
  <2>3. inflight' \in [LeaseKeys -> Nat]
    BY <1>10, <2>2
  <2>4. \A t \in Sessions : inflight'[RunLease(t)] = Cardinality(Of(t)')
    <3>1. TAKE t \in Sessions
    <3>2. CASE t = s
      BY <3>2, <1>9, <1>11 DEF RInv, Leases
    <3>3. CASE t # s
      BY <3>3, <1>1, <1>8, <1>11, LeaseKeysApart DEF RInv, Leases
    <3>. QED BY <3>2, <3>3
  <2>5. inflight'[OrgLease] = Cardinality(DOMAIN chats')
    BY <1>5, <1>11 DEF RInv, Leases
  <2>6. inflight'[Sse] = Cardinality(Open')
    BY <1>1, <1>11, LeaseKeysApart DEF RInv, Leases, Open
  <2>7. \A k \in LeaseKeys : inflight'[k] \in 0..AtOnce[k[1]]
    BY <2>2, LeaseKeysApart DEF RInv, Leases
  <2>. QED BY <2>3, <2>4, <2>5, <2>6, <2>7 DEF Leases, RunLease, OrgLease, Sse, LeaseKeys
<1>. QED BY <1>4, <1>6, <1>12 DEF RInv

\* A call that goes on to its next step keeps its leases.
LEMMA ChatKept ==
  ASSUME RInv, NEW c \in DOMAIN chats, NEW pc \in {"upstream", "stream"}, ChatGoesOn(c, pc),
         UNCHANGED <<viewers, ratePast>>
  PROVE  RInv'
<1>1. /\ DOMAIN chats' = DOMAIN chats
      /\ \A d \in DOMAIN chats : chats'[d] \in Chat /\ chats'[d].run = chats[d].run
  BY DEF ChatGoesOn, RInv, Requests, Chat
<1>2. Open' = Open /\ \A s : Of(s)' = Of(s)
  BY <1>1 DEF Open, Of
<1>3. Requests'
  BY <1>1 DEF RInv, Requests
<1>4. History'
  BY <1>1 DEF RInv, History
<1>5. Leases'
  BY <1>1, <1>2 DEF RInv, Leases, RunLease, OrgLease, Sse, LeaseKeys, ChatGoesOn
<1>. QED BY <1>3, <1>4, <1>5 DEF RInv

-----------------------------------------------------------------------------
(* Event streams. *)

\* What a step does that changes the streams: the leases of the others stay, that of the
\* streams follows their number.
LEMMA StreamStep ==
  ASSUME RInv, UNCHANGED chats, DOMAIN ratePast' = DOMAIN ratePast,
         ratePast'.chats = ratePast.chats, ratePast'.viewers \in Nat,
         DOMAIN viewers' \subseteq 1..ratePast'.viewers,
         \A v \in DOMAIN viewers' : viewers'[v] \in Viewer,
         inflight' \in [LeaseKeys -> Nat],
         \A k \in LeaseKeys : k # Sse => inflight'[k] = inflight[k],
         inflight'[Sse] = Cardinality(Open'), inflight'[Sse] <= AtOnce["sse"]
  PROVE  RInv'
<1>1. Requests'
  BY DEF RInv, Requests
<1>2. History'
  BY DEF RInv, History
<1>3. Leases'
  <2>1. \A s : Of(s)' = Of(s)
    BY DEF Of
  <2>2. \A s \in Sessions : inflight'[RunLease(s)] = Cardinality(Of(s)')
    BY <2>1, LeaseKeysApart DEF RInv, Leases
  <2>3. inflight'[OrgLease] = Cardinality(DOMAIN chats')
    BY LeaseKeysApart DEF RInv, Leases
  <2>4. \A k \in LeaseKeys : inflight'[k] \in 0..AtOnce[k[1]]
    <3>1. TAKE k \in LeaseKeys
    <3>2. CASE k = Sse
      BY <3>2, LeaseKeysApart DEF Sse
    <3>3. CASE k # Sse
      BY <3>3 DEF RInv, Leases
    <3>. QED BY <3>2, <3>3
  <2>. QED BY <2>2, <2>3, <2>4 DEF Leases, RunLease, OrgLease, Sse, LeaseKeys
<1>. QED BY <1>1, <1>2, <1>3 DEF RInv

LEMMA ViewerKept == RInv /\ ViewerComes => RInv'
<1>. SUFFICES ASSUME RInv, ViewerComes PROVE RInv'
  OBVIOUS
<1>. DEFINE v0 == ratePast.viewers + 1
<1>. DEFINE new == [pc |-> "loading", gone |-> FALSE]
<1>1. /\ DOMAIN ratePast' = DOMAIN ratePast /\ ratePast'.viewers = v0
      /\ ratePast'.chats = ratePast.chats /\ ratePast.viewers \in Nat
  BY DEF ViewerComes, RInv, History
<1>2. v0 \notin DOMAIN viewers
  BY <1>1 DEF RInv, Requests
<1>3. new \in Viewer /\ new.pc # "open"
  BY DEF Viewer
<1>4. /\ DOMAIN viewers' = DOMAIN viewers \cup {v0} /\ viewers'[v0] = new
      /\ \A v \in DOMAIN viewers : viewers'[v] = viewers[v]
  BY <1>2 DEF ViewerComes, Joined
<1>5. DOMAIN viewers' \subseteq 1..v0
  BY <1>1, <1>4 DEF RInv, Requests
<1>. HIDE DEF new, v0
<1>6. \A v \in DOMAIN viewers' : viewers'[v] \in Viewer
  BY <1>3, <1>4 DEF RInv, Requests
<1>7. Open' = Open
  BY <1>2, <1>3, <1>4 DEF Open
<1>8. /\ UNCHANGED <<chats, inflight>> /\ inflight \in [LeaseKeys -> Nat]
      /\ inflight[Sse] = Cardinality(Open) /\ inflight[Sse] <= AtOnce["sse"]
  BY LeaseKeysApart DEF ViewerComes, RInv, Leases, Sse
<1>9. inflight'[Sse] = Cardinality(Open') /\ inflight'[Sse] <= AtOnce["sse"] /\ ratePast'.viewers \in Nat
  BY <1>1, <1>7, <1>8 DEF Sse, v0
<1>. QED BY <1>1, <1>5, <1>6, <1>8, <1>9, StreamStep

LEMMA ViewerServedKept ==
  ASSUME RInv, NEW v \in DOMAIN viewers, ViewerServed(v)
  PROVE  RInv'
<1>1. /\ UNCHANGED <<chats, ratePast>> /\ viewers[v].pc = "loading"
      /\ inflight \in [LeaseKeys -> Nat] /\ inflight[Sse] = Cardinality(Open)
      /\ inflight[Sse] <= AtOnce["sse"] /\ inflight[Sse] \in Nat /\ AtOnce["sse"] \in Nat
  BY LeaseKeysApart DEF ViewerServed, RInv, Leases, Sse
<1>2. ratePast.viewers \in Nat /\ DOMAIN viewers \subseteq 1..ratePast.viewers
  BY DEF RInv, Requests, History
<1>3. CASE LeaseLeft(Sse)
  <2>1. /\ inflight' = [inflight EXCEPT ![Sse] = @ + 1]
        /\ viewers' = [viewers EXCEPT ![v].pc = "open"]
    BY <1>3 DEF ViewerServed
  <2>2. /\ DOMAIN viewers' = DOMAIN viewers /\ viewers'[v] \in Viewer /\ viewers'[v].pc = "open"
        /\ \A u \in DOMAIN viewers : u # v => viewers'[u] = viewers[u]
        /\ \A u \in DOMAIN viewers : viewers'[u] \in Viewer
    BY <2>1 DEF RInv, Requests, Viewer
  <2>3. Open' = Open \cup {v} /\ v \notin Open
    BY <1>1, <2>2 DEF Open
  <2>4. Cardinality(Open') = inflight[Sse] + 1
    BY <1>1, <2>3, OneMore, Finite
  <2>5. /\ inflight'[Sse] = inflight[Sse] + 1 /\ inflight' \in [LeaseKeys -> Nat]
        /\ \A k \in LeaseKeys : k # Sse => inflight'[k] = inflight[k]
    BY <1>1, <2>1, LeaseKeysApart
  <2>6. inflight'[Sse] <= AtOnce["sse"]
    <3>1. inflight[Sse] < AtOnce["sse"]
      BY <1>3 DEF LeaseLeft, Sse
    <3>. QED BY <1>1, <2>5, <3>1
  <2>. QED BY <1>1, <1>2, <2>2, <2>4, <2>5, <2>6, StreamStep
<1>4. CASE ~LeaseLeft(Sse)
  <2>1. inflight' = inflight /\ viewers' = Without(v)
    BY <1>4 DEF ViewerServed
  <2>2. DOMAIN viewers' = DOMAIN viewers \ {v} /\ \A u \in DOMAIN viewers' : viewers'[u] = viewers[u]
    BY <2>1 DEF Without, Restrict
  <2>3. Open' = Open
    BY <1>1, <2>2 DEF Open
  <2>4. \A u \in DOMAIN viewers' : viewers'[u] \in Viewer
    BY <2>2 DEF RInv, Requests
  <2>5. inflight'[Sse] = Cardinality(Open') /\ inflight'[Sse] <= AtOnce["sse"]
    BY <1>1, <2>1, <2>3 DEF Sse
  <2>. QED BY <1>1, <1>2, <2>1, <2>2, <2>4, <2>5, StreamStep
<1>. QED BY <1>3, <1>4

LEMMA ViewerLeavesKept ==
  ASSUME RInv, NEW v \in DOMAIN viewers, ViewerLeaves(v)
  PROVE  RInv'
<1>1. /\ UNCHANGED <<chats, ratePast>>
      /\ inflight \in [LeaseKeys -> Nat] /\ inflight[Sse] = Cardinality(Open)
      /\ inflight[Sse] <= AtOnce["sse"] /\ inflight[Sse] \in Nat /\ AtOnce["sse"] \in Nat
  BY LeaseKeysApart DEF ViewerLeaves, RInv, Leases, Sse
<1>2. ratePast.viewers \in Nat /\ DOMAIN viewers \subseteq 1..ratePast.viewers
  BY DEF RInv, Requests, History
<1>3. CASE viewers[v].pc = "open"
  <2>1. inflight' = Released(inflight, {Sse}) /\ viewers' = Without(v)
    BY <1>3 DEF ViewerLeaves
  <2>2. DOMAIN viewers' = DOMAIN viewers \ {v} /\ \A u \in DOMAIN viewers' : viewers'[u] = viewers[u]
    BY <2>1 DEF Without, Restrict
  <2>3. Open' = Open \ {v} /\ v \in Open
    BY <1>3, <2>2 DEF Open
  <2>4. Cardinality(Open') = inflight[Sse] - 1 /\ inflight[Sse] >= 1
    BY <1>1, <2>3, OneLess, Finite
  <2>5. /\ inflight'[Sse] = inflight[Sse] - 1
        /\ \A k \in LeaseKeys : k # Sse => inflight'[k] = inflight[k]
    BY <2>1, LeaseKeysApart DEF Released
  <2>6. inflight' \in [LeaseKeys -> Nat]
    <3>1. \A k \in LeaseKeys : inflight'[k] \in Nat
      BY <1>1, <2>4, <2>5
    <3>. QED BY <2>1, <3>1 DEF Released
  <2>7. \A u \in DOMAIN viewers' : viewers'[u] \in Viewer
    BY <2>2 DEF RInv, Requests
  <2>8. inflight'[Sse] = Cardinality(Open') /\ inflight'[Sse] <= AtOnce["sse"]
    BY <1>1, <2>4, <2>5
  <2>. QED BY <1>1, <1>2, <2>2, <2>5, <2>6, <2>7, <2>8, StreamStep
<1>4. CASE viewers[v].pc # "open"
  <2>1. inflight' = inflight /\ viewers' = [viewers EXCEPT ![v].gone = TRUE]
    BY <1>4 DEF ViewerLeaves
  <2>2. /\ DOMAIN viewers' = DOMAIN viewers
        /\ \A u \in DOMAIN viewers : viewers'[u] \in Viewer /\ viewers'[u].pc = viewers[u].pc
    BY <2>1 DEF RInv, Requests, Viewer
  <2>3. Open' = Open
    BY <2>2 DEF Open
  <2>4. inflight'[Sse] = Cardinality(Open') /\ inflight'[Sse] <= AtOnce["sse"]
    BY <1>1, <2>1, <2>3 DEF Sse
  <2>. QED BY <1>1, <1>2, <2>1, <2>2, <2>4, StreamStep
<1>. QED BY <1>3, <1>4

-----------------------------------------------------------------------------
(* The calls, and the theorem. *)

\* A call that comes takes both leases or none.
LEMMA ArrivalKept ==
  ASSUME RInv, NEW s \in Sessions, NEW step \in BOOLEAN, ChatArrives(s, step)
  PROVE  RInv'
<1>. DEFINE okRun == Enough(buckets[<<"llm_run", s>>], <<"llm_run", s>>, moment)
<1>. DEFINE okOrg == okRun /\ Enough(buckets[<<"llm_org", Org>>], <<"llm_org", Org>>, moment)
<1>. DEFINE ok == okOrg /\ LeaseLeft(RunLease(s)) /\ LeaseLeft(OrgLease)
<1>1. /\ ratePast.chats < MaxChats /\ UNCHANGED viewers
      /\ inflight' = IF okOrg THEN LeasesFor(s) ELSE inflight
      /\ chats' = IF ok THEN Joined(chats, Spare, [run |-> s, step |-> step, pc |-> "body"]) ELSE chats
  BY DEF ChatArrives
<1>2. /\ DOMAIN ratePast' = DOMAIN ratePast /\ ratePast'.chats = ratePast.chats + 1
      /\ ratePast'.viewers = ratePast.viewers
  BY DEF ChatArrives, RInv, History
<1>. HIDE DEF okOrg
<1>3. CASE ok
  BY <1>1, <1>2, <1>3, ChatTaken
<1>4. CASE ~ok
  <2>1. ~(LeaseLeft(RunLease(s)) /\ LeaseLeft(OrgLease)) => LeasesFor(s) = inflight
    BY DEF LeasesFor, RunLease, OrgLease
  <2>2. UNCHANGED <<chats, viewers, inflight>>
    BY <1>1, <1>4, <2>1
  <2>. QED BY <1>2, <2>2, Untouched
<1>. QED BY <1>3, <1>4

LEMMA RNext == RInv /\ [RateNext]_rateVars => RInv'
<1>. SUFFICES ASSUME RInv, [RateNext]_rateVars PROVE RInv'
  OBVIOUS
<1>1. CASE UNCHANGED rateVars
  BY <1>1, Untouched DEF rateVars
<1>2. CASE \E s \in Sessions, step \in BOOLEAN : ChatArrives(s, step)
  BY <1>2, ArrivalKept
<1>3. ASSUME NEW c \in DOMAIN chats, BodyRead(c) \/ UpstreamAnswers(c) \/ StreamEnds(c)
      PROVE  RInv'
  <2>1. UNCHANGED <<viewers, ratePast>>
    BY <1>3 DEF BodyRead, UpstreamAnswers, StreamEnds
  <2>2. Ends(c) \/ \E pc \in {"upstream", "stream"} : ChatGoesOn(c, pc)
    BY <1>3 DEF BodyRead, UpstreamAnswers, StreamEnds
  <2>. QED BY <2>1, <2>2, ChatEnds, ChatKept
<1>4. CASE AskArrives \/ Ticks \/ \E a \in DOMAIN asks : RedisCounts(a) \/ RedisFails(a)
  <2>1. UNCHANGED <<chats, viewers, inflight>>
    BY <1>4 DEF AskArrives, Ticks, RedisCounts, RedisFails
  <2>2. /\ DOMAIN ratePast' = DOMAIN ratePast
        /\ ratePast'.chats = ratePast.chats /\ ratePast'.viewers = ratePast.viewers
    BY <1>4 DEF AskArrives, Ticks, RedisCounts, RedisFails, RInv, History
  <2>. QED BY <2>1, <2>2, Untouched
<1>5. CASE ViewerComes
  BY <1>5, ViewerKept
<1>6. CASE \E v \in DOMAIN viewers : ViewerServed(v) \/ ViewerLeaves(v)
  BY <1>6, ViewerServedKept, ViewerLeavesKept
<1>. QED BY <1>1, <1>2, <1>3, <1>4, <1>5, <1>6 DEF RateNext

\* Whatever the limits, the number of runs and the order of events, a lease is out for
\* each request that holds it and for no other, and never more than the limit: the
\* gateway's 429 for the organisation gives the run's lease back, every way out of a call
\* and every closed stream gives back what it took, once (llm-gateway server.ts, api/server.ts).
THEOREM LeasesGivenBack == RateSpec => []LeasesCounted
<1>1. RInv => LeasesCounted
  BY DEF RInv, Leases, LeasesCounted, Of, Open
<1>. QED BY <1>1, RInit, RNext, PTL DEF RateSpec

-----------------------------------------------------------------------------
(* Token buckets.  Each request that a bucket lets in pays with Window parts *)
(* of a token; what a bucket holds is never more than the burst and what it  *)
(* gained since an earlier request, less what was paid since.                *)

LEMMA MinOfTwo ==
  ASSUME NEW a \in Int, NEW b \in Int
  PROVE  Min({a, b}) = IF a <= b THEN a ELSE b
BY DEF Min

LEMMA Gains ==
  ASSUME NEW x \in Nat, NEW y \in Nat, NEW z \in Nat, NEW p \in Nat, x <= y, y <= z
  PROVE  /\ (y - x) * p \in Nat /\ (z - x) * p \in Nat
         /\ (z - x) * p = (y - x) * p + (z - y) * p
OBVIOUS

LEMMA Rounding ==
  ASSUME NEW m \in Nat \ {0}, NEW p \in Nat \ {0}
  PROVE  LET q == (m + p - 1) \div p
         IN q \in Nat \ {0} /\ q * p >= m /\ (q - 1) * p < m
OBVIOUS

Bucket(k) == [tokens : 0..Full(k), at : Nat]
Rate(k) == PerWindow[k[1]]

LEMMA KeyNumbers ==
  ASSUME NEW k \in BucketKeys
  PROVE  Full(k) \in Nat /\ Rate(k) \in Nat \ {0} /\ Window \in Nat \ {0} /\ Window <= Full(k)
<1>1. k[1] \in Policies
  BY DEF BucketKeys, Policies
<1>2. Burst[k[1]] \in Nat \ {0} /\ PerWindow[k[1]] \in Nat \ {0} /\ Window \in Nat \ {0}
  BY <1>1, RatesGiven, RateNumbers
<1>3. Burst[k[1]] * Window \in Nat /\ Window <= Burst[k[1]] * Window
  BY <1>2
<1>. QED BY <1>2, <1>3 DEF Full, Rate

\* What consumeBucket does to a bucket at a moment that is not before its last.
LEMMA BucketAfter ==
  ASSUME NEW k \in BucketKeys, NEW b \in Bucket(k), NEW at \in Nat
  PROVE  LET c == Consumed(b, k, at)
             paid == IF Enough(b, k, at) THEN Window ELSE 0
         IN /\ c \in Bucket(k) /\ c.at = at
            /\ c.tokens + paid <= Full(k)
            /\ b.at <= at => c.tokens + paid <= b.tokens + (at - b.at) * Rate(k)
            /\ ~Enough(b, k, at) => c.tokens < Window /\ c.tokens = Refilled(b, k, at)
<1>0. Full(k) \in Nat /\ Rate(k) \in Nat \ {0} /\ Window \in Nat \ {0} /\ Window <= Full(k)
  BY KeyNumbers
<1>1. b.tokens \in 0..Full(k) /\ b.at \in Nat
  BY DEF Bucket
<1>2. PICK gained \in Nat : gained = IF at > b.at THEN (at - b.at) * Rate(k) ELSE 0
  <2>1. at > b.at => at - b.at \in Nat
    BY <1>1
  <2>2. at > b.at => (at - b.at) * Rate(k) \in Nat
    BY <1>0, <2>1
  <2>. QED BY <2>2
<1>3. b.at <= at => gained <= (at - b.at) * Rate(k)
  BY <1>0, <1>1, <1>2
<1>4. PICK full \in 0..Full(k) : full = Refilled(b, k, at) /\ full <= b.tokens + gained
  <2>1. Refilled(b, k, at) = Min({Full(k), b.tokens + gained})
    BY <1>2 DEF Refilled, Rate
  <2>2. b.tokens + gained \in Nat
    BY <1>0, <1>1
  <2>3. Min({Full(k), b.tokens + gained}) = IF Full(k) <= b.tokens + gained THEN Full(k) ELSE b.tokens + gained
    BY <1>0, <2>2, MinOfTwo
  <2>. QED BY <1>0, <2>1, <2>2, <2>3
<1>5. Enough(b, k, at) <=> full >= Window
  BY <1>4 DEF Enough
<1>6. Consumed(b, k, at) = [tokens |-> full - (IF Enough(b, k, at) THEN Window ELSE 0), at |-> at]
  BY <1>4 DEF Consumed
<1>. QED BY <1>0, <1>1, <1>3, <1>4, <1>5, <1>6 DEF Bucket

\* The requests in T, which a bucket let in, are within its budget; b is what it holds.
From(adm, T, from) == {i \in T : adm[i].at >= from}
Budget(adm, T, k, b) ==
  /\ IsFiniteSet(T) /\ b \in Bucket(k)
  /\ \A i \in T : adm[i].at \in Nat /\ adm[i].at <= b.at
  /\ \A i \in T : Cardinality(From(adm, T, adm[i].at)) * Window + b.tokens
                    <= Full(k) + (b.at - adm[i].at) * Rate(k)
  /\ \A i, j \in T : adm[i].at <= adm[j].at =>
       Cardinality(Within(adm, T, adm[i].at, adm[j].at)) * Window
         <= Full(k) + (adm[j].at - adm[i].at) * Rate(k)

LEMMA WithinFinite ==
  ASSUME NEW T, IsFiniteSet(T), NEW adm
  PROVE  /\ \A from : IsFiniteSet(From(adm, T, from)) /\ Cardinality(From(adm, T, from)) \in Nat
         /\ \A from, to : IsFiniteSet(Within(adm, T, from, to))
                          /\ Cardinality(Within(adm, T, from, to)) \in Nat
<1>1. \A from, to : From(adm, T, from) \subseteq T /\ Within(adm, T, from, to) \subseteq T
  BY DEF From, Within
<1>. QED BY <1>1, FS_Subset, FS_CardinalityType

\* A request that is refused.
LEMMA BudgetRefused ==
  ASSUME NEW k \in BucketKeys, NEW adm, NEW T, NEW b, Budget(adm, T, k, b),
         NEW at \in Nat, b.at <= at, ~Enough(b, k, at),
         NEW other, \A i \in T : other[i].at = adm[i].at
  PROVE  Budget(other, T, k, Consumed(b, k, at))
<1>. DEFINE c == Consumed(b, k, at)
<1>1. b \in Bucket(k) /\ IsFiniteSet(T)
  BY DEF Budget
<1>2. /\ c \in Bucket(k) /\ c.at = at
      /\ c.tokens <= b.tokens + (at - b.at) * Rate(k)
  BY <1>1, BucketAfter DEF Bucket
<1>3. /\ \A from : From(other, T, from) = From(adm, T, from)
      /\ \A from, to : Within(other, T, from, to) = Within(adm, T, from, to)
  BY DEF From, Within
<1>4. /\ Full(k) \in Nat /\ Rate(k) \in Nat /\ Window \in Nat
      /\ b.tokens \in Nat /\ b.at \in Nat /\ c.tokens \in Nat
  BY <1>1, <1>2, KeyNumbers DEF Bucket
<1>. HIDE DEF c
<1>5. ASSUME NEW i \in T
      PROVE  /\ other[i].at \in Nat /\ other[i].at <= c.at
             /\ Cardinality(From(other, T, other[i].at)) * Window + c.tokens
                  <= Full(k) + (c.at - other[i].at) * Rate(k)
  <2>1. PICK from \in Nat : from = adm[i].at /\ from = other[i].at /\ from <= b.at
    BY DEF Budget
  <2>2. PICK n \in Nat : n = Cardinality(From(adm, T, from)) * Window
    <3>1. Cardinality(From(adm, T, from)) \in Nat
      BY <1>1, WithinFinite
    <3>. QED BY <1>4, <3>1
  <2>3. n + b.tokens <= Full(k) + (b.at - from) * Rate(k)
    BY <2>1, <2>2 DEF Budget
  <2>4. /\ (at - from) * Rate(k) = (b.at - from) * Rate(k) + (at - b.at) * Rate(k)
        /\ (b.at - from) * Rate(k) \in Nat /\ (at - from) * Rate(k) \in Nat
    BY <1>4, <2>1, Gains
  <2>5. (at - b.at) * Rate(k) \in Int
    BY <1>4
  <2>6. n + c.tokens <= Full(k) + (at - from) * Rate(k)
    BY <1>2, <1>4, <2>3, <2>4, <2>5
  <2>7. from <= c.at
    BY <1>2, <1>4, <2>1
  <2>. QED BY <1>2, <1>3, <2>1, <2>2, <2>6, <2>7
<1>. QED BY <1>1, <1>2, <1>3, <1>5 DEF Budget, c

\* A request that is let in pays.
LEMMA BudgetAdmitted ==
  ASSUME NEW k \in BucketKeys, NEW adm, NEW T, NEW b, Budget(adm, T, k, b),
         NEW at \in Nat, b.at <= at, Enough(b, k, at),
         NEW n, n \notin T, NEW other, \A i \in T : other[i].at = adm[i].at, other[n].at = at
  PROVE  Budget(other, T \cup {n}, k, Consumed(b, k, at))
<1>. DEFINE c == Consumed(b, k, at)
            T2 == T \cup {n}
<1>1. b \in Bucket(k) /\ IsFiniteSet(T)
  BY DEF Budget
<1>2. /\ c \in Bucket(k) /\ c.at = at
      /\ c.tokens + Window <= Full(k)
      /\ c.tokens + Window <= b.tokens + (at - b.at) * Rate(k)
  BY <1>1, BucketAfter DEF Bucket
<1>3. /\ Full(k) \in Nat /\ Rate(k) \in Nat /\ Window \in Nat
      /\ b.tokens \in Nat /\ b.at \in Nat /\ c.tokens \in Nat
  BY <1>1, <1>2, KeyNumbers DEF Bucket
<1>4. IsFiniteSet(T2) /\ T \subseteq T2
  BY <1>1, FS_AddElement
<1>. HIDE DEF c
<1>5. \A i \in T : /\ other[i].at = adm[i].at /\ adm[i].at \in Nat /\ adm[i].at <= b.at
                   /\ adm[i].at <= at
  BY <1>3 DEF Budget
<1>6. \A i \in T2 : other[i].at \in Nat /\ other[i].at <= c.at
  BY <1>2, <1>5
<1>7. ASSUME NEW i \in T
      PROVE  Cardinality(From(other, T2, other[i].at)) * Window + c.tokens
               <= Full(k) + (at - other[i].at) * Rate(k)
  <2>1. PICK from \in Nat : from = adm[i].at /\ from = other[i].at /\ from <= b.at /\ from <= at
    BY <1>5
  <2>2. PICK m \in Nat : m = Cardinality(From(adm, T, from))
    BY <1>1, WithinFinite
  <2>3. Cardinality(From(other, T2, from)) = m + 1
    <3>1. From(other, T2, from) = From(adm, T, from) \cup {n} /\ n \notin From(adm, T, from)
      BY <1>5, <2>1 DEF From
    <3>2. IsFiniteSet(From(adm, T, from))
      BY <1>1, WithinFinite
    <3>. QED BY <2>2, <3>1, <3>2, FS_AddElement
  <2>4. m * Window + b.tokens <= Full(k) + (b.at - from) * Rate(k)
    BY <2>1, <2>2 DEF Budget
  <2>5. (m + 1) * Window = m * Window + Window /\ m * Window \in Nat
    BY <1>3
  <2>6. /\ (at - from) * Rate(k) = (b.at - from) * Rate(k) + (at - b.at) * Rate(k)
        /\ (b.at - from) * Rate(k) \in Nat /\ (at - from) * Rate(k) \in Nat
    BY <1>3, <2>1, Gains
  <2>7. (at - b.at) * Rate(k) \in Int
    BY <1>3
  <2>8. (m + 1) * Window + c.tokens <= Full(k) + (at - from) * Rate(k)
    BY <1>2, <1>3, <2>4, <2>5, <2>6, <2>7
  <2>. QED BY <2>1, <2>3, <2>8
<1>8. Cardinality(From(other, T2, at)) * Window + c.tokens <= Full(k) + (at - at) * Rate(k)
  <2>1. CASE \E i \in T : adm[i].at = at
    BY <1>5, <1>7, <2>1
  <2>2. CASE \A i \in T : adm[i].at # at
    <3>1. From(other, T2, at) = {n}
      <4>1. \A i \in T : ~(other[i].at >= at)
        BY <1>5, <2>2
      <4>. QED BY <4>1 DEF From
    <3>2. Cardinality(From(other, T2, at)) = 1
      BY <3>1, FS_Singleton
    <3>3. (at - at) * Rate(k) = 0
      BY <1>3
    <3>. QED BY <1>2, <1>3, <3>2, <3>3
  <2>. QED BY <2>1, <2>2
<1>9. \A i \in T2 : Cardinality(From(other, T2, other[i].at)) * Window + c.tokens
                      <= Full(k) + (c.at - other[i].at) * Rate(k)
  BY <1>2, <1>7, <1>8
<1>10. ASSUME NEW i \in T2, NEW j \in T2, other[i].at <= other[j].at
       PROVE  Cardinality(Within(other, T2, other[i].at, other[j].at)) * Window
                <= Full(k) + (other[j].at - other[i].at) * Rate(k)
  <2>1. PICK from \in Nat, to \in Nat : from = other[i].at /\ to = other[j].at /\ from <= to /\ to <= at
    BY <1>2, <1>6, <1>10
  <2>2. CASE to = at
    <3>1. Within(other, T2, from, to) \subseteq From(other, T2, from)
      BY <1>6, <2>1 DEF Within, From
    <3>2. PICK m \in Nat, w \in Nat : /\ m = Cardinality(From(other, T2, from))
                                     /\ w = Cardinality(Within(other, T2, from, to))
                                     /\ w <= m
      BY <1>4, <3>1, WithinFinite, FS_Subset
    <3>3. m * Window + c.tokens <= Full(k) + (to - from) * Rate(k)
      BY <1>2, <1>9, <2>1, <2>2, <3>2
    <3>4. w * Window <= m * Window /\ w * Window \in Nat /\ m * Window \in Nat
      BY <1>3, <3>2
    <3>5. (to - from) * Rate(k) \in Int
      BY <1>3
    <3>. QED BY <1>3, <2>1, <3>2, <3>3, <3>4, <3>5
  <2>3. CASE to < at
    <3>1. i \in T /\ j \in T
      BY <2>1, <2>3
    <3>2. Within(other, T2, from, to) = Within(adm, T, from, to)
      BY <1>5, <2>1, <2>3 DEF Within
    <3>. QED BY <1>5, <2>1, <3>1, <3>2 DEF Budget
  <2>. QED BY <2>1, <2>2, <2>3
<1>. QED BY <1>2, <1>4, <1>6, <1>9, <1>10 DEF Budget, c

\* What a refused client is told is the first moment at which there is enough.
Honest(k, b, due) ==
  due # -1 => Enough(b, k, due) /\ (due - 1 > b.at => ~Enough(b, k, due - 1))

LEMMA ToldFirst ==
  ASSUME NEW k \in BucketKeys, NEW b \in Bucket(k), NEW at \in Nat, ~Enough(b, k, at)
  PROVE  /\ at + RetryAfter(b, k, at) \in Nat
         /\ Honest(k, Consumed(b, k, at), at + RetryAfter(b, k, at))
<1>. DEFINE c == Consumed(b, k, at)
            q == RetryAfter(b, k, at)
<1>1. /\ c \in Bucket(k) /\ c.at = at /\ c.tokens = Refilled(b, k, at) /\ c.tokens < Window
  BY BucketAfter
<1>2. /\ Full(k) \in Nat /\ Rate(k) \in Nat \ {0} /\ Window \in Nat \ {0} /\ Window <= Full(k)
  BY KeyNumbers
<1>3. PICK m \in Nat \ {0} : m = Window - c.tokens
  BY <1>1, <1>2 DEF Bucket
<1>4. q = (m + Rate(k) - 1) \div Rate(k)
  BY <1>1, <1>3 DEF RetryAfter, Rate
<1>5. q \in Nat \ {0} /\ q * Rate(k) >= m /\ (q - 1) * Rate(k) < m
  BY <1>2, <1>4, Rounding
<1>. HIDE DEF c, q
<1>6. ASSUME NEW d \in Nat, at + d > at
      PROVE  Enough(c, k, at + d) <=> d * Rate(k) >= m
  <2>1. Refilled(c, k, at + d) = Min({Full(k), c.tokens + ((at + d) - at) * Rate(k)})
    BY <1>1, <1>6 DEF Refilled, Rate
  <2>2. (at + d) - at = d
    OBVIOUS
  <2>3. c.tokens \in Nat /\ d * Rate(k) \in Nat
    BY <1>1, <1>2 DEF Bucket
  <2>4. PICK g \in Nat : g = d * Rate(k)
    BY <2>3
  <2>5. Refilled(c, k, at + d) = IF Full(k) <= c.tokens + g THEN Full(k) ELSE c.tokens + g
    BY <1>2, <2>1, <2>2, <2>3, <2>4, MinOfTwo
  <2>. QED BY <1>2, <1>3, <2>3, <2>4, <2>5 DEF Enough
<1>7. Enough(c, k, at + q)
  BY <1>5, <1>6
<1>8. (at + q) - 1 > at => ~Enough(c, k, (at + q) - 1)
  <2>1. SUFFICES ASSUME (at + q) - 1 > at PROVE ~Enough(c, k, (at + q) - 1)
    OBVIOUS
  <2>2. PICK d \in Nat : d = q - 1 /\ at + d = (at + q) - 1 /\ at + d > at
    BY <1>5, <2>1
  <2>3. PICK g \in Int : g = d * Rate(k)
    BY <1>2
  <2>4. g < m
    BY <1>5, <2>2, <2>3
  <2>. QED BY <1>3, <1>6, <2>2, <2>3, <2>4
<1>9. at + q \in Nat
  BY <1>5
<1>. QED BY <1>1, <1>7, <1>8, <1>9 DEF Honest, c, q

-----------------------------------------------------------------------------
(* The history of admissions. *)

Admission == [key : BucketKeys, at : Nat, by : {"bucket", "redis"}]

\* What one admission more changes: the set of its key and kind, and no other.
Joins(new, adm, n, k, at, by) ==
  /\ new \in Seq(Admission) /\ n \notin DOMAIN adm /\ new[n].at = at
  /\ \A i \in DOMAIN adm : new[i] = adm[i]
  /\ \A j : Through(new, j) = Through(adm, j) \cup (IF by = "bucket" /\ j = k THEN {n} ELSE {})
  /\ \A w : ByRedis(new, w) = ByRedis(adm, w) \cup (IF by = "redis" /\ WindowOf(at) = w THEN {n} ELSE {})

LEMMA OneEvent ==
  ASSUME NEW adm \in Seq(Admission), NEW k \in BucketKeys, NEW at \in Nat, NEW by \in {"bucket", "redis"}
  PROVE  Joins(adm \o Admits(k, at, by), adm, Len(adm) + 1, k, at, by)
<1>. DEFINE e == [key |-> k, at |-> at, by |-> by]
            new == adm \o Admits(k, at, by)
            n == Len(adm) + 1
<1>1. e \in Admission /\ e.key = k /\ e.at = at /\ e.by = by
  BY DEF Admission
<1>. HIDE DEF e
<1>2. new = adm \o <<e>>
  BY DEF Admits, e
<1>3. /\ new \in Seq(Admission) /\ DOMAIN new = DOMAIN adm \cup {n} /\ n \notin DOMAIN adm /\ new[n] = e
      /\ \A i \in DOMAIN adm : new[i] = adm[i]
  BY <1>1, <1>2
<1>. HIDE DEF new, n
<1>4. \A j : Through(new, j) = Through(adm, j) \cup (IF by = "bucket" /\ j = k THEN {n} ELSE {})
  BY <1>1, <1>3 DEF Through
<1>5. \A w : ByRedis(new, w) = ByRedis(adm, w) \cup (IF by = "redis" /\ WindowOf(at) = w THEN {n} ELSE {})
  BY <1>1, <1>3 DEF ByRedis
<1>6. Joins(new, adm, n, k, at, by)
  BY <1>1, <1>3, <1>4, <1>5 DEF Joins
<1>. QED BY <1>6 DEF new, n

LEMMA EventSets ==
  ASSUME NEW adm \in Seq(Admission)
  PROVE  /\ \A k : Through(adm, k) \subseteq DOMAIN adm /\ IsFiniteSet(Through(adm, k))
         /\ \A w : /\ ByRedis(adm, w) \subseteq DOMAIN adm /\ IsFiniteSet(ByRedis(adm, w))
                  /\ Cardinality(ByRedis(adm, w)) \in Nat
<1>1. IsFiniteSet(DOMAIN adm)
  <2>1. DOMAIN adm = 1..Len(adm) /\ Len(adm) \in Nat
    OBVIOUS
  <2>. QED BY <2>1, FS_Interval
<1>2. /\ \A k : Through(adm, k) \subseteq DOMAIN adm
      /\ \A w : ByRedis(adm, w) \subseteq DOMAIN adm
  BY DEF Through, ByRedis
<1>. QED BY <1>1, <1>2, FS_Subset, FS_CardinalityType

\* A key's history is within its budget, and what its last refused client was told is true.
KeyHolds(adm, k, b, due) == Budget(adm, Through(adm, k), k, b) /\ Honest(k, b, due)

\* An admission that is not of the key's bucket leaves it so.
LEMMA KeyApart ==
  ASSUME NEW adm, NEW other, NEW k, NEW b, NEW due, KeyHolds(adm, k, b, due),
         Through(other, k) = Through(adm, k),
         \A i \in Through(adm, k) : other[i] = adm[i]
  PROVE  KeyHolds(other, k, b, due)
<1>. DEFINE T == Through(adm, k)
<1>1. /\ \A from : From(other, T, from) = From(adm, T, from)
      /\ \A from, to : Within(other, T, from, to) = Within(adm, T, from, to)
  BY DEF From, Within
<1>2. Through(other, k) = T /\ \A i \in T : other[i] = adm[i]
  OBVIOUS
<1>3. Budget(adm, T, k, b) /\ Honest(k, b, due)
  BY DEF KeyHolds
<1>. HIDE DEF T
<1>4. Budget(other, T, k, b)
  BY <1>1, <1>2, <1>3 DEF Budget
<1>. QED BY <1>2, <1>3, <1>4 DEF KeyHolds

\* A request to a bucket, granted or not.
AfterAsking(adm, k, b, at) == adm \o (IF Enough(b, k, at) THEN Admits(k, at, "bucket") ELSE <<>>)
DueThen(k, b, at) == IF Enough(b, k, at) THEN -1 ELSE at + RetryAfter(b, k, at)

Serves(adm, k, b, at, new, c, due) ==
  /\ new \in Seq(Admission) /\ c \in Bucket(k) /\ c.at = at /\ due \in Int
  /\ \A w : ByRedis(new, w) = ByRedis(adm, w)
  /\ \A j, x, t : j # k /\ KeyHolds(adm, j, x, t) => KeyHolds(new, j, x, t)
  /\ \A t : b.at <= at /\ KeyHolds(adm, k, b, t) => KeyHolds(new, k, c, due)

LEMMA KeyAsked ==
  ASSUME NEW adm \in Seq(Admission), NEW k \in BucketKeys, NEW b \in Bucket(k), NEW at \in Nat
  PROVE  Serves(adm, k, b, at, AfterAsking(adm, k, b, at), Consumed(b, k, at), DueThen(k, b, at))
<1>. DEFINE new == AfterAsking(adm, k, b, at)
<1>1. Consumed(b, k, at) \in Bucket(k) /\ Consumed(b, k, at).at = at
  BY BucketAfter
<1>2. CASE Enough(b, k, at)
  <2>1. new = adm \o Admits(k, at, "bucket")
    BY <1>2 DEF AfterAsking
  <2>2. PICK n : n = Len(adm) + 1
    OBVIOUS
  <2>3. /\ new \in Seq(Admission) /\ n \notin DOMAIN adm /\ new[n].at = at
        /\ \A i \in DOMAIN adm : new[i] = adm[i]
        /\ \A j : Through(new, j) = Through(adm, j) \cup (IF j = k THEN {n} ELSE {})
        /\ \A w : ByRedis(new, w) = ByRedis(adm, w)
    <3>1. PICK by \in {"bucket", "redis"} : by = "bucket" /\ by # "redis"
      OBVIOUS
    <3>2. Joins(new, adm, n, k, at, by)
      BY <2>1, <2>2, <3>1, OneEvent
    <3>. HIDE DEF new
    <3>. QED BY <3>1, <3>2 DEF Joins
  <2>. HIDE DEF new
  <2>4. ASSUME NEW j, NEW c, NEW due, j # k, KeyHolds(adm, j, c, due)
        PROVE  KeyHolds(new, j, c, due)
    <3>1. Through(new, j) = Through(adm, j)
      BY <2>3, <2>4
    <3>2. \A i \in Through(adm, j) : new[i] = adm[i]
      BY <2>3, EventSets
    <3>. QED BY <2>4, <3>1, <3>2, KeyApart
  <2>5. ASSUME NEW due, b.at <= at, KeyHolds(adm, k, b, due)
        PROVE  KeyHolds(new, k, Consumed(b, k, at), DueThen(k, b, at))
    <3>1. Through(new, k) = Through(adm, k) \cup {n} /\ n \notin Through(adm, k)
      BY <2>3, EventSets
    <3>2. \A i \in Through(adm, k) : new[i].at = adm[i].at
      BY <2>3, EventSets
    <3>3. Budget(adm, Through(adm, k), k, b)
      BY <2>5 DEF KeyHolds
    <3>4. Budget(new, Through(new, k), k, Consumed(b, k, at))
      <4>1. PICK T : T = Through(adm, k)
        OBVIOUS
      <4>2. /\ Budget(adm, T, k, b) /\ n \notin T /\ new[n].at = at /\ b.at <= at
            /\ \A i \in T : new[i].at = adm[i].at
        BY <2>3, <2>5, <3>1, <3>2, <3>3, <4>1
      <4>3. Budget(new, T \cup {n}, k, Consumed(b, k, at))
        BY <1>2, <4>2, BudgetAdmitted
      <4>. QED BY <3>1, <4>1, <4>3
    <3>5. Honest(k, Consumed(b, k, at), DueThen(k, b, at))
      BY <1>2 DEF DueThen, Honest
    <3>. QED BY <3>4, <3>5 DEF KeyHolds
  <2>6. DueThen(k, b, at) \in Int
    BY <1>2 DEF DueThen
  <2>. QED BY <1>1, <2>3, <2>4, <2>5, <2>6 DEF new, Serves
<1>3. CASE ~Enough(b, k, at)
  <2>1. new = adm
    BY <1>3 DEF AfterAsking
  <2>2. DueThen(k, b, at) = at + RetryAfter(b, k, at)
    BY <1>3 DEF DueThen
  <2>3. DueThen(k, b, at) \in Int /\ Honest(k, Consumed(b, k, at), DueThen(k, b, at))
    BY <1>3, <2>2, ToldFirst
  <2>4. ASSUME NEW due, b.at <= at, KeyHolds(adm, k, b, due)
        PROVE  KeyHolds(adm, k, Consumed(b, k, at), DueThen(k, b, at))
    <3>1. Budget(adm, Through(adm, k), k, b)
      BY <2>4 DEF KeyHolds
    <3>2. Budget(adm, Through(adm, k), k, Consumed(b, k, at))
      BY <1>3, <2>4, <3>1, BudgetRefused
    <3>. QED BY <2>3, <3>2 DEF KeyHolds
  <2>5. \A j, x, t : j # k /\ KeyHolds(adm, j, x, t) => KeyHolds(adm, j, x, t)
    OBVIOUS
  <2>. QED BY <1>1, <2>1, <2>3, <2>4, <2>5 DEF Serves
<1>. QED BY <1>2, <1>3

-----------------------------------------------------------------------------
(* The invariant of buckets and windows. *)

Numbers ==
  /\ moment \in Nat /\ \A a \in DOMAIN asks : asks[a] \in Nat
  /\ DOMAIN buckets = BucketKeys
  /\ \A k \in BucketKeys : buckets[k] \in Bucket(k) /\ (k # User => buckets[k].at <= moment)
  /\ ratePast.admitted \in Seq(Admission) /\ ratePast.told \in [BucketKeys -> Int]
\* Redis has counted each request that it let in.
WindowsCounted ==
  \A w \in DOMAIN windows :
    /\ windows[w] \in Nat
    /\ Cardinality(ByRedis(ratePast.admitted, w)) <= windows[w]
    /\ Cardinality(ByRedis(ratePast.admitted, w)) <= PerWindow["api"]
Budgets ==
  ratePast.stale
    \/ \A k \in BucketKeys : KeyHolds(ratePast.admitted, k, buckets[k], ratePast.told[k])
BInv == RInv /\ Numbers /\ WindowsCounted /\ Budgets

LEMMA BInit == RateInit => BInv
<1>. SUFFICES ASSUME RateInit PROVE BInv
  OBVIOUS
<1>1. /\ moment = 0 /\ DOMAIN asks = {} /\ ratePast.admitted = <<>>
      /\ buckets = [k \in BucketKeys |-> [tokens |-> Full(k), at |-> 0]]
      /\ ratePast.told = [k \in BucketKeys |-> -1]
      /\ \A w \in DOMAIN windows : windows[w] = 0
  BY DEF RateInit
<1>2. \A k \in BucketKeys : /\ buckets[k] = [tokens |-> Full(k), at |-> 0]
                            /\ buckets[k] \in Bucket(k) /\ buckets[k].at = 0
  <2>1. \A k \in BucketKeys : Full(k) \in Nat
    BY KeyNumbers
  <2>. QED BY <1>1, <2>1 DEF Bucket
<1>3. Numbers
  BY <1>1, <1>2 DEF Numbers
<1>4. WindowsCounted
  <2>1. \A w : ByRedis(<<>>, w) = {}
    BY DEF ByRedis
  <2>2. PerWindow["api"] \in Nat
    BY RatesGiven DEF Policies
  <2>3. \A w : Cardinality(ByRedis(ratePast.admitted, w)) = 0
    BY <1>1, <2>1, FS_EmptySet
  <2>. QED BY <1>1, <2>2, <2>3 DEF WindowsCounted
<1>5. Budgets
  <2>1. ASSUME NEW k \in BucketKeys PROVE KeyHolds(<<>>, k, buckets[k], -1)
    <3>1. Through(<<>>, k) = {} /\ IsFiniteSet({})
      BY FS_EmptySet DEF Through
    <3>2. Budget(<<>>, {}, k, buckets[k])
      BY <1>2, <3>1 DEF Budget
    <3>. QED BY <3>1, <3>2 DEF KeyHolds, Honest
  <2>. QED BY <1>1, <2>1 DEF Budgets
<1>. QED BY <1>3, <1>4, <1>5, RInit DEF BInv

LEMMA BNext == BInv /\ [RateNext]_rateVars => BInv'
<1>. SUFFICES ASSUME BInv, [RateNext]_rateVars PROVE BInv'
  OBVIOUS
<1>0. RInv /\ Numbers /\ WindowsCounted /\ Budgets /\ RInv'
  BY RNext DEF BInv
<1>. DEFINE adm == ratePast.admitted
            told == ratePast.told
<1>h. DOMAIN ratePast = {"admitted", "chats", "asks", "viewers", "stale", "told"}
  BY <1>0 DEF RInv, History
<1>n. /\ moment \in Nat /\ DOMAIN buckets = BucketKeys /\ adm \in Seq(Admission) /\ told \in [BucketKeys -> Int]
      /\ \A a \in DOMAIN asks : asks[a] \in Nat
      /\ \A k \in BucketKeys : buckets[k] \in Bucket(k) /\ (k # User => buckets[k].at <= moment)
  BY <1>0 DEF Numbers
\* Steps that let nobody in.
<1>1. ASSUME UNCHANGED <<buckets, windows>>, moment' \in Nat, moment <= moment',
             \A a \in DOMAIN asks' : asks'[a] \in Nat,
             ratePast'.admitted = adm, ratePast'.told = told, ratePast'.stale = ratePast.stale
      PROVE  BInv'
  <2>1. Numbers'
    <3>1. \A k \in BucketKeys : buckets[k].at \in Nat
      BY <1>n DEF Bucket
    <3>2. \A k \in BucketKeys : k # User => buckets[k].at <= moment'
      BY <1>1, <1>n, <3>1
    <3>. QED BY <1>1, <1>n, <3>2 DEF Numbers, BucketKeys, User
  <2>2. WindowsCounted'
    BY <1>0, <1>1 DEF WindowsCounted
  <2>3. Budgets'
    BY <1>0, <1>1 DEF Budgets
  <2>. QED BY <1>0, <2>1, <2>2, <2>3 DEF BInv
<1>2. CASE UNCHANGED rateVars
  BY <1>1, <1>2, <1>n DEF rateVars
<1>3. CASE \E c \in DOMAIN chats : BodyRead(c) \/ UpstreamAnswers(c) \/ StreamEnds(c)
  <2>1. UNCHANGED <<moment, buckets, windows, asks, ratePast>>
    BY <1>3 DEF BodyRead, UpstreamAnswers, StreamEnds
  <2>. QED BY <1>1, <1>n, <2>1
<1>4. CASE AskArrives
  <2>1. /\ UNCHANGED <<moment, buckets, windows>> /\ asks' = Joined(asks, ratePast.asks + 1, moment)
        /\ ratePast'.admitted = adm /\ ratePast'.told = told /\ ratePast'.stale = ratePast.stale
    BY <1>4, <1>h DEF AskArrives
  <2>2. \A a \in DOMAIN asks' : asks'[a] \in Nat
    BY <1>n, <2>1 DEF Joined
  <2>. QED BY <1>1, <1>n, <2>1, <2>2
<1>5. CASE ViewerComes \/ \E v \in DOMAIN viewers : ViewerServed(v) \/ ViewerLeaves(v)
  <2>1. /\ UNCHANGED <<moment, buckets, windows, asks>>
        /\ ratePast'.admitted = adm /\ ratePast'.told = told /\ ratePast'.stale = ratePast.stale
    BY <1>5, <1>h DEF ViewerComes, ViewerServed, ViewerLeaves
  <2>. QED BY <1>1, <1>n, <2>1
<1>6. CASE Ticks
  <2>1. UNCHANGED <<buckets, windows, asks, ratePast>> /\ moment' = moment + 1
    BY <1>6 DEF Ticks
  <2>. QED BY <1>1, <1>n, <2>1
\* Redis counts a request.
<1>7. ASSUME NEW a \in DOMAIN asks, RedisCounts(a) PROVE BInv'
  <2>1a. PICK at \in Nat : at = asks[a]
    BY <1>n
  <2>1b. PICK w : w = WindowOf(at)
    OBVIOUS
  <2>1. at = asks[a] /\ w = WindowOf(at)
    BY <2>1a, <2>1b
  <2>. DEFINE ok == windows[w] + 1 <= PerWindow["api"]
  <2>3. /\ windows' = [windows EXCEPT ![w] = @ + 1] /\ asks' = Restrict(asks, DOMAIN asks \ {a})
        /\ UNCHANGED <<moment, buckets>>
        /\ ratePast' = IF ok THEN [ratePast EXCEPT !.admitted = @ \o Admits(User, at, "redis")] ELSE ratePast
    BY <1>7, <2>1 DEF RedisCounts
  <2>4. /\ ratePast'.told = told /\ ratePast'.stale = ratePast.stale
        /\ ratePast'.admitted = IF ok THEN adm \o Admits(User, at, "redis") ELSE adm
    BY <1>h, <2>3
  <2>2. ok => windows[w] + 1 <= PerWindow["api"]
    OBVIOUS
  <2>. HIDE DEF ok
  <2>5. \A b \in DOMAIN asks' : asks'[b] \in Nat
    BY <1>n, <2>3 DEF Restrict
  <2>6. PICK new, n : new = ratePast'.admitted /\ n = Len(adm) + 1
    OBVIOUS
  <2>7. ok => Joins(new, adm, n, User, at, "redis")
    BY <1>n, <2>1, <2>4, <2>6, OneEvent DEF User, BucketKeys
  <2>8. ~ok => new = adm
    BY <2>4, <2>6
  <2>9. /\ new \in Seq(Admission) /\ \A k : Through(new, k) = Through(adm, k)
        /\ \A i \in DOMAIN adm : new[i] = adm[i]
        /\ \A v : ByRedis(new, v) = ByRedis(adm, v) \cup (IF ok /\ w = v THEN {n} ELSE {})
    BY <1>n, <2>1, <2>7, <2>8 DEF Joins
  <2>10. Numbers'
    BY <1>n, <2>3, <2>4, <2>5, <2>6, <2>9 DEF Numbers, BucketKeys, User, Bucket, Full, Admission
  <2>11. WindowsCounted'
    <3>1. DOMAIN windows' = DOMAIN windows /\ PerWindow["api"] \in Nat
      BY <2>3, RatesGiven DEF Policies
    <3>2. ASSUME NEW v \in DOMAIN windows
          PROVE  /\ windows'[v] \in Nat
                 /\ Cardinality(ByRedis(new, v)) <= windows'[v]
                 /\ Cardinality(ByRedis(new, v)) <= PerWindow["api"]
      <4>1. PICK m \in Nat : m = Cardinality(ByRedis(adm, v))
        BY <1>n, EventSets
      <4>2. windows[v] \in Nat /\ m <= windows[v] /\ m <= PerWindow["api"]
        BY <1>0, <4>1 DEF WindowsCounted
      <4>3. windows'[v] = IF v = w THEN windows[v] + 1 ELSE windows[v]
        BY <2>3
      <4>4. Cardinality(ByRedis(new, v)) \in {m, m + 1}
        <5>1. n \notin ByRedis(adm, v) /\ IsFiniteSet(ByRedis(adm, v))
          BY <1>n, <2>6, EventSets
        <5>2. Cardinality(ByRedis(adm, v) \cup {n}) = m + 1
          BY <4>1, <5>1, FS_AddElement
        <5>3. ByRedis(new, v) = ByRedis(adm, v) \/ ByRedis(new, v) = ByRedis(adm, v) \cup {n}
          BY <2>9
        <5>. QED BY <4>1, <5>2, <5>3
      <4>5. ~(ok /\ v = w) => Cardinality(ByRedis(new, v)) = m
        BY <2>9, <4>1
      <4>6. ok /\ v = w => windows[v] + 1 <= PerWindow["api"]
        BY <2>2
      <4>. QED BY <3>1, <4>2, <4>3, <4>4, <4>5, <4>6
    <3>. QED BY <2>6, <3>1, <3>2 DEF WindowsCounted
  <2>12. Budgets'
    <3>1. ASSUME NEW k, KeyHolds(adm, k, buckets[k], told[k]) PROVE KeyHolds(new, k, buckets[k], told[k])
      <4>1. Through(new, k) = Through(adm, k) /\ \A i \in Through(adm, k) : new[i] = adm[i]
        BY <1>n, <2>9, EventSets
      <4>. QED BY <3>1, <4>1, KeyApart
    <3>. QED BY <1>0, <2>3, <2>4, <2>6, <3>1 DEF Budgets
  <2>. QED BY <1>0, <2>10, <2>11, <2>12 DEF BInv
\* Redis fails, and the bucket in memory answers.
<1>8. ASSUME NEW a \in DOMAIN asks, RedisFails(a) PROVE BInv'
  <2>1. PICK at \in Nat : at = asks[a]
    BY <1>n
  <2>2. PICK b \in Bucket(User) : b = buckets[User] /\ User \in BucketKeys
    BY <1>n DEF User, BucketKeys
  <2>3. /\ buckets' = [buckets EXCEPT ![User] = Consumed(b, User, at)]
        /\ asks' = Restrict(asks, DOMAIN asks \ {a})
        /\ UNCHANGED <<moment, windows>>
        /\ ratePast' = [ratePast EXCEPT
             !.stale = @ \/ at < b.at,
             !.told = Told(@, User, at, Enough(b, User, at)),
             !.admitted = @ \o (IF Enough(b, User, at) THEN Admits(User, at, "bucket") ELSE <<>>)]
    BY <1>8, <2>1, <2>2 DEF RedisFails
  <2>4. /\ ratePast'.admitted = AfterAsking(adm, User, b, at)
        /\ ratePast'.told = [told EXCEPT ![User] = DueThen(User, b, at)]
        /\ ratePast'.stale = (ratePast.stale \/ at < b.at)
    BY <1>h, <2>2, <2>3 DEF AfterAsking, Told, DueThen
  <2>5. \A d \in DOMAIN asks' : asks'[d] \in Nat
    BY <1>n, <2>3 DEF Restrict
  <2>6. PICK new, c, due : new = AfterAsking(adm, User, b, at) /\ c = Consumed(b, User, at) /\ due = DueThen(User, b, at)
    OBVIOUS
  <2>7. /\ new \in Seq(Admission) /\ c \in Bucket(User) /\ due \in Int
        /\ \A w : ByRedis(new, w) = ByRedis(adm, w)
        /\ \A k, d, t : k # User /\ KeyHolds(adm, k, d, t) => KeyHolds(new, k, d, t)
        /\ \A t : b.at <= at /\ KeyHolds(adm, User, b, t) => KeyHolds(new, User, c, due)
    <3>1. Serves(adm, User, b, at, new, c, due)
      BY <1>n, <2>2, <2>6, KeyAsked
    <3>. QED BY <3>1 DEF Serves
  <2>8. \A k \in BucketKeys : buckets'[k] = IF k = User THEN c ELSE buckets[k]
    BY <1>n, <2>3, <2>6
  <2>9. \A k \in BucketKeys : ratePast'.told[k] = IF k = User THEN due ELSE told[k]
    BY <1>n, <2>4, <2>6
  <2>10. Numbers'
    <3>1. ratePast'.told \in [BucketKeys -> Int]
      BY <1>n, <2>4, <2>6, <2>7
    <3>2. DOMAIN buckets' = BucketKeys
      BY <1>n, <2>3
    <3>3. \A k \in BucketKeys : buckets'[k] \in Bucket(k) /\ (k # User => buckets'[k].at <= moment)
      BY <1>n, <2>7, <2>8
    <3>. QED BY <1>n, <2>3, <2>4, <2>5, <2>6, <2>7, <3>1, <3>2, <3>3 DEF Numbers, BucketKeys, User, Bucket, Full, Admission
  <2>11. WindowsCounted'
    BY <1>0, <2>3, <2>4, <2>6, <2>7 DEF WindowsCounted
  <2>12. Budgets'
    <3>1. SUFFICES ASSUME ~ratePast'.stale, NEW k \in BucketKeys
                   PROVE  KeyHolds(new, k, buckets'[k], ratePast'.told[k])
      BY <2>4, <2>6 DEF Budgets, BucketKeys
    <3>2. b.at <= at /\ KeyHolds(adm, k, buckets[k], told[k])
      <4>1. ~ratePast.stale /\ ~(at < b.at)
        BY <2>4, <3>1
      <4>2. b.at \in Nat
        BY <2>2 DEF Bucket
      <4>. QED BY <1>0, <4>1, <4>2 DEF Budgets
    <3>3. CASE k = User
      BY <2>2, <2>7, <2>8, <2>9, <3>2, <3>3
    <3>4. CASE k # User
      BY <2>7, <2>8, <2>9, <3>2, <3>4
    <3>. QED BY <3>3, <3>4
  <2>. QED BY <1>0, <2>10, <2>11, <2>12 DEF BInv
\* A call of the model: the run's bucket and, if that grants it, the organisation's.
<1>9. ASSUME NEW s \in Sessions, NEW step \in BOOLEAN, ChatArrives(s, step) PROVE BInv'
  <2>. DEFINE run == <<"llm_run", s>>
              org == <<"llm_org", Org>>
              b == buckets[run]
              d == buckets[org]
              okRun == Enough(b, run, moment)
              okOrg == okRun /\ Enough(d, org, moment)
  <2>1. /\ run \in BucketKeys /\ org \in BucketKeys /\ run # org /\ run # User /\ org # User
    BY DEF BucketKeys, User
  <2>2. b \in Bucket(run) /\ d \in Bucket(org) /\ b.at <= moment /\ d.at <= moment
    BY <1>n, <2>1
  <2>3. /\ UNCHANGED <<moment, windows, asks>>
        /\ buckets' = [k \in BucketKeys |->
             IF k = run \/ (k = org /\ okRun) THEN Consumed(buckets[k], k, moment) ELSE buckets[k]]
    BY <1>9 DEF ChatArrives
  <2>4. ratePast'.stale = ratePast.stale
    BY <1>9, <1>h DEF ChatArrives
  <2>5. ratePast'.admitted = adm \o (IF okRun THEN Admits(run, moment, "bucket") ELSE <<>>)
                                 \o (IF okOrg THEN Admits(org, moment, "bucket") ELSE <<>>)
    BY <1>9, <1>h DEF ChatArrives
  <2>6. ratePast'.told = IF okRun THEN Told(Told(told, run, moment, okRun), org, moment, okOrg)
                                  ELSE Told(told, run, moment, okRun)
    BY <1>9, <1>h DEF ChatArrives
  <2>7. PICK one, c, due : one = AfterAsking(adm, run, b, moment) /\ c = Consumed(b, run, moment)
                           /\ due = DueThen(run, b, moment)
    OBVIOUS
  <2>8. /\ one \in Seq(Admission) /\ c \in Bucket(run) /\ c.at = moment /\ due \in Int
        /\ \A w : ByRedis(one, w) = ByRedis(adm, w)
        /\ \A k, x, t : k # run /\ KeyHolds(adm, k, x, t) => KeyHolds(one, k, x, t)
        /\ \A t : KeyHolds(adm, run, b, t) => KeyHolds(one, run, c, due)
    <3>1. Serves(adm, run, b, moment, one, c, due)
      BY <1>n, <2>1, <2>2, <2>7, KeyAsked
    <3>. HIDE DEF run, b
    <3>. QED BY <2>2, <3>1 DEF Serves
  <2>9. PICK two, e, due2 : two = AfterAsking(one, org, d, moment) /\ e = Consumed(d, org, moment)
                            /\ due2 = DueThen(org, d, moment)
    OBVIOUS
  <2>10. /\ two \in Seq(Admission) /\ e \in Bucket(org) /\ e.at = moment /\ due2 \in Int
         /\ \A w : ByRedis(two, w) = ByRedis(one, w)
         /\ \A k, x, t : k # org /\ KeyHolds(one, k, x, t) => KeyHolds(two, k, x, t)
         /\ \A t : KeyHolds(one, org, d, t) => KeyHolds(two, org, e, due2)
    <3>1. Serves(one, org, d, moment, two, e, due2)
      BY <1>n, <2>1, <2>2, <2>8, <2>9, KeyAsked
    <3>. HIDE DEF org, d
    <3>. QED BY <2>2, <3>1 DEF Serves
  <2>11. ratePast'.admitted = IF okRun THEN two ELSE one
    <3>1. ratePast'.admitted = one \o (IF okOrg THEN Admits(org, moment, "bucket") ELSE <<>>)
      BY <2>5, <2>7 DEF AfterAsking
    <3>2. CASE okRun
      BY <2>9, <3>1, <3>2 DEF AfterAsking
    <3>3. CASE ~okRun
      <4>1. ratePast'.admitted = one \o <<>>
        BY <3>1, <3>3
      <4>2. one \o <<>> = one
        BY <2>8
      <4>. QED BY <3>3, <4>1, <4>2
    <3>. QED BY <3>2, <3>3
  <2>12. ratePast'.told = IF okRun THEN [told EXCEPT ![run] = due, ![org] = due2]
                                   ELSE [told EXCEPT ![run] = due]
    BY <1>n, <2>1, <2>6, <2>7, <2>9 DEF Told, DueThen
  <2>13. \A k \in BucketKeys : buckets'[k] = IF k = run THEN c ELSE IF k = org /\ okRun THEN e ELSE buckets[k]
    BY <2>3, <2>7, <2>9
  <2>14. DOMAIN buckets' = BucketKeys
    BY <2>3
  <2>. HIDE DEF run, org, b, d, okRun, okOrg
  <2>15. PICK ok \in {TRUE, FALSE} : ok <=> okRun
    OBVIOUS
  <2>16. \A k \in BucketKeys : ratePast'.told[k] = IF k = run THEN due ELSE IF k = org /\ okRun THEN due2 ELSE told[k]
    BY <1>n, <2>1, <2>12
  <2>17. Numbers'
    <3>1. ratePast'.told \in [BucketKeys -> Int]
      BY <1>n, <2>8, <2>10, <2>12
    <3>2. \A k \in BucketKeys : buckets'[k] \in Bucket(k) /\ (k # User => buckets'[k].at <= moment)
      <4>1. TAKE k \in BucketKeys
      <4>2. CASE k = run
        BY <1>n, <2>8, <2>13, <4>2
      <4>3. CASE k # run /\ k = org /\ okRun
        BY <1>n, <2>10, <2>13, <4>3
      <4>4. CASE k # run /\ ~(k = org /\ okRun)
        BY <1>n, <2>13, <4>4
      <4>. QED BY <4>2, <4>3, <4>4
    <3>3. ratePast'.admitted \in Seq(Admission)
      BY <2>8, <2>10, <2>11
    <3>. QED BY <1>n, <2>3, <2>14, <3>1, <3>2, <3>3 DEF Numbers, BucketKeys, User, Bucket, Full, Admission
  <2>18. WindowsCounted'
    <3>1. \A w : ByRedis(ratePast'.admitted, w) = ByRedis(adm, w)
      BY <2>8, <2>10, <2>11
    <3>. QED BY <1>0, <2>3, <3>1 DEF WindowsCounted
  <2>19. Budgets'
    <3>1. SUFFICES ASSUME ~ratePast'.stale, NEW k \in BucketKeys
                   PROVE  KeyHolds(ratePast'.admitted, k, buckets'[k], ratePast'.told[k])
      BY DEF Budgets, BucketKeys
    <3>2. \A j \in BucketKeys : KeyHolds(adm, j, buckets[j], told[j])
      BY <1>0, <2>4, <3>1 DEF Budgets
    <3>3. /\ KeyHolds(one, run, c, due) /\ KeyHolds(one, org, d, told[org])
          /\ \A j \in BucketKeys : j # run => KeyHolds(one, j, buckets[j], told[j])
      BY <2>1, <2>8, <3>2 DEF b, d
    <3>4. CASE okRun
      <4>1. KeyHolds(two, org, e, due2) /\ KeyHolds(two, run, c, due)
        BY <2>1, <2>10, <3>3
      <4>2. ASSUME k # run, k # org PROVE KeyHolds(two, k, buckets[k], told[k])
        BY <2>10, <3>3, <4>2
      <4>. QED BY <2>1, <2>11, <2>13, <2>16, <3>4, <4>1, <4>2
    <3>5. CASE ~okRun
      BY <2>11, <2>13, <2>16, <3>3, <3>5
    <3>. QED BY <3>4, <3>5
  <2>. QED BY <1>0, <2>17, <2>18, <2>19 DEF BInv
<1>. QED BY <1>2, <1>3, <1>4, <1>5, <1>6, <1>7, <1>8, <1>9 DEF RateNext

\* Whatever the limits and the order of events, in any stretch of time a bucket lets in at
\* most its burst and what it gains meanwhile, and Redis at most the limit in each of its
\* windows; and a client that was refused is told the first moment at which it will be let
\* in (consumeBucket, consumeMemoryBucket, consumeRedisWindow), as long as no request that
\* found Redis failing set the clock of its bucket back.
THEOREM BudgetKept == RateSpec => []RateHolds
<1>1. BInv => RateHolds
  <2>. SUFFICES ASSUME BInv PROVE RateHolds
    OBVIOUS
  <2>1. WithinWindows
    BY DEF BInv, WindowsCounted, WithinWindows
  <2>2. ASSUME ~ratePast.stale PROVE WithinBudget
    <3>1. \A k \in BucketKeys : Budget(ratePast.admitted, Through(ratePast.admitted, k), k, buckets[k])
      BY <2>2 DEF BInv, Budgets, KeyHolds
    <3>. QED BY <3>1 DEF Budget, WithinBudget, Rate
  <2>3. ASSUME ~ratePast.stale PROVE RetryHonest
    BY <2>3 DEF BInv, Budgets, KeyHolds, Honest, RetryHonest
  <2>. QED BY <2>1, <2>2, <2>3 DEF RateHolds
<1>. QED BY <1>1, BInit, BNext, PTL DEF RateSpec

-----------------------------------------------------------------------------
(* The types. *)

Clocks ==
  /\ moment <= MaxMoment /\ cache \in Nat
  /\ \A a \in DOMAIN asks : asks[a] <= MaxMoment
  /\ buckets[User].at <= MaxMoment
  /\ windows \in [0..WindowOf(MaxMoment) -> Nat]

LEMMA ClocksInit == RateInit => Clocks
<1>. SUFFICES ASSUME RateInit PROVE Clocks
  OBVIOUS
<1>1. User \in BucketKeys /\ 0 <= MaxMoment
  BY RateNumbers DEF User, BucketKeys
<1>2. buckets[User] = [tokens |-> Full(User), at |-> 0]
  BY <1>1 DEF RateInit
<1>3. windows \in [0..WindowOf(MaxMoment) -> Nat]
  BY DEF RateInit
<1>4. /\ moment = 0 /\ cache = 0 /\ DOMAIN asks = {}
  BY DEF RateInit
<1>. QED BY <1>1, <1>2, <1>3, <1>4 DEF Clocks

\* The clocks of buckets and requests are behind the computer's, which stays in bounds.
LEMMA ClocksNext == BInv /\ Clocks /\ [RateNext]_rateVars => Clocks'
<1>. SUFFICES ASSUME BInv, Clocks, [RateNext]_rateVars PROVE Clocks'
  OBVIOUS
<1>1. /\ moment \in Nat /\ moment <= MaxMoment /\ MaxMoment \in Nat /\ User \in BucketKeys
      /\ \A a \in DOMAIN asks : asks[a] \in Nat /\ asks[a] <= MaxMoment
      /\ DOMAIN buckets = BucketKeys /\ buckets[User].at <= MaxMoment /\ cache \in Nat
      /\ windows \in [0..WindowOf(MaxMoment) -> Nat]
  BY RateNumbers DEF BInv, Numbers, Clocks, User, BucketKeys
<1>2. CASE UNCHANGED rateVars
  BY <1>1, <1>2 DEF rateVars, Clocks, User
<1>3. ASSUME NEW s \in Sessions, NEW step \in BOOLEAN, ChatArrives(s, step) PROVE Clocks'
  <2>1. /\ UNCHANGED <<moment, cache, windows, asks>>
        /\ \A k \in BucketKeys : buckets'[k] = buckets[k] \/ buckets'[k] = Consumed(buckets[k], k, moment)
    BY <1>3 DEF ChatArrives
  <2>2. buckets'[User].at <= MaxMoment
    <3>1. Consumed(buckets[User], User, moment).at = moment
      BY DEF Consumed
    <3>. QED BY <1>1, <2>1, <3>1
  <2>. QED BY <1>1, <2>1, <2>2 DEF Clocks, User
<1>4. ASSUME NEW c \in DOMAIN chats, BodyRead(c) \/ UpstreamAnswers(c) \/ StreamEnds(c) PROVE Clocks'
  <2>1. UNCHANGED <<moment, buckets, windows, asks>>
    BY <1>4 DEF BodyRead, UpstreamAnswers, StreamEnds
  <2>2. cache' \in Nat
    <3>1. moment + StepTtl \in Nat
      BY <1>1, RateNumbers
    <3>. QED BY <1>1, <1>4, <3>1 DEF BodyRead, UpstreamAnswers, StreamEnds
  <2>. QED BY <1>1, <2>1, <2>2 DEF Clocks, User
<1>5. CASE AskArrives
  <2>1. /\ UNCHANGED <<moment, buckets, cache, windows>>
        /\ asks' = Joined(asks, ratePast.asks + 1, moment)
    BY <1>5 DEF AskArrives
  <2>2. \A a \in DOMAIN asks' : asks'[a] <= MaxMoment
    BY <1>1, <2>1 DEF Joined
  <2>. QED BY <1>1, <2>1, <2>2 DEF Clocks, User
<1>6. ASSUME NEW a \in DOMAIN asks, RedisCounts(a) PROVE Clocks'
  <2>1. PICK w : windows' = [windows EXCEPT ![w] = @ + 1]
    BY <1>6 DEF RedisCounts
  <2>2. UNCHANGED <<moment, buckets, cache>> /\ asks' = Restrict(asks, DOMAIN asks \ {a})
    BY <1>6 DEF RedisCounts
  <2>3. windows' \in [0..WindowOf(MaxMoment) -> Nat]
    <3>1. PICK D : D = 0..WindowOf(MaxMoment)
      OBVIOUS
    <3>2. windows \in [D -> Nat] /\ \A v \in D : windows[v] \in Nat /\ windows[v] + 1 \in Nat
      BY <1>1, <3>1
    <3>3. DOMAIN windows' = D /\ \A v \in D : windows'[v] \in Nat
      BY <2>1, <3>2
    <3>4. windows' = [v \in D |-> windows'[v]]
      BY <2>1, <3>2
    <3>. QED BY <3>1, <3>3, <3>4
  <2>4. \A b \in DOMAIN asks' : asks'[b] <= MaxMoment
    BY <1>1, <2>2 DEF Restrict
  <2>. QED BY <1>1, <2>2, <2>3, <2>4 DEF Clocks, User
<1>7. ASSUME NEW a \in DOMAIN asks, RedisFails(a) PROVE Clocks'
  <2>1. PICK at : at = asks[a]
    OBVIOUS
  <2>2. /\ UNCHANGED <<moment, windows, cache>> /\ asks' = Restrict(asks, DOMAIN asks \ {a})
        /\ buckets' = [buckets EXCEPT ![User] = Consumed(buckets[User], User, at)]
    BY <1>7, <2>1 DEF RedisFails
  <2>3. buckets'[User].at = at
    BY <1>1, <2>2 DEF Consumed
  <2>4. \A b \in DOMAIN asks' : asks'[b] <= MaxMoment
    BY <1>1, <2>2 DEF Restrict
  <2>. QED BY <1>1, <2>1, <2>2, <2>3, <2>4 DEF Clocks, User
<1>8. CASE ViewerComes \/ \E v \in DOMAIN viewers : ViewerServed(v) \/ ViewerLeaves(v)
  <2>1. UNCHANGED <<moment, buckets, cache, windows, asks>>
    BY <1>8 DEF ViewerComes, ViewerServed, ViewerLeaves
  <2>. QED BY <1>1, <2>1 DEF Clocks, User
<1>9. CASE Ticks
  <2>1. UNCHANGED <<buckets, cache, windows, asks>> /\ moment < MaxMoment /\ moment' = moment + 1
    BY <1>9 DEF Ticks
  <2>. QED BY <1>1, <2>1 DEF Clocks, User
<1>. QED BY <1>2, <1>3, <1>4, <1>5, <1>6, <1>7, <1>8, <1>9 DEF RateNext

\* The types of buckets, leases and requests: no bucket holds less than nothing or more
\* than its burst, and none was counted at a moment that has not been.
THEOREM RateTypes == RateSpec => []RateTypeOK
<1>1. BInv /\ Clocks => RateTypeOK
  <2>. SUFFICES ASSUME BInv, Clocks PROVE RateTypeOK
    OBVIOUS
  <2>1. moment \in Moments /\ \A a \in DOMAIN asks : asks[a] \in Moments
    BY RateNumbers DEF BInv, Numbers, Clocks, Moments
  <2>2. ASSUME NEW k \in BucketKeys PROVE buckets[k] \in [tokens : 0..Full(k), at : Moments]
    <3>1. buckets[k] \in [tokens : 0..Full(k), at : Nat]
      BY DEF BInv, Numbers, Bucket
    <3>2. buckets[k].at <= MaxMoment
      <4>1. k # User => buckets[k].at <= moment
        BY DEF BInv, Numbers
      <4>. QED BY <2>1, <3>1, <4>1, RateNumbers DEF Clocks, Moments
    <3>. QED BY <3>1, <3>2, RateNumbers DEF Moments
  <2>3. /\ \A c \in DOMAIN chats :
             chats[c] \in [run : Sessions, step : BOOLEAN, pc : {"body", "upstream", "stream"}]
        /\ \A v \in DOMAIN viewers : viewers[v] \in [pc : {"loading", "open"}, gone : BOOLEAN]
        /\ inflight \in [LeaseKeys -> Nat]
    BY DEF BInv, RInv, Requests, Leases, Chat, Viewer
  <2>4. DOMAIN buckets = BucketKeys /\ cache \in Nat /\ windows \in [0..WindowOf(MaxMoment) -> Nat]
    BY DEF BInv, Numbers, Clocks
  <2>. QED BY <2>1, <2>2, <2>3, <2>4 DEF RateTypeOK
<1>. QED BY <1>1, BInit, BNext, ClocksInit, ClocksNext, PTL DEF RateSpec

===================================================================================
