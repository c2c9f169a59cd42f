------------------------------ MODULE Automations ------------------------------
(***************************************************************************)
(* Scheduled runs.  Every 30 s the scheduler calls fireDueAutomations      *)
(* (automations/runner.ts) and does not wait for it: a tick copies the     *)
(* automations that are due, then for one after the other awaits the whole *)
(* createRun before it writes lastRunId and nextRunAt back (store.ts).     *)
(* Users edit and delete automations meanwhile, and the process may die.   *)
(***************************************************************************)
EXTENDS Integers, Sequences, FiniteSets

CONSTANTS
  AutoCount,   \* bound: automations
  MaxClock,    \* bound: the clock
  MaxTicks,    \* bound: ticks of the scheduler
  MaxFired,    \* bound: runs that automations start
  MaxEdits,    \* bound: edits by users, restarts of the control plane
  AutoFaults   \* which of "throw", "crash", "followUp" may happen

ASSUME AutoNumbers ==
  AutoCount \in Nat /\ MaxClock \in Nat /\ MaxTicks \in Nat /\ MaxFired \in Nat /\ MaxEdits \in Nat
ASSUME AutoFaultsKnown == AutoFaults \subseteq {"throw", "crash", "followUp"}

VARIABLES
  autos,    \* automations.json: autos[a]
  ticks,    \* calls of fireDueAutomations that have not returned
  fired,    \* the runs with source "automation", oldest first
  clock,
  autoPast  \* history: ticks, edits, and per automation what the property excuses
autoVars == <<autos, ticks, fired, clock, autoPast>>

AutoIds == 1..AutoCount
Every == 1..2                                  \* AutomationSchedule
Busy == {"PROVISIONING", "RUNNING"}            \* PROVISIONING, INSTALLING; RUNNING
FiredStatus == Busy \cup {"NOT_YET_STARTED", "IDLE"}   \* IDLE: ended, in whatever way

\* An automation as a tick copied it, and a tick with what it has yet to do.
Due == [id : AutoIds, every : Every, next : Nat, last : 0..MaxFired]
Tick == [at : 0..MaxClock, todo : SUBSET Due, pc : {"asks", "setup"}, run : 0..MaxFired]

AutoTypeOK ==
  /\ autos \in [AutoIds -> [there : BOOLEAN, on : BOOLEAN, every : Every, next : Nat,
                            last : 0..MaxFired]]
  /\ DOMAIN ticks \subseteq 1..MaxTicks /\ \A t \in DOMAIN ticks : ticks[t] \in Tick
  /\ fired \in Seq([auto : AutoIds, due : Nat, status : FiredStatus])
  /\ clock \in 0..MaxClock
  /\ autoPast.ticks \in 0..MaxTicks /\ autoPast.edits \in 0..MaxEdits
  /\ autoPast.excused \subseteq AutoIds

AutoInit ==
  /\ autos = [a \in AutoIds |-> [there |-> TRUE, on |-> TRUE, every |-> 1, next |-> 1, last |-> 0]]
  /\ ticks = <<>> /\ fired = <<>> /\ clock = 0
  /\ autoPast = [ticks |-> 0, edits |-> 0, excused |-> {}]

-----------------------------------------------------------------------------
(* store.ts: dueAutomations copies, updateAutomation writes what is there. *)

DueNow == {[id |-> a, every |-> autos[a].every, next |-> autos[a].next, last |-> autos[a].last] :
             a \in {b \in AutoIds : autos[b].there /\ autos[b].on /\ autos[b].next <= clock}}

NextAt(item, at) == at + item.every           \* nextAutomationRunAt

Written(as, a, new) == IF as[a].there THEN [as EXCEPT ![a] = new] ELSE as
Postponed(was, item, at) == [was EXCEPT !.next = NextAt(item, at)]

-----------------------------------------------------------------------------
(* runner.ts                                                               *)

PreviousBusy(item, runs) == item.last # 0 /\ runs[item.last].status \in Busy

\* The loop goes through the list in the order of the file; its next item.
NextOf(todo) == CHOOSE d \in todo : \A e \in todo : d.id <= e.id

\* The loop of a tick up to its next createRun: what is skipped on the way only
\* moves nextRunAt.
Loop(t, tick, as, runs) ==
  LET rest == {d \in tick.todo : \E s \in tick.todo : s.id <= d.id /\ ~PreviousBusy(s, runs)}
      skipped == tick.todo \ rest
  IN /\ autos' = [a \in AutoIds |->
          IF as[a].there /\ \E d \in skipped : d.id = a
          THEN Postponed(as[a], CHOOSE d \in skipped : d.id = a, tick.at) ELSE as[a]]
     /\ ticks' = [u \in (DOMAIN ticks \cup {t}) \ (IF rest = {} THEN {t} ELSE {}) |->
                    IF u = t THEN [tick EXCEPT !.todo = rest, !.pc = "asks", !.run = 0]
                    ELSE ticks[u]]
     /\ fired' = runs

\* setInterval: a tick starts whether or not the last one has returned.
FireDueAutomations ==
  /\ autoPast.ticks < MaxTicks /\ DueNow # {}
  /\ Loop(autoPast.ticks + 1, [at |-> clock, todo |-> DueNow, pc |-> "asks", run |-> 0], autos, fired)
  /\ LET InHand == {d.id : d \in UNION {ticks[t].todo : t \in DOMAIN ticks}}
     IN autoPast' = [autoPast EXCEPT !.ticks = @ + 1,
                       !.excused = @ \cup (InHand \cap {d.id : d \in DueNow})]
  /\ UNCHANGED clock

\* createRun saves the run's record, then sets it up while the tick waits.
CreateRunStarts(t) ==
  /\ ticks[t].pc = "asks" /\ Len(fired) < MaxFired
  /\ LET item == NextOf(ticks[t].todo)
     IN fired' = Append(fired, [auto |-> item.id, due |-> item.next, status |-> "PROVISIONING"])
  /\ ticks' = [ticks EXCEPT ![t].pc = "setup", ![t].run = Len(fired) + 1]
  /\ UNCHANGED <<autos, clock, autoPast>>

ForgetsNext(was, item, tick) == [was EXCEPT !.last = tick.run]
Served(was, item, tick) == [was EXCEPT !.last = tick.run, !.next = NextAt(item, tick.at)]

\* createRun returns: the run works, waits for a slot, or its setup failed.
CreateRunReturns(t) ==
  /\ ticks[t].pc = "setup"
  /\ \E status \in {"RUNNING", "NOT_YET_STARTED", "IDLE"} :
       LET item == NextOf(ticks[t].todo)
       IN Loop(t, [ticks[t] EXCEPT !.todo = @ \ {item}], Written(autos, item.id, Served(autos[item.id], item, ticks[t])),
               [fired EXCEPT ![ticks[t].run].status = status])
  /\ UNCHANGED <<clock, autoPast>>

\* createRun throws (no credit, no such repository): lastError, and the next due time.
CreateRunThrows(t) ==
  /\ "throw" \in AutoFaults /\ ticks[t].pc = "asks"
  /\ LET item == NextOf(ticks[t].todo)
     IN Loop(t, [ticks[t] EXCEPT !.todo = @ \ {item}],
             Written(autos, item.id, Postponed(autos[item.id], item, ticks[t].at)), fired)
  /\ UNCHANGED <<clock, autoPast>>

-----------------------------------------------------------------------------
(* What happens around the scheduler                                       *)

TimePasses ==
  /\ clock < MaxClock /\ clock' = clock + 1
  /\ UNCHANGED <<autos, ticks, fired, autoPast>>

\* A run's worker: a waiting run gets its slot (isWaitingForCloudVm runs are not
\* what a tick takes for busy), a turn ends, and a user may ask again.
RunMoves(r) ==
  /\ ticks = <<>> \/ \A t \in DOMAIN ticks : ticks[t].run # r
  /\ LET was == fired[r].status
     IN \E status \in Busy \cup {"IDLE"} :
          /\ <<was, status>> \in {<<"NOT_YET_STARTED", "RUNNING">>, <<"RUNNING", "IDLE">>,
                                  <<"PROVISIONING", "IDLE">>, <<"IDLE", "RUNNING">>}
          /\ was = "IDLE" => "followUp" \in AutoFaults
          /\ fired' = [fired EXCEPT ![r].status = status]
          /\ autoPast' = IF was \in {"NOT_YET_STARTED", "IDLE"}
                         THEN [autoPast EXCEPT !.excused = @ \cup {fired[r].auto}] ELSE autoPast
  /\ UNCHANGED <<autos, ticks, clock>>

\* POST /v1/automations/:id: a new schedule counts from now, "enabled" leaves
\* nextRunAt alone, "delete" takes the item out of the file.
UserEdits(a) ==
  /\ autoPast.edits < MaxEdits /\ autos[a].there
  /\ \/ \E every \in Every : autos' = [autos EXCEPT ![a].every = every, ![a].next = clock + every]
     \/ autos' = [autos EXCEPT ![a].on = ~@]
     \/ autos' = [autos EXCEPT ![a].there = FALSE]
  /\ autoPast' = [autoPast EXCEPT !.edits = @ + 1]
  /\ UNCHANGED <<ticks, fired, clock>>

\* The process dies inside its ticks: the records of the runs are on disk, what
\* the ticks had yet to write is not.
ControlPlaneDies ==
  /\ "crash" \in AutoFaults /\ autoPast.edits < MaxEdits /\ ticks # <<>>
  /\ ticks' = <<>>
  /\ autoPast' = [autoPast EXCEPT !.edits = @ + 1,
                    !.excused = @ \cup {NextOf(ticks[t].todo).id : t \in DOMAIN ticks}]
  /\ UNCHANGED <<autos, fired, clock>>

AutoNext ==
  \/ FireDueAutomations \/ TimePasses \/ ControlPlaneDies
  \/ \E t \in DOMAIN ticks : CreateRunStarts(t) \/ CreateRunReturns(t) \/ CreateRunThrows(t)
  \/ \E r \in DOMAIN fired : RunMoves(r)
  \/ \E a \in AutoIds : UserEdits(a)

AutoSpec == AutoInit /\ [][AutoNext]_autoVars

-----------------------------------------------------------------------------
(* Properties                                                              *)

\* One automation, one run: a due time starts at most one run, and no second run
\* of the automation works beside the first, whatever the user edits and however
\* long createRun takes -- unless a second tick read the list while the first had
\* the automation in hand, the process died in the tick, or the earlier run was
\* not busy when the tick looked and moved later (runner.ts fireDueAutomations).
FiresOnce ==
  \A p, q \in DOMAIN fired :
    (p < q /\ fired[p].auto = fired[q].auto /\ fired[p].auto \notin autoPast.excused) =>
      /\ fired[p].due # fired[q].due
      /\ ~(fired[p].status \in Busy /\ fired[q].status \in Busy)

\* What a reader of runner.ts would expect, and is not so: the same with no proviso.
FiresOnceAlways ==
  \A p, q \in DOMAIN fired :
    (p < q /\ fired[p].auto = fired[q].auto) => fired[p].due # fired[q].due
===============================================================================
