------------------------------ MODULE DeskHost ------------------------------
(***************************************************************************)
(* One computer that runs Neo Desk, and the part of the control plane that *)
(* hands "This Computer" runs to it: desk/app/host.ts, which owns the      *)
(* local workers, and desks/store.ts with the desk functions of            *)
(* orchestrator.ts.  A desk worker exits after its turn, so every message  *)
(* that finds no worker travels to the desk again as an offer: on the      *)
(* inbox stream and, as a fallback, in a queue that the lease loop polls.  *)
(*                                                                         *)
(* An action is the code between two awaits.  Everything inside one        *)
(* process is in order; what the desk posts (claim, reject, release,       *)
(* abort) arrives when it arrives.                                         *)
(***************************************************************************)
EXTENDS Integers, FiniteSets, Sequences, SequencesExt

CONSTANTS
  Runs,          \* the runs of this desk
  Limit,         \* prefs().maxLocalRuns
  MaxProcs,      \* bound: worker processes ever spawned
  MaxSent,       \* bound: messages that users send
  MaxStarts,     \* bound: calls of startAssignment that wait at the same time
  MaxStops,      \* bound: Stop buttons pressed
  MaxCuts,       \* bound: connections that break
  DeskFaults     \* subset of {"prepare", "claim", "again", "crash", "late"}: what may fail

ASSUME DeskNumbers == /\ Limit \in Nat \ {0} /\ MaxProcs \in Nat /\ MaxSent \in Nat
                      /\ MaxStarts \in Nat /\ MaxStops \in Nat /\ MaxCuts \in Nat
ASSUME DeskFaultsKnown == DeskFaults \subseteq {"prepare", "claim", "again", "crash", "late"}
ASSUME DeskRuns == IsFiniteSet(Runs) /\ 0 \notin Runs

Pids == 1..MaxProcs
Free == -1
Reserved == 0
Vias == {"stream", "lease", "window"}   \* who called startAssignment

VARIABLES
  offers,        \* assignments.get(desk): runs that wait for a lease poll
  waiters,       \* waiters.get(desk): the desk's open poll, or one nobody reads
  inbox,         \* inboxes.get(desk) and the events on the desk's live stream
  lease,         \* the desk's lease loop
  desk,          \* the runs' records, handles, inbound queues and activeTurns
  hosted,        \* localRuns: no entry, one that waits for its child, or the child
  startingHere,  \* startingHere: runs that this window is starting
  asked,         \* runs for which this window is about to call desk:startRun
  starts,        \* calls of startAssignment that wait
  procs,         \* worker processes
  posts,         \* requests of the desk on their way
  tale           \* history: messages sent, Stops, cuts (of connections and workers);
                 \* whether a start waited for a reap; the runs whose entry in
                 \* localRuns was taken away
deskVars == <<offers, waiters, inbox, lease, desk, hosted, startingHere, asked, starts,
              procs, posts, tale>>

Start == [run : Runs, via : Vias, pc : {"reap", "retire", "prepare", "claim"},
          seen : SUBSET Runs, pid : 0..MaxProcs]
(* A crash is a release with an exit code that is not 0.                   *)
Post == [kind : {"reject", "release", "crash", "abort"}, run : Runs]
Event == [kind : {"assignment", "cancel"}, run : Runs]

DeskTypeOK ==
  /\ offers \in Seq(Runs) /\ waiters \in Seq({"open", "dead"})
  /\ inbox.live \in BOOLEAN /\ inbox.dead \in BOOLEAN /\ inbox.events \in Seq(Event)
  /\ lease \in Runs \cup {"off", "open"}
  /\ desk \in [Runs -> [status : {"NOT_YET_STARTED", "RUNNING", "IDLE", "ERROR"},
                        handle : BOOLEAN, turn : BOOLEAN, inbound : 0..MaxSent]]
  /\ hosted \in [Runs -> {Free, Reserved} \cup Pids]
  /\ startingHere \subseteq Runs /\ asked \subseteq Runs
  /\ starts \subseteq Start
  /\ procs \in Seq([run : Runs, st : {"up", "turn", "served", "leaving", "gone"}])
  /\ posts \subseteq Post
  /\ tale.sent \in 0..MaxSent /\ tale.stops \in 0..MaxStops
  /\ tale.cuts \in 0..MaxCuts /\ tale.dropped \subseteq Runs /\ tale.reaped \in BOOLEAN

(* A fresh run: createRun with start "inline" from this window, which has  *)
(* the assignment in the response and is about to start it.  The others    *)
(* have ended an earlier turn.                                             *)
DeskInit ==
  /\ offers = <<>> /\ waiters = <<>> /\ lease = "off"
  /\ inbox = [live |-> TRUE, dead |-> FALSE, events |-> <<>>]
  /\ asked \in {fresh \in SUBSET Runs : Cardinality(fresh) <= MaxSent}
  /\ desk = [r \in Runs |-> [status |-> IF r \in asked THEN "NOT_YET_STARTED" ELSE "IDLE",
                            handle |-> FALSE, turn |-> FALSE,
                            inbound |-> IF r \in asked THEN 1 ELSE 0]]
  /\ hosted = [r \in Runs |-> Free] /\ startingHere = {} /\ starts = {}
  /\ procs = <<>> /\ posts = {}
  /\ tale = [sent |-> Cardinality(asked), stops |-> 0, cuts |-> 0, dropped |-> {},
             reaped |-> FALSE]

-----------------------------------------------------------------------------
(* The control plane: desks/store.ts                                       *)

Hosting == {r \in Runs : hosted[r] # Free}
HasInbox == inbox.live \/ inbox.dead

(* pushDeskInbox: to every sink; what a dead one gets is lost.             *)
Pushed(i, event) == IF i.live THEN [i EXCEPT !.events = Append(@, event)] ELSE i

(* offerDeskAssignment: queue the run, then answer the first waiter, with  *)
(* the head of the queue.                                                  *)
Offered(r) ==
  LET queue == IF Contains(offers, r) THEN offers ELSE Append(offers, r)
  IN IF waiters = <<>>
     THEN offers' = queue /\ UNCHANGED <<waiters, lease>>
     ELSE /\ offers' = Tail(queue)
          /\ waiters' = Tail(waiters)
          /\ lease' = IF Head(waiters) = "open" THEN Head(queue) ELSE lease

(* dispatchToDesk, with queueRun on the record d.                          *)
QueueDeskRun(d) == [d EXCEPT !.status = "NOT_YET_STARTED", !.handle = FALSE]
DispatchToDesk(r, d) ==
  /\ Offered(r)
  /\ inbox' = Pushed(inbox, [kind |-> "assignment", run |-> r])
  /\ desk' = [desk EXCEPT ![r] = QueueDeskRun(d)]

KeepsChannels == UNCHANGED <<offers, waiters, lease, inbox>>

(* enqueueFollowUp: refused while the desk is offline; resumeRun offers    *)
(* the run unless a worker is attached or the first claim is awaited.  The *)
(* window that sent it goes on to start the run if no worker is here.      *)
DeskFollowUp(r) ==
  LET d == [desk[r] EXCEPT !.inbound = @ + 1]
  IN /\ tale.sent < MaxSent /\ HasInbox
     /\ tale' = [tale EXCEPT !.sent = @ + 1]
     /\ IF d.handle \/ d.status = "NOT_YET_STARTED"
        THEN desk' = [desk EXCEPT ![r] = d] /\ KeepsChannels
        ELSE DispatchToDesk(r, d)
     /\ asked' \in {asked} \cup {asked \cup {q} : q \in {r} \cap (Runs \ Hosting)}
     /\ UNCHANGED <<hosted, startingHere, starts, procs, posts>>

(* rejectDeskRun: the run fails, its messages and its offer are dropped;   *)
(* the queue has one at most, see Offered.                                 *)
RejectRun(r) ==
  /\ offers' = IF Contains(offers, r)
               THEN RemoveAt(offers, CHOOSE i \in DOMAIN offers : offers[i] = r) ELSE offers
  /\ desk' = [desk EXCEPT ![r].status = "ERROR", ![r].inbound = 0, ![r].turn = FALSE]
  /\ UNCHANGED <<waiters, lease, inbox>>

(* As if a release did not look at the messages.                           *)
ReleaseRunQuiet(r, failed) ==
  /\ desk' = [desk EXCEPT ![r].handle = FALSE, ![r].status = "IDLE"]
  /\ KeepsChannels

(* releaseDeskRun: the worker is gone.  One that failed takes its run and  *)
(* the messages with it (failRun); else work that came meanwhile is        *)
(* offered again.                                                          *)
FailedRun(d) == [d EXCEPT !.status = "ERROR", !.inbound = 0, !.turn = FALSE]
SettledRun(d) == IF d.status = "RUNNING" THEN [d EXCEPT !.status = "IDLE", !.turn = FALSE] ELSE d
ReleaseRun(r, failed) ==
  LET d == [desk[r] EXCEPT !.handle = FALSE]
      fails == failed /\ d.status = "RUNNING"
  IN IF d.inbound > 0 /\ ~fails
     THEN DispatchToDesk(r, d)
     ELSE /\ desk' = [desk EXCEPT ![r] = IF fails THEN FailedRun(d) ELSE SettledRun(d)]
          /\ KeepsChannels

(* abortRun of a desk run: a cancel on the stream; the messages stay.      *)
AbortRun(r) ==
  /\ inbox' = Pushed(inbox, [kind |-> "cancel", run |-> r])
  /\ desk' = [desk EXCEPT ![r].status = "IDLE", ![r].turn = FALSE]
  /\ UNCHANGED <<offers, waiters, lease>>

(* requeueActiveTurn: the turn that was under way is a message once more,  *)
(* unless another one waits.                                               *)
Requeued(d) == IF d.inbound = 0 /\ d.turn THEN [d EXCEPT !.inbound = 1] ELSE d

(* expireStaleWorkers and detachOrQueue: no heartbeat of a RUNNING run for *)
(* 20 s.  Its worker may be gone, or alive and late: a turn that calls the *)
(* model for longer sends none.                                            *)
Expire(r) ==
  LET d == Requeued([desk[r] EXCEPT !.handle = FALSE])
      alive == \E i \in DOMAIN procs : procs[i].run = r /\ procs[i].st \in {"up", "turn", "served"}
  IN /\ desk[r].status = "RUNNING"
     /\ IF alive THEN /\ "late" \in DeskFaults /\ tale.cuts < MaxCuts
                      /\ tale' = [tale EXCEPT !.cuts = @ + 1]
                 ELSE tale' = tale
     /\ Offered(r)
     /\ inbox' = Pushed(inbox, [kind |-> "assignment", run |-> r])
     /\ desk' = [desk EXCEPT ![r] = IF d.inbound > 0 THEN QueueDeskRun(d)
                                                     ELSE [d EXCEPT !.status = "IDLE"]]
     /\ UNCHANGED <<hosted, startingHere, asked, starts, procs, posts>>

(* A request of the desk arrives.  A release whose reply is lost is sent   *)
(* again.                                                                  *)
PostArrives(p) ==
  /\ \/ p.kind = "reject" /\ RejectRun(p.run)
     \/ p.kind \in {"release", "crash"} /\ ReleaseRun(p.run, p.kind = "crash")
     \/ p.kind = "abort" /\ AbortRun(p.run)
  /\ \/ posts' = posts \ {p} /\ tale' = tale
     \/ /\ p.kind \in {"release", "crash"} /\ "again" \in DeskFaults /\ tale.cuts < MaxCuts
        /\ tale' = [tale EXCEPT !.cuts = @ + 1] /\ posts' = posts
  /\ UNCHANGED <<hosted, startingHere, asked, starts, procs>>

(* claimDeskRun                                                            *)
ClaimDeskRun(r) == desk' = [desk EXCEPT ![r].handle = TRUE, ![r].status = "RUNNING"]

-----------------------------------------------------------------------------
(* The lease loop and the inbox stream of the desk.                        *)

(* heartbeatLease posts; waitDeskAssignment answers at once with the head  *)
(* of the queue, or the poll waits.                                        *)
LeasePoll ==
  /\ lease = "off"
  /\ IF offers # <<>>
     THEN lease' = Head(offers) /\ offers' = Tail(offers) /\ UNCHANGED waiters
     ELSE lease' = "open" /\ waiters' = Append(waiters, "open") /\ UNCHANGED offers
  /\ UNCHANGED <<inbox, desk, hosted, startingHere, asked, starts, procs, posts, tale>>

(* The timer of a waiter: it leaves the list and the poll gets null, which *)
(* the desk does nothing with.                                             *)
WaiterTimesOut ==
  /\ waiters # <<>>
  /\ waiters' = Tail(waiters)
  /\ lease' = IF Head(waiters) = "open" THEN "off" ELSE lease
  /\ UNCHANGED <<offers, inbox, desk, hosted, startingHere, asked, starts, procs, posts, tale>>

(* The poll's connection breaks, with the answer on it or before.  The     *)
(* store does not notice: the waiter stays in its list.                    *)
LeaseBreaks ==
  /\ lease # "off" /\ tale.cuts < MaxCuts
  /\ lease' = "off"
  /\ waiters' = [i \in DOMAIN waiters |-> "dead"]
  /\ tale' = [tale EXCEPT !.cuts = @ + 1]
  /\ UNCHANGED <<offers, inbox, desk, hosted, startingHere, asked, starts, procs, posts>>

(* The stream breaks: what was on it is lost, and the store keeps the sink *)
(* until it notices (req.on("close")).                                     *)
StreamBreaks ==
  /\ inbox.live /\ tale.cuts < MaxCuts
  /\ inbox' = [live |-> FALSE, dead |-> TRUE, events |-> <<>>]
  /\ tale' = [tale EXCEPT !.cuts = @ + 1]
  /\ UNCHANGED <<offers, waiters, lease, desk, hosted, startingHere, asked, starts, procs, posts>>

Detach ==
  /\ inbox.dead
  /\ inbox' = [inbox EXCEPT !.dead = FALSE]
  /\ UNCHANGED <<offers, waiters, lease, desk, hosted, startingHere, asked, starts, procs,
                 posts, tale>>

(* openDeskInboxStream: connected again; the queue goes to the new stream. *)
StreamOpens ==
  /\ ~inbox.live
  /\ inbox' = [inbox EXCEPT !.live = TRUE,
                 !.events = [i \in DOMAIN offers |-> [kind |-> "assignment", run |-> offers[i]]]]
  /\ offers' = <<>>
  /\ UNCHANGED <<waiters, lease, desk, hosted, startingHere, asked, starts, procs, posts, tale>>

-----------------------------------------------------------------------------
(* The desk: host.ts                                                       *)

HasRoomSpawned(r, h) == Cardinality({q \in Runs \ {r} : h[q] \in Pids}) < Limit
HasRoom(r, h) == Cardinality({q \in Runs \ {r} : h[q] # Free}) < Limit  \* admitLocalRun

ToReject(r) == posts' = posts \cup {[kind |-> "reject", run |-> r]}

(* stopRun: forget the run, signal its child if it has one by now.         *)
StopHosted(h, rs) == [r \in Runs |-> IF r \in rs THEN Free ELSE h[r]]
Signalled(p) == [p EXCEPT !.st = IF @ \in {"up", "turn", "served"} THEN "leaving" ELSE @]
KilledOf(h, rs) == [i \in DOMAIN procs |->
                      IF \E r \in rs : h[r] = i THEN Signalled(procs[i]) ELSE procs[i]]

(* The first stretch of startAssignment: reserve the slot, or ask whose    *)
(* worker could be retired when the machine is full.                       *)
BeginStart(r, via) ==
  LET s == [run |-> r, via |-> via, pc |-> "prepare", seen |-> {}, pid |-> 0]
  IN /\ Cardinality(starts) < MaxStarts
     /\ IF HasRoom(r, hosted)
        THEN /\ hosted' = [hosted EXCEPT ![r] = Reserved]
             /\ starts' = starts \cup {s}
             /\ tale' = tale
        ELSE /\ starts' = starts \cup {[s EXCEPT !.pc = "reap",
                             !.seen = {q \in Hosting \ {r} : hosted[q] \in Pids}]}
             /\ tale' = [tale EXCEPT !.reaped = TRUE]
             /\ hosted' = hosted

(* handleInboxEvent for an assignment.                                     *)
HandleAnyAssignment(r, via) == BeginStart(r, via)
HandleAssignment(r, via) ==
  IF hosted[r] # Free \/ r \in startingHere
  THEN UNCHANGED <<hosted, starts, tale>>
  ELSE BeginStart(r, via)

StreamDelivers ==
  /\ inbox.events # <<>>
  /\ inbox' = [inbox EXCEPT !.events = Tail(@)]
  /\ LET e == Head(inbox.events)
     IN IF e.kind = "cancel"
        THEN /\ hosted' = StopHosted(hosted, {e.run})
             /\ procs' = KilledOf(hosted, {e.run})
             /\ tale' = [tale EXCEPT !.dropped = @ \cup {e.run}]
             /\ starts' = starts
        ELSE HandleAssignment(e.run, "stream") /\ procs' = procs
  /\ UNCHANGED <<offers, waiters, lease, desk, startingHere, asked, posts>>

LeaseAnswers ==
  /\ lease \in Runs
  /\ lease' = "off"
  /\ HandleAssignment(lease, "lease")
  /\ UNCHANGED <<offers, waiters, inbox, desk, startingHere, asked, procs, posts>>

(* desk:startRun, after createRun or after a follow-up of this window.     *)
WindowStarts(r) ==
  /\ r \in asked /\ asked' = asked \ {r}
  /\ IF hosted[r] # Free THEN UNCHANGED <<startingHere, hosted, starts, tale>>
     ELSE startingHere' = startingHere \cup {r} /\ BeginStart(r, "window")
  /\ UNCHANGED <<offers, waiters, lease, inbox, desk, procs, posts>>

(* reapFinishedWorkers: the runs of the listed workers are looked up ...   *)
Moves(s, t) == starts' = (starts \ {s}) \cup {t}
ReapLooksUp(s) ==
  /\ s.pc = "reap"
  /\ Moves(s, [s EXCEPT !.pc = "retire",
                 !.seen = {q \in @ : desk[q].status \in {"IDLE", "ERROR"}}])
  /\ UNCHANGED <<offers, waiters, lease, inbox, desk, hosted, startingHere, asked, procs,
                 posts, tale>>

LeavesWindow(s) == startingHere' = IF s.via = "window" THEN startingHere \ {s.run}
                                   ELSE startingHere

(* ... and the finished ones stopped; one more try for the slot.           *)
Retire(s) ==
  LET h == StopHosted(hosted, s.seen)
  IN /\ s.pc = "retire"
     /\ procs' = KilledOf(hosted, s.seen)
     /\ tale' = [tale EXCEPT !.dropped = @ \cup s.seen]
     /\ IF s.seen # {} /\ HasRoom(s.run, h)
        THEN /\ hosted' = [h EXCEPT ![s.run] = Reserved]
             /\ Moves(s, [s EXCEPT !.pc = "prepare", !.seen = {}])
             /\ UNCHANGED <<posts, startingHere>>
        ELSE /\ hosted' = h /\ starts' = starts \ {s}
             /\ ToReject(s.run) /\ LeavesWindow(s)
     /\ UNCHANGED <<offers, waiters, lease, inbox, desk, asked>>

(* The folder is ready: spawn the worker and claim the run.                *)
SpawnDeskWorker(s) ==
  /\ s.pc = "prepare" /\ Len(procs) < MaxProcs
  /\ procs' = Append(procs, [run |-> s.run, st |-> "up"])
  /\ hosted' = [hosted EXCEPT ![s.run] = Len(procs) + 1]
  /\ Moves(s, [s EXCEPT !.pc = "claim", !.pid = Len(procs) + 1])
  /\ UNCHANGED <<offers, waiters, lease, inbox, desk, startingHere, asked, posts, tale>>

(* The claim arrives and its answer comes back.                            *)
ClaimReturns(s) ==
  /\ s.pc = "claim"
  /\ ClaimDeskRun(s.run)
  /\ starts' = starts \ {s}
  /\ LeavesWindow(s)
  /\ UNCHANGED <<offers, waiters, lease, inbox, hosted, asked, procs, posts, tale>>

(* The catch of startAssignment: preparing failed, or the claim did,       *)
(* before it arrived or after.                                             *)
StartFails(s) ==
  /\ \/ s.pc = "prepare" /\ "prepare" \in DeskFaults /\ UNCHANGED desk
     \/ s.pc = "claim" /\ "claim" \in DeskFaults /\ (ClaimDeskRun(s.run) \/ UNCHANGED desk)
  /\ tale.cuts < MaxCuts
  /\ tale' = [tale EXCEPT !.cuts = @ + 1, !.dropped = @ \cup {s.run}]
  /\ procs' = [i \in DOMAIN procs |-> IF i = s.pid THEN Signalled(procs[i]) ELSE procs[i]]
  /\ hosted' = [hosted EXCEPT ![s.run] = Free]
  /\ starts' = starts \ {s}
  /\ ToReject(s.run) /\ LeavesWindow(s)
  /\ UNCHANGED <<offers, waiters, lease, inbox, asked>>

(* stopCurrentTurn of the window: stop the worker here, then tell the      *)
(* control plane; or a Stop from the web, which only does the latter.      *)
WindowStops(r) ==
  /\ tale.stops < MaxStops
  /\ tale' = [tale EXCEPT !.stops = @ + 1, !.dropped = @ \cup {r}]
  /\ hosted' = StopHosted(hosted, {r}) /\ procs' = KilledOf(hosted, {r})
  /\ posts' = posts \cup {[kind |-> "abort", run |-> r]}
  /\ UNCHANGED <<offers, waiters, lease, inbox, desk, startingHere, asked, starts>>

WebStops(r) ==
  /\ tale.stops < MaxStops
  /\ tale' = [tale EXCEPT !.stops = @ + 1]
  /\ AbortRun(r)
  /\ UNCHANGED <<hosted, startingHere, asked, starts, procs, posts>>

-----------------------------------------------------------------------------
(* The worker process.                                                     *)

(* One poll takes everything and is one turn; after a turn an empty poll   *)
(* ends the process.                                                       *)
WorkerPolls(i) ==
  LET r == procs[i].run
  IN /\ procs[i].st \in {"up", "served"}
     /\ IF desk[r].inbound > 0
        THEN /\ procs' = [procs EXCEPT ![i].st = "turn"]
             /\ desk' = [desk EXCEPT ![r].inbound = 0, ![r].status = "RUNNING", ![r].turn = TRUE]
        ELSE /\ procs[i].st = "served" /\ desk' = desk
             /\ procs' = [procs EXCEPT ![i].st = "leaving"]
     /\ UNCHANGED <<offers, waiters, lease, inbox, hosted, startingHere, asked, starts, posts, tale>>

TurnEnds(i) ==
  /\ procs[i].st = "turn"
  /\ procs' = [procs EXCEPT ![i].st = "served"]
  /\ desk' = [desk EXCEPT ![procs[i].run] = SettledRun(@)]
  /\ UNCHANGED <<offers, waiters, lease, inbox, hosted, startingHere, asked, starts, posts, tale>>

(* The exit handler of watchLocalWorker forgets the run and not this       *)
(* child, and tells the control plane.                                     *)
ChildGone(i, kind) ==
  /\ procs' = [procs EXCEPT ![i].st = "gone"]
  /\ hosted' = [hosted EXCEPT ![procs[i].run] = Free]
  /\ posts' = posts \cup {[kind |-> kind, run |-> procs[i].run]}
  /\ UNCHANGED <<offers, waiters, lease, inbox, desk, startingHere, asked, starts>>

WorkerExits(i) ==
  /\ procs[i].st = "leaving" /\ ChildGone(i, "release") /\ UNCHANGED tale

(* An exit code that is not 0, at any moment.                              *)
WorkerCrashes(i) ==
  /\ "crash" \in DeskFaults /\ procs[i].st # "gone" /\ tale.cuts < MaxCuts
  /\ tale' = [tale EXCEPT !.cuts = @ + 1] /\ ChildGone(i, "crash")

-----------------------------------------------------------------------------
HostStep(s) == \/ ReapLooksUp(s) \/ Retire(s) \/ SpawnDeskWorker(s) \/ ClaimReturns(s)
Delivery == StreamDelivers \/ LeaseAnswers \/ LeasePoll \/ StreamOpens
ProcStep(i) == WorkerPolls(i) \/ TurnEnds(i) \/ WorkerExits(i)
DeskNext ==
  \/ Delivery \/ WaiterTimesOut \/ LeaseBreaks \/ StreamBreaks \/ Detach
  \/ \E r \in Runs : Expire(r) \/ DeskFollowUp(r) \/ WindowStarts(r) \/ WindowStops(r) \/ WebStops(r)
  \/ \E p \in posts : PostArrives(p)
  \/ \E s \in starts : HostStep(s) \/ StartFails(s)
  \/ \E i \in DOMAIN procs : ProcStep(i) \/ WorkerCrashes(i)

DeskSpec == DeskInit /\ [][DeskNext]_deskVars

-----------------------------------------------------------------------------
HostedWorkers(r) ==
  {i \in DOMAIN procs : procs[i].run = r /\ procs[i].st \in {"up", "turn", "served"}}

(* A run has one worker on this computer, whichever way and however often  *)
(* it was offered (on the stream, on a lease poll, from the window), as    *)
(* long as its entry was not taken away under a start and no start had to  *)
(* wait for a reap.                                                        *)
HostOneWorker ==
  \A r \in Runs : \/ r \in tale.dropped \/ tale.reaped
                 \/ Cardinality(HostedWorkers(r)) <= 1

(* The machine's limit counts a run before its worker exists, also while   *)
(* others wait for a reap; as long as no entry was taken away.             *)
HostLimit == tale.dropped # {} \/ Cardinality(Hosting) <= Limit

(* A message sent to a run of this desk is read by a worker, or the run    *)
(* fails: although a connection breaks with an offer on it, a release      *)
(* arrives twice, the worker crashes in the middle of a turn, or a living  *)
(* one is late and its message is replayed (expireStaleWorkers).           *)
DeskServed == \A r \in Runs : desk[r].inbound > 0 ~> desk[r].inbound = 0

(* The same two without the provisos, which the code does not keep.        *)
HostLimitAlways == Cardinality(Hosting) <= Limit
(* A worker is started only when a message waits for it.                   *)
StartHasWork == \A i \in DOMAIN procs : procs[i].st = "up" => desk[procs[i].run].inbound > 0
=============================================================================
