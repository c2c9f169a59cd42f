---------------------------- MODULE RunLifecycle ----------------------------
(***************************************************************************)
(* The life of cloud runs in orchestrator/orchestrator.ts: creation, setup,*)
(* the queue for a slot, the inbox the worker polls, follow-ups, Stop,     *)
(* archive, idle release, worker exits, stale heartbeats and the recovery  *)
(* after a restart of the control plane.  Runs use the pi kernel and       *)
(* WORKER_RUNTIME=vm; worker/src/index.ts is the other process.            *)
(*                                                                         *)
(* The control plane is one JavaScript thread: an action is the code       *)
(* between two awaits, and a call that waits is a record in `calls`.       *)
(* tryStartQueued runs to its first await in the turn of whoever called    *)
(* it, so its steps go before everything else (Busy).                      *)
(*                                                                         *)
(* Slots are counted here and bound by run id; module VmSlots has their    *)
(* mounts, copies and trees.  The text of a message is its number.         *)
(***************************************************************************)
EXTENDS Integers, Sequences, FiniteSets

CONSTANTS
  RunCount,     \* runs are 1..RunCount, in the order of their createdAt
  SlotCount,    \* VM_SLOT_COUNT
  MaxMsgs,      \* bound: the first prompt of a run and its follow-ups
  MaxSpawn,     \* bound: provision calls per run
  MaxCalls,     \* bound: calls of one run that wait at the same time
  MaxRestarts,  \* bound: restarts of the control plane
  Timing,       \* when users send follow-ups: "patient", "quiet", "attached" or "any"
  Features,     \* which of the feature names below are used
  Faults        \* which of the fault names below may happen

ASSUME SizesAssumption ==
  /\ RunCount \in Nat \ {0} /\ SlotCount \in 1..4
  /\ MaxMsgs \in Nat \ {0} /\ MaxSpawn \in Nat \ {0}
  /\ MaxCalls \in Nat \ {0} /\ MaxRestarts \in Nat
ASSUME EnvironmentAssumption ==
  /\ Timing \in {"patient", "quiet", "attached", "any"}
  /\ Features \subseteq {"idle", "stop", "archive", "repos", "slow", "tardy"}
  /\ Faults \subseteq {"setup", "clone", "provision", "mount", "persist",
                       "boot", "crash"}

Runs == 1..RunCount
Msgs == 1..MaxMsgs
Shutdown == -1           \* the inbox item {type: "shutdown"}
Items == (Nat \ {0}) \cup {Shutdown}

VARIABLES
  run,         \* run[r]: the run's record and the orchestrator's maps for it
  calls,       \* calls of the control plane that wait at an await
  starter,     \* tryStartQueued: the mutex startingQueued and its snapshot
  held,        \* the runs a slot is bound to
  releasing,   \* releasingIdle
  procs,       \* the worker processes that are alive
  exits,       \* dead processes whose exit hook has not reported yet
  booting,     \* recoverLiveWorkers has not reached its tryStartQueued
  restarts     \* restarts so far

vars == <<run, calls, starter, held, releasing, procs, exits, booting, restarts>>

Status == {"none", "NOT_YET_STARTED", "PROVISIONING", "INSTALLING", "RUNNING",
           "IDLE", "ERROR", "SETUP_ERROR", "ARCHIVED"}
\* SETUP_ERROR: ERROR whose message isSetupFailureMessage recognises.
\* setup: the run is in `preparing`.  beat: heartbeats has a recent entry although
\* handles has none (while handles has one, nobody looks at it).  lease: the worker
\* of the lease file, which outlives the handle when the control plane dies.
\* answered, dropped: history; messages answered, and given up by Stop, archive,
\* failRun or an exit hook that reports the run's ERROR.  doubted: history;
\* messages a recovery put back although a worker that survived had them.  crowded:
\* history; messages one poll took at a time, or took over a remembered turn.
\* split: history; the queue, or a setup, passed over an orphan of the run.
Record ==
  [status : Status, setup : {"none", "preparing"}, inbound : Seq(Items),
   active : Nat, handle : 0..MaxSpawn, lease : 0..MaxSpawn,
   beat : {"none", "fresh"}, sent : Nat, tickets : 0..MaxSpawn,
   answered : SUBSET Nat, dropped : SUBSET Nat, doubted : SUBSET Nat,
   crowded : SUBSET Nat, split : BOOLEAN]
Call ==
  [op : {"setup", "install", "post", "bind", "clone", "rebind", "reclone",
         "attachCreate", "attachQueued", "attachResume",
         "persistIdle", "persistArchive",
         "stopFail", "stopAbort", "stopIdle", "stopArchive"},
   run : Runs, no : 0..MaxSpawn, id : 1..MaxCalls]
\* orphan: it outlived the control plane and recoverLiveWorkers left it alone.
Process ==
  [run : Runs, no : 1..MaxSpawn, st : {"booting", "running", "dying"},
   origin : {"spawned", "adopted", "orphan"}, batch : Seq(Items),
   cur : Nat]

TypeOK ==
  /\ run \in [Runs -> Record]
  /\ calls \subseteq Call
  /\ starter \in [pc : {"off", "snapshot", "loop", "wait"}, todo : SUBSET Runs]
  /\ held \subseteq Runs
  /\ releasing \subseteq Runs
  /\ procs \subseteq Process
  /\ exits \subseteq [run : Runs, no : 1..MaxSpawn, code : {"zero", "other"}]
  /\ booting \in BOOLEAN
  /\ restarts \in 0..MaxRestarts

Off == [pc |-> "off", todo |-> {}]

Init ==
  /\ run = [r \in Runs |->
       [status |-> "none", setup |-> "none", inbound |-> <<>>, active |-> 0,
        handle |-> 0, lease |-> 0, beat |-> "none", sent |-> 0, tickets |-> 0,
        answered |-> {}, dropped |-> {}, doubted |-> {}, crowded |-> {}, split |-> FALSE]]
  /\ calls = {} /\ starter = Off /\ held = {} /\ releasing = {}
  /\ procs = {} /\ exits = {} /\ booting = FALSE /\ restarts = 0

-----------------------------------------------------------------------------
(* What the helpers of the orchestrator do to a run's record.              *)

LiveStatus == {"NOT_YET_STARTED", "PROVISIONING", "INSTALLING", "RUNNING"}

\* Slips that a run must catch: each stands for the definition it precedes.
AttachedByHeartbeat(x) == x.beat = "fresh"
IsWorkerAttached(x) == x.handle # 0 \/ x.beat = "fresh"
SetupInFlight(x) ==
  x.status \in {"PROVISIONING", "INSTALLING"} /\ x.handle = 0 /\ x.setup = "preparing"
HasUserItem(x) == \E i \in DOMAIN x.inbound : x.inbound[i] # Shutdown

WaitingStarted(x) == x.handle = 0 /\ x.status \in {"IDLE", "ERROR"} /\ HasUserItem(x)
\* isWaitingForCloudVm
Waiting(x) ==
  /\ x.handle = 0
  /\ ~SetupInFlight(x)
  /\ \/ x.status = "NOT_YET_STARTED"
     \/ x.status \in {"IDLE", "ERROR"} /\ HasUserItem(x)

Pushed(x, m) == [x EXCEPT !.inbound = Append(@, m)]
\* noteWorkerHeartbeat
Noted(x) == [x EXCEPT !.beat = IF x.handle = 0 THEN "fresh" ELSE @]
\* handles.delete, deleteWorkerLease and heartbeats.delete go together.
Detached(x) == [x EXCEPT !.handle = 0, !.lease = 0, !.beat = "none"]
Queued(x) == [Detached(x) EXCEPT !.status = "NOT_YET_STARTED"]
Settled(x) == [Detached(x) EXCEPT !.status = "IDLE"]
GivenUp(x) == [x EXCEPT !.dropped = @ \cup ((1..x.sent) \ x.answered)]
FailedInSetup(x, error) ==
  [GivenUp(Detached(x)) EXCEPT !.status = error, !.inbound = <<>>, !.active = 0]
Failed(x, error) ==
  [GivenUp(Detached(x)) EXCEPT !.status = error, !.setup = "none",
                               !.inbound = <<>>, !.active = 0]
RequeuedAgain(x) == IF x.active # 0 THEN Pushed(x, x.active) ELSE x
\* requeueActiveTurn
Requeued(x) ==
  IF x.active # 0 /\ ~HasUserItem(x) THEN Pushed(x, x.active) ELSE x
DetachOrQueue(x) ==
  IF SetupInFlight(x) THEN x
  ELSE IF HasUserItem(Requeued(x)) THEN Queued(Requeued(x))
                                   ELSE Settled(Requeued(x))

-----------------------------------------------------------------------------
(* Calls that wait, slots and signals.                                     *)

\* tryStartQueued is in the middle of a turn, or a call goes on at once because
\* what it awaited was there (ensureBoundWorkspace for a run without repos, an
\* account in the file store): nothing else can run.
Starting == starter.pc \in {"snapshot", "loop"}
Microtask(c) ==
  \/ c.op \in {"bind", "rebind"} /\ "repos" \notin Features
  \/ c.op = "post" /\ "slow" \notin Features
Busy == Starting \/ \E c \in calls : Microtask(c)

WakeAlways == starter' = [pc |-> "snapshot", todo |-> {}]
\* tryStartQueued: a no-op while startingQueued is set.
Wake == starter' = IF starter.pc = "off"
                     THEN [pc |-> "snapshot", todo |-> {}] ELSE starter

CallsOf(r) == {c \in calls : c.run = r}
HasRoom(r) == Cardinality(CallsOf(r)) < MaxCalls
NewCall(op, r, no) ==
  LET Named(i) == [op |-> op, run |-> r, no |-> no, id |-> i]
      Free(i) == Named(i) \notin calls
  IN Named(CHOOSE i \in 1..MaxCalls : (\E j \in 1..MaxCalls : Free(j)) => Free(i))

\* claimVmSlot: the slot the run already has, or an idle one.
SlotFor(r) == r \in held \/ Cardinality(held) < SlotCount
CanSpawn(r) == run[r].tickets < MaxSpawn

\* stopWorker: SIGTERM to the process of the handle.
Signalled(r, no) ==
  {IF p.run = r /\ p.no = no THEN [p EXCEPT !.st = "dying"] ELSE p : p \in procs}

\* failRun for the run of call c (which ends): a known worker is stopped.
FailRun(c, error) ==
  LET r == c.run
      x == run[r]
  IN /\ run' = [run EXCEPT ![r] = Failed(x, error)]
     /\ calls' = (calls \ {c}) \cup
          (IF x.handle # 0 THEN {NewCall("stopFail", r, x.handle)} ELSE {})
     /\ procs' = IF x.handle # 0 THEN Signalled(r, x.handle) ELSE procs

\* History: the queue or a setup starts a worker for r beside an orphan of it.
PassedOver(r, x) ==
  [x EXCEPT !.split = @ \/ \E p \in procs : p.run = r /\ p.origin = "orphan"]

\* attachWorker up to the await of provision, by the caller whose call c ends.
BeginAttach(c, op, x) ==
  LET r == c.run
      n == run[r].tickets + 1
  IN /\ held' = held \cup {r}
     /\ run' = [run EXCEPT ![r] = [PassedOver(r, x) EXCEPT !.tickets = n]]
     /\ calls' = (calls \ {c}) \cup {[op |-> op, run |-> r, no |-> n, id |-> 1]}

-----------------------------------------------------------------------------
(* createRun, and the queue for a slot.                                    *)

\* createRun up to its first await: the prompt is in the inbox already.
Create(r) ==
  /\ run[r].status = "none"
  /\ \A q \in 1..(r - 1) : run[q].status # "none"
  /\ run' = [run EXCEPT ![r] = [@ EXCEPT !.status = "PROVISIONING",
               !.setup = "preparing", !.inbound = <<1>>, !.sent = 1]]
  /\ calls' = calls \cup {NewCall("setup", r, 0)}
  /\ UNCHANGED <<starter, held, releasing, procs, exits, booting, restarts>>

\* The clone is done and there is something to install.
SetupInstall(c) ==
  /\ c.op = "setup"
  /\ run' = [run EXCEPT ![c.run].status = "INSTALLING"]
  /\ calls' = (calls \ {c}) \cup {[c EXCEPT !.op = "install"]}
  /\ UNCHANGED <<starter, held, releasing, procs, exits, booting, restarts>>

\* The message of the error says whether it counts as a setup failure.
SetupFails(c) ==
  /\ "setup" \in Faults
  /\ c.op \in {"setup", "install"}
  /\ \E error \in {"SETUP_ERROR", "ERROR"} : FailRun(c, error)
  /\ UNCHANGED <<starter, held, releasing, exits, booting, restarts>>

\* The workspace is ready: attachWorker, or queueRun when every slot is busy.
SetupDone(c) ==
  /\ c.op \in {"setup", "install"}
  /\ \/ /\ SlotFor(c.run) /\ CanSpawn(c.run)
        /\ BeginAttach(c, "attachCreate", run[c.run])
     \/ /\ ~SlotFor(c.run)
        /\ run' = [run EXCEPT ![c.run] = [Queued(@) EXCEPT !.setup = "none"]]
        /\ calls' = calls \ {c}
        /\ UNCHANGED held
  /\ UNCHANGED <<starter, releasing, procs, exits, booting, restarts>>

\* tryStartQueued takes its snapshot of the runs that wait (those at the bound
\* MaxSpawn are left out).
Snapshot ==
  /\ starter.pc = "snapshot"
  /\ LET todo == {r \in Runs : Waiting(run[r]) /\ CanSpawn(r)} IN
       /\ starter' = IF todo = {} THEN Off ELSE [pc |-> "loop", todo |-> todo]
       /\ run' = [r \in Runs |-> IF r \in todo THEN PassedOver(r, run[r]) ELSE run[r]]
  /\ UNCHANGED <<calls, held, releasing, procs, exits, booting, restarts>>

\* The next run of the snapshot, oldest first, whatever became of it since.
StartNext ==
  /\ starter.pc = "loop" /\ starter.todo # {}
  /\ LET r == CHOOSE q \in starter.todo : \A t \in starter.todo : q <= t
         x == [run[r] EXCEPT !.status = "PROVISIONING"]
         none == [op |-> "none", run |-> r]
     IN \/ /\ ~CanSpawn(r)
           /\ starter' = [starter EXCEPT !.todo = @ \ {r}]
           /\ UNCHANGED <<run, calls, held>>
        \/ /\ CanSpawn(r) /\ SlotFor(r)
           /\ BeginAttach(none, "attachQueued", x)
           /\ starter' = [pc |-> "wait", todo |-> starter.todo \ {r}]
        \/ /\ CanSpawn(r) /\ ~SlotFor(r)
           /\ run' = [run EXCEPT ![r] = Queued(x)]
           /\ starter' = Off
           /\ UNCHANGED <<calls, held>>
  /\ UNCHANGED <<releasing, procs, exits, booting, restarts>>

LoopKeepsFlag ==
  /\ starter.pc = "loop" /\ starter.todo = {}
  /\ starter' = [starter EXCEPT !.pc = "wait"]
  /\ UNCHANGED <<run, calls, held, releasing, procs, exits, booting, restarts>>
LoopEnds ==
  /\ starter.pc = "loop" /\ starter.todo = {}
  /\ starter' = Off
  /\ UNCHANGED <<run, calls, held, releasing, procs, exits, booting, restarts>>

\* The caller of attachWorker goes on: createRun's finally block, or the loop.
AfterAttach(c) ==
  starter' = IF c.op = "attachQueued" THEN [starter EXCEPT !.pc = "loop"]
                                      ELSE starter
IsAttach(c) == c.op \in {"attachCreate", "attachQueued", "attachResume"}

\* provision resolves: whatever the status is by now, the run is RUNNING.
AttachDone(c) ==
  LET x == run[c.run] IN
  /\ IsAttach(c)
  /\ procs' = procs \cup {[run |-> c.run, no |-> c.no, st |-> "booting",
                          origin |-> "spawned", batch |-> <<>>, cur |-> 0]}
  /\ run' = [run EXCEPT ![c.run] = [x EXCEPT !.status = "RUNNING",
               !.handle = c.no, !.lease = c.no, !.beat = "none",
               !.setup = IF c.op = "attachCreate" THEN "none" ELSE x.setup]]
  /\ calls' = calls \ {c}
  /\ AfterAttach(c)
  /\ UNCHANGED <<held, releasing, exits, booting, restarts>>

\* provision throws: its catch released the slot, or the mount failed and the
\* slot keeps its mark.  createRun, the loop and resumeRun all call failRun.
AttachFails(c) ==
  /\ IsAttach(c)
  /\ \/ "provision" \in Faults /\ held' = held \ {c.run}
     \/ "mount" \in Faults /\ UNCHANGED held
  /\ FailRun(c, "ERROR")
  /\ AfterAttach(c)
  /\ UNCHANGED <<releasing, exits, booting, restarts>>

-----------------------------------------------------------------------------
(* Follow-ups: enqueueFollowUp, resumeRun, ensureBoundWorkspace.           *)

\* When users send.  "quiet": the run is not working and nothing is going on.
\* "patient": moreover the last message is answered, or the user was told that it
\* will not be.  "attached": also while a worker is attached.  "any": at any time.
Settling(r) == CallsOf(r) # {} \/ \E e \in exits : e.run = r
UserSends(r) ==
  \/ Timing = "any"
  \/ Timing = "attached" /\ run[r].handle # 0
  \/ /\ run[r].status \in {"IDLE", "ERROR", "SETUP_ERROR"}
     /\ ~HasUserItem(run[r]) /\ ~Settling(r)
     /\ Timing = "patient" =>
          run[r].active \in {0} \cup run[r].answered \cup run[r].dropped

\* enqueueFollowUp up to the look-up of the sender's account.
FollowUp(r) ==
  /\ run[r].status \notin {"none", "ARCHIVED"}
  /\ UserSends(r)
  /\ HasRoom(r)
  /\ run[r].sent + Cardinality({c \in CallsOf(r) : c.op = "post"}) < MaxMsgs
  /\ calls' = calls \cup {NewCall("post", r, 0)}
  /\ UNCHANGED <<run, starter, held, releasing, procs, exits, booting, restarts>>

\* resumeRun up to its first await, called for a run whose record is now x.
Resumes(x) == ~IsWorkerAttached(x) /\ x.status # "ARCHIVED"

\* The message goes into the inbox; without a worker resumeRun is called.  After
\* a failed setup ensureBoundWorkspace runs once more before that.
Post(c) ==
  /\ c.op = "post"
  /\ LET x == run[c.run]
         y == [Pushed(x, x.sent + 1) EXCEPT !.sent = @ + 1]
         first == IF y.status = "SETUP_ERROR" THEN "rebind" ELSE "bind"
     IN /\ run' = [run EXCEPT ![c.run] = y]
        /\ calls' = (calls \ {c}) \cup
             (IF Resumes(y) THEN {NewCall(first, c.run, 0)} ELSE {})
  /\ UNCHANGED <<starter, held, releasing, procs, exits, booting, restarts>>

\* The bound repos are not in the workspace (any more): they are cloned first.
Rematerialize(c) ==
  LET x == run[c.run] IN
  /\ "repos" \in Features
  /\ c.op \in {"bind", "rebind"}
  /\ run' = [run EXCEPT ![c.run] = [x EXCEPT !.setup = "preparing",
       !.status = IF x.status \in {"IDLE", "ERROR", "SETUP_ERROR"}
                    THEN "PROVISIONING" ELSE x.status]]
  /\ calls' = (calls \ {c}) \cup
       {NewCall(IF c.op = "bind" THEN "clone" ELSE "reclone", c.run, 0)}
  /\ UNCHANGED <<starter, held, releasing, procs, exits, booting, restarts>>

CloneFails(c) ==
  /\ "clone" \in Faults
  /\ c.op \in {"clone", "reclone"}
  /\ FailRun(c, "SETUP_ERROR")
  /\ UNCHANGED <<starter, held, releasing, exits, booting, restarts>>

\* enqueueFollowUp after its own ensureBoundWorkspace: on to resumeRun.
Rebound(c) ==
  /\ c.op \in {"rebind", "reclone"}
  /\ LET x == IF c.op = "rebind" THEN run[c.run]
              ELSE [run[c.run] EXCEPT !.setup = "none"]
     IN /\ run' = [run EXCEPT ![c.run] = x]
        /\ calls' = (calls \ {c}) \cup
             (IF Resumes(x) THEN {NewCall("bind", c.run, 0)} ELSE {})
  /\ UNCHANGED <<starter, held, releasing, procs, exits, booting, restarts>>

\* resumeRun after ensureBoundWorkspace.  With no idle slot the run goes back to
\* IDLE, its message still in the inbox.
BindDone(c) ==
  /\ c.op \in {"bind", "clone"}
  /\ LET x == [run[c.run] EXCEPT !.status = "PROVISIONING",
                 !.setup = IF c.op = "clone" THEN "none" ELSE @]
     IN \/ /\ SlotFor(c.run) /\ CanSpawn(c.run)
           /\ BeginAttach(c, "attachResume", x)
        \/ /\ ~SlotFor(c.run)
           /\ run' = [run EXCEPT ![c.run] = [x EXCEPT !.status = "IDLE"]]
           /\ calls' = calls \ {c}
           /\ UNCHANGED held
  /\ UNCHANGED <<starter, releasing, procs, exits, booting, restarts>>

-----------------------------------------------------------------------------
(* Stop, archive and idle release, and what they do after stopWorker.      *)

\* abortRun.  With a worker the handle is dropped when stopWorker has resolved.
Abort(r) ==
  LET x == run[r]
      y == [GivenUp(x) EXCEPT !.active = 0, !.inbound = <<>>, !.status = "IDLE"]
  IN /\ "stop" \in Features
     /\ x.status \notin {"none", "ARCHIVED"}
     /\ HasRoom(r)
     /\ run' = [run EXCEPT ![r] = y]
     /\ \/ /\ x.handle # 0
           /\ calls' = calls \cup {NewCall("stopAbort", r, x.handle)}
           /\ procs' = Signalled(r, x.handle)
        \/ /\ x.handle = 0
           /\ UNCHANGED <<calls, procs>>
     /\ UNCHANGED <<starter, held, releasing, exits, booting, restarts>>

\* archiveRun up to the write-back.  Bound: a run that is ARCHIVED is not archived
\* again (the code would only push one more shutdown).
Archive(r) ==
  /\ "archive" \in Features
  /\ run[r].status \notin {"none", "ARCHIVED"}
  /\ HasRoom(r)
  /\ run' = [run EXCEPT ![r] =
               [GivenUp(Pushed(@, Shutdown)) EXCEPT !.status = "ARCHIVED"]]
  /\ calls' = calls \cup {NewCall("persistArchive", r, 0)}
  /\ UNCHANGED <<starter, held, releasing, procs, exits, booting, restarts>>

\* The write-back ended, well or not: stop the worker there is now.
ArchivePersisted(c) ==
  LET x == run[c.run] IN
  /\ c.op = "persistArchive"
  /\ \/ /\ x.handle # 0
        /\ calls' = (calls \ {c}) \cup {NewCall("stopArchive", c.run, x.handle)}
        /\ procs' = Signalled(c.run, x.handle)
        /\ UNCHANGED <<run, starter>>
     \/ /\ x.handle = 0
        /\ calls' = calls \ {c}
        /\ run' = [run EXCEPT ![c.run] = Detached(@)]
        /\ Wake
        /\ UNCHANGED procs
  /\ UNCHANGED <<held, releasing, exits, booting, restarts>>

\* releaseIdleWorker up to the write-back, called by the lease watch for a run
\* that idled for long, or because another one waits for a slot.  "slow": the
\* write-back may outlast the tick of the watch, which calls it again.
IdleRelease(r) ==
  /\ "idle" \in Features
  /\ run[r].status = "IDLE" /\ run[r].handle # 0
  /\ ~HasUserItem(run[r])
  /\ HasRoom(r)
  /\ "slow" \in Features \/ r \notin releasing
  /\ releasing' = releasing \cup {r}
  /\ calls' = calls \cup {NewCall("persistIdle", r, 0)}
  /\ UNCHANGED <<run, starter, held, procs, exits, booting, restarts>>

\* The write-back failed, or found no slot: the worker stays.
IdleKeeps(c) ==
  /\ c.op = "persistIdle"
  /\ "persist" \in Faults \/ c.run \notin held
  /\ calls' = calls \ {c}
  /\ releasing' = releasing \ {c.run}
  /\ UNCHANGED <<run, starter, held, procs, exits, booting, restarts>>

\* The end of releaseIdleWorker: a message that came meanwhile is resumed.
IdleReleased(c, x) ==
  /\ run' = [run EXCEPT ![c.run] = Detached(x)]
  /\ releasing' = releasing \ {c.run}
  /\ IF HasUserItem(x)
       THEN /\ calls' = (calls \ {c}) \cup
                 (IF Resumes(Detached(x)) THEN {NewCall("bind", c.run, 0)} ELSE {})
            /\ UNCHANGED starter
       ELSE /\ calls' = calls \ {c}
            /\ Wake

\* The write-back succeeded.  Neither the status nor the inbox is looked at again
\* before the worker there is now is stopped.
IdlePersisted(c) ==
  LET x == Pushed(run[c.run], Shutdown) IN
  /\ c.op = "persistIdle"
  /\ c.run \in held
  /\ \/ /\ x.handle # 0
        /\ run' = [run EXCEPT ![c.run] = x]
        /\ calls' = (calls \ {c}) \cup {NewCall("stopIdle", c.run, x.handle)}
        /\ procs' = Signalled(c.run, x.handle)
        /\ UNCHANGED <<starter, releasing>>
     \/ /\ x.handle = 0
        /\ IdleReleased(c, x)
        /\ UNCHANGED procs
  /\ UNCHANGED <<held, exits, booting, restarts>>

\* stopWorker resolves: the process is dead, and the run's slot was released
\* (persistAndRelease finds it by run id).  Then the caller goes on.  The exit
\* hook does the same write-back, began it first, and ends first unless "slow".
StopDone(c) ==
  /\ c.op \in {"stopFail", "stopAbort", "stopArchive", "stopIdle"}
  /\ \A p \in procs : p.run = c.run => p.no # c.no
  /\ "slow" \in Features \/ \A e \in exits : e.run = c.run => e.no # c.no
  /\ held' = held \ {c.run}
  /\ \/ /\ c.op = "stopFail"
        /\ calls' = calls \ {c}
        /\ Wake
        /\ UNCHANGED <<run, releasing>>
     \/ /\ c.op \in {"stopAbort", "stopArchive"}
        /\ calls' = calls \ {c}
        /\ run' = [run EXCEPT ![c.run] = Detached(@)]
        /\ Wake
        /\ UNCHANGED releasing
     \/ /\ c.op = "stopIdle"
        /\ IdleReleased(c, run[c.run])
  /\ UNCHANGED <<procs, exits, booting, restarts>>

-----------------------------------------------------------------------------
(* The worker process, and the events it posts (ingestEvents).             *)

Running(p) == p.st # "dying"
Becomes(p, q) == procs' = (procs \ {p}) \cup {q}

PullForgets(p) ==
  /\ Running(p) /\ p.batch = <<>> /\ p.cur = 0
  /\ run[p.run].inbound # <<>> \/ p.st = "booting"
  /\ run' = [run EXCEPT ![p.run].inbound = <<>>]
  /\ Becomes(p, [p EXCEPT !.batch = run[p.run].inbound, !.st = "running"])
  /\ UNCHANGED <<calls, starter, held, releasing, exits, booting, restarts>>
\* pullInbox / takeInbound: everything in the inbox, and the last message of it
\* becomes the active turn.
Pull(p) ==
  LET x == run[p.run]
      items == {i \in DOMAIN x.inbound : x.inbound[i] # Shutdown}
      last == IF items = {} THEN x.active
              ELSE x.inbound[CHOOSE i \in items : \A j \in items : j <= i]
      taken == ({x.inbound[i] : i \in items} \cup {x.active}) \ {0}
      crowd == IF taken \subseteq {last} THEN {} ELSE taken
      y == [Noted(x) EXCEPT !.inbound = <<>>, !.active = last,
                            !.crowded = @ \cup crowd]
  IN /\ Running(p) /\ p.batch = <<>> /\ p.cur = 0
     /\ y # x \/ p.st = "booting"
     /\ run' = [run EXCEPT ![p.run] = y]
     /\ Becomes(p, [p EXCEPT !.batch = x.inbound, !.st = "running"])
     /\ UNCHANGED <<calls, starter, held, releasing, exits, booting, restarts>>

\* The next message of the batch: agent.start.
StartTurn(p) ==
  /\ p.cur = 0 /\ p.batch # <<>> /\ Head(p.batch) # Shutdown
  /\ Becomes(p, [p EXCEPT !.cur = Head(p.batch), !.batch = Tail(@)])
  /\ run' = [run EXCEPT ![p.run] = [Noted(@) EXCEPT !.status = "RUNNING"]]
  /\ UNCHANGED <<calls, starter, held, releasing, exits, booting, restarts>>

\* agent.end: only a RUNNING run goes IDLE and forgets the active turn.
EndTurn(p) ==
  LET x == Noted(run[p.run])
      y == IF x.status = "RUNNING"
             THEN [x EXCEPT !.status = "IDLE", !.active = 0] ELSE x
  IN /\ p.cur # 0
     /\ run' = [run EXCEPT ![p.run] = [y EXCEPT !.answered = x.answered \cup {p.cur}]]
     /\ Becomes(p, [p EXCEPT !.cur = 0])
     /\ UNCHANGED <<calls, starter, held, releasing, exits, booting, restarts>>

\* The process is gone.  For an adopted one that is being stopped nobody polls any
\* more, and for an orphan nobody ever did, so no exit hook follows.
Unwatched(p) == p.origin = "orphan" \/ (p.origin = "adopted" /\ p.st = "dying")
Dies(p, code) ==
  /\ procs' = procs \ {p}
  /\ exits' = IF Unwatched(p) THEN exits
              ELSE exits \cup {[run |-> p.run, no |-> p.no,
                     code |-> IF p.origin = "adopted" THEN "other" ELSE code]}

\* A shutdown item: the worker leaves its loop, whatever is left in the batch.
ShutDown(p) ==
  /\ p.cur = 0 /\ p.batch # <<>> /\ Head(p.batch) = Shutdown
  /\ Dies(p, "zero")
  /\ UNCHANGED <<run, calls, starter, held, releasing, booting, restarts>>

\* After SIGTERM, or SIGKILL 3 s later.
Terminated(p) ==
  /\ p.st = "dying"
  /\ \E code \in {"zero", "other"} : Dies(p, code)
  /\ UNCHANGED <<run, calls, starter, held, releasing, booting, restarts>>

Crash(p) ==
  /\ "crash" \in Faults
  /\ Running(p)
  /\ Dies(p, "other")
  /\ UNCHANGED <<run, calls, starter, held, releasing, booting, restarts>>

\* run.start_failed with fatal = true, before the first poll.
BootFails(p) ==
  /\ "boot" \in Faults
  /\ p.st = "booting" /\ HasRoom(p.run)
  /\ FailRun([op |-> "none", run |-> p.run], "ERROR")
  /\ UNCHANGED <<starter, held, releasing, exits, booting, restarts>>

ExitHookKeepsHandle(e) ==
  /\ exits' = exits \ {e}
  /\ held' = held \ {e.run}
  /\ Wake
  /\ UNCHANGED <<run, calls, releasing, procs, booting, restarts>>
\* The exit hook, after its persistAndRelease: bindWorkerExit, which does not
\* ask which process of the run it was.
ExitHook(e) ==
  LET x == run[e.run]
      y == Detached(x)
  IN /\ exits' = exits \ {e}
     /\ held' = held \ {e.run}
     /\ \/ /\ x.status = "ARCHIVED"
           /\ UNCHANGED <<run, starter>>
        \/ /\ x.status # "ARCHIVED"
           /\ run' = [run EXCEPT ![e.run] =
                 IF /\ e.run \notin releasing
                    /\ e.code # "zero" /\ x.status = "RUNNING"
                   THEN [y EXCEPT !.status = "ERROR",
                                  !.dropped = x.dropped \cup ({x.active} \ {0})]
                   ELSE y]
           /\ Wake
     /\ UNCHANGED <<calls, releasing, procs, booting, restarts>>

-----------------------------------------------------------------------------
(* The clock, and restarts of the control plane.                           *)

\* A heartbeat timeout passes without a sign of life of r.  "tardy": setup of a
\* worker, or one of its steps, may take longer than that.
Silent(r) ==
  /\ run[r].handle = 0
  /\ \/ "tardy" \in Features
     \/ CallsOf(r) = {} /\ \A p \in procs : p.run # r

\* The heartbeat is too old to count as an attached worker.
HeartbeatAges(r) ==
  /\ run[r].beat = "fresh" /\ Silent(r)
  /\ run' = [run EXCEPT ![r].beat = "none"]
  /\ UNCHANGED <<calls, starter, held, releasing, procs, exits, booting, restarts>>

\* expireStaleWorkers, for one run.
Expire(r) ==
  LET x == run[r] IN
  /\ x.status \in LiveStatus \ {"NOT_YET_STARTED"}
  /\ Silent(r) /\ x.beat = "none"
  /\ ~SetupInFlight(x)
  /\ run' = [run EXCEPT ![r] = DetachOrQueue(x)]
  /\ Wake
  /\ UNCHANGED <<calls, held, releasing, procs, exits, booting, restarts>>

\* reconcileDetachedVmSlots: slots of runs that are not live come back.
SlotOwnerIsLive(x) ==
  \/ x.status \in LiveStatus \ {"NOT_YET_STARTED"}
  \/ x.status = "IDLE" /\ x.handle # 0
Reconcile(r) ==
  /\ r \in held /\ ~SlotOwnerIsLive(run[r])
  /\ held' = held \ {r}
  /\ UNCHANGED <<run, calls, starter, releasing, procs, exits, booting, restarts>>

\* What is left of a run's record when the maps of the process are gone.
Reloaded(x) == [x EXCEPT !.setup = "none", !.handle = 0, !.beat = "none"]
RecoveredAlone(x, p) ==
  IF x.status \notin LiveStatus THEN {Reloaded(x)}
                                ELSE {DetachOrQueue(Reloaded(x))}
\* recoverLiveWorkers for one run, p being the worker of its lease if that is alive:
\* it is adopted when the run's status is live.  adoptedTurnLooksAbandoned reads
\* the log alone: a turn that was silent for a heartbeat timeout, with its last
\* message or tool call closed, counts as abandoned, over or not.
Recovered(x, p) ==
  IF x.status \notin LiveStatus THEN {Reloaded(x)}
  ELSE IF p = {} THEN {DetachOrQueue(Reloaded(x))}
  ELSE LET y == [Reloaded(x) EXCEPT !.handle = x.lease] IN {y, Requeued(y)}
\* The history of what was put back from under the workers p.
Doubting(x, p) ==
  LET queued(m) == \E i \in DOMAIN x.inbound : x.inbound[i] = m
      kept(m) == \E q \in p : q.cur = m \/ \E i \in DOMAIN q.batch : q.batch[i] = m
  IN [x EXCEPT !.doubted = @ \cup {m \in 1..x.sent : queued(m) /\ kept(m)}]

\* The control plane dies and comes back (not in the middle of archiveRun, whose
\* ARCHIVED is not on disk before it ends).  Its calls and its slot table are
\* gone; some workers survive, and a reply to a poll may be lost.
Restart ==
  /\ restarts < MaxRestarts
  /\ \A c \in calls : c.op \notin {"persistArchive", "stopArchive"}
  /\ restarts' = restarts + 1
  /\ calls' = {} /\ exits' = {} /\ held' = {} /\ releasing' = {}
  /\ starter' = Off /\ booting' = TRUE
  /\ \E alive \in SUBSET {p \in procs : Running(p)} :
     \E lost \in SUBSET {p \in alive : p.cur = 0} :
       LET Lease(r) == {p \in alive : p.run = r /\ p.no = run[r].lease}
           Adopted(p) == p \in Lease(p.run) /\ run[p.run].status \in LiveStatus
           After(p) == [p EXCEPT !.origin = IF Adopted(p) THEN "adopted" ELSE "orphan",
                                 !.batch = IF p \in lost THEN <<>> ELSE @]
           left == {After(p) : p \in alive}
       IN /\ procs' = left
          /\ \E f \in [Runs -> UNION {Recovered(run[r], {After(p) : p \in Lease(r)})
                                      : r \in Runs}] :
               /\ \A r \in Runs :
                    f[r] \in Recovered(run[r], {After(p) : p \in Lease(r)})
               /\ run' = [r \in Runs |-> Doubting(f[r], {p \in left : p.run = r})]

\* recoverLiveWorkers has reconciled the slots and calls tryStartQueued.
Booted ==
  /\ booting
  /\ booting' = FALSE
  /\ Wake
  /\ UNCHANGED <<run, calls, held, releasing, procs, exits, restarts>>

-----------------------------------------------------------------------------
TryStartQueued == Snapshot \/ StartNext \/ LoopEnds

RunStep(r) ==
  \/ Create(r) \/ FollowUp(r) \/ Abort(r) \/ Archive(r)
  \/ IdleRelease(r) \/ HeartbeatAges(r) \/ Expire(r) \/ Reconcile(r)

CallStep(c) ==
  \/ SetupInstall(c) \/ SetupFails(c) \/ SetupDone(c)
  \/ AttachDone(c) \/ AttachFails(c)
  \/ Post(c) \/ Rematerialize(c) \/ CloneFails(c) \/ Rebound(c) \/ BindDone(c)
  \/ ArchivePersisted(c) \/ IdleKeeps(c) \/ IdlePersisted(c) \/ StopDone(c)

WorkerStep(p) ==
  \/ Pull(p) \/ StartTurn(p) \/ EndTurn(p) \/ ShutDown(p)
  \/ Terminated(p) \/ Crash(p) \/ BootFails(p)

Next ==
  \/ Starting /\ TryStartQueued
  \/ ~Starting /\ \E c \in calls : Microtask(c) /\ CallStep(c)
  \/ /\ ~Busy
     /\ \/ \E r \in Runs : RunStep(r)
        \/ \E c \in calls : CallStep(c)
        \/ \E p \in procs : WorkerStep(p)
        \/ \E e \in exits : ExitHook(e)
        \/ Restart \/ Booted

\* Every await ends, the worker keeps polling and ends its turns, and the lease
\* watch ticks every 2 s.  Nothing is fair about users, faults and restarts.
Fairness ==
  /\ WF_vars(Starting /\ TryStartQueued)
  /\ WF_vars(~Starting /\ \E c \in calls : Microtask(c) /\ CallStep(c))
  /\ WF_vars(~Busy /\ Booted)
  /\ \A r \in Runs :
       /\ WF_vars(~Busy /\ \E c \in calls : c.run = r /\ CallStep(c))
       /\ WF_vars(~Busy /\ \E p \in procs : p.run = r /\
                    (Pull(p) \/ StartTurn(p) \/ EndTurn(p) \/ ShutDown(p)
                       \/ Terminated(p)))
       /\ WF_vars(~Busy /\ \E e \in exits : e.run = r /\ ExitHook(e))
       /\ WF_vars(~Busy /\ IdleRelease(r))
       /\ WF_vars(~Busy /\ (HeartbeatAges(r) \/ Expire(r)))
       /\ WF_vars(~Busy /\ Reconcile(r))

Spec == Init /\ [][Next]_vars
FairSpec == Spec /\ Fairness

-----------------------------------------------------------------------------
(* Properties.                                                             *)

\* A run has at most one worker process that is not on its way out: follow-ups,
\* the queue, resumeRun and the recovery never start a second one, unless it is
\* beside the worker of a run that was not live at a restart.
OneWorker ==
  \A p, q \in procs :
    p.run = q.run /\ Running(p) /\ Running(q) => p = q \/ run[p.run].split
OneWorkerAlways ==
  \A p, q \in procs : p.run = q.run /\ Running(p) /\ Running(q) => p = q

\* A message the orchestrator accepted is never mislaid, through crashes, queue,
\* replays and restarts: until it is answered or given up it is in the inbox, at a
\* worker, or the remembered active turn.  Only one turn is remembered: messages
\* that one poll took together, or over a remembered turn, are excepted, and runs
\* whose two workers share an inbox.
AtWorker(r, m) ==
  \E p \in procs : p.run = r /\ (p.cur = m \/ \E i \in DOMAIN p.batch : p.batch[i] = m)
InInbox(r, m) == \E i \in DOMAIN run[r].inbound : run[r].inbound[i] = m
Open(r, m) == InInbox(r, m) \/ run[r].active = m \/ AtWorker(r, m)
NoLostMessage ==
  \A r \in Runs : ~run[r].split =>
    \A m \in 1..run[r].sent :
      m \in run[r].answered \cup run[r].dropped \cup run[r].crowded \/ Open(r, m)
NoLostMessageAlways ==
  \A r \in Runs : \A m \in 1..run[r].sent :
    m \in run[r].answered \cup run[r].dropped \/ Open(r, m)

\* A turn that was answered is not queued or started again (requeueActiveTurn
\* replays a turn whose worker is gone, or looks as if it had yielded), unless a
\* recovery took the silence of the worker that had it for its end, or two workers
\* share the inbox.
AnsweredOnce ==
  \A r \in Runs : ~run[r].split =>
    \A m \in run[r].answered \ run[r].doubted : ~InInbox(r, m) /\ ~AtWorker(r, m)
AnsweredOnceAlways ==
  \A r \in Runs : \A m \in run[r].answered : ~InInbox(r, m) /\ ~AtWorker(r, m)

\* The handle of a run that is going nowhere names a process that is alive, or
\* whose exit hook is still to come: no run waits for a worker that is gone.
HandleTruth ==
  \A r \in Runs : run[r].handle # 0 =>
    \/ \E p \in procs : p.run = r /\ p.no = run[r].handle
    \/ \E e \in exits : e.run = r
    \/ \E c \in CallsOf(r) : c.op \in {"stopAbort", "stopIdle", "stopArchive"}

\* At most one queued run is being started at a time, and the loop knows it: the
\* flag startingQueued is neither left set nor cleared while a start is awaited.
OneStarter ==
  /\ \A c, d \in calls : c.op = "attachQueued" /\ d.op = "attachQueued" => c = d
  /\ starter.pc = "wait" <=> \E c \in calls : c.op = "attachQueued"

\* A run in `preparing` is in a call that takes it out again: else isSetupInFlight
\* would hide it from the queue, the heartbeat check and the recovery for ever.
SetupHasOwner ==
  \A r \in Runs : run[r].setup = "preparing" =>
    \E c \in CallsOf(r) : c.op \in {"setup", "install", "attachCreate",
                                     "clone", "reclone"}

\* An archived run stays archived.
ArchivedFinal ==
  [][\A r \in Runs : run[r].status = "ARCHIVED" => run'[r].status = "ARCHIVED"]_vars

\* releaseIdleWorker stops a worker that is idle: no turn of it is under way.
IdleSparesTurns ==
  [][\A c \in calls' \ calls : c.op = "stopIdle" =>
       \A p \in procs : p.run = c.run /\ p.no = c.no => p.cur = 0]_vars

\* A new worker is not stopped by a shutdown item meant for an earlier one.
FreshWorkerServes ==
  [][\A r \in Runs :
       run[r].status = "RUNNING" /\ run[r].inbound # <<>> /\ run'[r].inbound = <<>>
         => Head(run[r].inbound) # Shutdown]_vars

\* Every message of a run is answered or given up in the end, or the run ends in
\* an error the user sees.
MessageServed ==
  \A r \in Runs : \A m \in Msgs :
    (m <= run[r].sent) ~>
      (\/ m \in run[r].answered \/ m \in run[r].dropped
       \/ run[r].status \in {"ERROR", "SETUP_ERROR", "ARCHIVED"})

\* A run that waits for a slot gets one in the end.
QueuedStarts ==
  \A r \in Runs :
    (run[r].status = "NOT_YET_STARTED") ~> (run[r].status # "NOT_YET_STARTED")
=============================================================================
