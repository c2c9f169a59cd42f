------------------------------- MODULE VmSlots -------------------------------
(***************************************************************************)
(* The execution slots of WORKER_RUNTIME=vm on a host without KVM:         *)
(* runtime/vm-slots.ts (the slot table), runtime/vm.ts (VmSlotRuntime),    *)
(* runtime/persist-workspace.ts (write-back), the part of                  *)
(* runtime/local.ts that owns the worker process, and the orchestrator's   *)
(* `handles` and run statuses, by which provision and destroy are called   *)
(* and the reconciler takes a slot's run for live.                         *)
(*                                                                         *)
(* The control plane is one JavaScript thread, so an action is the code    *)
(* between two awaits.  Every operation that awaits (mount, restore,       *)
(* write-back, umount, the death of a process) is split there: what the    *)
(* continuation still remembers is kept in `setups` or in `teardowns`.     *)
(*                                                                         *)
(* A workspace tree is abstracted to whose files it holds and which of     *)
(* that run's edits is the latest one in it.                               *)
(***************************************************************************)
EXTENDS Integers, FiniteSets

CONSTANTS
  Runs,          \* the conversations that want a machine
  NoRun,         \* "null" in slot.runId
  SlotCount,     \* VM_SLOT_COUNT
  MaxSpawn,      \* bound: setups, and so worker processes, per run
  MaxEdits,      \* bound: edits the workers of a run make
  MaxRestarts,   \* bound: restarts of the control plane
  StopRequests,  \* runs are stopped, archived and fail, with a worker or before
  Overlaps,      \* which setups overlap with others of their run: see Provision, Expire
  DiskFaults     \* which of "mount", "restore" and "copy" may fail

\* vmSlotCount() clamps VM_SLOT_COUNT to 1..4.
ASSUME SlotCountAssumption == SlotCount \in 1..4
ASSUME NoRunAssumption == NoRun \notin Runs
ASSUME BoundsAssumption ==
  /\ MaxSpawn \in Nat \ {0}
  /\ MaxEdits \in Nat
  /\ MaxRestarts \in Nat
ASSUME SwitchAssumption ==
  /\ StopRequests \in BOOLEAN
  /\ Overlaps \subseteq {"slow", "again"}
  /\ DiskFaults \subseteq {"mount", "restore", "copy"}

Slots == 1..SlotCount
Tree  == [owner : Runs \cup {NoRun}, edit : 0..MaxEdits]
EmptyTree == [owner |-> NoRun, edit |-> 0]

VARIABLES
  slotRun,    \* slotRun[s]: slot.runId; slot.status is "busy" iff it is not NoRun
  mounted,    \* mounted[s]: slot.mounted, true only while the image is mounted
  disk,       \* disk[s]: the tree the slot's mount path shows
  durable,    \* durable[r]: the tree in hostRunsDir/<r>
  edits,      \* edits[r]: the last edit a worker of r made
  unsaved,    \* history: unsaved[r], the last edit when a write-back of r failed last
  status,     \* status[r]: run.status, as far as slotOwnerIsLive tells statuses apart
  setups,     \* the calls of attachWorker that wait in VmSlotRuntime.provision
  procs,      \* the worker processes that are alive
  spawned,    \* spawned[r]: setups begun for r so far
  child,      \* child[r]: LocalProcessRuntime.children, a process number or 0
  handle,     \* handle[r]: the orchestrator's handle, a process number or 0
  teardowns,  \* persistAndRelease and releaseVmSlot calls that are waiting
  restarts    \* restarts of the control plane so far

vars == <<slotRun, mounted, disk, durable, edits, unsaved, status, setups, procs,
          spawned, child, handle, teardowns, restarts>>

\* "live": PROVISIONING, INSTALLING, RUNNING; "other": NOT_YET_STARTED, ERROR.
Status   == {"live", "idle", "archived", "other"}
\* guarded: createRun's, which the run's `preparing` mark protects from Expire.
Setup    == [run : Runs, no : 1..MaxSpawn, slot : Slots,
             pc : {"mounting", "restoring", "undoing"}, guarded : BOOLEAN]
\* adopted: outlived the control plane that spawned it; orphan: and is unknown to it.
Process  == [run : Runs, no : 1..MaxSpawn, slot : Slots,
             st : {"running", "dying"}, origin : {"spawned", "adopted", "orphan"}]
\* by: the exit hook, destroy(), reconcileOrphanVmSlots or provision's catch.
Teardown == [by : {"exit", "destroy", "reconcile", "undo"},
             run : Runs \cup {NoRun}, slot : Slots, pc : {"copy", "umount"}]

TypeOK ==
  /\ slotRun \in [Slots -> Runs \cup {NoRun}]
  /\ mounted \in [Slots -> BOOLEAN]
  /\ disk \in [Slots -> Tree]
  /\ durable \in [Runs -> Tree]
  /\ edits \in [Runs -> 0..MaxEdits]
  /\ unsaved \in [Runs -> 0..MaxEdits]
  /\ status \in [Runs -> Status]
  /\ setups \subseteq Setup
  /\ procs \subseteq Process
  /\ spawned \in [Runs -> 0..MaxSpawn]
  /\ child \in [Runs -> 0..MaxSpawn]
  /\ handle \in [Runs -> 0..MaxSpawn]
  /\ teardowns \subseteq Teardown
  /\ restarts \in 0..MaxRestarts

Init ==
  /\ slotRun = [s \in Slots |-> NoRun]
  /\ mounted = [s \in Slots |-> FALSE]
  /\ disk = [s \in Slots |-> EmptyTree]
  /\ durable = [r \in Runs |-> [owner |-> r, edit |-> 0]]
  /\ edits = [r \in Runs |-> 0]
  /\ unsaved = [r \in Runs |-> 0]
  /\ status = [r \in Runs |-> "other"]
  /\ setups = {}
  /\ procs = {}
  /\ spawned = [r \in Runs |-> 0]
  /\ child = [r \in Runs |-> 0]
  /\ handle = [r \in Runs |-> 0]
  /\ teardowns = {}
  /\ restarts = 0

SlotsIn(table, r) == {s \in Slots : table[s] = r}
SlotsOf(r) == SlotsIn(slotRun, r)
SetupsOf(r) == {u \in setups : u.run = r}

\* listVmSlots().find(...): the lowest numbered slot that matches.
First(S) == CHOOSE s \in S : \A t \in S : s <= t

\* Mutants of Live: the reconciler forgets the workers of idle runs, or setups.
LiveWithoutHandle(r) == status[r] = "live"
LiveWithoutSetup(r) == status[r] \in {"live", "idle"} /\ handle[r] # 0

\* slotOwnerIsLive
Live(r) == status[r] = "live" \/ (status[r] = "idle" /\ handle[r] # 0)

-----------------------------------------------------------------------------
(* provision: claimVmSlot, mount, wipe, restore, spawn.                    *)

Began(r, s, pc, guarded) ==
  setups' = setups \cup
    {[run |-> r, no |-> spawned[r] + 1, slot |-> s, pc |-> pc, guarded |-> guarded]}
Moves(u, pc) == setups' = (setups \ {u}) \cup {[u EXCEPT !.pc = pc]}

\* claimVmSlot finds the run already on a slot: no mount, straight to the wipe.
Reclaim(r, guarded) ==
  /\ SlotsOf(r) # {}
  /\ LET s == First(SlotsOf(r)) IN
       /\ Began(r, s, "restoring", guarded)
       /\ disk' = [disk EXCEPT ![s] = EmptyTree]
  /\ UNCHANGED <<slotRun, mounted>>

\* Mutant of ClaimIdle: the busy mark is not looked at.
ClaimBusy(r, guarded) ==
  /\ SlotsOf(r) = {}
  /\ slotRun' = [slotRun EXCEPT ![1] = r]
  /\ Began(r, 1, "mounting", guarded)
  /\ UNCHANGED <<mounted, disk>>

\* The first idle slot is marked busy before the mount is awaited.  With none
\* idle claimVmSlot throws "all VM slots are busy" and nothing changes.
ClaimIdle(r, guarded) ==
  /\ SlotsOf(r) = {}
  /\ SlotsOf(NoRun) # {}
  /\ LET s == First(SlotsOf(NoRun)) IN
       /\ slotRun' = [slotRun EXCEPT ![s] = r]
       /\ Began(r, s, "mounting", guarded)
  /\ UNCHANGED <<mounted, disk>>

\* createRun (guarded), resumeRun or tryStartQueued.  The queue passes over a
\* run that is PROVISIONING; a follow-up does not look ("again").
Provision(r, guarded) ==
  /\ handle[r] = 0
  /\ status[r] # "archived"
  /\ guarded => spawned[r] = 0
  /\ SetupsOf(r) = {} \/ status[r] # "live" \/ "again" \in Overlaps
  /\ spawned[r] < MaxSpawn
  /\ Reclaim(r, guarded) \/ ClaimIdle(r, guarded)
  /\ spawned' = [spawned EXCEPT ![r] = @ + 1]
  /\ status' = [status EXCEPT ![r] = "live"]
  /\ UNCHANGED <<durable, edits, unsaved, procs, child, handle, teardowns, restarts>>

\* expireStaleWorkers: a run without a handle that was touched last 20 s ago is
\* queued or idle.  A setup counts only while it is guarded; a mount or a
\* restore that takes longer than that is expired under way ("slow").
Expire(r) ==
  /\ status[r] = "live"
  /\ handle[r] = 0
  /\ \A u \in SetupsOf(r) : ~u.guarded /\ "slow" \in Overlaps
  /\ status' = [status EXCEPT ![r] = "other"]
  /\ UNCHANGED <<slotRun, mounted, disk, durable, edits, unsaved, setups, procs,
                 spawned, child, handle, teardowns, restarts>>

\* mountVmSlot resolves; wipeMount runs in the same turn.
MountDone(u) ==
  /\ u.pc = "mounting"
  /\ mounted' = [mounted EXCEPT ![u.slot] = TRUE]
  /\ disk' = [disk EXCEPT ![u.slot] = EmptyTree]
  /\ Moves(u, "restoring")
  /\ UNCHANGED <<slotRun, durable, edits, unsaved, status, procs, spawned, child,
                 handle, teardowns, restarts>>

\* Mutant of PersistCall: the slot is released without a write-back.
ReleaseOnly(by, r, table) ==
  {[by |-> by, run |-> r, slot |-> s, pc |-> "umount"] : s \in SlotsIn(table, r)}

\* persistAndRelease up to its first await.
PersistCall(by, r, table) ==
  {[by |-> by, run |-> r, slot |-> s, pc |-> "copy"] : s \in SlotsIn(table, r)}

\* VmSlotRuntime.destroy: the child in the map if there is one, else the pid in
\* the handle, gets SIGTERM.  One that is dead already: destroy() reaches its
\* finally block at once.
Target(r) ==
  {p \in procs : p.run = r /\ p.no = IF child[r] # 0 THEN child[r] ELSE handle[r]}
StopWorker(r, calls, table) ==
  /\ procs' = (procs \ Target(r)) \cup {[p EXCEPT !.st = "dying"] : p \in Target(r)}
  /\ child' = [child EXCEPT ![r] = 0]
  /\ teardowns' = calls \cup
       (IF Target(r) = {} THEN PersistCall("destroy", r, table) ELSE {})

\* failRun: ERROR, the handle is dropped, and the worker stopped if it has one.
FailRun(r, calls, table) ==
  /\ status' = [status EXCEPT ![r] = "other"]
  /\ handle' = [handle EXCEPT ![r] = 0]
  /\ IF handle[r] = 0
       THEN teardowns' = calls /\ UNCHANGED <<procs, child>>
       ELSE StopWorker(r, calls, table)

\* mountVmSlot throws inside claimVmSlot, before provision's try block: the
\* slot keeps its runId and nobody is left to release it but the reconciler.
MountFails(u) ==
  /\ "mount" \in DiskFaults
  /\ u.pc = "mounting"
  /\ setups' = setups \ {u}
  /\ FailRun(u.run, teardowns, slotRun)
  /\ UNCHANGED <<slotRun, mounted, disk, durable, edits, unsaved, spawned, restarts>>

\* restoreDurableWorkspace resolves, LocalProcessRuntime.provision spawns the
\* worker and attachWorker stores the handle and sets RUNNING, whatever the run
\* has become, with no other event in between.
Spawn(u) ==
  /\ u.pc = "restoring"
  /\ disk' = [disk EXCEPT ![u.slot] = durable[u.run]]
  /\ procs' = procs \cup
       {[run |-> u.run, no |-> u.no, slot |-> u.slot, st |-> "running",
         origin |-> "spawned"]}
  /\ child' = [child EXCEPT ![u.run] = u.no]
  /\ handle' = [handle EXCEPT ![u.run] = u.no]
  /\ status' = [status EXCEPT ![u.run] = "live"]
  /\ setups' = setups \ {u}
  /\ UNCHANGED <<slotRun, mounted, durable, edits, unsaved, spawned, teardowns,
                 restarts>>

\* releaseVmSlot: the slot is looked up by run id.  A mounted one is awaited
\* (ReleaseCall); one that is not mounted is idle at once (FreeNow).
ReleaseWaits(r) == \E s \in SlotsOf(r) : mounted[s]
ReleaseCall(by, r) ==
  {[by |-> by, run |-> r, slot |-> s, pc |-> "umount"] :
     s \in {x \in SlotsOf(r) : mounted[x]}}
FreeNow(r) ==
  [s \in Slots |-> IF slotRun[s] = r /\ ~mounted[s] THEN NoRun ELSE slotRun[s]]

RestoreFails(u) ==
  /\ "restore" \in DiskFaults
  /\ u.pc = "restoring"
  /\ slotRun' = FreeNow(u.run)
  /\ IF ReleaseWaits(u.run)
       THEN /\ Moves(u, "undoing")
            /\ teardowns' = teardowns \cup ReleaseCall("undo", u.run)
            /\ UNCHANGED <<status, handle, procs, child>>
       ELSE /\ setups' = setups \ {u}
            /\ FailRun(u.run, teardowns, FreeNow(u.run))
  /\ UNCHANGED <<mounted, disk, durable, edits, unsaved, spawned, restarts>>

-----------------------------------------------------------------------------
(* The worker process.                                                     *)

Edit(p) ==
  /\ p.st = "running"
  /\ edits[p.run] < MaxEdits
  /\ edits' = [edits EXCEPT ![p.run] = @ + 1]
  /\ disk' = [disk EXCEPT ![p.slot] =
                [owner |-> p.run, edit |-> edits[p.run] + 1]]
  /\ UNCHANGED <<slotRun, mounted, durable, unsaved, status, setups, procs, spawned,
                 child, handle, teardowns, restarts>>

\* Its events: agent.start sets RUNNING, agent.end of a RUNNING run IDLE.
TurnStarts(p) ==
  /\ p.st = "running" /\ status[p.run] # "live"
  /\ status' = [status EXCEPT ![p.run] = "live"]
  /\ UNCHANGED <<slotRun, mounted, disk, durable, edits, unsaved, setups, procs,
                 spawned, child, handle, teardowns, restarts>>
TurnEnds(p) ==
  /\ p.st = "running" /\ status[p.run] = "live"
  /\ status' = [status EXCEPT ![p.run] = "idle"]
  /\ UNCHANGED <<slotRun, mounted, disk, durable, edits, unsaved, setups, procs,
                 spawned, child, handle, teardowns, restarts>>

\* What the callers of persistAndRelease do when it has resolved: bindWorkerExit
\* drops the handle unless the run is archived, and one that was RUNNING is in
\* ERROR if the exit code was not 0; abort, archive and idle release drop it too.
Resolved(r, callers) ==
  /\ handle' = IF "destroy" \in callers \/ ("exit" \in callers /\ status[r] # "archived")
                 THEN [handle EXCEPT ![r] = 0] ELSE handle
  /\ \/ UNCHANGED status
     \/ /\ "exit" \in callers /\ status[r] = "live"
        /\ status' = [status EXCEPT ![r] = "other"]

\* Mutant of Exit: the slot is marked idle before the write-back is awaited.
ExitFreesFirst(p) ==
  /\ procs' = procs \ {p}
  /\ child' = [child EXCEPT ![p.run] = 0]
  /\ teardowns' = teardowns \cup PersistCall("exit", p.run, slotRun)
  /\ slotRun' = [s \in Slots |-> IF s = p.slot THEN NoRun ELSE slotRun[s]]
  /\ handle' = [handle EXCEPT ![p.run] = 0]
  /\ UNCHANGED <<mounted, disk, durable, edits, unsaved, status, setups, spawned,
                 restarts>>

\* The process is gone.  The "exit" event (for an adopted process: the poll,
\* unless destroy() cleared it) starts persistAndRelease; when destroy() was
\* waiting for the death, its finally block starts one more in the same turn.
\* With no slot bound to the run they resolve at once.
Callers(p) ==
  (IF p.origin = "orphan" \/ (p.origin = "adopted" /\ p.st = "dying") THEN {} ELSE {"exit"})
    \cup (IF p.st = "dying" THEN {"destroy"} ELSE {})
Exit(p) ==
  /\ procs' = procs \ {p}
  /\ child' = [child EXCEPT ![p.run] = IF p.origin = "orphan" THEN @ ELSE 0]
  /\ teardowns' = teardowns \cup UNION {PersistCall(c, p.run, slotRun) : c \in Callers(p)}
  /\ IF SlotsOf(p.run) = {} THEN Resolved(p.run, Callers(p))
                            ELSE UNCHANGED <<handle, status>>
  /\ UNCHANGED <<slotRun, mounted, disk, durable, edits, unsaved, setups, spawned,
                 restarts>>

\* failRun of a run that works, and abort, archive and idle release, which drop
\* the handle when destroy() has resolved.
Fail(r) ==
  /\ StopRequests
  /\ handle[r] # 0
  /\ FailRun(r, teardowns, slotRun)
  /\ UNCHANGED <<slotRun, mounted, disk, durable, edits, unsaved, setups, spawned,
                 restarts>>
Destroy(r) ==
  /\ StopRequests
  /\ handle[r] # 0
  /\ StopWorker(r, teardowns, slotRun)
  /\ status' = [status EXCEPT ![r] = IF @ = "archived" THEN @ ELSE "idle"]
  /\ handle' = IF Target(r) = {} /\ SlotsOf(r) = {} THEN [handle EXCEPT ![r] = 0] ELSE handle
  /\ UNCHANGED <<slotRun, mounted, disk, durable, edits, unsaved, setups, spawned,
                 restarts>>

\* archiveRun before it comes to the worker; and abort or a failure without one,
\* which let a setup under way go on.
Settle(r, to) ==
  /\ StopRequests
  /\ status[r] \notin {"archived", to} /\ (to = "archived" \/ handle[r] = 0)
  /\ status' = [status EXCEPT ![r] = to]
  /\ UNCHANGED <<slotRun, mounted, disk, durable, edits, unsaved, setups, procs,
                 spawned, child, handle, teardowns, restarts>>

-----------------------------------------------------------------------------
(* persistAndRelease after its first await.                                *)

Resolve(t) ==
  IF t.by = "undo"
  THEN /\ setups' = {u \in setups : ~(u.run = t.run /\ u.pc = "undoing")}
       /\ FailRun(t.run, teardowns \ {t}, slotRun')
  ELSE /\ Resolved(t.run, {t.by}) /\ teardowns' = teardowns \ {t}
       /\ UNCHANGED <<setups, procs, child>>

\* The copy can read the tree only while the path still shows one.
CopyReads(t) == disk[t.slot].owner # NoRun

\* persistRunWorkspace never throws: it returns {ok: false}, which
\* persistAndRelease ignores, so the slot is released after a failed copy too.
\* What the path does not show is removed from the durable copy: all of it, if
\* the tree was gone before the copy began.
CopyDone(t) ==
  /\ t.pc = "copy"
  /\ \/ /\ durable' = [durable EXCEPT ![t.run] = disk[t.slot]]
        /\ UNCHANGED unsaved
     \/ /\ ~CopyReads(t) \/ "copy" \in DiskFaults
        /\ UNCHANGED durable
        /\ unsaved' = [unsaved EXCEPT ![t.run] = edits[t.run]]
  /\ slotRun' = FreeNow(t.run)
  /\ IF ReleaseWaits(t.run)
       THEN /\ teardowns' = (teardowns \ {t}) \cup ReleaseCall(t.by, t.run)
            /\ UNCHANGED <<handle, status, setups, procs, child>>
       ELSE Resolve(t)
  /\ UNCHANGED <<mounted, disk, edits, spawned, restarts>>

\* releaseVmSlot's finally block: the slot object found before the await is
\* marked idle, whoever holds it now.
UmountDone(t) ==
  /\ t.pc = "umount"
  /\ slotRun' = [slotRun EXCEPT ![t.slot] = NoRun]
  /\ mounted' = [mounted EXCEPT ![t.slot] = FALSE]
  /\ disk' = [disk EXCEPT ![t.slot] = EmptyTree]
  /\ Resolve(t)
  /\ UNCHANGED <<durable, edits, unsaved, spawned, restarts>>

\* Mutant of Reconcile: only slots marked idle are looked at.
ReconcileIdleOnly(s) ==
  /\ slotRun[s] = NoRun /\ mounted[s]
  /\ LET t == [by |-> "reconcile", run |-> NoRun, slot |-> s, pc |-> "umount"]
     IN /\ t \notin teardowns
        /\ teardowns' = teardowns \cup {t}
  /\ UNCHANGED <<slotRun, mounted, disk, durable, edits, unsaved, status, setups, procs,
                 spawned, child, handle, restarts>>

\* reconcileOrphanVmSlots, one slot of its loop: release the slot of a run that
\* is not live, and unmount a slot that is mounted for nobody.
Reconcile(s) ==
  /\ \/ slotRun[s] # NoRun /\ ~Live(slotRun[s])
     \/ slotRun[s] = NoRun /\ mounted[s]
  /\ IF mounted[s]
       THEN LET t == [by |-> "reconcile", run |-> slotRun[s], slot |-> s,
                      pc |-> "umount"]
            IN /\ t \notin teardowns
               /\ teardowns' = teardowns \cup {t}
               /\ UNCHANGED slotRun
       ELSE /\ slotRun' = [slotRun EXCEPT ![s] = NoRun]
            /\ UNCHANGED teardowns
  /\ UNCHANGED <<mounted, disk, durable, edits, unsaved, status, setups, procs, spawned,
                 child, handle, restarts>>

\* The control plane dies and comes back.  The slot table is module state and
\* starts empty (ensureVmSlots only sees what is mounted); awaits are gone;
\* recoverLiveWorkers adopts by its lease a worker that survived, if its run is
\* live; the other live runs are queued or idle.
Adopted(p) == status[p.run] = "live" /\ p.no = handle[p.run]
Restart ==
  /\ restarts < MaxRestarts
  /\ restarts' = restarts + 1
  /\ slotRun' = [s \in Slots |-> NoRun]
  /\ \E alive \in SUBSET {p \in procs : p.st = "running"} :
       LET kept(r) == \E p \in alive : p.run = r /\ Adopted(p)
       IN /\ procs' = {[p EXCEPT !.origin = IF Adopted(p) THEN "adopted" ELSE "orphan"] :
                         p \in alive}
          /\ handle' = [r \in Runs |-> IF kept(r) THEN handle[r] ELSE 0]
          /\ status' = [r \in Runs |-> IF status[r] = "live" /\ ~kept(r)
                                       THEN "other" ELSE status[r]]
  /\ child' = [r \in Runs |-> 0]
  /\ setups' = {}
  /\ teardowns' = {}
  /\ UNCHANGED <<mounted, disk, durable, edits, unsaved, spawned>>

Next ==
  \/ \E r \in Runs :
       \/ \E guarded \in BOOLEAN : Provision(r, guarded)
       \/ Expire(r) \/ Fail(r) \/ Destroy(r)
       \/ \E to \in {"idle", "other", "archived"} : Settle(r, to)
  \/ \E u \in setups : MountDone(u) \/ MountFails(u) \/ Spawn(u) \/ RestoreFails(u)
  \/ \E p \in procs : Edit(p) \/ TurnStarts(p) \/ TurnEnds(p) \/ Exit(p)
  \/ \E t \in teardowns : CopyDone(t) \/ UmountDone(t)
  \/ \E s \in Slots : Reconcile(s)
  \/ Restart

\* The 2 s lease watch keeps looking for stale runs and reconciling, and every
\* await of a teardown ends: cp and umount are finite commands.
Fairness ==
  /\ \A r \in Runs : WF_vars(Expire(r))
  /\ \A s \in Slots :
       /\ WF_vars(Reconcile(s))
       /\ WF_vars(\E t \in teardowns : t.slot = s /\ CopyDone(t))
       /\ WF_vars(\E t \in teardowns : t.slot = s /\ UmountDone(t))

Spec == Init /\ [][Next]_vars
FairSpec == Spec /\ Fairness

-----------------------------------------------------------------------------
(* Properties.                                                             *)

\* A run is never bound to two slots, whatever fails, restarts or is torn down
\* in between (claimVmSlot's search for the slot the run already has, on a slot
\* that a failed mount or a slow release may still hold for it).
SlotBoundOnce ==
  \A s, t \in Slots : slotRun[s] = slotRun[t] /\ slotRun[s] # NoRun => s = t

\* Two live workers of different runs never share a slot: provision, the exit
\* hook, destroy and the reconciler interleave at every await of the mount, the
\* write-back and the umount.
SlotExclusive ==
  \A p, q \in procs : p.slot = q.slot => p.run = q.run

\* A live worker keeps the slot it runs on: nobody marks it idle or gives it to
\* another run meanwhile (releaseVmSlot, reconcileOrphanVmSlots).
WorkerKeepsSlot == \A p \in procs : slotRun[p.slot] = p.run

\* No umount pulls a slot's tree from under a live worker.
UmountSparesWorkers ==
  [][\A s \in Slots :
       mounted[s] /\ ~mounted'[s] => \A p \in procs : p.slot # s]_vars

\* The write-back of a run's tree never carries another run's files into its
\* durable copy (the copy reads the mount path long after it was looked up).
DurableIsOwn == \A r \in Runs : durable[r].owner = r

\* Once a run has no slot, its durable copy holds its last edit: the slot was not
\* given up before the write-back, nor wiped under it (persistAndRelease, wipeMount,
\* reconcileOrphanVmSlots).  Unless the write-back of that edit failed: then the
\* slot is given up all the same, and the edit is gone.
NoLostFiles ==
  \A r \in Runs : SlotsOf(r) = {} => edits[r] \in {durable[r].edit, unsaved[r]}

\* Reproduction: the same without the proviso.
NoLostFilesAlways == \A r \in Runs : SlotsOf(r) = {} => durable[r].edit = edits[r]

\* A slot whose run has neither a worker nor a setup in flight comes back:
\* through the teardown the exit started, or through the reconciler when a
\* failed mount, an early forgotten handle or a restart left nobody to do it.
SlotComesBack ==
  \A s \in Slots : \A r \in Runs :
    (slotRun[s] = r /\ SetupsOf(r) = {} /\ \A p \in procs : p.run # r)
      ~> (slotRun[s] # r \/ SetupsOf(r) # {})

\* The slot table implements the lease the rest of the system relies on.
Lease == INSTANCE SlotLease WITH
           owner <- slotRun,
           users <- [s \in Slots |-> {p.run : p \in {q \in procs : q.slot = s}}]
ImplementsLease == Lease!LeaseSpec
=============================================================================
