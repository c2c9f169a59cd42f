---------------------------- MODULE VmSlots_proofs ----------------------------
(***************************************************************************)
(* Proofs about VmSlots, for every set of runs, every slot count the code  *)
(* accepts and every bound.                                                *)
(***************************************************************************)
EXTENDS VmSlots, TLAPS

\* The lowest slot of a non-empty set of slots is one of them.
LEMMA FirstIn ==
  ASSUME NEW S, S \subseteq Slots, S # {}
  PROVE  First(S) \in S
<1>1. \E s \in S : \A t \in S : s <= t
  <2>1. S \subseteq 1..4
    BY SlotCountAssumption DEF Slots
  <2>2. CASE 1 \in S
    BY <2>1, <2>2
  <2>3. CASE 1 \notin S /\ 2 \in S
    BY <2>1, <2>3
  <2>4. CASE 1 \notin S /\ 2 \notin S /\ 3 \in S
    BY <2>1, <2>4
  <2>5. CASE 1 \notin S /\ 2 \notin S /\ 3 \notin S
    <3>1. PICK s \in S : TRUE
      OBVIOUS
    <3>2. \A t \in S : t = 4
      BY <2>1, <2>5
    <3>3. QED
      BY <3>1, <3>2
  <2>6. QED
    BY <2>2, <2>3, <2>4, <2>5
<1>2. QED
  BY <1>1 DEF First

\* What claimVmSlot's searches return: a slot bound to the run, or an idle one.
LEMMA FirstOfRun ==
  ASSUME NEW r, SlotsOf(r) # {}
  PROVE  First(SlotsOf(r)) \in Slots /\ slotRun[First(SlotsOf(r))] = r
<1>1. SlotsOf(r) \subseteq Slots
  BY DEF SlotsOf, SlotsIn
<1>2. First(SlotsOf(r)) \in SlotsOf(r)
  BY <1>1, FirstIn
<1>3. QED
  BY <1>2 DEF SlotsOf, SlotsIn

\* Steps that start a teardown add records of the right type only.
LEMMA CallTypes ==
  ASSUME NEW by \in {"exit", "destroy", "reconcile", "undo"},
         NEW r \in Runs \cup {NoRun}, NEW table
  PROVE  /\ PersistCall(by, r, table) \subseteq Teardown
         /\ ReleaseCall(by, r) \subseteq Teardown
BY DEF PersistCall, ReleaseCall, Teardown, SlotsOf, SlotsIn

LEMMA TreeTypes ==
  /\ EmptyTree \in Tree
  /\ \A r \in Runs : \A e \in 0..MaxEdits : [owner |-> r, edit |-> e] \in Tree
BY BoundsAssumption DEF EmptyTree, Tree

\* What a setup that begins or moves on looks like.
LEMMA BegunSetup ==
  ASSUME TypeOK, NEW r \in Runs, spawned[r] < MaxSpawn, NEW s \in Slots,
         NEW pc \in {"mounting", "restoring"}, NEW guarded \in BOOLEAN,
         Began(r, s, pc, guarded)
  PROVE  \E w \in Setup : /\ w.run = r /\ w.slot = s /\ w.pc = pc
                          /\ setups' = setups \cup {w}
<1>1. spawned[r] + 1 \in 1..MaxSpawn
  BY BoundsAssumption DEF TypeOK
<1>2. [run |-> r, no |-> spawned[r] + 1, slot |-> s, pc |-> pc, guarded |-> guarded]
        \in Setup
  BY <1>1 DEF Setup
<1>3. QED
  BY <1>2 DEF Began

LEMMA MovedSetup ==
  ASSUME TypeOK, NEW u \in setups, NEW pc \in {"restoring", "undoing"}, Moves(u, pc)
  PROVE  \E w \in Setup : /\ w.run = u.run /\ w.slot = u.slot /\ w.pc = pc
                          /\ setups' = (setups \ {u}) \cup {w}
<1>1. u \in Setup
  BY DEF TypeOK
<1>2. [u EXCEPT !.pc = pc] \in Setup
  BY <1>1 DEF Setup
<1>3. /\ [u EXCEPT !.pc = pc].run = u.run /\ [u EXCEPT !.pc = pc].slot = u.slot
      /\ [u EXCEPT !.pc = pc].pc = pc
  BY <1>1 DEF Setup
<1>4. QED
  BY <1>2, <1>3 DEF Moves

LEMMA NoProcess == 0 \in 0..MaxSpawn
BY BoundsAssumption

\* A worker that is stopped, and a run that fails, stay in their domains.
LEMMA StopTypes ==
  ASSUME TypeOK, NEW r \in Runs \cup {NoRun}, NEW calls, calls \subseteq Teardown, NEW table,
         StopWorker(r, calls, table)
  PROVE  /\ procs' \subseteq Process
         /\ child' \in [Runs -> 0..MaxSpawn]
         /\ teardowns' \subseteq Teardown
<1>1. \A p \in procs : [p EXCEPT !.st = "dying"] \in Process
  BY DEF TypeOK, Process
<1>2. Target(r) \subseteq procs
  BY DEF Target
<1>3. procs' \subseteq Process
  BY <1>1, <1>2 DEF StopWorker, TypeOK
<1>4. child' \in [Runs -> 0..MaxSpawn]
  BY NoProcess DEF StopWorker, TypeOK
<1>5. teardowns' \subseteq Teardown
  <2>1. PersistCall("destroy", r, table) \subseteq Teardown
    BY CallTypes
  <2>2. QED
    BY <2>1 DEF StopWorker
<1>6. QED
  BY <1>3, <1>4, <1>5

LEMMA FailTypes ==
  ASSUME TypeOK, NEW r \in Runs \cup {NoRun}, NEW calls, calls \subseteq Teardown, NEW table,
         FailRun(r, calls, table)
  PROVE  /\ procs' \subseteq Process
         /\ child' \in [Runs -> 0..MaxSpawn]
         /\ handle' \in [Runs -> 0..MaxSpawn]
         /\ status' \in [Runs -> Status]
         /\ teardowns' \subseteq Teardown
<1>1. handle' \in [Runs -> 0..MaxSpawn] /\ status' \in [Runs -> Status]
  BY NoProcess DEF FailRun, TypeOK, Status
<1>2. CASE handle[r] = 0
  BY <1>1, <1>2 DEF FailRun, TypeOK
<1>3. CASE handle[r] # 0
  <2>1. StopWorker(r, calls, table)
    BY <1>3 DEF FailRun
  <2>2. QED
    BY <1>1, <2>1, StopTypes
<1>4. QED
  BY <1>2, <1>3

LEMMA ResolvedTypes ==
  ASSUME TypeOK, NEW r, NEW callers, Resolved(r, callers)
  PROVE  handle' \in [Runs -> 0..MaxSpawn] /\ status' \in [Runs -> Status]
<1>1. handle' \in [Runs -> 0..MaxSpawn]
  BY NoProcess DEF Resolved, TypeOK
<1>2. status' \in [Runs -> Status]
  BY DEF Resolved, TypeOK, Status
<1>3. QED
  BY <1>1, <1>2

\* The end of a teardown: its caller goes on, or the setup whose slot it was fails.
LEMMA ResolveTypes ==
  ASSUME TypeOK, NEW t \in teardowns, Resolve(t)
  PROVE  /\ setups' \subseteq Setup
         /\ procs' \subseteq Process
         /\ child' \in [Runs -> 0..MaxSpawn]
         /\ handle' \in [Runs -> 0..MaxSpawn]
         /\ status' \in [Runs -> Status]
         /\ teardowns' \subseteq Teardown
<1>0. teardowns \ {t} \subseteq Teardown /\ t.run \in Runs \cup {NoRun}
  BY DEF TypeOK, Teardown
<1>1. CASE t.by = "undo"
  <2>1. setups' \subseteq setups /\ FailRun(t.run, teardowns \ {t}, slotRun')
    BY <1>1 DEF Resolve
  <2>2. /\ procs' \subseteq Process
        /\ child' \in [Runs -> 0..MaxSpawn]
        /\ handle' \in [Runs -> 0..MaxSpawn]
        /\ status' \in [Runs -> Status]
        /\ teardowns' \subseteq Teardown
    BY <1>0, <1>1, <2>1, FailTypes
  <2>3. QED
    BY <2>1, <2>2 DEF TypeOK
<1>2. CASE t.by # "undo"
  <2>1. /\ Resolved(t.run, {t.by}) /\ teardowns' = teardowns \ {t}
        /\ UNCHANGED <<setups, procs, child>>
    BY <1>2 DEF Resolve
  <2>2. QED
    BY <1>0, <2>1, ResolvedTypes DEF TypeOK
<1>3. QED
  BY <1>1, <1>2


\* The type invariant is inductive: one step per action.
LEMMA TypeStep ==
  ASSUME TypeOK, Next
  PROVE  TypeOK'
<1> USE SlotCountAssumption, NoRunAssumption, BoundsAssumption, TreeTypes
<1> USE DEF TypeOK
<1>1. ASSUME NEW r \in Runs, NEW g \in BOOLEAN, Provision(r, g) PROVE TypeOK'
  <2>1. /\ spawned[r] < MaxSpawn
        /\ spawned' = [spawned EXCEPT ![r] = @ + 1]
        /\ status' = [status EXCEPT ![r] = "live"]
        /\ UNCHANGED <<durable, edits, unsaved, procs, child, handle, teardowns, restarts>>
    BY <1>1 DEF Provision
  <2>2. spawned' \in [Runs -> 0..MaxSpawn] /\ status' \in [Runs -> Status]
    BY <2>1 DEF Status
  <2>3. CASE Reclaim(r, g)
    <3>1. First(SlotsOf(r)) \in Slots
      BY <2>3, FirstOfRun DEF Reclaim
    <3>2. setups' \subseteq Setup
      BY <2>1, <2>3, <3>1, BegunSetup DEF Reclaim
    <3>3. QED
      BY <2>1, <2>2, <2>3, <3>1, <3>2 DEF Reclaim
  <2>4. CASE ClaimIdle(r, g)
    <3>1. First(SlotsOf(NoRun)) \in Slots
      BY <2>4, FirstOfRun DEF ClaimIdle
    <3>2. setups' \subseteq Setup
      BY <2>1, <2>4, <3>1, BegunSetup DEF ClaimIdle
    <3>3. QED
      BY <2>1, <2>2, <2>4, <3>1, <3>2 DEF ClaimIdle
  <2>5. QED
    BY <1>1, <2>3, <2>4 DEF Provision
<1>2. ASSUME NEW r \in Runs, Expire(r) PROVE TypeOK'
  BY <1>2 DEF Expire, Status
<1>3. ASSUME NEW r \in Runs, Fail(r) PROVE TypeOK'
  <2>1. FailRun(r, teardowns, slotRun)
    BY <1>3 DEF Fail
  <2>2. QED
    BY <1>3, <2>1, FailTypes DEF Fail
<1>4. ASSUME NEW r \in Runs, Destroy(r) PROVE TypeOK'
  <2>1. StopWorker(r, teardowns, slotRun)
    BY <1>4 DEF Destroy
  <2>2. status' \in [Runs -> Status] /\ handle' \in [Runs -> 0..MaxSpawn]
    BY <1>4 DEF Destroy, Status
  <2>3. QED
    BY <1>4, <2>1, <2>2, StopTypes DEF Destroy
<1>5. ASSUME NEW r \in Runs, NEW to \in {"idle", "other", "archived"}, Settle(r, to)
      PROVE TypeOK'
  BY <1>5 DEF Settle, Status
<1>6. ASSUME NEW u \in setups, MountDone(u) PROVE TypeOK'
  <2>1. u.slot \in Slots /\ setups' \subseteq Setup
    BY <1>6, MovedSetup DEF MountDone, Setup
  <2>2. QED
    BY <1>6, <2>1 DEF MountDone
<1>7. ASSUME NEW u \in setups, MountFails(u) PROVE TypeOK'
  <2>1. u.run \in Runs /\ FailRun(u.run, teardowns, slotRun)
    BY <1>7 DEF MountFails, Setup
  <2>2. QED
    BY <1>7, <2>1, FailTypes DEF MountFails
<1>8. ASSUME NEW u \in setups, Spawn(u) PROVE TypeOK'
  <2>1. u.run \in Runs /\ u.slot \in Slots /\ u.no \in 1..MaxSpawn
    BY DEF Setup
  <2>2. [run |-> u.run, no |-> u.no, slot |-> u.slot, st |-> "running",
         origin |-> "spawned"] \in Process
    BY <2>1 DEF Process
  <2>3. QED
    BY <1>8, <2>1, <2>2 DEF Spawn, Status
<1>9. ASSUME NEW u \in setups, RestoreFails(u) PROVE TypeOK'
  <2>1. u.run \in Runs /\ u.slot \in Slots
    BY DEF Setup
  <2>2. slotRun' \in [Slots -> Runs \cup {NoRun}]
    BY <1>9 DEF RestoreFails, FreeNow
  <2>3. CASE ReleaseWaits(u.run)
    <3>1. setups' \subseteq Setup
      BY <1>9, <2>3, MovedSetup DEF RestoreFails
    <3>2. teardowns' \subseteq Teardown
      BY <1>9, <2>1, <2>3, CallTypes DEF RestoreFails
    <3>3. QED
      BY <1>9, <2>2, <2>3, <3>1, <3>2 DEF RestoreFails
  <2>4. CASE ~ReleaseWaits(u.run)
    <3>1. setups' = setups \ {u} /\ FailRun(u.run, teardowns, FreeNow(u.run))
      BY <1>9, <2>4 DEF RestoreFails
    <3>2. QED
      BY <1>9, <2>1, <2>2, <3>1, FailTypes DEF RestoreFails
  <2>5. QED
    BY <2>3, <2>4
<1>10. ASSUME NEW p \in procs, Edit(p) PROVE TypeOK'
  <2>1. p.run \in Runs /\ p.slot \in Slots
    BY DEF Process
  <2>2. edits[p.run] + 1 \in 0..MaxEdits
    BY <1>10, <2>1 DEF Edit
  <2>3. QED
    BY <1>10, <2>1, <2>2 DEF Edit
<1>11. ASSUME NEW p \in procs, TurnStarts(p) \/ TurnEnds(p) PROVE TypeOK'
  BY <1>11 DEF TurnStarts, TurnEnds, Status
<1>12. ASSUME NEW p \in procs, Exit(p) PROVE TypeOK'
  <2>1. p.run \in Runs
    BY DEF Process
  <2>2. teardowns' \subseteq Teardown
    <3>1. \A c \in Callers(p) : PersistCall(c, p.run, slotRun) \subseteq Teardown
      BY <2>1, CallTypes DEF Callers
    <3>2. QED
      BY <1>12, <3>1 DEF Exit
  <2>3. handle' \in [Runs -> 0..MaxSpawn] /\ status' \in [Runs -> Status]
    <3>1. CASE Resolved(p.run, Callers(p))
      BY <3>1, ResolvedTypes
    <3>2. CASE UNCHANGED <<handle, status>>
      BY <3>2
    <3>3. QED
      BY <1>12, <3>1, <3>2 DEF Exit
  <2>4. child' \in [Runs -> 0..MaxSpawn]
    BY <1>12, <2>1 DEF Exit
  <2>5. procs' \subseteq Process
    BY <1>12 DEF Exit
  <2>6. UNCHANGED <<slotRun, mounted, disk, durable, edits, unsaved, setups, spawned,
                    restarts>>
    BY <1>12 DEF Exit
  <2>7. QED
    BY <2>2, <2>3, <2>4, <2>5, <2>6
<1>13. ASSUME NEW t \in teardowns, CopyDone(t) PROVE TypeOK'
  <2>1. /\ t.run \in Runs \cup {NoRun}
        /\ t.slot \in Slots
        /\ t.by \in {"exit", "destroy", "reconcile", "undo"}
    BY DEF Teardown
  <2>2. durable' \in [Runs -> Tree] /\ unsaved' \in [Runs -> 0..MaxEdits]
    BY <1>13, <2>1 DEF CopyDone
  <2>3. slotRun' \in [Slots -> Runs \cup {NoRun}]
    BY <1>13 DEF CopyDone, FreeNow
  <2>4. UNCHANGED <<mounted, disk, edits, spawned, restarts>>
    BY <1>13 DEF CopyDone
  <2>5. CASE Resolve(t)
    BY <2>2, <2>3, <2>4, <2>5, ResolveTypes
  <2>6. CASE /\ teardowns' = (teardowns \ {t}) \cup ReleaseCall(t.by, t.run)
             /\ UNCHANGED <<handle, status, setups, procs, child>>
    BY <2>1, <2>2, <2>3, <2>4, <2>6, CallTypes
  <2>7. QED
    BY <1>13, <2>5, <2>6 DEF CopyDone
<1>14. ASSUME NEW t \in teardowns, UmountDone(t) PROVE TypeOK'
  <2>1. t.slot \in Slots /\ Resolve(t)
    BY <1>14 DEF Teardown, UmountDone
  <2>2. /\ slotRun' \in [Slots -> Runs \cup {NoRun}]
        /\ mounted' \in [Slots -> BOOLEAN]
        /\ disk' \in [Slots -> Tree]
        /\ UNCHANGED <<durable, edits, unsaved, spawned, restarts>>
    BY <1>14, <2>1 DEF UmountDone
  <2>3. QED
    BY <2>1, <2>2, ResolveTypes
<1>15. ASSUME NEW s \in Slots, Reconcile(s) PROVE TypeOK'
  <2>1. [by |-> "reconcile", run |-> slotRun[s], slot |-> s, pc |-> "umount"]
          \in Teardown
    BY DEF Teardown
  <2>2. QED
    BY <1>15, <2>1 DEF Reconcile
<1>16. ASSUME Restart PROVE TypeOK'
  <2>1. procs' \subseteq Process
    <3>1. PICK alive \in SUBSET procs :
            procs' = {[p EXCEPT !.origin = IF Adopted(p) THEN "adopted" ELSE "orphan"] :
                        p \in alive}
      BY <1>16 DEF Restart
    <3>2. \A p \in procs :
            [p EXCEPT !.origin = IF Adopted(p) THEN "adopted" ELSE "orphan"] \in Process
      BY DEF Process
    <3>3. QED
      BY <3>1, <3>2
  <2>2. handle' \in [Runs -> 0..MaxSpawn] /\ status' \in [Runs -> Status]
    BY <1>16 DEF Restart, Status
  <2>3. QED
    BY <1>16, <2>1, <2>2 DEF Restart
<1>17. QED
  BY <1>1, <1>2, <1>3, <1>4, <1>5, <1>6, <1>7, <1>8, <1>9, <1>10, <1>11, <1>12,
     <1>13, <1>14, <1>15, <1>16 DEF Next

\* Type correctness: no interleaving of the awaits takes a variable out of its
\* domain (a slot number, a process number, a tree of a known run).
THEOREM TypeCorrect == Spec => []TypeOK
<1>1. Init => TypeOK
  BY SlotCountAssumption, NoRunAssumption, BoundsAssumption
     DEF Init, TypeOK, Slots, Tree, EmptyTree, Status
<1>2. TypeOK /\ UNCHANGED vars => TypeOK'
  BY DEF TypeOK, vars
<1>3. TypeOK /\ [Next]_vars => TypeOK'
  BY <1>2, TypeStep
<1>4. QED
  BY <1>1, <1>3, PTL DEF Spec

-----------------------------------------------------------------------------
\* Every step but a claim only ever frees slots.
LEMMA OnlyClaimsBind ==
  ASSUME TypeOK, Next, ~ \E r \in Runs, g \in BOOLEAN : Provision(r, g)
  PROVE  \A s \in Slots : slotRun'[s] \in {slotRun[s], NoRun}
<1> USE DEF TypeOK
<1>1. ASSUME NEW u \in setups, RestoreFails(u)
      PROVE  \A s \in Slots : slotRun'[s] \in {slotRun[s], NoRun}
  BY <1>1 DEF RestoreFails, FreeNow
<1>2. ASSUME NEW t \in teardowns, CopyDone(t) \/ UmountDone(t)
      PROVE  \A s \in Slots : slotRun'[s] \in {slotRun[s], NoRun}
  BY <1>2 DEF CopyDone, UmountDone, FreeNow
<1>3. ASSUME NEW s \in Slots, Reconcile(s)
      PROVE  \A x \in Slots : slotRun'[x] \in {slotRun[x], NoRun}
  BY <1>3 DEF Reconcile
<1>4. ASSUME Restart
      PROVE  \A s \in Slots : slotRun'[s] \in {slotRun[s], NoRun}
  BY <1>4 DEF Restart
<1>5. ASSUME NEW r \in Runs, NEW to, Expire(r) \/ Fail(r) \/ Destroy(r) \/ Settle(r, to)
      PROVE  UNCHANGED slotRun
  BY <1>5 DEF Expire, Fail, Destroy, Settle
<1>6. ASSUME NEW u \in setups, MountDone(u) \/ MountFails(u) \/ Spawn(u)
      PROVE  UNCHANGED slotRun
  BY <1>6 DEF MountDone, MountFails, Spawn
<1>7. ASSUME NEW p \in procs, Edit(p) \/ TurnStarts(p) \/ TurnEnds(p) \/ Exit(p)
      PROVE  UNCHANGED slotRun
  BY <1>7 DEF Edit, TurnStarts, TurnEnds, Exit
<1>8. QED
  BY <1>1, <1>2, <1>3, <1>4, <1>5, <1>6, <1>7 DEF Next

\* A run is never bound to two slots, with stop requests, overlapping setups,
\* restarts and every disk fault allowed: claimVmSlot looks for the run before it
\* looks for an idle slot, and both happen before its first await.
THEOREM BoundOnce == Spec => []SlotBoundOnce
<1>1. Init => SlotBoundOnce
  BY DEF Init, SlotBoundOnce
<1>2. TypeOK /\ SlotBoundOnce /\ [Next]_vars => SlotBoundOnce'
  <2> SUFFICES ASSUME TypeOK, SlotBoundOnce, [Next]_vars
               PROVE  SlotBoundOnce'
    OBVIOUS
  <2>1. CASE UNCHANGED vars
    BY <2>1 DEF vars, SlotBoundOnce
  <2>2. ASSUME NEW r \in Runs, NEW g \in BOOLEAN, Provision(r, g) PROVE SlotBoundOnce'
    <3>1. CASE Reclaim(r, g)
      BY <3>1 DEF Reclaim, SlotBoundOnce
    <3>2. CASE ClaimIdle(r, g)
      <4>1. \A s \in Slots : slotRun[s] # r
        BY <3>2 DEF ClaimIdle, SlotsOf, SlotsIn
      <4>2. \A s \in Slots : slotRun'[s] = r \/ slotRun'[s] = slotRun[s]
        BY <3>2 DEF ClaimIdle, TypeOK
      <4>3. \A s \in Slots : slotRun'[s] = r => s = First(SlotsOf(NoRun))
        BY <3>2, <4>1 DEF ClaimIdle, TypeOK
      <4>4. QED
        BY <4>1, <4>2, <4>3 DEF SlotBoundOnce
    <3>3. QED
      BY <2>2, <3>1, <3>2 DEF Provision
  <2>3. CASE Next /\ ~ \E r \in Runs, g \in BOOLEAN : Provision(r, g)
    <3>1. \A s \in Slots : slotRun'[s] \in {slotRun[s], NoRun}
      BY <2>3, OnlyClaimsBind
    <3>2. QED
      BY <3>1 DEF SlotBoundOnce
  <2>4. QED
    BY <2>1, <2>2, <2>3
<1>3. QED
  BY <1>1, <1>2, TypeCorrect, PTL DEF Spec

-----------------------------------------------------------------------------
(* The slots are exclusive as long as a worker leaves its slot by exiting,   *)
(* the control plane stays up, and an unguarded setup is neither overtaken   *)
(* by a second one nor slower than the heartbeat timeout: then each slot has *)
(* one releaser.                                                             *)
Quiet == ~StopRequests /\ MaxRestarts = 0 /\ Overlaps = {}

WorkerInv ==
  \A p \in procs :
    /\ slotRun[p.slot] = p.run
    /\ handle[p.run] # 0
    /\ p.st = "running" /\ p.origin = "spawned"
    /\ \A q \in procs : p.run = q.run => p = q

SetupInv ==
  \A u \in setups :
    /\ slotRun[u.slot] = u.run
    /\ handle[u.run] = 0 /\ status[u.run] = "live"
    /\ u.pc = "mounting" => ~mounted[u.slot]
    /\ \A w \in setups : w.run = u.run => w = u

TeardownInv ==
  \A t \in teardowns :
    /\ t.run \in Runs
    /\ slotRun[t.slot] = t.run
    /\ \/ /\ t.by = "exit"
          /\ handle[t.run] # 0
          /\ \A p \in procs : p.run # t.run
       \/ /\ t.by = "undo" /\ t.pc = "umount"
          /\ \E u \in setups : u.run = t.run /\ u.pc = "undoing"
    /\ \A u \in teardowns : t.run = u.run => t = u

StatusInv == \A r \in Runs : handle[r] # 0 => status[r] \in {"live", "idle"}

\* The run of a mounted slot has a worker, a worker's handle or a setup.
MountInv ==
  \A s \in Slots : mounted[s] =>
    /\ slotRun[s] # NoRun
    /\ handle[slotRun[s]] # 0 \/ \E u \in setups : u.run = slotRun[s]

QuietInv == WorkerInv /\ SetupInv /\ TeardownInv /\ StatusInv /\ MountInv

\* The one slot a run is bound to, where the code searches for it.
LEMMA OnlySlot ==
  ASSUME SlotBoundOnce, NEW s \in Slots, slotRun[s] # NoRun
  PROVE  SlotsOf(slotRun[s]) = {s}
BY DEF SlotsOf, SlotsIn, SlotBoundOnce

\* The reconciler leaves alone whoever works or is set up on a slot.
LEMMA UsersLive ==
  ASSUME TypeOK, QuietInv
  PROVE  /\ \A p \in procs : Live(p.run)
         /\ \A u \in setups : Live(u.run)
         /\ \A t \in teardowns : Live(t.run)
         /\ \A s \in Slots : mounted[s] => slotRun[s] # NoRun /\ Live(slotRun[s])
<1> USE DEF TypeOK, QuietInv, WorkerInv, SetupInv, TeardownInv, StatusInv, MountInv
<1>1. \A p \in procs : Live(p.run)
  BY DEF Live, Process
<1>2. \A u \in setups : Live(u.run)
  BY DEF Live
<1>3. \A t \in teardowns : Live(t.run)
  BY DEF Live
<1>4. \A s \in Slots : mounted[s] => slotRun[s] # NoRun /\ Live(slotRun[s])
  BY <1>2 DEF Live
<1>5. QED
  BY <1>1, <1>2, <1>3, <1>4

\* A setup that fails leaves a run without a worker: there is none to stop.
LEMMA FailedSetup ==
  ASSUME TypeOK, NEW r \in Runs, handle[r] = 0, NEW calls, NEW table,
         FailRun(r, calls, table)
  PROVE  /\ status' = [status EXCEPT ![r] = "other"]
         /\ teardowns' = calls
         /\ UNCHANGED <<handle, procs, child>>
BY DEF FailRun, TypeOK

\* With the only setup of a run gone and its slot free or not mounted, the
\* invariant holds on: what failed mounts, restores and undos have in common.
LEMMA SetupGone ==
  ASSUME TypeOK, SlotBoundOnce, QuietInv, NEW u \in setups,
         setups' = setups \ {u}, status' = [status EXCEPT ![u.run] = "other"],
         UNCHANGED <<handle, procs>>,
         teardowns' \subseteq teardowns, \A t \in teardowns' : t.run # u.run,
         \A s \in Slots : slotRun'[s] = slotRun[s] \/ (slotRun[s] = u.run /\ slotRun'[s] = NoRun),
         \A s \in Slots : mounted'[s] => mounted[s] /\ s # u.slot
  PROVE  QuietInv'
<1> USE NoRunAssumption
<1> USE DEF TypeOK, QuietInv
<1>1. u.run \in Runs /\ u.slot \in Slots /\ slotRun[u.slot] = u.run /\ handle[u.run] = 0
  BY DEF Setup, SetupInv
<1>2. \A w \in setups' : w \in setups /\ w.run # u.run /\ w.run \in Runs /\ w.slot \in Slots
  BY DEF Setup, SetupInv
<1>3. \A s \in Slots : s # u.slot => slotRun[s] # u.run
  BY <1>1 DEF SlotBoundOnce
<1>4. \A s \in Slots : s # u.slot => slotRun'[s] = slotRun[s]
  BY <1>3
<1>5. WorkerInv'
  <2>1. \A p \in procs : p.run # u.run /\ p.slot \in Slots /\ p.run \in Runs
    BY <1>1 DEF WorkerInv, Process
  <2>2. QED
    BY <2>1, <1>1 DEF WorkerInv
<1>6. SetupInv'
  BY <1>1, <1>2 DEF SetupInv
<1>7. TeardownInv'
  <2>1. \A t \in teardowns' : t.slot \in Slots
    BY DEF Teardown
  <2>2. QED
    BY <1>2, <2>1 DEF TeardownInv
<1>8. StatusInv'
  BY <1>1 DEF StatusInv
<1>9. MountInv'
  <2>1. ASSUME NEW s \in Slots, mounted'[s]
        PROVE  /\ slotRun'[s] # NoRun
               /\ handle'[slotRun'[s]] # 0 \/ \E w \in setups' : w.run = slotRun'[s]
    <3>1. mounted[s] /\ s # u.slot /\ slotRun'[s] = slotRun[s] /\ slotRun[s] # u.run
      BY <2>1, <1>3, <1>4
    <3>2. QED
      BY <3>1 DEF MountInv
  <2>2. QED
    BY <2>1 DEF MountInv
<1>10. QED
  BY <1>5, <1>6, <1>7, <1>8, <1>9

\* Every step keeps the quiet invariant: one step per action, and under the
\* steps of a teardown one case per state of the mount.
LEMMA QuietStep ==
  ASSUME Quiet, TypeOK, SlotBoundOnce, QuietInv, Next
  PROVE  QuietInv'
<1> USE DEF TypeOK, QuietInv, WorkerInv, SetupInv, TeardownInv, StatusInv, MountInv
<1> USE NoRunAssumption
<1>p. \A p \in procs : p.run \in Runs /\ p.slot \in Slots
  BY DEF Process
<1>t. \A t \in teardowns : t.slot \in Slots
  BY DEF Teardown
<1>s. \A u \in setups : u.run \in Runs /\ u.slot \in Slots /\ u.no # 0
  BY DEF Setup
<1>1. ASSUME NEW r \in Runs, NEW g \in BOOLEAN, Provision(r, g) PROVE QuietInv'
  <2>0. /\ handle[r] = 0 /\ spawned[r] < MaxSpawn
        /\ \A u \in setups : u.run # r
        /\ status' = [status EXCEPT ![r] = "live"]
        /\ UNCHANGED <<mounted, procs, handle, teardowns>>
    BY <1>1 DEF Provision, Reclaim, ClaimIdle, SetupsOf, Quiet
  <2>1. PICK s \in Slots, w \in Setup :
          /\ w.run = r /\ w.slot = s /\ setups' = setups \cup {w}
          /\ \/ w.pc = "restoring" /\ slotRun[s] = r /\ slotRun' = slotRun
             \/ w.pc = "mounting" /\ slotRun[s] = NoRun
                /\ slotRun' = [slotRun EXCEPT ![s] = r]
    <3>1. CASE Reclaim(r, g)
      BY <2>0, <3>1, FirstOfRun, BegunSetup DEF Reclaim
    <3>2. CASE ClaimIdle(r, g)
      <4>1. PICK s \in Slots :
              /\ slotRun[s] = NoRun /\ slotRun' = [slotRun EXCEPT ![s] = r]
              /\ Began(r, s, "mounting", g)
        BY <3>2, FirstOfRun DEF ClaimIdle
      <4>2. PICK w \in Setup : /\ w.run = r /\ w.slot = s /\ w.pc = "mounting"
                               /\ setups' = setups \cup {w}
        BY <2>0, <4>1, BegunSetup
      <4>3. QED
        BY <4>1, <4>2
    <3>3. QED
      BY <1>1, <3>1, <3>2 DEF Provision
  <2>2. \A x \in Slots : slotRun[x] # NoRun => slotRun'[x] = slotRun[x]
    BY <2>1
  <2>3. slotRun'[s] = r /\ (w.pc = "mounting" => ~mounted[s])
    BY <2>1
  <2>4. WorkerInv'
    BY <1>p, <2>0, <2>2
  <2>5. SetupInv'
    BY <1>s, <2>0, <2>1, <2>2, <2>3
  <2>6. TeardownInv'
    BY <1>t, <2>0, <2>1, <2>2
  <2>7. StatusInv' /\ MountInv'
    BY <2>0, <2>1, <2>2
  <2>8. QED
    BY <2>4, <2>5, <2>6, <2>7
<1>2. ASSUME NEW r \in Runs, Expire(r) PROVE QuietInv'
  <2>1. /\ handle[r] = 0 /\ \A u \in setups : u.run # r
        /\ status' = [status EXCEPT ![r] = "other"]
        /\ UNCHANGED <<slotRun, mounted, setups, procs, handle, teardowns>>
    BY <1>2 DEF Expire, SetupsOf, Quiet
  <2>2. QED
    BY <1>s, <2>1
<1>3. ASSUME NEW u \in setups, MountDone(u) PROVE QuietInv'
  <2>1. PICK w \in Setup : /\ w.run = u.run /\ w.slot = u.slot /\ w.pc = "restoring"
                           /\ setups' = (setups \ {u}) \cup {w}
    BY <1>3, MovedSetup DEF MountDone
  <2>2. /\ mounted' = [mounted EXCEPT ![u.slot] = TRUE] /\ u.pc = "mounting"
        /\ UNCHANGED <<slotRun, procs, handle, status, teardowns>>
    BY <1>3 DEF MountDone
  <2>3. \A x \in setups : x.slot = u.slot => x = u
    OBVIOUS
  <2>4. SetupInv'
    BY <1>s, <2>1, <2>2, <2>3
  <2>5. TeardownInv'
    BY <1>s, <2>1, <2>2
  <2>6. MountInv'
    BY <1>s, <2>1, <2>2
  <2>7. WorkerInv' /\ StatusInv'
    BY <2>2
  <2>8. QED
    BY <2>4, <2>5, <2>6, <2>7
<1>4. ASSUME NEW u \in setups, MountFails(u) PROVE QuietInv'
  <2>1. /\ status' = [status EXCEPT ![u.run] = "other"] /\ teardowns' = teardowns
        /\ UNCHANGED <<handle, procs>>
    BY <1>4, <1>s, FailedSetup DEF MountFails
  <2>2. /\ u.pc = "mounting" /\ setups' = setups \ {u}
        /\ UNCHANGED <<slotRun, mounted>>
    BY <1>4 DEF MountFails
  <2>3. \A t \in teardowns' : t.run # u.run
    BY <2>1, <2>2
  <2>4. \A s \in Slots : mounted'[s] => mounted[s] /\ s # u.slot
    BY <2>2
  <2>5. \A s \in Slots : slotRun'[s] = slotRun[s]
    BY <2>2
  <2>6. QED
    BY <2>1, <2>2, <2>3, <2>4, <2>5, SetupGone
<1>5. ASSUME NEW u \in setups, Spawn(u) PROVE QuietInv'
  <2>1. PICK q \in Process :
          /\ q.run = u.run /\ q.slot = u.slot /\ q.st = "running" /\ q.origin = "spawned"
          /\ procs' = procs \cup {q}
    <3>1. u.no \in 1..MaxSpawn
      BY DEF Setup
    <3>2. [run |-> u.run, no |-> u.no, slot |-> u.slot, st |-> "running",
           origin |-> "spawned"] \in Process
      BY <1>s, <3>1 DEF Process
    <3>3. QED
      BY <1>5, <3>2 DEF Spawn
  <2>2. /\ handle' = [handle EXCEPT ![u.run] = u.no]
        /\ status' = [status EXCEPT ![u.run] = "live"]
        /\ setups' = setups \ {u} /\ u.pc = "restoring"
        /\ UNCHANGED <<slotRun, mounted, teardowns>>
    BY <1>5 DEF Spawn
  <2>3. \A t \in teardowns : t.run # u.run
    BY <2>2
  <2>4. WorkerInv'
    BY <1>p, <1>s, <2>1, <2>2
  <2>5. SetupInv'
    BY <1>s, <2>2
  <2>6. TeardownInv'
    BY <1>s, <2>1, <2>2, <2>3
  <2>7. StatusInv' /\ MountInv'
    BY <1>s, <2>2
  <2>8. QED
    BY <2>4, <2>5, <2>6, <2>7
<1>6. ASSUME NEW u \in setups, RestoreFails(u) PROVE QuietInv'
  <2>0. u.run \in Runs /\ u.slot \in Slots /\ handle[u.run] = 0 /\ u.pc = "restoring"
    BY <1>s, <1>6 DEF RestoreFails
  <2>1. SlotsOf(u.run) = {u.slot}
    BY <2>0, OnlySlot
  <2>2. \A t \in teardowns : t.run # u.run
    BY <2>0
  <2>3. CASE mounted[u.slot]
    <3>1. ReleaseWaits(u.run) /\ FreeNow(u.run) = slotRun
      BY <2>1, <2>3 DEF ReleaseWaits, FreeNow, SlotsOf, SlotsIn
    <3>2. teardowns' = teardowns \cup
            {[by |-> "undo", run |-> u.run, slot |-> u.slot, pc |-> "umount"]}
      BY <1>6, <2>1, <2>3, <3>1 DEF RestoreFails, ReleaseCall
    <3>3. PICK w \in Setup : /\ w.run = u.run /\ w.slot = u.slot /\ w.pc = "undoing"
                             /\ setups' = (setups \ {u}) \cup {w}
      BY <1>6, <3>1, MovedSetup DEF RestoreFails
    <3>4. UNCHANGED <<slotRun, mounted, procs, handle, status>>
      BY <1>6, <3>1 DEF RestoreFails
    <3>5. WorkerInv' /\ StatusInv' /\ SetupInv' /\ MountInv'
      BY <1>s, <3>3, <3>4
    <3>6. TeardownInv'
      BY <1>s, <2>0, <2>2, <3>2, <3>3, <3>4
    <3>7. QED
      BY <3>5, <3>6
  <2>4. CASE ~mounted[u.slot]
    <3>1. ~ReleaseWaits(u.run)
      BY <2>1, <2>4 DEF ReleaseWaits
    <3>2. /\ slotRun' = FreeNow(u.run) /\ setups' = setups \ {u} /\ mounted' = mounted
          /\ FailRun(u.run, teardowns, FreeNow(u.run))
      BY <1>6, <3>1 DEF RestoreFails
    <3>3. /\ status' = [status EXCEPT ![u.run] = "other"] /\ teardowns' = teardowns
          /\ UNCHANGED <<handle, procs>>
      BY <2>0, <3>2, FailedSetup
    <3>4. \A s \in Slots : slotRun'[s] = slotRun[s]
                           \/ (slotRun[s] = u.run /\ slotRun'[s] = NoRun)
      BY <3>2 DEF FreeNow
    <3>5. \A s \in Slots : mounted'[s] => mounted[s] /\ s # u.slot
      BY <2>4, <3>2
    <3>6. \A t \in teardowns' : t.run # u.run
      BY <2>2, <3>3
    <3>7. QED
      BY <3>2, <3>3, <3>4, <3>5, <3>6, SetupGone
  <2>5. QED
    BY <2>3, <2>4
<1>7. ASSUME NEW p \in procs, Edit(p) PROVE QuietInv'
  <2>1. UNCHANGED <<slotRun, mounted, status, setups, procs, handle, teardowns>>
    BY <1>7 DEF Edit
  <2>2. QED
    BY <2>1
<1>8. ASSUME NEW p \in procs, TurnStarts(p) \/ TurnEnds(p) PROVE QuietInv'
  <2>1. PICK st \in {"live", "idle"} : status' = [status EXCEPT ![p.run] = st]
    BY <1>8 DEF TurnStarts, TurnEnds
  <2>2. UNCHANGED <<slotRun, mounted, setups, procs, handle, teardowns>>
    BY <1>8 DEF TurnStarts, TurnEnds
  <2>3. \A u \in setups : u.run # p.run
    OBVIOUS
  <2>4. QED
    BY <1>p, <1>s, <2>1, <2>2, <2>3
<1>9. ASSUME NEW p \in procs, Exit(p) PROVE QuietInv'
  <2>1. SlotsOf(p.run) = {p.slot}
    BY <1>p, OnlySlot
  <2>2. Callers(p) = {"exit"}
    BY DEF Callers
  <2>3. teardowns' = teardowns \cup
          {[by |-> "exit", run |-> p.run, slot |-> p.slot, pc |-> "copy"]}
    <3>1. PersistCall("exit", p.run, slotRun) =
            {[by |-> "exit", run |-> p.run, slot |-> p.slot, pc |-> "copy"]}
      BY <2>1 DEF PersistCall, SlotsOf
    <3>2. QED
      BY <1>9, <2>2, <3>1 DEF Exit
  <2>4. /\ procs' = procs \ {p}
        /\ UNCHANGED <<slotRun, mounted, setups, handle, status>>
    BY <1>9, <2>1 DEF Exit
  <2>5. \A t \in teardowns : t.run # p.run
    OBVIOUS
  <2>6. WorkerInv' /\ SetupInv' /\ StatusInv' /\ MountInv'
    BY <2>4
  <2>7. TeardownInv'
    BY <1>p, <2>3, <2>4, <2>5
  <2>8. QED
    BY <2>6, <2>7
<1>10. ASSUME NEW t \in teardowns, CopyDone(t) PROVE QuietInv'
  <2>1. SlotsOf(t.run) = {t.slot} /\ t.slot \in Slots
    BY <1>t, OnlySlot
  <2>2. t.by = "exit" /\ t.run \in Runs
    BY <1>10 DEF CopyDone
  <2>3. CASE mounted[t.slot]
    <3>1. ReleaseWaits(t.run) /\ FreeNow(t.run) = slotRun
      BY <2>1, <2>3 DEF ReleaseWaits, FreeNow, SlotsOf, SlotsIn
    <3>2. teardowns' = (teardowns \ {t}) \cup
            {[by |-> "exit", run |-> t.run, slot |-> t.slot, pc |-> "umount"]}
      BY <1>10, <2>1, <2>2, <2>3, <3>1 DEF CopyDone, ReleaseCall
    <3>3. UNCHANGED <<slotRun, mounted, setups, procs, handle, status>>
      BY <1>10, <3>1 DEF CopyDone
    <3>4. WorkerInv' /\ SetupInv' /\ StatusInv' /\ MountInv'
      BY <3>3
    <3>5. TeardownInv'
      BY <2>2, <3>2, <3>3
    <3>6. QED
      BY <3>4, <3>5
  <2>4. CASE ~mounted[t.slot]
    <3>1. ~ReleaseWaits(t.run)
      BY <2>1, <2>4 DEF ReleaseWaits
    <3>2. /\ slotRun' = FreeNow(t.run) /\ mounted' = mounted
          /\ Resolve(t)
      BY <1>10, <3>1 DEF CopyDone
    <3>3. /\ teardowns' = teardowns \ {t}
          /\ handle' = [handle EXCEPT ![t.run] = 0]
          /\ \A r \in Runs : r # t.run => status'[r] = status[r]
          /\ UNCHANGED <<setups, procs>>
      BY <2>2, <3>2 DEF Resolve, Resolved
    <3>4. \A s \in Slots :
            slotRun'[s] = IF slotRun[s] = t.run THEN NoRun ELSE slotRun[s]
      BY <2>1, <2>4, <3>2 DEF FreeNow, SlotsOf, SlotsIn
    <3>5. \A u \in setups : u.run # t.run
      BY <2>2
    <3>6. WorkerInv' /\ SetupInv' /\ StatusInv'
      BY <1>p, <1>s, <2>2, <3>2, <3>3, <3>4, <3>5
    <3>7. TeardownInv'
      BY <1>t, <2>2, <3>3, <3>4
    <3>8. MountInv'
      BY <2>1, <2>2, <2>4, <3>2, <3>3, <3>4 DEF SlotsOf, SlotsIn
    <3>9. QED
      BY <3>6, <3>7, <3>8
  <2>5. QED
    BY <2>3, <2>4
<1>11. ASSUME NEW t \in teardowns, UmountDone(t) PROVE QuietInv'
  <2>0. t.slot \in Slots /\ t.run \in Runs /\ slotRun[t.slot] = t.run
    BY <1>t
  <2>1. SlotsOf(t.run) = {t.slot}
    BY <2>0, OnlySlot
  <2>2. /\ slotRun' = [slotRun EXCEPT ![t.slot] = NoRun]
        /\ mounted' = [mounted EXCEPT ![t.slot] = FALSE]
        /\ Resolve(t)
    BY <1>11 DEF UmountDone
  <2>3. \A s \in Slots : slotRun[s] = t.run <=> s = t.slot
    BY <2>0, <2>1 DEF SlotsOf, SlotsIn
  <2>4. CASE t.by = "exit"
    <3>1. /\ teardowns' = teardowns \ {t}
          /\ handle' = [handle EXCEPT ![t.run] = 0]
          /\ \A r \in Runs : r # t.run => status'[r] = status[r]
          /\ UNCHANGED <<setups, procs>>
      BY <2>0, <2>2, <2>4 DEF Resolve, Resolved
    <3>2. \A u \in setups : u.run # t.run
      BY <2>4
    <3>3. WorkerInv' /\ SetupInv' /\ StatusInv'
      BY <1>p, <1>s, <2>0, <2>2, <2>3, <2>4, <3>1, <3>2
    <3>4. TeardownInv'
      BY <1>t, <2>0, <2>2, <2>3, <3>1
    <3>5. MountInv'
      BY <2>0, <2>2, <2>3, <3>1
    <3>6. QED
      BY <3>3, <3>4, <3>5
  <2>5. CASE t.by = "undo"
    <3>1. PICK u \in setups : u.run = t.run /\ u.pc = "undoing" /\ u.slot = t.slot
      BY <1>s, <2>3, <2>5
    <3>2. setups' = setups \ {u} /\ FailRun(t.run, teardowns \ {t}, slotRun')
      BY <2>2, <2>5, <3>1 DEF Resolve
    <3>3. /\ status' = [status EXCEPT ![u.run] = "other"]
          /\ teardowns' = teardowns \ {t}
          /\ UNCHANGED <<handle, procs>>
      BY <2>0, <3>1, <3>2, FailedSetup
    <3>4. \A x \in teardowns' : x.run # u.run
      BY <3>1, <3>3
    <3>5. \A s \in Slots : mounted'[s] => mounted[s] /\ s # u.slot
      BY <2>0, <2>2, <3>1
    <3>6. \A s \in Slots : slotRun'[s] = slotRun[s]
                           \/ (slotRun[s] = u.run /\ slotRun'[s] = NoRun)
      BY <2>0, <2>2, <3>1
    <3>7. QED
      BY <3>2, <3>3, <3>4, <3>5, <3>6, SetupGone
  <2>6. QED
    BY <2>4, <2>5
<1>12. ASSUME NEW s \in Slots, Reconcile(s) PROVE QuietInv'
  <2>1. slotRun[s] # NoRun /\ ~Live(slotRun[s]) /\ ~mounted[s]
    BY <1>12, UsersLive DEF Reconcile
  <2>2. /\ slotRun' = [slotRun EXCEPT ![s] = NoRun]
        /\ UNCHANGED <<mounted, setups, procs, handle, status, teardowns>>
    BY <1>12, <2>1 DEF Reconcile
  <2>3. /\ \A p \in procs : p.slot # s
        /\ \A u \in setups : u.slot # s
        /\ \A t \in teardowns : t.slot # s
    BY <2>1, UsersLive
  <2>4. WorkerInv' /\ SetupInv' /\ StatusInv'
    BY <1>p, <1>s, <2>2, <2>3
  <2>5. TeardownInv'
    BY <1>t, <2>2, <2>3
  <2>6. MountInv'
    BY <2>1, <2>2
  <2>7. QED
    BY <2>4, <2>5, <2>6
<1>13. /\ ~Restart
       /\ \A r \in Runs : ~Fail(r) /\ ~Destroy(r) /\ \A to : ~Settle(r, to)
  BY DEF Quiet, Restart, Fail, Destroy, Settle
<1>14. QED
  BY <1>1, <1>2, <1>3, <1>4, <1>5, <1>6, <1>7, <1>8, <1>9, <1>10, <1>11, <1>12,
     <1>13 DEF Next

\* The quiet invariant holds of every behaviour of a quiet environment.
LEMMA QuietInvariant ==
  ASSUME Quiet
  PROVE  Spec => []QuietInv
<1> USE DEF QuietInv, WorkerInv, SetupInv, TeardownInv, StatusInv, MountInv
<1>1. Init => QuietInv
  BY DEF Init
<1>2. QuietInv /\ UNCHANGED vars => QuietInv'
  BY DEF vars
<1>3. TypeOK /\ SlotBoundOnce /\ QuietInv /\ [Next]_vars => QuietInv'
  BY <1>2, QuietStep
<1>4. QED
  BY <1>1, <1>3, TypeCorrect, BoundOnce, PTL DEF Spec

\* No two live workers of different runs share a slot, and a live worker keeps its
\* slot, when workers leave by exiting, the control plane stays up, a follow-up does
\* not start a run that is being set up, and a setup of a follow-up or of the queue
\* takes less than the heartbeat timeout (createRun's may take any time).  Each
\* hypothesis is needed: VmSlotsStop, VmSlotsRestart, VmSlotsAgain and VmSlotsSlow
\* refute the conclusions without it.
THEOREM QuietExclusive ==
  ASSUME Quiet
  PROVE  Spec => [](SlotExclusive /\ WorkerKeepsSlot)
<1>1. QuietInv => SlotExclusive /\ WorkerKeepsSlot
  BY DEF QuietInv, WorkerInv, SlotExclusive, WorkerKeepsSlot
<1>2. QED
  BY <1>1, QuietInvariant, PTL

-----------------------------------------------------------------------------
(* The slot table implements SlotLease.                                      *)

SlotUsers == [s \in Slots |-> {p.run : p \in {q \in procs : q.slot = s}}]

\* A step that changes neither the slot table nor the processes is a stutter.
LEMMA LeaseStutter ==
  ASSUME UNCHANGED <<slotRun, procs>>
  PROVE  UNCHANGED Lease!vars
BY DEF Lease!vars

\* Marking a slot idle gives its lease back, if no worker is on it.
LEMMA LeaseBack ==
  ASSUME NEW s \in Slots, slotRun[s] # NoRun,
         \A p \in procs : p.slot # s,
         slotRun' = [slotRun EXCEPT ![s] = NoRun], procs' = procs
  PROVE  Lease!LeaseNext
<1>1. SlotUsers[s] = {} /\ SlotUsers' = SlotUsers
  BY DEF SlotUsers
<1>2. Lease!GiveBack(s)
  BY <1>1 DEF Lease!GiveBack, SlotUsers
<1>3. QED
  BY <1>2 DEF Lease!LeaseNext

\* What FreeNow computes when the run holds one slot.
LEMMA FreeNowOne ==
  ASSUME TypeOK, NEW s \in Slots, SlotsOf(slotRun[s]) = {s}, ~mounted[s]
  PROVE  FreeNow(slotRun[s]) = [slotRun EXCEPT ![s] = NoRun]
BY DEF FreeNow, SlotsOf, SlotsIn, TypeOK

\* Every step of the slot table is a step of the lease, or a stutter.
LEMMA LeaseStep ==
  ASSUME Quiet, TypeOK, SlotBoundOnce, QuietInv, Next
  PROVE  Lease!LeaseNext \/ UNCHANGED Lease!vars
<1> USE NoRunAssumption DEF TypeOK
<1>p. \A p \in procs :
        /\ p.run \in Runs /\ p.slot \in Slots
        /\ slotRun[p.slot] = p.run
        /\ handle[p.run] # 0
        /\ \A q \in procs : p.run = q.run => p = q
  BY DEF QuietInv, WorkerInv, Process
<1>t. \A t \in teardowns :
        /\ t.run \in Runs /\ t.slot \in Slots
        /\ slotRun[t.slot] = t.run
        /\ \A p \in procs : p.slot # t.slot
  BY <1>p DEF QuietInv, TeardownInv, SetupInv, Teardown
<1>s. \A u \in setups :
        /\ u.run \in Runs /\ u.slot \in Slots /\ slotRun[u.slot] = u.run
        /\ handle[u.run] = 0
        /\ \A p \in procs : p.slot # u.slot
  BY <1>p DEF QuietInv, SetupInv, Setup
<1>1. ASSUME NEW r \in Runs, NEW g \in BOOLEAN, Provision(r, g)
      PROVE  Lease!LeaseNext \/ UNCHANGED Lease!vars
  <2>1. procs' = procs
    BY <1>1 DEF Provision
  <2>2. CASE Reclaim(r, g)
    BY <2>1, <2>2, LeaseStutter DEF Reclaim
  <2>3. CASE ClaimIdle(r, g)
    <3>1. PICK s \in Slots :
            slotRun[s] = NoRun /\ slotRun' = [slotRun EXCEPT ![s] = r]
      BY <2>3, FirstOfRun DEF ClaimIdle
    <3>2. \A t \in Slots : slotRun[t] # r
      BY <2>3 DEF ClaimIdle, SlotsOf, SlotsIn
    <3>3. Lease!Lease(r, s)
      BY <2>1, <3>1, <3>2 DEF Lease!Lease
    <3>4. QED
      BY <3>3 DEF Lease!LeaseNext
  <2>4. QED
    BY <1>1, <2>2, <2>3 DEF Provision
<1>2. ASSUME NEW u \in setups, Spawn(u)
      PROVE  Lease!LeaseNext
  <2>1. PICK s \in Slots :
          /\ s = u.slot /\ slotRun[s] = u.run
          /\ \A p \in procs : p.slot # s
    BY <1>s
  <2>2. PICK p0 :
          /\ p0.run = u.run /\ p0.slot = s
          /\ procs' = procs \cup {p0} /\ slotRun' = slotRun
    BY <1>2, <2>1 DEF Spawn
  <2>3. SlotUsers[s] = {}
    BY <2>1 DEF SlotUsers
  <2>4. \A x \in Slots : {p.run : p \in {q \in procs' : q.slot = x}} =
                        IF x = s THEN {u.run} ELSE SlotUsers[x]
    BY <2>1, <2>2 DEF SlotUsers
  <2>5. SlotUsers' = [SlotUsers EXCEPT ![s] = {u.run}]
    BY <2>4 DEF SlotUsers
  <2>6. Lease!StartWork(u.run, s)
    BY <2>1, <2>2, <2>3, <2>5 DEF Lease!StartWork, SlotUsers
  <2>7. QED
    BY <1>s, <2>1, <2>6 DEF Lease!LeaseNext
<1>3. ASSUME NEW u \in setups, RestoreFails(u)
      PROVE  Lease!LeaseNext \/ UNCHANGED Lease!vars
  <2>1. slotRun' = FreeNow(u.run) /\ procs' = procs
    <3>1. CASE ReleaseWaits(u.run)
      BY <1>3, <3>1 DEF RestoreFails
    <3>2. CASE ~ReleaseWaits(u.run)
      BY <1>3, <1>s, <3>2, FailedSetup DEF RestoreFails
    <3>3. QED
      BY <3>1, <3>2
  <2>2. SlotsOf(u.run) = {u.slot}
    BY <1>s, OnlySlot
  <2>3. CASE mounted[u.slot]
    <3>1. FreeNow(u.run) = slotRun
      BY <2>2, <2>3 DEF FreeNow, SlotsOf, SlotsIn
    <3>2. QED
      BY <2>1, <3>1, LeaseStutter
  <2>4. CASE ~mounted[u.slot]
    BY <1>s, <2>1, <2>2, <2>4, FreeNowOne, LeaseBack
  <2>5. QED
    BY <2>3, <2>4
<1>4. ASSUME NEW p \in procs, Exit(p)
      PROVE  Lease!LeaseNext
  <2>1. procs' = procs \ {p} /\ slotRun' = slotRun
    BY <1>4 DEF Exit
  <2>2. p.run \in SlotUsers[p.slot]
    BY <1>p DEF SlotUsers
  <2>3. \A x \in Slots : {q.run : q \in {y \in procs' : y.slot = x}} =
          IF x = p.slot THEN SlotUsers[x] \ {p.run} ELSE SlotUsers[x]
    BY <1>p, <2>1 DEF SlotUsers
  <2>4. SlotUsers' = [SlotUsers EXCEPT ![p.slot] = @ \ {p.run}]
    BY <2>3 DEF SlotUsers
  <2>5. Lease!EndWork(p.run, p.slot)
    BY <2>1, <2>2, <2>4 DEF Lease!EndWork, SlotUsers
  <2>6. QED
    BY <1>p, <2>5 DEF Lease!LeaseNext
<1>5. ASSUME NEW t \in teardowns, CopyDone(t)
      PROVE  Lease!LeaseNext \/ UNCHANGED Lease!vars
  <2>1. slotRun' = FreeNow(t.run) /\ procs' = procs
    BY <1>5 DEF CopyDone, Resolve, QuietInv, TeardownInv
  <2>2. SlotsOf(t.run) = {t.slot}
    BY <1>t, OnlySlot
  <2>3. CASE mounted[t.slot]
    <3>1. FreeNow(t.run) = slotRun
      BY <2>2, <2>3 DEF FreeNow, SlotsOf, SlotsIn
    <3>2. QED
      BY <2>1, <3>1, LeaseStutter
  <2>4. CASE ~mounted[t.slot]
    BY <1>t, <2>1, <2>2, <2>4, FreeNowOne, LeaseBack
  <2>5. QED
    BY <2>3, <2>4
<1>6. ASSUME NEW t \in teardowns, UmountDone(t)
      PROVE  Lease!LeaseNext
  <2>1. slotRun' = [slotRun EXCEPT ![t.slot] = NoRun] /\ Resolve(t)
    BY <1>6 DEF UmountDone
  <2>2. procs' = procs
    <3>1. CASE t.by = "undo"
      <4>1. handle[t.run] = 0
        BY <1>s, <3>1 DEF QuietInv, TeardownInv
      <4>2. QED
        BY <1>t, <2>1, <3>1, <4>1, FailedSetup DEF Resolve
    <3>2. CASE t.by # "undo"
      BY <2>1, <3>2 DEF Resolve
    <3>3. QED
      BY <3>1, <3>2
  <2>3. QED
    BY <1>t, <2>1, <2>2, LeaseBack
<1>7. ASSUME NEW s \in Slots, Reconcile(s)
      PROVE  Lease!LeaseNext \/ UNCHANGED Lease!vars
  <2>1. procs' = procs
    BY <1>7 DEF Reconcile
  <2>2. CASE mounted[s]
    BY <1>7, <2>1, <2>2, LeaseStutter DEF Reconcile
  <2>3. CASE ~mounted[s]
    <3>1. slotRun' = [slotRun EXCEPT ![s] = NoRun] /\ slotRun[s] # NoRun
          /\ ~Live(slotRun[s])
      BY <1>7, <2>3 DEF Reconcile
    <3>2. \A p \in procs : p.slot # s
      BY <1>p, <3>1, UsersLive
    <3>3. QED
      BY <2>1, <3>1, <3>2, LeaseBack
  <2>4. QED
    BY <2>2, <2>3
<1>8. ASSUME NEW u \in setups, MountDone(u) \/ MountFails(u)
      PROVE  UNCHANGED Lease!vars
  <2>1. CASE MountDone(u)
    BY <2>1, LeaseStutter DEF MountDone
  <2>2. CASE MountFails(u)
    BY <2>2, <1>s, FailedSetup, LeaseStutter DEF MountFails
  <2>3. QED
    BY <1>8, <2>1, <2>2
<1>9. ASSUME NEW p \in procs, Edit(p) \/ TurnStarts(p) \/ TurnEnds(p)
      PROVE  UNCHANGED Lease!vars
  BY <1>9, LeaseStutter DEF Edit, TurnStarts, TurnEnds
<1>10. ASSUME NEW r \in Runs, Expire(r)
       PROVE  UNCHANGED Lease!vars
  BY <1>10, LeaseStutter DEF Expire
<1>11. /\ ~Restart
       /\ \A r \in Runs : ~Fail(r) /\ ~Destroy(r) /\ \A to : ~Settle(r, to)
  BY DEF Quiet, Restart, Fail, Destroy, Settle
<1>12. QED
  BY <1>1, <1>2, <1>3, <1>4, <1>5, <1>6, <1>7, <1>8, <1>9, <1>10, <1>11 DEF Next

\* The slot table implements the lease: claiming leases, the start of the worker
\* and its exit begin and end the work, and every release (teardown, reconciler,
\* failed restore) gives the lease back with no worker left on the slot.
THEOREM LeaseRefined ==
  ASSUME Quiet
  PROVE  Spec => ImplementsLease
<1>1. Init => Lease!LeaseInit
  BY DEF Init, Lease!LeaseInit
<1>2. TypeOK /\ SlotBoundOnce /\ QuietInv /\ [Next]_vars
        => [Lease!LeaseNext]_(Lease!vars)
  <2>1. UNCHANGED vars => UNCHANGED Lease!vars
    BY LeaseStutter DEF vars
  <2>2. QED
    BY <2>1, LeaseStep
<1>3. QED
  BY <1>1, <1>2, TypeCorrect, BoundOnce, QuietInvariant, PTL
     DEF Spec, ImplementsLease, Lease!LeaseSpec

-----------------------------------------------------------------------------
(* The files.  A tree is current if it is the run's own and has its last     *)
(* edit, unless the write-back of that edit failed.  The slot of a worker or *)
(* of a copy that is under way shows a current tree; otherwise the durable   *)
(* copy is current.                                                          *)
Latest(tree, r) == edits[r] \in {tree.edit, unsaved[r]}
Current(tree, r) == tree.owner = r /\ Latest(tree, r)
AtWork(r) ==
  \/ \E p \in procs : p.run = r
  \/ \E t \in teardowns : t.run = r /\ t.pc = "copy"
FilesInv ==
  /\ \A p \in procs : Current(disk[p.slot], p.run)
  /\ \A t \in teardowns : t.pc = "copy" => Current(disk[t.slot], t.run)
  /\ \A r \in Runs : durable[r].owner = r /\ (~AtWork(r) => Latest(durable[r], r))

\* Who works, copies or prepares on a slot is the run the slot is bound to, and
\* only one of the three at a time.
LEMMA OneUse ==
  ASSUME TypeOK, SlotBoundOnce, QuietInv
  PROVE  /\ \A p \in procs : p.run \in Runs /\ p.slot \in Slots
         /\ \A t \in teardowns : t.run \in Runs /\ t.slot \in Slots
         /\ \A p, q \in procs : p.slot = q.slot => p = q
         /\ \A t \in teardowns : \A p \in procs : p.slot # t.slot /\ p.run # t.run
         /\ \A t, u \in teardowns : (t.slot = u.slot \/ t.run = u.run) => t = u
         /\ \A u \in setups : u.pc \in {"mounting", "restoring"} =>
              /\ u.run \in Runs /\ u.slot \in Slots
              /\ \A p \in procs : p.slot # u.slot /\ p.run # u.run
              /\ \A t \in teardowns : t.slot # u.slot /\ t.run # u.run
<1> USE DEF TypeOK, QuietInv, WorkerInv, SetupInv, TeardownInv
<1>1. \A p \in procs : p.run \in Runs /\ p.slot \in Slots
  BY DEF Process
<1>2. \A t \in teardowns : t.run \in Runs /\ t.slot \in Slots
  BY DEF Teardown
<1>3. \A p, q \in procs : p.slot = q.slot => p = q
  OBVIOUS
<1>4. \A t, u \in teardowns : (t.slot = u.slot \/ t.run = u.run) => t = u
  OBVIOUS
<1>5. \A t \in teardowns : \A p \in procs : p.run # t.run
  OBVIOUS
<1>6. \A t \in teardowns : \A p \in procs : p.slot # t.slot
  BY <1>5
<1>7. \A u \in setups : u.pc \in {"mounting", "restoring"} =>
        /\ u.run \in Runs /\ u.slot \in Slots
        /\ \A p \in procs : p.slot # u.slot /\ p.run # u.run
        /\ \A t \in teardowns : t.run # u.run
  BY DEF Setup
<1>8. \A u \in setups : u.pc \in {"mounting", "restoring"} =>
        \A t \in teardowns : t.slot # u.slot
  BY <1>7
<1>9. QED
  BY <1>1, <1>2, <1>3, <1>4, <1>5, <1>6, <1>7, <1>8

\* A step that wipes or fills a slot nobody works or copies on, and one that
\* leaves the trees alone, lose nothing.
LEMMA FilesAside ==
  ASSUME FilesInv, NEW s,
         \A x \in Slots : x # s => disk'[x] = disk[x],
         \A p \in procs : p.slot \in Slots \ {s},
         \A t \in teardowns : t.slot \in Slots /\ (t.pc = "copy" => t.slot # s),
         procs' = procs,
         \A t \in teardowns' : t.pc = "copy" => t \in teardowns,
         \A t \in teardowns : t.pc = "copy" => t \in teardowns',
         durable' = durable, edits' = edits, unsaved' = unsaved
  PROVE  FilesInv'
<1>1. \A r : AtWork(r)' <=> AtWork(r)
  BY DEF AtWork
<1>2. \A tree, r : Latest(tree, r)' <=> Latest(tree, r)
  BY DEF Latest
<1>3. QED
  BY <1>1, <1>2 DEF FilesInv, Current, Latest

LEMMA FilesSame ==
  ASSUME FilesInv, procs' = procs, disk' = disk, durable' = durable, edits' = edits,
         unsaved' = unsaved, \A t \in teardowns' : t.pc = "copy" => t \in teardowns,
         \A t \in teardowns : t.pc = "copy" => t \in teardowns'
  PROVE  FilesInv'
<1>1. \A r : AtWork(r)' <=> AtWork(r)
  BY DEF AtWork
<1>2. QED
  BY <1>1 DEF FilesInv, Current, Latest

LEMMA FilesStep ==
  ASSUME Quiet, TypeOK, SlotBoundOnce, QuietInv, FilesInv, Next
  PROVE  FilesInv'
<1> USE DEF TypeOK
<1>u. /\ \A p \in procs : p.run \in Runs /\ p.slot \in Slots
      /\ \A t \in teardowns : t.run \in Runs /\ t.slot \in Slots
      /\ \A p, q \in procs : p.slot = q.slot => p = q
      /\ \A t \in teardowns : \A p \in procs : p.slot # t.slot /\ p.run # t.run
      /\ \A t, u \in teardowns : (t.slot = u.slot \/ t.run = u.run) => t = u
      /\ \A u \in setups : u.pc \in {"mounting", "restoring"} =>
           /\ u.run \in Runs /\ u.slot \in Slots
           /\ \A p \in procs : p.slot # u.slot /\ p.run # u.run
           /\ \A t \in teardowns : t.slot # u.slot /\ t.run # u.run
  BY OneUse
<1>h. \A u \in setups : u.run \in Runs /\ handle[u.run] = 0
  BY DEF QuietInv, SetupInv, Setup
<1>1. ASSUME NEW r \in Runs, NEW g \in BOOLEAN, Provision(r, g) PROVE FilesInv'
  <2>1. /\ UNCHANGED <<durable, edits, unsaved, procs, teardowns>> /\ handle[r] = 0
        /\ \A u \in setups : u.run # r
    BY <1>1 DEF Provision, SetupsOf, Quiet, QuietInv, SetupInv
  <2>2. CASE Reclaim(r, g)
    <3>1. PICK s \in Slots : s = First(SlotsOf(r)) /\ slotRun[s] = r
      BY <2>2, FirstOfRun DEF Reclaim
    <3>2. disk' = [disk EXCEPT ![s] = EmptyTree]
      BY <2>2, <3>1 DEF Reclaim
    <3>3. \A p \in procs : p.slot # s
      BY <2>1, <3>1 DEF QuietInv, WorkerInv
    <3>4. \A t \in teardowns : t.pc = "copy" => t.slot # s
      BY <2>1, <3>1 DEF QuietInv, TeardownInv
    <3>5. \A x \in Slots : x # s => disk'[x] = disk[x]
      BY <3>2
    <3>6. QED
      BY <1>u, <2>1, <3>3, <3>4, <3>5, FilesAside
  <2>3. CASE ClaimIdle(r, g)
    BY <2>1, <2>3, FilesSame DEF ClaimIdle
  <2>4. QED
    BY <1>1, <2>2, <2>3 DEF Provision
<1>2. ASSUME NEW v \in setups, MountDone(v) PROVE FilesInv'
  <2> DEFINE s == v.slot
  <2>1. /\ UNCHANGED <<durable, edits, unsaved, procs, teardowns>>
        /\ v.pc = "mounting"
        /\ disk' = [disk EXCEPT ![s] = EmptyTree]
    BY <1>2 DEF MountDone
  <2>2. \A x \in Slots : x # s => disk'[x] = disk[x]
    BY <2>1
  <2>3. /\ \A p \in procs : p.slot \in Slots \ {s}
        /\ \A t \in teardowns : t.slot \in Slots /\ t.slot # s
    BY <1>u, <2>1
  <2> HIDE DEF s
  <2>4. QED
    BY <2>1, <2>2, <2>3, FilesAside
<1>3. ASSUME NEW v \in setups, MountFails(v) PROVE FilesInv'
  <2>1. UNCHANGED <<procs, teardowns>>
    BY <1>3, <1>h, FailedSetup DEF MountFails
  <2>2. UNCHANGED <<disk, durable, edits, unsaved>>
    BY <1>3 DEF MountFails
  <2>3. QED
    BY <2>1, <2>2, FilesSame
<1>4. ASSUME NEW v \in setups, Spawn(v) PROVE FilesInv'
  <2>1. PICK s \in Slots, r \in Runs : s = v.slot /\ r = v.run
    BY <1>u, <1>4 DEF Spawn
  <2>2. PICK q : /\ q.run = r /\ q.slot = s
                 /\ procs' = procs \cup {q}
    BY <1>4, <2>1 DEF Spawn
  <2>3. /\ disk' = [disk EXCEPT ![s] = durable[r]]
        /\ UNCHANGED <<durable, edits, unsaved, teardowns>>
        /\ v.pc = "restoring"
    BY <1>4, <2>1 DEF Spawn
  <2>4. ~AtWork(r)
    BY <1>u, <2>1, <2>3 DEF AtWork
  <2>5. \A tree, x : Latest(tree, x)' <=> Latest(tree, x)
    BY <2>3 DEF Latest
  <2>6. \A x : AtWork(x) => AtWork(x)'
    BY <2>2, <2>3 DEF AtWork
  <2>7. Current(durable[r], r)
    BY <2>4 DEF FilesInv, Current
  <2>8. \A p \in procs' : disk'[p.slot].owner = p.run /\ Latest(disk'[p.slot], p.run)
    <3>1. disk'[s] = durable[r]
      BY <2>3
    <3>2. \A p \in procs : disk'[p.slot] = disk[p.slot]
      BY <1>u, <2>1, <2>3
    <3>3. QED
      BY <2>2, <2>7, <3>1, <3>2 DEF FilesInv, Current
  <2>9. \A t \in teardowns : disk'[t.slot] = disk[t.slot]
    BY <1>u, <2>1, <2>3
  <2>10. QED
    BY <2>3, <2>5, <2>6, <2>8, <2>9 DEF FilesInv, Current
<1>5. ASSUME NEW v \in setups, RestoreFails(v) PROVE FilesInv'
  <2>1. UNCHANGED <<disk, durable, edits, unsaved>>
    BY <1>5 DEF RestoreFails
  <2>2. CASE ReleaseWaits(v.run)
    <3>1. procs' = procs /\ teardowns' = teardowns \cup ReleaseCall("undo", v.run)
      BY <1>5, <2>2 DEF RestoreFails
    <3>2. \A t \in ReleaseCall("undo", v.run) : t.pc = "umount"
      BY DEF ReleaseCall
    <3>3. QED
      BY <2>1, <3>1, <3>2, FilesSame
  <2>3. CASE ~ReleaseWaits(v.run)
    <3>1. FailRun(v.run, teardowns, FreeNow(v.run))
      BY <1>5, <2>3 DEF RestoreFails
    <3>2. UNCHANGED <<procs, teardowns>>
      BY <1>h, <3>1, FailedSetup
    <3>3. QED
      BY <2>1, <3>2, FilesSame
  <2>4. QED
    BY <2>2, <2>3
<1>6. ASSUME NEW p \in procs, Edit(p) PROVE FilesInv'
  <2>1. PICK e : e = edits[p.run] + 1
    OBVIOUS
  <2>2. /\ edits' = [edits EXCEPT ![p.run] = e]
        /\ disk' = [disk EXCEPT ![p.slot] = [owner |-> p.run, edit |-> e]]
        /\ UNCHANGED <<durable, unsaved, procs, teardowns>>
    BY <1>6, <2>1 DEF Edit
  <2>3. /\ disk'[p.slot].owner = p.run /\ disk'[p.slot].edit = e
        /\ edits'[p.run] = e
    BY <1>u, <2>2
  <2>4. \A q \in procs : q # p => /\ disk'[q.slot] = disk[q.slot]
                                  /\ edits'[q.run] = edits[q.run]
    BY <1>u, <2>2 DEF QuietInv, WorkerInv
  <2>5. \A t \in teardowns : /\ disk'[t.slot] = disk[t.slot]
                             /\ edits'[t.run] = edits[t.run]
    BY <1>u, <2>2
  <2>6. \A x : AtWork(x)' <=> AtWork(x)
    BY <2>2 DEF AtWork
  <2>7. \A x \in Runs : ~AtWork(x) => edits'[x] = edits[x]
    BY <2>2 DEF AtWork
  <2>8. QED
    BY <2>2, <2>3, <2>4, <2>5, <2>6, <2>7 DEF FilesInv, Current, Latest
<1>7. ASSUME NEW p \in procs, TurnStarts(p) \/ TurnEnds(p) PROVE FilesInv'
  BY <1>7, FilesSame DEF TurnStarts, TurnEnds
<1>8. ASSUME NEW p \in procs, Exit(p) PROVE FilesInv'
  <2>1. p.slot \in SlotsOf(p.run)
    BY <1>u DEF QuietInv, WorkerInv, SlotsOf, SlotsIn
  <2>2. SlotsOf(p.run) = {p.slot}
    BY <1>u, <2>1, NoRunAssumption DEF SlotsOf, SlotsIn, SlotBoundOnce
  <2>3. Callers(p) = {"exit"}
    BY DEF QuietInv, WorkerInv, Callers
  <2>4. PICK u : /\ u.run = p.run /\ u.slot = p.slot /\ u.pc = "copy"
                 /\ teardowns' = teardowns \cup {u}
    <3>1. PersistCall("exit", p.run, slotRun) =
            {[by |-> "exit", run |-> p.run, slot |-> p.slot, pc |-> "copy"]}
      BY <2>2 DEF PersistCall, SlotsOf
    <3>2. teardowns' = teardowns \cup
            {[by |-> "exit", run |-> p.run, slot |-> p.slot, pc |-> "copy"]}
      BY <1>8, <2>3, <3>1 DEF Exit
    <3>3. QED
      BY <3>2
  <2>5. procs' = procs \ {p} /\ UNCHANGED <<disk, durable, edits, unsaved>>
    BY <1>8 DEF Exit
  <2>6. \A x : AtWork(x)' <=> AtWork(x)
    BY <2>4, <2>5 DEF AtWork
  <2>7. Current(disk[p.slot], p.run)
    BY DEF FilesInv
  <2>8. \A tree, x : Latest(tree, x)' <=> Latest(tree, x)
    BY <2>5 DEF Latest
  <2>9. \A t \in teardowns' : t.pc = "copy" => Current(disk[t.slot], t.run)
    BY <2>4, <2>7 DEF FilesInv
  <2>10. QED
    BY <2>5, <2>6, <2>8, <2>9 DEF FilesInv, Current
<1>9. ASSUME NEW t \in teardowns, CopyDone(t) PROVE FilesInv'
  <2>0. t.by = "exit" /\ t.pc = "copy" /\ Current(disk[t.slot], t.run)
    BY <1>9 DEF CopyDone, FilesInv, QuietInv, TeardownInv
  <2>1. /\ procs' = procs /\ \A u \in teardowns' : u.pc = "copy" => u \in teardowns \ {t}
        /\ \A u \in teardowns : u # t => u \in teardowns'
    <3>1. CASE Resolve(t)
      BY <2>0, <3>1 DEF Resolve
    <3>2. CASE teardowns' = (teardowns \ {t}) \cup ReleaseCall(t.by, t.run) /\ procs' = procs
      BY <3>2 DEF ReleaseCall
    <3>3. QED
      BY <1>9, <3>1, <3>2 DEF CopyDone
  <2>2. UNCHANGED <<disk, edits>>
    BY <1>9 DEF CopyDone
  <2>3. /\ \A x \in Runs : x # t.run => durable'[x] = durable[x] /\ unsaved'[x] = unsaved[x]
        /\ \/ durable'[t.run] = disk[t.slot] /\ unsaved'[t.run] = unsaved[t.run]
           \/ durable'[t.run] = durable[t.run] /\ unsaved'[t.run] = edits[t.run]
    BY <1>9, <1>u DEF CopyDone
  <2>4. \A x \in Runs : x # t.run => (AtWork(x) => AtWork(x)')
    BY <2>1 DEF AtWork
  <2>5. \A x \in Runs : durable'[x].owner = x
                        /\ (~AtWork(x)' => Latest(durable[x], x)')
    <3>1. durable'[t.run].owner = t.run /\ Latest(durable[t.run], t.run)'
      BY <1>u, <2>0, <2>2, <2>3 DEF FilesInv, Current, Latest
    <3>2. QED
      BY <2>2, <2>3, <2>4, <3>1 DEF FilesInv, Latest
  <2>6. \A p \in procs : p.run \in Runs /\ p.run # t.run
    BY <1>u
  <2>7. \A u \in teardowns' : u.pc = "copy" => u \in teardowns /\ u.run \in Runs /\ u.run # t.run
    BY <1>u, <2>1
  <2>8. QED
    BY <2>1, <2>2, <2>3, <2>5, <2>6, <2>7 DEF FilesInv, Current, Latest
<1>10. ASSUME NEW t \in teardowns, UmountDone(t) PROVE FilesInv'
  <2>1. /\ disk' = [disk EXCEPT ![t.slot] = EmptyTree]
        /\ t.pc = "umount"
        /\ UNCHANGED <<durable, edits, unsaved>>
    BY <1>10 DEF UmountDone
  <2>2. procs' = procs /\ teardowns' = teardowns \ {t}
    <3>1. CASE t.by = "undo"
      <4>1. handle[t.run] = 0 /\ t.run \in Runs
        BY <1>h, <3>1 DEF QuietInv, TeardownInv
      <4>2. QED
        BY <1>10, <3>1, <4>1, FailedSetup DEF UmountDone, Resolve
    <3>2. CASE t.by # "undo"
      BY <1>10, <3>2 DEF UmountDone, Resolve
    <3>3. QED
      BY <3>1, <3>2
  <2>3. \A u \in teardowns : u.pc = "copy" => u.slot # t.slot /\ u # t
    BY <1>u, <2>1
  <2>4. /\ \A p \in procs : p.slot \in Slots \ {t.slot}
        /\ \A u \in teardowns : u.slot \in Slots
        /\ \A u \in teardowns : u.pc = "copy" => u \in teardowns'
        /\ \A u \in teardowns' : u \in teardowns
    BY <1>u, <2>2, <2>3
  <2> DEFINE s == t.slot
  <2>5. /\ \A x \in Slots : x # s => disk'[x] = disk[x]
        /\ \A p \in procs : p.slot \in Slots \ {s}
        /\ \A u \in teardowns : u.pc = "copy" => u.slot # s
    BY <2>1, <2>3, <2>4
  <2> HIDE DEF s
  <2>6. QED
    BY <2>1, <2>2, <2>4, <2>5, FilesAside
<1>11. ASSUME NEW s \in Slots, Reconcile(s) PROVE FilesInv'
  <2>1. \A u \in teardowns' : u.pc = "copy" => u \in teardowns
    BY <1>11 DEF Reconcile
  <2>2. \A u \in teardowns : u \in teardowns'
    BY <1>11 DEF Reconcile
  <2>3. UNCHANGED <<procs, disk, durable, edits, unsaved>>
    BY <1>11 DEF Reconcile
  <2>4. QED
    BY <2>1, <2>2, <2>3, FilesSame
<1>12. ASSUME NEW r \in Runs, Expire(r) PROVE FilesInv'
  BY <1>12, FilesSame DEF Expire
<1>13. /\ ~Restart
       /\ \A r \in Runs : ~Fail(r) /\ ~Destroy(r) /\ \A to : ~Settle(r, to)
  BY DEF Quiet, Restart, Fail, Destroy, Settle
<1>14. QED
  BY <1>1, <1>2, <1>3, <1>4, <1>5, <1>6, <1>7, <1>8, <1>9, <1>10, <1>11, <1>12, <1>13
     DEF Next

LEMMA FilesInvariant ==
  ASSUME Quiet
  PROVE  Spec => []FilesInv
<1>1. Init => FilesInv
  <2> SUFFICES ASSUME Init PROVE FilesInv
    OBVIOUS
  <2>1. procs = {} /\ teardowns = {}
    BY DEF Init
  <2>2. \A r \in Runs : durable[r].owner = r /\ durable[r].edit = edits[r]
    BY DEF Init
  <2>3. QED
    BY <2>1, <2>2 DEF FilesInv, Latest
<1>2. FilesInv /\ UNCHANGED vars => FilesInv'
  BY FilesSame DEF vars
<1>3. TypeOK /\ SlotBoundOnce /\ QuietInv /\ FilesInv /\ [Next]_vars => FilesInv'
  BY <1>2, FilesStep
<1>4. QED
  BY <1>1, <1>3, TypeCorrect, BoundOnce, QuietInvariant, PTL DEF Spec

\* Nobody marks the slot of a live worker idle or gives it to another run, through
\* every write-back, failed mount or restore and reconciliation that interleaves.
THEOREM SlotKept ==
  ASSUME Quiet
  PROVE  Spec => []WorkerKeepsSlot
<1>1. SlotExclusive /\ WorkerKeepsSlot => WorkerKeepsSlot
  OBVIOUS
<1>2. QED
  BY <1>1, QuietExclusive, PTL

\* A write-back copies the tree of its own run, although it reads the mount path
\* long after it looked the slot up; true even if copies fail.
THEOREM OwnFiles ==
  ASSUME Quiet
  PROVE  Spec => []DurableIsOwn
<1>1. FilesInv => DurableIsOwn
  BY DEF FilesInv, DurableIsOwn
<1>2. QED
  BY <1>1, FilesInvariant, PTL

\* No edit of a worker is lost with its slot unless its own write-back failed
\* (persistAndRelease gives the slot up all the same; VmSlotsFault): the umount that
\* wipes the tree comes after the copy, and nothing restores the old one meanwhile.
THEOREM FilesSaved ==
  ASSUME Quiet
  PROVE  Spec => []NoLostFiles
<1>1. ASSUME TypeOK, QuietInv, FilesInv, NEW r \in Runs, SlotsOf(r) = {}
      PROVE  edits[r] \in {durable[r].edit, unsaved[r]}
  <2>1. \A p \in procs : p.slot \in SlotsOf(p.run)
    BY <1>1 DEF TypeOK, Process, QuietInv, WorkerInv, SlotsOf, SlotsIn
  <2>2. \A t \in teardowns : t.slot \in SlotsOf(t.run)
    BY <1>1 DEF TypeOK, Teardown, QuietInv, TeardownInv, SlotsOf, SlotsIn
  <2>3. ~AtWork(r)
    BY <1>1, <2>1, <2>2 DEF AtWork
  <2>4. QED
    BY <1>1, <2>3 DEF FilesInv, Latest
<1>2. TypeOK /\ QuietInv /\ FilesInv => NoLostFiles
  BY <1>1 DEF NoLostFiles
<1>3. QED
  BY <1>2, TypeCorrect, QuietInvariant, FilesInvariant, PTL
=============================================================================
