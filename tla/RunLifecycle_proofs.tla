-------------------------- MODULE RunLifecycle_proofs --------------------------
(***************************************************************************)
(* Proofs about RunLifecycle, for every number of runs, slots, messages    *)
(* and restarts and every set of faults; the last four, about workers and  *)
(* messages, for users who wait until a conversation is quiet, the first   *)
(* two also for users who write at any moment a run has a worker (Quiet).  *)
(***************************************************************************)
EXTENDS RunLifecycle, WellFoundedInduction, TLAPS

-----------------------------------------------------------------------------
(* Types.  Every helper of the code that edits a run's record keeps it one.  *)

LEMMA DetachedTypes ==
  ASSUME NEW x \in Record
  PROVE  /\ Detached(x) \in Record
         /\ Queued(x) \in Record
         /\ Settled(x) \in Record
         /\ Noted(x) \in Record
<1>1. 0 \in 0..MaxSpawn
  BY SizesAssumption
<1>2. Detached(x) \in Record
  BY <1>1 DEF Record, Detached
<1>3. \A s \in Status : [Detached(x) EXCEPT !.status = s] \in Record
  BY <1>2 DEF Record
<1>4. Noted(x) \in Record
  BY DEF Record, Noted
<1>5. QED
  BY <1>2, <1>3, <1>4 DEF Queued, Settled, Status

\* Giving up a run's messages, as Stop, archive and failRun do.
LEMMA FailedTypes ==
  ASSUME NEW x \in Record
  PROVE  /\ GivenUp(x) \in Record
         /\ \A e \in {"ERROR", "SETUP_ERROR"} : Failed(x, e) \in Record
<1>1. ASSUME NEW y \in Record PROVE GivenUp(y) \in Record
  <2>1. y.dropped \cup ((1..y.sent) \ y.answered) \in SUBSET Nat
    BY DEF Record
  <2>2. QED
    BY <2>1 DEF Record, GivenUp
<1>2. GivenUp(Detached(x)) \in Record
  BY <1>1, DetachedTypes
<1>3. <<>> \in Seq(Items)
  OBVIOUS
<1>4. ASSUME NEW e \in {"ERROR", "SETUP_ERROR"} PROVE Failed(x, e) \in Record
  BY <1>2, <1>3 DEF Failed, Record, Status
<1>5. QED
  BY <1>1, <1>4

LEMMA PushedTypes ==
  ASSUME NEW x \in Record
  PROVE  /\ \A m \in Items : Pushed(x, m) \in Record
         /\ Requeued(x) \in Record
         /\ DetachOrQueue(x) \in Record
<1>1. ASSUME NEW y \in Record, NEW m \in Items PROVE Pushed(y, m) \in Record
  <2>1. Append(y.inbound, m) \in Seq(Items)
    BY DEF Record
  <2>2. QED
    BY <2>1 DEF Record, Pushed
<1>2. Requeued(x) \in Record
  <2>1. x.active # 0 => x.active \in Items
    BY DEF Record, Items
  <2>2. QED
    BY <1>1, <2>1 DEF Requeued
<1>3. DetachOrQueue(x) \in Record
  BY <1>2, DetachedTypes DEF DetachOrQueue
<1>4. QED
  BY <1>1, <1>2, <1>3

\* NewCall finds a free id whenever there is one; its record is a call either way.
CallOps == {"setup", "install", "post", "bind", "clone", "rebind", "reclone",
            "attachCreate", "attachQueued", "attachResume",
            "persistIdle", "persistArchive",
            "stopFail", "stopAbort", "stopIdle", "stopArchive"}
LEMMA NewCallTypes ==
  ASSUME NEW op \in CallOps, NEW r \in Runs, NEW no \in 0..MaxSpawn
  PROVE  /\ NewCall(op, r, no) \in Call
         /\ NewCall(op, r, no).op = op
         /\ NewCall(op, r, no).run = r
         /\ NewCall(op, r, no).no = no
<1> DEFINE Named(i) == [op |-> op, run |-> r, no |-> no, id |-> i]
           Free(i) == Named(i) \notin calls
           Picked(i) == (\E j \in 1..MaxCalls : Free(j)) => Free(i)
<1>1. \E i \in 1..MaxCalls : Picked(i)
  <2>1. CASE \E j \in 1..MaxCalls : Free(j)
    BY <2>1
  <2>2. CASE ~ \E j \in 1..MaxCalls : Free(j)
    <3>1. 1 \in 1..MaxCalls
      BY SizesAssumption
    <3>2. QED
      BY <2>2, <3>1
  <2>3. QED
    BY <2>1, <2>2
<1>2. (CHOOSE i \in 1..MaxCalls : Picked(i)) \in 1..MaxCalls
  <2> HIDE DEF Picked
  <2> QED
    BY <1>1
<1>3. NewCall(op, r, no) = Named(CHOOSE i \in 1..MaxCalls : Picked(i))
  BY DEF NewCall
<1> HIDE DEF Picked
<1>4. QED
  BY <1>2, <1>3 DEF Call, CallOps

\* What a recovered run's record may be after a restart.
LEMMA RecoveredTypes ==
  ASSUME NEW x \in Record, NEW p
  PROVE  \A y \in Recovered(x, p) :
           y \in Record /\ y.setup = "none"
             /\ \A q : Doubting(y, q) \in Record /\ Doubting(y, q).setup = "none"
<1> DEFINE d == Reloaded(x)
           y == [Reloaded(x) EXCEPT !.handle = x.lease]
<1>0. 0 \in 0..MaxSpawn
  BY SizesAssumption
<1>1. d \in Record /\ d.setup = "none"
  BY <1>0 DEF Reloaded, Record
<1>2. y \in Record /\ y.setup = "none"
  BY <1>0 DEF Reloaded, Record
<1>3. \A z \in Record : Requeued(z).setup = z.setup /\ Requeued(z) \in Record
  BY PushedTypes DEF Requeued, Pushed, Record
<1>4. \A z \in Record : DetachOrQueue(z).setup = z.setup
  <2>1. \A z \in Record : Queued(z).setup = z.setup /\ Settled(z).setup = z.setup
    BY DEF Queued, Settled, Detached, Record
  <2>2. QED
    BY <1>3, <2>1 DEF DetachOrQueue
<1>5. Recovered(x, p) \subseteq {d, DetachOrQueue(d), y, Requeued(y)}
  BY DEF Recovered
<1> HIDE DEF d, y
<1>6. \A z \in Recovered(x, p) : z \in Record /\ z.setup = "none"
  BY <1>1, <1>2, <1>3, <1>4, <1>5, PushedTypes
<1>7. ASSUME NEW z \in Record, NEW q
      PROVE  Doubting(z, q) \in Record /\ Doubting(z, q).setup = z.setup
  <2>1. z.sent \in Nat /\ z.doubted \in SUBSET Nat
    BY DEF Record
  <2>4. PICK S : S \subseteq 1..z.sent /\ Doubting(z, q) = [z EXCEPT !.doubted = z.doubted \cup S]
    <3> DEFINE queued(m) == \E i \in DOMAIN z.inbound : z.inbound[i] = m
               kept(m) == \E s \in q : s.cur = m \/ \E i \in DOMAIN s.batch : s.batch[i] = m
               S == {m \in 1..z.sent : queued(m) /\ kept(m)}
    <3>1. Doubting(z, q) = [z EXCEPT !.doubted = z.doubted \cup S]
      BY DEF Doubting, Record
    <3>2. S \subseteq 1..z.sent
      OBVIOUS
    <3> HIDE DEF S
    <3>3. QED
      BY <3>1, <3>2
  <2>2. z.doubted \cup S \in SUBSET Nat
    BY <2>1, <2>4
  <2>3. QED
    BY <2>2, <2>4 DEF Record
<1>8. QED
  BY <1>6, <1>7

\* A restart gives every run a recovered record, and what is left of the processes
\* are adopted ones and orphans.
LEMMA RestartIs ==
  ASSUME Restart
  PROVE  /\ run' = [r \in Runs |-> run'[r]]
         /\ \A r \in Runs : \E p, q : \E y \in Recovered(run[r], p) :
              run'[r] = Doubting(y, q)
         /\ \A p \in procs' :
              \E q \in procs : \E o \in {"adopted", "orphan"}, b \in {<<>>, q.batch} :
                p = [q EXCEPT !.origin = o, !.batch = b]
<1> DEFINE Lease(alive, r) == {p \in alive : p.run = r /\ p.no = run[r].lease}
           Adopted(alive, p) ==
             p \in Lease(alive, p.run) /\ run[p.run].status \in LiveStatus
           After(alive, lost, p) ==
             [p EXCEPT !.origin = IF Adopted(alive, p) THEN "adopted" ELSE "orphan",
                       !.batch = IF p \in lost THEN <<>> ELSE @]
           Left(alive, lost) == {After(alive, lost, p) : p \in alive}
           Kept(alive, lost, r) == {After(alive, lost, p) : p \in Lease(alive, r)}
<1>1. PICK alive \in SUBSET {p \in procs : Running(p)} :
      \E lost \in SUBSET {p \in alive : p.cur = 0} :
        /\ procs' = Left(alive, lost)
        /\ \E g \in [Runs -> UNION {Recovered(run[r], Kept(alive, lost, r)) : r \in Runs}] :
             /\ \A r \in Runs : g[r] \in Recovered(run[r], Kept(alive, lost, r))
             /\ run' = [r \in Runs |-> Doubting(g[r], {p \in Left(alive, lost) : p.run = r})]
  BY DEF Restart
<1>2. PICK lost \in SUBSET {p \in alive : p.cur = 0} :
        /\ procs' = Left(alive, lost)
        /\ \E g \in [Runs -> UNION {Recovered(run[r], Kept(alive, lost, r)) : r \in Runs}] :
             /\ \A r \in Runs : g[r] \in Recovered(run[r], Kept(alive, lost, r))
             /\ run' = [r \in Runs |-> Doubting(g[r], {p \in Left(alive, lost) : p.run = r})]
  BY <1>1
<1>3. \A p \in procs' :
        \E q \in procs : \E o \in {"adopted", "orphan"}, b \in {<<>>, q.batch} :
          p = [q EXCEPT !.origin = o, !.batch = b]
  <2>1. \A q \in alive :
          \E o \in {"adopted", "orphan"}, b \in {<<>>, q.batch} :
            After(alive, lost, q) = [q EXCEPT !.origin = o, !.batch = b]
    OBVIOUS
  <2>2. alive \subseteq procs
    OBVIOUS
  <2>3. ASSUME NEW p \in procs'
        PROVE  \E q \in procs : \E o \in {"adopted", "orphan"}, b \in {<<>>, q.batch} :
                 p = [q EXCEPT !.origin = o, !.batch = b]
    <3>1. PICK q \in alive : p = After(alive, lost, q)
      BY <1>2
    <3>2. PICK o \in {"adopted", "orphan"}, b \in {<<>>, q.batch} :
            After(alive, lost, q) = [q EXCEPT !.origin = o, !.batch = b]
      BY <2>1
    <3> HIDE DEF After
    <3>3. q \in procs /\ p = [q EXCEPT !.origin = o, !.batch = b]
      BY <2>2, <3>1, <3>2
    <3>4. QED
      BY <3>3
  <2>4. QED
    BY <2>3
<1> HIDE DEF Left, Kept
<1>4. PICK g :
        /\ \A r \in Runs : g[r] \in Recovered(run[r], Kept(alive, lost, r))
        /\ run' = [r \in Runs |-> Doubting(g[r], {p \in Left(alive, lost) : p.run = r})]
  BY <1>2
<1>5. QED
  BY <1>3, <1>4

\* What the queue or a setup notes about an orphan touches nothing else.
LEMMA PassedIs ==
  ASSUME NEW x \in Record, NEW r
  PROVE  /\ \E b \in BOOLEAN : PassedOver(r, x) = [x EXCEPT !.split = b]
         /\ PassedOver(r, x) \in Record
         /\ PassedOver(r, x).setup = x.setup
         /\ PassedOver(r, x).tickets = x.tickets
         /\ (\A p \in procs : p.origin # "orphan") => PassedOver(r, x) = x
<1>1. x.split \in BOOLEAN
  BY DEF Record
<1>2. \E b \in BOOLEAN : PassedOver(r, x) = [x EXCEPT !.split = b]
  BY <1>1 DEF PassedOver
<1>3. (\A p \in procs : p.origin # "orphan") => PassedOver(r, x) = [x EXCEPT !.split = x.split]
  BY <1>1 DEF PassedOver
<1>4. [x EXCEPT !.split = x.split] = x
  BY DEF Record
<1>5. QED
  BY <1>2, <1>3, <1>4 DEF Record

-----------------------------------------------------------------------------
(* The type invariant.  TypeOK is not inductive alone: the process that a      *)
(* call of attachWorker will start must have a number.                         *)
AttachNumbered == \A c \in calls : IsAttach(c) => c.no # 0
TypeInv == TypeOK /\ AttachNumbered

\* stopWorker's signal makes a process another state of itself.
LEMMA SignalledTypes ==
  ASSUME TypeInv
  PROVE  \A r, no : Signalled(r, no) \subseteq Process
<1>1. \A p \in procs : p \in Process /\ [p EXCEPT !.st = "dying"] \in Process
  BY DEF TypeInv, TypeOK, Process
<1>2. QED
  BY <1>1 DEF Signalled

\* What failRun leaves behind for whoever called it.
LEMMA FailRunTypes ==
  ASSUME TypeInv, NEW c, c.run \in Runs,
         NEW error \in {"ERROR", "SETUP_ERROR"}, FailRun(c, error)
  PROVE  /\ run' \in [Runs -> Record]
         /\ calls' \subseteq Call
         /\ AttachNumbered'
         /\ procs' \subseteq Process
<1> USE DEF TypeInv, TypeOK
<1>1. run[c.run] \in Record
  OBVIOUS
<1>2. run' \in [Runs -> Record]
  BY <1>1, FailedTypes DEF FailRun
<1>3. run[c.run].handle \in 0..MaxSpawn
  BY <1>1 DEF Record
<1>4. /\ NewCall("stopFail", c.run, run[c.run].handle) \in Call
      /\ NewCall("stopFail", c.run, run[c.run].handle).op = "stopFail"
  BY <1>3, NewCallTypes DEF CallOps
<1>5. calls' \subseteq Call /\ AttachNumbered'
  <2>1. calls' \subseteq calls \cup {NewCall("stopFail", c.run, run[c.run].handle)}
    BY DEF FailRun
  <2>2. QED
    BY <1>4, <2>1 DEF AttachNumbered, IsAttach
<1>6. procs' \subseteq Process
  BY SignalledTypes DEF FailRun
<1>7. QED
  BY <1>2, <1>5, <1>6

\* attachWorker up to the await of provision: the next process number is free.
LEMMA BeginAttachTypes ==
  ASSUME TypeInv, NEW c, c.run \in Runs, CanSpawn(c.run), NEW x \in Record,
         NEW op \in {"attachCreate", "attachQueued", "attachResume"},
         x.tickets = run[c.run].tickets,
         BeginAttach(c, op, x)
  PROVE  /\ run' \in [Runs -> Record]
         /\ calls' \subseteq Call
         /\ AttachNumbered'
         /\ held' \subseteq Runs
<1>0. \A n \in 0..MaxSpawn : [PassedOver(c.run, x) EXCEPT !.tickets = n] \in Record
  <2>1. \A y \in Record : \A n \in 0..MaxSpawn : [y EXCEPT !.tickets = n] \in Record
    BY DEF Record
  <2>2. QED
    BY <2>1, PassedIs
<1> USE DEF TypeInv, TypeOK
<1>1. run[c.run].tickets + 1 \in 1..MaxSpawn
  <2>1. run[c.run].tickets \in 0..MaxSpawn
    BY DEF Record
  <2>2. QED
    BY <2>1, SizesAssumption DEF CanSpawn
<1>2. [PassedOver(c.run, x) EXCEPT !.tickets = run[c.run].tickets + 1] \in Record
  <2>1. run[c.run].tickets + 1 \in 0..MaxSpawn
    BY <1>1, SizesAssumption
  <2>2. QED
    BY <1>0, <2>1
<1>3. run' \in [Runs -> Record] /\ held' \subseteq Runs
  BY <1>2 DEF BeginAttach
<1>4. [op |-> op, run |-> c.run, no |-> run[c.run].tickets + 1, id |-> 1] \in Call
  BY <1>1, SizesAssumption DEF Call
<1>5. calls' \subseteq Call /\ AttachNumbered'
  BY <1>1, <1>4 DEF BeginAttach, AttachNumbered
<1>6. QED
  BY <1>3, <1>5

\* A step that gives one run a new record, and ends a call or replaces it by one
\* that is no attach.
LEMMA PlainStepTypes ==
  ASSUME TypeInv, NEW r \in Runs, NEW x \in Record,
         run' = [run EXCEPT ![r] = x],
         NEW new \in Call, ~IsAttach(new),
         calls' \subseteq calls \cup {new}
  PROVE  run' \in [Runs -> Record] /\ calls' \subseteq Call /\ AttachNumbered'
BY DEF TypeInv, TypeOK, AttachNumbered

LEMMA PlainEndTypes ==
  ASSUME TypeInv, NEW r \in Runs, NEW x \in Record,
         run' = [run EXCEPT ![r] = x],
         calls' \subseteq calls
  PROVE  run' \in [Runs -> Record] /\ calls' \subseteq Call /\ AttachNumbered'
BY DEF TypeInv, TypeOK, AttachNumbered

LEMMA WakeTypes ==
  ASSUME TypeInv, Wake \/ UNCHANGED starter
  PROVE  starter' \in [pc : {"off", "snapshot", "loop", "wait"}, todo : SUBSET Runs]
BY DEF TypeInv, TypeOK, Wake

LEMMA LeastOf ==
  ASSUME NEW S, S \subseteq Nat, S # {}
  PROVE  \E m \in S : \A n \in S : m <= n
<1>1. PICK m \in S : \A n \in S : <<n, m>> \notin OpToRel(<, Nat)
  BY NatLessThanWellFounded, WFMin
<1>2. \A n \in S : ~(n < m)
  BY <1>1 DEF OpToRel
<1>3. QED
  BY <1>2

\* The oldest run of the list tryStartQueued works on.
LEMMA FirstOfTodo ==
  ASSUME TypeInv, starter.todo # {}
  PROVE  (CHOOSE q \in starter.todo : \A t \in starter.todo : q <= t)
            \in starter.todo \cap Runs
<1>1. starter.todo \subseteq Runs
  BY DEF TypeInv, TypeOK
<1>2. \E q \in starter.todo : \A t \in starter.todo : q <= t
  <2>1. starter.todo \subseteq Nat
    BY <1>1, SizesAssumption DEF Runs
  <2>2. QED
    BY <2>1, LeastOf
<1>3. QED
  BY <1>1, <1>2

\* The steps of createRun and of the queue.
LEMMA StartTypes ==
  ASSUME TypeInv
  PROVE  /\ \A r \in Runs : Create(r) => TypeInv'
         /\ \A c \in calls : SetupInstall(c) \/ SetupFails(c) \/ SetupDone(c)
                               \/ AttachDone(c) \/ AttachFails(c) => TypeInv'
         /\ TryStartQueued => TypeInv'
<1>c. \A c \in calls : c \in Call /\ c.run \in Runs /\ run[c.run] \in Record
  BY DEF TypeInv, TypeOK, Call
<1>z. 0 \in 0..MaxSpawn
  BY SizesAssumption
<1>1. ASSUME NEW r \in Runs, Create(r) PROVE TypeInv'
  <2> DEFINE x == [run[r] EXCEPT !.status = "PROVISIONING",
                     !.setup = "preparing", !.inbound = <<1>>, !.sent = 1]
  <2>1. run[r] \in Record
    BY DEF TypeInv, TypeOK
  <2>2. <<1>> \in Seq(Items)
    BY DEF Items
  <2>3. x \in Record
    BY <2>1, <2>2 DEF Record, Status
  <2>4. NewCall("setup", r, 0) \in Call /\ ~IsAttach(NewCall("setup", r, 0))
    BY <1>z, NewCallTypes DEF CallOps, IsAttach
  <2>5. run' = [run EXCEPT ![r] = x] /\ calls' \subseteq calls \cup {NewCall("setup", r, 0)}
    BY <1>1 DEF Create
  <2> HIDE DEF x
  <2>6. run' \in [Runs -> Record] /\ calls' \subseteq Call /\ AttachNumbered'
    BY <2>3, <2>4, <2>5, PlainStepTypes
  <2>7. QED
    BY <1>1, <2>6 DEF Create, TypeInv, TypeOK
<1>2. ASSUME NEW c \in calls, SetupInstall(c) PROVE TypeInv'
  <2>1. [c EXCEPT !.op = "install"] \in Call /\ ~IsAttach([c EXCEPT !.op = "install"])
    BY <1>c DEF Call, IsAttach
  <2>2. [run[c.run] EXCEPT !.status = "INSTALLING"] \in Record
    BY <1>c DEF Record, Status
  <2>3. /\ run' = [run EXCEPT ![c.run] = [run[c.run] EXCEPT !.status = "INSTALLING"]]
        /\ calls' \subseteq calls \cup {[c EXCEPT !.op = "install"]}
    BY <1>2 DEF SetupInstall
  <2>4. run' \in [Runs -> Record] /\ calls' \subseteq Call /\ AttachNumbered'
    BY <1>c, <2>1, <2>2, <2>3, PlainStepTypes
  <2>5. QED
    BY <1>2, <2>4 DEF SetupInstall, TypeInv, TypeOK
<1>3. ASSUME NEW c \in calls, SetupFails(c) PROVE TypeInv'
  <2>1. PICK error \in {"SETUP_ERROR", "ERROR"} : FailRun(c, error)
    BY <1>3 DEF SetupFails
  <2>2. /\ run' \in [Runs -> Record] /\ calls' \subseteq Call
        /\ AttachNumbered' /\ procs' \subseteq Process
    BY <1>c, <2>1, FailRunTypes
  <2>3. QED
    BY <1>3, <2>2 DEF SetupFails, TypeInv, TypeOK
<1>4. ASSUME NEW c \in calls, SetupDone(c) PROVE TypeInv'
  <2>1. CASE CanSpawn(c.run) /\ BeginAttach(c, "attachCreate", run[c.run])
    <3>1. /\ run' \in [Runs -> Record] /\ calls' \subseteq Call
          /\ AttachNumbered' /\ held' \subseteq Runs
      BY <1>c, <2>1, BeginAttachTypes
    <3>2. QED
      BY <1>4, <3>1 DEF SetupDone, TypeInv, TypeOK
  <2>2. CASE /\ run' = [run EXCEPT ![c.run] = [Queued(@) EXCEPT !.setup = "none"]]
             /\ calls' = calls \ {c}
             /\ UNCHANGED held
    <3>1. Queued(run[c.run]) \in Record
      BY <1>c, DetachedTypes
    <3>2. [Queued(run[c.run]) EXCEPT !.setup = "none"] \in Record
      BY <3>1 DEF Record
    <3>3. run' \in [Runs -> Record] /\ calls' \subseteq Call /\ AttachNumbered'
      BY <1>c, <2>2, <3>2, PlainEndTypes
    <3>4. QED
      BY <1>4, <2>2, <3>3 DEF SetupDone, TypeInv, TypeOK
  <2>3. QED
    BY <1>4, <2>1, <2>2 DEF SetupDone
<1>5. ASSUME NEW c \in calls, AttachDone(c) PROVE TypeInv'
  <2>1. c.no \in 1..MaxSpawn
    BY <1>5, <1>c, SizesAssumption DEF AttachDone, TypeInv, AttachNumbered, Call
  <2>2. <<>> \in Seq(Items)
    OBVIOUS
  <2>3. [run |-> c.run, no |-> c.no, st |-> "booting", origin |-> "spawned",
         batch |-> <<>>, cur |-> 0] \in Process
    BY <1>c, <2>1, <2>2 DEF Process
  <2>4. PICK s \in {"none", "preparing"} :
          run' = [run EXCEPT ![c.run] =
                    [run[c.run] EXCEPT !.status = "RUNNING", !.handle = c.no,
                              !.lease = c.no, !.beat = "none", !.setup = s]]
    <3>1. run[c.run].setup \in {"none", "preparing"}
      BY <1>c DEF Record
    <3>2. QED
      BY <1>5, <3>1 DEF AttachDone
  <2>5. [run[c.run] EXCEPT !.status = "RUNNING", !.handle = c.no, !.lease = c.no,
                           !.beat = "none", !.setup = s] \in Record
    <3>1. c.no \in 0..MaxSpawn
      BY <1>c DEF Call
    <3>2. QED
      BY <1>c, <3>1 DEF Record, Status
  <2>6. run' \in [Runs -> Record]
    BY <1>c, <2>4, <2>5 DEF TypeInv, TypeOK
  <2>7. starter' \in [pc : {"off", "snapshot", "loop", "wait"}, todo : SUBSET Runs]
    BY <1>5 DEF AttachDone, AfterAttach, TypeInv, TypeOK
  <2>8. procs' \subseteq Process /\ calls' \subseteq Call /\ AttachNumbered'
    BY <1>5, <2>3 DEF AttachDone, TypeInv, TypeOK, AttachNumbered
  <2>9. QED
    BY <1>5, <2>6, <2>7, <2>8 DEF AttachDone, TypeInv, TypeOK
<1>6. ASSUME NEW c \in calls, AttachFails(c) PROVE TypeInv'
  <2>1. /\ run' \in [Runs -> Record] /\ calls' \subseteq Call
        /\ AttachNumbered' /\ procs' \subseteq Process
    BY <1>6, <1>c, FailRunTypes DEF AttachFails
  <2>2. starter' \in [pc : {"off", "snapshot", "loop", "wait"}, todo : SUBSET Runs]
    BY <1>6 DEF AttachFails, AfterAttach, TypeInv, TypeOK
  <2>3. held' \subseteq Runs
    BY <1>6 DEF AttachFails, TypeInv, TypeOK
  <2>4. QED
    BY <1>6, <2>1, <2>2, <2>3 DEF AttachFails, TypeInv, TypeOK
<1>7. ASSUME Snapshot PROVE TypeInv'
  <2>1. \A r \in Runs : run[r] \in Record /\ PassedOver(r, run[r]) \in Record
    BY PassedIs DEF TypeInv, TypeOK
  <2>2. run' \in [Runs -> Record]
    BY <1>7, <2>1 DEF Snapshot
  <2>3. QED
    BY <1>7, <2>2 DEF Snapshot, Off, TypeInv, TypeOK, AttachNumbered
<1>8. ASSUME StartNext PROVE TypeInv'
  <2> DEFINE r == CHOOSE q \in starter.todo : \A t \in starter.todo : q <= t
             x == [run[r] EXCEPT !.status = "PROVISIONING"]
             none == [op |-> "none", run |-> r]
  <2>1. r \in Runs
    BY <1>8, FirstOfTodo DEF StartNext
  <2>2. run[r] \in Record
    BY <2>1 DEF TypeInv, TypeOK
  <2>3. x \in Record /\ x.tickets = run[r].tickets
    BY <2>2 DEF Record, Status
  <2> HIDE DEF r
  <2>4. CASE starter' = [starter EXCEPT !.todo = @ \ {r}] /\ UNCHANGED <<run, calls, held>>
    BY <1>8, <2>4 DEF StartNext, TypeInv, TypeOK, AttachNumbered
  <2>5. CASE /\ CanSpawn(r) /\ BeginAttach(none, "attachQueued", x)
             /\ starter' = [pc |-> "wait", todo |-> starter.todo \ {r}]
    <3>1. none.run = r
      OBVIOUS
    <3> HIDE DEF none, x
    <3>2. /\ run' \in [Runs -> Record] /\ calls' \subseteq Call
          /\ AttachNumbered' /\ held' \subseteq Runs
      BY <2>1, <2>3, <2>5, <3>1, BeginAttachTypes
    <3>3. QED
      BY <1>8, <2>5, <3>2 DEF StartNext, TypeInv, TypeOK
  <2>6. CASE run' = [run EXCEPT ![r] = Queued(x)] /\ starter' = Off /\ UNCHANGED <<calls, held>>
    <3>1. Queued(x) \in Record
      BY <2>3, DetachedTypes
    <3>2. QED
      BY <1>8, <2>6, <3>1 DEF StartNext, Off, TypeInv, TypeOK, AttachNumbered
  <2>7. QED
    BY <1>8, <2>4, <2>5, <2>6 DEF StartNext, r
<1>9. ASSUME LoopEnds PROVE TypeInv'
  BY <1>9 DEF LoopEnds, Off, TypeInv, TypeOK, AttachNumbered
<1>10. QED
  BY <1>1, <1>2, <1>3, <1>4, <1>5, <1>6, <1>7, <1>8, <1>9 DEF TryStartQueued

\* Follow-ups and resumeRun.
LEMMA ResumeTypes ==
  ASSUME TypeInv
  PROVE  /\ \A r \in Runs : FollowUp(r) => TypeInv'
         /\ \A c \in calls : Post(c) \/ Rematerialize(c) \/ CloneFails(c)
                               \/ Rebound(c) \/ BindDone(c) => TypeInv'
<1>c. \A c \in calls : c \in Call /\ c.run \in Runs /\ run[c.run] \in Record
  BY DEF TypeInv, TypeOK, Call
<1>n. \A op \in CallOps, r \in Runs :
        /\ NewCall(op, r, 0) \in Call
        /\ op \notin {"attachCreate", "attachQueued", "attachResume"} =>
             ~IsAttach(NewCall(op, r, 0))
  BY NewCallTypes, SizesAssumption DEF IsAttach
<1>1. ASSUME NEW r \in Runs, FollowUp(r) PROVE TypeInv'
  <2>1. NewCall("post", r, 0) \in Call /\ ~IsAttach(NewCall("post", r, 0))
    BY <1>n DEF CallOps
  <2>2. QED
    BY <1>1, <2>1 DEF FollowUp, TypeInv, TypeOK, AttachNumbered
<1>2. ASSUME NEW c \in calls, Post(c) PROVE TypeInv'
  <2> DEFINE x == run[c.run]
             y == [Pushed(x, x.sent + 1) EXCEPT !.sent = @ + 1]
  <2>1. x.sent + 1 \in Items /\ x.sent + 1 \in Nat
    <3>1. x.sent \in Nat
      BY <1>c DEF Record
    <3>2. QED
      BY <3>1 DEF Items
  <2>2. Pushed(x, x.sent + 1) \in Record /\ Pushed(x, x.sent + 1).sent = x.sent
    <3>1. Pushed(x, x.sent + 1) \in Record
      BY <1>c, <2>1, PushedTypes
    <3>2. QED
      BY <1>c, <3>1 DEF Pushed, Record
  <2>3. y \in Record
    BY <2>1, <2>2 DEF Record
  <2>4. PICK op \in {"rebind", "bind"} :
          /\ run' = [run EXCEPT ![c.run] = y]
          /\ calls' \subseteq calls \cup {NewCall(op, c.run, 0)}
    BY <1>2 DEF Post
  <2>5. NewCall(op, c.run, 0) \in Call /\ ~IsAttach(NewCall(op, c.run, 0))
    BY <1>c, <1>n DEF CallOps
  <2> HIDE DEF y
  <2>6. run' \in [Runs -> Record] /\ calls' \subseteq Call /\ AttachNumbered'
    BY <1>c, <2>3, <2>4, <2>5, PlainStepTypes
  <2>7. QED
    BY <1>2, <2>6 DEF Post, TypeInv, TypeOK
<1>3. ASSUME NEW c \in calls, Rematerialize(c) PROVE TypeInv'
  <2>1. PICK s \in Status : run' = [run EXCEPT ![c.run] =
          [run[c.run] EXCEPT !.setup = "preparing", !.status = s]]
    <3>1. run[c.run].status \in Status /\ "PROVISIONING" \in Status
      BY <1>c DEF Record, Status
    <3>2. QED
      BY <1>3, <3>1 DEF Rematerialize
  <2>2. [run[c.run] EXCEPT !.setup = "preparing", !.status = s] \in Record
    BY <1>c DEF Record
  <2>3. PICK op \in {"clone", "reclone"} :
          calls' \subseteq calls \cup {NewCall(op, c.run, 0)}
    BY <1>3 DEF Rematerialize
  <2>4. NewCall(op, c.run, 0) \in Call /\ ~IsAttach(NewCall(op, c.run, 0))
    BY <1>c, <1>n DEF CallOps
  <2>5. run' \in [Runs -> Record] /\ calls' \subseteq Call /\ AttachNumbered'
    BY <1>c, <2>1, <2>2, <2>3, <2>4, PlainStepTypes
  <2>6. QED
    BY <1>3, <2>5 DEF Rematerialize, TypeInv, TypeOK
<1>4. ASSUME NEW c \in calls, CloneFails(c) PROVE TypeInv'
  <2>1. /\ run' \in [Runs -> Record] /\ calls' \subseteq Call
        /\ AttachNumbered' /\ procs' \subseteq Process
    BY <1>c, <1>4, FailRunTypes DEF CloneFails
  <2>2. QED
    BY <1>4, <2>1 DEF CloneFails, TypeInv, TypeOK
<1>5. ASSUME NEW c \in calls, Rebound(c) PROVE TypeInv'
  <2>1. PICK s \in {"none", "preparing"} :
          run' = [run EXCEPT ![c.run] = [run[c.run] EXCEPT !.setup = s]]
    <3>1. run[c.run].setup \in {"none", "preparing"}
      BY <1>c DEF Record
    <3>2. run[c.run] = [run[c.run] EXCEPT !.setup = run[c.run].setup]
      BY <1>c DEF Record
    <3>3. QED
      BY <1>5, <3>1, <3>2 DEF Rebound
  <2>2. [run[c.run] EXCEPT !.setup = s] \in Record
    BY <1>c DEF Record
  <2>3. calls' \subseteq calls \cup {NewCall("bind", c.run, 0)}
    BY <1>5 DEF Rebound
  <2>4. NewCall("bind", c.run, 0) \in Call /\ ~IsAttach(NewCall("bind", c.run, 0))
    BY <1>c, <1>n DEF CallOps
  <2>5. run' \in [Runs -> Record] /\ calls' \subseteq Call /\ AttachNumbered'
    BY <1>c, <2>1, <2>2, <2>3, <2>4, PlainStepTypes
  <2>6. QED
    BY <1>5, <2>5 DEF Rebound, TypeInv, TypeOK
<1>6. ASSUME NEW c \in calls, BindDone(c) PROVE TypeInv'
  <2> DEFINE x == [run[c.run] EXCEPT !.status = "PROVISIONING",
                     !.setup = IF c.op = "clone" THEN "none" ELSE @]
  <2>1. x \in Record /\ x.tickets = run[c.run].tickets
    BY <1>c DEF Record, Status
  <2>2. [x EXCEPT !.status = "IDLE"] \in Record
    BY <2>1 DEF Record, Status
  <2>3. CASE CanSpawn(c.run) /\ BeginAttach(c, "attachResume", x)
    <3> HIDE DEF x
    <3>1. /\ run' \in [Runs -> Record] /\ calls' \subseteq Call
          /\ AttachNumbered' /\ held' \subseteq Runs
      BY <1>c, <2>1, <2>3, BeginAttachTypes
    <3>2. QED
      BY <1>6, <3>1 DEF BindDone, TypeInv, TypeOK
  <2>4. CASE /\ run' = [run EXCEPT ![c.run] = [x EXCEPT !.status = "IDLE"]]
             /\ calls' = calls \ {c}
             /\ UNCHANGED held
    <3> HIDE DEF x
    <3>1. run' \in [Runs -> Record] /\ calls' \subseteq Call /\ AttachNumbered'
      BY <1>c, <2>2, <2>4, PlainEndTypes
    <3>2. QED
      BY <1>6, <2>4, <3>1 DEF BindDone, TypeInv, TypeOK
  <2>5. QED
    BY <1>6, <2>3, <2>4 DEF BindDone
<1>7. QED
  BY <1>1, <1>2, <1>3, <1>4, <1>5, <1>6

\* Stop, archive and idle release.
LEMMA StopTypes ==
  ASSUME TypeInv
  PROVE  /\ \A r \in Runs : Abort(r) \/ Archive(r) \/ IdleRelease(r) => TypeInv'
         /\ \A c \in calls : ArchivePersisted(c) \/ IdleKeeps(c)
                               \/ IdlePersisted(c) \/ StopDone(c) => TypeInv'
<1>c. \A c \in calls : c \in Call /\ c.run \in Runs /\ run[c.run] \in Record
  BY DEF TypeInv, TypeOK, Call
<1>h. \A r \in Runs : run[r] \in Record /\ run[r].handle \in 0..MaxSpawn
  BY DEF TypeInv, TypeOK, Record
<1>n. \A op \in {"bind", "persistArchive", "persistIdle", "stopAbort", "stopArchive", "stopIdle"},
         r \in Runs, no \in 0..MaxSpawn :
        NewCall(op, r, no) \in Call /\ ~IsAttach(NewCall(op, r, no))
  BY NewCallTypes DEF IsAttach, CallOps
<1>z. 0 \in 0..MaxSpawn
  BY SizesAssumption
<1>s. Shutdown \in Items
  BY DEF Items
<1>1. ASSUME NEW r \in Runs, Abort(r) PROVE TypeInv'
  <2> DEFINE y == [GivenUp(run[r]) EXCEPT !.active = 0, !.inbound = <<>>, !.status = "IDLE"]
  <2>1. GivenUp(run[r]) \in Record /\ <<>> \in Seq(Items)
    BY <1>h, FailedTypes
  <2>2. y \in Record
    BY <2>1 DEF Record, Status
  <2>3. run' = [run EXCEPT ![r] = y]
    BY <1>1 DEF Abort
  <2>4. calls' \subseteq calls \cup {NewCall("stopAbort", r, run[r].handle)}
    BY <1>1 DEF Abort
  <2> HIDE DEF y
  <2>5. run' \in [Runs -> Record] /\ calls' \subseteq Call /\ AttachNumbered'
    BY <1>h, <1>n, <2>2, <2>3, <2>4, PlainStepTypes
  <2>6. procs' \subseteq Process
    BY <1>1, SignalledTypes DEF Abort, TypeInv, TypeOK
  <2>7. QED
    BY <1>1, <2>5, <2>6 DEF Abort, TypeInv, TypeOK
<1>2. ASSUME NEW r \in Runs, Archive(r) PROVE TypeInv'
  <2>1. GivenUp(Pushed(run[r], Shutdown)) \in Record
    BY <1>h, <1>s, PushedTypes, FailedTypes
  <2>2. [GivenUp(Pushed(run[r], Shutdown)) EXCEPT !.status = "ARCHIVED"] \in Record
    BY <2>1 DEF Record, Status
  <2>3. /\ run' = [run EXCEPT ![r] =
                     [GivenUp(Pushed(run[r], Shutdown)) EXCEPT !.status = "ARCHIVED"]]
        /\ calls' \subseteq calls \cup {NewCall("persistArchive", r, 0)}
    BY <1>2 DEF Archive
  <2>4. run' \in [Runs -> Record] /\ calls' \subseteq Call /\ AttachNumbered'
    BY <1>n, <1>z, <2>2, <2>3, PlainStepTypes
  <2>5. QED
    BY <1>2, <2>4 DEF Archive, TypeInv, TypeOK
<1>3. ASSUME NEW r \in Runs, IdleRelease(r) PROVE TypeInv'
  <2>1. NewCall("persistIdle", r, 0) \in Call /\ ~IsAttach(NewCall("persistIdle", r, 0))
    BY <1>n, <1>z
  <2>2. QED
    BY <1>3, <2>1 DEF IdleRelease, TypeInv, TypeOK, AttachNumbered
<1>4. ASSUME NEW c \in calls, ArchivePersisted(c) PROVE TypeInv'
  <2>1. PICK x \in Record : run' = [run EXCEPT ![c.run] = x]
    <3>1. Detached(run[c.run]) \in Record
      BY <1>c, DetachedTypes
    <3>2. run = [run EXCEPT ![c.run] = run[c.run]]
      BY <1>c DEF TypeInv, TypeOK
    <3>3. QED
      BY <1>4, <1>c, <3>1, <3>2 DEF ArchivePersisted
  <2>2. calls' \subseteq calls \cup {NewCall("stopArchive", c.run, run[c.run].handle)}
    BY <1>4 DEF ArchivePersisted
  <2>3. run' \in [Runs -> Record] /\ calls' \subseteq Call /\ AttachNumbered'
    BY <1>c, <1>h, <1>n, <2>1, <2>2, PlainStepTypes
  <2>4. procs' \subseteq Process
    BY <1>4, SignalledTypes DEF ArchivePersisted, TypeInv, TypeOK
  <2>5. Wake \/ UNCHANGED starter
    BY <1>4 DEF ArchivePersisted
  <2>6. QED
    BY <1>4, <2>3, <2>4, <2>5, WakeTypes DEF ArchivePersisted, TypeInv, TypeOK
<1>5. ASSUME NEW c \in calls, IdleKeeps(c) PROVE TypeInv'
  BY <1>5 DEF IdleKeeps, TypeInv, TypeOK, AttachNumbered
<1>6. ASSUME NEW c \in calls, NEW x \in Record, IdleReleased(c, x)
      PROVE  /\ run' \in [Runs -> Record] /\ calls' \subseteq Call /\ AttachNumbered'
             /\ releasing' \subseteq Runs
             /\ Wake \/ UNCHANGED starter
  <2>1. Detached(x) \in Record
    BY DetachedTypes
  <2>2. /\ run' = [run EXCEPT ![c.run] = Detached(x)]
        /\ calls' \subseteq calls \cup {NewCall("bind", c.run, 0)}
        /\ releasing' = releasing \ {c.run}
        /\ Wake \/ UNCHANGED starter
    BY <1>6 DEF IdleReleased
  <2>3. run' \in [Runs -> Record] /\ calls' \subseteq Call /\ AttachNumbered'
    BY <1>c, <1>n, <1>z, <2>1, <2>2, PlainStepTypes
  <2>4. QED
    BY <2>2, <2>3 DEF TypeInv, TypeOK
<1>7. ASSUME NEW c \in calls, IdlePersisted(c) PROVE TypeInv'
  <2> DEFINE x == Pushed(run[c.run], Shutdown)
  <2>1. x \in Record /\ x.handle \in 0..MaxSpawn
    <3>1. x \in Record
      BY <1>c, <1>s, PushedTypes
    <3>2. QED
      BY <3>1 DEF Record
  <2>2. CASE /\ run' = [run EXCEPT ![c.run] = x]
             /\ calls' = (calls \ {c}) \cup {NewCall("stopIdle", c.run, x.handle)}
             /\ procs' = Signalled(c.run, x.handle)
             /\ UNCHANGED <<starter, releasing>>
    <3> HIDE DEF x
    <3>1. run' \in [Runs -> Record] /\ calls' \subseteq Call /\ AttachNumbered'
      BY <1>c, <1>n, <2>1, <2>2, PlainStepTypes
    <3>2. procs' \subseteq Process
      BY <2>2, SignalledTypes
    <3>3. QED
      BY <1>7, <2>2, <3>1, <3>2 DEF IdlePersisted, TypeInv, TypeOK
  <2>3. CASE IdleReleased(c, x) /\ UNCHANGED procs
    <3>1. /\ run' \in [Runs -> Record] /\ calls' \subseteq Call /\ AttachNumbered'
          /\ releasing' \subseteq Runs
          /\ Wake \/ UNCHANGED starter
      BY <1>6, <2>1, <2>3
    <3>2. QED
      BY <1>7, <2>3, <3>1, WakeTypes DEF IdlePersisted, TypeInv, TypeOK
  <2>4. QED
    BY <1>7, <2>2, <2>3 DEF IdlePersisted
<1>8. ASSUME NEW c \in calls, StopDone(c) PROVE TypeInv'
  <2>1. CASE c.op = "stopFail" /\ calls' = calls \ {c} /\ Wake /\ UNCHANGED <<run, releasing>>
    BY <1>8, <2>1, WakeTypes DEF StopDone, TypeInv, TypeOK, AttachNumbered
  <2>2. CASE /\ calls' = calls \ {c}
             /\ run' = [run EXCEPT ![c.run] = Detached(@)]
             /\ Wake
             /\ UNCHANGED releasing
    <3>1. Detached(run[c.run]) \in Record
      BY <1>c, DetachedTypes
    <3>2. run' \in [Runs -> Record] /\ calls' \subseteq Call /\ AttachNumbered'
      BY <1>c, <2>2, <3>1, PlainEndTypes
    <3>3. QED
      BY <1>8, <2>2, <3>2, WakeTypes DEF StopDone, TypeInv, TypeOK
  <2>3. CASE IdleReleased(c, run[c.run])
    <3>1. /\ run' \in [Runs -> Record] /\ calls' \subseteq Call /\ AttachNumbered'
          /\ releasing' \subseteq Runs
          /\ Wake \/ UNCHANGED starter
      BY <1>c, <1>6, <2>3
    <3>2. QED
      BY <1>8, <3>1, WakeTypes DEF StopDone, TypeInv, TypeOK
  <2>4. QED
    BY <1>8, <2>1, <2>2, <2>3 DEF StopDone
<1>9. QED
  BY <1>1, <1>2, <1>3, <1>4, <1>5, <1>7, <1>8

LEMMA GreatestOf ==
  ASSUME NEW n \in Nat, NEW S, S \subseteq 1..n, S # {}
  PROVE  \E m \in S : \A k \in S : k <= m
<1> DEFINE T == {n - k : k \in S}
<1>1. T \subseteq Nat /\ T # {}
  <2>1. \A k \in S : n - k \in Nat
    <3>1. \A k \in 1..n : n - k \in Nat
      OBVIOUS
    <3>2. QED
      BY <3>1
  <2>2. QED
    BY <2>1
<1>2. PICK t \in T : \A u \in T : t <= u
  BY <1>1, LeastOf
<1>3. PICK m \in S : t = n - m
  OBVIOUS
<1>4. ASSUME NEW k \in S PROVE k <= m
  <2>1. n - k \in T
    OBVIOUS
  <2> HIDE DEF T
  <2>2. n - m <= n - k
    BY <1>2, <1>3, <2>1
  <2>3. k \in Int /\ m \in Int
    <3>1. k \in 1..n /\ m \in 1..n
      OBVIOUS
    <3>2. QED
      BY <3>1
  <2>4. QED
    BY <2>2, <2>3
<1>5. QED
  BY <1>4

\* The last message of an inbox is a message.
LEMMA LastMessage ==
  ASSUME NEW s \in Seq(Items)
  PROVE  LET items == {i \in DOMAIN s : s[i] # Shutdown}
         IN items # {} =>
              s[CHOOSE i \in items : \A j \in items : j <= i] \in Nat \ {0}
<1> DEFINE items == {i \in DOMAIN s : s[i] # Shutdown}
           last == CHOOSE i \in items : \A j \in items : j <= i
<1> SUFFICES ASSUME items # {} PROVE s[last] \in Nat \ {0}
  OBVIOUS
<1>1. items \subseteq 1..Len(s) /\ Len(s) \in Nat
  OBVIOUS
<1>2. last \in items
  <2>1. \E i \in items : \A j \in items : j <= i
    BY <1>1, GreatestOf
  <2> HIDE DEF items
  <2>2. QED
    BY <2>1
<1>3. s[last] \in Items /\ s[last] # Shutdown
  BY <1>2
<1>4. QED
  BY <1>3 DEF Items

\* The worker's steps, and its exit.
LEMMA WorkerTypes ==
  ASSUME TypeInv
  PROVE  /\ \A p \in procs : WorkerStep(p) => TypeInv'
         /\ \A e \in exits : ExitHook(e) => TypeInv'
<1>p. \A p \in procs :
        /\ p \in Process /\ p.run \in Runs /\ run[p.run] \in Record
        /\ p.batch \in Seq(Items) /\ p.cur \in Nat
  BY DEF TypeInv, TypeOK, Process
<1>1. ASSUME NEW p \in procs, NEW q \in Process, NEW x \in Record,
             run' = [run EXCEPT ![p.run] = x],
             Becomes(p, q),
             UNCHANGED <<calls, starter, held, releasing, exits, booting, restarts>>
      PROVE  TypeInv'
  BY <1>1, <1>p DEF Becomes, TypeInv, TypeOK, AttachNumbered
<1>2. ASSUME NEW p \in procs, Pull(p) PROVE TypeInv'
  <2> DEFINE x == run[p.run]
             items == {i \in DOMAIN x.inbound : x.inbound[i] # Shutdown}
             last == IF items = {} THEN x.active
                     ELSE x.inbound[CHOOSE i \in items : \A j \in items : j <= i]
             taken == ({x.inbound[i] : i \in items} \cup {x.active}) \ {0}
             y(a, S) == [Noted(x) EXCEPT !.inbound = <<>>, !.active = a, !.crowded = S]
  <2>1. /\ Noted(x) \in Record /\ x.inbound \in Seq(Items) /\ <<>> \in Seq(Items)
        /\ x.active \in Nat
    <3>1. x \in Record
      BY <1>p
    <3> HIDE DEF x
    <3>2. Noted(x) \in Record
      BY <3>1, DetachedTypes
    <3>3. QED
      BY <3>1, <3>2 DEF Record
  <2>2. last \in Nat
    <3>1. CASE items = {}
      BY <2>1, <3>1
    <3>2. CASE items # {}
      BY <2>1, <3>2, LastMessage
    <3>3. QED
      BY <3>1, <3>2
  <2>3. taken \subseteq Nat /\ Noted(x).crowded \subseteq Nat
    <3>1. \A i \in items : x.inbound[i] \in Nat
      BY <2>1 DEF Items
    <3>2. QED
      BY <2>1, <3>1 DEF Record
  <2>4. PICK a \in Nat, S \in SUBSET Nat : run' = [run EXCEPT ![p.run] = y(a, S)]
    <3> DEFINE crowd == IF taken \subseteq {last} THEN {} ELSE taken
               S == Noted(x).crowded \cup crowd
    <3>1. run' = [run EXCEPT ![p.run] = [Noted(x) EXCEPT !.inbound = <<>>,
                    !.active = last, !.crowded = @ \cup crowd]]
      BY <1>2 DEF Pull
    <3> HIDE DEF x, taken, last
    <3>2. S \in SUBSET Nat
      BY <2>3
    <3>3. run' = [run EXCEPT ![p.run] = y(last, S)]
      BY <2>1, <3>1 DEF Record
    <3>4. QED
      BY <2>2, <3>2, <3>3
  <2>5. y(a, S) \in Record
    BY <2>1 DEF Record
  <2>6. [p EXCEPT !.batch = x.inbound, !.st = "running"] \in Process
    BY <1>p, <2>1 DEF Process
  <2>7. QED
    BY <1>1, <1>2, <2>4, <2>5, <2>6 DEF Pull
<1>3. ASSUME NEW p \in procs, StartTurn(p) PROVE TypeInv'
  <2>1. Head(p.batch) \in Nat /\ Tail(p.batch) \in Seq(Items)
    <3>1. Head(p.batch) \in Items
      BY <1>3, <1>p DEF StartTurn
    <3>2. QED
      BY <1>3, <1>p, <3>1 DEF StartTurn, Items
  <2>2. [p EXCEPT !.cur = Head(p.batch), !.batch = Tail(@)] \in Process
    BY <1>p, <2>1 DEF Process
  <2>3. Noted(run[p.run]) \in Record
    BY <1>p, DetachedTypes
  <2>4. [Noted(run[p.run]) EXCEPT !.status = "RUNNING"] \in Record
    BY <2>3 DEF Record, Status
  <2>5. QED
    BY <1>1, <1>3, <2>2, <2>4 DEF StartTurn
<1>4. ASSUME NEW p \in procs, EndTurn(p) PROVE TypeInv'
  <2> DEFINE x == Noted(run[p.run])
             y == IF x.status = "RUNNING"
                    THEN [x EXCEPT !.status = "IDLE", !.active = 0] ELSE x
  <2>1. x \in Record
    BY <1>p, DetachedTypes
  <2>2. y \in Record
    BY <2>1 DEF Record, Status
  <2>3. x.answered \cup {p.cur} \in SUBSET Nat
    BY <1>p, <2>1 DEF Record
  <2> HIDE DEF x
  <2>4. [y EXCEPT !.answered = x.answered \cup {p.cur}] \in Record
    <3> HIDE DEF y
    <3>1. QED
      BY <2>2, <2>3 DEF Record
  <2>5. [p EXCEPT !.cur = 0] \in Process
    BY <1>p DEF Process
  <2>6. run' = [run EXCEPT ![p.run] = [y EXCEPT !.answered = x.answered \cup {p.cur}]]
    BY <1>4 DEF EndTurn, x
  <2>7. QED
    BY <1>1, <1>4, <2>4, <2>5, <2>6 DEF EndTurn
<1>5. ASSUME NEW p \in procs, NEW code \in {"zero", "other"}, Dies(p, code),
             UNCHANGED <<run, calls, starter, held, releasing, booting, restarts>>
      PROVE  TypeInv'
  <2>1. [run |-> p.run, no |-> p.no,
         code |-> IF p.origin = "adopted" THEN "other" ELSE code]
          \in [run : Runs, no : 1..MaxSpawn, code : {"zero", "other"}]
    BY <1>p DEF Process
  <2>2. QED
    BY <1>5, <2>1 DEF Dies, TypeInv, TypeOK, AttachNumbered
<1>6. ASSUME NEW p \in procs, ShutDown(p) \/ Terminated(p) \/ Crash(p) PROVE TypeInv'
  BY <1>5, <1>6 DEF ShutDown, Terminated, Crash
<1>7. ASSUME NEW p \in procs, BootFails(p) PROVE TypeInv'
  <2> DEFINE c == [op |-> "none", run |-> p.run]
  <2>1. FailRun(c, "ERROR") /\ c.run \in Runs
    BY <1>7, <1>p DEF BootFails
  <2> HIDE DEF c
  <2>2. /\ run' \in [Runs -> Record] /\ calls' \subseteq Call
        /\ AttachNumbered' /\ procs' \subseteq Process
    BY <2>1, FailRunTypes
  <2>3. QED
    BY <1>7, <2>2 DEF BootFails, TypeInv, TypeOK
<1>8. ASSUME NEW e \in exits, ExitHook(e) PROVE TypeInv'
  <2> DEFINE x == run[e.run]
             y == Detached(x)
  <2>1. e.run \in Runs /\ x \in Record
    BY DEF TypeInv, TypeOK
  <2>2. y \in Record
    BY <2>1, DetachedTypes
  <2>3. x.dropped \cup ({x.active} \ {0}) \in SUBSET Nat
    BY <2>1 DEF Record
  <2> HIDE DEF x, y
  <2>4. [y EXCEPT !.status = "ERROR",
                  !.dropped = x.dropped \cup ({x.active} \ {0})] \in Record
    BY <2>2, <2>3 DEF Record, Status
  <2>5. PICK z \in Record : run' = [run EXCEPT ![e.run] = z]
    <3>1. run = [run EXCEPT ![e.run] = x]
      BY <2>1 DEF TypeInv, TypeOK, x
    <3>2. QED
      BY <1>8, <2>1, <2>2, <2>4, <3>1 DEF ExitHook, x, y
  <2>6. run' \in [Runs -> Record] /\ AttachNumbered'
    BY <1>8, <2>1, <2>5 DEF ExitHook, TypeInv, TypeOK, AttachNumbered
  <2>7. Wake \/ UNCHANGED starter
    BY <1>8 DEF ExitHook
  <2>8. QED
    BY <1>8, <2>6, <2>7, WakeTypes DEF ExitHook, TypeInv, TypeOK
<1>9. QED
  BY <1>2, <1>3, <1>4, <1>6, <1>7, <1>8 DEF WorkerStep

\* The lease watch, and restarts of the control plane.
LEMMA ClockTypes ==
  ASSUME TypeInv
  PROVE  /\ \A r \in Runs : HeartbeatAges(r) \/ Expire(r) \/ Reconcile(r) => TypeInv'
         /\ Restart \/ Booted => TypeInv'
<1>1. ASSUME NEW r \in Runs, HeartbeatAges(r) PROVE TypeInv'
  <2>1. [run[r] EXCEPT !.beat = "none"] \in Record
    <3>1. \A x \in Record : [x EXCEPT !.beat = "none"] \in Record
      BY DEF Record
    <3>2. QED
      BY <3>1 DEF TypeInv, TypeOK
  <2>2. QED
    BY <1>1, <2>1 DEF HeartbeatAges, TypeInv, TypeOK, AttachNumbered
<1>2. ASSUME NEW r \in Runs, Expire(r) PROVE TypeInv'
  <2>1. DetachOrQueue(run[r]) \in Record
    BY PushedTypes DEF TypeInv, TypeOK
  <2>2. run' \in [Runs -> Record] /\ Wake
    BY <1>2, <2>1 DEF Expire, TypeInv, TypeOK
  <2>3. QED
    BY <1>2, <2>2, WakeTypes DEF Expire, TypeInv, TypeOK, AttachNumbered
<1>3. ASSUME NEW r \in Runs, Reconcile(r) PROVE TypeInv'
  BY <1>3 DEF Reconcile, TypeInv, TypeOK, AttachNumbered
<1>4. ASSUME Restart PROVE TypeInv'
  <2>3. \A r \in Runs : run[r] \in Record
    BY DEF TypeInv, TypeOK
  <2>4. run' \in [Runs -> Record]
    <3>1. run' = [r \in Runs |-> run'[r]]
      BY <1>4, RestartIs
    <3>2. ASSUME NEW r \in Runs PROVE run'[r] \in Record
      <4>1. PICK p, q : \E y \in Recovered(run[r], p) : run'[r] = Doubting(y, q)
        BY <1>4, RestartIs
      <4>2. QED
        BY <2>3, <4>1, RecoveredTypes
    <3>3. QED
      BY <3>1, <3>2
  <2>5. \A p \in procs : \A b \in {<<>>, p.batch} : \A o \in {"adopted", "orphan"} :
          [p EXCEPT !.origin = o, !.batch = b] \in Process
    <3>1. <<>> \in Seq(Items)
      OBVIOUS
    <3>2. QED
      BY <3>1 DEF TypeInv, TypeOK, Process
  <2>6. ASSUME NEW p \in procs' PROVE p \in Process
    <3>1. PICK q \in procs : \E o \in {"adopted", "orphan"}, b \in {<<>>, q.batch} :
                               p = [q EXCEPT !.origin = o, !.batch = b]
      BY <1>4, RestartIs
    <3>2. QED
      BY <2>5, <3>1
  <2>7. restarts' \in 0..MaxRestarts
    <3>1. restarts < MaxRestarts /\ restarts' = restarts + 1
      BY <1>4 DEF Restart
    <3>2. restarts \in 0..MaxRestarts /\ MaxRestarts \in Nat
      BY SizesAssumption DEF TypeInv, TypeOK
    <3>3. QED
      BY <3>1, <3>2
  <2>8. QED
    BY <1>4, <2>4, <2>6, <2>7 DEF Restart, Off, TypeInv, TypeOK, AttachNumbered
<1>5. ASSUME Booted PROVE TypeInv'
  BY <1>5, WakeTypes DEF Booted, TypeInv, TypeOK, AttachNumbered
<1>6. QED
  BY <1>1, <1>2, <1>3, <1>4, <1>5

\* The inductive form of the type invariant.
LEMMA TypeInvariant == Spec => []TypeInv
<1>1. Init => TypeInv
  <2>1. <<>> \in Seq(Items) /\ 0 \in 0..MaxSpawn
    BY SizesAssumption
  <2>2. [status |-> "none", setup |-> "none", inbound |-> <<>>, active |-> 0,
         handle |-> 0, lease |-> 0, beat |-> "none", sent |-> 0, tickets |-> 0,
         answered |-> {}, dropped |-> {}, doubted |-> {}, crowded |-> {},
         split |-> FALSE] \in Record
    BY <2>1 DEF Record, Status
  <2>3. 0 \in 0..MaxRestarts
    BY SizesAssumption
  <2>4. Init => run \in [Runs -> Record]
    BY <2>2 DEF Init
  <2>5. Init => starter \in [pc : {"off", "snapshot", "loop", "wait"}, todo : SUBSET Runs]
    BY DEF Init, Off
  <2>6. Init => /\ calls = {} /\ held = {} /\ releasing = {} /\ procs = {}
                /\ exits = {} /\ booting = FALSE /\ restarts = 0
    BY DEF Init
  <2>7. QED
    BY <2>3, <2>4, <2>5, <2>6 DEF TypeInv, TypeOK, AttachNumbered
<1>2. TypeInv /\ [Next]_vars => TypeInv'
  <2> SUFFICES ASSUME TypeInv, [Next]_vars PROVE TypeInv'
    OBVIOUS
  <2>1. ASSUME NEW r \in Runs, RunStep(r) PROVE TypeInv'
    BY <2>1, StartTypes, ResumeTypes, StopTypes, ClockTypes DEF RunStep
  <2>2. ASSUME NEW c \in calls, CallStep(c) PROVE TypeInv'
    BY <2>2, StartTypes, ResumeTypes, StopTypes DEF CallStep
  <2>3. CASE UNCHANGED vars
    BY <2>3 DEF vars, TypeInv, TypeOK, AttachNumbered
  <2>4. QED
    BY <2>1, <2>2, <2>3, StartTypes, WorkerTypes, ClockTypes DEF Next
<1>3. QED
  BY <1>1, <1>2, PTL DEF Spec

\* Type correctness of the orchestrator: no handler takes a status, an inbox, a
\* handle or a process out of its domain, with all features and all faults.
THEOREM TypeCorrect == Spec => []TypeOK
<1>1. TypeInv => TypeOK
  BY DEF TypeInv
<1>2. QED
  BY <1>1, TypeInvariant, PTL

-----------------------------------------------------------------------------
(* The two mutual exclusions of the orchestrator: startingQueued, which lets    *)
(* one queued run start at a time, and `preparing`, which takes a run out of    *)
(* everybody's sight.  Most steps touch neither.                                *)

OwnerOps == {"setup", "install", "attachCreate", "clone", "reclone"}
KeepsStarts ==
  /\ \A d : d.op = "attachQueued" => (d \in calls' <=> d \in calls)
  /\ starter'.pc = "wait" <=> starter.pc = "wait"
KeepsOwners ==
  \A r \in Runs : run'[r].setup = "preparing" =>
    \/ \E d \in calls' : d.run = r /\ d.op \in OwnerOps
    \/ /\ run[r].setup = "preparing"
       /\ \A d \in calls : d.run = r /\ d.op \in OwnerOps => d \in calls'

LEMMA StartsCarry == OneStarter /\ KeepsStarts => OneStarter'
<1> SUFFICES ASSUME OneStarter, KeepsStarts PROVE OneStarter'
  OBVIOUS
<1>1. \A d : d.op = "attachQueued" => (d \in calls' <=> d \in calls)
  BY DEF KeepsStarts
<1>2. starter'.pc = "wait" <=> starter.pc = "wait"
  BY DEF KeepsStarts
<1>3. QED
  BY <1>1, <1>2 DEF OneStarter

LEMMA OwnersCarry == SetupHasOwner /\ KeepsOwners => SetupHasOwner'
<1> SUFFICES ASSUME SetupHasOwner, KeepsOwners, NEW r \in Runs,
                    run'[r].setup = "preparing"
             PROVE  \E d \in calls' : d.run = r /\ d.op \in OwnerOps
  BY DEF SetupHasOwner, CallsOf, OwnerOps
<1>1. CASE run[r].setup = "preparing"
  <2>1. PICK d \in calls : d.run = r /\ d.op \in OwnerOps
    BY <1>1 DEF SetupHasOwner, CallsOf, OwnerOps
  <2>2. QED
    BY <1>1, <2>1 DEF KeepsOwners
<1>2. CASE run[r].setup # "preparing"
  BY <1>2 DEF KeepsOwners
<1>3. QED
  BY <1>1, <1>2

\* Only failRun and the ends of setup take the mark `preparing` away, and only
\* setup puts it there.
LEMMA SetupOf ==
  ASSUME NEW x \in Record
  PROVE  /\ Detached(x).setup = x.setup
         /\ Noted(x).setup = x.setup
         /\ GivenUp(x).setup = x.setup
         /\ \A m : Pushed(x, m).setup = x.setup
         /\ DetachOrQueue(x).setup = x.setup
         /\ \A e \in {"ERROR", "SETUP_ERROR"} : Failed(x, e).setup = "none"
<1>1. \A y \in Record : /\ Detached(y).setup = y.setup
                        /\ Queued(y).setup = y.setup
                        /\ Settled(y).setup = y.setup
  BY DetachedTypes DEF Queued, Settled, Detached, Record
<1>2. Noted(x).setup = x.setup /\ GivenUp(x).setup = x.setup
  BY DEF Noted, GivenUp, Record
<1>3. \A m : Pushed(x, m).setup = x.setup
  BY DEF Pushed, Record
<1>4. Requeued(x) \in Record /\ Requeued(x).setup = x.setup
  BY <1>3, PushedTypes DEF Requeued
<1>5. DetachOrQueue(x).setup = x.setup
  BY <1>1, <1>4 DEF DetachOrQueue
<1>6. ASSUME NEW e \in {"ERROR", "SETUP_ERROR"} PROVE Failed(x, e).setup = "none"
  <2>1. GivenUp(Detached(x)) \in Record
    BY DetachedTypes, FailedTypes
  <2>2. QED
    BY <2>1 DEF Failed, Record
<1>7. QED
  BY <1>1, <1>2, <1>3, <1>5, <1>6

\* failRun ends only the call it is given, and takes the mark away.
LEMMA FailRunKeeps ==
  ASSUME TypeInv, NEW c, c.run \in Runs,
         NEW error \in {"ERROR", "SETUP_ERROR"}, FailRun(c, error)
  PROVE  /\ KeepsOwners
         /\ \A d : d.op = "attachQueued" => (d \in calls' <=> d \in calls /\ d # c)
<1>1. run[c.run] \in Record /\ run[c.run].handle \in 0..MaxSpawn
  BY DEF TypeInv, TypeOK, Record
<1>2. NewCall("stopFail", c.run, run[c.run].handle).op = "stopFail"
  BY <1>1, NewCallTypes DEF CallOps
<1>3. /\ calls' \subseteq (calls \ {c}) \cup {NewCall("stopFail", c.run, run[c.run].handle)}
      /\ calls \ {c} \subseteq calls'
  BY DEF FailRun
<1>4. run' = [run EXCEPT ![c.run] = Failed(run[c.run], error)]
  BY DEF FailRun
<1>5. run'[c.run].setup = "none"
  BY <1>1, <1>4, SetupOf DEF TypeInv, TypeOK
<1>6. \A r \in Runs : r # c.run => run'[r] = run[r]
  BY <1>4 DEF TypeInv, TypeOK
<1>7. KeepsOwners
  BY <1>3, <1>5, <1>6 DEF KeepsOwners
<1>8. QED
  BY <1>2, <1>3, <1>7

\* A step that leaves the marks alone, and ends or replaces a call that is
\* neither a start of a queued run nor the owner of a mark.
LEMMA PlainStepKeeps ==
  ASSUME TypeInv, NEW r \in Runs, NEW x \in Record,
         x.setup = run[r].setup,
         run' = [run EXCEPT ![r] = x],
         NEW c, c.op \notin OwnerOps \cup {"attachQueued"},
         NEW new, new.op # "attachQueued",
         calls' \subseteq calls \cup {new},
         calls \ {c} \subseteq calls'
  PROVE  /\ KeepsOwners
         /\ \A d : d.op = "attachQueued" => (d \in calls' <=> d \in calls)
<1>1. \A q \in Runs : run'[q].setup = run[q].setup
  BY DEF TypeInv, TypeOK
<1>2. \A d \in calls : d.op \in OwnerOps => d \in calls'
  OBVIOUS
<1>3. KeepsOwners
  BY <1>1, <1>2 DEF KeepsOwners
<1>4. QED
  BY <1>3

\* A step of one run that ends call c.
LEMMA OwnerStep ==
  ASSUME TypeInv, NEW r \in Runs, NEW x, run' = [run EXCEPT ![r] = x],
         NEW c, c.run = r \/ c.op \notin OwnerOps, calls \ {c} \subseteq calls',
         \/ x.setup # "preparing"
         \/ \E d \in calls' : d.run = r /\ d.op \in OwnerOps
         \/ x.setup = run[r].setup /\ c.op \notin OwnerOps
  PROVE  KeepsOwners
<1>1. run'[r] = x /\ \A q \in Runs : q # r => run'[q] = run[q]
  BY DEF TypeInv, TypeOK
<1>2. \A q \in Runs : q # r =>
        \A d \in calls : d.run = q /\ d.op \in OwnerOps => d \in calls'
  OBVIOUS
<1>3. QED
  BY <1>1, <1>2 DEF KeepsOwners

\* A step that ends call c and may begin another; neither starts a queued run.
StartsSame == \A d : d.op = "attachQueued" => (d \in calls' <=> d \in calls)
LEMMA StartStep ==
  ASSUME NEW c, NEW new, c.op # "attachQueued", new.op # "attachQueued",
         calls' \subseteq calls \cup {new}, calls \ {c} \subseteq calls'
  PROVE  StartsSame
BY DEF StartsSame

LEMMA WakeKeeps ==
  ASSUME Wake \/ UNCHANGED starter, StartsSame
  PROVE  KeepsStarts
BY DEF Wake, KeepsStarts, StartsSame

\* A step that changes no run's mark and no call.
LEMMA QuietStep ==
  ASSUME TypeInv, NEW r \in Runs, NEW x, x.setup = run[r].setup,
         run' = [run EXCEPT ![r] = x] \/ UNCHANGED run,
         UNCHANGED calls, Wake \/ UNCHANGED starter
  PROVE  KeepsOwners /\ KeepsStarts
<1>1. \A q \in Runs : run'[q].setup = run[q].setup
  BY DEF TypeInv, TypeOK
<1>2. QED
  BY <1>1, WakeKeeps DEF KeepsOwners, StartsSame

\* A step of run r that begins a call which owns nothing.
LEMMA BeginStep ==
  ASSUME TypeInv, NEW r \in Runs, NEW x, x.setup = run[r].setup,
         run' = [run EXCEPT ![r] = x] \/ UNCHANGED run,
         NEW new, new.op # "attachQueued", calls' = calls \cup {new},
         UNCHANGED starter
  PROVE  KeepsOwners /\ KeepsStarts
<1>1. \A q \in Runs : run'[q].setup = run[q].setup
  BY DEF TypeInv, TypeOK
<1>2. QED
  BY <1>1 DEF KeepsOwners, KeepsStarts

LEMMA RunStepKeeps ==
  ASSUME TypeInv, NEW r \in Runs, RunStep(r)
  PROVE  KeepsOwners /\ KeepsStarts
<1> DEFINE x == run[r]
<1>1. x \in Record /\ x.handle \in 0..MaxSpawn /\ 0 \in 0..MaxSpawn
  BY SizesAssumption DEF TypeInv, TypeOK, Record
<1>2. \A op \in CallOps, n \in 0..MaxSpawn :
        NewCall(op, r, n).op = op /\ NewCall(op, r, n).run = r
  BY NewCallTypes
<1>3. ASSUME Create(r) PROVE KeepsOwners /\ KeepsStarts
  <2> DEFINE y == [x EXCEPT !.status = "PROVISIONING",
               !.setup = "preparing", !.inbound = <<1>>, !.sent = 1]
             new == NewCall("setup", r, 0)
  <2>1. new.op = "setup" /\ new.run = r
    BY <1>1, <1>2 DEF CallOps
  <2>2. run' = [run EXCEPT ![r] = y] /\ calls' = calls \cup {new} /\ UNCHANGED starter
    BY <1>3 DEF Create
  <2> HIDE DEF y, new
  <2>3. KeepsOwners
    BY <2>1, <2>2, OwnerStep DEF OwnerOps
  <2>4. KeepsStarts
    BY <2>1, <2>2 DEF KeepsStarts
  <2>5. QED
    BY <2>3, <2>4
<1>4. ASSUME FollowUp(r) PROVE KeepsOwners /\ KeepsStarts
  <2>1. NewCall("post", r, 0).op = "post"
    BY <1>1, <1>2 DEF CallOps
  <2>2. QED
    BY <1>4, <2>1, BeginStep DEF FollowUp
<1>5. ASSUME Abort(r) PROVE KeepsOwners /\ KeepsStarts
  <2> DEFINE y == [GivenUp(x) EXCEPT !.active = 0, !.inbound = <<>>, !.status = "IDLE"]
             new == NewCall("stopAbort", r, x.handle)
  <2>1. GivenUp(x) \in Record /\ GivenUp(x).setup = x.setup
    BY <1>1, SetupOf, FailedTypes
  <2>2. y.setup = x.setup
    BY <2>1 DEF Record
  <2>3. new.op = "stopAbort"
    BY <1>1, <1>2 DEF CallOps
  <2>4. /\ run' = [run EXCEPT ![r] = y]
        /\ calls' = calls \cup {new} \/ UNCHANGED calls
        /\ UNCHANGED starter
    BY <1>5 DEF Abort
  <2> HIDE DEF y, new
  <2>5. QED
    BY <2>2, <2>3, <2>4, BeginStep, QuietStep
<1>6. ASSUME Archive(r) PROVE KeepsOwners /\ KeepsStarts
  <2> DEFINE z == Pushed(x, Shutdown)
             y == [GivenUp(z) EXCEPT !.status = "ARCHIVED"]
             new == NewCall("persistArchive", r, 0)
  <2>1. z \in Record /\ z.setup = x.setup
    BY <1>1, SetupOf, PushedTypes DEF Items
  <2>2. GivenUp(z) \in Record /\ GivenUp(z).setup = z.setup
    BY <2>1, SetupOf, FailedTypes
  <2>3. y.setup = x.setup
    BY <2>1, <2>2 DEF Record
  <2>4. new.op = "persistArchive"
    BY <1>1, <1>2 DEF CallOps
  <2>5. /\ run' = [run EXCEPT ![r] = y] /\ calls' = calls \cup {new}
        /\ UNCHANGED starter
    BY <1>6 DEF Archive
  <2> HIDE DEF y, z, new
  <2>6. QED
    BY <2>3, <2>4, <2>5, BeginStep
<1>7. ASSUME IdleRelease(r) PROVE KeepsOwners /\ KeepsStarts
  <2>1. NewCall("persistIdle", r, 0).op = "persistIdle"
    BY <1>1, <1>2 DEF CallOps
  <2>2. QED
    BY <1>7, <2>1, BeginStep DEF IdleRelease
<1>8. ASSUME HeartbeatAges(r) PROVE KeepsOwners /\ KeepsStarts
  <2>1. [x EXCEPT !.beat = "none"].setup = x.setup
    BY <1>1 DEF Record
  <2>2. run' = [run EXCEPT ![r] = [x EXCEPT !.beat = "none"]]
    BY <1>8 DEF HeartbeatAges
  <2>3. QED
    BY <1>8, <2>1, <2>2, QuietStep DEF HeartbeatAges
<1>9. ASSUME Expire(r) PROVE KeepsOwners /\ KeepsStarts
  <2>1. DetachOrQueue(x).setup = x.setup
    BY <1>1, SetupOf
  <2>2. QED
    BY <1>9, <2>1, QuietStep DEF Expire
<1>10. ASSUME Reconcile(r) PROVE KeepsOwners /\ KeepsStarts
  BY <1>10, QuietStep DEF Reconcile
<1>11. QED
  BY <1>3, <1>4, <1>5, <1>6, <1>7, <1>8, <1>9, <1>10 DEF RunStep

\* What every step of a call may use: the record of its run, and new calls.
LEMMA CallFacts ==
  ASSUME TypeInv, NEW c \in calls
  PROVE  /\ c.run \in Runs /\ run[c.run] \in Record
         /\ run[c.run].handle \in 0..MaxSpawn
         /\ \A op \in CallOps, n \in 0..MaxSpawn :
              NewCall(op, c.run, n).op = op /\ NewCall(op, c.run, n).run = c.run
         /\ 0 \in 0..MaxSpawn
<1>1. c.run \in Runs
  BY DEF TypeInv, TypeOK, Call
<1>2. QED
  BY <1>1, NewCallTypes, SizesAssumption DEF TypeInv, TypeOK, Record

LEMMA SetupStepKeeps ==
  ASSUME TypeInv, NEW c \in calls, SetupInstall(c) \/ SetupFails(c) \/ SetupDone(c)
  PROVE  KeepsOwners /\ KeepsStarts
<1> DEFINE r == c.run
           x == run[r]
<1>1. r \in Runs /\ x \in Record
  BY CallFacts
<1>2. c.op \in {"setup", "install"} /\ UNCHANGED starter
  BY DEF SetupInstall, SetupFails, SetupDone
<1>3. ASSUME SetupInstall(c) PROVE KeepsOwners /\ KeepsStarts
  <2> DEFINE new == [c EXCEPT !.op = "install"]
  <2>1. new.op = "install" /\ new.run = r
    BY DEF TypeInv, TypeOK, Call
  <2>2. /\ run' = [run EXCEPT ![r] = [x EXCEPT !.status = "INSTALLING"]]
        /\ calls' = (calls \ {c}) \cup {new}
    BY <1>3 DEF SetupInstall
  <2> HIDE DEF new, x
  <2>3. KeepsOwners
    BY <1>1, <2>1, <2>2, OwnerStep DEF OwnerOps
  <2>4. StartsSame
    BY <1>2, <2>1, <2>2, StartStep
  <2>5. QED
    BY <1>2, <2>3, <2>4, WakeKeeps
<1>4. ASSUME SetupFails(c) PROVE KeepsOwners /\ KeepsStarts
  <2>1. PICK error \in {"SETUP_ERROR", "ERROR"} : FailRun(c, error)
    BY <1>4 DEF SetupFails
  <2>2. KeepsOwners /\ StartsSame
    BY <1>1, <1>2, <2>1, FailRunKeeps DEF StartsSame
  <2>3. QED
    BY <1>2, <2>2, WakeKeeps
<1>5. ASSUME SetupDone(c) PROVE KeepsOwners /\ KeepsStarts
  <2>1. CASE BeginAttach(c, "attachCreate", x)
    <3> DEFINE n == x.tickets + 1
               y == [PassedOver(r, x) EXCEPT !.tickets = n]
               new == [op |-> "attachCreate", run |-> r, no |-> n, id |-> 1]
    <3>1. run' = [run EXCEPT ![r] = y] /\ calls' = (calls \ {c}) \cup {new}
      BY <2>1 DEF BeginAttach
    <3>2. new.op = "attachCreate" /\ new.run = r
      OBVIOUS
    <3> HIDE DEF new, y, x
    <3>3. KeepsOwners
      BY <1>1, <3>1, <3>2, OwnerStep DEF OwnerOps
    <3>4. StartsSame
      BY <1>2, <3>1, <3>2, StartStep
    <3>5. QED
      BY <1>2, <3>3, <3>4, WakeKeeps
  <2>2. CASE /\ run' = [run EXCEPT ![r] = [Queued(x) EXCEPT !.setup = "none"]]
             /\ calls' = calls \ {c}
    <3> DEFINE y == [Queued(x) EXCEPT !.setup = "none"]
    <3>1. y.setup # "preparing"
      BY <1>1, DetachedTypes DEF Queued, Record
    <3>2. run' = [run EXCEPT ![r] = y] /\ calls' = calls \ {c}
      BY <2>2
    <3> HIDE DEF y
    <3>3. KeepsOwners
      BY <1>1, <3>1, <3>2, OwnerStep
    <3>4. StartsSame
      BY <1>2, <3>2 DEF StartsSame
    <3>5. QED
      BY <1>2, <3>3, <3>4, WakeKeeps
  <2>3. QED
    BY <1>5, <2>1, <2>2 DEF SetupDone
<1>6. QED
  BY <1>3, <1>4, <1>5

\* attachWorker ends: the mark of createRun is gone, and with the loop's call the
\* last start of a queued run.
LEMMA AttachStepKeeps ==
  ASSUME TypeInv, NEW c \in calls, AttachDone(c) \/ AttachFails(c)
  PROVE  /\ KeepsOwners
         /\ \A d : d.op = "attachQueued" => (d \in calls' <=> d \in calls /\ d # c)
         /\ AfterAttach(c)
<1> DEFINE r == c.run
           x == run[r]
           AllStarts ==
             \A d : d.op = "attachQueued" => (d \in calls' <=> d \in calls /\ d # c)
<1>1. r \in Runs /\ x \in Record /\ IsAttach(c)
  BY CallFacts DEF AttachDone, AttachFails
<1>2. ASSUME AttachDone(c) PROVE KeepsOwners /\ AllStarts
  <2> DEFINE y == [x EXCEPT !.status = "RUNNING", !.handle = c.no, !.lease = c.no,
                     !.beat = "none",
                     !.setup = IF c.op = "attachCreate" THEN "none" ELSE x.setup]
  <2>1. y.setup = IF c.op = "attachCreate" THEN "none" ELSE x.setup
    BY <1>1 DEF Record
  <2>2. run' = [run EXCEPT ![r] = y] /\ calls' = calls \ {c}
    BY <1>2 DEF AttachDone
  <2> HIDE DEF y
  <2>3. y.setup # "preparing" \/ (y.setup = run[r].setup /\ c.op \notin OwnerOps)
    BY <1>1, <2>1 DEF IsAttach, OwnerOps
  <2> HIDE DEF x
  <2>4. KeepsOwners
    BY <1>1, <2>2, <2>3, OwnerStep
  <2>5. QED
    BY <2>2, <2>4
<1>3. ASSUME AttachFails(c) PROVE KeepsOwners /\ AllStarts
  BY <1>1, <1>3, FailRunKeeps DEF AttachFails
<1>4. QED
  BY <1>2, <1>3 DEF AttachDone, AttachFails

LEMMA ResumeStepKeeps ==
  ASSUME TypeInv, NEW c \in calls,
         \/ Post(c) \/ Rematerialize(c) \/ CloneFails(c) \/ Rebound(c) \/ BindDone(c)
  PROVE  KeepsOwners /\ KeepsStarts
<1> DEFINE r == c.run
           x == run[r]
<1>1. /\ r \in Runs /\ x \in Record
      /\ \A op \in CallOps : NewCall(op, r, 0).op = op /\ NewCall(op, r, 0).run = r
  BY CallFacts
<1>2. UNCHANGED starter /\ c.op \in {"post", "bind", "rebind", "clone", "reclone"}
  BY DEF Post, Rematerialize, CloneFails, Rebound, BindDone
<1>3. ASSUME Post(c) PROVE KeepsOwners /\ KeepsStarts
  <2> DEFINE y == [Pushed(x, x.sent + 1) EXCEPT !.sent = @ + 1]
  <2>1. y.setup = x.setup
    BY <1>1 DEF Pushed, Record
  <2>2. c.op = "post"
    BY <1>3 DEF Post
  <2>3. PICK op \in {"rebind", "bind"} :
          /\ run' = [run EXCEPT ![r] = y]
          /\ calls' \subseteq calls \cup {NewCall(op, r, 0)}
          /\ calls \ {c} \subseteq calls'
    BY <1>3 DEF Post
  <2>4. NewCall(op, r, 0).op = op
    BY <1>1 DEF CallOps
  <2>5. y.setup = run[r].setup /\ c.op \notin OwnerOps
    BY <2>1, <2>2 DEF OwnerOps
  <2> HIDE DEF y, x
  <2>6. KeepsOwners
    BY <1>1, <2>3, <2>5, OwnerStep
  <2>7. StartsSame
    BY <2>2, <2>3, <2>4, StartStep
  <2>8. QED
    BY <1>2, <2>6, <2>7, WakeKeeps
<1>4. ASSUME Rematerialize(c) PROVE KeepsOwners /\ KeepsStarts
  <2> DEFINE op == IF c.op = "bind" THEN "clone" ELSE "reclone"
             new == NewCall(op, r, 0)
             y == [x EXCEPT !.setup = "preparing",
                    !.status = IF x.status \in {"IDLE", "ERROR", "SETUP_ERROR"}
                                 THEN "PROVISIONING" ELSE x.status]
  <2>1. new.op \in {"clone", "reclone"} /\ new.run = r
    BY <1>1 DEF CallOps
  <2>2. run' = [run EXCEPT ![r] = y] /\ calls' = (calls \ {c}) \cup {new}
    BY <1>4 DEF Rematerialize
  <2> HIDE DEF new, op, y
  <2>3. KeepsOwners
    BY <1>1, <2>1, <2>2, OwnerStep DEF OwnerOps
  <2>4. StartsSame
    BY <1>2, <2>1, <2>2, StartStep
  <2>5. QED
    BY <1>2, <2>3, <2>4, WakeKeeps
<1>5. ASSUME CloneFails(c) PROVE KeepsOwners /\ KeepsStarts
  <2>1. FailRun(c, "SETUP_ERROR")
    BY <1>5 DEF CloneFails
  <2>2. KeepsOwners /\ StartsSame
    BY <1>1, <1>2, <2>1, FailRunKeeps DEF StartsSame
  <2>3. QED
    BY <1>2, <2>2, WakeKeeps
<1>6. ASSUME Rebound(c) PROVE KeepsOwners /\ KeepsStarts
  <2> DEFINE y == IF c.op = "rebind" THEN x ELSE [x EXCEPT !.setup = "none"]
             new == NewCall("bind", r, 0)
  <2>1. (c.op = "rebind" /\ y.setup = x.setup) \/ y.setup = "none"
    BY <1>1 DEF Record
  <2>2. /\ run' = [run EXCEPT ![r] = y]
        /\ calls' \subseteq calls \cup {new} /\ calls \ {c} \subseteq calls'
    BY <1>6 DEF Rebound
  <2>3. new.op = "bind"
    BY <1>1 DEF CallOps
  <2> HIDE DEF y, new
  <2>4. y.setup # "preparing" \/ (y.setup = run[r].setup /\ c.op \notin OwnerOps)
    BY <2>1 DEF OwnerOps
  <2> HIDE DEF x
  <2>5. KeepsOwners
    BY <1>1, <2>2, <2>4, OwnerStep
  <2>6. StartsSame
    BY <1>2, <2>2, <2>3, StartStep
  <2>7. QED
    BY <1>2, <2>5, <2>6, WakeKeeps
<1>7. ASSUME BindDone(c) PROVE KeepsOwners /\ KeepsStarts
  <2> DEFINE z == [x EXCEPT !.status = "PROVISIONING",
                     !.setup = IF c.op = "clone" THEN "none" ELSE @]
             n == x.tickets + 1
             new == [op |-> "attachResume", run |-> r, no |-> n, id |-> 1]
  <2>0. c.op \in {"bind", "clone"}
    BY <1>7 DEF BindDone
  <2>1. z \in Record /\ z.setup = IF c.op = "clone" THEN "none" ELSE x.setup
    BY <1>1 DEF Record, Status
  <2>2. /\ [PassedOver(r, z) EXCEPT !.tickets = n].setup = z.setup
        /\ [z EXCEPT !.status = "IDLE"].setup = z.setup
    <3>1. PassedOver(r, z) \in Record /\ PassedOver(r, z).setup = z.setup
      <4>1. z \in Record
        BY <2>1
      <4> HIDE DEF z, r
      <4>2. QED
        BY <4>1, PassedIs
    <3> HIDE DEF z
    <3>2. QED
      BY <2>1, <3>1 DEF Record
  <2>3. PICK y \in {[PassedOver(r, z) EXCEPT !.tickets = n], [z EXCEPT !.status = "IDLE"]} :
          /\ run' = [run EXCEPT ![r] = y]
          /\ calls' \subseteq calls \cup {new} /\ calls \ {c} \subseteq calls'
    BY <1>7 DEF BindDone, BeginAttach
  <2>4. new.op = "attachResume"
    OBVIOUS
  <2>5. y.setup = IF c.op = "clone" THEN "none" ELSE x.setup
    BY <2>1, <2>2, <2>3
  <2> HIDE DEF z, new
  <2>6. y.setup # "preparing" \/ (y.setup = run[r].setup /\ c.op \notin OwnerOps)
    BY <2>0, <2>5 DEF OwnerOps
  <2> HIDE DEF x
  <2>7. KeepsOwners
    BY <1>1, <2>3, <2>6, OwnerStep
  <2>8. StartsSame
    BY <1>2, <2>3, <2>4, StartStep
  <2>9. QED
    BY <1>2, <2>7, <2>8, WakeKeeps
<1>8. QED
  BY <1>3, <1>4, <1>5, <1>6, <1>7

\* The end of releaseIdleWorker, as its caller sees it.
LEMMA IdleReleasedKeeps ==
  ASSUME TypeInv, NEW c \in calls, c.op \in {"persistIdle", "stopIdle"},
         NEW x \in Record, x.setup = run[c.run].setup, IdleReleased(c, x)
  PROVE  KeepsOwners /\ KeepsStarts
<1> DEFINE y == Detached(x)
           new == NewCall("bind", c.run, 0)
<1>1. c.run \in Runs /\ new.op = "bind"
  BY CallFacts DEF CallOps
<1>2. y.setup = run[c.run].setup /\ c.op \notin OwnerOps
  BY SetupOf DEF OwnerOps
<1>3. /\ run' = [run EXCEPT ![c.run] = y]
      /\ calls' \subseteq calls \cup {new} /\ calls \ {c} \subseteq calls'
      /\ Wake \/ UNCHANGED starter
  BY DEF IdleReleased
<1> HIDE DEF y, new
<1>4. KeepsOwners
  BY <1>1, <1>2, <1>3, OwnerStep
<1>5. StartsSame
  BY <1>1, <1>3, StartStep
<1>6. QED
  BY <1>3, <1>4, <1>5, WakeKeeps

LEMMA StopStepKeeps ==
  ASSUME TypeInv, NEW c \in calls,
         ArchivePersisted(c) \/ IdleKeeps(c) \/ IdlePersisted(c) \/ StopDone(c)
  PROVE  KeepsOwners /\ KeepsStarts
<1> DEFINE r == c.run
           x == run[r]
           StopOps == {"persistArchive", "persistIdle", "stopFail", "stopAbort",
                       "stopArchive", "stopIdle"}
<1>1. r \in Runs /\ x \in Record /\ x.handle \in 0..MaxSpawn /\ c.op \in StopOps
  BY CallFacts DEF ArchivePersisted, IdleKeeps, IdlePersisted, StopDone
<1>2. \A op \in CallOps : NewCall(op, r, x.handle).op = op
  BY <1>1, CallFacts
<1>p. Pushed(x, Shutdown) \in Record /\ Pushed(x, Shutdown).setup = x.setup
  BY <1>1, PushedTypes, SetupOf DEF Items
\* All but the end of releaseIdleWorker: the record keeps its mark, and the call
\* ends, perhaps with stopWorker after it.
<1>3. ASSUME NEW y, y.setup = x.setup, run' = [run EXCEPT ![r] = y],
             NEW op \in {"stopArchive", "stopIdle"},
             calls' \subseteq calls \cup {NewCall(op, r, x.handle)},
             calls \ {c} \subseteq calls', Wake \/ UNCHANGED starter
      PROVE  KeepsOwners /\ KeepsStarts
  <2>1. NewCall(op, r, x.handle).op = op
    BY <1>2 DEF CallOps
  <2>2. c.op \notin OwnerOps \cup {"attachQueued"}
    BY <1>1 DEF OwnerOps
  <2>3. y.setup = run[r].setup /\ r \in Runs
    BY <1>1, <1>3
  <2>4. KeepsOwners
    BY <1>3, <2>2, <2>3, OwnerStep
  <2>5. StartsSame
    BY <1>3, <2>1, <2>2, StartStep
  <2>6. QED
    BY <1>3, <2>4, <2>5, WakeKeeps
<1>4. ASSUME UNCHANGED run PROVE run' = [run EXCEPT ![r] = x]
  BY <1>1, <1>4 DEF TypeInv, TypeOK
<1>5. Detached(x).setup = x.setup
  BY <1>1, SetupOf
<1>6. ASSUME ArchivePersisted(c) PROVE KeepsOwners /\ KeepsStarts
  <2>1. PICK y \in {x, Detached(x)} : run' = [run EXCEPT ![r] = y]
    BY <1>4, <1>6 DEF ArchivePersisted
  <2>2. /\ calls' \subseteq calls \cup {NewCall("stopArchive", r, x.handle)}
        /\ calls \ {c} \subseteq calls'
        /\ Wake \/ UNCHANGED starter
    BY <1>6 DEF ArchivePersisted
  <2>3. QED
    BY <1>3, <1>5, <2>1, <2>2
<1>7. ASSUME IdleKeeps(c) PROVE KeepsOwners /\ KeepsStarts
  <2>1. run' = [run EXCEPT ![r] = x]
    BY <1>4, <1>7 DEF IdleKeeps
  <2>2. calls' = calls \ {c} /\ UNCHANGED starter
    BY <1>7 DEF IdleKeeps
  <2>3. QED
    BY <1>3, <2>1, <2>2
<1>8. ASSUME IdlePersisted(c) PROVE KeepsOwners /\ KeepsStarts
  <2> DEFINE y == Pushed(x, Shutdown)
  <2>1. y.handle = x.handle
    BY <1>1 DEF Pushed, Record
  <2>2. CASE IdleReleased(c, y)
    <3>1. c.op = "persistIdle"
      BY <1>8 DEF IdlePersisted
    <3>2. QED
      BY <1>p, <2>2, <3>1, IdleReleasedKeeps
  <2>3. CASE /\ run' = [run EXCEPT ![r] = y]
             /\ calls' = (calls \ {c}) \cup {NewCall("stopIdle", r, y.handle)}
             /\ UNCHANGED starter
    BY <1>3, <1>p, <2>1, <2>3
  <2>4. QED
    BY <1>8, <2>2, <2>3 DEF IdlePersisted
<1>9. ASSUME StopDone(c) PROVE KeepsOwners /\ KeepsStarts
  <2>1. CASE c.op = "stopIdle" /\ IdleReleased(c, x)
    BY <1>1, <2>1, IdleReleasedKeeps
  <2>2. CASE calls' = calls \ {c} /\ Wake /\ UNCHANGED run
    BY <1>3, <1>4, <2>2
  <2>3. CASE calls' = calls \ {c} /\ Wake /\ run' = [run EXCEPT ![r] = Detached(x)]
    BY <1>3, <1>5, <2>3
  <2>4. QED
    BY <1>9, <2>1, <2>2, <2>3 DEF StopDone
<1>10. QED
  BY <1>6, <1>7, <1>8, <1>9

LEMMA WorkerStepKeeps ==
  ASSUME TypeInv, NEW p \in procs, WorkerStep(p)
  PROVE  KeepsOwners /\ KeepsStarts
<1> DEFINE r == p.run
           x == run[r]
<1>1. r \in Runs /\ x \in Record
  BY DEF TypeInv, TypeOK, Process
<1>2. Noted(x) \in Record /\ Noted(x).setup = x.setup
  BY <1>1, DetachedTypes, SetupOf
<1>3. ASSUME NEW y, y.setup = x.setup, run' = [run EXCEPT ![r] = y],
             UNCHANGED <<calls, starter>>
      PROVE  KeepsOwners /\ KeepsStarts
  BY <1>1, <1>3, QuietStep
<1>4. ASSUME Pull(p) PROVE KeepsOwners /\ KeepsStarts
  <2>2. PICK m, T :
          run' = [run EXCEPT ![r] =
                    [Noted(x) EXCEPT !.inbound = <<>>, !.active = m, !.crowded = @ \cup T]]
    BY <1>4 DEF Pull
  <2>3. [Noted(x) EXCEPT !.inbound = <<>>, !.active = m, !.crowded = @ \cup T].setup = x.setup
    BY <1>2 DEF Record
  <2>4. QED
    BY <1>3, <1>4, <2>2, <2>3 DEF Pull
<1>5. ASSUME StartTurn(p) PROVE KeepsOwners /\ KeepsStarts
  <2>1. [Noted(x) EXCEPT !.status = "RUNNING"].setup = x.setup
    BY <1>2 DEF Record
  <2>2. run' = [run EXCEPT ![r] = [Noted(x) EXCEPT !.status = "RUNNING"]]
    BY <1>5 DEF StartTurn
  <2>3. QED
    BY <1>3, <1>5, <2>1, <2>2 DEF StartTurn
<1>6. ASSUME EndTurn(p) PROVE KeepsOwners /\ KeepsStarts
  <2> DEFINE z == Noted(x)
             y == IF z.status = "RUNNING"
                    THEN [z EXCEPT !.status = "IDLE", !.active = 0] ELSE z
             a == z.answered \cup {p.cur}
  <2>1. y.setup = x.setup /\ [y EXCEPT !.answered = a].setup = y.setup
    BY <1>2 DEF Record
  <2>2. run' = [run EXCEPT ![r] = [y EXCEPT !.answered = a]]
    BY <1>6 DEF EndTurn
  <2>3. [y EXCEPT !.answered = a].setup = x.setup
    BY <2>1
  <2> HIDE DEF y, a
  <2>4. QED
    BY <1>3, <1>6, <2>2, <2>3 DEF EndTurn
<1>7. ASSUME ShutDown(p) \/ Terminated(p) \/ Crash(p) PROVE KeepsOwners /\ KeepsStarts
  BY <1>1, <1>7, QuietStep DEF ShutDown, Terminated, Crash
<1>8. ASSUME BootFails(p) PROVE KeepsOwners /\ KeepsStarts
  <2> DEFINE c == [op |-> "none", run |-> r]
  <2>1. FailRun(c, "ERROR") /\ UNCHANGED starter
    BY <1>8 DEF BootFails
  <2>2. c.run = r /\ c.op = "none"
    OBVIOUS
  <2> HIDE DEF c
  <2>3. KeepsOwners /\ \A d : d.op = "attachQueued" => (d \in calls' <=> d \in calls /\ d # c)
    BY <1>1, <2>1, <2>2, FailRunKeeps
  <2>4. StartsSame
    BY <2>2, <2>3 DEF StartsSame
  <2>5. QED
    BY <2>1, <2>3, <2>4, WakeKeeps
<1>9. QED
  BY <1>4, <1>5, <1>6, <1>7, <1>8 DEF WorkerStep

LEMMA ExitHookKeeps ==
  ASSUME TypeInv, NEW e \in exits, ExitHook(e)
  PROVE  KeepsOwners /\ KeepsStarts
<1> DEFINE r == e.run
           x == run[r]
<1>1. r \in Runs /\ x \in Record
  BY DEF TypeInv, TypeOK
<1>2. Detached(x) \in Record /\ Detached(x).setup = x.setup
  BY <1>1, DetachedTypes, SetupOf
<1>3. \A dr : [Detached(x) EXCEPT !.status = "ERROR", !.dropped = dr].setup = x.setup
  BY <1>2 DEF Record
<1>4. UNCHANGED calls /\ (Wake \/ UNCHANGED starter)
  BY DEF ExitHook
<1>5. CASE UNCHANGED run
  BY <1>1, <1>4, <1>5, QuietStep
<1>6. CASE run' = [run EXCEPT ![r] = Detached(x)]
  BY <1>1, <1>2, <1>4, <1>6, QuietStep
<1>7. ASSUME NEW dr,
             run' = [run EXCEPT ![r] =
                       [Detached(x) EXCEPT !.status = "ERROR", !.dropped = dr]]
      PROVE  KeepsOwners /\ KeepsStarts
  BY <1>1, <1>3, <1>4, <1>7, QuietStep
<1>8. QED
  BY <1>5, <1>6, <1>7 DEF ExitHook

\* The queue gives no mark away, and begins a start only when none is under way.
LEMMA QueueKeeps ==
  ASSUME TypeInv, OneStarter, TryStartQueued
  PROVE  KeepsOwners /\ OneStarter'
<1>1. ASSUME Snapshot \/ LoopEnds PROVE KeepsOwners /\ OneStarter'
  <2>1. UNCHANGED calls /\ \A r \in Runs : run'[r].setup = run[r].setup
    <3>1. \A r \in Runs : PassedOver(r, run[r]).setup = run[r].setup
      BY PassedIs DEF TypeInv, TypeOK
    <3>2. QED
      BY <1>1, <3>1 DEF Snapshot, LoopEnds
  <2>2. starter.pc # "wait" /\ starter'.pc # "wait"
    BY <1>1 DEF Snapshot, LoopEnds, Off
  <2>3. QED
    BY <2>1, <2>2, StartsCarry DEF KeepsOwners, KeepsStarts
<1>2. ASSUME StartNext PROVE KeepsOwners /\ OneStarter'
  <2> DEFINE r == CHOOSE q \in starter.todo : \A t \in starter.todo : q <= t
             x == [run[r] EXCEPT !.status = "PROVISIONING"]
             none == [op |-> "none", run |-> r]
             n == run[r].tickets + 1
             new == [op |-> "attachQueued", run |-> r, no |-> n, id |-> 1]
  <2>1. r \in Runs
    <3>1. starter.todo \in SUBSET Runs /\ starter.todo # {}
      BY <1>2 DEF StartNext, TypeInv, TypeOK
    <3>2. QED
      BY <3>1, FirstOfTodo
  <2>2. starter.pc = "loop" /\ \A c \in calls : c.op # "attachQueued"
    BY <1>2 DEF StartNext, OneStarter
  <2>3. x \in Record /\ x.setup = run[r].setup
    <3> HIDE DEF r
    <3>1. run[r] \in Record
      BY <2>1 DEF TypeInv, TypeOK
    <3>2. QED
      BY <3>1 DEF Record, Status
  <2>t. starter \in [pc : {"off", "snapshot", "loop", "wait"}, todo : SUBSET Runs]
    BY DEF TypeInv, TypeOK
  <2>4. \/ UNCHANGED <<run, calls>> /\ starter'.pc = "loop"
        \/ BeginAttach(none, "attachQueued", x) /\ starter'.pc = "wait"
        \/ run' = [run EXCEPT ![r] = Queued(x)] /\ UNCHANGED calls /\ starter' = Off
    <3>1. [starter EXCEPT !.todo = @ \ {r}].pc = "loop"
      BY <2>2, <2>t
    <3>2. \/ starter' = [starter EXCEPT !.todo = @ \ {r}] /\ UNCHANGED <<run, calls>>
          \/ /\ BeginAttach(none, "attachQueued", x)
             /\ starter' = [pc |-> "wait", todo |-> starter.todo \ {r}]
          \/ /\ run' = [run EXCEPT ![r] = Queued(x)]
             /\ UNCHANGED calls /\ starter' = Off
      BY <1>2 DEF StartNext
    <3>3. [pc |-> "wait", todo |-> starter.todo \ {r}].pc = "wait"
      OBVIOUS
    <3> HIDE DEF x, none, r
    <3>4. QED
      BY <3>1, <3>2, <3>3
  <2>5. CASE UNCHANGED <<run, calls>> /\ starter'.pc = "loop"
    BY <2>2, <2>5 DEF KeepsOwners, OneStarter
  <2>6. CASE BeginAttach(none, "attachQueued", x) /\ starter'.pc = "wait"
    <3> DEFINE y == [PassedOver(r, x) EXCEPT !.tickets = n]
    <3>1. y.setup = run[r].setup
      <4>1. PassedOver(r, x) \in Record /\ PassedOver(r, x).setup = run[r].setup
        BY <2>3, PassedIs
      <4> HIDE DEF x, r
      <4>2. QED
        BY <4>1 DEF Record
    <3>2. run' = [run EXCEPT ![r] = y] /\ calls' = (calls \ {none}) \cup {new}
      BY <2>6 DEF BeginAttach
    <3>3. none.op = "none" /\ new.op = "attachQueued"
      OBVIOUS
    <3> HIDE DEF y, none, new, x, r
    <3>4. KeepsOwners
      BY <2>1, <3>1, <3>2, <3>3, OwnerStep DEF OwnerOps
    <3>5. OneStarter'
      BY <2>2, <2>6, <3>2, <3>3 DEF OneStarter
    <3>6. QED
      BY <3>4, <3>5
  <2>7. CASE run' = [run EXCEPT ![r] = Queued(x)] /\ UNCHANGED calls /\ starter' = Off
    <3>1. Queued(x).setup = run[r].setup
      BY <2>3, DetachedTypes DEF Queued, Detached, Record
    <3>2. \A q \in Runs : run'[q].setup = run[q].setup
      BY <2>1, <2>7, <3>1 DEF TypeInv, TypeOK
    <3>3. starter'.pc = "off"
      BY <2>7 DEF Off
    <3>4. QED
      BY <2>2, <2>7, <3>2, <3>3 DEF KeepsOwners, OneStarter
  <2>8. QED
    BY <2>4, <2>5, <2>6, <2>7
<1>3. QED
  BY <1>1, <1>2 DEF TryStartQueued

\* A restart drops every call, and recoverLiveWorkers starts from a record that
\* is not in `preparing`.
LEMMA RestartKeeps ==
  ASSUME TypeInv, Restart
  PROVE  KeepsOwners /\ OneStarter'
<1>1. calls' = {} /\ starter'.pc = "off"
  BY DEF Restart, Off
<1>2. \A r \in Runs : run[r] \in Record
  BY DEF TypeInv, TypeOK
<1>3. ASSUME NEW r \in Runs PROVE run'[r].setup = "none"
  <2>1. PICK p, q : \E y \in Recovered(run[r], p) : run'[r] = Doubting(y, q)
    BY RestartIs
  <2>2. QED
    BY <1>2, <2>1, RecoveredTypes
<1>4. QED
  BY <1>1, <1>3 DEF KeepsOwners, OneStarter

\* Every step of the orchestrator and the workers, one kind after another.
LEMMA StepKeeps ==
  ASSUME TypeInv, OneStarter, [Next]_vars
  PROVE  KeepsOwners /\ OneStarter'
<1>1. ASSUME KeepsOwners /\ KeepsStarts PROVE KeepsOwners /\ OneStarter'
  BY <1>1, StartsCarry
<1>2. ASSUME NEW c \in calls, CallStep(c) PROVE KeepsOwners /\ OneStarter'
  <2>1. CASE AttachDone(c) \/ AttachFails(c)
    <3>1. /\ KeepsOwners
          /\ \A d : d.op = "attachQueued" => (d \in calls' <=> d \in calls /\ d # c)
          /\ AfterAttach(c)
      BY <2>1, AttachStepKeeps
    <3>2. CASE c.op = "attachQueued"
      <4>1. starter.pc = "wait" /\ \A d \in calls : d.op = "attachQueued" => d = c
        BY <3>2 DEF OneStarter
      <4>2. starter' = [starter EXCEPT !.pc = "loop"]
        BY <3>1, <3>2 DEF AfterAttach
      <4>3. starter'.pc = "loop"
        BY <4>2 DEF TypeInv, TypeOK
      <4>4. QED
        BY <3>1, <4>1, <4>3 DEF OneStarter
    <3>3. CASE c.op # "attachQueued"
      <4>1. UNCHANGED starter
        BY <3>1, <3>3 DEF AfterAttach
      <4>2. KeepsStarts
        BY <3>1, <3>3, <4>1 DEF KeepsStarts
      <4>3. QED
        BY <1>1, <3>1, <4>2
    <3>4. QED
      BY <3>2, <3>3
  <2>2. QED
    BY <1>1, <1>2, <2>1, SetupStepKeeps, ResumeStepKeeps, StopStepKeeps DEF CallStep
<1>3. ASSUME Booted PROVE KeepsOwners /\ KeepsStarts
  BY <1>3, WakeKeeps DEF Booted, KeepsOwners, StartsSame
<1>4. CASE UNCHANGED vars
  BY <1>1, <1>4 DEF vars, KeepsOwners, KeepsStarts
<1>5. QED
  BY <1>1, <1>2, <1>3, <1>4, RunStepKeeps, WorkerStepKeeps, ExitHookKeeps,
     QueueKeeps, RestartKeeps DEF Next

\* startingQueued: however the callers of tryStartQueued, the outcomes of
\* attachWorker and restarts interleave, at most one queued run is being started,
\* and the loop waits exactly while that start is under way: it never runs a second
\* time beside it, and is never left waiting for a start that has ended.
THEOREM StarterAlone == Spec => []OneStarter
<1>1. Init => OneStarter
  BY DEF Init, Off, OneStarter
<1>2. TypeInv /\ OneStarter /\ [Next]_vars => OneStarter'
  BY StepKeeps
<1>3. QED
  BY <1>1, <1>2, TypeInvariant, PTL DEF Spec

\* `preparing`: a run that isSetupInFlight hides from the queue, the heartbeat
\* check and the recovery always has a call under way that will show it again.
THEOREM SetupOwned == Spec => []SetupHasOwner
<1>1. Init => SetupHasOwner
  BY DEF Init, SetupHasOwner
<1>2. TypeInv /\ OneStarter /\ SetupHasOwner /\ [Next]_vars => SetupHasOwner'
  BY StepKeeps, OwnersCarry
<1>3. QED
  BY <1>1, <1>2, TypeInvariant, StarterAlone, PTL DEF Spec

-----------------------------------------------------------------------------
(* The life of one run, as long as its users wait for it: they send a          *)
(* follow-up when the run is not working and nothing of it is under way.  Or   *)
(* they also write while it has a worker, and no idle worker is released.  No  *)
(* one presses Stop or archives a run, no heartbeat is late, runs have no      *)
(* repos, and the control plane stays up: under any one of those the code can  *)
(* give a run two workers.  What fails and when is up to Faults.               *)
Quiet ==
  /\ \/ Timing \in {"patient", "quiet"} /\ Features \subseteq {"idle"}
     \/ Timing = "attached" /\ Features = {}
  /\ MaxRestarts = 0

\* A run's calls, processes and exits, and the operations a quiet run has.
Of(S, r) == {z \in S : z.run = r}
ProcsOf(r) == Of(procs, r)
ExitsOf(r) == Of(exits, r)
PrepOps == {"setup", "install", "attachCreate", "attachQueued", "attachResume"}
MicroOps == {"post", "bind", "rebind"}
IdleOps == {"persistIdle", "stopIdle"}
Exits == [run : Runs, no : 1..MaxSpawn, code : {"zero", "other"}]

\* Messages among the items of an inbox or a batch.
NoUser(s) == \A i \in DOMAIN s : s[i] = Shutdown
OneUser(s) == \A i, j \in DOMAIN s : s[i] # Shutdown /\ s[j] # Shutdown => i = j
UserIs(s, m) == \A i \in DOMAIN s : s[i] # Shutdown => s[i] = m

AtMostOne(S) == \A a, b \in S : a = b

\* A worker belongs to the handle of its run, or to the failRun that stops it.
Owned(x, C, no) ==
  \/ no = x.handle
  \/ x.handle = 0 /\ \E c \in C : c.op = "stopFail" /\ c.no = no
ProcFits(x, C, p) ==
  /\ p.origin = "spawned"
  /\ Owned(x, C, p.no)
  /\ p.st = "dying" => \E c \in C : c.op \in {"stopFail", "stopIdle"}
  /\ p.st = "booting" =>
       /\ x.status = "RUNNING" /\ p.batch = <<>> /\ p.cur = 0
       /\ \A c \in C : c.op = "post"

\* What a call may still rely on after its await.  A follow-up that is sent beside a
\* worker only joins the inbox.
Beside(x) == Timing = "attached" /\ x.handle # 0
CallFits(x, P, E, c) ==
  /\ c.op \in PrepOps \cup MicroOps \cup IdleOps \cup {"stopFail"}
  /\ c.op \in PrepOps =>
       /\ x.handle = 0 /\ P = {} /\ E = {}
       /\ x.status \in {"PROVISIONING", "INSTALLING"}
  /\ c.op \in MicroOps =>
       \/ Beside(x)
       \/ x.status \in {"IDLE", "ERROR", "SETUP_ERROR"} /\ E = {}
  /\ c.op \in {"bind", "rebind"} => x.handle = 0 /\ P = {}
  /\ c.op = "post" => Beside(x) \/ NoUser(x.inbound)
  /\ c.op \in IdleOps =>
       x.status \in {"IDLE", "RUNNING"} /\ NoUser(x.inbound) /\ Timing # "attached"
  /\ c.op = "stopIdle" => x.handle \in {0, c.no}
  /\ c.op = "stopFail" =>
       /\ x.handle = 0 /\ x.inbound = <<>> /\ x.status \in {"ERROR", "SETUP_ERROR"}
       /\ \A p \in P : p.batch = <<>> /\ p.cur = 0 /\ p.st = "dying"

\* One call, one worker or exit at a time, and each in its place.
Fits(x, C, P, E) ==
  /\ AtMostOne(C) /\ AtMostOne(P) /\ AtMostOne(E) /\ (P = {} \/ E = {})
  /\ \A p \in P : ProcFits(x, C, p)
  /\ \A e \in E : Owned(x, C, e.no)
  /\ \A c \in C : CallFits(x, P, E, c)
  /\ x.handle # 0 => P # {} \/ E # {}
  /\ x.status = "none" => x.sent = 0 /\ x.handle = 0 /\ C = {} /\ P = {} /\ E = {}
  /\ x.status # "ARCHIVED"

\* A message is in one place: only the newest is in the inbox, and what a worker
\* holds is the remembered active turn, unless follow-ups come while it works.
WorkFits(x, p) ==
  /\ OneUser(p.batch) /\ UserIs(p.batch, x.active)
  /\ p.cur # 0 => p.cur = x.active /\ x.status = "RUNNING" /\ NoUser(p.batch)
  /\ \/ p.cur = 0 /\ NoUser(p.batch)
     \/ NoUser(x.inbound)
     \/ x.active # x.sent
Told(x, P) == Timing # "attached" =>
  /\ OneUser(x.inbound) /\ UserIs(x.inbound, x.sent)
  /\ NoUser(x.inbound) \/ x.sent \notin x.answered
  /\ x.answered \subseteq 1..x.sent
  /\ x.active \in (0..x.sent) \ x.answered
  /\ x.active \in {0, x.sent} \/ ~NoUser(x.inbound)
  /\ \A p \in P : WorkFits(x, p)

\* Every message but the newest is over, and the newest has not been mislaid.
Over(x) == x.answered \cup x.dropped
Counted(x, C) ==
  /\ \A m \in 1..x.sent :
       m \in Over(x) \/ (m = x.sent /\ (~NoUser(x.inbound) \/ x.active = m))
  /\ \A c \in C : c.op = "post" => \A m \in 1..x.sent : m \in Over(x)

-----------------------------------------------------------------------------
LEMMA InboxFacts ==
  ASSUME NEW s \in Seq(Items)
  PROVE  /\ NoUser(<<>>)
         /\ NoUser(s) => OneUser(s) /\ \A m : UserIs(s, m)
         /\ NoUser(s) => NoUser(Append(s, Shutdown))
         /\ \A m \in Nat \ {0} : NoUser(s) =>
              /\ OneUser(Append(s, m)) /\ UserIs(Append(s, m), m)
              /\ ~NoUser(Append(s, m))
         /\ s # <<>> => Tail(s) \in Seq(Items)
         /\ s # <<>> /\ Head(s) # Shutdown /\ OneUser(s) => NoUser(Tail(s))
         /\ s # <<>> /\ Head(s) # Shutdown => ~NoUser(s)
         /\ \A m : s # <<>> /\ Head(s) # Shutdown /\ UserIs(s, m) => Head(s) = m
<1>1. NoUser(<<>>)
  BY DEF NoUser
<1>2. NoUser(s) => OneUser(s) /\ \A m : UserIs(s, m)
  BY DEF NoUser, OneUser, UserIs
<1>3. \A m \in Items : /\ DOMAIN Append(s, m) = 1..(Len(s) + 1)
                       /\ \A i \in DOMAIN s : Append(s, m)[i] = s[i]
                       /\ Append(s, m)[Len(s) + 1] = m
                       /\ DOMAIN s = 1..Len(s) /\ Len(s) \in Nat
  OBVIOUS
<1>4. NoUser(s) => NoUser(Append(s, Shutdown))
  BY <1>3 DEF NoUser, Items
<1>5. ASSUME NEW m \in Nat \ {0}, NoUser(s)
      PROVE  /\ OneUser(Append(s, m)) /\ UserIs(Append(s, m), m)
             /\ ~NoUser(Append(s, m))
  <2>1. \A i \in DOMAIN Append(s, m) : Append(s, m)[i] # Shutdown => i = Len(s) + 1
    BY <1>3, <1>5 DEF NoUser, Items
  <2>2. Append(s, m)[Len(s) + 1] = m /\ Len(s) + 1 \in DOMAIN Append(s, m)
    BY <1>3 DEF Items
  <2>3. m # Shutdown
    BY DEF Shutdown
  <2>4. QED
    BY <2>1, <2>2, <2>3 DEF OneUser, UserIs, NoUser
<1>6. ASSUME s # <<>>
      PROVE  /\ Tail(s) \in Seq(Items) /\ 1 \in DOMAIN s /\ Head(s) = s[1]
             /\ \A i \in DOMAIN Tail(s) : i + 1 \in DOMAIN s /\ i + 1 # 1 /\ Tail(s)[i] = s[i + 1]
  BY <1>6
<1>7. s # <<>> /\ Head(s) # Shutdown /\ OneUser(s) => NoUser(Tail(s))
  BY <1>6 DEF OneUser, NoUser
<1>8. s # <<>> /\ Head(s) # Shutdown => ~NoUser(s)
  BY <1>6 DEF NoUser
<1>9. \A m : s # <<>> /\ Head(s) # Shutdown /\ UserIs(s, m) => Head(s) = m
  BY <1>6 DEF UserIs
<1>10. QED
  BY <1>1, <1>2, <1>4, <1>5, <1>6, <1>7, <1>8, <1>9

LEMMA UserItem ==
  ASSUME NEW x \in Record
  PROVE  HasUserItem(x) <=> ~NoUser(x.inbound)
BY DEF HasUserItem, NoUser

\* The words of the conversation stay as they were.
SameTalk(x, y) ==
  /\ y.inbound = x.inbound /\ y.sent = x.sent /\ y.active = x.active
  /\ y.answered = x.answered /\ x.dropped \subseteq y.dropped
Idle(P) == \A p \in P : p.batch = <<>> /\ p.cur = 0

LEMMA ToldSame ==
  ASSUME NEW x, NEW y, NEW P, NEW Q, Told(x, P), SameTalk(x, y),
         \A q \in Q : \/ q.batch = <<>> /\ q.cur = 0
                      \/ /\ y.status = x.status \/ q.cur = 0
                         /\ \E p \in P : q.batch = p.batch /\ q.cur = p.cur
  PROVE  Told(y, Q)
<1>1. ASSUME NEW q \in Q, q.batch = <<>> /\ q.cur = 0 PROVE WorkFits(y, q)
  BY <1>1 DEF WorkFits, OneUser, UserIs, NoUser
<1>2. ASSUME NEW q \in Q, NEW p \in P, q.batch = p.batch, q.cur = p.cur,
             y.status = x.status \/ q.cur = 0, Timing # "attached"
      PROVE  WorkFits(y, q)
  BY <1>2 DEF WorkFits, Told, SameTalk
<1>3. Timing # "attached" => \A q \in Q : WorkFits(y, q)
  BY <1>1, <1>2
<1>4. QED
  BY <1>3 DEF Told, SameTalk

LEMMA CountedSame ==
  ASSUME NEW x, NEW y, NEW C, NEW D, Counted(x, C), SameTalk(x, y),
         \A c \in D : c.op # "post"
  PROVE  Counted(y, D)
BY DEF Counted, SameTalk, Over

\* failRun gives every message up.
LEMMA Cleared ==
  ASSUME NEW x \in Record, NEW y, NEW P, NEW Q, NEW D, Told(x, P), Idle(Q),
         y.inbound = <<>>, y.active = 0, y.sent = x.sent, y.answered = x.answered,
         (1..x.sent) \ x.answered \subseteq y.dropped
  PROVE  Told(y, Q) /\ Counted(y, D)
<1>1. \A q \in Q : WorkFits(y, q)
  BY DEF Idle, WorkFits, OneUser, UserIs, NoUser
<1>2. NoUser(y.inbound) /\ OneUser(y.inbound) /\ UserIs(y.inbound, y.sent)
  BY DEF NoUser, OneUser, UserIs
<1>3. Timing # "attached" => 0 \in 0..y.sent /\ 0 \notin y.answered
  BY DEF Told, Record
<1>4. Told(y, Q)
  BY <1>1, <1>2, <1>3 DEF Told
<1>5. QED
  BY <1>4 DEF Counted, Over

-----------------------------------------------------------------------------
(* The invariant, and the frame of a step of one run.                          *)
Conv(r) ==
  /\ Fits(run[r], CallsOf(r), ProcsOf(r), ExitsOf(r))
  /\ Told(run[r], ProcsOf(r))
  /\ Timing = "patient" => Counted(run[r], CallsOf(r))
Listed(r) ==
  r \in starter.todo =>
    CallsOf(r) = {} /\ ProcsOf(r) = {} /\ ExitsOf(r) = {} /\ Waiting(run[r])
Placed(r) ==
  \A c \in CallsOf(r) : /\ c.op \in IdleOps => r \in releasing
                        /\ c.op \in MicroOps => ~Starting
ConvInv == booting = FALSE /\ \A r \in Runs : Conv(r) /\ Listed(r) /\ Placed(r)

\* A step of run r: what it does to the calls, processes and exits of r is all
\* it does to them.
Swap(S, T, in, r) == T = (S \ Of(S, r)) \cup in /\ \A z \in in : z.run = r
StepOf(r, y, C, P, E) ==
  /\ run' = [run EXCEPT ![r] = y]
  /\ Swap(calls, calls', C, r)
  /\ Swap(procs, procs', P, r)
  /\ Swap(exits, exits', E, r)
  /\ releasing \ {r} \subseteq releasing'
  /\ starter'.todo \ {r} \subseteq starter.todo
  /\ Starting' => Starting \/ \A c \in calls : c.op \notin MicroOps
  /\ UNCHANGED booting

LEMMA SwapFacts ==
  ASSUME NEW S, NEW T, NEW in, NEW r, Swap(S, T, in, r)
  PROVE  Of(T, r) = in /\ \A q : q # r => Of(T, q) = Of(S, q)
BY DEF Swap, Of

LEMMA CallsAre == \A r : CallsOf(r) = Of(calls, r)
BY DEF CallsOf, Of

LEMMA Frame ==
  ASSUME TypeInv, ConvInv, NEW r \in Runs, NEW y, NEW C, NEW P, NEW E,
         StepOf(r, y, C, P, E),
         Fits(y, C, P, E), Told(y, P), Timing = "patient" => Counted(y, C),
         r \in starter'.todo => C = {} /\ P = {} /\ E = {} /\ Waiting(y),
         \A c \in C : /\ c.op \in IdleOps => r \in releasing'
                      /\ c.op \in MicroOps => ~Starting'
  PROVE  ConvInv'
<1>1. run'[r] = y /\ \A q \in Runs : q # r => run'[q] = run[q]
  BY DEF StepOf, TypeInv, TypeOK
<1>2. CallsOf(r)' = C /\ \A q \in Runs : q # r => CallsOf(q)' = CallsOf(q)
  <2>1. Of(calls', r) = C /\ \A q \in Runs : q # r => Of(calls', q) = Of(calls, q)
    BY SwapFacts DEF StepOf
  <2>2. QED
    BY <2>1 DEF CallsOf, Of
<1>3. ProcsOf(r)' = P /\ \A q \in Runs : q # r => ProcsOf(q)' = ProcsOf(q)
  BY SwapFacts DEF StepOf, ProcsOf
<1>4. ExitsOf(r)' = E /\ \A q \in Runs : q # r => ExitsOf(q)' = ExitsOf(q)
  BY SwapFacts DEF StepOf, ExitsOf
<1>5. Conv(r)' /\ Listed(r)' /\ Placed(r)'
  BY <1>1, <1>2, <1>3, <1>4 DEF Conv, Listed, Placed
<1>6. ASSUME NEW q \in Runs, q # r PROVE Conv(q)' /\ Listed(q)' /\ Placed(q)'
  <2>1. /\ run'[q] = run[q] /\ CallsOf(q)' = CallsOf(q)
        /\ ProcsOf(q)' = ProcsOf(q) /\ ExitsOf(q)' = ExitsOf(q)
    BY <1>1, <1>2, <1>3, <1>4, <1>6
  <2>2. Conv(q) /\ Listed(q) /\ Placed(q)
    BY DEF ConvInv
  <2>3. Conv(q)'
    BY <2>1, <2>2 DEF Conv
  <2>4. \A c \in CallsOf(q) : c \in calls
    BY DEF CallsOf
  <2>5. q \in starter'.todo => q \in starter.todo
    BY <1>6 DEF StepOf
  <2>6. q \in releasing => q \in releasing'
    BY <1>6 DEF StepOf
  <2>7. ASSUME NEW c \in CallsOf(q)
        PROVE  /\ c.op \in IdleOps => q \in releasing'
               /\ c.op \in MicroOps => ~Starting'
    BY <2>2, <2>4, <2>6 DEF Placed, StepOf
  <2>8. Placed(q)'
    BY <2>1, <2>7 DEF Placed
  <2>9. Listed(q)'
    BY <2>1, <2>2, <2>5 DEF Listed
  <2>10. QED
    BY <2>3, <2>8, <2>9
<1>7. booting' = FALSE
  BY DEF ConvInv, StepOf
<1>8. QED
  BY <1>5, <1>6, <1>7 DEF ConvInv

LEMMA Swapped ==
  ASSUME NEW S, NEW T, NEW r, NEW out, NEW in, T = (S \ out) \cup in,
         \A z \in out \cup in : z.run = r, Of(S, r) \subseteq out
  PROVE  Swap(S, T, in, r)
BY DEF Swap, Of

\* stopWorker's signal reaches the only process of the run.
LEMMA SignalSwap ==
  ASSUME NEW r, NEW p \in procs, procs \subseteq Process, ProcsOf(r) = {p},
         procs' = Signalled(r, p.no)
  PROVE  Swap(procs, procs', {[p EXCEPT !.st = "dying"]}, r)
<1> DEFINE q == [p EXCEPT !.st = "dying"]
<1>1. p.run = r /\ p \in Process /\ q.run = r
  BY DEF ProcsOf, Of, Process
<1>2. \A z \in procs : z.run = r => z = p
  BY DEF ProcsOf, Of
<1>3. Signalled(r, p.no) = (procs \ {p}) \cup {q}
  BY <1>1, <1>2 DEF Signalled
<1>4. Of(procs, r) = {p} /\ \A z \in {p} \cup {q} : z.run = r
  BY <1>1 DEF ProcsOf
<1> HIDE DEF q
<1>5. procs' = (procs \ {p}) \cup {q}
  BY <1>3
<1>6. \A z \in {p} \cup {q} : z.run = r
  BY <1>4
<1>7. Of(procs, r) \subseteq {p}
  BY <1>4
<1>8. Swap(procs, procs', {q}, r)
  BY <1>5, <1>6, <1>7, Swapped
<1>9. QED
  BY <1>8 DEF q

\* A signal to a process the run does not have.
LEMMA SignalMisses ==
  ASSUME NEW r, NEW no, \A p \in procs : ~(p.run = r /\ p.no = no)
  PROVE  Signalled(r, no) = procs
BY DEF Signalled

-----------------------------------------------------------------------------
(* What one run's part of the invariant says to a step.                        *)
LEMMA RunFacts ==
  ASSUME TypeInv, ConvInv, NEW r \in Runs
  PROVE  /\ run[r] \in Record
         /\ CallsOf(r) \subseteq Call /\ ProcsOf(r) \subseteq Process
         /\ ExitsOf(r) \subseteq Exits
         /\ Fits(run[r], CallsOf(r), ProcsOf(r), ExitsOf(r))
         /\ Told(run[r], ProcsOf(r))
         /\ Timing = "patient" => Counted(run[r], CallsOf(r))
         /\ Listed(r) /\ Placed(r)
BY DEF TypeInv, TypeOK, ConvInv, Conv, CallsOf, ProcsOf, ExitsOf, Of, Exits

LEMMA CallAlone ==
  ASSUME TypeInv, ConvInv, NEW c \in calls
  PROVE  /\ c \in Call /\ c.run \in Runs /\ CallsOf(c.run) = {c}
         /\ CallFits(run[c.run], ProcsOf(c.run), ExitsOf(c.run), c)
         /\ c.run \notin starter.todo
<1>1. c \in Call /\ c.run \in Runs
  BY DEF TypeInv, TypeOK, Call
<1>2. c \in CallsOf(c.run)
  BY DEF CallsOf
<1>3. QED
  BY <1>1, <1>2, RunFacts DEF Fits, AtMostOne, Listed

LEMMA ProcAlone ==
  ASSUME TypeInv, ConvInv, NEW p \in procs
  PROVE  /\ p \in Process /\ p.run \in Runs /\ ProcsOf(p.run) = {p}
         /\ ExitsOf(p.run) = {}
         /\ ProcFits(run[p.run], CallsOf(p.run), p)
         /\ Timing # "attached" => WorkFits(run[p.run], p)
         /\ p.run \notin starter.todo
<1>1. p \in Process /\ p.run \in Runs
  BY DEF TypeInv, TypeOK, Process
<1>2. p \in ProcsOf(p.run)
  BY DEF ProcsOf, Of
<1>3. QED
  BY <1>1, <1>2, RunFacts DEF Fits, AtMostOne, Listed, Told

LEMMA ExitAlone ==
  ASSUME TypeInv, ConvInv, NEW e \in exits
  PROVE  /\ e \in Exits /\ e.run \in Runs /\ ExitsOf(e.run) = {e}
         /\ ProcsOf(e.run) = {}
         /\ Owned(run[e.run], CallsOf(e.run), e.no)
         /\ e.run \notin starter.todo
<1>1. e \in Exits /\ e.run \in Runs
  BY DEF TypeInv, TypeOK, Exits
<1>2. e \in ExitsOf(e.run)
  BY DEF ExitsOf, Of
<1>3. QED
  BY <1>1, <1>2, RunFacts DEF Fits, AtMostOne, Listed

\* Between the turns of the microtasks.
Calm == ~Starting /\ \A c \in calls : c.op \notin MicroOps
LEMMA NotBusy ==
  ASSUME Quiet, ~Busy
  PROVE  Calm
BY DEF Quiet, Busy, Microtask, Calm, MicroOps

LEMMA StarterFrame ==
  ASSUME TypeInv, Calm \/ UNCHANGED starter, Wake \/ UNCHANGED starter
  PROVE  /\ \A r : starter'.todo \ {r} \subseteq starter.todo
         /\ Starting' => Starting \/ \A c \in calls : c.op \notin MicroOps
         /\ starter'.todo \subseteq starter.todo
BY DEF Calm, Wake, Starting

\* A call that ended, or went on as another one.
LEMMA CallEnds ==
  ASSUME TypeInv, ConvInv, NEW c \in calls, NEW N, \A n \in N : n.run = c.run,
         calls' = (calls \ {c}) \cup N
  PROVE  Swap(calls, calls', N, c.run)
<1>1. Of(calls, c.run) = {c}
  BY CallAlone, CallsAre
<1>2. \A z \in {c} \cup N : z.run = c.run
  OBVIOUS
<1>3. QED
  BY <1>1, <1>2, Swapped

\* A worker process that became another, or died.
LEMMA ProcSwap ==
  ASSUME TypeInv, ConvInv, NEW p \in procs, NEW N, \A n \in N : n.run = p.run,
         procs' = (procs \ {p}) \cup N
  PROVE  Swap(procs, procs', N, p.run)
<1>1. Of(procs, p.run) = {p}
  BY ProcAlone DEF ProcsOf
<1>2. \A z \in {p} \cup N : z.run = p.run
  OBVIOUS
<1>3. QED
  BY <1>1, <1>2, Swapped

\* What a step leaves alone.
LEMMA Untouched ==
  ASSUME NEW r
  PROVE  /\ calls' = calls => Swap(calls, calls', CallsOf(r), r)
         /\ procs' = procs => Swap(procs, procs', ProcsOf(r), r)
         /\ exits' = exits => Swap(exits, exits', ExitsOf(r), r)
BY DEF Swap, CallsOf, ProcsOf, ExitsOf, Of

-----------------------------------------------------------------------------
(* createRun and its setup.                                                    *)

\* A run with no worker: its record fits whatever call it has, if the call does.
LEMMA FitsAlone ==
  ASSUME NEW y, y.handle = 0, y.status \notin {"none", "ARCHIVED"}
  PROVE  /\ Fits(y, {}, {}, {})
         /\ \A c : CallFits(y, {}, {}, c) => Fits(y, {c}, {}, {})
BY DEF Fits, AtMostOne

LEMMA CreateKeeps ==
  ASSUME TypeInv, ConvInv, Calm, NEW r \in Runs, Create(r)
  PROVE  ConvInv'
<1> DEFINE x == run[r]
           y == [x EXCEPT !.status = "PROVISIONING", !.setup = "preparing",
                          !.inbound = <<1>>, !.sent = 1]
           n == NewCall("setup", r, 0)
<1>1. /\ x \in Record /\ x.status = "none" /\ Fits(x, CallsOf(r), ProcsOf(r), ExitsOf(r))
      /\ Told(x, ProcsOf(r)) /\ Listed(r)
  BY RunFacts DEF Create
<1>2. /\ x.sent = 0 /\ x.handle = 0
      /\ CallsOf(r) = {} /\ ProcsOf(r) = {} /\ ExitsOf(r) = {}
  BY <1>1 DEF Fits
<1>3. n.op = "setup" /\ n.run = r
  BY NewCallTypes, SizesAssumption DEF CallOps
<1>4. /\ y.status = "PROVISIONING" /\ y.handle = 0 /\ y.inbound = <<1>> /\ y.sent = 1
      /\ y.active = x.active /\ y.answered = x.answered
  BY <1>1, <1>2 DEF Record
<1>5. run' = [run EXCEPT ![r] = y] /\ calls' = (calls \ {}) \cup {n}
  BY DEF Create
<1> HIDE DEF y, n
<1>6. StepOf(r, y, {n}, {}, {})
  <2>1. Swap(calls, calls', {n}, r)
    BY <1>2, <1>3, <1>5, CallsAre, Swapped
  <2>2. Swap(procs, procs', {}, r) /\ Swap(exits, exits', {}, r)
    BY <1>2, Untouched DEF Create
  <2>3. QED
    BY <1>5, <2>1, <2>2 DEF StepOf, Create, Starting
<1>7. CallFits(y, {}, {}, n)
  BY <1>3, <1>4 DEF CallFits, PrepOps, MicroOps, IdleOps
<1>8. Fits(y, {n}, {}, {})
  BY <1>4, <1>7, FitsAlone
<1>9. Told(y, {}) /\ Counted(y, {n})
  <2>1. Timing # "attached" => x.answered = {} /\ x.active = 0
    BY <1>1, <1>2 DEF Told, Record
  <2>2. OneUser(<<1>>) /\ UserIs(<<1>>, 1) /\ ~NoUser(<<1>>)
    BY DEF OneUser, UserIs, NoUser, Shutdown
  <2>3. QED
    BY <1>3, <1>4, <2>1, <2>2 DEF Told, Counted, Over
<1>10. r \notin starter'.todo
  BY <1>1 DEF Create, Listed, Waiting
<1>11. QED
  BY <1>3, <1>6, <1>8, <1>9, <1>10, Frame DEF IdleOps, MicroOps

\* A step of a run whose conversation and worker stay as they were.
LEMMA SetupInstallKeeps ==
  ASSUME TypeInv, ConvInv, Calm, NEW c \in calls, SetupInstall(c)
  PROVE  ConvInv'
<1> DEFINE r == c.run
           x == run[r]
           y == [x EXCEPT !.status = "INSTALLING"]
           n == [c EXCEPT !.op = "install"]
<1>1. /\ r \in Runs /\ c \in Call /\ c.op = "setup" /\ CallsOf(r) = {c}
      /\ CallFits(x, ProcsOf(r), ExitsOf(r), c) /\ r \notin starter.todo
  BY CallAlone DEF SetupInstall
<1>2. /\ x \in Record /\ Fits(x, {c}, ProcsOf(r), ExitsOf(r)) /\ Told(x, ProcsOf(r))
      /\ Timing = "patient" => Counted(x, {c})
  BY <1>1, RunFacts
<1>3. x.handle = 0 /\ ProcsOf(r) = {} /\ ExitsOf(r) = {}
  BY <1>1 DEF CallFits, PrepOps
<1>4. n.op = "install" /\ n.run = r
  BY <1>1 DEF Call
<1>5. /\ y.status = "INSTALLING" /\ y.handle = 0 /\ SameTalk(x, y)
  BY <1>2, <1>3 DEF Record, SameTalk
<1>6. run' = [run EXCEPT ![r] = y] /\ calls' = (calls \ {c}) \cup {n}
  BY DEF SetupInstall
<1> HIDE DEF x, y, n
<1>7. StepOf(r, y, {n}, {}, {})
  <2>1. Swap(calls, calls', {n}, r)
    BY <1>4, <1>6, CallEnds
  <2>2. Swap(procs, procs', {}, r) /\ Swap(exits, exits', {}, r)
    BY <1>3, Untouched DEF SetupInstall
  <2>3. QED
    BY <1>6, <2>1, <2>2 DEF StepOf, SetupInstall, Starting
<1>8. Fits(y, {n}, {}, {})
  <2>1. CallFits(y, {}, {}, n)
    BY <1>4, <1>5 DEF CallFits, PrepOps, MicroOps, IdleOps
  <2>2. QED
    BY <1>5, <2>1, FitsAlone
<1>9. Told(y, {})
  BY <1>2, <1>3, <1>5, ToldSame
<1>10. Timing = "patient" => Counted(y, {n})
  BY <1>2, <1>4, <1>5, CountedSame
<1>11. r \notin starter'.todo
  BY <1>1 DEF SetupInstall
<1>12. QED
  BY <1>1, <1>4, <1>7, <1>8, <1>9, <1>10, <1>11, Frame DEF IdleOps, MicroOps

LEMMA FailedIs ==
  ASSUME NEW x \in Record, NEW error \in {"ERROR", "SETUP_ERROR"}
  PROVE  LET y == Failed(x, error) IN
         /\ y.status = error /\ y.handle = 0 /\ y.inbound = <<>> /\ y.active = 0
         /\ y.sent = x.sent /\ y.answered = x.answered
         /\ (1..x.sent) \ x.answered \subseteq y.dropped
<1> DEFINE z == GivenUp(Detached(x))
<1>1. z \in Record
  BY DetachedTypes, FailedTypes
<1>2. z.handle = 0 /\ z.sent = x.sent /\ z.answered = x.answered
  BY DEF GivenUp, Detached, Record
<1>3. (1..x.sent) \ x.answered \subseteq z.dropped
  BY DEF GivenUp, Detached, Record
<1> HIDE DEF z
<1>4. Failed(x, error) = [z EXCEPT !.status = error, !.setup = "none",
                                   !.inbound = <<>>, !.active = 0]
  BY DEF Failed, z
<1>5. QED
  BY <1>1, <1>2, <1>3, <1>4 DEF Record

\* A start that fails: no worker is known, and every message is given up.
LEMMA StartFails ==
  ASSUME TypeInv, ConvInv, Calm, NEW c \in calls, c.op \in PrepOps,
         NEW error \in {"ERROR", "SETUP_ERROR"}, FailRun(c, error),
         starter'.todo = starter.todo, UNCHANGED <<releasing, exits, booting>>
  PROVE  ConvInv'
<1> DEFINE r == c.run
           x == run[r]
           y == Failed(x, error)
<1>1. /\ r \in Runs /\ CallsOf(r) = {c}
      /\ CallFits(x, ProcsOf(r), ExitsOf(r), c) /\ r \notin starter.todo
  BY CallAlone
<1>2. x \in Record /\ Told(x, ProcsOf(r))
  BY <1>1, RunFacts
<1>3. x.handle = 0 /\ ProcsOf(r) = {} /\ ExitsOf(r) = {}
  BY <1>1 DEF CallFits
<1>4. /\ y.status = error /\ y.handle = 0 /\ y.inbound = <<>> /\ y.active = 0
      /\ y.sent = x.sent /\ y.answered = x.answered
      /\ (1..x.sent) \ x.answered \subseteq y.dropped
  BY <1>2, FailedIs
<1>5. run' = [run EXCEPT ![r] = y] /\ calls' = (calls \ {c}) \cup {} /\ procs' = procs
  BY <1>3 DEF FailRun
<1> HIDE DEF x, y
<1>6. StepOf(r, y, {}, {}, {})
  <2>1. Swap(calls, calls', {}, r)
    BY <1>5, CallEnds
  <2>2. Swap(procs, procs', {}, r) /\ Swap(exits, exits', {}, r)
    BY <1>3, <1>5, Untouched
  <2>3. QED
    BY <1>5, <2>1, <2>2 DEF StepOf, Calm
<1>7. Fits(y, {}, {}, {})
  BY <1>4, FitsAlone
<1>8. Told(y, {}) /\ Counted(y, {})
  <2>1. Idle({})
    BY DEF Idle
  <2>2. QED
    BY <1>2, <1>4, <2>1, Cleared
<1>9. QED
  BY <1>1, <1>6, <1>7, <1>8, Frame

LEMMA SetupFailsKeeps ==
  ASSUME TypeInv, ConvInv, Calm, NEW c \in calls, SetupFails(c) \/ AttachFails(c)
  PROVE  ConvInv'
<1>1. PICK error \in {"ERROR", "SETUP_ERROR"} : FailRun(c, error)
  BY DEF SetupFails, AttachFails
<1>2. c.op \in PrepOps
  BY DEF SetupFails, AttachFails, IsAttach, PrepOps
<1>3. starter'.todo = starter.todo
  BY DEF SetupFails, AttachFails, AfterAttach, TypeInv, TypeOK
<1>4. UNCHANGED <<releasing, exits, booting>>
  BY DEF SetupFails, AttachFails
<1>5. QED
  BY <1>1, <1>2, <1>3, <1>4, StartFails

\* Without restarts no worker outlives the control plane.
LEMMA NoOrphan ==
  ASSUME TypeInv, ConvInv
  PROVE  \A p \in procs : p.origin # "orphan"
BY ProcAlone DEF ProcFits

\* attachWorker begins: the call of the run is the start of its next worker.
LEMMA AttachBegins ==
  ASSUME TypeInv, ConvInv, NEW c, NEW r \in Runs, c.run = r, CallsOf(r) \subseteq {c},
         ProcsOf(r) = {}, ExitsOf(r) = {}, run[r].handle = 0, r \notin starter'.todo,
         NEW op \in {"attachCreate", "attachQueued", "attachResume"},
         NEW x \in Record, SameTalk(run[r], x), x.handle = 0,
         x.status \in {"PROVISIONING", "INSTALLING"},
         BeginAttach(c, op, x),
         starter'.todo \subseteq starter.todo, Starting' => Starting,
         UNCHANGED <<releasing, procs, exits, booting>>
  PROVE  ConvInv'
<1> DEFINE n == run[r].tickets + 1
           y == [x EXCEPT !.tickets = n]
           new == [op |-> op, run |-> r, no |-> n, id |-> 1]
<1>0. PassedOver(r, x) = x
  BY PassedIs, NoOrphan
<1>1. /\ run[r] \in Record /\ Told(run[r], {})
      /\ Timing = "patient" => Counted(run[r], CallsOf(r))
  BY RunFacts
<1>2. new.op = op /\ new.run = r
  OBVIOUS
<1>3. y.status = x.status /\ y.handle = 0 /\ SameTalk(run[r], y)
  BY DEF Record, SameTalk
<1>4. run' = [run EXCEPT ![r] = y] /\ calls' = (calls \ {c}) \cup {new}
  BY <1>0 DEF BeginAttach
<1> HIDE DEF n, y, new
<1>5. StepOf(r, y, {new}, {}, {})
  <2>1. Swap(calls, calls', {new}, r)
    <3>1. Of(calls, r) \subseteq {c}
      BY CallsAre
    <3>2. \A z \in {c} \cup {new} : z.run = r
      BY <1>2
    <3>3. QED
      BY <1>4, <3>1, <3>2, Swapped
  <2>2. Swap(procs, procs', {}, r) /\ Swap(exits, exits', {}, r)
    BY Untouched
  <2>3. QED
    BY <1>4, <2>1, <2>2 DEF StepOf
<1>6. Fits(y, {new}, {}, {})
  <2>1. CallFits(y, {}, {}, new)
    BY <1>2, <1>3 DEF CallFits, PrepOps, MicroOps, IdleOps
  <2>2. QED
    BY <1>3, <2>1, FitsAlone
<1>7. Told(y, {})
  BY <1>1, <1>3, ToldSame
<1>8. Timing = "patient" => Counted(y, {new})
  BY <1>1, <1>2, <1>3, CountedSame
<1>9. QED
  BY <1>2, <1>5, <1>6, <1>7, <1>8, Frame DEF IdleOps, MicroOps

\* A run that goes without a worker and without a call, its conversation as it was.
LEMMA Rests ==
  ASSUME TypeInv, ConvInv, NEW c, NEW r \in Runs, c.run = r, CallsOf(r) \subseteq {c},
         ProcsOf(r) = {}, ExitsOf(r) = {}, r \notin starter'.todo,
         NEW y, SameTalk(run[r], y), y.handle = 0, y.status \notin {"none", "ARCHIVED"},
         run' = [run EXCEPT ![r] = y], calls' = calls \ {c},
         releasing \ {r} \subseteq releasing', UNCHANGED <<procs, exits, booting>>,
         starter'.todo \subseteq starter.todo,
         Starting' => Starting \/ \A d \in calls : d.op \notin MicroOps
  PROVE  ConvInv'
<1>1. /\ run[r] \in Record /\ Told(run[r], {})
      /\ Timing = "patient" => Counted(run[r], CallsOf(r))
  BY RunFacts
<1>2. StepOf(r, y, {}, {}, {})
  <2>1. Swap(calls, calls', {}, r)
    <3>1. Of(calls, r) \subseteq {c} /\ calls' = (calls \ {c}) \cup {}
      BY CallsAre
    <3>2. QED
      BY <3>1, Swapped
  <2>2. Swap(procs, procs', {}, r) /\ Swap(exits, exits', {}, r)
    BY Untouched
  <2>3. QED
    BY <2>1, <2>2 DEF StepOf
<1>3. Fits(y, {}, {}, {}) /\ Told(y, {})
  BY <1>1, FitsAlone, ToldSame
<1>4. Timing = "patient" => Counted(y, {})
  BY <1>1, CountedSame
<1>5. QED
  BY <1>2, <1>3, <1>4, Frame

LEMMA SetupDoneKeeps ==
  ASSUME TypeInv, ConvInv, Calm, NEW c \in calls, SetupDone(c)
  PROVE  ConvInv'
<1> DEFINE r == c.run
           x == run[r]
<1>1. /\ r \in Runs /\ CallsOf(r) = {c} /\ x \in Record
      /\ CallFits(x, ProcsOf(r), ExitsOf(r), c) /\ r \notin starter.todo
  BY CallAlone, RunFacts
<1>2. /\ x.handle = 0 /\ ProcsOf(r) = {} /\ ExitsOf(r) = {}
      /\ x.status \in {"PROVISIONING", "INSTALLING"}
  BY <1>1 DEF SetupDone, CallFits, PrepOps
<1>3. UNCHANGED <<starter, releasing, procs, exits, booting>>
  BY DEF SetupDone
<1>4. CASE BeginAttach(c, "attachCreate", x)
  <2>1. SameTalk(x, x)
    BY DEF SameTalk
  <2>2. QED
    BY <1>1, <1>2, <1>3, <1>4, <2>1, AttachBegins DEF Starting
<1>5. CASE /\ run' = [run EXCEPT ![r] = [Queued(@) EXCEPT !.setup = "none"]]
           /\ calls' = calls \ {c}
  <2> DEFINE y == [Queued(x) EXCEPT !.setup = "none"]
  <2>1. SameTalk(x, y) /\ y.handle = 0 /\ y.status = "NOT_YET_STARTED"
    BY <1>1 DEF Queued, Detached, Record, SameTalk
  <2>2. run' = [run EXCEPT ![r] = y]
    BY <1>1, <1>5
  <2> HIDE DEF x, y
  <2>3. QED
    BY <1>1, <1>2, <1>3, <1>5, <2>1, <2>2, Rests DEF x, Starting
<1>6. QED
  BY <1>4, <1>5 DEF SetupDone

LEMMA AttachDoneKeeps ==
  ASSUME TypeInv, ConvInv, Calm, NEW c \in calls, AttachDone(c)
  PROVE  ConvInv'
<1> DEFINE r == c.run
           x == run[r]
           p == [run |-> r, no |-> c.no, st |-> "booting", origin |-> "spawned",
                 batch |-> <<>>, cur |-> 0]
<1>1. /\ r \in Runs /\ CallsOf(r) = {c} /\ x \in Record /\ Told(x, ProcsOf(r))
      /\ CallFits(x, ProcsOf(r), ExitsOf(r), c) /\ r \notin starter.todo
      /\ Timing = "patient" => Counted(x, {c})
  BY CallAlone, RunFacts
<1>2. x.handle = 0 /\ ProcsOf(r) = {} /\ ExitsOf(r) = {}
  BY <1>1 DEF AttachDone, IsAttach, CallFits, PrepOps
<1>3. PICK y : /\ run' = [run EXCEPT ![r] = y] /\ y.status = "RUNNING"
               /\ y.handle = c.no /\ SameTalk(x, y)
  <2>1. PICK s : run' = [run EXCEPT ![r] =
                   [x EXCEPT !.status = "RUNNING", !.handle = c.no, !.lease = c.no,
                             !.beat = "none", !.setup = s]]
    BY DEF AttachDone
  <2> DEFINE y == [x EXCEPT !.status = "RUNNING", !.handle = c.no, !.lease = c.no,
                            !.beat = "none", !.setup = s]
  <2>2. y.status = "RUNNING" /\ y.handle = c.no /\ SameTalk(x, y)
    BY <1>1 DEF Record, SameTalk
  <2> HIDE DEF y
  <2>3. QED
    BY <2>1, <2>2 DEF y
<1>4. /\ p.run = r /\ p.no = c.no /\ p.st = "booting" /\ p.origin = "spawned"
      /\ p.batch = <<>> /\ p.cur = 0
  OBVIOUS
<1>5. procs' = (procs \ {}) \cup {p} /\ calls' = (calls \ {c}) \cup {}
  BY DEF AttachDone
<1>6. starter'.todo = starter.todo
  BY DEF AttachDone, AfterAttach, TypeInv, TypeOK
<1> HIDE DEF x, p
<1>7. StepOf(r, y, {}, {p}, {})
  <2>1. Swap(calls, calls', {}, r)
    BY <1>5, CallEnds
  <2>2. Swap(procs, procs', {p}, r)
    BY <1>2, <1>4, <1>5, Swapped DEF ProcsOf
  <2>3. Swap(exits, exits', {}, r)
    BY <1>2, Untouched DEF AttachDone
  <2>4. QED
    BY <1>3, <1>6, <2>1, <2>2, <2>3 DEF StepOf, AttachDone, Calm
<1>8. Fits(y, {}, {p}, {})
  BY <1>3, <1>4 DEF Fits, AtMostOne, ProcFits, Owned
<1>9. Told(y, {p})
  BY <1>1, <1>3, <1>4, ToldSame
<1>10. Timing = "patient" => Counted(y, {})
  BY <1>1, <1>3, CountedSame
<1>11. QED
  BY <1>1, <1>6, <1>7, <1>8, <1>9, <1>10, Frame

-----------------------------------------------------------------------------
(* Follow-ups.                                                                 *)

LEMMA FollowUpKeeps ==
  ASSUME Quiet, TypeInv, ConvInv, Calm, NEW r \in Runs, FollowUp(r)
  PROVE  ConvInv'
<1> DEFINE x == run[r]
           n == NewCall("post", r, 0)
<1>1. /\ x \in Record /\ Fits(x, CallsOf(r), ProcsOf(r), ExitsOf(r))
      /\ Told(x, ProcsOf(r)) /\ Listed(r) /\ ProcsOf(r) \subseteq Process
      /\ Timing = "patient" => Counted(x, CallsOf(r))
  BY RunFacts
<1>a. ASSUME Beside(x) PROVE CallsOf(r) = {}
  <2>1. ASSUME NEW c \in CallsOf(r) PROVE FALSE
    <3>1. CallFits(x, ProcsOf(r), ExitsOf(r), c)
      BY <1>1 DEF Fits
    <3>2. c.op \notin MicroOps
      BY DEF Calm, CallsOf
    <3>3. QED
      BY <1>a, <3>1, <3>2 DEF CallFits, Beside
  <2>2. QED
    BY <2>1
<1>b. ASSUME ~Beside(x)
      PROVE  /\ CallsOf(r) = {} /\ ExitsOf(r) = {}
             /\ x.status \in {"IDLE", "ERROR", "SETUP_ERROR"} /\ NoUser(x.inbound)
             /\ Timing = "patient" => x.active \in {0} \cup Over(x)
  BY <1>1, <1>b, UserItem
     DEF FollowUp, UserSends, Settling, Quiet, Beside, ExitsOf, Of, Over
<1>2. /\ CallsOf(r) = {}
      /\ \/ Beside(x)
         \/ /\ x.status \in {"IDLE", "ERROR", "SETUP_ERROR"} /\ NoUser(x.inbound)
            /\ ExitsOf(r) = {}
            /\ Timing = "patient" => x.active \in {0} \cup Over(x)
  BY <1>a, <1>b
<1>3. n.op = "post" /\ n.run = r
  BY NewCallTypes, SizesAssumption DEF CallOps
<1>4. run' = [run EXCEPT ![r] = x] /\ calls' = (calls \ {}) \cup {n}
  BY DEF FollowUp, TypeInv, TypeOK
<1> HIDE DEF x, n
<1>5. StepOf(r, x, {n}, ProcsOf(r), ExitsOf(r))
  <2>1. Swap(calls, calls', {n}, r)
    BY <1>2, <1>3, <1>4, CallsAre, Swapped
  <2>2. Swap(procs, procs', ProcsOf(r), r) /\ Swap(exits, exits', ExitsOf(r), r)
    BY Untouched DEF FollowUp
  <2>3. QED
    BY <1>4, <2>1, <2>2 DEF StepOf, FollowUp, Starting
<1>6. Fits(x, {n}, ProcsOf(r), ExitsOf(r))
  <2>1. CallFits(x, ProcsOf(r), ExitsOf(r), n)
    BY <1>2, <1>3 DEF CallFits, PrepOps, MicroOps, IdleOps
  <2>2. ASSUME NEW p \in ProcsOf(r) PROVE ProcFits(x, {n}, p)
    BY <1>1, <1>2, <1>3 DEF Fits, ProcFits, Owned
  <2>4. ASSUME NEW e \in ExitsOf(r) PROVE Owned(x, {n}, e.no)
    BY <1>1, <1>2 DEF Fits, Owned
  <2>3. QED
    BY <1>1, <1>2, <2>1, <2>2, <2>4 DEF Fits, AtMostOne, FollowUp, x
<1>7. ASSUME Timing = "patient" PROVE Counted(x, {n})
  BY <1>1, <1>2, <1>7 DEF Counted, Over, Told, Record, Beside
<1>8. r \notin starter'.todo
  BY <1>1, <1>2, UserItem DEF FollowUp, Listed, Waiting, Beside, x
<1>9. QED
  BY <1>1, <1>3, <1>5, <1>6, <1>7, <1>8, Frame DEF IdleOps, MicroOps, FollowUp, Calm, Starting

\* The message joins the inbox: it is the newest, and the only one there.
LEMMA Posted ==
  ASSUME Timing # "attached",
         NEW x \in Record, NEW y, NEW P, Told(x, P), NoUser(x.inbound),
         y.inbound = Append(x.inbound, x.sent + 1), y.sent = x.sent + 1,
         y.active = x.active, y.answered = x.answered, y.dropped = x.dropped,
         y.status = x.status
  PROVE  /\ Told(y, P)
         /\ \A C, D : /\ Counted(x, C) /\ \E c \in C : c.op = "post"
                      /\ \A c \in D : c.op # "post"
                      => Counted(y, D)
<1>1. x.sent \in Nat /\ x.inbound \in Seq(Items) /\ x.answered \subseteq 1..x.sent
  BY DEF Record, Told
<1>2. /\ OneUser(y.inbound) /\ UserIs(y.inbound, y.sent) /\ ~NoUser(y.inbound)
  <2>1. x.sent + 1 \in Nat \ {0}
    BY <1>1
  <2>2. \A m \in Nat \ {0} : /\ OneUser(Append(x.inbound, m))
                             /\ UserIs(Append(x.inbound, m), m)
                             /\ ~NoUser(Append(x.inbound, m))
    BY <1>1, InboxFacts
  <2>3. QED
    BY <2>1, <2>2
<1>3. y.sent \notin y.answered /\ y.answered \subseteq 1..y.sent
  BY <1>1
<1>4. y.active \in (0..y.sent) \ y.answered /\ y.active # y.sent
  BY <1>1 DEF Told
<1>5. \A p \in P : WorkFits(y, p)
  BY <1>4 DEF Told, WorkFits
<1>6. Told(y, P)
  BY <1>2, <1>3, <1>4, <1>5 DEF Told
<1>7. ASSUME NEW C, NEW D, Counted(x, C), \E c \in C : c.op = "post",
             \A c \in D : c.op # "post"
      PROVE  Counted(y, D)
  <2>1. \A m \in 1..x.sent : m \in Over(y)
    BY <1>7 DEF Counted, Over
  <2>2. \A m \in 1..y.sent : m \in 1..x.sent \/ m = y.sent
    BY <1>1
  <2>3. QED
    BY <1>2, <1>7, <2>1, <2>2 DEF Counted
<1>8. QED
  BY <1>6, <1>7

LEMMA PostKeeps ==
  ASSUME TypeInv, ConvInv, NEW c \in calls, Post(c)
  PROVE  ConvInv'
<1> DEFINE r == c.run
           x == run[r]
           y == [Pushed(x, x.sent + 1) EXCEPT !.sent = @ + 1]
           first == IF y.status = "SETUP_ERROR" THEN "rebind" ELSE "bind"
           N == IF Resumes(y) THEN {NewCall(first, r, 0)} ELSE {}
<1>1. /\ r \in Runs /\ c \in Call /\ CallsOf(r) = {c} /\ x \in Record /\ c.op = "post"
      /\ CallFits(x, ProcsOf(r), ExitsOf(r), c) /\ r \notin starter.todo
      /\ Fits(x, {c}, ProcsOf(r), ExitsOf(r)) /\ Told(x, ProcsOf(r))
      /\ Timing = "patient" => Counted(x, {c})
      /\ Placed(r) /\ ProcsOf(r) \subseteq Process
  BY CallAlone, RunFacts DEF Post
<1>2. /\ ~Starting
      /\ \/ Beside(x)
         \/ /\ x.status \in {"IDLE", "ERROR", "SETUP_ERROR"} /\ NoUser(x.inbound)
            /\ ExitsOf(r) = {}
  BY <1>1 DEF CallFits, Placed, MicroOps, IdleOps
<1>3. /\ y.inbound = Append(x.inbound, x.sent + 1) /\ y.sent = x.sent + 1
      /\ y.active = x.active /\ y.answered = x.answered /\ y.dropped = x.dropped
      /\ y.status = x.status /\ y.handle = x.handle
  <2>1. x.inbound \in Seq(Items) /\ x.sent \in Nat
    BY <1>1 DEF Record
  <2>2. QED
    BY <1>1, <2>1 DEF Pushed, Record
<1>4. \A n \in N : n.op \in {"bind", "rebind"} /\ n.run = r
  <2>1. first \in CallOps /\ first \in {"bind", "rebind"}
    BY DEF CallOps
  <2> HIDE DEF first
  <2>2. QED
    BY <1>1, <2>1, NewCallTypes, SizesAssumption
<1>5. N # {} => x.handle = 0
  BY <1>3 DEF Resumes, IsWorkerAttached
<1>6. AtMostOne(N)
  BY DEF AtMostOne
<1>7. run' = [run EXCEPT ![r] = y] /\ calls' = (calls \ {c}) \cup N
  BY DEF Post
<1> HIDE DEF x, y, N, first
<1>8. StepOf(r, y, N, ProcsOf(r), ExitsOf(r))
  <2>1. Swap(calls, calls', N, r)
    BY <1>4, <1>7, CallEnds
  <2>2. Swap(procs, procs', ProcsOf(r), r) /\ Swap(exits, exits', ExitsOf(r), r)
    BY Untouched DEF Post
  <2>3. QED
    BY <1>7, <2>1, <2>2 DEF StepOf, Post, Starting
<1>9. Fits(y, N, ProcsOf(r), ExitsOf(r))
  <2>0. ASSUME NEW p \in ProcsOf(r) PROVE p.no = x.handle /\ p.no # 0 /\ ProcFits(x, {c}, p)
    <3>1. ProcFits(x, {c}, p)
      BY <1>1 DEF Fits
    <3>2. QED
      BY <1>1, <3>1 DEF ProcFits, Owned, Process
  <2>1. ASSUME NEW p \in ProcsOf(r) PROVE ProcFits(y, N, p)
    BY <1>1, <1>3, <1>5, <2>0, <2>1 DEF ProcFits, Owned
  <2>2. x.handle = 0 => ProcsOf(r) = {}
    BY <2>0
  <2>3. ASSUME NEW n \in N PROVE CallFits(y, ProcsOf(r), ExitsOf(r), n)
    BY <1>2, <1>3, <1>4, <1>5, <2>2, <2>3 DEF CallFits, PrepOps, MicroOps, IdleOps, Beside
  <2>5. ASSUME NEW e \in ExitsOf(r) PROVE Owned(y, N, e.no)
    BY <1>1, <1>3 DEF Fits, Owned
  <2>4. QED
    BY <1>1, <1>3, <1>6, <2>1, <2>3, <2>5 DEF Fits
<1>10. Told(y, ProcsOf(r)) /\ (Timing = "patient" => Counted(y, N))
  <2>1. CASE Timing = "attached"
    BY <2>1 DEF Told
  <2>2. CASE Timing # "attached"
    BY <1>1, <1>2, <1>3, <1>4, <2>2, Posted DEF Beside
  <2>3. QED
    BY <2>1, <2>2
<1>11. QED
  BY <1>1, <1>2, <1>4, <1>8, <1>9, <1>10, Frame DEF IdleOps, MicroOps, Post, Starting

LEMMA ReboundKeeps ==
  ASSUME TypeInv, ConvInv, NEW c \in calls, Rebound(c)
  PROVE  ConvInv'
<1> DEFINE r == c.run
           x == run[r]
           N == IF Resumes(x) THEN {NewCall("bind", r, 0)} ELSE {}
<1>1. /\ r \in Runs /\ CallsOf(r) = {c} /\ x \in Record
      /\ CallFits(x, ProcsOf(r), ExitsOf(r), c) /\ r \notin starter.todo
      /\ Told(x, ProcsOf(r)) /\ Placed(r)
      /\ Fits(x, {c}, ProcsOf(r), ExitsOf(r))
      /\ Timing = "patient" => Counted(x, {c})
  BY CallAlone, RunFacts
<1>2. /\ c.op = "rebind"
      /\ x.status \in {"IDLE", "ERROR", "SETUP_ERROR"} /\ x.handle = 0
      /\ ProcsOf(r) = {} /\ ExitsOf(r) = {} /\ ~Starting
  BY <1>1 DEF Rebound, CallFits, Placed, PrepOps, MicroOps, IdleOps, Beside
<1>3. \A n \in N : n.op = "bind" /\ n.run = r
  BY <1>1, NewCallTypes, SizesAssumption DEF CallOps
<1>4. AtMostOne(N)
  BY DEF AtMostOne
<1>5. run' = [run EXCEPT ![r] = x] /\ calls' = (calls \ {c}) \cup N
  BY <1>2 DEF Rebound
<1> HIDE DEF x, N
<1>6. StepOf(r, x, N, {}, {})
  <2>1. Swap(calls, calls', N, r)
    BY <1>3, <1>5, CallEnds
  <2>2. Swap(procs, procs', {}, r) /\ Swap(exits, exits', {}, r)
    BY <1>2, Untouched DEF Rebound
  <2>3. QED
    BY <1>5, <2>1, <2>2 DEF StepOf, Rebound, Starting
<1>7. Fits(x, N, {}, {})
  <2>1. ASSUME NEW n \in N PROVE CallFits(x, {}, {}, n)
    BY <1>2, <1>3 DEF CallFits, PrepOps, MicroOps, IdleOps
  <2>2. QED
    BY <1>2, <1>4, <2>1 DEF Fits, AtMostOne
<1>8. SameTalk(x, x)
  BY DEF SameTalk
<1>9. Told(x, {}) /\ (Timing = "patient" => Counted(x, N))
  BY <1>1, <1>2, <1>3, <1>8, CountedSame
<1>10. QED
  BY <1>1, <1>2, <1>3, <1>6, <1>7, <1>9, Frame DEF IdleOps, MicroOps, Rebound, Starting

LEMMA BindDoneKeeps ==
  ASSUME TypeInv, ConvInv, NEW c \in calls, BindDone(c)
  PROVE  ConvInv'
<1> DEFINE r == c.run
           x == run[r]
<1>1. /\ r \in Runs /\ CallsOf(r) = {c} /\ x \in Record
      /\ CallFits(x, ProcsOf(r), ExitsOf(r), c) /\ r \notin starter.todo
  BY CallAlone, RunFacts
<1>2. /\ c.op = "bind" /\ x.handle = 0 /\ ProcsOf(r) = {} /\ ExitsOf(r) = {}
  BY <1>1 DEF BindDone, CallFits, PrepOps, MicroOps, IdleOps, Beside
<1>3. UNCHANGED <<starter, releasing, procs, exits, booting>>
  BY DEF BindDone
<1> DEFINE y == [x EXCEPT !.status = "PROVISIONING",
                          !.setup = IF c.op = "clone" THEN "none" ELSE @]
<1>4. /\ y \in Record /\ SameTalk(x, y) /\ y.handle = 0 /\ y.status = "PROVISIONING"
  BY <1>1, <1>2 DEF Record, SameTalk, Status
<1>5. CASE BeginAttach(c, "attachResume", y)
  <2> HIDE DEF y
  <2>1. QED
    BY <1>1, <1>2, <1>3, <1>4, <1>5, AttachBegins DEF Starting
<1>6. CASE run' = [run EXCEPT ![r] = [y EXCEPT !.status = "IDLE"]] /\ calls' = calls \ {c}
  <2> DEFINE z == [y EXCEPT !.status = "IDLE"]
  <2> HIDE DEF x, y
  <2>1. SameTalk(x, z) /\ z.handle = 0 /\ z.status = "IDLE"
    BY <1>4 DEF Record, SameTalk
  <2> HIDE DEF z
  <2>2. run' = [run EXCEPT ![r] = z]
    BY <1>6 DEF z
  <2>3. QED
    BY <1>1, <1>2, <1>3, <1>6, <2>1, <2>2, Rests DEF x, Starting
<1>7. QED
  BY <1>5, <1>6 DEF BindDone

-----------------------------------------------------------------------------
(* Idle release, and the ends of stopWorker.                                   *)

LEMMA IdleReleaseKeeps ==
  ASSUME Quiet, TypeInv, ConvInv, Calm, NEW r \in Runs, IdleRelease(r)
  PROVE  ConvInv'
<1> DEFINE x == run[r]
           n == NewCall("persistIdle", r, 0)
<1>1. /\ x \in Record /\ Fits(x, CallsOf(r), ProcsOf(r), ExitsOf(r))
      /\ Told(x, ProcsOf(r)) /\ Listed(r) /\ Placed(r)
      /\ Timing = "patient" => Counted(x, CallsOf(r))
  BY RunFacts
<1>2. /\ x.status = "IDLE" /\ x.handle # 0 /\ NoUser(x.inbound) /\ r \notin releasing
      /\ Timing # "attached"
  BY <1>1, UserItem DEF IdleRelease, Quiet
<1>3. CallsOf(r) = {}
  <2>1. ASSUME NEW c \in CallsOf(r) PROVE FALSE
    <3>1. CallFits(x, ProcsOf(r), ExitsOf(r), c) /\ c.op \notin IdleOps
      BY <1>1, <1>2 DEF Fits, Placed
    <3>2. c.op \notin MicroOps
      BY DEF Calm, CallsOf
    <3>3. QED
      BY <1>2, <3>1, <3>2 DEF CallFits
  <2>2. QED
    BY <2>1
<1>4. n.op = "persistIdle" /\ n.run = r
  BY NewCallTypes, SizesAssumption DEF CallOps
<1>5. run' = [run EXCEPT ![r] = x] /\ calls' = (calls \ {}) \cup {n}
  BY DEF IdleRelease, TypeInv, TypeOK
<1> HIDE DEF x, n
<1>6. StepOf(r, x, {n}, ProcsOf(r), ExitsOf(r))
  <2>1. Swap(calls, calls', {n}, r)
    BY <1>3, <1>4, <1>5, CallsAre, Swapped
  <2>2. Swap(procs, procs', ProcsOf(r), r) /\ Swap(exits, exits', ExitsOf(r), r)
    BY Untouched DEF IdleRelease
  <2>3. QED
    BY <1>5, <2>1, <2>2 DEF StepOf, IdleRelease, Starting
<1>7. Fits(x, {n}, ProcsOf(r), ExitsOf(r))
  <2>1. CallFits(x, ProcsOf(r), ExitsOf(r), n)
    BY <1>2, <1>4 DEF CallFits, PrepOps, MicroOps, IdleOps
  <2>2. ASSUME NEW p \in ProcsOf(r) PROVE ProcFits(x, {n}, p)
    BY <1>1, <1>2, <1>3 DEF Fits, ProcFits, Owned
  <2>3. ASSUME NEW e \in ExitsOf(r) PROVE Owned(x, {n}, e.no)
    BY <1>1, <1>3 DEF Fits, Owned
  <2>4. QED
    BY <1>1, <1>2, <2>1, <2>2, <2>3 DEF Fits, AtMostOne
<1>8. SameTalk(x, x)
  BY DEF SameTalk
<1>9. Timing = "patient" => Counted(x, {n})
  BY <1>1, <1>4, <1>8, CountedSame
<1>10. r \notin starter'.todo
  BY <1>1, <1>2 DEF IdleRelease, Listed, Waiting, x
<1>11. QED
  BY <1>1, <1>4, <1>6, <1>7, <1>9, <1>10, Frame DEF IdleOps, MicroOps, IdleRelease

\* The run keeps its worker; only its call ends.
LEMMA IdleKeepsKeeps ==
  ASSUME Quiet, TypeInv, ConvInv, Calm, NEW c \in calls, IdleKeeps(c)
  PROVE  ConvInv'
<1> DEFINE r == c.run
           x == run[r]
<1>1. /\ r \in Runs /\ CallsOf(r) = {c} /\ x \in Record
      /\ r \notin starter.todo
      /\ Fits(x, {c}, ProcsOf(r), ExitsOf(r)) /\ Told(x, ProcsOf(r))
      /\ Timing = "patient" => Counted(x, {c})
  BY CallAlone, RunFacts
<1>2. c.op = "persistIdle"
  BY DEF IdleKeeps
<1>3. run' = [run EXCEPT ![r] = x] /\ calls' = (calls \ {c}) \cup {}
  BY DEF IdleKeeps, TypeInv, TypeOK
<1> HIDE DEF x
<1>4. StepOf(r, x, {}, ProcsOf(r), ExitsOf(r))
  <2>1. Swap(calls, calls', {}, r)
    BY <1>3, CallEnds
  <2>2. Swap(procs, procs', ProcsOf(r), r) /\ Swap(exits, exits', ExitsOf(r), r)
    BY Untouched DEF IdleKeeps
  <2>3. QED
    BY <1>3, <2>1, <2>2 DEF StepOf, IdleKeeps, Starting
<1>5. Fits(x, {}, ProcsOf(r), ExitsOf(r))
  <2>1. ASSUME NEW p \in ProcsOf(r) PROVE ProcFits(x, {}, p)
    BY <1>1, <1>2 DEF Fits, ProcFits, Owned
  <2>2. ASSUME NEW e \in ExitsOf(r) PROVE Owned(x, {}, e.no)
    BY <1>1, <1>2 DEF Fits, Owned
  <2>3. QED
    BY <1>1, <2>1, <2>2 DEF Fits, AtMostOne
<1>6. SameTalk(x, x)
  BY DEF SameTalk
<1>7. Timing = "patient" => Counted(x, {})
  BY <1>1, <1>6, CountedSame
<1>8. QED
  BY <1>1, <1>4, <1>5, <1>7, Frame DEF IdleKeeps

\* A run that is released: its call ends, and no message waits, so none is resumed.
LEMMA IdleReleasedConv ==
  ASSUME TypeInv, ConvInv, Calm, NEW c \in calls, c.op \in IdleOps,
         ProcsOf(c.run) = {}, ExitsOf(c.run) = {},
         NEW x \in Record, NoUser(x.inbound), x.sent = run[c.run].sent,
         x.active = run[c.run].active, x.answered = run[c.run].answered,
         x.dropped = run[c.run].dropped, x.status = run[c.run].status,
         IdleReleased(c, x), UNCHANGED <<procs, exits, booting>>
  PROVE  ConvInv'
<1> DEFINE r == c.run
           w == run[r]
           y == Detached(x)
<1>1. /\ r \in Runs /\ CallsOf(r) = {c} /\ w \in Record
      /\ CallFits(w, ProcsOf(r), ExitsOf(r), c) /\ r \notin starter.todo
      /\ Told(w, {}) /\ (Timing = "patient" => Counted(w, {c}))
  BY CallAlone, RunFacts
<1>2. NoUser(w.inbound) /\ w.status \in {"IDLE", "RUNNING"}
  BY <1>1 DEF CallFits
<1>3. /\ y.handle = 0 /\ y.status = x.status /\ y.inbound = x.inbound
      /\ y.sent = x.sent /\ y.active = x.active /\ y.answered = x.answered
      /\ y.dropped = x.dropped
  BY DEF Detached, Record
<1>4. /\ run' = [run EXCEPT ![r] = y] /\ calls' = (calls \ {c}) \cup {}
      /\ releasing' = releasing \ {r} /\ Wake
  BY UserItem DEF IdleReleased
<1> HIDE DEF w, y
<1>5. StepOf(r, y, {}, {}, {})
  <2>1. Swap(calls, calls', {}, r)
    BY <1>4, CallEnds
  <2>2. Swap(procs, procs', {}, r) /\ Swap(exits, exits', {}, r)
    BY Untouched
  <2>3. QED
    BY <1>4, <2>1, <2>2, StarterFrame DEF StepOf
<1>6. Fits(y, {}, {}, {})
  BY <1>2, <1>3, FitsAlone DEF w
<1>7. Told(y, {})
  <2>1. OneUser(y.inbound) /\ UserIs(y.inbound, y.sent)
    BY <1>3, InboxFacts DEF Record
  <2>2. QED
    BY <1>1, <1>2, <1>3, <2>1 DEF Told, w
<1>8. Timing = "patient" => Counted(y, {})
  BY <1>1, <1>2, <1>3 DEF Counted, Over, w
<1>9. QED
  BY <1>1, <1>4, <1>5, <1>6, <1>7, <1>8, StarterFrame, Frame

\* The shutdown item is no message.
ShutTalk(x, y) ==
  /\ y.inbound = Append(x.inbound, Shutdown) /\ y.sent = x.sent /\ y.active = x.active
  /\ y.answered = x.answered /\ y.dropped = x.dropped /\ y.status = x.status
  /\ y.handle = x.handle
Carries(Q, P) == \A q \in Q : \E p \in P : q.batch = p.batch /\ q.cur = p.cur
NoPost(D) == \A d \in D : d.op # "post"
LEMMA ToldShut ==
  ASSUME NEW x \in Record, NEW y, NEW P, NEW Q, NEW C, NEW D, Told(x, P), NoUser(x.inbound),
         ShutTalk(x, y), NoPost(D), Carries(Q, P)
  PROVE  /\ NoUser(y.inbound) /\ Told(y, Q)
         /\ Counted(x, C) => Counted(y, D)
<1>1. NoUser(y.inbound) /\ OneUser(y.inbound) /\ UserIs(y.inbound, y.sent)
  <2>1. x.inbound \in Seq(Items) /\ Append(x.inbound, Shutdown) \in Seq(Items)
    BY DEF Record, Items
  <2>2. NoUser(y.inbound) /\ y.inbound \in Seq(Items)
    BY <2>1, InboxFacts DEF ShutTalk
  <2>3. QED
    BY <2>2, InboxFacts
<1>2. ASSUME NEW q \in Q, Timing # "attached" PROVE WorkFits(y, q)
  <2>1. PICK p \in P : q.batch = p.batch /\ q.cur = p.cur
    BY DEF Carries
  <2>2. Timing # "attached" => WorkFits(x, p)
    BY DEF Told
  <2>3. Timing # "attached"
    BY <1>2
  <2>4. QED
    BY <1>1, <2>1, <2>2, <2>3 DEF WorkFits, ShutTalk
<1>3. QED
  BY <1>1, <1>2 DEF Told, Counted, Over, ShutTalk, NoPost

LEMMA ShutTalkOf ==
  ASSUME NEW x \in Record
  PROVE  Pushed(x, Shutdown) \in Record /\ ShutTalk(x, Pushed(x, Shutdown))
<1>1. Pushed(x, Shutdown) \in Record
  BY PushedTypes DEF Items
<1>2. x.inbound \in Seq(Items)
  BY DEF Record
<1>3. QED
  BY <1>1, <1>2 DEF Pushed, Record, ShutTalk

LEMMA IdlePersistedKeeps ==
  ASSUME TypeInv, ConvInv, Calm, NEW c \in calls, IdlePersisted(c)
  PROVE  ConvInv'
<1> DEFINE r == c.run
           w == run[r]
           x == Pushed(w, Shutdown)
           n == NewCall("stopIdle", r, x.handle)
<1>1. /\ r \in Runs /\ CallsOf(r) = {c} /\ w \in Record
      /\ CallFits(w, ProcsOf(r), ExitsOf(r), c) /\ r \notin starter.todo
      /\ Fits(w, {c}, ProcsOf(r), ExitsOf(r)) /\ Told(w, ProcsOf(r))
      /\ Timing = "patient" => Counted(w, {c})
      /\ ProcsOf(r) \subseteq Process /\ procs \subseteq Process /\ Placed(r)
  BY CallAlone, RunFacts DEF TypeInv, TypeOK
<1>2. /\ c.op = "persistIdle" /\ NoUser(w.inbound) /\ w.status \in {"IDLE", "RUNNING"}
      /\ r \in releasing /\ Timing # "attached"
  BY <1>1 DEF IdlePersisted, CallFits, Placed, IdleOps
<1>3. x \in Record /\ ShutTalk(w, x)
  BY <1>1, ShutTalkOf
<1>4. \A p \in ProcsOf(r) : p.no = w.handle /\ p.origin = "spawned" /\ p.st # "booting"
  BY <1>1, <1>2 DEF Fits, ProcFits, Owned
<1>5. \A e \in ExitsOf(r) : e.no = w.handle
  BY <1>1, <1>2 DEF Fits, Owned
<1>6. CASE x.handle # 0 /\ run' = [run EXCEPT ![r] = x]
           /\ calls' = (calls \ {c}) \cup {n}
           /\ procs' = Signalled(r, x.handle) /\ UNCHANGED <<starter, releasing>>
  <2> DEFINE Q == {[p EXCEPT !.st = "dying"] : p \in ProcsOf(r)}
  <2>1. n.op = "stopIdle" /\ n.run = r /\ n.no = x.handle
    <3>1. x.handle \in 0..MaxSpawn
      BY <1>3 DEF Record
    <3>2. QED
      BY <1>1, <3>1, NewCallTypes DEF CallOps
  <2>2. Swap(procs, procs', Q, r)
    <3>1. CASE ProcsOf(r) = {}
      <4>1. \A p \in procs : p.run # r
        BY <3>1 DEF ProcsOf, Of
      <4>2. procs' = procs
        BY <1>6, <4>1, SignalMisses
      <4>3. Q = {}
        BY <3>1
      <4>4. QED
        BY <3>1, <4>2, <4>3, Untouched
    <3>2. ASSUME NEW p \in ProcsOf(r) PROVE Swap(procs, procs', Q, r)
      <4>1. ProcsOf(r) = {p} /\ p \in procs
        BY <1>1, <3>2 DEF Fits, AtMostOne, ProcsOf, Of
      <4>2. procs' = Signalled(r, p.no)
        BY <1>3, <1>4, <1>6, <3>2 DEF ShutTalk
      <4>3. Swap(procs, procs', {[p EXCEPT !.st = "dying"]}, r)
        BY <1>1, <4>1, <4>2, SignalSwap
      <4>4. Q = {[p EXCEPT !.st = "dying"]}
        BY <4>1
      <4>5. QED
        BY <4>3, <4>4
    <3>3. QED
      BY <3>1, <3>2
  <2>3. \A q \in Q : \E p \in ProcsOf(r) :
          /\ q.batch = p.batch /\ q.cur = p.cur /\ q.no = p.no /\ q.st = "dying"
          /\ q.origin = p.origin
    BY <1>1 DEF Process
  <2>4. AtMostOne(Q) /\ (Q = {} <=> ProcsOf(r) = {})
    BY <1>1 DEF Fits, AtMostOne
  <2> HIDE DEF w, x, n, Q
  <2>5. StepOf(r, x, {n}, Q, ExitsOf(r))
    <3>1. Swap(calls, calls', {n}, r)
      BY <1>6, <2>1, CallEnds
    <3>2. Swap(exits, exits', ExitsOf(r), r)
      BY Untouched DEF IdlePersisted
    <3>3. QED
      BY <1>6, <2>2, <3>1, <3>2 DEF StepOf, IdlePersisted, Starting
  <2>6. NoUser(x.inbound) /\ Told(x, Q) /\ (Timing = "patient" => Counted(x, {n}))
    <3>1. \A d \in {n} : d.op # "post"
      BY <2>1
    <3>2. \A q \in Q : \E p \in ProcsOf(r) : q.batch = p.batch /\ q.cur = p.cur
      BY <2>3
    <3>3. w \in Record /\ Told(w, ProcsOf(r)) /\ NoUser(w.inbound) /\ ShutTalk(w, x)
      BY <1>1, <1>2, <1>3
    <3> DEFINE P == ProcsOf(r)
               D == {n}
               C == {c}
    <3>4. NoPost(D) /\ Told(w, P)
      BY <3>1, <3>3 DEF NoPost
    <3>5. Carries(Q, P)
      BY <3>2 DEF Carries
    <3> HIDE DEF P, D, C
    <3>6. NoUser(x.inbound) /\ Told(x, Q) /\ (Counted(w, C) => Counted(x, D))
      BY <3>3, <3>4, <3>5, ToldShut
    <3>7. QED
      BY <1>1, <3>6 DEF C, D
  <2>7. Fits(x, {n}, Q, ExitsOf(r))
    <3>1. CallFits(x, Q, ExitsOf(r), n)
      BY <1>2, <1>3, <2>1, <2>6 DEF CallFits, PrepOps, MicroOps, IdleOps, ShutTalk
    <3>2. ASSUME NEW q \in Q PROVE ProcFits(x, {n}, q)
      BY <1>3, <1>4, <2>1, <2>3 DEF ProcFits, Owned, ShutTalk
    <3>3. ASSUME NEW e \in ExitsOf(r) PROVE Owned(x, {n}, e.no)
      BY <1>3, <1>5 DEF Owned, ShutTalk
    <3>4. AtMostOne({n}) /\ x.status \notin {"none", "ARCHIVED"}
      BY <1>2, <1>3 DEF AtMostOne, ShutTalk
    <3>5. QED
      BY <1>1, <1>3, <2>4, <3>1, <3>2, <3>3, <3>4 DEF Fits, ShutTalk
  <2>8. QED
    BY <1>1, <1>2, <1>6, <2>1, <2>5, <2>6, <2>7, Frame DEF IdleOps, MicroOps
<1>7. CASE x.handle = 0 /\ IdleReleased(c, x) /\ UNCHANGED procs
  <2>1. ProcsOf(r) = {} /\ ExitsOf(r) = {}
    <3>1. w.handle = 0
      BY <1>3, <1>7 DEF ShutTalk
    <3>2. \A p \in ProcsOf(r) : p.no # 0
      BY <1>1 DEF Process
    <3>3. \A e \in ExitsOf(r) : e.no # 0
      BY <1>1, RunFacts DEF Exits
    <3>4. QED
      BY <1>4, <1>5, <3>1, <3>2, <3>3
  <2>2. NoUser(x.inbound)
    BY <1>1, <1>2, <1>3, InboxFacts DEF ShutTalk, Record
  <2>3. UNCHANGED <<exits, booting>>
    BY DEF IdlePersisted
  <2>4. /\ x.sent = run[r].sent /\ x.active = run[r].active
        /\ x.answered = run[r].answered /\ x.dropped = run[r].dropped
        /\ x.status = run[r].status
    BY <1>3 DEF ShutTalk
  <2> HIDE DEF x
  <2>5. QED
    BY <1>2, <1>3, <1>7, <2>1, <2>2, <2>3, <2>4, IdleReleasedConv DEF IdleOps
<1>8. QED
  BY <1>6, <1>7 DEF IdlePersisted

LEMMA StopDoneKeeps ==
  ASSUME Quiet, TypeInv, ConvInv, Calm, NEW c \in calls, StopDone(c)
  PROVE  ConvInv'
<1> DEFINE r == c.run
           x == run[r]
<1>1. /\ r \in Runs /\ CallsOf(r) = {c} /\ x \in Record
      /\ CallFits(x, ProcsOf(r), ExitsOf(r), c) /\ r \notin starter.todo
      /\ Fits(x, {c}, ProcsOf(r), ExitsOf(r))
      /\ ProcsOf(r) \subseteq Process /\ ExitsOf(r) \subseteq Exits
  BY CallAlone, RunFacts
<1>2. c.op \in {"stopFail", "stopIdle"}
  BY <1>1 DEF StopDone, CallFits, PrepOps, MicroOps, IdleOps
<1>3. \A p \in ProcsOf(r) : p.no # c.no /\ p.no # 0
  BY <1>1 DEF StopDone, ProcsOf, Of, Process
<1>4. \A e \in ExitsOf(r) : e.no # c.no /\ e.no # 0
  BY <1>1 DEF StopDone, ExitsOf, Of, Quiet, Exits
<1>5. ProcsOf(r) = {} /\ ExitsOf(r) = {}
  <2>1. ASSUME NEW p \in ProcsOf(r) PROVE FALSE
    BY <1>1, <1>2, <1>3 DEF Fits, ProcFits, Owned, CallFits
  <2>2. ASSUME NEW e \in ExitsOf(r) PROVE FALSE
    BY <1>1, <1>2, <1>4 DEF Fits, Owned, CallFits
  <2>3. QED
    BY <2>1, <2>2
<1>6. UNCHANGED <<procs, exits, booting>>
  BY DEF StopDone
<1>7. CASE c.op = "stopFail"
  <2>1. calls' = calls \ {c} /\ Wake /\ UNCHANGED <<run, releasing>>
    BY <1>7 DEF StopDone
  <2>2. /\ x.handle = 0 /\ x.status \in {"ERROR", "SETUP_ERROR"} /\ SameTalk(x, x)
        /\ run' = [run EXCEPT ![r] = x]
    BY <1>1, <1>7, <2>1 DEF CallFits, SameTalk, TypeInv, TypeOK
  <2>3. /\ starter'.todo \subseteq starter.todo
        /\ Starting' => Starting \/ \A d \in calls : d.op \notin MicroOps
    BY <2>1, StarterFrame
  <2>4. QED
    BY <1>1, <1>5, <1>6, <2>1, <2>2, <2>3, Rests
<1>8. CASE c.op = "stopIdle"
  <2>1. IdleReleased(c, x) /\ NoUser(x.inbound)
    BY <1>1, <1>8 DEF StopDone, CallFits, IdleOps
  <2>2. QED
    BY <1>1, <1>5, <1>6, <1>8, <2>1, IdleReleasedConv DEF IdleOps
<1>9. QED
  BY <1>2, <1>7, <1>8

-----------------------------------------------------------------------------
(* The worker.                                                                 *)

\* A step of a worker that leaves the calls, the exits and the starter alone.
LEMMA WorkerFrame ==
  ASSUME TypeInv, ConvInv, NEW p \in procs, NEW N, \A n \in N : n.run = p.run,
         NEW y, run' = [run EXCEPT ![p.run] = y], procs' = (procs \ {p}) \cup N,
         UNCHANGED <<calls, starter, releasing, exits, booting>>
  PROVE  StepOf(p.run, y, CallsOf(p.run), N, {})
<1>1. Swap(procs, procs', N, p.run)
  BY ProcSwap
<1>2. Swap(calls, calls', CallsOf(p.run), p.run) /\ Swap(exits, exits', {}, p.run)
  BY ProcAlone, Untouched
<1>3. QED
  BY <1>1, <1>2 DEF StepOf, Starting

\* And the rest of the invariant, as long as the record keeps what calls rely on.
LEMMA WorkerKeeps ==
  ASSUME TypeInv, ConvInv, Calm, NEW p \in procs, NEW q, q.run = p.run,
         q.no = p.no, q.origin = p.origin, q.st = p.st \/ q.st = "running",
         q.st # "booting",
         NEW y, y.handle = run[p.run].handle,
         NoUser(run[p.run].inbound) => NoUser(y.inbound),
         y.status \in {"IDLE", "RUNNING"} \/ y.status = run[p.run].status,
         \A c \in CallsOf(p.run) : c.op # "stopFail",
         Told(y, {q}), Timing = "patient" => Counted(y, CallsOf(p.run)),
         run' = [run EXCEPT ![p.run] = y], procs' = (procs \ {p}) \cup {q},
         UNCHANGED <<calls, starter, releasing, exits, booting>>
  PROVE  ConvInv'
<1> DEFINE r == p.run
           x == run[r]
           C == CallsOf(r)
<1>1. /\ p \in Process /\ r \in Runs /\ ProcsOf(r) = {p} /\ ExitsOf(r) = {}
      /\ ProcFits(x, C, p) /\ Fits(x, C, {p}, {}) /\ r \notin starter.todo /\ Placed(r)
  BY ProcAlone, RunFacts
<1>2. StepOf(r, y, C, {q}, {})
  BY WorkerFrame
<1>3. \A c \in C : CallFits(x, {p}, {}, c) /\ c.op \notin MicroOps
  BY <1>1 DEF Fits, Calm, CallsOf
<1>4. \A c \in C : c.op \notin PrepOps
  BY <1>3 DEF CallFits
<1> HIDE DEF x, C
<1>5. ASSUME NEW c \in C PROVE CallFits(y, {q}, {}, c)
  <2>1. c.op \in IdleOps
    BY <1>3, <1>4 DEF CallFits, C
  <2>2. /\ NoUser(x.inbound) /\ x.status \in {"IDLE", "RUNNING"}
        /\ c.op = "stopIdle" => x.handle \in {0, c.no}
        /\ Timing # "attached"
    BY <1>3, <2>1 DEF CallFits
  <2>3. y.handle = x.handle /\ NoUser(y.inbound) /\ y.status \in {"IDLE", "RUNNING"}
    BY <2>2 DEF x
  <2>4. QED
    BY <2>1, <2>2, <2>3 DEF CallFits, PrepOps, MicroOps, IdleOps
<1>6. ProcFits(y, C, q)
  BY <1>1 DEF ProcFits, Owned, x
<1>7. y.status \notin {"none", "ARCHIVED"}
  BY <1>1 DEF Fits, x
<1>8. Fits(y, C, {q}, {})
  BY <1>1, <1>5, <1>6, <1>7 DEF Fits, AtMostOne
<1>9. \A c \in C : /\ c.op \in IdleOps => r \in releasing'
                   /\ c.op \in MicroOps => ~Starting'
  BY <1>1, <1>3 DEF Placed, C
<1>10. QED
  BY <1>1, <1>2, <1>8, <1>9, Frame DEF C

\* takeInbound: the last message of the inbox is the only one.
LEMMA LastIs ==
  ASSUME NEW s \in Seq(Items), NEW m, UserIs(s, m)
  PROVE  LET items == {i \in DOMAIN s : s[i] # Shutdown}
         IN  /\ items = {} <=> NoUser(s)
             /\ items # {} => s[CHOOSE i \in items : \A j \in items : j <= i] = m
<1> DEFINE items == {i \in DOMAIN s : s[i] # Shutdown}
           last == CHOOSE i \in items : \A j \in items : j <= i
<1>1. items = {} <=> NoUser(s)
  BY DEF NoUser
<1>2. items \subseteq 1..Len(s) /\ Len(s) \in Nat
  OBVIOUS
<1>3. ASSUME items # {} PROVE s[last] = m
  <2>1. last \in items
    <3>1. \E i \in items : \A j \in items : j <= i
      BY <1>2, <1>3, GreatestOf
    <3> HIDE DEF items
    <3>2. QED
      BY <3>1
  <2>2. QED
    BY <2>1 DEF UserIs
<1>4. QED
  BY <1>1, <1>3

\* What a worker at work says of its run.
LEMMA AtWork ==
  ASSUME TypeInv, ConvInv, Calm, NEW p \in procs
  PROVE  /\ p.st # "dying" \/ p.batch # <<>> \/ p.cur # 0 =>
              \A c \in CallsOf(p.run) : c.op # "stopFail"
         /\ \A c \in CallsOf(p.run) : c.op # "post"
         /\ p.batch # <<>> \/ p.cur # 0 => p.st # "booting"
<1>1. /\ Fits(run[p.run], CallsOf(p.run), {p}, {}) /\ p.run \in Runs
      /\ ProcFits(run[p.run], CallsOf(p.run), p)
  BY ProcAlone, RunFacts
<1>2. \A c \in CallsOf(p.run) : CallFits(run[p.run], {p}, {}, c) /\ c \in calls
  BY <1>1 DEF Fits, CallsOf
<1>3. QED
  BY <1>1, <1>2 DEF CallFits, ProcFits, Calm, MicroOps

LEMMA PullKeeps ==
  ASSUME Timing # "attached", TypeInv, ConvInv, Calm, NEW p \in procs, Pull(p)
  PROVE  ConvInv'
<1> DEFINE r == p.run
           x == run[r]
           items == {i \in DOMAIN x.inbound : x.inbound[i] # Shutdown}
           a == IF items = {} THEN x.active
                ELSE x.inbound[CHOOSE i \in items : \A j \in items : j <= i]
           taken == ({x.inbound[i] : i \in items} \cup {x.active}) \ {0}
           crowd == IF taken \subseteq {a} THEN {} ELSE taken
           y == [Noted(x) EXCEPT !.inbound = <<>>, !.active = a,
                                 !.crowded = @ \cup crowd]
           q == [p EXCEPT !.batch = x.inbound, !.st = "running"]
<1>1. /\ p \in Process /\ r \in Runs /\ x \in Record /\ Told(x, {p})
      /\ Timing = "patient" => Counted(x, CallsOf(r))
  BY ProcAlone, RunFacts
<1>2. /\ \A c \in CallsOf(r) : c.op # "stopFail" /\ c.op # "post"
      /\ p.cur = 0
  BY AtWork DEF Pull, Running
<1>3. x.inbound \in Seq(Items) /\ x.sent \in Nat
  BY <1>1 DEF Record
<1>4. a = IF NoUser(x.inbound) THEN x.active ELSE x.sent
  BY <1>1, <1>3, LastIs DEF Told
<1>5. /\ y.handle = x.handle /\ y.status = x.status /\ y.inbound = <<>>
      /\ y.active = a /\ y.sent = x.sent /\ y.answered = x.answered
      /\ y.dropped = x.dropped
  <2>1. Noted(x) \in Record
    BY <1>1, DetachedTypes
  <2>2. /\ Noted(x).handle = x.handle /\ Noted(x).status = x.status
        /\ Noted(x).sent = x.sent /\ Noted(x).answered = x.answered
        /\ Noted(x).dropped = x.dropped
    BY <1>1 DEF Noted, Record
  <2> HIDE DEF a, crowd
  <2>3. QED
    BY <2>1, <2>2 DEF Record
<1>6. /\ q.run = r /\ q.no = p.no /\ q.origin = p.origin /\ q.st = "running"
      /\ q.batch = x.inbound /\ q.cur = p.cur
  BY <1>1 DEF Process
<1>7. run' = [run EXCEPT ![r] = y] /\ procs' = (procs \ {p}) \cup {q}
  BY DEF Pull, Becomes
<1>8. NoUser(<<>>) /\ OneUser(<<>>) /\ \A m : UserIs(<<>>, m)
  BY DEF NoUser, OneUser, UserIs
<1> HIDE DEF x, y, q, a, items, taken, crowd
<1>9. Told(y, {q})
  <2>1. OneUser(x.inbound) /\ UserIs(x.inbound, a)
    BY <1>1, <1>3, <1>4, InboxFacts DEF Told
  <2>2. WorkFits(y, q)
    BY <1>2, <1>5, <1>6, <1>8, <2>1 DEF WorkFits
  <2>3. a \in (0..x.sent) \ x.answered /\ a \in {0, x.sent}
    BY <1>1, <1>3, <1>4 DEF Told
  <2>4. QED
    BY <1>1, <1>5, <1>8, <2>2, <2>3 DEF Told
<1>10. Timing = "patient" => Counted(y, CallsOf(r))
  BY <1>1, <1>2, <1>4, <1>5 DEF Counted, Over
<1>11. UNCHANGED <<calls, starter, releasing, exits, booting>>
  BY DEF Pull
<1>12. QED
  BY <1>2, <1>5, <1>6, <1>7, <1>8, <1>9, <1>10, <1>11, WorkerKeeps DEF x

LEMMA StartTurnKeeps ==
  ASSUME Timing # "attached", TypeInv, ConvInv, Calm, NEW p \in procs, StartTurn(p)
  PROVE  ConvInv'
<1> DEFINE r == p.run
           x == run[r]
           y == [Noted(x) EXCEPT !.status = "RUNNING"]
           q == [p EXCEPT !.cur = Head(p.batch), !.batch = Tail(@)]
<1>1. /\ p \in Process /\ r \in Runs /\ x \in Record /\ Told(x, {p}) /\ WorkFits(x, p)
      /\ Timing = "patient" => Counted(x, CallsOf(r))
  BY ProcAlone, RunFacts
<1>2. /\ \A c \in CallsOf(r) : c.op # "stopFail" /\ c.op # "post"
      /\ p.st # "booting"
  BY AtWork DEF StartTurn
<1>3. /\ p.batch \in Seq(Items) /\ p.batch # <<>> /\ Head(p.batch) # Shutdown
      /\ p.cur = 0
  BY <1>1 DEF StartTurn, Process
<1>4. Head(p.batch) = x.active /\ ~NoUser(p.batch) /\ NoUser(Tail(p.batch))
      /\ Tail(p.batch) \in Seq(Items)
  BY <1>1, <1>3, InboxFacts DEF WorkFits
<1>5. /\ y.handle = x.handle /\ y.status = "RUNNING" /\ y.inbound = x.inbound
      /\ SameTalk(x, y)
  <2>1. Noted(x) \in Record
    BY <1>1, DetachedTypes
  <2>2. Noted(x).handle = x.handle /\ SameTalk(x, Noted(x))
    BY <1>1 DEF Noted, Record, SameTalk
  <2>3. QED
    BY <2>1, <2>2 DEF Record, SameTalk
<1>6. /\ q.run = r /\ q.no = p.no /\ q.origin = p.origin /\ q.st = p.st
      /\ q.batch = Tail(p.batch) /\ q.cur = x.active
  BY <1>1, <1>4 DEF Process
<1>7. run' = [run EXCEPT ![r] = y] /\ procs' = (procs \ {p}) \cup {q}
  BY DEF StartTurn, Becomes
<1> HIDE DEF x, y, q
<1>8. Told(y, {q})
  <2>1. OneUser(Tail(p.batch)) /\ UserIs(Tail(p.batch), x.active)
    BY <1>4, InboxFacts
  <2>2. WorkFits(y, q)
    BY <1>1, <1>3, <1>4, <1>5, <1>6, <2>1 DEF WorkFits, SameTalk
  <2>3. QED
    BY <1>1, <1>5, <2>2 DEF Told, SameTalk
<1>9. Timing = "patient" => Counted(y, CallsOf(r))
  BY <1>1, <1>2, <1>5, CountedSame
<1>10. UNCHANGED <<calls, starter, releasing, exits, booting>>
  BY DEF StartTurn
<1>11. QED
  BY <1>2, <1>5, <1>6, <1>7, <1>8, <1>9, <1>10, WorkerKeeps DEF x

LEMMA EndTurnKeeps ==
  ASSUME Timing # "attached", TypeInv, ConvInv, Calm, NEW p \in procs, EndTurn(p)
  PROVE  ConvInv'
<1> DEFINE r == p.run
           x == run[r]
           z == [Noted(x) EXCEPT !.status = "IDLE", !.active = 0]
           y == [z EXCEPT !.answered = Noted(x).answered \cup {p.cur}]
           q == [p EXCEPT !.cur = 0]
<1>1. /\ p \in Process /\ r \in Runs /\ x \in Record /\ Told(x, {p}) /\ WorkFits(x, p)
      /\ Timing = "patient" => Counted(x, CallsOf(r))
  BY ProcAlone, RunFacts
<1>2. /\ \A c \in CallsOf(r) : c.op # "stopFail" /\ c.op # "post"
      /\ p.st # "booting" /\ p.cur # 0
  BY AtWork DEF EndTurn
<1>3. /\ p.cur = x.active /\ x.status = "RUNNING" /\ NoUser(p.batch)
      /\ p.batch \in Seq(Items)
      /\ NoUser(x.inbound) \/ x.active # x.sent
  BY <1>1, <1>2 DEF WorkFits, Process
<1>4. Noted(x) \in Record /\ Noted(x).status = "RUNNING"
  <2>1. Noted(x) \in Record
    BY <1>1, DetachedTypes
  <2> HIDE DEF x
  <2>2. QED
    BY <1>1, <1>3, <2>1 DEF Noted, Record
<1>5. /\ y.handle = x.handle /\ y.status = "IDLE" /\ y.inbound = x.inbound
      /\ y.active = 0 /\ y.sent = x.sent /\ y.dropped = x.dropped
      /\ y.answered = x.answered \cup {p.cur}
  <2>1. /\ Noted(x).handle = x.handle /\ Noted(x).inbound = x.inbound
        /\ Noted(x).sent = x.sent /\ Noted(x).answered = x.answered
        /\ Noted(x).dropped = x.dropped
    BY <1>1 DEF Noted, Record
  <2>2. QED
    BY <1>4, <2>1 DEF Record
<1>6. /\ q.run = r /\ q.no = p.no /\ q.origin = p.origin /\ q.st = p.st
      /\ q.batch = p.batch /\ q.cur = 0
  BY <1>1 DEF Process
<1>7. run' = [run EXCEPT ![r] = y] /\ procs' = (procs \ {p}) \cup {q}
  BY <1>4 DEF EndTurn, Becomes
<1> HIDE DEF x, y, q, z
<1>8. Told(y, {q})
  <2>1. OneUser(p.batch) /\ UserIs(p.batch, 0)
    BY <1>3, InboxFacts
  <2>2. WorkFits(y, q)
    BY <1>3, <1>5, <1>6, <2>1 DEF WorkFits
  <2>3. p.cur \in 1..x.sent
    BY <1>1, <1>2, <1>3 DEF Told, Record
  <2>4. y.answered \subseteq 1..y.sent
    BY <1>1, <1>5, <2>3 DEF Told
  <2>5. 0 \in (0..y.sent) \ y.answered
    BY <1>1, <1>5, <2>4 DEF Record
  <2>6. NoUser(y.inbound) \/ y.sent \notin y.answered
    BY <1>1, <1>3, <1>5 DEF Told
  <2>7. QED
    BY <1>1, <1>5, <2>2, <2>4, <2>5, <2>6 DEF Told
<1>9. Timing = "patient" => Counted(y, CallsOf(r))
  BY <1>1, <1>2, <1>3, <1>5 DEF Counted, Over
<1>10. UNCHANGED <<calls, starter, releasing, exits, booting>>
  BY DEF EndTurn
<1>11. QED
  BY <1>2, <1>5, <1>6, <1>7, <1>8, <1>9, <1>10, WorkerKeeps DEF x

\* When follow-ups come while it works, a worker's steps keep its handle and the calls
\* of its run all the same.
LEMMA BusyKeeps ==
  ASSUME Timing = "attached", TypeInv, ConvInv, Calm, NEW p \in procs,
         Pull(p) \/ StartTurn(p) \/ EndTurn(p)
  PROVE  ConvInv'
<1> DEFINE r == p.run
           x == run[r]
<1>1. p \in Process /\ r \in Runs /\ x \in Record
  BY ProcAlone, RunFacts
<1>2. /\ \A c \in CallsOf(r) : c.op # "stopFail"
      /\ p.st # "booting" \/ Pull(p)
  BY AtWork DEF Pull, StartTurn, EndTurn, Running
<1>3. Noted(x) \in Record /\ Noted(x).handle = x.handle /\ Noted(x).status = x.status
  <2>1. Noted(x) \in Record
    BY <1>1, DetachedTypes
  <2> HIDE DEF x
  <2>2. QED
    BY <1>1, <2>1 DEF Noted, Record
<1>4. PICK y : /\ run' = [run EXCEPT ![r] = y] /\ y.handle = x.handle
               /\ y.status \in {"IDLE", "RUNNING", x.status}
               /\ NoUser(x.inbound) => NoUser(y.inbound)
  <2>1. CASE Pull(p)
    <3>1. PICK a, S : run' = [run EXCEPT ![r] =
            [Noted(x) EXCEPT !.inbound = <<>>, !.active = a, !.crowded = @ \cup S]]
      BY <2>1 DEF Pull
    <3> DEFINE y == [Noted(x) EXCEPT !.inbound = <<>>, !.active = a, !.crowded = @ \cup S]
    <3> HIDE DEF x
    <3>2. y.handle = x.handle /\ y.status = x.status /\ NoUser(y.inbound)
      BY <1>3 DEF Record, NoUser
    <3>3. run' = [run EXCEPT ![r] = y]
      BY <3>1
    <3> HIDE DEF y
    <3>4. QED
      BY <3>2, <3>3
  <2>2. CASE StartTurn(p)
    <3> DEFINE y == [Noted(x) EXCEPT !.status = "RUNNING"]
    <3>3. run' = [run EXCEPT ![r] = y]
      BY <2>2 DEF StartTurn
    <3>1. Noted(x).inbound = x.inbound
      BY <1>1 DEF Noted, Record
    <3> HIDE DEF x
    <3>2. y.handle = x.handle /\ y.status = "RUNNING" /\ y.inbound = x.inbound
      BY <1>3, <3>1 DEF Record
    <3> HIDE DEF y
    <3>4. QED
      BY <3>2, <3>3
  <2>3. CASE EndTurn(p)
    <3> DEFINE z == IF Noted(x).status = "RUNNING"
                      THEN [Noted(x) EXCEPT !.status = "IDLE", !.active = 0] ELSE Noted(x)
               y == [z EXCEPT !.answered = Noted(x).answered \cup {p.cur}]
    <3>3. run' = [run EXCEPT ![r] = y]
      BY <2>3 DEF EndTurn
    <3>1. Noted(x).inbound = x.inbound
      BY <1>1 DEF Noted, Record
    <3> HIDE DEF x
    <3>2. y.handle = x.handle /\ y.status \in {"IDLE", x.status} /\ y.inbound = x.inbound
      BY <1>3, <3>1 DEF Record
    <3> HIDE DEF y
    <3>4. QED
      BY <3>2, <3>3
  <2>4. QED
    BY <2>1, <2>2, <2>3
<1>5. PICK q : /\ procs' = (procs \ {p}) \cup {q} /\ q.run = r /\ q.no = p.no
               /\ q.origin = p.origin /\ q.st \in {p.st, "running"} /\ q.st # "booting"
  <2>1. PICK b, k : \/ Becomes(p, [p EXCEPT !.batch = b, !.st = "running"])
                    \/ Becomes(p, [p EXCEPT !.cur = k, !.batch = b]) /\ p.st # "booting"
    <3>1. p = [p EXCEPT !.batch = p.batch] /\ [p EXCEPT !.cur = 0] = [p EXCEPT !.cur = 0, !.batch = p.batch]
      BY <1>1 DEF Process
    <3>2. QED
      BY <1>2, <3>1 DEF Pull, StartTurn, EndTurn
  <2>2. /\ [p EXCEPT !.batch = b, !.st = "running"].run = r
        /\ [p EXCEPT !.batch = b, !.st = "running"].no = p.no
        /\ [p EXCEPT !.batch = b, !.st = "running"].origin = p.origin
        /\ [p EXCEPT !.batch = b, !.st = "running"].st = "running"
        /\ [p EXCEPT !.cur = k, !.batch = b].run = r
        /\ [p EXCEPT !.cur = k, !.batch = b].no = p.no
        /\ [p EXCEPT !.cur = k, !.batch = b].origin = p.origin
        /\ [p EXCEPT !.cur = k, !.batch = b].st = p.st
    BY <1>1 DEF Process
  <2>3. QED
    BY <2>1, <2>2 DEF Becomes
<1>6. UNCHANGED <<calls, starter, releasing, exits, booting>>
  BY DEF Pull, StartTurn, EndTurn
<1>7. Told(y, {q}) /\ (Timing = "patient" => Counted(y, CallsOf(r)))
  BY DEF Told
<1>8. QED
  BY <1>2, <1>4, <1>5, <1>6, <1>7, WorkerKeeps DEF x

\* The process is gone, and its exit hook has not reported yet.
LEMMA DiesKeeps ==
  ASSUME TypeInv, ConvInv, Calm, NEW p \in procs, NEW code, Dies(p, code),
         UNCHANGED <<run, calls, starter, releasing, booting>>
  PROVE  ConvInv'
<1> DEFINE r == p.run
           x == run[r]
           C == CallsOf(r)
<1>1. /\ p \in Process /\ r \in Runs /\ x \in Record /\ Told(x, {p})
      /\ ExitsOf(r) = {} /\ ProcFits(x, C, p) /\ Fits(x, C, {p}, {})
      /\ r \notin starter.todo /\ Placed(r)
      /\ Timing = "patient" => Counted(x, C)
  BY ProcAlone, RunFacts
<1>2. PICK e : e.run = r /\ e.no = p.no /\ exits' = (exits \ {}) \cup {e}
  <2>1. PICK k : exits' = exits \cup {[run |-> r, no |-> p.no, code |-> k]}
    BY <1>1 DEF Dies, Unwatched, ProcFits
  <2>2. QED
    BY <2>1
<1>3. \A c \in C : CallFits(x, {p}, {}, c) /\ c.op \notin MicroOps
  BY <1>1 DEF Fits, Calm, CallsOf
<1>4. run' = [run EXCEPT ![r] = x] /\ procs' = (procs \ {p}) \cup {}
  BY DEF Dies, TypeInv, TypeOK
<1> HIDE DEF x, C
<1>5. StepOf(r, x, C, {}, {e})
  <2>1. Swap(procs, procs', {}, r)
    BY <1>4, ProcSwap
  <2>2. Swap(exits, exits', {e}, r)
    BY <1>1, <1>2, Swapped DEF ExitsOf
  <2>3. Swap(calls, calls', C, r)
    BY Untouched DEF C
  <2>4. QED
    BY <1>4, <2>1, <2>2, <2>3 DEF StepOf, Starting
<1>6. Fits(x, C, {}, {e})
  <2>1. ASSUME NEW c \in C PROVE CallFits(x, {}, {e}, c)
    BY <1>3 DEF CallFits
  <2>2. Owned(x, C, e.no)
    BY <1>1, <1>2 DEF ProcFits
  <2>3. QED
    BY <1>1, <2>1, <2>2 DEF Fits, AtMostOne
<1>7. Told(x, {})
  BY <1>1 DEF Told
<1>8. \A c \in C : /\ c.op \in IdleOps => r \in releasing'
                   /\ c.op \in MicroOps => ~Starting'
  BY <1>1, <1>3 DEF Placed, C
<1>9. QED
  BY <1>1, <1>5, <1>6, <1>7, <1>8, Frame

\* failRun of a worker that cannot boot: it stays its process until it is stopped.
LEMMA BootFailsKeeps ==
  ASSUME TypeInv, ConvInv, Calm, NEW p \in procs, BootFails(p)
  PROVE  ConvInv'
<1> DEFINE r == p.run
           x == run[r]
           c == [op |-> "none", run |-> r]
           y == Failed(x, "ERROR")
           n == NewCall("stopFail", r, x.handle)
           q == [p EXCEPT !.st = "dying"]
<1>1. /\ p \in Process /\ r \in Runs /\ x \in Record /\ Told(x, {p})
      /\ ExitsOf(r) = {} /\ ProcsOf(r) = {p} /\ ProcFits(x, CallsOf(r), p)
      /\ r \notin starter.todo /\ procs \subseteq Process
  BY ProcAlone, RunFacts DEF TypeInv, TypeOK
<1>2. /\ CallsOf(r) = {} /\ p.batch = <<>> /\ p.cur = 0 /\ p.no = x.handle
      /\ p.no # 0 /\ p.origin = "spawned"
  BY <1>1 DEF BootFails, ProcFits, Owned, Process, Calm, CallsOf, MicroOps
<1>3. n.op = "stopFail" /\ n.run = r /\ n.no = p.no
  <2>1. x.handle \in 0..MaxSpawn
    BY <1>1 DEF Record
  <2>2. QED
    BY <1>1, <1>2, <2>1, NewCallTypes DEF CallOps
<1>4. /\ y.status = "ERROR" /\ y.handle = 0 /\ y.inbound = <<>> /\ y.active = 0
      /\ y.sent = x.sent /\ y.answered = x.answered
      /\ (1..x.sent) \ x.answered \subseteq y.dropped
  BY <1>1, FailedIs
<1>5. /\ q.run = r /\ q.no = p.no /\ q.origin = p.origin /\ q.st = "dying"
      /\ q.batch = <<>> /\ q.cur = 0
  BY <1>1, <1>2 DEF Process
<1>6. c.run = r
  OBVIOUS
<1>7. /\ run' = [run EXCEPT ![r] = y] /\ calls' = (calls \ {c}) \cup {n}
      /\ procs' = Signalled(r, p.no)
  <2>1. FailRun(c, "ERROR")
    BY DEF BootFails
  <2>2. QED
    BY <1>2, <1>6, <2>1 DEF FailRun
<1> HIDE DEF x, c, y, n
<1>8. StepOf(r, y, {n}, {q}, {})
  <2>1. Swap(calls, calls', {n}, r)
    <3>1. Of(calls, r) \subseteq {c}
      BY <1>2, CallsAre
    <3>2. \A z \in {c} \cup {n} : z.run = r
      BY <1>3, <1>6
    <3>3. QED
      BY <1>7, <3>1, <3>2, Swapped
  <2>2. Swap(procs, procs', {q}, r)
    BY <1>1, <1>7, SignalSwap
  <2>3. Swap(exits, exits', {}, r)
    BY <1>1, Untouched DEF BootFails
  <2>4. QED
    BY <1>7, <2>1, <2>2, <2>3 DEF StepOf, BootFails, Starting
<1> HIDE DEF q
<1>9. Fits(y, {n}, {q}, {})
  <2>1. CallFits(y, {q}, {}, n)
    BY <1>3, <1>4, <1>5 DEF CallFits, PrepOps, MicroOps, IdleOps
  <2>2. ProcFits(y, {n}, q)
    BY <1>2, <1>3, <1>4, <1>5 DEF ProcFits, Owned
  <2>3. QED
    BY <1>4, <2>1, <2>2 DEF Fits, AtMostOne
<1>10. Told(y, {q}) /\ Counted(y, {n})
  <2>1. Idle({q})
    BY <1>5 DEF Idle
  <2>2. QED
    BY <1>1, <1>4, <2>1, Cleared
<1>11. r \notin starter'.todo
  BY <1>1 DEF BootFails
<1>12. QED
  BY <1>1, <1>3, <1>8, <1>9, <1>10, <1>11, Frame DEF IdleOps, MicroOps

\* The exit hook: the handle goes, and a turn that was open is reported as lost.
LEMMA ExitHookConv ==
  ASSUME TypeInv, ConvInv, Calm, NEW e \in exits, ExitHook(e)
  PROVE  ConvInv'
<1> DEFINE r == e.run
           x == run[r]
           C == CallsOf(r)
<1>1. /\ r \in Runs /\ x \in Record /\ ExitsOf(r) = {e} /\ ProcsOf(r) = {}
      /\ Fits(x, C, {}, {e}) /\ Told(x, {}) /\ r \notin starter.todo /\ Placed(r)
      /\ Timing = "patient" => Counted(x, C)
  BY ExitAlone, RunFacts
<1>2. x.status \notin {"none", "ARCHIVED"}
  BY <1>1 DEF Fits
<1>3. PICK y : /\ run' = [run EXCEPT ![r] = y] /\ y.handle = 0 /\ SameTalk(x, y)
               /\ \/ y.status = x.status
                  \/ y.status = "ERROR" /\ x.status = "RUNNING" /\ r \notin releasing
  <2>1. Detached(x) \in Record /\ Detached(x).handle = 0 /\ SameTalk(x, Detached(x))
        /\ Detached(x).status = x.status /\ Detached(x).dropped = x.dropped
    BY <1>1, DetachedTypes DEF Detached, Record, SameTalk
  <2>2. CASE run' = [run EXCEPT ![r] = Detached(x)]
    BY <2>1, <2>2
  <2>3. ASSUME NEW d, x.dropped \subseteq d, x.status = "RUNNING", r \notin releasing,
               run' = [run EXCEPT ![r] = [Detached(x) EXCEPT !.status = "ERROR", !.dropped = d]]
        PROVE  \E y : /\ run' = [run EXCEPT ![r] = y] /\ y.handle = 0 /\ SameTalk(x, y)
                      /\ y.status = "ERROR"
    <3> DEFINE y == [Detached(x) EXCEPT !.status = "ERROR", !.dropped = d]
    <3>1. y.handle = 0 /\ SameTalk(x, y) /\ y.status = "ERROR"
      BY <2>1, <2>3 DEF Record, SameTalk
    <3> HIDE DEF y
    <3>2. QED
      BY <2>3, <3>1 DEF y
  <2>4. CASE r \notin releasing /\ e.code # "zero" /\ x.status = "RUNNING"
    <3> DEFINE d == x.dropped \cup ({x.active} \ {0})
    <3>1. run' = [run EXCEPT ![r] = [Detached(x) EXCEPT !.status = "ERROR", !.dropped = d]]
      BY <1>2, <2>4 DEF ExitHook
    <3>2. x.dropped \subseteq d
      OBVIOUS
    <3> HIDE DEF d
    <3>3. QED
      BY <2>3, <2>4, <3>1, <3>2
  <2>5. CASE ~(r \notin releasing /\ e.code # "zero" /\ x.status = "RUNNING")
    BY <1>2, <2>2, <2>5 DEF ExitHook
  <2>6. QED
    BY <2>4, <2>5
<1>4. Wake /\ exits' = (exits \ {e}) \cup {} /\ UNCHANGED <<calls, releasing, procs, booting>>
  BY <1>2 DEF ExitHook
<1>5. \A c \in C : CallFits(x, {}, {e}, c) /\ c.op \notin MicroOps
  BY <1>1 DEF Fits, Calm, CallsOf
<1> HIDE DEF x, C
<1>6. StepOf(r, y, C, {}, {})
  <2>1. Swap(exits, exits', {}, r)
    BY <1>1, <1>4, Swapped DEF ExitsOf, Of
  <2>2. Swap(calls, calls', C, r) /\ Swap(procs, procs', {}, r)
    BY <1>1, <1>4, Untouched DEF C
  <2>3. QED
    BY <1>3, <1>4, <2>1, <2>2, StarterFrame DEF StepOf
<1>7. Fits(y, C, {}, {})
  <2>1. ASSUME NEW c \in C PROVE CallFits(y, {}, {}, c)
    <3>1. c.op \in IdleOps => y.status = x.status
      BY <1>1, <1>3 DEF Placed, C
    <3>2. c.op = "stopFail" => y.status \in {"ERROR", "SETUP_ERROR"}
      BY <1>3, <1>5 DEF CallFits
    <3>3. QED
      BY <1>3, <1>5, <3>1, <3>2 DEF CallFits, SameTalk
  <2>2. QED
    BY <1>1, <1>2, <1>3, <2>1 DEF Fits, AtMostOne
<1>8. Told(y, {})
  BY <1>1, <1>3, ToldSame
<1>9. Timing = "patient" => Counted(y, C)
  <2>1. \A c \in C : c.op # "post"
    BY <1>5 DEF MicroOps
  <2>2. QED
    BY <1>1, <1>3, <2>1, CountedSame
<1>10. \A c \in C : /\ c.op \in IdleOps => r \in releasing'
                    /\ c.op \in MicroOps => ~Starting'
  BY <1>1, <1>4, <1>5 DEF Placed, C
<1>11. QED
  BY <1>1, <1>4, <1>6, <1>7, <1>8, <1>9, <1>10, StarterFrame, Frame

-----------------------------------------------------------------------------
(* The clock and the queue.                                                    *)

LEMMA StillKeeps ==
  ASSUME ConvInv, UNCHANGED <<run, calls, starter, releasing, procs, exits, booting>>
  PROVE  ConvInv'
BY DEF ConvInv, Conv, Listed, Placed, CallsOf, ProcsOf, ExitsOf, Starting

LEMMA AgesKeeps ==
  ASSUME TypeInv, ConvInv, NEW r \in Runs, HeartbeatAges(r)
  PROVE  ConvInv'
<1> DEFINE x == run[r]
           y == [x EXCEPT !.beat = "none"]
<1>1. /\ x \in Record /\ Fits(x, CallsOf(r), ProcsOf(r), ExitsOf(r))
      /\ Told(x, ProcsOf(r)) /\ Listed(r) /\ Placed(r)
      /\ Timing = "patient" => Counted(x, CallsOf(r))
  BY RunFacts
<1>2. /\ y.status = x.status /\ y.handle = x.handle /\ y.setup = x.setup
      /\ SameTalk(x, y) /\ y.dropped = x.dropped
  BY <1>1 DEF Record, SameTalk
<1>3. run' = [run EXCEPT ![r] = y]
  BY DEF HeartbeatAges
<1> HIDE DEF x, y
<1>4. StepOf(r, y, CallsOf(r), ProcsOf(r), ExitsOf(r))
  BY <1>3, Untouched DEF StepOf, HeartbeatAges, Starting
<1>5. Fits(y, CallsOf(r), ProcsOf(r), ExitsOf(r))
  BY <1>1, <1>2 DEF Fits, ProcFits, Owned, CallFits, Beside, SameTalk
<1>6. Told(y, ProcsOf(r))
  BY <1>1, <1>2 DEF Told, WorkFits, SameTalk
<1>7. Timing = "patient" => Counted(y, CallsOf(r))
  BY <1>1, <1>2 DEF Counted, Over, SameTalk
<1>8. Waiting(x) => Waiting(y)
  BY <1>2 DEF Waiting, SetupInFlight, HasUserItem, SameTalk
<1>9. r \in starter'.todo => /\ CallsOf(r) = {} /\ ProcsOf(r) = {} /\ ExitsOf(r) = {}
                             /\ Waiting(y)
  BY <1>1, <1>8 DEF Listed, HeartbeatAges, x
<1>10. \A c \in CallsOf(r) : /\ c.op \in IdleOps => r \in releasing'
                             /\ c.op \in MicroOps => ~Starting'
  BY <1>1 DEF Placed, HeartbeatAges, Starting
<1>11. QED
  BY <1>4, <1>5, <1>6, <1>7, <1>9, <1>10, Frame

\* requeueActiveTurn: the turn that goes back to the inbox is the newest message.
LEMMA RequeuedTold ==
  ASSUME NEW x \in Record, Told(x, {})
  PROVE  LET y == Requeued(x) IN
         /\ y \in Record /\ Told(y, {})
         /\ Timing = "patient" =>
              \A C, D : Counted(x, C) /\ (\A d \in D : d.op # "post") => Counted(y, D)
<1> DEFINE y == Requeued(x)
<1>1. y \in Record
  BY PushedTypes
<1>a. CASE Timing = "attached"
  BY <1>1, <1>a DEF Told
<1>2. CASE Timing # "attached" /\ x.active # 0 /\ ~HasUserItem(x)
  <2>1. NoUser(x.inbound) /\ x.active = x.sent /\ x.active \in Nat \ {0}
    BY <1>2, UserItem DEF Told, Record
  <2>2. x.inbound \in Seq(Items)
    BY DEF Record
  <2>3. /\ y.inbound = Append(x.inbound, x.active) /\ y.sent = x.sent
        /\ y.active = x.active /\ y.answered = x.answered /\ y.dropped = x.dropped
    BY <1>2 DEF Requeued, Pushed, Record
  <2> HIDE DEF y
  <2>4. OneUser(y.inbound) /\ UserIs(y.inbound, y.sent) /\ ~NoUser(y.inbound)
    BY <2>1, <2>2, <2>3, InboxFacts
  <2>5. Told(y, {})
    BY <2>1, <2>3, <2>4 DEF Told
  <2>6. QED
    BY <1>1, <2>3, <2>4, <2>5 DEF Counted, Over, y
<1>3. CASE ~(x.active # 0 /\ ~HasUserItem(x))
  <2>1. y = x
    BY <1>3 DEF Requeued
  <2>2. QED
    BY <2>1 DEF Counted
<1>4. QED
  BY <1>a, <1>2, <1>3

LEMMA ExpireKeeps ==
  ASSUME Quiet, TypeInv, ConvInv, Calm, NEW r \in Runs, Expire(r)
  PROVE  ConvInv'
<1> DEFINE x == run[r]
           w == Requeued(x)
           y == DetachOrQueue(x)
<1>1. /\ x \in Record /\ Fits(x, CallsOf(r), ProcsOf(r), ExitsOf(r))
      /\ Told(x, ProcsOf(r)) /\ Listed(r) /\ ExitsOf(r) \subseteq Exits
      /\ Timing = "patient" => Counted(x, CallsOf(r))
  BY RunFacts
<1>2. /\ x.handle = 0 /\ CallsOf(r) = {} /\ ProcsOf(r) = {} /\ ~SetupInFlight(x)
      /\ x.status \in {"PROVISIONING", "INSTALLING", "RUNNING"}
  BY DEF Expire, Silent, Quiet, ProcsOf, Of, LiveStatus
<1>3. ExitsOf(r) = {}
  <2>1. \A e \in ExitsOf(r) : e.no = 0 /\ e.no # 0
    BY <1>1, <1>2 DEF Fits, Owned, Exits
  <2>2. QED
    BY <2>1
<1>4. w \in Record /\ Told(w, {}) /\ (Timing = "patient" => Counted(w, {}))
  BY <1>1, <1>2, RequeuedTold
<1>5. y \in {Queued(w), Settled(w)}
  BY <1>2 DEF DetachOrQueue
<1>6. /\ y.handle = 0 /\ y.status \in {"NOT_YET_STARTED", "IDLE"}
      /\ SameTalk(w, y)
  <2> HIDE DEF w, y
  <2>1. \A z \in {Queued(w), Settled(w)} :
          /\ z.handle = 0 /\ z.status \in {"NOT_YET_STARTED", "IDLE"} /\ SameTalk(w, z)
    BY <1>4 DEF Queued, Settled, Detached, Record, SameTalk
  <2>2. QED
    BY <1>5, <2>1
<1>7. run' = [run EXCEPT ![r] = y] /\ Wake
      /\ UNCHANGED <<calls, held, releasing, procs, exits, booting, restarts>>
  BY DEF Expire
<1>8. r \notin starter.todo
  BY <1>1, <1>2 DEF Listed, Waiting
<1> HIDE DEF x, w, y
<1>9. StepOf(r, y, {}, {}, {})
  BY <1>2, <1>3, <1>7, Untouched, StarterFrame DEF StepOf
<1>10. Fits(y, {}, {}, {})
  BY <1>6, FitsAlone
<1>11. Told(y, {}) /\ (Timing = "patient" => Counted(y, {}))
  BY <1>4, <1>6, ToldSame, CountedSame
<1>12. QED
  BY <1>7, <1>8, <1>9, <1>10, <1>11, StarterFrame, Frame

\* A run that waits for a slot is free while the queue looks at it.
LEMMA WaitingIsFree ==
  ASSUME TypeInv, ConvInv, Starting, NEW r \in Runs, Waiting(run[r])
  PROVE  CallsOf(r) = {} /\ ProcsOf(r) = {} /\ ExitsOf(r) = {}
<1> DEFINE x == run[r]
<1>1. /\ x \in Record /\ Fits(x, CallsOf(r), ProcsOf(r), ExitsOf(r)) /\ Placed(r)
      /\ ProcsOf(r) \subseteq Process /\ ExitsOf(r) \subseteq Exits
  BY RunFacts
<1>2. /\ x.handle = 0
      /\ \/ x.status = "NOT_YET_STARTED"
         \/ x.status \in {"IDLE", "ERROR"} /\ ~NoUser(x.inbound)
  BY <1>1, UserItem DEF Waiting
<1>3. ASSUME NEW c \in CallsOf(r) PROVE FALSE
  <2>1. CallFits(x, ProcsOf(r), ExitsOf(r), c) /\ c.op \notin MicroOps
    BY <1>1 DEF Fits, Placed
  <2>2. NoUser(<<>>)
    BY DEF NoUser
  <2>3. QED
    BY <1>2, <2>1, <2>2 DEF CallFits
<1>4. ASSUME NEW p \in ProcsOf(r) PROVE FALSE
  BY <1>1, <1>2, <1>3 DEF Fits, ProcFits, Owned, Process
<1>5. ASSUME NEW e \in ExitsOf(r) PROVE FALSE
  BY <1>1, <1>2, <1>3 DEF Fits, Owned, Exits
<1>6. QED
  BY <1>3, <1>4, <1>5

LEMMA QueueConv ==
  ASSUME TypeInv, ConvInv, Starting, TryStartQueued
  PROVE  ConvInv'
<1>1. \A r \in Runs : Conv(r) /\ Listed(r) /\ Placed(r)
  BY DEF ConvInv
<1>2. ASSUME UNCHANGED <<run, calls, releasing, procs, exits, booting>>,
             \A r \in Runs : r \in starter'.todo => r \in starter.todo \/ Waiting(run[r])
      PROVE  ConvInv'
  <2>1. ASSUME NEW r \in Runs PROVE Conv(r)' /\ Listed(r)' /\ Placed(r)'
    <3>1. /\ run'[r] = run[r] /\ CallsOf(r)' = CallsOf(r)
          /\ ProcsOf(r)' = ProcsOf(r) /\ ExitsOf(r)' = ExitsOf(r)
      BY <1>2 DEF CallsOf, ProcsOf, ExitsOf
    <3>2. Conv(r)'
      BY <1>1, <3>1 DEF Conv
    <3>3. Listed(r)'
      BY <1>1, <1>2, <3>1, WaitingIsFree DEF Listed
    <3>4. Placed(r)'
      BY <1>1, <1>2, <3>1 DEF Placed
    <3>5. QED
      BY <3>2, <3>3, <3>4
  <2>2. QED
    BY <1>2, <2>1 DEF ConvInv
<1>3. CASE Snapshot
  <2>1. \A r \in Runs : PassedOver(r, run[r]) = run[r]
    BY PassedIs, NoOrphan DEF TypeInv, TypeOK
  <2>2. run' = [r \in Runs |-> run[r]]
    BY <1>3, <2>1 DEF Snapshot
  <2>3. UNCHANGED run
    BY <2>2 DEF TypeInv, TypeOK
  <2>4. QED
    BY <1>2, <1>3, <2>3 DEF Snapshot, Off
<1>4. CASE LoopEnds
  BY <1>2, <1>4 DEF LoopEnds, Off
<1>5. CASE StartNext
  <2> DEFINE r == CHOOSE q \in starter.todo : \A t \in starter.todo : q <= t
             x == [run[r] EXCEPT !.status = "PROVISIONING"]
             none == [op |-> "none", run |-> r]
  <2>1. r \in Runs /\ r \in starter.todo
    <3>1. starter.todo \in SUBSET Runs /\ starter.todo # {}
      BY <1>5 DEF StartNext, TypeInv, TypeOK
    <3>2. QED
      BY <3>1, FirstOfTodo
  <2>0. UNCHANGED <<releasing, procs, exits, booting>>
    BY <1>5 DEF StartNext
  <2>t. starter \in [pc : {"off", "snapshot", "loop", "wait"}, todo : SUBSET Runs]
    BY DEF TypeInv, TypeOK
  <2>2. \/ starter' = [starter EXCEPT !.todo = @ \ {r}] /\ UNCHANGED <<run, calls>>
        \/ /\ BeginAttach(none, "attachQueued", x)
           /\ starter' = [pc |-> "wait", todo |-> starter.todo \ {r}]
        \/ /\ run' = [run EXCEPT ![r] = Queued(x)]
           /\ UNCHANGED calls /\ starter' = Off
    BY <1>5 DEF StartNext
  <2> HIDE DEF r
  <2>3. /\ run[r] \in Record /\ Waiting(run[r])
        /\ CallsOf(r) = {} /\ ProcsOf(r) = {} /\ ExitsOf(r) = {}
    BY <2>1, RunFacts DEF Listed
  <2>4. run[r].handle = 0
    BY <2>3 DEF Waiting
  <2>5. x \in Record /\ x.handle = 0 /\ x.status = "PROVISIONING" /\ SameTalk(run[r], x)
    BY <2>3, <2>4 DEF Record, Status, SameTalk
  <2>6. none.run = r
    OBVIOUS
  <2> HIDE DEF x, none
  <2>7. CASE starter' = [starter EXCEPT !.todo = @ \ {r}] /\ UNCHANGED <<run, calls>>
    <3>1. starter'.todo \subseteq starter.todo
      BY <2>7, <2>t
    <3>2. QED
      BY <1>2, <2>0, <2>7, <3>1
  <2>8. CASE /\ BeginAttach(none, "attachQueued", x)
             /\ starter' = [pc |-> "wait", todo |-> starter.todo \ {r}]
    <3>1. /\ starter'.todo \subseteq starter.todo /\ r \notin starter'.todo
          /\ Starting' => Starting
      BY <2>8
    <3>2. QED
      BY <2>0, <2>1, <2>3, <2>4, <2>5, <2>6, <2>8, <3>1, AttachBegins
  <2>9. CASE run' = [run EXCEPT ![r] = Queued(x)] /\ UNCHANGED calls /\ starter' = Off
    <3> DEFINE y == Queued(x)
    <3>1. y.handle = 0 /\ y.status = "NOT_YET_STARTED" /\ SameTalk(run[r], y)
      BY <2>5 DEF Queued, Detached, Record, SameTalk
    <3>2. /\ starter'.todo \subseteq starter.todo /\ r \notin starter'.todo
      BY <2>9 DEF Off
    <3>3. calls' = calls \ {none}
      BY <2>3, <2>6, <2>9 DEF CallsOf
    <3>4. run' = [run EXCEPT ![r] = y] /\ releasing \ {r} \subseteq releasing'
      BY <2>0, <2>9
    <3> HIDE DEF y
    <3>5. QED
      BY <2>0, <2>1, <2>3, <2>6, <3>1, <3>2, <3>3, <3>4, Rests
  <2>10. QED
    BY <2>2, <2>7, <2>8, <2>9
<1>6. QED
  BY <1>3, <1>4, <1>5 DEF TryStartQueued

-----------------------------------------------------------------------------
(* Every step keeps the invariant, and what follows from it.                   *)

LEMMA ConvStart == Init => ConvInv
<1> SUFFICES ASSUME Init PROVE ConvInv
  OBVIOUS
<1>1. booting = FALSE
  BY DEF Init
<1>2. ASSUME NEW r \in Runs PROVE Conv(r) /\ Listed(r) /\ Placed(r)
  <2>1. CallsOf(r) = {} /\ ProcsOf(r) = {} /\ ExitsOf(r) = {} /\ r \notin starter.todo
    BY DEF Init, Off, CallsOf, ProcsOf, ExitsOf, Of
  <2>2. /\ run[r].status = "none" /\ run[r].handle = 0 /\ run[r].sent = 0
        /\ run[r].inbound = <<>> /\ run[r].active = 0 /\ run[r].answered = {}
    BY DEF Init
  <2>3. Fits(run[r], {}, {}, {})
    BY <2>2 DEF Fits, AtMostOne
  <2>4. OneUser(<<>>) /\ UserIs(<<>>, 0) /\ NoUser(<<>>)
    BY DEF OneUser, UserIs, NoUser
  <2>5. Told(run[r], {})
    BY <2>2, <2>4 DEF Told
  <2>6. Counted(run[r], {})
    BY <2>2 DEF Counted
  <2>7. QED
    BY <2>1, <2>3, <2>5, <2>6 DEF Conv, Listed, Placed
<1>3. QED
  BY <1>1, <1>2 DEF ConvInv

\* Without Stop, archive and repos, a call is at one of the steps above.
LEMMA QuietCallStep ==
  ASSUME Quiet, TypeInv, ConvInv, Calm, NEW c \in calls, CallStep(c)
  PROVE  ConvInv'
<1>1. CallFits(run[c.run], ProcsOf(c.run), ExitsOf(c.run), c)
  BY CallAlone
<1>2. c.op \in PrepOps \cup IdleOps \cup {"stopFail"}
  BY <1>1 DEF CallFits, Calm
<1>3. ~(Post(c) \/ Rematerialize(c) \/ CloneFails(c) \/ Rebound(c) \/ BindDone(c)
          \/ ArchivePersisted(c))
  BY <1>2 DEF PrepOps, IdleOps, Post, Rematerialize, CloneFails, Rebound, BindDone,
              ArchivePersisted
<1>4. QED
  BY <1>3, SetupInstallKeeps, SetupFailsKeeps, SetupDoneKeeps, AttachDoneKeeps,
     IdleKeepsKeeps, IdlePersistedKeeps, StopDoneKeeps DEF CallStep

LEMMA MicroCallStep ==
  ASSUME Quiet, TypeInv, ConvInv, NEW c \in calls, Microtask(c), CallStep(c)
  PROVE  ConvInv'
<1>1. c.op \in MicroOps
  BY DEF Microtask, MicroOps
<1>2. Post(c) \/ Rematerialize(c) \/ Rebound(c) \/ BindDone(c)
  BY <1>1 DEF MicroOps, CallStep, SetupInstall, SetupFails, SetupDone, AttachDone,
              AttachFails, IsAttach, CloneFails, ArchivePersisted, IdleKeeps,
              IdlePersisted, StopDone
<1>3. ~Rematerialize(c)
  BY DEF Rematerialize, Quiet
<1>4. QED
  BY <1>2, <1>3, PostKeeps, ReboundKeeps, BindDoneKeeps

LEMMA ConvStep ==
  ASSUME Quiet, TypeInv, ConvInv, [Next]_vars
  PROVE  ConvInv'
<1>1. CASE Starting /\ TryStartQueued
  BY <1>1, QueueConv
<1>2. ASSUME NEW c \in calls, Microtask(c), CallStep(c) PROVE ConvInv'
  BY <1>2, MicroCallStep
<1>3. ASSUME ~Busy PROVE Calm
  BY <1>3, NotBusy
<1>4. ASSUME ~Busy, NEW r \in Runs, RunStep(r) PROVE ConvInv'
  <2>1. ~Abort(r) /\ ~Archive(r)
    BY DEF Abort, Archive, Quiet
  <2>2. Reconcile(r) => ConvInv'
    BY StillKeeps DEF Reconcile
  <2>3. QED
    BY <1>3, <1>4, <2>1, <2>2, CreateKeeps, FollowUpKeeps, IdleReleaseKeeps, AgesKeeps,
       ExpireKeeps DEF RunStep
<1>5. ASSUME ~Busy, NEW c \in calls, CallStep(c) PROVE ConvInv'
  BY <1>3, <1>5, QuietCallStep
<1>6. ASSUME ~Busy, NEW p \in procs, WorkerStep(p) PROVE ConvInv'
  <2>1. ASSUME ShutDown(p) \/ Terminated(p) \/ Crash(p) PROVE ConvInv'
    <3>1. \E code : Dies(p, code)
      BY <2>1 DEF ShutDown, Terminated, Crash
    <3>2. UNCHANGED <<run, calls, starter, releasing, booting>>
      BY <2>1 DEF ShutDown, Terminated, Crash
    <3>3. QED
      BY <1>3, <1>6, <3>1, <3>2, DiesKeeps
  <2>2. QED
    BY <1>3, <1>6, <2>1, PullKeeps, StartTurnKeeps, EndTurnKeeps, BusyKeeps,
       BootFailsKeeps DEF WorkerStep
<1>7. ASSUME ~Busy, NEW e \in exits, ExitHook(e) PROVE ConvInv'
  BY <1>3, <1>7, ExitHookConv
<1>8. ~Restart /\ ~Booted
  BY SizesAssumption DEF Restart, Booted, Quiet, ConvInv, TypeInv, TypeOK
<1>9. CASE UNCHANGED vars
  BY <1>9, StillKeeps DEF vars
<1>10. QED
  BY <1>1, <1>2, <1>4, <1>5, <1>6, <1>7, <1>8, <1>9 DEF Next

LEMMA Conversation ==
  ASSUME Quiet
  PROVE  Spec => []ConvInv
<1>1. Init => ConvInv
  BY ConvStart
<1>2. TypeInv /\ ConvInv /\ [Next]_vars => ConvInv'
  BY ConvStep
<1>3. QED
  BY <1>1, <1>2, TypeInvariant, PTL DEF Spec

\* One worker: whatever setups, provisions, boots and workers fail, and however the
\* queue, follow-ups, idle release and exits interleave, a run never has two workers,
\* if its users wait for its turns, or write whenever it has a worker and none is
\* released for being idle (attachWorker, the exit hook, failRun, enqueueUserMessage).
THEOREM WorkerAlone ==
  ASSUME Quiet
  PROVE  Spec => [](OneWorker /\ OneWorkerAlways)
<1>1. TypeInv /\ ConvInv => OneWorker /\ OneWorkerAlways
  BY ProcAlone DEF OneWorker, OneWorkerAlways
<1>2. QED
  BY <1>1, Conversation, TypeInvariant, PTL

\* The handle of such a run always names a process that is alive, or one whose exit
\* hook is still to come: no run waits for a worker that is gone.
THEOREM HandleTrue ==
  ASSUME Quiet
  PROVE  Spec => []HandleTruth
<1>1. ASSUME TypeInv, ConvInv, NEW r \in Runs, run[r].handle # 0
      PROVE  \/ \E p \in procs : p.run = r /\ p.no = run[r].handle
             \/ \E e \in exits : e.run = r
  <2>1. Fits(run[r], CallsOf(r), ProcsOf(r), ExitsOf(r))
    BY <1>1, RunFacts
  <2>2. CASE ExitsOf(r) # {}
    BY <2>2 DEF ExitsOf, Of
  <2>3. ASSUME NEW p \in ProcsOf(r) PROVE p \in procs /\ p.run = r /\ p.no = run[r].handle
    BY <1>1, <2>1, <2>3 DEF Fits, ProcFits, Owned, ProcsOf, Of
  <2>4. QED
    BY <1>1, <2>1, <2>2, <2>3 DEF Fits
<1>2. TypeInv /\ ConvInv => HandleTruth
  BY <1>1 DEF HandleTruth
<1>3. QED
  BY <1>2, Conversation, TypeInvariant, PTL

\* Replay: requeueActiveTurn never replays a turn that was answered, and no answered
\* message is left in an inbox or at a worker.
THEOREM NoSecondAnswer ==
  ASSUME Quiet, Timing # "attached"
  PROVE  Spec => [](AnsweredOnce /\ AnsweredOnceAlways)
<1>1. ASSUME TypeInv, ConvInv, NEW r \in Runs, NEW m \in run[r].answered
      PROVE  ~InInbox(r, m) /\ ~AtWorker(r, m)
  <2> DEFINE x == run[r]
  <2>1. x \in Record /\ Told(x, ProcsOf(r))
    BY <1>1, RunFacts
  <2>2. m \in 1..x.sent /\ m # Shutdown /\ m # 0 /\ x.sent \in Nat
    BY <2>1 DEF Told, Record, Shutdown
  <2>3. ~ \E i \in DOMAIN x.inbound : x.inbound[i] = m
    BY <2>1, <2>2 DEF Told, UserIs, NoUser
  <2>4. x.active # m
    BY <2>1 DEF Told
  <2>5. ASSUME NEW p \in procs, p.run = r
        PROVE  p.cur # m /\ \A i \in DOMAIN p.batch : p.batch[i] # m
    <3>1. WorkFits(x, p)
      BY <2>1, <2>5 DEF Told, ProcsOf, Of
    <3>2. QED
      BY <2>2, <2>4, <3>1 DEF WorkFits, UserIs
  <2>6. QED
    BY <2>3, <2>5 DEF InInbox, AtWorker
<1>2. TypeInv /\ ConvInv => AnsweredOnce /\ AnsweredOnceAlways
  BY <1>1 DEF AnsweredOnce, AnsweredOnceAlways
<1>3. QED
  BY <1>2, Conversation, TypeInvariant, PTL

\* Nothing mislaid: if users wait until their last message is answered or given up,
\* every message they sent is answered, given up, in the inbox, at a worker or the
\* remembered turn, through every crash, failed start, release and replay.
THEOREM NothingMislaid ==
  ASSUME Quiet, Timing = "patient"
  PROVE  Spec => [](NoLostMessage /\ NoLostMessageAlways)
<1>1. ASSUME TypeInv, ConvInv, NEW r \in Runs, NEW m \in 1..run[r].sent,
             m \notin run[r].answered, m \notin run[r].dropped
      PROVE  Open(r, m)
  <2> DEFINE x == run[r]
  <2>1. x \in Record /\ Told(x, ProcsOf(r)) /\ Counted(x, CallsOf(r))
    BY <1>1, RunFacts
  <2>2. m = x.sent /\ (~NoUser(x.inbound) \/ x.active = m)
    BY <1>1, <2>1 DEF Counted, Over
  <2>3. ASSUME ~NoUser(x.inbound) PROVE \E i \in DOMAIN x.inbound : x.inbound[i] = m
    BY <2>1, <2>2, <2>3 DEF NoUser, UserIs, Told
  <2>4. QED
    BY <2>2, <2>3 DEF Open, InInbox
<1>2. TypeInv /\ ConvInv => NoLostMessage /\ NoLostMessageAlways
  BY <1>1 DEF NoLostMessage, NoLostMessageAlways
<1>3. QED
  BY <1>2, Conversation, TypeInvariant, PTL
===============================================================================
