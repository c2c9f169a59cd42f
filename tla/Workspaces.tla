------------------------------ MODULE Workspaces ------------------------------
(***************************************************************************)
(* The files of a run, from the checkout to the eviction: createRun's      *)
(* setup (warm copy, build snapshot or clone, install, capture),           *)
(* env/warm-pool.ts and env/builds.ts, the copy onto a VM slot and the     *)
(* write-back, runtime/workspace-store.ts, which empties the directories   *)
(* of runs that nobody works on, and ensureBoundWorkspace, which checks    *)
(* out again.  All runs are of one repository.                             *)
(*                                                                         *)
(* An action is the code between two awaits.  A place holds "none", a      *)
(* directory without a checkout ("bare"), a checkout that is being written *)
(* ("filling", over another one "saving"), was broken off ("part") or is   *)
(* complete ("whole"), or one with the agent's work in it ("work").        *)
(***************************************************************************)
EXTENDS Integers, FiniteSets, FiniteSetsExt, Sequences

CONSTANTS
  Jobs,         \* runs (WORKER_RUNTIME=vm) of one repository
  VmSlots,      \* vmSlotCount()
  PoolSize,     \* WARM_POOL_SIZE
  StoreMax,     \* WORKSPACE_STORE_MAX_MIB, in workspaces
  MaxCopies,    \* bound: warm copies ever made
  MaxRefills,   \* bound: refills under way at the same time
  MaxAsked,     \* bound: follow-ups sent
  FileFaults    \* subset of {"clone", "kill", "install", "copy", "worker"}: what may fail

ASSUME FileNumbers == {VmSlots, PoolSize, StoreMax, MaxCopies, MaxRefills, MaxAsked} \subseteq Nat
ASSUME FileFaultsKnown == FileFaults \subseteq {"clone", "kill", "install", "copy", "worker"}

VARIABLES
  files,    \* per run: its record, its directory on the host, its VM slot
  builds,   \* captures in the order they began, those that succeeded, their snapshots
  pool,     \* warm-pool.json, the warm directories, the refills under way
  fate      \* history: follow-ups, and what the provisos of the properties name
fileVars == <<files, builds, pool, fate>>

Places == {"none", "bare", "filling", "saving", "part", "whole", "work"}
Copies == 1..MaxCopies
Entry == [copy : Copies, build : Jobs, ready : BOOLEAN]
Refill == [build : Jobs, index : SUBSET Entry, short : 1..PoolSize, copy : Copies]

FilesTypeOK ==
  /\ files \in [Jobs ->
       [status : {"new", "NOT_YET_STARTED", "PROVISIONING", "INSTALLING", "RUNNING", "IDLE",
                  "ERROR", "ARCHIVED"},
        step : {"off", "restore", "clone", "again", "install", "capture", "branch", "mount"},
        wake : {"off", "check", "reclone", "bound", "mount"},
        leave : {"no", "save", "stop", "exit"},
        dir : Places, meta : {"none", "present", "evicted"}, mount : Places \cup {"taken"},
        handle : BOOLEAN, waits : BOOLEAN, setupError : BOOLEAN,
        worked : {"no", "yes", "unsaved"}]]
  /\ builds.begun \in Seq(Jobs) /\ builds.done \subseteq Jobs
  /\ builds.snapshot \in [Jobs -> Places]
  /\ pool.index \subseteq Entry /\ pool.copies \in [Copies -> Places]
  /\ pool.refills \subseteq Refill
  /\ fate.asked \in 0..MaxAsked /\ {fate.clash, fate.early, fate.blank} \subseteq BOOLEAN

FilesInit ==
  /\ files = [r \in Jobs |->
       [status |-> "new", step |-> "off", wake |-> "off", leave |-> "no", dir |-> "none", meta |-> "none",
        mount |-> "none", handle |-> FALSE, waits |-> FALSE, setupError |-> FALSE,
        worked |-> "no"]]
  /\ builds = [begun |-> <<>>, done |-> {}, snapshot |-> [r \in Jobs |-> "none"]]
  /\ pool = [index |-> {}, copies |-> [c \in Copies |-> "none"], refills |-> {}]
  /\ fate = [asked |-> 0, clash |-> FALSE, early |-> FALSE, blank |-> FALSE]

-----------------------------------------------------------------------------
(* The warm pool                                                           *)

(* Entries that count: ready, and the directory still there.               *)
Usable(index, copies, b) ==
  {e \in index : e.build = b /\ e.ready /\ copies[e.copy] # "none"}

(* findActiveBuild: the newest capture that succeeded, if there is one.    *)
Active(bs) ==
  {bs.begun[i] : i \in {k \in DOMAIN bs.begun :
     bs.begun[k] \in bs.done /\ \A j \in DOMAIN bs.begun : j > k => bs.begun[j] \notin bs.done}}

(* A copy gets a name that nobody has had: nothing reads of it anywhere.   *)
Unused(p) ==
  {c \in Copies : /\ p.copies[c] = "none" /\ \A e \in p.index : e.copy # c
                  /\ \A t \in p.refills : t.copy # c /\ \A e \in t.index : e.copy # c}
NewCopy(p) == CHOOSE c \in Unused(p) : TRUE

(* refillWarmPool up to its first copy: the index is read here and written *)
(* when the last copy is there.                                            *)
Started(p, b) ==
  LET short == PoolSize - Cardinality(Usable(p.index, p.copies, b))
  IN IF short <= 0 \/ Unused(p) = {} \/ Cardinality(p.refills) >= MaxRefills THEN {}
     ELSE {[build |-> b, index |-> p.index, short |-> short, copy |-> NewCopy(p)]}
Begun(p, new) ==
  [p EXCEPT !.copies = [c \in Copies |-> IF \E t \in new : t.copy = c THEN "filling" ELSE @[c]],
            !.refills = @ \cup new]
WithCopy(t) == t.index \cup {[copy |-> t.copy, build |-> t.build, ready |-> TRUE]}

(* The same with the entry written before the copy is made.                *)
RefillingEarly(p, b) ==
  [Begun(p, Started(p, b)) EXCEPT !.index = UNION ({@} \cup {WithCopy(t) : t \in Started(p, b)})]
Refilling(p, b) == Begun(p, Started(p, b))

(* A copy is complete: into the index as read, and on to the next one.     *)
RefillCopies(t) ==
  /\ t \in pool.refills
  /\ LET next == [t EXCEPT !.index = WithCopy(t), !.short = @ - 1]
         rest == pool.refills \ {t}
         filled == [pool EXCEPT !.copies[t.copy] = builds.snapshot[t.build],
                                !.refills = rest \cup {next}]
         copy == NewCopy(filled)
     IN pool' = IF next.short > 0 /\ Unused(filled) # {}
                THEN [filled EXCEPT !.copies[copy] = "filling",
                                    !.refills = rest \cup {[next EXCEPT !.copy = copy]}]
                ELSE [filled EXCEPT !.index = next.index, !.refills = rest]
  /\ UNCHANGED <<files, builds, fate>>

RefillFails(t) ==
  /\ "copy" \in FileFaults /\ t \in pool.refills
  /\ pool' = [pool EXCEPT !.copies[t.copy] = "none", !.refills = @ \ {t}]
  /\ UNCHANGED <<files, builds, fate>>

(* refillActiveWarmPools, every 30 s and not awaited by the timer.         *)
SchedulerRefills ==
  \E b \in Active(builds) :
    pool' = Refilling(pool, b) /\ pool' # pool /\ UNCHANGED <<files, builds, fate>>

-----------------------------------------------------------------------------
(* Setup                                                                   *)

(* failRun, for a run whose setup failed.                                  *)
SetupFailed(f) ==
  [f EXCEPT !.status = "ERROR", !.step = "off", !.setupError = TRUE, !.waits = FALSE]

(* createRun: a warm copy is moved here at once; else the snapshot is      *)
(* copied, else the repository cloned.                                     *)
CreateRun(r) ==
  /\ files[r].status = "new"
  /\ LET born == [files[r] EXCEPT !.status = "PROVISIONING", !.waits = TRUE]
     IN \/ /\ Active(builds) = {} /\ UNCHANGED pool
           /\ files' = [files EXCEPT ![r] = [born EXCEPT !.step = "clone", !.dir = "filling"]]
        \/ \E b \in Active(builds) :
             \/ /\ Usable(pool.index, pool.copies, b) = {} /\ UNCHANGED pool
                /\ files' = [files EXCEPT ![r] = [born EXCEPT !.step = "restore", !.dir = "filling"]]
             \/ \E e \in Usable(pool.index, pool.copies, b) :
                  /\ files' = [files EXCEPT
                       ![r] = [born EXCEPT !.step = "branch", !.dir = pool.copies[e.copy]]]
                  /\ pool' = Refilling([pool EXCEPT !.copies[e.copy] = "none",
                                          !.index = (@ \ {e}) \cup {[e EXCEPT !.ready = FALSE]}], b)
  /\ UNCHANGED <<builds, fate>>

RestoreEnds(r) ==
  /\ files[r].step = "restore"
  /\ \/ \E b \in Active(builds) :
          files' = [files EXCEPT ![r].step = "branch", ![r].dir = builds.snapshot[b]]
     \/ /\ "copy" \in FileFaults
        /\ files' = [files EXCEPT ![r] = SetupFailed([@ EXCEPT !.dir = "part"])]
  /\ UNCHANGED <<builds, pool, fate>>

(* What a clone leaves: git removes what it made, unless it is killed.     *)
Broken == {"none"} \cup (IF "kill" \in FileFaults THEN {"part"} ELSE {})

(* gitClone through cloneWithRetry: the directory is reset before the      *)
(* second attempt and left as it is after it.  INSTALLING is set if there  *)
(* is something to install.                                                *)
CloneEnds(r) ==
  /\ files[r].step \in {"clone", "again"}
  /\ \/ \E status \in {files[r].status, "INSTALLING"} :
          files' = [files EXCEPT ![r].step = "install", ![r].dir = "whole", ![r].status = status]
     \/ /\ "clone" \in FileFaults /\ files[r].step = "clone"
        /\ files' = [files EXCEPT ![r].step = "again", ![r].dir = "filling"]
     \/ /\ "clone" \in FileFaults /\ files[r].step = "again"
        /\ \E left \in Broken : files' = [files EXCEPT ![r] = SetupFailed([@ EXCEPT !.dir = left])]
  /\ UNCHANGED <<builds, pool, fate>>

(* The install commands, and captureWorkspaceBuild up to its copy.         *)
InstallEnds(r) ==
  /\ files[r].step = "install"
  /\ \/ /\ files' = [files EXCEPT ![r].step = "capture"]
        /\ builds' = [builds EXCEPT !.begun = Append(@, r), !.snapshot[r] = "filling"]
     \/ /\ "install" \in FileFaults /\ files' = [files EXCEPT ![r] = SetupFailed(@)]
        /\ UNCHANGED builds
  /\ UNCHANGED <<pool, fate>>

(* workspaceFor: the slot, if the run has one, else the host directory.    *)
WorkspaceOf(f) ==
  CASE f.mount = "none" -> f.dir [] f.mount = "taken" -> "part" [] OTHER -> f.mount

(* The snapshot is what the workspace holds when the copy is made.         *)
CaptureEnds(r) ==
  /\ files[r].step = "capture"
  /\ files' = [files EXCEPT ![r].step = "branch"]
  /\ \/ /\ builds' = [builds EXCEPT !.done = @ \cup {r}, !.snapshot[r] = WorkspaceOf(files[r])]
        /\ pool' = Refilling(pool, r)
     \/ /\ "copy" \in FileFaults
        /\ builds' = [builds EXCEPT !.snapshot[r] = "part"] /\ UNCHANGED pool
  /\ UNCHANGED fate

(* claimVmSlot: this run's own slot if it still has one, else an idle one. *)
Holders == {r \in Jobs : files[r].mount # "none"}
SlotFree(r) == r \in Holders \/ Cardinality(Holders) < VmSlots

(* attachWorker up to the mount; f is the run as its starter leaves it.    *)
Attach(r, f) ==
  /\ SlotFree(r)
  /\ files' = [files EXCEPT ![r] = [f EXCEPT !.mount = "taken"]]
  /\ fate' = [fate EXCEPT !.clash = @ \/ r \in Holders \/ (f.step # "off" /\ f.wake # "off")]

(* prepareRunRepos, then attachWorker or queueRun.                         *)
BranchEnds(r) ==
  /\ files[r].step = "branch"
  /\ IF WorkspaceOf(files[r]) \notin {"whole", "work"}
     THEN files' = [files EXCEPT ![r] = SetupFailed(@)] /\ UNCHANGED fate
     ELSE \/ Attach(r, [files[r] EXCEPT !.step = "mount"])
          \/ /\ ~SlotFree(r) /\ UNCHANGED fate
             /\ files' = [files EXCEPT ![r].step = "off", ![r].status = "NOT_YET_STARTED"]
  /\ UNCHANGED <<builds, pool>>

(* wipeMount and restoreDurableWorkspace, then the worker's process.       *)
Mounted(r, f) ==
  LET found == CASE f.dir \in {"none", "bare"} -> "bare"
                 [] f.dir \in {"filling", "saving"} -> "part" [] OTHER -> f.dir
  IN /\ files' = [files EXCEPT ![r] = [f EXCEPT !.mount = found, !.handle = TRUE,
                                                !.status = "RUNNING", !.waits = FALSE,
                                                !.setupError = FALSE]]
     /\ fate' = [fate EXCEPT !.blank = @ \/ found \notin {"whole", "work"}]
     /\ UNCHANGED <<builds, pool>>

SetupMounts(r) ==
  /\ files[r].step = "mount" /\ files[r].mount # "none"
  /\ Mounted(r, [files[r] EXCEPT !.step = "off"])
WakeMounts(r) ==
  /\ files[r].wake = "mount" /\ files[r].mount # "none"
  /\ Mounted(r, [files[r] EXCEPT !.wake = "off"])

(* provision throws: the slot is given back, and failRun.                  *)
MountFails(r) ==
  /\ "copy" \in FileFaults /\ files[r].mount = "taken" /\ ~files[r].handle
  /\ \/ /\ files[r].step = "mount"
        /\ files' = [files EXCEPT ![r] = [SetupFailed(@) EXCEPT !.mount = "none", !.setupError = FALSE]]
     \/ /\ files[r].wake = "mount"
        /\ files' = [files EXCEPT ![r] = [SetupFailed(@) EXCEPT
                       !.mount = "none", !.setupError = FALSE, !.wake = "off", !.step = files[r].step]]
  /\ UNCHANGED <<builds, pool, fate>>

-----------------------------------------------------------------------------
(* Eviction: workspace-store.ts                                            *)

Live == {"NOT_YET_STARTED", "PROVISIONING", "INSTALLING", "RUNNING"}
HasFiles(place) == place \notin {"none", "bare"}
Tier(status) == CASE status = "ARCHIVED" -> 1 [] status = "ERROR" -> 2 [] OTHER -> 3

(* What reclaimAndPublish never touches; the slot alone tells that a       *)
(* write-back is still under way once the handle is gone.                  *)
UnprotectedButSlot(f) == f.status \notin Live /\ ~f.handle
Unprotected(f) == f.status \notin Live /\ ~f.handle /\ f.mount = "none"

(* reclaimPersistedWorkspaces: any set whose time is up, then the lowest   *)
(* tiers until the rest fits.  Time is up for a run that nobody touched    *)
(* for days: not for one in its setup or on its way out.                   *)
Old(f) == f.step = "off" /\ f.leave = "no"
Candidates(w, except) ==
  {r \in Jobs \ except : Unprotected(w[r]) /\ w[r].meta # "evicted" /\ HasFiles(w[r].dir)}
Evictions(w, except) ==
  LET all == Candidates(w, except)
      used == {r \in Jobs : w[r].meta # "evicted" /\ HasFiles(w[r].dir)}
      OverBudget(old, cut) ==
        /\ Cardinality(cut) = Min({Cardinality(all \ old),
                                   Max({0, Cardinality(used \ old) - StoreMax})})
        /\ \A r \in cut, q \in (all \ old) \ cut : Tier(w[r].status) <= Tier(w[q].status)
  IN {gone \in SUBSET all :
        \E old \in SUBSET {r \in gone : Old(w[r])} : OverBudget(old, gone \ old)}

(* evictHostWorkspace.  Work whose last copy it was is gone by rule.       *)
Evicted(w, gone) ==
  [r \in Jobs |-> IF r \in gone
                  THEN [w[r] EXCEPT !.dir = "bare", !.meta = "evicted",
                                    !.worked = IF w[r].mount = "none" THEN "no" ELSE @]
                  ELSE w[r]]

ReclaimTick ==
  /\ \E gone \in Evictions(files, {}) \ {{}} : files' = Evicted(files, gone)
  /\ UNCHANGED <<builds, pool, fate>>

-----------------------------------------------------------------------------
(* The worker, and its files on the way back                               *)

(* The agent changes files, and the turn ends.                             *)
JobTurnEnds(r) ==
  /\ files[r].handle /\ files[r].status = "RUNNING" /\ files[r].leave # "exit"
  /\ files[r].mount \notin {"none", "taken"}
  /\ files' = [files EXCEPT ![r].mount = "work", ![r].worked = "yes", ![r].status = "IDLE"]
  /\ UNCHANGED <<builds, pool, fate>>

TakesMessage(r) ==
  /\ files[r].handle /\ files[r].waits /\ files[r].status = "IDLE" /\ files[r].leave # "exit"
  /\ files' = [files EXCEPT ![r].waits = FALSE, ![r].status = "RUNNING"]
  /\ UNCHANGED <<builds, pool, fate>>

(* persistRunWorkspace: the copy over the host directory starts; it ends   *)
(* with what the slot holds, unless the directory was emptied meanwhile.   *)
SaveStarts(f) ==
  [f EXCEPT !.dir = CASE f.mount = "none" -> @
                      [] f.mount # "none" /\ @ \in {"none", "bare"} -> "filling"
                      [] OTHER -> "saving"]
SaveEnds(f) ==
  [f EXCEPT !.meta = IF f.dir = "none" THEN @ ELSE "present",
            !.dir = CASE f.mount = "none" -> @
                      [] f.mount = "taken" -> "part"
                      [] OTHER -> IF @ \in {"filling", "saving"} THEN f.mount ELSE "part"]

(* It may end in the middle: some files are the new ones, and nothing is   *)
(* noted down.                                                             *)
CopyFails(f) == [f EXCEPT !.dir = IF f.mount = "none" THEN @ ELSE "part"]

(* releaseIdleWorker and archiveRun up to the write-back; one of them at a *)
(* time for a run: VmSlots has them side by side.                          *)
ReleaseIdle(r) ==
  /\ files[r].status = "IDLE" /\ files[r].handle /\ ~files[r].waits /\ files[r].leave = "no"
  /\ files' = [files EXCEPT ![r] = [SaveStarts(@) EXCEPT !.leave = "save"]]
  /\ UNCHANGED <<builds, pool, fate>>

ArchiveRun(r) ==
  /\ files[r].status \notin {"new", "ARCHIVED"} /\ files[r].leave = "no"
  /\ LET gone == [files EXCEPT ![r].status = "ARCHIVED"]
     IN \/ /\ files[r].mount # "none"
           /\ files' = [gone EXCEPT ![r] = [SaveStarts(@) EXCEPT !.leave = "save"]]
        \/ /\ files[r].mount = "none"
           /\ LET saved == [gone EXCEPT ![r] = SaveEnds(@)]
              IN \E out \in Evictions(saved, {r}) : files' = Evicted(saved, out)
  /\ fate' = [fate EXCEPT !.clash = @ \/ files[r].mount = "taken",
                          !.early = @ \/ files[r].step # "off"]
  /\ UNCHANGED <<builds, pool>>

(* ... and after it: room is made on the host, and the worker stopped.     *)
(* releaseIdleWorker keeps its worker when the write-back failed, and      *)
(* archiveRun goes on as if it had not.                                    *)
Leaves(r, f) ==
  LET saved == [files EXCEPT ![r] = [f EXCEPT !.leave = IF f.handle THEN "stop" ELSE "no"]]
  IN \E gone \in Evictions(saved, {r}) : files' = Evicted(saved, gone)
Saved(r) ==
  /\ files[r].leave = "save"
  /\ \/ Leaves(r, SaveEnds(files[r]))
     \/ /\ "copy" \in FileFaults
        /\ IF files[r].status = "ARCHIVED" THEN Leaves(r, CopyFails(files[r]))
           ELSE files' = [files EXCEPT ![r] = [CopyFails(@) EXCEPT !.leave = "no"]]
  /\ UNCHANGED <<builds, pool, fate>>

(* abortRun, and failRun of a run that works: the second drops the handle  *)
(* at once, the first when the worker has been stopped.                    *)
AbortJob(r) ==
  /\ files[r].status \notin {"new", "ARCHIVED"} /\ files[r].leave = "no"
  /\ \E failed \in {FALSE, files[r].handle} :
       files' = [files EXCEPT ![r].status = IF failed THEN "ERROR" ELSE "IDLE",
                              ![r].waits = FALSE, ![r].setupError = FALSE,
                              ![r].handle = @ /\ ~failed,
                              ![r].leave = IF files[r].handle THEN "stop" ELSE "no"]
  /\ fate' = [fate EXCEPT !.early = @ \/ files[r].step # "off"]
  /\ UNCHANGED <<builds, pool>>

(* The process is gone, stopped or by itself: persistAndRelease starts.    *)
JobWorkerExits(r) ==
  /\ \/ files[r].leave = "stop"
     \/ "worker" \in FileFaults /\ files[r].leave = "no" /\ files[r].handle
  /\ files' = [files EXCEPT ![r] = [SaveStarts(@) EXCEPT !.leave = "exit"]]
  /\ UNCHANGED <<builds, pool, fate>>

(* The slot is released, and bindWorkerExit drops the handle.  A           *)
(* write-back that failed is not looked at: the slot goes with the only    *)
(* whole copy of the work on it.                                           *)
OffSlot(f) ==
  [f EXCEPT !.leave = "no", !.mount = "none", !.handle = FALSE,
            !.status = IF @ = "RUNNING" THEN "ERROR" ELSE @]
GivenUp(f) == [f EXCEPT !.worked = IF @ = "yes" /\ f.mount # "none" THEN "unsaved" ELSE @]
SlotReleased(r) ==
  /\ files[r].leave = "exit"
  /\ \/ files' = [files EXCEPT ![r] = OffSlot(SaveEnds(@))]
     \/ /\ "copy" \in FileFaults
        /\ files' = [files EXCEPT ![r] = OffSlot(CopyFails(GivenUp(@)))]
  /\ UNCHANGED <<builds, pool, fate>>

-----------------------------------------------------------------------------
(* Starting again                                                          *)

(* enqueueFollowUp; without a worker resumeRun looks at the checkout.      *)
FollowUp(r) ==
  /\ fate.asked < MaxAsked
  /\ fate' = [fate EXCEPT !.asked = @ + 1, !.early = @ \/ files[r].step # "off"]
  /\ files[r].status \notin {"new", "ARCHIVED"}
  /\ files' = [files EXCEPT ![r].waits = TRUE,
                            ![r].wake = IF ~files[r].handle /\ @ = "off" THEN "check" ELSE @]
  /\ UNCHANGED <<builds, pool>>

(* ensureBoundWorkspace: anything with the right origin is a checkout; a   *)
(* clone that has just begun may or may not have one yet.                  *)
CheckEnds(r) ==
  /\ files[r].wake = "check"
  /\ \/ /\ files[r].dir \notin {"none", "bare"}
        /\ files' = [files EXCEPT ![r].wake = "bound"] /\ UNCHANGED fate
     \/ /\ files[r].dir \in {"none", "bare", "filling"}
        /\ files' = [files EXCEPT ![r].wake = "reclone", ![r].dir = "filling",
                       ![r].status = IF @ \in {"IDLE", "ERROR"} THEN "PROVISIONING" ELSE @]
        /\ fate' = [fate EXCEPT !.clash = @ \/ files[r].leave # "no" \/ files[r].step # "off"]
  /\ UNCHANGED <<builds, pool>>

RecloneEnds(r) ==
  /\ files[r].wake = "reclone"
  /\ \/ files' = [files EXCEPT ![r].wake = "bound", ![r].dir = "whole", ![r].meta = "present"]
     \/ /\ "clone" \in FileFaults
        /\ \E left \in Broken :
             files' = [files EXCEPT ![r] =
                         [SetupFailed(@) EXCEPT !.step = files[r].step, !.wake = "off", !.dir = left]]
  /\ UNCHANGED <<builds, pool, fate>>

(* resumeRun once the checkout is there.                                   *)
ResumeRun(r) ==
  /\ files[r].wake = "bound"
  /\ \/ Attach(r, [files[r] EXCEPT !.wake = "mount", !.status = "PROVISIONING"])
     \/ /\ ~SlotFree(r) /\ UNCHANGED fate
        /\ files' = [files EXCEPT ![r].wake = "off", ![r].status = "IDLE"]
  /\ UNCHANGED <<builds, pool>>

(* isWaitingForCloudVm and tryStartQueued, which does not look at the      *)
(* checkout.                                                               *)
WaitsForSlot(f) ==
  /\ ~f.handle /\ f.wake = "off" /\ ~(f.status \in {"PROVISIONING", "INSTALLING"} /\ f.step # "off")
  /\ \/ f.status = "NOT_YET_STARTED"
     \/ f.status = "IDLE" /\ f.waits
     \/ f.status = "ERROR" /\ f.waits /\ ~f.setupError
TryStartQueued(r) ==
  /\ WaitsForSlot(files[r])
  /\ Attach(r, [files[r] EXCEPT !.wake = "mount", !.status = "PROVISIONING"])
  /\ UNCHANGED <<builds, pool>>

FilesNext ==
  \/ SchedulerRefills \/ ReclaimTick
  \/ \E t \in pool.refills : RefillCopies(t) \/ RefillFails(t)
  \/ \E r \in Jobs :
       \/ CreateRun(r) \/ RestoreEnds(r) \/ CloneEnds(r) \/ InstallEnds(r) \/ CaptureEnds(r)
       \/ BranchEnds(r) \/ SetupMounts(r) \/ WakeMounts(r) \/ MountFails(r)
       \/ JobTurnEnds(r) \/ TakesMessage(r) \/ ReleaseIdle(r) \/ ArchiveRun(r) \/ Saved(r)
       \/ AbortJob(r) \/ JobWorkerExits(r) \/ SlotReleased(r)
       \/ FollowUp(r) \/ CheckEnds(r) \/ RecloneEnds(r) \/ ResumeRun(r) \/ TryStartQueued(r)

FilesSpec == FilesInit /\ [][FilesNext]_fileVars

-----------------------------------------------------------------------------
(* Properties                                                              *)

(* What the agent wrote is on its slot or in its host directory, until the *)
(* eviction takes a workspace that nobody holds: no write-back is emptied  *)
(* under way, whoever dropped the handle first, and one that failed before *)
(* the worker was stopped loses nothing, at an idle release or an archive  *)
(* (workspace-store.ts, reclaimAndPublish).  Two ways to lose it are left  *)
(* out: the slot was given up although the write-back at the exit failed   *)
(* ("unsaved", until the next turn), and a start and a write-back or a     *)
(* setup of the same run worked at the same time (fate.clash).             *)
WorkKept ==
  \/ fate.clash
  \/ \A r \in Jobs : files[r].worked = "yes" => "work" \in {files[r].dir, files[r].mount}

(* Reproductions: the same without the one proviso, and the other.         *)
WorkKeptAlways ==
  \A r \in Jobs : files[r].worked = "yes" => "work" \in {files[r].dir, files[r].mount}
WorkSaved ==
  fate.clash \/ \A r \in Jobs : files[r].worked # "unsaved"

(* Whoever restores a build gets what a setup made, no half-copied tree    *)
(* and nobody's work: snapshots that count, and warm copies that the index *)
(* offers (builds.ts, warm-pool.ts).  After a follow-up, a Stop or an      *)
(* archive during setup it may be otherwise (fate.early).                  *)
CleanBuilds ==
  \/ fate.clash \/ fate.early
  \/ /\ \A b \in builds.done : builds.snapshot[b] = "whole"
     /\ \A b \in Jobs : \A e \in Usable(pool.index, pool.copies, b) : pool.copies[e.copy] = "whole"
     /\ \A b \in Jobs : Cardinality(Usable(pool.index, pool.copies, b)) <= PoolSize

(* Reproduction: the first part without the provisos.                      *)
CleanBuildsAlways == \A b \in builds.done : builds.snapshot[b] = "whole"

(* Reproduction: a worker starts on a complete checkout                    *)
(* (docs/workspace-persistence.md: an evicted run clones again).           *)
StartsWhole == ~fate.blank

(* Reproduction: a warm copy that is made is in the index or being made.   *)
CopiesTracked ==
  \A c \in Copies : pool.copies[c] \in {"none", "filling"} \/ \E e \in pool.index : e.copy = c
================================================================================
