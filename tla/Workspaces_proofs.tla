---------------------------- MODULE Workspaces_proofs ----------------------------
(***************************************************************************)
(* Proofs about Workspaces: whichever setups, wakes, archives and          *)
(* evictions cross, and whatever fails in between, the agent's work is on  *)
(* the slot or on the host, and what a build or the warm pool offers is a  *)
(* complete checkout.                                                      *)
(***************************************************************************)
EXTENDS Workspaces, FiniteSetTheorems, TLAPS

-----------------------------------------------------------------------------
(* Workspaces: the agent's work is on the slot or on the host, and what a  *)
(* build offers is complete.                                               *)

Workings == {"no", "yes", "unsaved"}
FileRun ==
  [status : {"new", "NOT_YET_STARTED", "PROVISIONING", "INSTALLING", "RUNNING", "IDLE",
             "ERROR", "ARCHIVED"},
   step : {"off", "restore", "clone", "again", "install", "capture", "branch", "mount"},
   wake : {"off", "check", "reclone", "bound", "mount"},
   leave : {"no", "save", "stop", "exit"},
   dir : Places, meta : {"none", "present", "evicted"}, mount : Places \cup {"taken"},
   handle : BOOLEAN, waits : BOOLEAN, setupError : BOOLEAN, worked : Workings]

\* A slot with files on it.
OnSlot(f) == f.mount \notin {"none", "taken"}
\* Unless two starts meet, or a start and a write-back.
Held(f) ==
  /\ f.status = "new" => f.step = "off" /\ f.wake = "off" /\ f.leave = "no" /\ f.mount = "none"
                         /\ ~f.handle /\ f.worked # "yes"
  /\ f.step # "off" => /\ ~f.handle /\ f.worked # "yes" /\ f.leave = "no" /\ f.wake \in {"off", "check", "bound"}
                       /\ f.mount = (IF f.step = "mount" THEN "taken" ELSE "none")
                       /\ f.step = "mount" => f.dir \in {"whole", "work"}
  /\ f.wake = "mount" => f.mount = "taken" /\ ~f.handle /\ f.leave = "no"
  /\ f.mount = "taken" => f.step = "mount" \/ f.wake = "mount"
  /\ f.wake = "reclone" => ~f.handle /\ f.worked # "yes" /\ f.mount = "none" /\ f.leave = "no"
  /\ f.handle => OnSlot(f)
  /\ f.leave # "no" => OnSlot(f)
  /\ f.leave \in {"save", "exit"} => f.dir \in {"filling", "saving"}
  /\ OnSlot(f) /\ f.leave \in {"no", "save"} => f.handle
  /\ f.wake = "check" /\ f.handle => /\ f.dir \in {"whole", "work", "saving", "part"}
                                     /\ f.mount \in {"whole", "work", "part"}
  /\ f.worked = "yes" => IF OnSlot(f) THEN f.mount = "work" ELSE f.dir = "work"
\* A setup that nothing came across.
SetsUp(f, captured) ==
  /\ f.step # "off" => f.status \in {"PROVISIONING", "INSTALLING"} /\ f.wake = "off"
  /\ f.step \in {"install", "capture"} => f.dir = "whole"
  /\ f.status = "new" \/ f.step \in {"clone", "again", "install", "capture"} => ~captured

\* What the pool's file says, or will when a refill is over.
Indexes(p) == {p.index} \cup {t.index : t \in p.refills}
Offer(index, dirs, b) == Cardinality(Usable(index, dirs, b))
PoolTyped(p) ==
  /\ DOMAIN p = {"index", "copies", "refills"} /\ p.copies \in [Copies -> Places]
  /\ \A I \in Indexes(p) : I \subseteq Entry /\ IsFiniteSet(I)
  /\ \A t \in p.refills : DOMAIN t = {"build", "index", "short", "copy"}
                          /\ t.build \in Jobs /\ t.copy \in Copies /\ t.short \in Nat \ {0}
\* A copy under way belongs to one refill and is offered nowhere yet.
NewNames(p) ==
  /\ \A I \in Indexes(p) : \A e \in I : \A t \in p.refills : e.copy # t.copy
  /\ \A t, u \in p.refills : t.copy = u.copy => t = u
InPool(p) ==
  /\ \A I \in Indexes(p) : \A b \in Jobs : Offer(I, p.copies, b) <= PoolSize
  /\ \A t \in p.refills : Offer(t.index, p.copies, t.build) + t.short <= PoolSize
WholeCopies(p) == \A I \in Indexes(p) : \A e \in I : p.copies[e.copy] \in {"none", "whole"}
PoolHeld(p, done) ==
  PoolTyped(p) /\ NewNames(p) /\ InPool(p) /\ \A t \in p.refills : t.build \in done

BuildsTyped(bs) ==
  /\ DOMAIN bs = {"begun", "done", "snapshot"} /\ bs.begun \in Seq(Jobs)
  /\ bs.done \subseteq Jobs /\ bs.snapshot \in [Jobs -> Places]
FateTyped ==
  /\ DOMAIN fate = {"asked", "clash", "early", "blank"}
  /\ {fate.clash, fate.early, fate.blank} \subseteq BOOLEAN

FInv ==
  /\ files \in [Jobs -> FileRun] /\ BuildsTyped(builds) /\ FateTyped
  /\ PoolHeld(pool, builds.done)
  /\ fate.clash \/ \A r \in Jobs : Held(files[r])
  /\ fate.clash \/ fate.early \/
       /\ \A r \in Jobs : SetsUp(files[r], r \in builds.done)
       /\ WholeCopies(pool) /\ \A b \in builds.done : builds.snapshot[b] = "whole"

-----------------------------------------------------------------------------
(* What a step makes of one run's record. *)
Kept(f, c, g, d, calm, quiet) ==
  /\ g \in FileRun /\ (Held(f) /\ calm => Held(g))
  /\ Held(f) /\ SetsUp(f, c) /\ calm /\ quiet => SetsUp(g, d)
FieldsAre(g, status, step, wake, leave, dir, mount, handle, worked) ==
  /\ g.status = status /\ g.step = step /\ g.wake = wake /\ g.leave = leave /\ g.dir = dir
  /\ g.mount = mount /\ g.handle = handle /\ g.worked = worked
\* What a start finds in the host directory.
FoundAt(f) ==
  CASE f.dir \in {"none", "bare"} -> "bare" [] f.dir \in {"filling", "saving"} -> "part" [] OTHER -> f.dir
\* What a write-back makes of it, while it goes on and when it is over.
StartDir(f) ==
  IF f.mount = "none" THEN f.dir ELSE IF f.dir \in {"none", "bare"} THEN "filling" ELSE "saving"
EndDir(f) ==
  IF f.mount = "none" THEN f.dir
  ELSE IF f.mount # "taken" /\ f.dir \in {"filling", "saving"} THEN f.mount ELSE "part"

LEMMA PlaceNames == /\ {"none", "bare", "filling", "saving", "part", "whole", "work"} \subseteq Places
                    /\ {"no", "yes", "unsaved"} \subseteq Workings
BY DEF Places, Workings

WithDir(f, status, dir, meta) == [f EXCEPT !.status = status, !.dir = dir, !.meta = meta]
LEMMA DirSet ==
  ASSUME NEW f \in FileRun, NEW dir \in Places, NEW status \in {f.status, "ARCHIVED"},
         NEW meta \in {"none", "present", "evicted"}
  PROVE  /\ WithDir(f, status, dir, meta) \in FileRun
         /\ FieldsAre(WithDir(f, status, dir, meta), status, f.step, f.wake, f.leave, dir, f.mount, f.handle, f.worked)
<1>. DEFINE g == [f EXCEPT !.status = status, !.dir = dir, !.meta = meta]
<1>1. g \in FileRun
  BY DEF FileRun
<1>2. FieldsAre(g, status, f.step, f.wake, f.leave, dir, f.mount, f.handle, f.worked)
  BY DEF FileRun, FieldsAre
<1>. QED BY <1>1, <1>2 DEF WithDir

LEMMA SaveRecord ==
  ASSUME NEW f \in FileRun, NEW status \in {f.status, "ARCHIVED"}, NEW h, h = [f EXCEPT !.status = status]
  PROVE  /\ SaveStarts(h) \in FileRun
         /\ FieldsAre(SaveStarts(h), status, f.step, f.wake, f.leave, StartDir(f), f.mount, f.handle, f.worked)
         /\ SaveEnds(h) \in FileRun
         /\ FieldsAre(SaveEnds(h), status, f.step, f.wake, f.leave, EndDir(f), f.mount, f.handle, f.worked)
<1>1. /\ h \in FileRun /\ h.dir = f.dir /\ h.mount = f.mount /\ h.meta = f.meta /\ f.dir \in Places
      /\ f.mount \in Places \cup {"taken"} /\ f.meta \in {"none", "present", "evicted"}
  BY DEF FileRun
<1>2. StartDir(f) \in Places /\ EndDir(f) \in Places
  BY <1>1, PlaceNames DEF StartDir, EndDir
<1>3. SaveStarts(h) = WithDir(f, status, StartDir(f), f.meta)
  BY <1>1 DEF SaveStarts, StartDir, FileRun, WithDir
<1>4. PICK meta \in {"none", "present", "evicted"} : meta = IF f.dir = "none" THEN f.meta ELSE "present"
  BY <1>1
<1>5. SaveEnds(h) = [h EXCEPT !.meta = meta, !.dir = EndDir(f)]
  BY <1>1, <1>4 DEF SaveEnds, EndDir
<1>6. SaveEnds(h) = WithDir(f, status, EndDir(f), meta)
  BY <1>5 DEF FileRun, WithDir
<1>7. SaveStarts(h) \in FileRun
      /\ FieldsAre(SaveStarts(h), status, f.step, f.wake, f.leave, StartDir(f), f.mount, f.handle, f.worked)
  BY <1>1, <1>2, <1>3, DirSet
<1>8. SaveEnds(h) \in FileRun
      /\ FieldsAre(SaveEnds(h), status, f.step, f.wake, f.leave, EndDir(f), f.mount, f.handle, f.worked)
  BY <1>1, <1>2, <1>4, <1>6, DirSet
<1>. QED BY <1>7, <1>8

LEMMA CreateKept ==
ASSUME NEW f \in FileRun, NEW c \in BOOLEAN, f.status = "new", NEW step \in {"clone",
         "restore", "branch"}, NEW dir \in Places
PROVE  Kept(f, c, [f EXCEPT !.status = "PROVISIONING", !.waits = TRUE, !.step = step, !.dir =
              dir], c, TRUE, TRUE)
<1>. DEFINE g == [f EXCEPT !.status = "PROVISIONING", !.waits = TRUE, !.step = step, !.dir =
                 dir]
<1>a. g \in FileRun
  BY PlaceNames DEF FileRun
<1>b. FieldsAre(g, "PROVISIONING", step, f.wake, f.leave, dir, f.mount, f.handle, f.worked)
  BY DEF FileRun, FieldsAre
<1>1. g \in FileRun /\ FieldsAre(g, "PROVISIONING", step, f.wake, f.leave, dir, f.mount, f.handle,
          f.worked)
  BY <1>a, <1>b
<1>. HIDE DEF g
<1>2. Held(f) => Held(g)
  BY <1>1 DEF Held, OnSlot, FieldsAre, FileRun
<1>3. Held(f) /\ SetsUp(f, c) => SetsUp(g, c)
  BY <1>1 DEF Held, SetsUp, FieldsAre, FileRun, OnSlot
<1>. QED BY <1>1, <1>2, <1>3 DEF Kept, g

LEMMA RestoredKept ==
ASSUME NEW f \in FileRun, NEW c \in BOOLEAN, f.step = "restore", NEW dir \in Places
PROVE  Kept(f, c, [f EXCEPT !.step = "branch", !.dir = dir], c, TRUE, TRUE)
<1>. DEFINE g == [f EXCEPT !.step = "branch", !.dir = dir]
<1>a. g \in FileRun
  BY PlaceNames DEF FileRun
<1>b. FieldsAre(g, f.status, "branch", f.wake, f.leave, dir, f.mount, f.handle, f.worked)
  BY DEF FileRun, FieldsAre
<1>1. g \in FileRun /\ FieldsAre(g, f.status, "branch", f.wake, f.leave, dir, f.mount, f.handle,
          f.worked)
  BY <1>a, <1>b
<1>. HIDE DEF g
<1>2. Held(f) => Held(g)
  BY <1>1 DEF Held, OnSlot, FieldsAre, FileRun
<1>3. Held(f) /\ SetsUp(f, c) => SetsUp(g, c)
  BY <1>1 DEF Held, SetsUp, FieldsAre, FileRun, OnSlot
<1>. QED BY <1>1, <1>2, <1>3 DEF Kept, g

LEMMA FailedKept ==
ASSUME NEW f \in FileRun, NEW c \in BOOLEAN, f.step \notin {"off", "mount"}, NEW dir \in
         Places
PROVE  Kept(f, c, SetupFailed([f EXCEPT !.dir = dir]), c, TRUE, TRUE)
<1>. DEFINE g == SetupFailed([f EXCEPT !.dir = dir])
<1>a. g \in FileRun
  BY PlaceNames DEF FileRun, SetupFailed
<1>b. FieldsAre(g, "ERROR", "off", f.wake, f.leave, dir, f.mount, f.handle, f.worked)
  BY DEF FileRun, FieldsAre, SetupFailed
<1>1. g \in FileRun /\ FieldsAre(g, "ERROR", "off", f.wake, f.leave, dir, f.mount, f.handle,
          f.worked)
  BY <1>a, <1>b
<1>. HIDE DEF g
<1>2. Held(f) => Held(g)
  BY <1>1 DEF Held, OnSlot, FieldsAre, FileRun
<1>3. Held(f) /\ SetsUp(f, c) => SetsUp(g, c)
  BY <1>1 DEF Held, SetsUp, FieldsAre, FileRun, OnSlot
<1>. QED BY <1>1, <1>2, <1>3 DEF Kept, g

LEMMA ClonedKept ==
ASSUME NEW f \in FileRun, NEW c \in BOOLEAN, f.step \in {"clone", "again"}, NEW status \in
         {f.status, "INSTALLING"}
PROVE  Kept(f, c, [f EXCEPT !.step = "install", !.dir = "whole", !.status = status], c, TRUE,
              TRUE)
<1>. DEFINE g == [f EXCEPT !.step = "install", !.dir = "whole", !.status = status]
<1>a. g \in FileRun
  BY PlaceNames DEF FileRun
<1>b. FieldsAre(g, status, "install", f.wake, f.leave, "whole", f.mount, f.handle, f.worked)
  BY DEF FileRun, FieldsAre
<1>1. g \in FileRun /\ FieldsAre(g, status, "install", f.wake, f.leave, "whole", f.mount,
          f.handle, f.worked)
  BY <1>a, <1>b
<1>. HIDE DEF g
<1>2. Held(f) => Held(g)
  BY <1>1 DEF Held, OnSlot, FieldsAre, FileRun
<1>3. Held(f) /\ SetsUp(f, c) => SetsUp(g, c)
  BY <1>1 DEF Held, SetsUp, FieldsAre, FileRun, OnSlot
<1>. QED BY <1>1, <1>2, <1>3 DEF Kept, g

LEMMA AgainKept ==
ASSUME NEW f \in FileRun, NEW c \in BOOLEAN, f.step = "clone"
PROVE  Kept(f, c, [f EXCEPT !.step = "again", !.dir = "filling"], c, TRUE, TRUE)
<1>. DEFINE g == [f EXCEPT !.step = "again", !.dir = "filling"]
<1>a. g \in FileRun
  BY PlaceNames DEF FileRun
<1>b. FieldsAre(g, f.status, "again", f.wake, f.leave, "filling", f.mount, f.handle, f.worked)
  BY DEF FileRun, FieldsAre
<1>1. g \in FileRun /\ FieldsAre(g, f.status, "again", f.wake, f.leave, "filling", f.mount,
          f.handle, f.worked)
  BY <1>a, <1>b
<1>. HIDE DEF g
<1>2. Held(f) => Held(g)
  BY <1>1 DEF Held, OnSlot, FieldsAre, FileRun
<1>3. Held(f) /\ SetsUp(f, c) => SetsUp(g, c)
  BY <1>1 DEF Held, SetsUp, FieldsAre, FileRun, OnSlot
<1>. QED BY <1>1, <1>2, <1>3 DEF Kept, g

LEMMA InstalledKept ==
ASSUME NEW f \in FileRun, NEW c \in BOOLEAN, f.step = "install"
PROVE  Kept(f, c, [f EXCEPT !.step = "capture"], c, TRUE, TRUE)
<1>. DEFINE g == [f EXCEPT !.step = "capture"]
<1>a. g \in FileRun
  BY PlaceNames DEF FileRun
<1>b. FieldsAre(g, f.status, "capture", f.wake, f.leave, f.dir, f.mount, f.handle, f.worked)
  BY DEF FileRun, FieldsAre
<1>1. g \in FileRun /\ FieldsAre(g, f.status, "capture", f.wake, f.leave, f.dir, f.mount,
          f.handle, f.worked)
  BY <1>a, <1>b
<1>. HIDE DEF g
<1>2. Held(f) => Held(g)
  BY <1>1 DEF Held, OnSlot, FieldsAre, FileRun
<1>3. Held(f) /\ SetsUp(f, c) => SetsUp(g, c)
  BY <1>1 DEF Held, SetsUp, FieldsAre, FileRun, OnSlot
<1>. QED BY <1>1, <1>2, <1>3 DEF Kept, g

LEMMA CapturedKept ==
ASSUME NEW f \in FileRun, NEW c \in BOOLEAN, f.step = "capture", NEW d \in BOOLEAN
PROVE  Kept(f, c, [f EXCEPT !.step = "branch"], d, TRUE, TRUE)
<1>. DEFINE g == [f EXCEPT !.step = "branch"]
<1>a. g \in FileRun
  BY PlaceNames DEF FileRun
<1>b. FieldsAre(g, f.status, "branch", f.wake, f.leave, f.dir, f.mount, f.handle, f.worked)
  BY DEF FileRun, FieldsAre
<1>1. g \in FileRun /\ FieldsAre(g, f.status, "branch", f.wake, f.leave, f.dir, f.mount, f.handle,
          f.worked)
  BY <1>a, <1>b
<1>. HIDE DEF g
<1>2. Held(f) => Held(g)
  BY <1>1 DEF Held, OnSlot, FieldsAre, FileRun
<1>3. Held(f) /\ SetsUp(f, c) => SetsUp(g, d)
  BY <1>1 DEF Held, SetsUp, FieldsAre, FileRun, OnSlot
<1>. QED BY <1>1, <1>2, <1>3 DEF Kept, g

LEMMA QueuedKept ==
ASSUME NEW f \in FileRun, NEW c \in BOOLEAN, f.step = "branch"
PROVE  Kept(f, c, [f EXCEPT !.step = "off", !.status = "NOT_YET_STARTED"], c, TRUE, TRUE)
<1>. DEFINE g == [f EXCEPT !.step = "off", !.status = "NOT_YET_STARTED"]
<1>a. g \in FileRun
  BY PlaceNames DEF FileRun
<1>b. FieldsAre(g, "NOT_YET_STARTED", "off", f.wake, f.leave, f.dir, f.mount, f.handle, f.worked)
  BY DEF FileRun, FieldsAre
<1>1. g \in FileRun /\ FieldsAre(g, "NOT_YET_STARTED", "off", f.wake, f.leave, f.dir, f.mount,
          f.handle, f.worked)
  BY <1>a, <1>b
<1>. HIDE DEF g
<1>2. Held(f) => Held(g)
  BY <1>1 DEF Held, OnSlot, FieldsAre, FileRun
<1>3. Held(f) /\ SetsUp(f, c) => SetsUp(g, c)
  BY <1>1 DEF Held, SetsUp, FieldsAre, FileRun, OnSlot
<1>. QED BY <1>1, <1>2, <1>3 DEF Kept, g

LEMMA BranchKept ==
ASSUME NEW f \in FileRun, NEW c \in BOOLEAN, f.step = "branch", WorkspaceOf(f) \in {"whole",
         "work"}
PROVE  Kept(f, c, [[f EXCEPT !.step = "mount"] EXCEPT !.mount = "taken"], c, (f.mount = "none"
              /\ f.wake = "off"), TRUE)
<1>. DEFINE g == [[f EXCEPT !.step = "mount"] EXCEPT !.mount = "taken"]
<1>a. g \in FileRun
  BY PlaceNames DEF FileRun
<1>b. FieldsAre(g, f.status, "mount", f.wake, f.leave, f.dir, "taken", f.handle, f.worked)
  BY DEF FileRun, FieldsAre
<1>1. g \in FileRun /\ FieldsAre(g, f.status, "mount", f.wake, f.leave, f.dir, "taken", f.handle,
          f.worked)
  BY <1>a, <1>b
<1>. HIDE DEF g
<1>2. Held(f) /\ (f.mount = "none" /\ f.wake = "off") => Held(g)
  BY <1>1 DEF Held, OnSlot, FieldsAre, FileRun, WorkspaceOf
<1>3. Held(f) /\ SetsUp(f, c) /\ (f.mount = "none" /\ f.wake = "off") => SetsUp(g, c)
  BY <1>1 DEF Held, SetsUp, FieldsAre, FileRun, OnSlot
<1>. QED BY <1>1, <1>2, <1>3 DEF Kept, g

LEMMA WakeKept ==
ASSUME NEW f \in FileRun, NEW c \in BOOLEAN, f.wake = "bound" \/ (f.wake = "off" /\ f.status #
         "new")
PROVE  Kept(f, c, [[f EXCEPT !.wake = "mount", !.status = "PROVISIONING"] EXCEPT !.mount =
              "taken"], c, (f.mount = "none" /\ f.step = "off"), TRUE)
<1>. DEFINE g == [[f EXCEPT !.wake = "mount", !.status = "PROVISIONING"] EXCEPT !.mount =
                 "taken"]
<1>. DEFINE h == [f EXCEPT !.wake = "mount", !.status = "PROVISIONING"]
<1>h. h \in FileRun /\ g = [h EXCEPT !.mount = "taken"]
  BY DEF FileRun
<1>a. g \in FileRun
  <2>. HIDE DEF g, h
  <2>. QED BY <1>h DEF FileRun
<1>b. FieldsAre(g, "PROVISIONING", f.step, "mount", f.leave, f.dir, "taken", f.handle, f.worked)
  BY DEF FileRun, FieldsAre
<1>1. g \in FileRun /\ FieldsAre(g, "PROVISIONING", f.step, "mount", f.leave, f.dir, "taken",
          f.handle, f.worked)
  BY <1>a, <1>b
<1>. HIDE DEF g
<1>2. Held(f) /\ (f.mount = "none" /\ f.step = "off") => Held(g)
  BY <1>1 DEF Held, OnSlot, FieldsAre, FileRun
<1>3. Held(f) /\ SetsUp(f, c) /\ (f.mount = "none" /\ f.step = "off") => SetsUp(g, c)
  BY <1>1 DEF Held, SetsUp, FieldsAre, FileRun, OnSlot
<1>. QED BY <1>1, <1>2, <1>3 DEF Kept, g

LEMMA MountedKept ==
ASSUME NEW f \in FileRun, NEW c \in BOOLEAN, f.step = "mount", f.mount # "none", NEW found \in
         Places, found = FoundAt(f)
PROVE  Kept(f, c, [[f EXCEPT !.step = "off"] EXCEPT !.mount = found, !.handle = TRUE, !.status
              = "RUNNING", !.waits = FALSE, !.setupError = FALSE], c, TRUE, TRUE)
<1>. DEFINE g == [[f EXCEPT !.step = "off"] EXCEPT !.mount = found, !.handle = TRUE, !.status
                 = "RUNNING", !.waits = FALSE, !.setupError = FALSE]
<1>a. g \in FileRun
  BY PlaceNames DEF FileRun
<1>b. FieldsAre(g, "RUNNING", "off", f.wake, f.leave, f.dir, found, TRUE, f.worked)
  BY DEF FileRun, FieldsAre
<1>1. g \in FileRun /\ FieldsAre(g, "RUNNING", "off", f.wake, f.leave, f.dir, found, TRUE,
          f.worked)
  BY <1>a, <1>b
<1>. HIDE DEF g
<1>c. FoundAt(f) \notin {"none", "taken"} /\ (f.dir = "work" => FoundAt(f) = "work")
  BY DEF FileRun, Places, FoundAt
<1>2. Held(f) => Held(g)
  BY <1>1, <1>c DEF Held, OnSlot, FieldsAre, FileRun, FoundAt
<1>3. Held(f) /\ SetsUp(f, c) => SetsUp(g, c)
  BY <1>1 DEF Held, SetsUp, FieldsAre, FileRun, OnSlot
<1>. QED BY <1>1, <1>2, <1>3 DEF Kept, g

LEMMA WokenKept ==
ASSUME NEW f \in FileRun, NEW c \in BOOLEAN, f.wake = "mount", f.mount # "none", NEW found \in
         Places, found = FoundAt(f)
PROVE  Kept(f, c, [[f EXCEPT !.wake = "off"] EXCEPT !.mount = found, !.handle = TRUE, !.status
              = "RUNNING", !.waits = FALSE, !.setupError = FALSE], c, TRUE, TRUE)
<1>. DEFINE g == [[f EXCEPT !.wake = "off"] EXCEPT !.mount = found, !.handle = TRUE, !.status
                 = "RUNNING", !.waits = FALSE, !.setupError = FALSE]
<1>a. g \in FileRun
  BY PlaceNames DEF FileRun
<1>b. FieldsAre(g, "RUNNING", f.step, "off", f.leave, f.dir, found, TRUE, f.worked)
  BY DEF FileRun, FieldsAre
<1>1. g \in FileRun /\ FieldsAre(g, "RUNNING", f.step, "off", f.leave, f.dir, found, TRUE,
          f.worked)
  BY <1>a, <1>b
<1>. HIDE DEF g
<1>c. FoundAt(f) \notin {"none", "taken"} /\ (f.dir = "work" => FoundAt(f) = "work")
  BY DEF FileRun, Places, FoundAt
<1>2. Held(f) => Held(g)
  BY <1>1, <1>c DEF Held, OnSlot, FieldsAre, FileRun
<1>3. Held(f) /\ SetsUp(f, c) => SetsUp(g, c)
  BY <1>1 DEF Held, SetsUp, FieldsAre, FileRun, OnSlot
<1>. QED BY <1>1, <1>2, <1>3 DEF Kept, g

LEMMA UnmountedKept ==
ASSUME NEW f \in FileRun, NEW c \in BOOLEAN, f.step = "mount", f.mount = "taken", ~f.handle
PROVE  Kept(f, c, [SetupFailed(f) EXCEPT !.mount = "none", !.setupError = FALSE], c, TRUE,
              TRUE)
<1>. DEFINE g == [SetupFailed(f) EXCEPT !.mount = "none", !.setupError = FALSE]
<1>a. g \in FileRun
  BY PlaceNames DEF FileRun, SetupFailed
<1>b. FieldsAre(g, "ERROR", "off", f.wake, f.leave, f.dir, "none", f.handle, f.worked)
  BY DEF FileRun, FieldsAre, SetupFailed
<1>1. g \in FileRun /\ FieldsAre(g, "ERROR", "off", f.wake, f.leave, f.dir, "none", f.handle,
          f.worked)
  BY <1>a, <1>b
<1>. HIDE DEF g
<1>2. Held(f) => Held(g)
  BY <1>1 DEF Held, OnSlot, FieldsAre, FileRun
<1>3. Held(f) /\ SetsUp(f, c) => SetsUp(g, c)
  BY <1>1 DEF Held, SetsUp, FieldsAre, FileRun, OnSlot
<1>. QED BY <1>1, <1>2, <1>3 DEF Kept, g

LEMMA UnwokenKept ==
ASSUME NEW f \in FileRun, NEW c \in BOOLEAN, f.wake = "mount", f.mount = "taken", ~f.handle
PROVE  Kept(f, c, [SetupFailed(f) EXCEPT !.mount = "none", !.setupError = FALSE, !.wake =
              "off", !.step = f.step], c, TRUE, TRUE)
<1>. DEFINE g == [SetupFailed(f) EXCEPT !.mount = "none", !.setupError = FALSE, !.wake =
                 "off", !.step = f.step]
<1>a. g \in FileRun
  BY PlaceNames DEF FileRun, SetupFailed
<1>b. FieldsAre(g, "ERROR", f.step, "off", f.leave, f.dir, "none", f.handle, f.worked)
  BY DEF FileRun, FieldsAre, SetupFailed
<1>1. g \in FileRun /\ FieldsAre(g, "ERROR", f.step, "off", f.leave, f.dir, "none", f.handle,
          f.worked)
  BY <1>a, <1>b
<1>. HIDE DEF g
<1>2. Held(f) => Held(g)
  BY <1>1 DEF Held, OnSlot, FieldsAre, FileRun
<1>3. Held(f) /\ SetsUp(f, c) => SetsUp(g, c)
  BY <1>1 DEF Held, SetsUp, FieldsAre, FileRun, OnSlot
<1>. QED BY <1>1, <1>2, <1>3 DEF Kept, g

LEMMA EvictedKept ==
ASSUME NEW f \in FileRun, NEW c \in BOOLEAN, Unprotected(f)
PROVE  Kept(f, c, [f EXCEPT !.dir = "bare", !.meta = "evicted",
                            !.worked = IF f.mount = "none" THEN "no" ELSE f.worked], c, TRUE, TRUE)
<1>. DEFINE g == [f EXCEPT !.dir = "bare", !.meta = "evicted",
                           !.worked = IF f.mount = "none" THEN "no" ELSE f.worked]
<1>a. g \in FileRun
  BY PlaceNames DEF FileRun, Unprotected
<1>b. FieldsAre(g, f.status, f.step, f.wake, f.leave, "bare", f.mount, f.handle, "no")
  BY DEF FileRun, FieldsAre, Unprotected
<1>1. g \in FileRun /\ FieldsAre(g, f.status, f.step, f.wake, f.leave, "bare", f.mount, f.handle,
          "no")
  BY <1>a, <1>b
<1>. HIDE DEF g
<1>2. Held(f) => Held(g)
  BY <1>1 DEF Held, OnSlot, FieldsAre, FileRun, Unprotected, Live
<1>3. Held(f) /\ SetsUp(f, c) => SetsUp(g, c)
  BY <1>1 DEF Held, SetsUp, FieldsAre, FileRun, OnSlot, Live, Unprotected
<1>. QED BY <1>1, <1>2, <1>3 DEF Kept, g

LEMMA TurnKept ==
ASSUME NEW f \in FileRun, NEW c \in BOOLEAN, f.handle, f.mount \notin {"none", "taken"}
PROVE  Kept(f, c, [f EXCEPT !.mount = "work", !.worked = "yes", !.status = "IDLE"], c, TRUE,
              TRUE)
<1>. DEFINE g == [f EXCEPT !.mount = "work", !.worked = "yes", !.status = "IDLE"]
<1>a. g \in FileRun
  BY PlaceNames DEF FileRun
<1>b. FieldsAre(g, "IDLE", f.step, f.wake, f.leave, f.dir, "work", f.handle, "yes")
  BY DEF FileRun, FieldsAre
<1>1. g \in FileRun /\ FieldsAre(g, "IDLE", f.step, f.wake, f.leave, f.dir, "work", f.handle,
          "yes")
  BY <1>a, <1>b
<1>. HIDE DEF g
<1>2. Held(f) => Held(g)
  BY <1>1 DEF Held, OnSlot, FieldsAre, FileRun
<1>3. Held(f) /\ SetsUp(f, c) => SetsUp(g, c)
  BY <1>1 DEF Held, SetsUp, FieldsAre, FileRun, OnSlot
<1>. QED BY <1>1, <1>2, <1>3 DEF Kept, g

LEMMA TakesKept ==
ASSUME NEW f \in FileRun, NEW c \in BOOLEAN, f.handle
PROVE  Kept(f, c, [f EXCEPT !.waits = FALSE, !.status = "RUNNING"], c, TRUE, TRUE)
<1>. DEFINE g == [f EXCEPT !.waits = FALSE, !.status = "RUNNING"]
<1>a. g \in FileRun
  BY PlaceNames DEF FileRun
<1>b. FieldsAre(g, "RUNNING", f.step, f.wake, f.leave, f.dir, f.mount, f.handle, f.worked)
  BY DEF FileRun, FieldsAre
<1>1. g \in FileRun /\ FieldsAre(g, "RUNNING", f.step, f.wake, f.leave, f.dir, f.mount, f.handle,
          f.worked)
  BY <1>a, <1>b
<1>. HIDE DEF g
<1>2. Held(f) => Held(g)
  BY <1>1 DEF Held, OnSlot, FieldsAre, FileRun
<1>3. Held(f) /\ SetsUp(f, c) => SetsUp(g, c)
  BY <1>1 DEF Held, SetsUp, FieldsAre, FileRun, OnSlot
<1>. QED BY <1>1, <1>2, <1>3 DEF Kept, g

LEMMA LeaveKept ==
ASSUME NEW f \in FileRun, NEW c \in BOOLEAN, NEW leave \in {"save", "exit"}, leave = "save" =>
         f.handle, f.leave = "stop" \/ (f.leave = "no" /\ f.handle)
PROVE  Kept(f, c, [SaveStarts(f) EXCEPT !.leave = leave], c, TRUE, TRUE)
<1>. DEFINE g == [SaveStarts(f) EXCEPT !.leave = leave]
<1>. DEFINE h == SaveStarts(f)
<1>0. h \in FileRun /\ FieldsAre(h, f.status, f.step, f.wake, f.leave, StartDir(f), f.mount,
        f.handle, f.worked)
  <2>1. f = [f EXCEPT !.status = f.status]
    BY DEF FileRun
  <2>. QED BY <2>1, SaveRecord
<1>. HIDE DEF h
<1>g. [h EXCEPT !.leave = leave] = g
  BY DEF h
<1>. HIDE DEF g
<1>a. g \in FileRun
  BY <1>0, <1>g, PlaceNames DEF FileRun, FieldsAre
<1>b. FieldsAre(g, f.status, f.step, f.wake, leave, StartDir(f), f.mount, f.handle, f.worked)
  BY <1>0, <1>g DEF FileRun, FieldsAre
<1>1. g \in FileRun /\ FieldsAre(g, f.status, f.step, f.wake, leave, StartDir(f), f.mount,
          f.handle, f.worked)
  BY <1>a, <1>b
<1>. HIDE DEF g
<1>2. Held(f) => Held(g)
  BY <1>1 DEF Held, OnSlot, FieldsAre, FileRun, StartDir
<1>3. Held(f) /\ SetsUp(f, c) => SetsUp(g, c)
  BY <1>1 DEF Held, SetsUp, FieldsAre, FileRun, OnSlot
<1>. QED BY <1>1, <1>2, <1>3 DEF Kept, g

LEMMA ShelvedKept ==
ASSUME NEW f \in FileRun, NEW c \in BOOLEAN, f.status # "new", f.leave = "no", f.mount #
         "none"
PROVE  Kept(f, c, [SaveStarts([f EXCEPT !.status = "ARCHIVED"]) EXCEPT !.leave = "save"], c,
              (f.mount # "taken"), (f.step = "off"))
<1>. DEFINE g == [SaveStarts([f EXCEPT !.status = "ARCHIVED"]) EXCEPT !.leave = "save"]
<1>. DEFINE h == SaveStarts([f EXCEPT !.status = "ARCHIVED"])
<1>0. h \in FileRun /\ FieldsAre(h, "ARCHIVED", f.step, f.wake, f.leave, StartDir(f), f.mount,
        f.handle, f.worked)
  <2>. QED BY SaveRecord
<1>. HIDE DEF h
<1>g. [h EXCEPT !.leave = "save"] = g
  BY DEF h
<1>. HIDE DEF g
<1>a. g \in FileRun
  BY <1>0, <1>g, PlaceNames DEF FileRun, FieldsAre
<1>b. FieldsAre(g, "ARCHIVED", f.step, f.wake, "save", StartDir(f), f.mount, f.handle, f.worked)
  BY <1>0, <1>g DEF FileRun, FieldsAre
<1>1. g \in FileRun /\ FieldsAre(g, "ARCHIVED", f.step, f.wake, "save", StartDir(f), f.mount,
          f.handle, f.worked)
  BY <1>a, <1>b
<1>. HIDE DEF g
<1>2. Held(f) /\ (f.mount # "taken") => Held(g)
  BY <1>1 DEF Held, OnSlot, FieldsAre, FileRun, StartDir
<1>3. Held(f) /\ SetsUp(f, c) /\ (f.mount # "taken") /\ (f.step = "off") => SetsUp(g, c)
  BY <1>1 DEF Held, SetsUp, FieldsAre, FileRun, OnSlot
<1>. QED BY <1>1, <1>2, <1>3 DEF Kept, g

LEMMA ArchivedKept ==
ASSUME NEW f \in FileRun, NEW c \in BOOLEAN, f.status # "new", f.leave = "no", f.mount =
         "none"
PROVE  Kept(f, c, SaveEnds([f EXCEPT !.status = "ARCHIVED"]), c, TRUE, (f.step = "off"))
<1>. DEFINE g == SaveEnds([f EXCEPT !.status = "ARCHIVED"])
<1>a. g \in FileRun
  BY PlaceNames DEF FileRun, SaveEnds
<1>b. FieldsAre(g, "ARCHIVED", f.step, f.wake, f.leave, f.dir, f.mount, f.handle, f.worked)
  BY DEF FileRun, FieldsAre, SaveEnds
<1>1. g \in FileRun /\ FieldsAre(g, "ARCHIVED", f.step, f.wake, f.leave, f.dir, f.mount, f.handle,
          f.worked)
  BY <1>a, <1>b
<1>. HIDE DEF g
<1>2. Held(f) => Held(g)
  BY <1>1 DEF Held, OnSlot, FieldsAre, FileRun
<1>3. Held(f) /\ SetsUp(f, c) /\ (f.step = "off") => SetsUp(g, c)
  BY <1>1 DEF Held, SetsUp, FieldsAre, FileRun, OnSlot
<1>. QED BY <1>1, <1>2, <1>3 DEF Kept, g

LEMMA SavedKept ==
ASSUME NEW f \in FileRun, NEW c \in BOOLEAN, f.leave = "save"
PROVE  Kept(f, c, [SaveEnds(f) EXCEPT !.leave = IF f.handle THEN "stop" ELSE "no"], c, TRUE,
              TRUE)
<1>. DEFINE g == [SaveEnds(f) EXCEPT !.leave = IF f.handle THEN "stop" ELSE "no"]
<1>. DEFINE h == SaveEnds(f)
<1>0. h \in FileRun /\ FieldsAre(h, f.status, f.step, f.wake, f.leave, EndDir(f), f.mount,
        f.handle, f.worked)
  <2>1. f = [f EXCEPT !.status = f.status]
    BY DEF FileRun
  <2>. QED BY <2>1, SaveRecord
<1>. HIDE DEF h
<1>g. [h EXCEPT !.leave = IF f.handle THEN "stop" ELSE "no"] = g
  BY DEF h
<1>. HIDE DEF g
<1>a. g \in FileRun
  BY <1>0, <1>g, PlaceNames DEF FileRun, FieldsAre
<1>b. FieldsAre(g, f.status, f.step, f.wake, (IF f.handle THEN "stop" ELSE "no"), EndDir(f),
          f.mount, f.handle, f.worked)
  BY <1>0, <1>g DEF FileRun, FieldsAre
<1>1. g \in FileRun /\ FieldsAre(g, f.status, f.step, f.wake, (IF f.handle THEN "stop" ELSE "no"),
          EndDir(f), f.mount, f.handle, f.worked)
  BY <1>a, <1>b
<1>. HIDE DEF g
<1>2. Held(f) => Held(g)
  BY <1>1 DEF Held, OnSlot, FieldsAre, FileRun, EndDir
<1>3. Held(f) /\ SetsUp(f, c) => SetsUp(g, c)
  BY <1>1 DEF Held, SetsUp, FieldsAre, FileRun, OnSlot
<1>. QED BY <1>1, <1>2, <1>3 DEF Kept, g

LEMMA UnsavedKept ==
ASSUME NEW f \in FileRun, NEW c \in BOOLEAN, f.leave = "save", NEW leave \in {"no", "stop"},
       leave = "stop" \/ f.status # "ARCHIVED" \/ ~f.handle
PROVE  Kept(f, c, [CopyFails(f) EXCEPT !.leave = leave], c, TRUE, TRUE)
<1>. DEFINE g == [CopyFails(f) EXCEPT !.leave = leave]
            dir == IF f.mount = "none" THEN f.dir ELSE "part"
<1>a. g \in FileRun
  BY PlaceNames DEF FileRun, CopyFails
<1>b. FieldsAre(g, f.status, f.step, f.wake, leave, dir, f.mount, f.handle, f.worked)
  BY DEF FileRun, FieldsAre, CopyFails
<1>1. g \in FileRun /\ FieldsAre(g, f.status, f.step, f.wake, leave, dir, f.mount, f.handle,
          f.worked)
  BY <1>a, <1>b
<1>. HIDE DEF g
<1>2. Held(f) => Held(g)
  BY <1>1 DEF Held, OnSlot, FieldsAre, FileRun
<1>3. Held(f) /\ SetsUp(f, c) => SetsUp(g, c)
  BY <1>1 DEF Held, SetsUp, FieldsAre, FileRun, OnSlot
<1>. QED BY <1>1, <1>2, <1>3 DEF Kept, g

LEMMA AbortedKept ==
ASSUME NEW f \in FileRun, NEW c \in BOOLEAN, f.leave = "no", f.status # "new",
       NEW failed \in {FALSE, f.handle}
PROVE  Kept(f, c, [f EXCEPT !.status = IF failed THEN "ERROR" ELSE "IDLE", !.waits = FALSE,
                            !.setupError = FALSE, !.handle = @ /\ ~failed,
                            !.leave = IF f.handle THEN "stop" ELSE "no"], c, TRUE, (f.step = "off"))
<1>. DEFINE g == [f EXCEPT !.status = IF failed THEN "ERROR" ELSE "IDLE", !.waits = FALSE,
                           !.setupError = FALSE, !.handle = @ /\ ~failed,
                           !.leave = IF f.handle THEN "stop" ELSE "no"]
<1>0. failed \in BOOLEAN /\ f.handle \in BOOLEAN /\ (failed => f.handle)
  BY DEF FileRun
<1>a. g \in FileRun
  BY <1>0, PlaceNames DEF FileRun
<1>b. FieldsAre(g, (IF failed THEN "ERROR" ELSE "IDLE"), f.step, f.wake,
          (IF f.handle THEN "stop" ELSE "no"), f.dir, f.mount, f.handle /\ ~failed, f.worked)
  BY DEF FileRun, FieldsAre
<1>1. g \in FileRun /\ FieldsAre(g, (IF failed THEN "ERROR" ELSE "IDLE"), f.step, f.wake,
          (IF f.handle THEN "stop" ELSE "no"), f.dir, f.mount, f.handle /\ ~failed, f.worked)
  BY <1>a, <1>b
<1>. HIDE DEF g
<1>2. Held(f) => Held(g)
  BY <1>0, <1>1 DEF Held, OnSlot, FieldsAre, FileRun
<1>3. Held(f) /\ SetsUp(f, c) /\ (f.step = "off") => SetsUp(g, c)
  BY <1>0, <1>1 DEF Held, SetsUp, FieldsAre, FileRun, OnSlot
<1>. QED BY <1>1, <1>2, <1>3 DEF Kept, g

\* The slot goes although the write-back failed: nothing is said of the work any more.
LEMMA GivenUpKept ==
ASSUME NEW f \in FileRun, NEW c \in BOOLEAN, f.leave = "exit"
PROVE  Kept(f, c, OffSlot(CopyFails(GivenUp(f))), c, TRUE, TRUE)
<1>. DEFINE g == OffSlot(CopyFails(GivenUp(f)))
            status == IF f.status = "RUNNING" THEN "ERROR" ELSE f.status
            dir == IF f.mount = "none" THEN f.dir ELSE "part"
            worked == IF f.worked = "yes" /\ f.mount # "none" THEN "unsaved" ELSE f.worked
<1>0. /\ g = [f EXCEPT !.leave = "no", !.mount = "none", !.handle = FALSE, !.status = status,
                       !.dir = dir, !.worked = worked]
      /\ status \in {f.status, "ERROR"} /\ dir \in Places /\ worked \in Workings
  BY PlaceNames DEF FileRun, OffSlot, CopyFails, GivenUp
<1>. HIDE DEF g, status, dir, worked
<1>a. g \in FileRun
  BY <1>0, PlaceNames DEF FileRun
<1>b. FieldsAre(g, status, f.step, f.wake, "no", dir, "none", FALSE, worked)
  BY <1>0 DEF FileRun, FieldsAre
<1>1. g \in FileRun /\ FieldsAre(g, status, f.step, f.wake, "no", dir, "none", FALSE, worked)
  BY <1>a, <1>b
<1>2. Held(f) => Held(g)
  BY <1>1 DEF Held, OnSlot, FieldsAre, FileRun, status, dir, worked
<1>3. Held(f) /\ SetsUp(f, c) => SetsUp(g, c)
  BY <1>1 DEF Held, SetsUp, FieldsAre, FileRun, OnSlot, status, dir
<1>. QED BY <1>1, <1>2, <1>3 DEF Kept, g

LEMMA ReleasedKept ==
ASSUME NEW f \in FileRun, NEW c \in BOOLEAN, f.leave = "exit"
PROVE  Kept(f, c, OffSlot(SaveEnds(f)), c, TRUE, TRUE)
<1>. DEFINE g == OffSlot(SaveEnds(f))
<1>. DEFINE h == SaveEnds(f)
<1>0. h \in FileRun /\ FieldsAre(h, f.status, f.step, f.wake, f.leave, EndDir(f), f.mount,
        f.handle, f.worked)
  <2>1. f = [f EXCEPT !.status = f.status]
    BY DEF FileRun
  <2>. QED BY <2>1, SaveRecord
<1>. HIDE DEF h
<1>g. [h EXCEPT !.leave = "no", !.mount = "none", !.handle = FALSE, !.status = IF @ = "RUNNING" THEN "ERROR" ELSE @] = g
  BY DEF h, OffSlot
<1>. HIDE DEF g
<1>s. PICK status \in {f.status, "ERROR"} : status = (IF f.status = "RUNNING" THEN "ERROR" ELSE f.status)
  OBVIOUS
<1>h. g = [h EXCEPT !.leave = "no", !.mount = "none", !.handle = FALSE, !.status = status]
  BY <1>0, <1>g, <1>s DEF FieldsAre
<1>a. g \in FileRun
  BY <1>0, <1>h, PlaceNames DEF FileRun
<1>b. FieldsAre(g, (IF f.status = "RUNNING" THEN "ERROR" ELSE f.status), f.step, f.wake, "no",
          EndDir(f), "none", FALSE, f.worked)
  BY <1>0, <1>g DEF FileRun, FieldsAre
<1>1. g \in FileRun /\ FieldsAre(g, (IF f.status = "RUNNING" THEN "ERROR" ELSE f.status), f.step,
          f.wake, "no", EndDir(f), "none", FALSE, f.worked)
  BY <1>a, <1>b
<1>. HIDE DEF g
<1>2. Held(f) => Held(g)
  BY <1>1 DEF Held, OnSlot, FieldsAre, FileRun, EndDir
<1>3. Held(f) /\ SetsUp(f, c) => SetsUp(g, c)
  BY <1>1 DEF Held, SetsUp, FieldsAre, FileRun, OnSlot
<1>. QED BY <1>1, <1>2, <1>3 DEF Kept, g

LEMMA AskedKept ==
ASSUME NEW f \in FileRun, NEW c \in BOOLEAN, f.status # "new"
PROVE  Kept(f, c, [f EXCEPT !.waits = TRUE, !.wake = IF ~f.handle /\ @ = "off" THEN "check"
              ELSE @], c, TRUE, (f.step = "off"))
<1>. DEFINE g == [f EXCEPT !.waits = TRUE, !.wake = IF ~f.handle /\ @ = "off" THEN "check"
                 ELSE @]
<1>a. g \in FileRun
  BY PlaceNames DEF FileRun
<1>b. FieldsAre(g, f.status, f.step, (IF ~f.handle /\ f.wake = "off" THEN "check" ELSE f.wake),
          f.leave, f.dir, f.mount, f.handle, f.worked)
  BY DEF FileRun, FieldsAre
<1>1. g \in FileRun /\ FieldsAre(g, f.status, f.step, (IF ~f.handle /\ f.wake = "off" THEN "check"
          ELSE f.wake), f.leave, f.dir, f.mount, f.handle, f.worked)
  BY <1>a, <1>b
<1>. HIDE DEF g
<1>2. Held(f) => Held(g)
  BY <1>1 DEF Held, OnSlot, FieldsAre, FileRun
<1>3. Held(f) /\ SetsUp(f, c) /\ (f.step = "off") => SetsUp(g, c)
  BY <1>1 DEF Held, SetsUp, FieldsAre, FileRun, OnSlot
<1>. QED BY <1>1, <1>2, <1>3 DEF Kept, g

LEMMA BoundKept ==
ASSUME NEW f \in FileRun, NEW c \in BOOLEAN, f.wake = "check"
PROVE  Kept(f, c, [f EXCEPT !.wake = "bound"], c, TRUE, TRUE)
<1>. DEFINE g == [f EXCEPT !.wake = "bound"]
<1>a. g \in FileRun
  BY PlaceNames DEF FileRun
<1>b. FieldsAre(g, f.status, f.step, "bound", f.leave, f.dir, f.mount, f.handle, f.worked)
  BY DEF FileRun, FieldsAre
<1>1. g \in FileRun /\ FieldsAre(g, f.status, f.step, "bound", f.leave, f.dir, f.mount, f.handle,
          f.worked)
  BY <1>a, <1>b
<1>. HIDE DEF g
<1>2. Held(f) => Held(g)
  BY <1>1 DEF Held, OnSlot, FieldsAre, FileRun
<1>3. Held(f) /\ SetsUp(f, c) => SetsUp(g, c)
  BY <1>1 DEF Held, SetsUp, FieldsAre, FileRun, OnSlot
<1>. QED BY <1>1, <1>2, <1>3 DEF Kept, g

LEMMA RecloneKept ==
ASSUME NEW f \in FileRun, NEW c \in BOOLEAN, f.wake = "check", f.dir \in {"none", "bare",
         "filling"}
PROVE  Kept(f, c, [f EXCEPT !.wake = "reclone", !.dir = "filling", !.status = IF @ \in
              {"IDLE", "ERROR"} THEN "PROVISIONING" ELSE @], c, (f.leave = "no" /\ f.step =
              "off"), TRUE)
<1>. DEFINE g == [f EXCEPT !.wake = "reclone", !.dir = "filling", !.status = IF @ \in {"IDLE",
                 "ERROR"} THEN "PROVISIONING" ELSE @]
<1>s. PICK status \in {f.status, "PROVISIONING"} : status = (IF f.status \in {"IDLE", "ERROR"} THEN "PROVISIONING" ELSE f.status)
  OBVIOUS
<1>h. g = [f EXCEPT !.wake = "reclone", !.dir = "filling", !.status = status]
  BY <1>s
<1>a. g \in FileRun
  <2>. HIDE DEF g
  <2>. QED BY <1>h, PlaceNames DEF FileRun
<1>b. FieldsAre(g, (IF f.status \in {"IDLE", "ERROR"} THEN "PROVISIONING" ELSE f.status), f.step,
          "reclone", f.leave, "filling", f.mount, f.handle, f.worked)
  BY DEF FileRun, FieldsAre
<1>1. g \in FileRun /\ FieldsAre(g, (IF f.status \in {"IDLE", "ERROR"} THEN "PROVISIONING" ELSE
          f.status), f.step, "reclone", f.leave, "filling", f.mount, f.handle, f.worked)
  BY <1>a, <1>b
<1>. HIDE DEF g
<1>2. Held(f) /\ (f.leave = "no" /\ f.step = "off") => Held(g)
  BY <1>1 DEF Held, OnSlot, FieldsAre, FileRun
<1>3. Held(f) /\ SetsUp(f, c) /\ (f.leave = "no" /\ f.step = "off") => SetsUp(g, c)
  BY <1>1 DEF Held, SetsUp, FieldsAre, FileRun, OnSlot
<1>. QED BY <1>1, <1>2, <1>3 DEF Kept, g

LEMMA ReclonedKept ==
ASSUME NEW f \in FileRun, NEW c \in BOOLEAN, f.wake = "reclone"
PROVE  Kept(f, c, [f EXCEPT !.wake = "bound", !.dir = "whole", !.meta = "present"], c, TRUE,
              TRUE)
<1>. DEFINE g == [f EXCEPT !.wake = "bound", !.dir = "whole", !.meta = "present"]
<1>a. g \in FileRun
  BY PlaceNames DEF FileRun
<1>b. FieldsAre(g, f.status, f.step, "bound", f.leave, "whole", f.mount, f.handle, f.worked)
  BY DEF FileRun, FieldsAre
<1>1. g \in FileRun /\ FieldsAre(g, f.status, f.step, "bound", f.leave, "whole", f.mount,
          f.handle, f.worked)
  BY <1>a, <1>b
<1>. HIDE DEF g
<1>2. Held(f) => Held(g)
  BY <1>1 DEF Held, OnSlot, FieldsAre, FileRun
<1>3. Held(f) /\ SetsUp(f, c) => SetsUp(g, c)
  BY <1>1 DEF Held, SetsUp, FieldsAre, FileRun, OnSlot
<1>. QED BY <1>1, <1>2, <1>3 DEF Kept, g

LEMMA BrokenKept ==
ASSUME NEW f \in FileRun, NEW c \in BOOLEAN, f.wake = "reclone", NEW left \in {"none", "part"}
PROVE  Kept(f, c, [SetupFailed(f) EXCEPT !.step = f.step, !.wake = "off", !.dir = left], c,
              TRUE, TRUE)
<1>. DEFINE g == [SetupFailed(f) EXCEPT !.step = f.step, !.wake = "off", !.dir = left]
<1>a. g \in FileRun
  BY PlaceNames DEF FileRun, SetupFailed
<1>b. FieldsAre(g, "ERROR", f.step, "off", f.leave, left, f.mount, f.handle, f.worked)
  BY DEF FileRun, FieldsAre, SetupFailed
<1>1. g \in FileRun /\ FieldsAre(g, "ERROR", f.step, "off", f.leave, left, f.mount, f.handle,
          f.worked)
  BY <1>a, <1>b
<1>. HIDE DEF g
<1>2. Held(f) => Held(g)
  BY <1>1 DEF Held, OnSlot, FieldsAre, FileRun
<1>3. Held(f) /\ SetsUp(f, c) => SetsUp(g, c)
  BY <1>1 DEF Held, SetsUp, FieldsAre, FileRun, OnSlot
<1>. QED BY <1>1, <1>2, <1>3 DEF Kept, g

LEMMA NoSlotKept ==
ASSUME NEW f \in FileRun, NEW c \in BOOLEAN, f.wake = "bound"
PROVE  Kept(f, c, [f EXCEPT !.wake = "off", !.status = "IDLE"], c, TRUE, TRUE)
<1>. DEFINE g == [f EXCEPT !.wake = "off", !.status = "IDLE"]
<1>a. g \in FileRun
  BY PlaceNames DEF FileRun
<1>b. FieldsAre(g, "IDLE", f.step, "off", f.leave, f.dir, f.mount, f.handle, f.worked)
  BY DEF FileRun, FieldsAre
<1>1. g \in FileRun /\ FieldsAre(g, "IDLE", f.step, "off", f.leave, f.dir, f.mount, f.handle,
          f.worked)
  BY <1>a, <1>b
<1>. HIDE DEF g
<1>2. Held(f) => Held(g)
  BY <1>1 DEF Held, OnSlot, FieldsAre, FileRun
<1>3. Held(f) /\ SetsUp(f, c) => SetsUp(g, c)
  BY <1>1 DEF Held, SetsUp, FieldsAre, FileRun, OnSlot
<1>. QED BY <1>1, <1>2, <1>3 DEF Kept, g

-----------------------------------------------------------------------------
(* The warm pool. *)

LEMMA OfferNat ==
  ASSUME NEW I, IsFiniteSet(I), NEW dirs, NEW b
  PROVE  IsFiniteSet(Usable(I, dirs, b)) /\ Offer(I, dirs, b) \in Nat
<1>1. Usable(I, dirs, b) \subseteq I
  BY DEF Usable
<1>2. IsFiniteSet(Usable(I, dirs, b))
  BY <1>1, FS_Subset
<1>. QED BY <1>2, FS_CardinalityType DEF Offer

LEMMA OfferLess ==
  ASSUME NEW I, IsFiniteSet(I), NEW dirs, NEW J, NEW others, NEW b,
         Usable(J, others, b) \subseteq Usable(I, dirs, b)
  PROVE  Offer(J, others, b) \in Nat /\ Offer(J, others, b) <= Offer(I, dirs, b)
<1>1. IsFiniteSet(Usable(I, dirs, b))
  BY OfferNat
<1>2. IsFiniteSet(Usable(J, others, b))
  BY <1>1, FS_Subset
<1>. QED BY <1>1, <1>2, FS_Subset, FS_CardinalityType DEF Offer

LEMMA OfferMore ==
  ASSUME NEW I, IsFiniteSet(I), NEW dirs, NEW J, NEW others, NEW b, NEW e,
         Usable(J, others, b) \subseteq Usable(I, dirs, b) \cup {e}
  PROVE  Offer(J, others, b) \in Nat /\ Offer(J, others, b) <= Offer(I, dirs, b) + 1
<1>. DEFINE U == Usable(I, dirs, b)
            V == Usable(J, others, b)
<1>1. IsFiniteSet(U)
  BY OfferNat
<1>2. IsFiniteSet(U \cup {e}) /\ Cardinality(U \cup {e}) \in Nat /\ Cardinality(U \cup {e}) <= Cardinality(U) + 1
      /\ Cardinality(U) \in Nat
  <2>1. IsFiniteSet(U \cup {e}) /\ Cardinality(U) \in Nat
        /\ Cardinality(U \cup {e}) = IF e \in U THEN Cardinality(U) ELSE Cardinality(U) + 1
    <3>. HIDE DEF U
    <3>. QED BY <1>1, FS_AddElement, FS_CardinalityType
  <2>. HIDE DEF U
  <2>. QED BY <2>1
<1>3. IsFiniteSet(V) /\ Cardinality(V) \in Nat /\ Cardinality(V) <= Cardinality(U \cup {e})
  <2>1. V \subseteq U \cup {e}
    OBVIOUS
  <2>. HIDE DEF U, V
  <2>. QED BY <1>2, <2>1, FS_Subset, FS_CardinalityType
<1>4. Cardinality(V) <= Cardinality(U) + 1
  <2>. HIDE DEF U, V
  <2>. QED BY <1>2, <1>3
<1>. QED BY <1>3, <1>4 DEF Offer

\* A refill that begins takes a new name and counts what there is.
LEMMA RefillingHeld ==
  ASSUME NEW p, NEW done, PoolHeld(p, done), NEW b \in done, done \subseteq Jobs
  PROVE  PoolHeld(Refilling(p, b), done) /\ (WholeCopies(p) => WholeCopies(Refilling(p, b)))
<1>. DEFINE new == Started(p, b)
            q == Refilling(p, b)
<1>1. /\ DOMAIN p = {"index", "copies", "refills"} /\ p.copies \in [Copies -> Places]
      /\ \A I \in Indexes(p) : I \subseteq Entry /\ IsFiniteSet(I)
      /\ p.index \in Indexes(p) /\ \A t \in p.refills : t.index \in Indexes(p)
  BY DEF PoolHeld, PoolTyped, Indexes
<1>2. /\ DOMAIN q = DOMAIN p /\ q.index = p.index /\ q.refills = p.refills \cup new
      /\ q.copies = [c \in Copies |-> IF \E t \in new : t.copy = c THEN "filling" ELSE p.copies[c]]
  BY <1>1 DEF Refilling, Begun
<1>3. CASE new = {}
  <2>1. q.copies = p.copies /\ q.refills = p.refills
    BY <1>1, <1>2, <1>3
  <2>2. DOMAIN q = DOMAIN p /\ q.index = p.index
    BY <1>2
  <2>. HIDE DEF q
  <2>3. Indexes(q) = Indexes(p)
    BY <2>1, <2>2 DEF Indexes
  <2>4. PoolTyped(q)
    BY <2>1, <2>2, <2>3 DEF PoolHeld, PoolTyped
  <2>5. NewNames(q)
    BY <2>1, <2>2, <2>3 DEF PoolHeld, NewNames
  <2>6. InPool(q)
    BY <2>1, <2>2, <2>3 DEF PoolHeld, InPool
  <2>7. WholeCopies(p) => WholeCopies(q)
    BY <2>1, <2>2, <2>3 DEF WholeCopies
  <2>. QED BY <2>1, <2>4, <2>5, <2>6, <2>7 DEF PoolHeld, q
<1>4. CASE new # {}
  <2>. DEFINE short == PoolSize - Offer(p.index, p.copies, b)
              c == NewCopy(p)
              t0 == [build |-> b, index |-> p.index, short |-> short, copy |-> c]
  <2>1. new = {t0} /\ ~(short <= 0) /\ Unused(p) # {}
    BY <1>4 DEF Started, Offer
  <2>2. c \in Unused(p)
    BY <2>1 DEF NewCopy
  <2>3. /\ c \in Copies /\ \A e \in p.index : e.copy # c
        /\ \A t \in p.refills : t.copy # c /\ \A e \in t.index : e.copy # c
    BY <2>2 DEF Unused
  <2>4. short \in Nat \ {0} /\ Offer(p.index, p.copies, b) \in Nat
        /\ Offer(p.index, p.copies, b) + short = PoolSize
    <3>1. Offer(p.index, p.copies, b) \in Nat
      BY <1>1, OfferNat
    <3>2. PoolSize \in Nat
      BY FileNumbers
    <3>. QED BY <2>1, <3>1, <3>2
  <2>5. /\ q.refills = p.refills \cup {t0} /\ Indexes(q) = Indexes(p)
        /\ t0.copy = c /\ t0.index = p.index /\ t0.build = b /\ t0.short = short
    BY <1>2, <2>1 DEF Indexes
  <2>6. q.copies \in [Copies -> Places] /\ \A x \in Copies : x # c => q.copies[x] = p.copies[x]
    BY <1>1, <1>2, <2>1, <2>5, PlaceNames
  <2>. HIDE DEF q, c, t0, short
  <2>7. \A I \in Indexes(p) : \A e \in I : e.copy # c
    BY <2>3 DEF Indexes
  <2>8. \A I \in Indexes(p) : \A x : Usable(I, q.copies, x) = Usable(I, p.copies, x)
    <3>1. \A I \in Indexes(p) : \A e \in I : e.copy \in Copies
      BY <1>1 DEF Entry
    <3>. QED BY <2>6, <2>7, <3>1 DEF Usable
  <2>9. PoolTyped(q)
    <3>1. DOMAIN t0 = {"build", "index", "short", "copy"}
      BY DEF t0
    <3>2. b \in Jobs
      OBVIOUS
    <3>. QED BY <1>1, <1>2, <2>3, <2>4, <2>5, <2>6, <3>1, <3>2 DEF PoolTyped, PoolHeld
  <2>10. NewNames(q)
    BY <2>3, <2>5, <2>7 DEF NewNames, PoolHeld
  <2>11. InPool(q)
    <3>1. \A I \in Indexes(q) : \A x \in Jobs : Offer(I, q.copies, x) <= PoolSize
      BY <2>5, <2>8 DEF Offer, InPool, PoolHeld
    <3>2. ASSUME NEW t \in q.refills PROVE Offer(t.index, q.copies, t.build) + t.short <= PoolSize
      <4>1. CASE t = t0
        <5>1. Offer(t.index, q.copies, t.build) = Offer(p.index, p.copies, b)
          BY <1>1, <2>5, <2>8, <4>1 DEF Offer
        <5>2. PoolSize \in Nat
          BY FileNumbers
        <5>. QED BY <2>4, <2>5, <4>1, <5>1, <5>2
      <4>2. CASE t \in p.refills
        BY <1>1, <2>8, <4>2 DEF Offer, InPool, PoolHeld
      <4>. QED BY <2>5, <4>1, <4>2
    <3>. QED BY <3>1, <3>2 DEF InPool
  <2>12. WholeCopies(p) => WholeCopies(q)
    <3>1. \A I \in Indexes(p) : \A e \in I : e.copy \in Copies
      BY <1>1 DEF Entry
    <3>. QED BY <2>5, <2>6, <2>7, <3>1 DEF WholeCopies
  <2>13. \A t \in q.refills : t.build \in done
    BY <2>5 DEF PoolHeld
  <2>. QED BY <2>9, <2>10, <2>11, <2>12, <2>13 DEF PoolHeld, q
<1>. QED BY <1>3, <1>4

\* Taking a copy, or breaking one off, leaves less to offer.
LEMMA LessHeld ==
  ASSUME NEW p, NEW done, PoolHeld(p, done), NEW q, NEW c \in Copies,
         DOMAIN q = DOMAIN p, q.copies = [p.copies EXCEPT ![c] = "none"],
         q.refills \subseteq p.refills, IsFiniteSet(q.index), q.index \subseteq Entry,
         \A e \in q.index : \E d \in p.index : d.copy = e.copy,
         \A e \in q.index : e.ready => e \in p.index
  PROVE  PoolHeld(q, done) /\ (WholeCopies(p) => WholeCopies(q))
<1>1. /\ DOMAIN p = {"index", "copies", "refills"} /\ p.copies \in [Copies -> Places]
      /\ \A I \in Indexes(p) : I \subseteq Entry /\ IsFiniteSet(I)
      /\ p.index \in Indexes(p) /\ \A t \in p.refills : t.index \in Indexes(p)
  BY DEF PoolHeld, PoolTyped, Indexes
<1>2. Indexes(q) \subseteq Indexes(p) \cup {q.index}
  BY DEF Indexes
<1>3. q.copies \in [Copies -> Places] /\ \A x \in Copies : q.copies[x] \in {"none", p.copies[x]}
  BY <1>1, PlaceNames
<1>4. ASSUME NEW I \in Indexes(p), NEW x PROVE Usable(I, q.copies, x) \subseteq Usable(I, p.copies, x)
  <2>1. \A e \in I : e.copy \in Copies
    BY <1>1 DEF Entry
  <2>. QED BY <1>3, <2>1 DEF Usable
<1>5. ASSUME NEW x PROVE Usable(q.index, q.copies, x) \subseteq Usable(p.index, p.copies, x)
  <2>1. \A e \in q.index : e.copy \in Copies
    BY DEF Entry
  <2>. QED BY <1>3, <2>1 DEF Usable
<1>6. PoolTyped(q)
  BY <1>1, <1>2, <1>3 DEF PoolTyped, PoolHeld
<1>7. NewNames(q)
  BY <1>1, <1>2 DEF NewNames, PoolHeld
<1>8. InPool(q)
  <2>0. PoolSize \in Nat
    BY FileNumbers
  <2>1. ASSUME NEW I \in Indexes(q), NEW x \in Jobs PROVE Offer(I, q.copies, x) <= PoolSize
    <3>1. PICK J \in Indexes(p) : Usable(I, q.copies, x) \subseteq Usable(J, p.copies, x)
      BY <1>1, <1>2, <1>4, <1>5
    <3>2. /\ Offer(I, q.copies, x) \in Nat /\ Offer(J, p.copies, x) \in Nat
          /\ Offer(I, q.copies, x) <= Offer(J, p.copies, x) /\ Offer(J, p.copies, x) <= PoolSize
      BY <1>1, <3>1, OfferLess, OfferNat DEF InPool, PoolHeld
    <3>. QED BY <2>0, <3>2
  <2>2. ASSUME NEW t \in q.refills PROVE Offer(t.index, q.copies, t.build) + t.short <= PoolSize
    <3>1. /\ Offer(t.index, q.copies, t.build) \in Nat /\ Offer(t.index, p.copies, t.build) \in Nat
          /\ Offer(t.index, q.copies, t.build) <= Offer(t.index, p.copies, t.build)
      BY <1>1, <1>4, OfferLess, OfferNat
    <3>2. t.short \in Nat /\ Offer(t.index, p.copies, t.build) + t.short <= PoolSize
      BY DEF InPool, PoolHeld, PoolTyped
    <3>. QED BY <2>0, <3>1, <3>2
  <2>. QED BY <2>1, <2>2 DEF InPool
<1>9. WholeCopies(p) => WholeCopies(q)
  <2>. SUFFICES ASSUME WholeCopies(p), NEW I \in Indexes(q), NEW e \in I PROVE q.copies[e.copy] \in {"none", "whole"}
    BY DEF WholeCopies
  <2>0. PICK J \in Indexes(p) : \E d \in J : d.copy = e.copy
    BY <1>1, <1>2
  <2>1. PICK d \in J : d.copy = e.copy
    BY <2>0
  <2>2. p.copies[d.copy] \in {"none", "whole"} /\ d.copy \in Copies
    BY <1>1 DEF WholeCopies, Entry
  <2>. QED BY <1>3, <2>1, <2>2
<1>10. \A t \in q.refills : t.build \in done
  BY DEF PoolHeld
<1>. QED BY <1>6, <1>7, <1>8, <1>9, <1>10 DEF PoolHeld

BrokenOff(p, t, q) ==
  /\ DOMAIN q = DOMAIN p /\ q.index = p.index /\ q.refills = p.refills \ {t}
  /\ q.copies = [p.copies EXCEPT ![t.copy] = "none"]
LEMMA RefillFailsHeld ==
  ASSUME NEW p, NEW done, PoolHeld(p, done), NEW t, t \in p.refills, NEW q, BrokenOff(p, t, q)
  PROVE  PoolHeld(q, done) /\ (WholeCopies(p) => WholeCopies(q))
<1>1. /\ DOMAIN p = {"index", "copies", "refills"} /\ p.copies \in [Copies -> Places] /\ t.copy \in Copies
      /\ p.index \subseteq Entry /\ IsFiniteSet(p.index)
  BY DEF PoolHeld, PoolTyped, Indexes
<1>. QED BY <1>1, LessHeld DEF BrokenOff

\* A copy that is claimed, its entry no longer ready.
Claimed(p, e, q) ==
  /\ DOMAIN q = DOMAIN p /\ q.index = (p.index \ {e}) \cup {[e EXCEPT !.ready = FALSE]}
  /\ q.copies = [p.copies EXCEPT ![e.copy] = "none"] /\ q.refills = p.refills
LEMMA ClaimHeld ==
  ASSUME NEW p, NEW done, PoolHeld(p, done), NEW e, e \in p.index, NEW q, Claimed(p, e, q)
  PROVE  PoolHeld(q, done) /\ (WholeCopies(p) => WholeCopies(q))
<1>1. /\ DOMAIN p = {"index", "copies", "refills"} /\ p.copies \in [Copies -> Places]
      /\ p.index \subseteq Entry /\ IsFiniteSet(p.index)
  BY DEF PoolHeld, PoolTyped, Indexes
<1>2. PICK n : n = [e EXCEPT !.ready = FALSE]
  OBVIOUS
<1>3. e \in Entry
  BY <1>1
<1>4. n \in Entry /\ n.copy = e.copy /\ ~n.ready /\ e.copy \in Copies
  BY <1>2, <1>3 DEF Entry
<1>5. /\ DOMAIN q = DOMAIN p /\ q.index = (p.index \ {e}) \cup {n} /\ q.refills = p.refills
      /\ q.copies = [p.copies EXCEPT ![e.copy] = "none"]
  BY <1>2 DEF Claimed
<1>6. IsFiniteSet(p.index \ {e})
  BY <1>1, FS_Subset
<1>7. IsFiniteSet(q.index)
  BY <1>5, <1>6, FS_AddElement
<1>8. q.index \subseteq Entry /\ \A x \in q.index : (\E d \in p.index : d.copy = x.copy) /\ (x.ready => x \in p.index)
  BY <1>1, <1>4, <1>5
<1>. QED BY <1>4, <1>5, <1>7, <1>8, LessHeld

\* The copy that was made is offered, and the one that follows is new.
CopyMade(p, t, place, extra, q) ==
  /\ DOMAIN q = {"index", "copies", "refills"} /\ q.copies \in [Copies -> Places]
  /\ q.copies[t.copy] = place /\ q.index \in {p.index, WithCopy(t)}
  /\ q.refills = (p.refills \ {t}) \cup extra
  /\ \A x \in Copies \ {t.copy} : q.copies[x] = p.copies[x] \/ \E u \in extra : u.copy = x
  /\ \A u \in extra : /\ DOMAIN u = {"build", "index", "short", "copy"} /\ u.build = t.build /\ u.index = WithCopy(t)
                      /\ u.short = t.short - 1 /\ t.short - 1 > 0 /\ u.copy \in Copies
  /\ \A u, v \in extra : u = v
  /\ \A u \in extra : \A s \in p.refills : s.copy # u.copy
  /\ \A u \in extra : \A I \in Indexes(p) : \A e \in I : e.copy # u.copy
LEMMA MadeHeld ==
  ASSUME NEW p, NEW done, PoolHeld(p, done), NEW t, t \in p.refills, NEW place, NEW extra, NEW q,
         CopyMade(p, t, place, extra, q)
  PROVE  PoolHeld(q, done) /\ (WholeCopies(p) /\ place = "whole" => WholeCopies(q))
<1>. DEFINE W == WithCopy(t)
            n == [copy |-> t.copy, build |-> t.build, ready |-> TRUE]
<1>. USE DEF CopyMade
<1>1. /\ DOMAIN p = {"index", "copies", "refills"} /\ p.copies \in [Copies -> Places]
      /\ \A I \in Indexes(p) : I \subseteq Entry /\ IsFiniteSet(I)
      /\ p.index \in Indexes(p) /\ \A u \in p.refills : u.index \in Indexes(p)
  BY DEF PoolHeld, PoolTyped, Indexes
<1>2. /\ t.build \in Jobs /\ t.copy \in Copies /\ t.short \in Nat \ {0} /\ PoolSize \in Nat /\ t.build \in done
      /\ \A u \in p.refills : u.build \in Jobs /\ u.copy \in Copies /\ u.short \in Nat \ {0} /\ u.build \in done
  BY FileNumbers DEF PoolHeld, PoolTyped
<1>3. /\ n \in Entry /\ n.copy = t.copy /\ n.build = t.build /\ n.ready
      /\ W = t.index \cup {n} /\ t.index \in Indexes(p)
  BY <1>1, <1>2 DEF Entry, WithCopy
<1>4. W \subseteq Entry /\ IsFiniteSet(W)
  <2>1. t.index \subseteq Entry /\ IsFiniteSet(t.index)
    BY <1>1, <1>3
  <2>2. IsFiniteSet(t.index \cup {n})
    <3>. HIDE DEF n
    <3>. QED BY <2>1, FS_AddElement
  <2>. QED BY <1>3, <2>1, <2>2
<1>5. \A I \in Indexes(p) : \A u \in p.refills : \A e \in I : e.copy # u.copy
  BY DEF NewNames, PoolHeld
<1>6. \A u, v \in p.refills : u.copy = v.copy => u = v
  BY DEF NewNames, PoolHeld
<1>7. \A u \in extra : /\ u.index = W /\ u.build = t.build /\ u.short = t.short - 1
                       /\ t.short - 1 \in Nat \ {0} /\ u.copy \in Copies
  BY <1>2
<1>. HIDE DEF n, W
<1>8. Indexes(q) \subseteq Indexes(p) \cup {W}
  BY <1>1, <1>7 DEF Indexes, W
<1>9. \A I \in Indexes(p) : \A e \in I : e.copy \in Copies /\ q.copies[e.copy] = p.copies[e.copy]
  <2>1. \A I \in Indexes(p) : \A e \in I : e.copy \in Copies
    BY <1>1 DEF Entry
  <2>. QED BY <1>5, <2>1
<1>10. \A I \in Indexes(p) : \A x : Usable(I, q.copies, x) = Usable(I, p.copies, x)
  BY <1>9 DEF Usable
<1>11. \A x : Usable(W, q.copies, x) \subseteq Usable(t.index, p.copies, x) \cup {n}
  BY <1>3, <1>9 DEF Usable
<1>12. \A x : x # t.build => Usable(W, q.copies, x) \subseteq Usable(t.index, p.copies, x)
  BY <1>3, <1>9 DEF Usable
<1>13. /\ \A I \in Indexes(p) : \A x \in Jobs : Offer(I, p.copies, x) <= PoolSize /\ Offer(I, p.copies, x) \in Nat
       /\ \A u \in p.refills : Offer(u.index, p.copies, u.build) + u.short <= PoolSize
  BY <1>1, OfferNat DEF InPool, PoolHeld
<1>14. Offer(W, q.copies, t.build) \in Nat /\ Offer(W, q.copies, t.build) <= Offer(t.index, p.copies, t.build) + 1
  <2>1. IsFiniteSet(t.index)
    BY <1>1, <1>3
  <2>2. Usable(W, q.copies, t.build) \subseteq Usable(t.index, p.copies, t.build) \cup {n}
    BY <1>11
  <2>. QED BY <2>1, <2>2, OfferMore
<1>15. Offer(t.index, p.copies, t.build) \in Nat
  BY <1>2, <1>3, <1>13
<1>16. \A x \in Jobs : Offer(W, q.copies, x) <= PoolSize
  <2>. TAKE x \in Jobs
  <2>1. CASE x = t.build
    BY <1>2, <1>13, <1>14, <1>15, <2>1
  <2>2. CASE x # t.build
    <3>1. Offer(W, q.copies, x) \in Nat /\ Offer(W, q.copies, x) <= Offer(t.index, p.copies, x)
      BY <1>1, <1>3, <1>12, <2>2, OfferLess
    <3>2. Offer(t.index, p.copies, x) \in Nat /\ Offer(t.index, p.copies, x) <= PoolSize
      BY <1>3, <1>13
    <3>. QED BY <1>2, <3>1, <3>2
  <2>. QED BY <2>1, <2>2
<1>17. PoolTyped(q)
  <2>1. \A I \in Indexes(q) : I \subseteq Entry /\ IsFiniteSet(I)
    BY <1>1, <1>4, <1>8
  <2>2. \A u \in q.refills : DOMAIN u = {"build", "index", "short", "copy"}
                             /\ u.build \in Jobs /\ u.copy \in Copies /\ u.short \in Nat \ {0}
    <3>1. \A u \in p.refills : DOMAIN u = {"build", "index", "short", "copy"}
      BY DEF PoolTyped, PoolHeld
    <3>. QED BY <1>2, <1>7, <3>1
  <2>. QED BY <2>1, <2>2 DEF PoolTyped
<1>18. NewNames(q)
  <2>1. \A u \in p.refills \ {t} : \A e \in W : e.copy # u.copy
    BY <1>3, <1>5, <1>6
  <2>2. \A u \in extra : \A e \in W : e.copy # u.copy
    BY <1>3
  <2>3. \A I \in Indexes(q) : \A e \in I : \A u \in q.refills : e.copy # u.copy
    BY <1>5, <1>8, <2>1, <2>2
  <2>4. \A u, v \in q.refills : u.copy = v.copy => u = v
    BY <1>6
  <2>. QED BY <2>3, <2>4 DEF NewNames
<1>19. InPool(q)
  <2>1. \A I \in Indexes(q) : \A x \in Jobs : Offer(I, q.copies, x) <= PoolSize
    BY <1>8, <1>10, <1>13, <1>16 DEF Offer
  <2>2. ASSUME NEW u \in p.refills \ {t} PROVE Offer(u.index, q.copies, u.build) + u.short <= PoolSize
    BY <1>1, <1>10, <1>13 DEF Offer
  <2>3. ASSUME NEW u \in extra PROVE Offer(u.index, q.copies, u.build) + u.short <= PoolSize
    <3>1. Offer(t.index, p.copies, t.build) + t.short <= PoolSize
      BY <1>13
    <3>. QED BY <1>2, <1>7, <1>14, <1>15, <3>1
  <2>. QED BY <2>1, <2>2, <2>3 DEF InPool
<1>20. WholeCopies(p) /\ place = "whole" => WholeCopies(q)
  BY <1>3, <1>8, <1>9 DEF WholeCopies
<1>21. \A u \in q.refills : u.build \in done
  BY <1>2, <1>7
<1>. QED BY <1>17, <1>18, <1>19, <1>20, <1>21 DEF PoolHeld

-----------------------------------------------------------------------------------------
(* Steps. *)

LEMMA Same ==
  ASSUME NEW f \in FileRun, NEW c, NEW calm, NEW quiet
  PROVE  Kept(f, c, f, c, calm, quiet)
BY DEF Kept

LEMMA FilesStep ==
  ASSUME FInv, NEW calm, NEW quiet, files' = [r \in Jobs |-> files'[r]],
         \A r \in Jobs : Kept(files[r], r \in builds.done, files'[r], r \in builds'.done, calm, quiet),
         BuildsTyped(builds'), FateTyped', PoolHeld(pool', builds'.done),
         fate.clash => fate'.clash, fate.early => fate'.early, fate'.clash \/ calm, fate'.early \/ quiet,
         /\ \A r \in Jobs : Held(files[r]) /\ SetsUp(files[r], r \in builds.done)
         /\ WholeCopies(pool) /\ \A b \in builds.done : builds.snapshot[b] = "whole"
         => WholeCopies(pool') /\ \A b \in builds'.done : builds'.snapshot[b] = "whole"
  PROVE  FInv'
<1>1. files' \in [Jobs -> FileRun]
  <2>1. \A r \in Jobs : files'[r] \in FileRun
    BY DEF Kept
  <2>. QED BY <2>1
<1>2. fate'.clash \/ \A r \in Jobs : Held(files'[r])
  <2>. SUFFICES ASSUME ~fate'.clash, NEW r \in Jobs PROVE Held(files'[r])
    OBVIOUS
  <2>1. Held(files[r]) /\ calm
    BY DEF FInv
  <2>. QED BY <2>1 DEF Kept
<1>3. fate'.clash \/ fate'.early \/
        /\ \A r \in Jobs : SetsUp(files'[r], r \in builds'.done)
        /\ WholeCopies(pool') /\ \A b \in builds'.done : builds'.snapshot[b] = "whole"
  <2>. SUFFICES ASSUME ~fate'.clash, ~fate'.early
                PROVE  /\ \A r \in Jobs : SetsUp(files'[r], r \in builds'.done)
                       /\ WholeCopies(pool') /\ \A b \in builds'.done : builds'.snapshot[b] = "whole"
    OBVIOUS
  <2>1. /\ \A r \in Jobs : Held(files[r]) /\ SetsUp(files[r], r \in builds.done)
        /\ WholeCopies(pool) /\ \A b \in builds.done : builds.snapshot[b] = "whole"
        /\ calm /\ quiet
    BY DEF FInv
  <2>2. \A r \in Jobs : SetsUp(files'[r], r \in builds'.done)
    BY <2>1 DEF Kept
  <2>. QED BY <2>1, <2>2
<1>. QED BY <1>1, <1>2, <1>3 DEF FInv

LEMMA OneRun ==
  ASSUME FInv, NEW r \in Jobs, NEW g, NEW calm, NEW quiet, files' = [files EXCEPT ![r] = g],
         Kept(files[r], r \in builds.done, g, r \in builds.done, calm, quiet),
         UNCHANGED <<builds, pool>>, FateTyped',
         fate.clash => fate'.clash, fate.early => fate'.early, fate'.clash \/ calm, fate'.early \/ quiet
  PROVE  FInv'
<1>1. files \in [Jobs -> FileRun] /\ files' = [q \in Jobs |-> files'[q]]
  BY DEF FInv
<1>2. \A q \in Jobs : Kept(files[q], q \in builds.done, files'[q], q \in builds'.done, calm, quiet)
  <2>. TAKE q \in Jobs
  <2>1. CASE q = r
    BY <1>1, <2>1
  <2>2. CASE q # r
    <3>1. files'[q] = files[q] /\ files[q] \in FileRun /\ builds' = builds
      BY <1>1, <2>2
    <3>. QED BY <3>1, Same
  <2>. QED BY <2>1, <2>2
<1>3. BuildsTyped(builds') /\ PoolHeld(pool', builds'.done)
  BY DEF FInv
<1>. QED BY <1>1, <1>2, <1>3, FilesStep

LEMMA RunAndPool ==
  ASSUME FInv, NEW r \in Jobs, NEW g, files' = [files EXCEPT ![r] = g], UNCHANGED <<builds, fate>>,
         Kept(files[r], r \in builds.done, files'[r], r \in builds.done, TRUE, TRUE),
         PoolHeld(pool', builds.done), WholeCopies(pool) => WholeCopies(pool')
  PROVE  FInv'
<1>1. files \in [Jobs -> FileRun] /\ files' = [q \in Jobs |-> files'[q]] /\ FateTyped'
  BY DEF FInv, FateTyped
<1>2. \A q \in Jobs : Kept(files[q], q \in builds.done, files'[q], q \in builds'.done, TRUE, TRUE)
  <2>. TAKE q \in Jobs
  <2>1. CASE q = r
    BY <2>1
  <2>2. CASE q # r
    <3>1. files'[q] = files[q] /\ files[q] \in FileRun /\ builds' = builds
      BY <1>1, <2>2
    <3>. QED BY <3>1, Same
  <2>. QED BY <2>1, <2>2
<1>3. BuildsTyped(builds') /\ PoolHeld(pool', builds'.done)
  BY DEF FInv
<1>. QED BY <1>1, <1>2, <1>3, FilesStep

LEMMA OnlyPool ==
  ASSUME FInv, UNCHANGED <<files, builds, fate>>, PoolHeld(pool', builds.done),
         WholeCopies(pool) /\ (\A b \in builds.done : builds.snapshot[b] = "whole") => WholeCopies(pool')
  PROVE  FInv'
<1>1. files \in [Jobs -> FileRun] /\ files' = [q \in Jobs |-> files'[q]] /\ FateTyped'
  BY DEF FInv, FateTyped
<1>2. \A q \in Jobs : Kept(files[q], q \in builds.done, files'[q], q \in builds'.done, TRUE, TRUE)
  <2>. TAKE q \in Jobs
  <2>1. files'[q] = files[q] /\ files[q] \in FileRun /\ builds' = builds
    BY <1>1
  <2>. QED BY <2>1, Same
<1>3. BuildsTyped(builds') /\ PoolHeld(pool', builds'.done)
  BY DEF FInv
<1>. QED BY <1>1, <1>2, <1>3, FilesStep

LEMMA OnlyRun ==
  ASSUME FInv, NEW r \in Jobs, NEW g, files' = [files EXCEPT ![r] = g],
         Kept(files[r], r \in builds.done, g, r \in builds.done, TRUE, TRUE), UNCHANGED <<builds, pool, fate>>
  PROVE  FInv'
<1>1. FateTyped'
  BY DEF FInv, FateTyped
<1>. QED BY <1>1, OneRun

MovesOn(f, g, r, done) == Kept(f, r \in done, g, r \in done, TRUE, TRUE)
LEMMA EvictedAll ==
  ASSUME NEW w, w \in [Jobs -> FileRun], NEW except, NEW gone, gone \in Evictions(w, except), NEW done,
         NEW r \in Jobs
  PROVE  /\ r \notin gone => Evicted(w, gone)[r] = w[r]
         /\ r \in gone => r \notin except /\ MovesOn(w[r], Evicted(w, gone)[r], r, done)
<1>1. gone \subseteq Candidates(w, except)
  BY DEF Evictions
<1>2. r \in gone => r \notin except /\ Unprotected(w[r])
  BY <1>1 DEF Candidates
<1>3. Evicted(w, gone)[r] = IF r \in gone
        THEN [w[r] EXCEPT !.dir = "bare", !.meta = "evicted", !.worked = IF w[r].mount = "none" THEN "no" ELSE w[r].worked]
        ELSE w[r]
  BY DEF Evicted
<1>0. (r \in done) \in BOOLEAN
  OBVIOUS
<1>4. r \in gone => Kept(w[r], r \in done, Evicted(w, gone)[r], r \in done, TRUE, TRUE)
  BY <1>0, <1>2, <1>3, EvictedKept
<1>. QED BY <1>2, <1>3, <1>4 DEF Evicted, MovesOn

\* A step of one run, and what the eviction takes after it.
LEMMA RunAndRoom ==
  ASSUME FInv, NEW r \in Jobs, NEW g, NEW quiet, NEW w, w = [files EXCEPT ![r] = g], NEW except,
         Kept(files[r], r \in builds.done, g, r \in builds.done, TRUE, quiet),
         \E gone \in Evictions(w, except) : files' = Evicted(w, gone), r \in except \/ g = files[r],
         UNCHANGED <<builds, pool>>, FateTyped',
         fate.clash => fate'.clash, fate.early => fate'.early, fate'.early \/ quiet
  PROVE  FInv'
<1>1. files \in [Jobs -> FileRun] /\ g \in FileRun
  BY DEF FInv, Kept
<1>2. w \in [Jobs -> FileRun] /\ w[r] = g /\ \A q \in Jobs \ {r} : w[q] = files[q]
  BY <1>1
<1>3. PICK gone \in Evictions(w, except) : files' = Evicted(w, gone)
  OBVIOUS
<1>4. files' = [q \in Jobs |-> files'[q]]
  BY <1>3 DEF Evicted
<1>5. \A q \in Jobs : Kept(files[q], q \in builds.done, files'[q], q \in builds'.done, TRUE, quiet)
  <2>. TAKE q \in Jobs
  <2>1. builds' = builds
    OBVIOUS
  <2>2. /\ q \notin gone => files'[q] = w[q]
        /\ q \in gone => q \notin except /\ Kept(w[q], q \in builds.done, files'[q], q \in builds.done, TRUE, TRUE)
    <3>1. w \in [Jobs -> FileRun] /\ gone \in Evictions(w, except)
      BY <1>2, <1>3
    <3>2. /\ q \notin gone => Evicted(w, gone)[q] = w[q]
          /\ q \in gone => q \notin except
                            /\ MovesOn(w[q], Evicted(w, gone)[q], q, builds.done)
      BY ONLY <3>1, q \in Jobs, EvictedAll
    <3>. QED BY <1>3, <3>2 DEF MovesOn
  <2>3. CASE q \in gone
    <3>1. w[q] = files[q]
      BY <1>1, <1>2, <2>2, <2>3
    <3>. QED BY <2>1, <2>2, <2>3, <3>1 DEF Kept
  <2>4. CASE q \notin gone
    <3>1. CASE q = r
      BY <1>2, <2>1, <2>2, <2>4, <3>1
    <3>2. CASE q # r
      <4>1. files'[q] = files[q] /\ files[q] \in FileRun
        BY <1>1, <1>2, <2>2, <2>4, <3>2
      <4>. QED BY <2>1, <4>1, Same
    <3>. QED BY <3>1, <3>2
  <2>. QED BY <2>3, <2>4
<1>6. BuildsTyped(builds') /\ PoolHeld(pool', builds'.done)
  BY DEF FInv
<1>. QED BY <1>4, <1>5, <1>6, FilesStep

LEMMA FInit == FilesInit => FInv
<1>. SUFFICES ASSUME FilesInit PROVE FInv
  OBVIOUS
<1>1. /\ files \in [Jobs -> FileRun]
      /\ \A r \in Jobs : /\ files[r].status = "new" /\ files[r].step = "off" /\ files[r].wake = "off"
                         /\ files[r].leave = "no" /\ files[r].mount = "none" /\ ~files[r].handle /\ files[r].worked = "no"
  BY PlaceNames DEF FilesInit, FileRun
<1>2. /\ builds.begun = <<>> /\ builds.done = {} /\ DOMAIN builds = {"begun", "done", "snapshot"}
      /\ builds.snapshot = [r \in Jobs |-> "none"]
      /\ pool.index = {} /\ pool.refills = {} /\ DOMAIN pool = {"index", "copies", "refills"}
      /\ pool.copies = [c \in Copies |-> "none"]
  BY DEF FilesInit
<1>3. BuildsTyped(builds) /\ FateTyped
  BY <1>2, PlaceNames DEF BuildsTyped, FateTyped, FilesInit
<1>4. \A r \in Jobs : Held(files[r]) /\ SetsUp(files[r], r \in builds.done)
  BY <1>1, <1>2 DEF Held, SetsUp, OnSlot
<1>5. Indexes(pool) = {{}}
  BY <1>2 DEF Indexes
<1>6. PoolTyped(pool)
  BY <1>2, <1>5, PlaceNames, FS_EmptySet DEF PoolTyped
<1>7. \A b : Offer({}, pool.copies, b) = 0
  <2>1. \A b : Usable({}, pool.copies, b) = {}
    BY DEF Usable
  <2>. QED BY <2>1, FS_EmptySet DEF Offer
<1>8. InPool(pool)
  BY <1>2, <1>5, <1>7, FileNumbers DEF InPool
<1>9. NewNames(pool) /\ WholeCopies(pool)
  BY <1>2, <1>5 DEF NewNames, WholeCopies
<1>. QED BY <1>1, <1>2, <1>3, <1>4, <1>6, <1>8, <1>9 DEF FInv, PoolHeld

-----------------------------------------------------------------------------------------
(* The actions. *)

LEMMA FailedHere ==
  ASSUME NEW f \in FileRun, NEW c \in BOOLEAN, f.step \notin {"off", "mount"}
  PROVE  Kept(f, c, SetupFailed(f), c, TRUE, TRUE)
<1>1. f.dir \in Places /\ f = [f EXCEPT !.dir = f.dir]
  BY DEF FileRun
<1>. QED BY <1>1, FailedKept

LEMMA Record ==
  ASSUME FInv, NEW r \in Jobs
  PROVE  files \in [Jobs -> FileRun] /\ files[r] \in FileRun /\ (r \in builds.done) \in BOOLEAN
BY DEF FInv

LEMMA ActiveDone == ASSUME NEW bs, BuildsTyped(bs) PROVE \A b \in Active(bs) : b \in bs.done /\ b \in Jobs
BY DEF Active, BuildsTyped

LEMMA CreateSteps == ASSUME FInv, NEW r \in Jobs, CreateRun(r) PROVE FInv'
<1>1. /\ files \in [Jobs -> FileRun] /\ files[r] \in FileRun /\ (r \in builds.done) \in BOOLEAN
      /\ files[r].status = "new" /\ UNCHANGED <<builds, fate>> /\ FateTyped'
  BY Record DEF CreateRun, FInv, FateTyped
<1>2. ASSUME NEW step \in {"clone", "restore", "branch"}, NEW dir \in Places
      PROVE  Kept(files[r], r \in builds.done,
                  [[files[r] EXCEPT !.status = "PROVISIONING", !.waits = TRUE] EXCEPT !.step = step, !.dir = dir],
                  r \in builds.done, TRUE, TRUE)
  <2>1. [[files[r] EXCEPT !.status = "PROVISIONING", !.waits = TRUE] EXCEPT !.step = step, !.dir = dir]
        = [files[r] EXCEPT !.status = "PROVISIONING", !.waits = TRUE, !.step = step, !.dir = dir]
    OBVIOUS
  <2>. QED BY <1>1, <2>1, CreateKept
<1>3. ASSUME NEW step \in {"clone", "restore"}, UNCHANGED pool,
             files' = [files EXCEPT ![r] =
               [[files[r] EXCEPT !.status = "PROVISIONING", !.waits = TRUE] EXCEPT !.step = step, !.dir = "filling"]]
      PROVE  FInv'
  BY <1>1, <1>2, <1>3, OnlyRun, PlaceNames
<1>4. ASSUME NEW b \in Active(builds), NEW e \in Usable(pool.index, pool.copies, b),
             files' = [files EXCEPT ![r] =
               [[files[r] EXCEPT !.status = "PROVISIONING", !.waits = TRUE] EXCEPT
                  !.step = "branch", !.dir = pool.copies[e.copy]]],
             pool' = Refilling([pool EXCEPT !.copies[e.copy] = "none",
                                  !.index = (pool.index \ {e}) \cup {[e EXCEPT !.ready = FALSE]}], b)
      PROVE  FInv'
  <2>1. b \in builds.done /\ b \in Jobs /\ e \in pool.index /\ builds.done \subseteq Jobs
    BY ActiveDone DEF FInv, Usable, BuildsTyped
  <2>2. pool.copies[e.copy] \in Places
    BY <2>1 DEF FInv, PoolHeld, PoolTyped, Indexes, Entry
  <2>3. PICK mid : mid = [pool EXCEPT !.copies[e.copy] = "none",
                                      !.index = (pool.index \ {e}) \cup {[e EXCEPT !.ready = FALSE]}]
    OBVIOUS
  <2>4. PoolHeld(mid, builds.done) /\ (WholeCopies(pool) => WholeCopies(mid))
    <3>1. PoolHeld(pool, builds.done) /\ e \in pool.index
      BY <2>1 DEF FInv
    <3>2. DOMAIN pool = {"index", "copies", "refills"}
      BY <3>1 DEF PoolHeld, PoolTyped
    <3>3. Claimed(pool, e, mid)
      BY <2>3, <3>2 DEF Claimed
    <3>. QED BY ONLY <3>1, <3>3, ClaimHeld
  <2>5. pool' = Refilling(mid, b)
    BY <1>4, <2>3
  <2>6. PoolHeld(pool', builds.done) /\ (WholeCopies(pool) => WholeCopies(pool'))
    BY <2>1, <2>4, <2>5, RefillingHeld
  <2>7. Kept(files[r], r \in builds.done, files'[r], r \in builds.done, TRUE, TRUE)
    BY <1>1, <1>2, <1>4, <2>2
  <2>. QED BY <1>1, <1>4, <2>6, <2>7, RunAndPool
<1>. QED BY <1>3, <1>4 DEF CreateRun

LEMMA RestoreSteps == ASSUME FInv, NEW r \in Jobs, RestoreEnds(r) PROVE FInv'
<1>1. /\ files \in [Jobs -> FileRun] /\ files[r] \in FileRun /\ (r \in builds.done) \in BOOLEAN
      /\ files[r].step = "restore" /\ UNCHANGED <<builds, pool, fate>>
  BY Record DEF RestoreEnds
<1>2. CASE \E b \in Active(builds) : files' = [files EXCEPT ![r].step = "branch", ![r].dir = builds.snapshot[b]]
  <2>1. PICK b \in Active(builds) :
          files' = [files EXCEPT ![r] = [files[r] EXCEPT !.step = "branch", !.dir = builds.snapshot[b]]]
    BY <1>1, <1>2
  <2>2. builds.snapshot[b] \in Places
    BY ActiveDone DEF FInv, BuildsTyped
  <2>. QED BY <1>1, <2>1, <2>2, RestoredKept, OnlyRun
<1>3. CASE files' = [files EXCEPT ![r] = SetupFailed([files[r] EXCEPT !.dir = "part"])]
  BY <1>1, <1>3, FailedKept, OnlyRun, PlaceNames
<1>. QED BY <1>2, <1>3 DEF RestoreEnds

LEMMA CloneSteps == ASSUME FInv, NEW r \in Jobs, CloneEnds(r) PROVE FInv'
<1>1. /\ files \in [Jobs -> FileRun] /\ files[r] \in FileRun /\ (r \in builds.done) \in BOOLEAN
      /\ files[r].step \in {"clone", "again"} /\ UNCHANGED <<builds, pool, fate>>
  BY Record DEF CloneEnds
<1>2. ASSUME NEW status \in {files[r].status, "INSTALLING"},
             files' = [files EXCEPT ![r].step = "install", ![r].dir = "whole", ![r].status = status]
      PROVE  FInv'
  <2>1. files' = [files EXCEPT ![r] = [files[r] EXCEPT !.step = "install", !.dir = "whole", !.status = status]]
    BY <1>1, <1>2
  <2>. QED BY <1>1, <2>1, ClonedKept, OnlyRun
<1>3. CASE files[r].step = "clone" /\ files' = [files EXCEPT ![r].step = "again", ![r].dir = "filling"]
  <2>1. files' = [files EXCEPT ![r] = [files[r] EXCEPT !.step = "again", !.dir = "filling"]]
    BY <1>1, <1>3
  <2>. QED BY <1>1, <1>3, <2>1, AgainKept, OnlyRun
<1>4. ASSUME NEW left \in Broken, files' = [files EXCEPT ![r] = SetupFailed([files[r] EXCEPT !.dir = left])]
      PROVE  FInv'
  <2>1. left \in Places
    BY PlaceNames DEF Broken
  <2>. QED BY <1>1, <1>4, <2>1, FailedKept, OnlyRun
<1>. QED BY <1>2, <1>3, <1>4 DEF CloneEnds

LEMMA SetupMountSteps == ASSUME FInv, NEW r \in Jobs, SetupMounts(r) \/ WakeMounts(r) PROVE FInv'
<1>1. /\ files \in [Jobs -> FileRun] /\ files[r] \in FileRun /\ (r \in builds.done) \in BOOLEAN
      /\ files[r].mount # "none" /\ UNCHANGED <<builds, pool>>
  BY Record DEF SetupMounts, WakeMounts, Mounted
<1>2. PICK found \in Places : found = FoundAt(files[r])
  BY <1>1, PlaceNames DEF FoundAt, FileRun
<1>3. PICK blank \in BOOLEAN : fate' = [fate EXCEPT !.blank = blank]
  BY DEF SetupMounts, WakeMounts, Mounted, FInv, FateTyped
<1>4. FateTyped' /\ fate'.clash = fate.clash /\ fate'.early = fate.early
  BY <1>3 DEF FInv, FateTyped
<1>5. CASE SetupMounts(r)
  <2>1. files[r].step = "mount" /\ files' = [files EXCEPT ![r] =
          [[files[r] EXCEPT !.step = "off"] EXCEPT !.mount = found, !.handle = TRUE, !.status = "RUNNING",
                                                   !.waits = FALSE, !.setupError = FALSE]]
    BY <1>1, <1>2, <1>5 DEF SetupMounts, Mounted, FoundAt, FileRun
  <2>. QED BY <1>1, <1>2, <1>4, <2>1, MountedKept, OneRun
<1>6. CASE WakeMounts(r)
  <2>1. files[r].wake = "mount" /\ files' = [files EXCEPT ![r] =
          [[files[r] EXCEPT !.wake = "off"] EXCEPT !.mount = found, !.handle = TRUE, !.status = "RUNNING",
                                                   !.waits = FALSE, !.setupError = FALSE]]
    BY <1>1, <1>2, <1>6 DEF WakeMounts, Mounted, FoundAt, FileRun
  <2>. QED BY <1>1, <1>2, <1>4, <2>1, WokenKept, OneRun
<1>. QED BY <1>5, <1>6

LEMMA MountFailSteps == ASSUME FInv, NEW r \in Jobs, MountFails(r) PROVE FInv'
<1>1. /\ files \in [Jobs -> FileRun] /\ files[r] \in FileRun /\ (r \in builds.done) \in BOOLEAN
      /\ files[r].mount = "taken" /\ ~files[r].handle /\ UNCHANGED <<builds, pool, fate>>
  BY Record DEF MountFails
<1>2. CASE files[r].step = "mount" /\ files' = [files EXCEPT ![r] =
             [SetupFailed(files[r]) EXCEPT !.mount = "none", !.setupError = FALSE]]
  BY <1>1, <1>2, UnmountedKept, OnlyRun
<1>3. CASE files[r].wake = "mount" /\ files' = [files EXCEPT ![r] =
             [SetupFailed(files[r]) EXCEPT !.mount = "none", !.setupError = FALSE, !.wake = "off",
                                           !.step = files[r].step]]
  BY <1>1, <1>3, UnwokenKept, OnlyRun
<1>. QED BY <1>2, <1>3 DEF MountFails

LEMMA SchedulerSteps == ASSUME FInv, SchedulerRefills PROVE FInv'
<1>1. PICK b \in Active(builds) : pool' = Refilling(pool, b) /\ UNCHANGED <<files, builds, fate>>
  BY DEF SchedulerRefills
<1>2. b \in builds.done /\ builds.done \subseteq Jobs /\ PoolHeld(pool, builds.done)
  BY ActiveDone DEF FInv, BuildsTyped
<1>3. PoolHeld(pool', builds.done) /\ (WholeCopies(pool) => WholeCopies(pool'))
  BY <1>1, <1>2, RefillingHeld
<1>. QED BY <1>1, <1>3, OnlyPool

LEMMA RefillFailSteps == ASSUME FInv, NEW t \in pool.refills, RefillFails(t) PROVE FInv'
<1>1. /\ pool' = [pool EXCEPT !.copies[t.copy] = "none", !.refills = pool.refills \ {t}]
      /\ UNCHANGED <<files, builds, fate>> /\ PoolHeld(pool, builds.done) /\ t \in pool.refills
  BY DEF RefillFails, FInv
<1>2. PoolHeld(pool', builds.done) /\ (WholeCopies(pool) => WholeCopies(pool'))
  <2>1. DOMAIN pool = {"index", "copies", "refills"}
    BY <1>1 DEF PoolHeld, PoolTyped
  <2>2. BrokenOff(pool, t, pool')
    BY <1>1, <2>1 DEF BrokenOff
  <2>. QED BY ONLY <1>1, <2>2, RefillFailsHeld
<1>. QED BY <1>1, <1>2, OnlyPool

LEMMA RefillSteps == ASSUME FInv, NEW t \in pool.refills, RefillCopies(t) PROVE FInv'
<1>1. /\ UNCHANGED <<files, builds, fate>> /\ PoolHeld(pool, builds.done) /\ t \in pool.refills
      /\ DOMAIN pool = {"index", "copies", "refills"} /\ pool.copies \in [Copies -> Places]
      /\ DOMAIN t = {"build", "index", "short", "copy"}
      /\ t.build \in Jobs /\ t.copy \in Copies /\ t.short \in Nat \ {0} /\ t.build \in builds.done
      /\ builds.snapshot[t.build] \in Places
  BY DEF RefillCopies, FInv, PoolHeld, PoolTyped, BuildsTyped
<1>. DEFINE next == [t EXCEPT !.index = WithCopy(t), !.short = @ - 1]
            rest == pool.refills \ {t}
            place == builds.snapshot[t.build]
            filled == [pool EXCEPT !.copies[t.copy] = place, !.refills = rest \cup {next}]
            copy == NewCopy(filled)
<1>2. /\ next.index = WithCopy(t) /\ next.short = t.short - 1 /\ next.copy = t.copy
      /\ next.build = t.build /\ DOMAIN next = {"build", "index", "short", "copy"}
  <2>1. DOMAIN t = {"build", "index", "short", "copy"}
    BY <1>1
  <2>. QED BY ONLY <2>1
<1>3. /\ filled.copies = [pool.copies EXCEPT ![t.copy] = place] /\ filled.refills = rest \cup {next}
      /\ filled.index = pool.index
  <2>. HIDE DEF next, rest
  <2>. QED BY <1>1
<1>4. PICK extra : extra = IF next.short > 0 /\ Unused(filled) # {} THEN {[next EXCEPT !.copy = copy]} ELSE {}
  OBVIOUS
<1>5. ASSUME NEW u \in extra
      PROVE  /\ DOMAIN u = {"build", "index", "short", "copy"} /\ u.build = t.build /\ u.index = WithCopy(t)
             /\ u.short = t.short - 1 /\ t.short - 1 > 0 /\ u.copy = copy /\ copy \in Unused(filled)
  <2>1. u = [next EXCEPT !.copy = copy] /\ next.short > 0 /\ Unused(filled) # {}
    BY <1>4
  <2>2. copy \in Unused(filled)
    BY <2>1 DEF NewCopy
  <2>. HIDE DEF next, filled, copy
  <2>. QED BY <1>2, <2>1, <2>2
<1>6. ASSUME copy \in Unused(filled)
      PROVE  /\ copy \in Copies /\ copy # t.copy
             /\ \A s \in pool.refills : s.copy # copy
             /\ \A I \in Indexes(pool) : \A e \in I : e.copy # copy
  <2>. HIDE DEF copy, next
  <2>1. /\ copy \in Copies /\ \A e \in filled.index : e.copy # copy
        /\ \A s \in filled.refills : s.copy # copy /\ \A e \in s.index : e.copy # copy
    BY <1>6 DEF Unused
  <2>. HIDE DEF filled
  <2>2. copy # t.copy /\ \A e \in WithCopy(t) : e.copy # copy
    BY <1>2, <1>3, <2>1
  <2>3. \A e \in t.index : e.copy # copy
    BY <2>2 DEF WithCopy
  <2>4. \A s \in rest : s.copy # copy /\ \A e \in s.index : e.copy # copy
    BY <1>3, <2>1
  <2>. QED BY <1>3, <2>1, <2>2, <2>3, <2>4 DEF Indexes
<1>7. /\ DOMAIN pool' = {"index", "copies", "refills"} /\ pool'.index \in {pool.index, WithCopy(t)}
      /\ pool'.refills = rest \cup extra
      /\ pool'.copies = IF extra = {} THEN filled.copies ELSE [filled.copies EXCEPT ![copy] = "filling"]
  <2>1. CASE next.short > 0 /\ Unused(filled) # {}
    <3>1. pool' = [filled EXCEPT !.copies[copy] = "filling", !.refills = rest \cup {[next EXCEPT !.copy = copy]}]
      BY <2>1 DEF RefillCopies
    <3>2. DOMAIN filled = {"index", "copies", "refills"} /\ extra = {[next EXCEPT !.copy = copy]}
      BY <1>1, <1>4, <2>1
    <3>. HIDE DEF filled, copy, next
    <3>. QED BY <1>3, <3>1, <3>2
  <2>2. CASE ~(next.short > 0 /\ Unused(filled) # {})
    <3>1. pool' = [filled EXCEPT !.index = next.index, !.refills = rest]
      BY <2>2 DEF RefillCopies
    <3>2. DOMAIN filled = {"index", "copies", "refills"} /\ extra = {}
      BY <1>1, <1>4, <2>2
    <3>. HIDE DEF filled, copy, next
    <3>. QED BY <1>2, <1>3, <3>1, <3>2
  <2>. QED BY <2>1, <2>2
<1>8. /\ pool'.copies \in [Copies -> Places] /\ pool'.copies[t.copy] = place
      /\ \A x \in Copies \ {t.copy} : pool'.copies[x] = pool.copies[x] \/ \E u \in extra : u.copy = x
  <2>. HIDE DEF filled, copy, next
  <2>1. filled.copies \in [Copies -> Places] /\ filled.copies[t.copy] = place
        /\ \A x \in Copies \ {t.copy} : filled.copies[x] = pool.copies[x]
    BY <1>1, <1>3
  <2>2. CASE extra = {}
    BY <1>7, <2>1, <2>2
  <2>3. CASE extra # {}
    <3>1. PICK u \in extra : TRUE
      BY <2>3
    <3>2. copy \in Copies /\ copy # t.copy /\ u.copy = copy
      BY <1>5, <1>6
    <3>3. pool'.copies = [filled.copies EXCEPT ![copy] = "filling"]
      BY <1>7, <2>3
    <3>. QED BY <1>1, <2>1, <3>1, <3>2, <3>3, PlaceNames
  <2>. QED BY <2>2, <2>3
<1>9. /\ \A u \in extra : /\ DOMAIN u = {"build", "index", "short", "copy"} /\ u.build = t.build /\ u.index = WithCopy(t)
                          /\ u.short = t.short - 1 /\ t.short - 1 > 0 /\ u.copy \in Copies
      /\ \A u, v \in extra : u = v
      /\ \A u \in extra : \A s \in pool.refills : s.copy # u.copy
      /\ \A u \in extra : \A I \in Indexes(pool) : \A e \in I : e.copy # u.copy
  <2>1. \A u, v \in extra : u = v
    BY <1>4
  <2>. HIDE DEF filled, copy, next
  <2>. QED BY <1>5, <1>6, <2>1
<1>10. PoolHeld(pool', builds.done) /\ (WholeCopies(pool) /\ place = "whole" => WholeCopies(pool'))
  <2>1. PoolHeld(pool, builds.done) /\ t \in pool.refills
    BY <1>1
  <2>2. CopyMade(pool, t, place, extra, pool')
    <3>. HIDE DEF filled, copy, next, place
    <3>. QED BY <1>7, <1>8, <1>9 DEF CopyMade
  <2>. HIDE DEF filled, copy, next, place
  <2>. QED BY ONLY <2>1, <2>2, MadeHeld
<1>. QED BY <1>1, <1>10, OnlyPool

-----------------------------------------------------------------------------------------
LEMMA InstallSteps == ASSUME FInv, NEW r \in Jobs, InstallEnds(r) PROVE FInv'
<1>1. /\ files \in [Jobs -> FileRun] /\ files[r] \in FileRun /\ (r \in builds.done) \in BOOLEAN
      /\ files[r].step = "install" /\ UNCHANGED <<pool, fate>> /\ BuildsTyped(builds) /\ FateTyped'
  BY Record DEF InstallEnds, FInv, FateTyped
<1>2. CASE files' = [files EXCEPT ![r] = SetupFailed(files[r])] /\ UNCHANGED builds
  BY <1>1, <1>2, FailedHere, OnlyRun
<1>3. CASE /\ files' = [files EXCEPT ![r].step = "capture"]
           /\ builds' = [builds EXCEPT !.begun = Append(@, r), !.snapshot[r] = "filling"]
  <2>1. files' = [files EXCEPT ![r] = [files[r] EXCEPT !.step = "capture"]]
    BY <1>1, <1>3
  <2>2. /\ DOMAIN builds' = {"begun", "done", "snapshot"} /\ builds'.begun = Append(builds.begun, r)
        /\ builds'.done = builds.done /\ builds'.snapshot = [builds.snapshot EXCEPT ![r] = "filling"]
    BY <1>1, <1>3 DEF BuildsTyped
  <2>3. BuildsTyped(builds')
    <3>1. Append(builds.begun, r) \in Seq(Jobs)
      BY <1>1 DEF BuildsTyped
    <3>. QED BY <1>1, <2>2, <3>1, PlaceNames DEF BuildsTyped
  <2>4. \A q \in Jobs : Kept(files[q], q \in builds.done, files'[q], q \in builds'.done, TRUE, TRUE)
    <3>. TAKE q \in Jobs
    <3>1. CASE q = r
      <4>1. Kept(files[r], r \in builds.done, [files[r] EXCEPT !.step = "capture"], r \in builds.done, TRUE, TRUE)
        BY <1>1, InstalledKept
      <4>. QED BY <1>1, <2>1, <2>2, <3>1, <4>1
    <3>2. CASE q # r
      <4>1. files'[q] = files[q] /\ files[q] \in FileRun
        BY <1>1, <2>1, <3>2
      <4>. QED BY <2>2, <4>1, Same
    <3>. QED BY <3>1, <3>2
  <2>5. SetsUp(files[r], r \in builds.done) => r \notin builds.done
    BY <1>1 DEF SetsUp
  <2>6. (\A b \in builds.done : builds.snapshot[b] = "whole") /\ r \notin builds.done
        => \A b \in builds'.done : builds'.snapshot[b] = "whole"
    BY <1>1, <2>2 DEF BuildsTyped
  <2>7. PoolHeld(pool', builds'.done) /\ WholeCopies(pool') = WholeCopies(pool)
    BY <1>1, <2>2 DEF FInv
  <2>8. files' = [q \in Jobs |-> files'[q]]
    BY <1>1, <2>1
  <2>. QED BY <1>1, <2>3, <2>4, <2>5, <2>6, <2>7, <2>8, FilesStep
<1>. QED BY <1>2, <1>3 DEF InstallEnds

LEMMA CaptureSteps == ASSUME FInv, NEW r \in Jobs, CaptureEnds(r) PROVE FInv'
<1>1. /\ files \in [Jobs -> FileRun] /\ files[r] \in FileRun /\ (r \in builds.done) \in BOOLEAN
      /\ files[r].step = "capture" /\ UNCHANGED fate /\ BuildsTyped(builds) /\ FateTyped'
      /\ files' = [files EXCEPT ![r].step = "branch"] /\ PoolHeld(pool, builds.done)
  BY Record DEF CaptureEnds, FInv, FateTyped
<1>2. files' = [files EXCEPT ![r] = [files[r] EXCEPT !.step = "branch"]] /\ files' = [q \in Jobs |-> files'[q]]
  BY <1>1
<1>3. ASSUME \A q \in Jobs \ {r} : q \in builds'.done <=> q \in builds.done
      PROVE  \A q \in Jobs : Kept(files[q], q \in builds.done, files'[q], q \in builds'.done, TRUE, TRUE)
  <2>. TAKE q \in Jobs
  <2>1. CASE q = r
    <3>1. (r \in builds'.done) \in BOOLEAN
      OBVIOUS
    <3>2. Kept(files[r], r \in builds.done, [files[r] EXCEPT !.step = "branch"], r \in builds'.done, TRUE, TRUE)
      BY <1>1, <3>1, CapturedKept
    <3>. QED BY <1>1, <1>2, <2>1, <3>2
  <2>2. CASE q # r
    <3>1. files'[q] = files[q] /\ files[q] \in FileRun
      BY <1>1, <1>2, <2>2
    <3>. QED BY <1>3, <2>2, <3>1 DEF Kept, SetsUp
  <2>. QED BY <2>1, <2>2
<1>4. /\ WorkspaceOf(files[r]) \in Places
      /\ Held(files[r]) /\ SetsUp(files[r], r \in builds.done) => WorkspaceOf(files[r]) = "whole"
  BY <1>1, PlaceNames DEF WorkspaceOf, FileRun, Held, SetsUp, OnSlot
<1>5. SetsUp(files[r], r \in builds.done) => r \notin builds.done
  BY <1>1 DEF SetsUp
<1>6. CASE /\ builds' = [builds EXCEPT !.done = @ \cup {r}, !.snapshot[r] = WorkspaceOf(files[r])]
           /\ pool' = Refilling(pool, r)
  <2>1. /\ DOMAIN builds' = {"begun", "done", "snapshot"} /\ builds'.begun = builds.begun
        /\ builds'.done = builds.done \cup {r}
        /\ builds'.snapshot = [builds.snapshot EXCEPT ![r] = WorkspaceOf(files[r])]
    BY <1>1, <1>6 DEF BuildsTyped
  <2>2. BuildsTyped(builds')
    BY <1>1, <1>4, <2>1 DEF BuildsTyped
  <2>3. PoolHeld(pool, builds'.done)
    BY <1>1, <2>1 DEF PoolHeld
  <2>4. PoolHeld(pool', builds'.done) /\ (WholeCopies(pool) => WholeCopies(pool'))
    <3>1. r \in builds'.done /\ builds'.done \subseteq Jobs
      BY <2>1, <2>2 DEF BuildsTyped
    <3>. QED BY <1>6, <2>3, <3>1, RefillingHeld
  <2>5. (\A b \in builds.done : builds.snapshot[b] = "whole") /\ WorkspaceOf(files[r]) = "whole"
        => \A b \in builds'.done : builds'.snapshot[b] = "whole"
    BY <1>1, <2>1 DEF BuildsTyped
  <2>6. \A q \in Jobs \ {r} : q \in builds'.done <=> q \in builds.done
    BY <2>1
  <2>. QED BY <1>1, <1>2, <1>3, <1>4, <2>2, <2>4, <2>5, <2>6, FilesStep
<1>7. CASE builds' = [builds EXCEPT !.snapshot[r] = "part"] /\ UNCHANGED pool
  <2>1. /\ DOMAIN builds' = {"begun", "done", "snapshot"} /\ builds'.begun = builds.begun
        /\ builds'.done = builds.done /\ builds'.snapshot = [builds.snapshot EXCEPT ![r] = "part"]
    BY <1>1, <1>7 DEF BuildsTyped
  <2>2. BuildsTyped(builds')
    BY <1>1, <2>1, PlaceNames DEF BuildsTyped
  <2>3. (\A b \in builds.done : builds.snapshot[b] = "whole") /\ r \notin builds.done
        => \A b \in builds'.done : builds'.snapshot[b] = "whole"
    BY <1>1, <2>1 DEF BuildsTyped
  <2>4. PoolHeld(pool', builds'.done) /\ WholeCopies(pool') = WholeCopies(pool)
    BY <1>1, <1>7, <2>1
  <2>. QED BY <1>1, <1>2, <1>3, <1>5, <2>1, <2>2, <2>3, <2>4, FilesStep
<1>. QED BY <1>6, <1>7 DEF CaptureEnds

LEMMA BranchSteps == ASSUME FInv, NEW r \in Jobs, BranchEnds(r) PROVE FInv'
<1>1. /\ files \in [Jobs -> FileRun] /\ files[r] \in FileRun /\ (r \in builds.done) \in BOOLEAN
      /\ files[r].step = "branch" /\ UNCHANGED <<builds, pool>>
  BY Record DEF BranchEnds
<1>2. CASE files' = [files EXCEPT ![r] = SetupFailed(files[r])] /\ UNCHANGED fate
  BY <1>1, <1>2, FailedHere, OnlyRun
<1>3. CASE files' = [files EXCEPT ![r].step = "off", ![r].status = "NOT_YET_STARTED"] /\ UNCHANGED fate
  <2>1. files' = [files EXCEPT ![r] = [files[r] EXCEPT !.step = "off", !.status = "NOT_YET_STARTED"]]
    BY <1>1, <1>3
  <2>. QED BY <1>1, <1>3, <2>1, QueuedKept, OnlyRun
<1>4. CASE WorkspaceOf(files[r]) \in {"whole", "work"} /\ Attach(r, [files[r] EXCEPT !.step = "mount"])
  <2>1. files' = [files EXCEPT ![r] = [[files[r] EXCEPT !.step = "mount"] EXCEPT !.mount = "taken"]]
    BY <1>4 DEF Attach
  <2>2. [files[r] EXCEPT !.step = "mount"].step = "mount" /\ [files[r] EXCEPT !.step = "mount"].wake = files[r].wake
    BY <1>1 DEF FileRun
  <2>3. PICK u \in BOOLEAN : /\ u = (fate.clash \/ r \in Holders \/ files[r].wake # "off")
                             /\ fate' = [fate EXCEPT !.clash = u]
    BY <1>4, <2>2 DEF Attach
  <2>4. FateTyped' /\ fate'.clash = u /\ fate'.early = fate.early
    BY <2>3 DEF FInv, FateTyped
  <2>5. ~u => ~fate.clash /\ files[r].mount = "none" /\ files[r].wake = "off"
    BY <2>3 DEF Holders
  <2>. QED BY <1>1, <1>4, <2>1, <2>4, <2>5, BranchKept, OneRun
<1>. QED BY <1>2, <1>3, <1>4 DEF BranchEnds

\* resumeRun and tryStartQueued.
LEMMA WakeSteps == ASSUME FInv, NEW r \in Jobs, ResumeRun(r) \/ TryStartQueued(r) PROVE FInv'
<1>1. /\ files \in [Jobs -> FileRun] /\ files[r] \in FileRun /\ (r \in builds.done) \in BOOLEAN
      /\ UNCHANGED <<builds, pool>>
  BY Record DEF ResumeRun, TryStartQueued
<1>2. CASE files[r].wake = "bound" /\ files' = [files EXCEPT ![r].wake = "off", ![r].status = "IDLE"] /\ UNCHANGED fate
  <2>1. files' = [files EXCEPT ![r] = [files[r] EXCEPT !.wake = "off", !.status = "IDLE"]]
    BY <1>1, <1>2
  <2>. QED BY <1>1, <1>2, <2>1, NoSlotKept, OnlyRun
<1>3. CASE /\ files[r].wake = "bound" \/ (files[r].wake = "off" /\ files[r].status # "new")
           /\ Attach(r, [files[r] EXCEPT !.wake = "mount", !.status = "PROVISIONING"])
  <2>. DEFINE f == [files[r] EXCEPT !.wake = "mount", !.status = "PROVISIONING"]
  <2>1. files' = [files EXCEPT ![r] = [f EXCEPT !.mount = "taken"]]
    BY <1>3 DEF Attach
  <2>2. f.step = files[r].step /\ f.wake = "mount"
    BY <1>1 DEF FileRun
  <2>3. PICK u \in BOOLEAN : /\ u = (fate.clash \/ r \in Holders \/ files[r].step # "off")
                             /\ fate' = [fate EXCEPT !.clash = u]
    BY <1>3, <2>2 DEF Attach
  <2>4. FateTyped' /\ fate'.clash = u /\ fate'.early = fate.early
    BY <2>3 DEF FInv, FateTyped
  <2>5. ~u => ~fate.clash /\ files[r].mount = "none" /\ files[r].step = "off"
    BY <2>3 DEF Holders
  <2>. QED BY <1>1, <1>3, <2>1, <2>4, <2>5, WakeKept, OneRun
<1>. QED BY <1>2, <1>3 DEF ResumeRun, TryStartQueued, WaitsForSlot

-----------------------------------------------------------------------------------------
LEMMA WorkerSteps ==
  ASSUME FInv, NEW r \in Jobs,
         JobTurnEnds(r) \/ TakesMessage(r) \/ ReleaseIdle(r) \/ JobWorkerExits(r) \/ SlotReleased(r)
  PROVE  FInv'
<1>1. /\ files \in [Jobs -> FileRun] /\ files[r] \in FileRun /\ (r \in builds.done) \in BOOLEAN
      /\ UNCHANGED <<builds, pool, fate>>
  BY Record DEF JobTurnEnds, TakesMessage, ReleaseIdle, JobWorkerExits, SlotReleased
<1>2. CASE JobTurnEnds(r)
  <2>1. /\ files[r].handle /\ files[r].mount \notin {"none", "taken"}
        /\ files' = [files EXCEPT ![r] = [files[r] EXCEPT !.mount = "work", !.worked = "yes", !.status = "IDLE"]]
    BY <1>1, <1>2 DEF JobTurnEnds
  <2>. QED BY <1>1, <2>1, TurnKept, OnlyRun
<1>3. CASE TakesMessage(r)
  <2>1. /\ files[r].handle
        /\ files' = [files EXCEPT ![r] = [files[r] EXCEPT !.waits = FALSE, !.status = "RUNNING"]]
    BY <1>1, <1>3 DEF TakesMessage
  <2>. QED BY <1>1, <2>1, TakesKept, OnlyRun
<1>4. CASE ReleaseIdle(r)
  <2>1. /\ files[r].handle /\ files[r].leave = "no"
        /\ files' = [files EXCEPT ![r] = [SaveStarts(files[r]) EXCEPT !.leave = "save"]]
    BY <1>1, <1>4 DEF ReleaseIdle
  <2>. QED BY <1>1, <2>1, LeaveKept, OnlyRun
<1>5. CASE JobWorkerExits(r)
  <2>1. /\ files[r].leave = "stop" \/ (files[r].leave = "no" /\ files[r].handle)
        /\ files' = [files EXCEPT ![r] = [SaveStarts(files[r]) EXCEPT !.leave = "exit"]]
    BY <1>1, <1>5 DEF JobWorkerExits
  <2>. QED BY <1>1, <2>1, LeaveKept, OnlyRun
<1>6. CASE SlotReleased(r)
  <2>1. /\ files[r].leave = "exit"
        /\ \/ files' = [files EXCEPT ![r] = OffSlot(SaveEnds(files[r]))]
           \/ files' = [files EXCEPT ![r] = OffSlot(CopyFails(GivenUp(files[r])))]
    BY <1>1, <1>6 DEF SlotReleased
  <2>. QED BY <1>1, <2>1, ReleasedKept, GivenUpKept, OnlyRun
<1>. QED BY <1>2, <1>3, <1>4, <1>5, <1>6

LEMMA ReclaimSteps == ASSUME FInv, ReclaimTick PROVE FInv'
<1>1. PICK gone \in Evictions(files, {}) : files' = Evicted(files, gone)
  BY DEF ReclaimTick
<1>2. UNCHANGED <<builds, pool, fate>> /\ files \in [Jobs -> FileRun] /\ FateTyped'
  BY DEF ReclaimTick, FInv, FateTyped
<1>3. files' = [q \in Jobs |-> files'[q]]
  BY <1>1 DEF Evicted
<1>4. \A q \in Jobs : Kept(files[q], q \in builds.done, files'[q], q \in builds'.done, TRUE, TRUE)
  <2>. TAKE q \in Jobs
  <2>0. PICK except : except = {}
    OBVIOUS
  <2>1. files \in [Jobs -> FileRun] /\ gone \in Evictions(files, except) /\ builds' = builds
    BY <1>2, <2>0
  <2>2. /\ q \notin gone => Evicted(files, gone)[q] = files[q]
        /\ q \in gone => MovesOn(files[q], Evicted(files, gone)[q], q, builds.done)
    BY ONLY <2>1, q \in Jobs, EvictedAll
  <2>. QED BY <1>1, <2>1, <2>2, Same DEF MovesOn
<1>5. BuildsTyped(builds') /\ PoolHeld(pool', builds'.done)
  BY <1>2 DEF FInv
<1>. QED BY <1>2, <1>3, <1>4, <1>5, FilesStep

LEMMA ArchiveSteps == ASSUME FInv, NEW r \in Jobs, ArchiveRun(r) PROVE FInv'
<1>1. /\ files \in [Jobs -> FileRun] /\ files[r] \in FileRun /\ (r \in builds.done) \in BOOLEAN
      /\ files[r].status # "new" /\ files[r].leave = "no" /\ UNCHANGED <<builds, pool>>
  BY Record DEF ArchiveRun
<1>2. PICK u \in BOOLEAN, v \in BOOLEAN :
        /\ u = (fate.clash \/ files[r].mount = "taken") /\ v = (fate.early \/ files[r].step # "off")
        /\ fate' = [fate EXCEPT !.clash = u, !.early = v]
  BY DEF ArchiveRun
<1>3. FateTyped' /\ fate'.clash = u /\ fate'.early = v
  BY <1>2 DEF FInv, FateTyped
<1>4. /\ u \/ files[r].mount # "taken"
      /\ v \/ files[r].step = "off"
      /\ fate.clash => u
      /\ fate.early => v
  BY <1>2
<1>. DEFINE gone == [files EXCEPT ![r].status = "ARCHIVED"]
            f == [files[r] EXCEPT !.status = "ARCHIVED"]
<1>5. gone = [files EXCEPT ![r] = f] /\ gone[r] = f
  BY <1>1
<1>6. CASE files[r].mount # "none" /\ files' = [gone EXCEPT ![r] = [SaveStarts(@) EXCEPT !.leave = "save"]]
  <2>1. files' = [files EXCEPT ![r] = [SaveStarts(f) EXCEPT !.leave = "save"]]
    <3>. HIDE DEF f
    <3>. QED BY <1>1, <1>5, <1>6
  <2>2. Kept(files[r], r \in builds.done, [SaveStarts(f) EXCEPT !.leave = "save"], r \in builds.done,
             files[r].mount # "taken", files[r].step = "off")
    BY <1>1, <1>6, ShelvedKept
  <2>. HIDE DEF f, gone
  <2>. QED BY <1>1, <1>3, <1>4, <2>1, <2>2, OneRun
<1>7. CASE files[r].mount = "none" /\ \E out \in Evictions([gone EXCEPT ![r] = SaveEnds(@)], {r}) :
             files' = Evicted([gone EXCEPT ![r] = SaveEnds(@)], out)
  <2>1. [gone EXCEPT ![r] = SaveEnds(@)] = [files EXCEPT ![r] = SaveEnds(f)]
    <3>. HIDE DEF f
    <3>. QED BY <1>1, <1>5
  <2>2. Kept(files[r], r \in builds.done, SaveEnds(f), r \in builds.done, TRUE, files[r].step = "off")
    BY <1>1, <1>7, ArchivedKept
  <2>. HIDE DEF f, gone
  <2>3. PICK w : w = [files EXCEPT ![r] = SaveEnds(f)]
    OBVIOUS
  <2>4. \E out \in Evictions(w, {r}) : files' = Evicted(w, out)
    BY <1>7, <2>1, <2>3
  <2>5. /\ FInv /\ r \in Jobs /\ r \in {r} /\ UNCHANGED <<builds, pool>>
        /\ fate.clash => fate'.clash
        /\ fate.early => fate'.early
    BY <1>1, <1>3, <1>4
  <2>6. PICK quiet \in BOOLEAN : quiet = (files[r].step = "off")
    OBVIOUS
  <2>7. Kept(files[r], r \in builds.done, SaveEnds(f), r \in builds.done, TRUE, quiet)
    BY <2>2, <2>6
  <2>8. fate'.early \/ quiet
    BY <1>3, <1>4, <2>6
  <2>. QED BY ONLY <1>3, <2>3, <2>4, <2>5, <2>7, <2>8, RunAndRoom
<1>. QED BY <1>6, <1>7 DEF ArchiveRun

LEMMA SavedSteps == ASSUME FInv, NEW r \in Jobs, Saved(r) PROVE FInv'
<1>1. /\ files \in [Jobs -> FileRun] /\ files[r] \in FileRun /\ (r \in builds.done) \in BOOLEAN
      /\ files[r].leave = "save" /\ UNCHANGED <<builds, pool, fate>> /\ FateTyped'
  BY Record DEF Saved, FInv, FateTyped
<1>2. CASE files[r].status # "ARCHIVED" /\ files' = [files EXCEPT ![r] = [CopyFails(@) EXCEPT !.leave = "no"]]
  <2>1. files' = [files EXCEPT ![r] = [CopyFails(files[r]) EXCEPT !.leave = "no"]]
    BY <1>1, <1>2
  <2>2. Kept(files[r], r \in builds.done, [CopyFails(files[r]) EXCEPT !.leave = "no"], r \in builds.done,
             TRUE, TRUE)
    BY <1>1, <1>2, UnsavedKept
  <2>. QED BY <1>1, <2>1, <2>2, OnlyRun
<1>. DEFINE Left(f) == [f EXCEPT !.leave = IF f.handle THEN "stop" ELSE "no"]
<1>3. Kept(files[r], r \in builds.done, Left(SaveEnds(files[r])), r \in builds.done, TRUE, TRUE)
  <2>1. SaveEnds(files[r]).handle = files[r].handle
    BY <1>1 DEF SaveEnds, FileRun
  <2>. QED BY <1>1, <2>1, SavedKept
<1>4. Kept(files[r], r \in builds.done, Left(CopyFails(files[r])), r \in builds.done, TRUE, TRUE)
  <2>1. CopyFails(files[r]).handle = files[r].handle
    BY <1>1 DEF CopyFails, FileRun
  <2>2. PICK leave \in {"no", "stop"} : leave = IF files[r].handle THEN "stop" ELSE "no"
    OBVIOUS
  <2>3. Kept(files[r], r \in builds.done, [CopyFails(files[r]) EXCEPT !.leave = leave], r \in builds.done,
             TRUE, TRUE)
    BY <1>1, <2>2, UnsavedKept
  <2>. QED BY <2>1, <2>2, <2>3
<1>5. ASSUME NEW f \in {SaveEnds(files[r]), CopyFails(files[r])}, Leaves(r, f) PROVE FInv'
  <2>. DEFINE g == Left(f)
  <2>1. Kept(files[r], r \in builds.done, g, r \in builds.done, TRUE, TRUE)
    BY <1>3, <1>4
  <2>2. PICK w : w = [files EXCEPT ![r] = g]
    OBVIOUS
  <2>3. \E gone \in Evictions(w, {r}) : files' = Evicted(w, gone)
    BY <1>5, <2>2 DEF Leaves
  <2>. HIDE DEF g
  <2>. QED BY <1>1, <2>1, <2>2, <2>3, RunAndRoom
<1>. QED BY <1>2, <1>5 DEF Saved

LEMMA AbortSteps == ASSUME FInv, NEW r \in Jobs, AbortJob(r) PROVE FInv'
<1>1. /\ files \in [Jobs -> FileRun] /\ files[r] \in FileRun /\ (r \in builds.done) \in BOOLEAN
      /\ files[r].status # "new" /\ files[r].leave = "no" /\ UNCHANGED <<builds, pool>>
  BY Record DEF AbortJob
<1>2. PICK v \in BOOLEAN : /\ v = (fate.early \/ files[r].step # "off")
                           /\ fate' = [fate EXCEPT !.early = v]
  BY DEF AbortJob
<1>3. FateTyped' /\ fate'.clash = fate.clash /\ fate'.early = v
  BY <1>2 DEF FInv, FateTyped
<1>4. PICK failed \in {FALSE, files[r].handle} :
        files' = [files EXCEPT ![r] =
                    [files[r] EXCEPT !.status = IF failed THEN "ERROR" ELSE "IDLE", !.waits = FALSE,
                                     !.setupError = FALSE, !.handle = @ /\ ~failed,
                                     !.leave = IF files[r].handle THEN "stop" ELSE "no"]]
  BY <1>1 DEF AbortJob
<1>. QED BY <1>1, <1>2, <1>3, <1>4, AbortedKept, OneRun

LEMMA AskSteps == ASSUME FInv, NEW r \in Jobs, FollowUp(r) PROVE FInv'
<1>1. /\ files \in [Jobs -> FileRun] /\ files[r] \in FileRun /\ (r \in builds.done) \in BOOLEAN
      /\ files[r].status # "new" /\ UNCHANGED <<builds, pool>>
  BY Record DEF FollowUp
<1>2. PICK v \in BOOLEAN : /\ v = (fate.early \/ files[r].step # "off")
                           /\ fate' = [fate EXCEPT !.asked = @ + 1, !.early = v]
  BY DEF FollowUp
<1>3. FateTyped' /\ fate'.clash = fate.clash /\ fate'.early = v
  BY <1>2 DEF FInv, FateTyped
<1>4. files' = [files EXCEPT ![r] = [files[r] EXCEPT !.waits = TRUE,
                  !.wake = IF ~files[r].handle /\ @ = "off" THEN "check" ELSE @]]
  BY <1>1 DEF FollowUp
<1>. QED BY <1>1, <1>2, <1>3, <1>4, AskedKept, OneRun

LEMMA CheckSteps == ASSUME FInv, NEW r \in Jobs, CheckEnds(r) PROVE FInv'
<1>1. /\ files \in [Jobs -> FileRun] /\ files[r] \in FileRun /\ (r \in builds.done) \in BOOLEAN
      /\ files[r].wake = "check" /\ UNCHANGED <<builds, pool>>
  BY Record DEF CheckEnds
<1>2. CASE files' = [files EXCEPT ![r].wake = "bound"] /\ UNCHANGED fate
  <2>1. files' = [files EXCEPT ![r] = [files[r] EXCEPT !.wake = "bound"]]
    BY <1>1, <1>2
  <2>. QED BY <1>1, <1>2, <2>1, BoundKept, OnlyRun
<1>3. CASE /\ files[r].dir \in {"none", "bare", "filling"}
           /\ files' = [files EXCEPT ![r].wake = "reclone", ![r].dir = "filling",
                          ![r].status = IF @ \in {"IDLE", "ERROR"} THEN "PROVISIONING" ELSE @]
           /\ fate' = [fate EXCEPT !.clash = @ \/ files[r].leave # "no" \/ files[r].step # "off"]
  <2>1. files' = [files EXCEPT ![r] = [files[r] EXCEPT !.wake = "reclone", !.dir = "filling",
                    !.status = IF @ \in {"IDLE", "ERROR"} THEN "PROVISIONING" ELSE @]]
    BY <1>1, <1>3
  <2>2. PICK u \in BOOLEAN : /\ u = (fate.clash \/ files[r].leave # "no" \/ files[r].step # "off")
                             /\ fate' = [fate EXCEPT !.clash = u]
    BY <1>3
  <2>3. FateTyped' /\ fate'.clash = u /\ fate'.early = fate.early
    BY <2>2 DEF FInv, FateTyped
  <2>4. Kept(files[r], r \in builds.done, [files[r] EXCEPT !.wake = "reclone", !.dir = "filling",
                  !.status = IF @ \in {"IDLE", "ERROR"} THEN "PROVISIONING" ELSE @], r \in builds.done,
             files[r].leave = "no" /\ files[r].step = "off", TRUE)
    BY <1>1, <1>3, RecloneKept
  <2>5. /\ fate'.clash \/ (files[r].leave = "no" /\ files[r].step = "off")
        /\ fate.clash => fate'.clash
    BY <2>2, <2>3
  <2>. QED BY <1>1, <2>1, <2>3, <2>4, <2>5, OneRun
<1>. QED BY <1>2, <1>3 DEF CheckEnds

LEMMA RecloneSteps == ASSUME FInv, NEW r \in Jobs, RecloneEnds(r) PROVE FInv'
<1>1. /\ files \in [Jobs -> FileRun] /\ files[r] \in FileRun /\ (r \in builds.done) \in BOOLEAN
      /\ files[r].wake = "reclone" /\ UNCHANGED <<builds, pool, fate>>
  BY Record DEF RecloneEnds
<1>2. CASE files' = [files EXCEPT ![r].wake = "bound", ![r].dir = "whole", ![r].meta = "present"]
  <2>1. files' = [files EXCEPT ![r] = [files[r] EXCEPT !.wake = "bound", !.dir = "whole", !.meta = "present"]]
    BY <1>1, <1>2
  <2>. QED BY <1>1, <2>1, ReclonedKept, OnlyRun
<1>3. ASSUME NEW left \in Broken,
             files' = [files EXCEPT ![r] =
                         [SetupFailed(files[r]) EXCEPT !.step = files[r].step, !.wake = "off", !.dir = left]]
      PROVE  FInv'
  <2>1. left \in {"none", "part"}
    BY DEF Broken
  <2>. QED BY <1>1, <1>3, <2>1, BrokenKept, OnlyRun
<1>. QED BY <1>2, <1>3 DEF RecloneEnds

LEMMA FNext == FInv /\ [FilesNext]_fileVars => FInv'
<1>. SUFFICES ASSUME FInv, [FilesNext]_fileVars PROVE FInv'
  OBVIOUS
<1>1. CASE UNCHANGED fileVars
  BY <1>1 DEF fileVars, FInv, FateTyped
<1>2. CASE FilesNext
  BY <1>2, SchedulerSteps, ReclaimSteps, RefillSteps, RefillFailSteps, CreateSteps, RestoreSteps, CloneSteps,
     InstallSteps, CaptureSteps, BranchSteps, SetupMountSteps, MountFailSteps, WorkerSteps, ArchiveSteps,
     SavedSteps, AbortSteps, AskSteps, CheckSteps, RecloneSteps, WakeSteps DEF FilesNext
<1>. QED BY <1>1, <1>2

LEMMA FAlways == FilesSpec => []FInv
BY FInit, FNext, PTL DEF FilesSpec

\* Whatever the agent wrote is on the run's slot or in its host directory, as long as no start
\* of a run met another start or a write-back of the same run (workspace-store.ts,
\* persistRunWorkspace, evictHostWorkspace).
THEOREM WorkOnSlotOrHost == FilesSpec => []WorkKept
<1>1. FInv => WorkKept
  BY DEF FInv, WorkKept, Held
<1>. QED BY <1>1, FAlways, PTL

\* What a build or a warm copy gives to a new run is a complete checkout without anybody's work,
\* and the index never offers more copies than the pool is meant to hold (builds.ts, warm-pool.ts).
THEOREM BuildsAreWhole == FilesSpec => []CleanBuilds
<1>1. FInv => CleanBuilds
  <2>. SUFFICES ASSUME FInv PROVE CleanBuilds
    OBVIOUS
  <2>1. \A b \in Jobs : Cardinality(Usable(pool.index, pool.copies, b)) <= PoolSize
    <3>1. pool.index \in Indexes(pool)
      BY DEF Indexes
    <3>2. InPool(pool)
      BY DEF FInv, PoolHeld
    <3>. QED BY ONLY <3>1, <3>2 DEF InPool, Offer
  <2>2. WholeCopies(pool) => \A b \in Jobs : \A e \in Usable(pool.index, pool.copies, b) :
                               pool.copies[e.copy] = "whole"
    BY DEF WholeCopies, Usable, Indexes
  <2>. QED BY <2>1, <2>2 DEF FInv, CleanBuilds
<1>. QED BY <1>1, FAlways, PTL

-----------------------------------------------------------------------------
(* The types of the workspaces: a refill is the record that it began as, and *)
(* is short of at most the pool's size; follow-ups are within their bound.   *)

IsRefill(t) == t = [build |-> t.build, index |-> t.index, short |-> t.short, copy |-> t.copy]
Refills(p) == \A t \in p.refills : IsRefill(t)
CountsAsked == fate.asked \in 0..MaxAsked

LEMMA RefillingRefills ==
  ASSUME NEW p, NEW b, DOMAIN p = {"index", "copies", "refills"}, Refills(p)
  PROVE  Refills(Refilling(p, b))
<1>. DEFINE new == Started(p, b)
<1>1. \A t \in new : IsRefill(t)
  <2>1. \A t \in new : \E x, y : t = [build |-> b, index |-> p.index, short |-> x, copy |-> y]
    BY DEF Started
  <2>. QED BY <2>1 DEF IsRefill
<1>2. Refilling(p, b).refills = p.refills \cup new
  BY DEF Refilling, Begun
<1>. QED BY <1>1, <1>2 DEF Refills

LEMMA RefillChanged ==
  ASSUME NEW t, IsRefill(t), NEW index, NEW short, NEW copy
  PROVE  IsRefill([[t EXCEPT !.index = index, !.short = short] EXCEPT !.copy = copy])
<1>1. PICK b, i, s, c : t = [build |-> b, index |-> i, short |-> s, copy |-> c]
  BY DEF IsRefill
<1>2. PICK u : u = [t EXCEPT !.index = index, !.short = short]
  OBVIOUS
<1>3. DOMAIN u = {"build", "index", "short", "copy"} /\ u.build = b /\ u.index = index /\ u.short = short
  BY <1>1, <1>2
<1>4. PICK v : v = [u EXCEPT !.copy = copy]
  OBVIOUS
<1>5. /\ DOMAIN v = {"build", "index", "short", "copy"}
      /\ v.build = b /\ v.index = index /\ v.short = short /\ v.copy = copy
  BY <1>3, <1>4
<1>6. v = [k \in {"build", "index", "short", "copy"} |-> v[k]]
  BY <1>3, <1>4
<1>7. v = [build |-> b, index |-> index, short |-> short, copy |-> copy]
  BY <1>5, <1>6
<1>. QED BY <1>2, <1>4, <1>7 DEF IsRefill

LEMMA RefillsStep == ASSUME FInv, Refills(pool), [FilesNext]_fileVars PROVE Refills(pool)'
<1>1. DOMAIN pool = {"index", "copies", "refills"} /\ BuildsTyped(builds)
      /\ \A t \in pool.refills : DOMAIN t = {"build", "index", "short", "copy"}
  BY DEF FInv, PoolHeld, PoolTyped
<1>2. CASE pool' = pool
  BY <1>2 DEF Refills
<1>3. CASE SchedulerRefills
  BY <1>1, <1>3, RefillingRefills DEF SchedulerRefills
<1>4. ASSUME NEW r \in Jobs, CaptureEnds(r) PROVE Refills(pool)'
  BY <1>1, <1>2, <1>4, RefillingRefills DEF CaptureEnds
<1>5. ASSUME NEW r \in Jobs, CreateRun(r) PROVE Refills(pool)'
  <2>1. CASE ~ UNCHANGED pool
    <3>1. PICK b \in Active(builds) : \E e \in Usable(pool.index, pool.copies, b) :
            pool' = Refilling([pool EXCEPT !.copies[e.copy] = "none",
                                 !.index = (pool.index \ {e}) \cup {[e EXCEPT !.ready = FALSE]}], b)
      BY <1>5, <2>1 DEF CreateRun
    <3>0. PICK e \in Usable(pool.index, pool.copies, b) :
            pool' = Refilling([pool EXCEPT !.copies[e.copy] = "none",
                                 !.index = (pool.index \ {e}) \cup {[e EXCEPT !.ready = FALSE]}], b)
      BY <3>1
    <3>2. PICK mid : mid = [pool EXCEPT !.copies[e.copy] = "none",
                                 !.index = (pool.index \ {e}) \cup {[e EXCEPT !.ready = FALSE]}]
      OBVIOUS
    <3>3. DOMAIN mid = {"index", "copies", "refills"} /\ mid.refills = pool.refills
      BY <1>1, <3>2
    <3>4. Refills(mid)
      BY <3>3 DEF Refills
    <3>5. pool' = Refilling(mid, b)
      BY <3>0, <3>2
    <3>. QED BY <3>3, <3>4, <3>5, RefillingRefills
  <2>. QED BY <1>2, <2>1
<1>6. ASSUME NEW t \in pool.refills, RefillFails(t) PROVE Refills(pool)'
  <2>1. pool'.refills = pool.refills \ {t}
    BY <1>1, <1>6 DEF RefillFails
  <2>. QED BY <2>1 DEF Refills
<1>7. ASSUME NEW t \in pool.refills, RefillCopies(t) PROVE Refills(pool)'
  <2>. DEFINE next == [t EXCEPT !.index = WithCopy(t), !.short = t.short - 1]
  <2>1. PICK filled : filled = [pool EXCEPT !.copies[t.copy] = builds.snapshot[t.build],
                                  !.refills = (pool.refills \ {t}) \cup {next}]
    OBVIOUS
  <2>2. DOMAIN filled = {"index", "copies", "refills"}
    BY <1>1, <2>1
  <2>3. pool' = IF next.short > 0 /\ Unused(filled) # {}
                THEN [filled EXCEPT !.copies[NewCopy(filled)] = "filling",
                        !.refills = (pool.refills \ {t}) \cup {[next EXCEPT !.copy = NewCopy(filled)]}]
                ELSE [filled EXCEPT !.index = next.index, !.refills = pool.refills \ {t}]
    BY <1>7, <2>1 DEF RefillCopies
  <2>4. \A c : IsRefill([next EXCEPT !.copy = c])
    <3>1. IsRefill(t)
      BY DEF Refills
    <3>. QED BY <3>1, RefillChanged
  <2>. HIDE DEF next
  <2>5. \/ pool'.refills = (pool.refills \ {t}) \cup {[next EXCEPT !.copy = NewCopy(filled)]}
        \/ pool'.refills = pool.refills \ {t}
    BY <2>2, <2>3
  <2>. QED BY <2>4, <2>5 DEF Refills
<1>8. ASSUME NEW r \in Jobs,
         \/ RestoreEnds(r) \/ CloneEnds(r) \/ InstallEnds(r) \/ BranchEnds(r) \/ SetupMounts(r) \/ WakeMounts(r)
         \/ MountFails(r) \/ JobTurnEnds(r) \/ TakesMessage(r) \/ ReleaseIdle(r) \/ ArchiveRun(r) \/ Saved(r)
         \/ AbortJob(r) \/ JobWorkerExits(r) \/ SlotReleased(r)
         \/ FollowUp(r) \/ CheckEnds(r) \/ RecloneEnds(r) \/ ResumeRun(r) \/ TryStartQueued(r)
      PROVE  pool' = pool
  BY <1>8 DEF RestoreEnds, CloneEnds, InstallEnds, BranchEnds, SetupMounts, WakeMounts, Mounted, MountFails,
    JobTurnEnds, TakesMessage, ReleaseIdle, ArchiveRun, Saved, AbortJob, JobWorkerExits, SlotReleased,
    FollowUp, CheckEnds, RecloneEnds, ResumeRun, TryStartQueued
<1>. QED BY <1>2, <1>3, <1>4, <1>5, <1>6, <1>7, <1>8 DEF FilesNext, ReclaimTick, fileVars

LEMMA AskedStep == ASSUME FInv, CountsAsked, [FilesNext]_fileVars PROVE CountsAsked'
<1>1. "asked" \in DOMAIN fate
  BY DEF FInv, FateTyped
<1>2. CASE fate'.asked = fate.asked
  BY <1>2 DEF CountsAsked
<1>3. ASSUME NEW r \in Jobs, FollowUp(r) PROVE CountsAsked'
  <2>1. fate'.asked = fate.asked + 1 /\ fate.asked < MaxAsked
    BY <1>1, <1>3 DEF FollowUp, FInv, FateTyped
  <2>. QED BY <2>1, FileNumbers DEF CountsAsked
<1>4. ASSUME NEW r \in Jobs, NEW f, Attach(r, f) PROVE fate'.asked = fate.asked
  BY <1>1, <1>4 DEF Attach
<1>5. ASSUME NEW r \in Jobs, NEW f, Mounted(r, f) PROVE fate'.asked = fate.asked
  BY <1>1, <1>5 DEF Mounted
<1>6. ASSUME NEW r \in Jobs, BranchEnds(r) \/ ResumeRun(r) \/ TryStartQueued(r) PROVE fate'.asked = fate.asked
  BY <1>4, <1>6 DEF BranchEnds, ResumeRun, TryStartQueued
<1>7. ASSUME NEW r \in Jobs, SetupMounts(r) \/ WakeMounts(r) PROVE fate'.asked = fate.asked
  BY <1>5, <1>7 DEF SetupMounts, WakeMounts
<1>8. ASSUME NEW r \in Jobs, ArchiveRun(r) \/ AbortJob(r) \/ CheckEnds(r) PROVE fate'.asked = fate.asked
  BY <1>1, <1>8 DEF ArchiveRun, AbortJob, CheckEnds
<1>9. ASSUME NEW r \in Jobs,
         \/ CreateRun(r) \/ RestoreEnds(r) \/ CloneEnds(r) \/ InstallEnds(r) \/ CaptureEnds(r) \/ MountFails(r)
         \/ JobTurnEnds(r) \/ TakesMessage(r) \/ ReleaseIdle(r) \/ Saved(r) \/ JobWorkerExits(r)
         \/ SlotReleased(r) \/ RecloneEnds(r)
      PROVE  fate' = fate
  BY <1>9 DEF CreateRun, RestoreEnds, CloneEnds, InstallEnds, CaptureEnds, MountFails, JobTurnEnds,
    TakesMessage, ReleaseIdle, Saved, JobWorkerExits, SlotReleased, RecloneEnds
<1>10. ASSUME SchedulerRefills \/ ReclaimTick \/ \E t \in pool.refills : RefillCopies(t) \/ RefillFails(t)
       PROVE  fate' = fate
  BY <1>10 DEF SchedulerRefills, ReclaimTick, RefillCopies, RefillFails
<1>. QED BY <1>2, <1>3, <1>6, <1>7, <1>8, <1>9, <1>10 DEF FilesNext, fileVars

LEMMA RefillTyped ==
  ASSUME PoolTyped(pool), InPool(pool), Refills(pool) PROVE pool.refills \subseteq Refill
<1>. SUFFICES ASSUME NEW t \in pool.refills PROVE t \in Refill
  OBVIOUS
<1>1. /\ t.build \in Jobs /\ t.copy \in Copies /\ t.short \in Nat \ {0}
      /\ t.index \in Indexes(pool) /\ t.index \subseteq Entry /\ IsFiniteSet(t.index)
  BY DEF PoolTyped, Indexes
<1>2. Offer(t.index, pool.copies, t.build) \in Nat
  <2>1. Usable(t.index, pool.copies, t.build) \subseteq t.index
    BY DEF Usable
  <2>. QED BY <1>1, <2>1, FS_Subset, FS_CardinalityType DEF Offer
<1>3. t.short \in 1..PoolSize
  <2>1. Offer(t.index, pool.copies, t.build) + t.short <= PoolSize
    BY DEF InPool
  <2>. QED BY <1>1, <1>2, <2>1, FileNumbers
<1>4. t = [build |-> t.build, index |-> t.index, short |-> t.short, copy |-> t.copy]
  BY DEF Refills, IsRefill
<1>. DEFINE S == 1..PoolSize
            E == SUBSET Entry
<1>5. t.short \in S /\ t.index \in E /\ Refill = [build : Jobs, index : E, short : S, copy : Copies]
  BY <1>1, <1>3 DEF Refill
<1>. HIDE DEF S, E
<1>. QED BY <1>1, <1>4, <1>5

\* The types of the runs' files, the builds and the pool: a refill under way is short of one
\* copy at least and of WARM_POOL_SIZE at most, and its index has entries only of copies and
\* builds there are (env/warm-pool.ts).
THEOREM FilesTypes == FilesSpec => []FilesTypeOK
<1>1. FilesInit => Refills(pool) /\ CountsAsked
  BY FileNumbers DEF FilesInit, Refills, CountsAsked
<1>2. FInv /\ Refills(pool) /\ CountsAsked /\ [FilesNext]_fileVars => (Refills(pool) /\ CountsAsked)'
  BY RefillsStep, AskedStep
<1>3. FInv /\ Refills(pool) /\ CountsAsked => FilesTypeOK
  <2>. SUFFICES ASSUME FInv, Refills(pool), CountsAsked PROVE FilesTypeOK
    OBVIOUS
  <2>1. files \in [Jobs -> FileRun] /\ BuildsTyped(builds) /\ FateTyped /\ PoolTyped(pool) /\ InPool(pool)
    BY DEF FInv, PoolHeld
  <2>2. pool.refills \subseteq Refill
    BY <2>1, RefillTyped
  <2>3. pool.index \subseteq Entry /\ pool.copies \in [Copies -> Places]
    BY <2>1 DEF PoolTyped, Indexes
  <2>4. builds.begun \in Seq(Jobs) /\ builds.done \subseteq Jobs /\ builds.snapshot \in [Jobs -> Places]
    BY <2>1 DEF BuildsTyped
  <2>5. fate.asked \in 0..MaxAsked /\ {fate.clash, fate.early, fate.blank} \subseteq BOOLEAN
    BY <2>1 DEF FateTyped, CountsAsked
  <2>. QED BY <2>1, <2>2, <2>3, <2>4, <2>5 DEF FilesTypeOK, FileRun, Workings
<1>. QED BY <1>1, <1>2, <1>3, FAlways, PTL DEF FilesSpec

===================================================================================
