------------------------------ MODULE Persistence ------------------------------
(***************************************************************************)
(* One run's record on disk, in the database and in the object store.      *)
(* Every handler ends in flushRun: pictures of waiting messages go to      *)
(* files of their own, files nobody names are removed, then the queue and  *)
(* the record are replaced, one after the other (persist.ts), and a copy   *)
(* is sent to the database without waiting for it (platform.ts).  Events   *)
(* schedule a copy to the object store (archive.ts).  The process may die  *)
(* between any two of these and start again, on the same disk or on an     *)
(* empty one.                                                              *)
(***************************************************************************)
EXTENDS Integers, Sequences, SequencesExt, FiniteSets

CONSTANTS
  MaxPosts,     \* bound: messages, each with one picture
  MaxCrashes,   \* bound: ends of the process
  MaxLoads,     \* bound: requests that look for a run the process does not know
  MaxSaves,     \* bound: saves to the database that are under way at once
  StoreFaults   \* which of "torn" (death inside flushRun), "mirror" (a query fails),
                \* "order" (a later save overtakes), "disk", "slow" (copies overlap) may happen
ASSUME StoreNumbers ==
  MaxPosts \in Nat /\ MaxCrashes \in Nat /\ MaxLoads \in Nat /\ MaxSaves \in Nat
ASSUME StoreFaultsKnown == StoreFaults \subseteq {"torn", "mirror", "order", "disk", "slow"}

VARIABLES
  database,   \* is DATABASE_URL set
  serving,    \* the process runs and has started up
  memory,     \* runs, followUps, inbound and activeTurns of the run
  disk,       \* its files under RUNS_DIR
  rows,       \* its rows in runs and run_queues
  saves,      \* queries of the persist hooks that have not been answered
  archive,    \* its objects under artifactKey and the pictures copied beside them
  due,        \* the archive timer is set
  copies,     \* archiveRunArtifacts calls under way
  loads,      \* requests in loadRunIntoMemory or restoreArchivedRun that wait
  storePast   \* history: posts, crashes, waiting, deleted, torn and mishaps
storeVars == <<database, serving, memory, disk, rows, saves, archive, due, copies, loads, storePast>>

Posts == 1..MaxPosts
States == {"none", "open", "archived", "deleted"}
\* The queue of a run: messages nobody has taken, those among them that have their
\* picture, and the turn under way with its picture.
Queue == [open : SUBSET Posts, pics : SUBSET Posts, turn : 0..MaxPosts, turnPic : 0..MaxPosts]
EmptyQueue == [open |-> {}, pics |-> {}, turn |-> 0, turnPic |-> 0]
\* A run as the process has it, and as files or rows: has tells whether the queue's own
\* file or row exists.
Document == [state : States, queue : Queue]
Stored == [state : States, queue : Queue, has : BOOLEAN]
Nowhere == [state |-> "none", queue |-> EmptyQueue]
NothingStored == [state |-> "none", queue |-> EmptyQueue, has |-> FALSE]
\* Picture files: of follow-ups, and the one whose name the active turn has, whatever
\* turn that is (mapRecordImages: `active-${type}`).
Files == [state : States, queue : Queue, has : BOOLEAN, pics : SUBSET Posts, turnPic : 0..MaxPosts]
NoFiles == [state |-> "none", queue |-> EmptyQueue, has |-> FALSE, pics |-> {}, turnPic |-> 0]

StoreTypeOK ==
  /\ database \in BOOLEAN /\ serving \in BOOLEAN /\ due \in BOOLEAN
  /\ memory \in Document /\ disk \in Files /\ archive \in Files /\ rows \in Stored
  /\ saves \in Seq([doc : Document, at : {"queue", "record", "drop"}])
  /\ copies \in Seq([of : Stored, at : {"record", "queue", "pics"}])
  /\ loads \in Seq([via : {"database", "archive"}, doc : Document, pics : SUBSET Posts,
                    turnPic : 0..MaxPosts, at : {"read", "written"}])
  /\ storePast.posts \in 0..MaxPosts /\ storePast.crashes \in 0..MaxCrashes
  /\ storePast.loads \in 0..MaxLoads
  /\ storePast.waiting \subseteq Posts /\ storePast.torn \subseteq Posts
  /\ storePast.hit \subseteq {"mirror", "order", "late", "disk", "picture", "reload"}

StoreInit ==
  /\ database \in BOOLEAN /\ serving = TRUE
  /\ memory = [state |-> "open", queue |-> EmptyQueue]
  /\ disk = [NoFiles EXCEPT !.state = "open", !.has = TRUE]
  /\ rows = IF database THEN [state |-> "open", queue |-> EmptyQueue, has |-> TRUE]
            ELSE NothingStored
  /\ saves = <<>> /\ copies = <<>> /\ loads = <<>> /\ archive = NoFiles /\ due = TRUE
  /\ storePast = [posts |-> 0, crashes |-> 0, loads |-> 0, waiting |-> {}, deleted |-> FALSE,
                  torn |-> {}, hit |-> {}]

Suffers(what) == storePast' = [storePast EXCEPT !.hit = @ \cup what]
At(s, i, stage) == [s EXCEPT ![i].at = stage]

-----------------------------------------------------------------------------
(* Files. *)

\* collectObjectKeys: the pictures of waiting messages that a queue names.
NamedNone(q) == {}
NamedIn(q) == q.pics

\* What a document makes of the files when persistRunRecord gets as far as step `upTo`:
\* 1 the pictures are written, 2 files that no part of the queue names are removed, 3
\* the queue file is replaced, 4 the record.  A document that comes from rows or from
\* the archive has names for pictures, which stay as they are.
FilesAfter(f, d, upTo, bytes) ==
  LET put    == IF bytes THEN f.pics \cup d.queue.pics ELSE f.pics
      turned == IF bytes /\ d.queue.turnPic # 0 THEN d.queue.turnPic ELSE f.turnPic
  IN [state   |-> IF upTo >= 4 THEN d.state ELSE f.state,
      queue   |-> IF upTo >= 3 THEN d.queue ELSE f.queue,
      has     |-> IF upTo >= 3 THEN TRUE ELSE f.has,
      pics    |-> IF upTo >= 2 THEN put \cap NamedIn(d.queue) ELSE put,
      turnPic |-> IF upTo >= 2 /\ d.queue.turnPic = 0 THEN 0 ELSE turned]

MergedFat(s) == [state |-> s.state, queue |-> EmptyQueue]
\* mergeStoredRun: a record without its queue has an empty one.
Merged(s) == [state |-> s.state, queue |-> IF s.has THEN s.queue ELSE EmptyQueue]
\* resolvePersistedRun: names become pictures where the file is there.
Resolved(d, f) ==
  [d EXCEPT !.queue.pics = @ \cap f.pics,
            !.queue.turnPic = IF @ = 0 THEN 0 ELSE f.turnPic]
\* hydrateRecord of what the files hold; a deleted run is not taken in.
Hydrated(f) ==
  IF f.state \in {"none", "deleted"} THEN Nowhere ELSE Resolved(Merged(f), f)

\* reclaimPersistedRun
Reclaimed(f) == [f EXCEPT !.queue = EmptyQueue, !.has = FALSE, !.pics = {}, !.turnPic = 0]

-----------------------------------------------------------------------------
(* Handlers.  Each changes the run, publishes an event and flushes. *)

\* The hooks' queries for a record, if there is a database.
Mirrors(items) == saves' = IF database THEN saves \o items ELSE saves
SaveOf(d) == <<[doc |-> d, at |-> "queue"]>>
Room == database => Len(saves) < MaxSaves

\* The process dies with whatever was under way; what it had stored stays.
Dies ==
  /\ serving' = FALSE /\ memory' = Nowhere /\ saves' = <<>> /\ copies' = <<>> /\ loads' = <<>>
  /\ due' = FALSE /\ UNCHANGED <<database, rows, archive>>
Late == IF saves # <<>> THEN {"late"} ELSE {}
CanDie == storePast.crashes < MaxCrashes

\* flushRun of the document d, with the history `past` if it comes to its end.
Flushes(d, past) ==
  \/ /\ disk' = FilesAfter(disk, d, 4, TRUE) /\ memory' = d /\ Mirrors(SaveOf(d)) /\ due' = TRUE
     /\ storePast' = past
     /\ UNCHANGED <<database, serving, rows, archive, copies, loads>>
  \/ /\ "torn" \in StoreFaults /\ CanDie
     /\ \E upTo \in 0..3 : disk' = FilesAfter(disk, d, upTo, TRUE)
     /\ storePast' = [storePast EXCEPT !.crashes = @ + 1, !.hit = @ \cup Late,
                        !.torn = @ \cup ((memory.queue.open \ d.queue.open)
                                         \cup ({d.queue.turn, memory.queue.turn} \ {0}))]
     /\ Dies

Working == serving /\ memory.state \in {"open", "archived"} /\ Room

\* enqueueFollowUp: a message with a picture.
Queues ==
  /\ Working /\ memory.state = "open" /\ storePast.posts < MaxPosts
  /\ LET m == storePast.posts + 1
     IN Flushes([memory EXCEPT !.queue.open = @ \cup {m}, !.queue.pics = @ \cup {m}],
                [storePast EXCEPT !.posts = m, !.waiting = @ \cup {m}])

\* takeInbound: the worker has the messages, the last one is the active turn; delivered
\* messages keep no picture (stripDeliveredImages), the active turn does.
HandsOut ==
  /\ Working /\ memory.queue.open # {}
  /\ LET q == memory.queue
         m == CHOOSE n \in q.open : \A o \in q.open : o <= n
     IN Flushes([memory EXCEPT !.queue = [open |-> {}, pics |-> {}, turn |-> m,
                                          turnPic |-> IF m \in q.pics THEN m ELSE 0]],
                [storePast EXCEPT !.waiting = @ \ q.open])

\* agent.end of a run that has not been archived
Finishes ==
  /\ Working /\ memory.state = "open" /\ memory.queue.turn # 0
  /\ Flushes([memory EXCEPT !.queue.turn = 0, !.queue.turnPic = 0], storePast)

\* archiveRun
ShelvesRun ==
  /\ Working /\ memory.state = "open"
  /\ Flushes([memory EXCEPT !.state = "archived"], storePast)

\* deleteRun: flushRun, reclaimPersistedRun and forgetDeletedRun in one turn; death may
\* find the record marked and the queue still there.
DeletesRun ==
  LET d == [memory EXCEPT !.state = "deleted"]
      f == FilesAfter(disk, d, 4, TRUE)
  IN /\ Working /\ memory.state = "archived"
     /\ \/ /\ disk' = Reclaimed(f) /\ memory' = Nowhere /\ due' = TRUE
           /\ Mirrors(SaveOf(d) \o <<[doc |-> d, at |-> "drop"]>>)
           /\ storePast' = [storePast EXCEPT !.deleted = TRUE, !.waiting = {}]
           /\ UNCHANGED <<database, serving, rows, archive, copies, loads>>
        \/ /\ "torn" \in StoreFaults /\ CanDie
           /\ \E upTo \in 0..4 : disk' = FilesAfter(disk, d, upTo, TRUE)
           /\ storePast' = [storePast EXCEPT !.crashes = @ + 1, !.waiting = {},
                                             !.hit = @ \cup Late]
           /\ Dies

-----------------------------------------------------------------------------
(* The database. *)

\* Saves of a run go over a pool of connections: each waits for its queue row before it
\* writes the run's row, and nothing orders one save behind another.
Overtakes(i) == \E j \in 1..(i - 1) : saves[j].at = saves[i].at \/ saves[i].at = "drop"
Answered(i) ==
  CASE saves[i].at = "queue" -> At(saves, i, "record")
    [] OTHER -> RemoveAt(saves, i)
SaveLands(i) ==
  LET s == saves[i]
  IN /\ Overtakes(i) => "order" \in StoreFaults
     /\ Suffers(IF Overtakes(i) THEN {"order"} ELSE {})
     /\ rows' = CASE s.at = "queue"  -> [rows EXCEPT !.queue = s.doc.queue, !.has = TRUE]
                  [] s.at = "record" -> [rows EXCEPT !.state = s.doc.state]
                  [] s.at = "drop"   -> [rows EXCEPT !.queue = EmptyQueue, !.has = FALSE]
     /\ saves' = Answered(i)
     /\ UNCHANGED <<database, serving, memory, disk, archive, due, copies, loads>>
SaveFails(i) ==
  /\ "mirror" \in StoreFaults /\ "mirror" \notin storePast.hit
  /\ saves' = RemoveAt(saves, i) /\ Suffers({"mirror"})
  /\ UNCHANGED <<database, serving, memory, disk, rows, archive, due, copies, loads>>

-----------------------------------------------------------------------------
(* The object store. *)

\* The timer of scheduleArchive: archiveRunArtifacts reads the files and copies them.
CopyStarts ==
  /\ due /\ serving /\ (copies = <<>> \/ ("slow" \in StoreFaults /\ Len(copies) < 2))
  /\ due' = FALSE
  /\ copies' = Append(copies, [of |-> [state |-> disk.state, queue |-> disk.queue, has |-> disk.has],
                               at |-> "record"])
  /\ Suffers(IF copies = <<>> THEN {} ELSE {"disk"})
  /\ UNCHANGED <<database, serving, memory, disk, rows, saves, archive, loads>>

\* One object after another: the record, the queue if there is one, and then the
\* pictures that are on disk by then.
CopyGoesOn(i) ==
  LET c == copies[i]
  IN /\ archive' = CASE c.at = "record" -> IF c.of.state = "none" THEN archive
                                           ELSE [archive EXCEPT !.state = c.of.state]
                     [] c.at = "queue" -> IF c.of.has
                                          THEN [archive EXCEPT !.queue = c.of.queue, !.has = TRUE]
                                          ELSE archive
                     [] c.at = "pics" -> [archive EXCEPT !.pics = @ \cup disk.pics,
                                            !.turnPic = IF disk.turnPic # 0 THEN disk.turnPic ELSE @]
     /\ copies' = CASE c.at = "record" -> At(copies, i, "queue")
                    [] c.at = "queue" -> At(copies, i, "pics")
                    [] c.at = "pics" -> RemoveAt(copies, i)
     /\ UNCHANGED <<database, serving, memory, disk, rows, saves, due, loads, storePast>>

-----------------------------------------------------------------------------
(* Ends and starts of the process. *)

Dying ==
  /\ serving /\ CanDie /\ Dies
  /\ storePast' = [storePast EXCEPT !.crashes = @ + 1, !.hit = @ \cup Late]
  /\ UNCHANGED disk

\* A new host: the files are gone.  They can be had again if the object store has all of
\* it; a database has the queue but no pictures.
LosesDisk ==
  /\ "disk" \in StoreFaults /\ ~serving /\ disk # NoFiles
  /\ LET copied == /\ archive.state = disk.state /\ archive.queue = disk.queue
                   /\ disk.pics \subseteq archive.pics /\ archive.turnPic = disk.turnPic
     IN Suffers((IF copied THEN {} ELSE {"disk"}) \cup (IF database THEN {"picture"} ELSE {}))
  /\ disk' = NoFiles
  /\ UNCHANGED <<database, serving, memory, rows, saves, archive, due, copies, loads>>

\* doStart: hydrateFromStore writes the rows of runs that are not deleted over the files
\* and everything is read again; without a database, or when it fails, what the files
\* hold stays.  The server listens when this is over.
Starts(hydrates) ==
  /\ ~serving /\ serving' = TRUE
  /\ ~hydrates => ~database \/ rows.state \in {"none", "deleted"} \/ "mirror" \in StoreFaults
  /\ hydrates => database /\ rows.state \notin {"none", "deleted"}
  /\ disk' = IF hydrates THEN FilesAfter(disk, Merged(rows), 4, FALSE) ELSE disk
  /\ memory' = Hydrated(disk')
  /\ UNCHANGED <<database, rows, saves, archive, due, copies, loads, storePast>>

-----------------------------------------------------------------------------
(* Requests for a run the process does not know. *)

\* loadRunIntoMemory from the files.
LoadsFile ==
  /\ serving /\ memory = Nowhere /\ Hydrated(disk) # Nowhere
  /\ memory' = Hydrated(disk)
  /\ UNCHANGED <<database, serving, disk, rows, saves, archive, due, copies, loads, storePast>>

\* It reads the database, or the objects, and waits.  A deleted row is passed over, and
\* the objects are asked instead.
LoadStarts(via) ==
  /\ serving /\ memory = Nowhere /\ disk.state = "none" /\ storePast.loads < MaxLoads
  /\ IF via = "database" THEN database /\ rows.state \notin {"none", "deleted"}
     ELSE archive.state # "none" /\ (database /\ "mirror" \notin StoreFaults => rows.state \in {"none", "deleted"})
  /\ LET from == IF via = "database" THEN Merged(rows)
                 ELSE Merged([state |-> archive.state, queue |-> archive.queue, has |-> archive.has])
     IN loads' = Append(loads, [via |-> via, doc |-> from, at |-> "read",
                                pics |-> archive.pics, turnPic |-> archive.turnPic])
  /\ storePast' = [storePast EXCEPT !.loads = @ + 1]
  /\ UNCHANGED <<database, serving, memory, disk, rows, saves, archive, due, copies>>

Again == IF memory # Nowhere \/ disk.state = "deleted" THEN {"reload"} ELSE {}

\* The row has come: it is written, events are awaited, and the run is taken in.
RowLoaded(i) ==
  /\ loads[i].via = "database"
  /\ IF loads[i].at = "read"
     THEN /\ disk' = FilesAfter(disk, loads[i].doc, 4, FALSE)
          /\ loads' = At(loads, i, "written") /\ UNCHANGED memory
     ELSE /\ memory' = Resolved(loads[i].doc, disk)
          /\ loads' = RemoveAt(loads, i) /\ UNCHANGED disk
  /\ Suffers(Again)
  /\ UNCHANGED <<database, serving, rows, saves, archive, due, copies>>

RefusedNever == FALSE
\* The record on disk says that the run was deleted while its objects were read.
Refused == disk.state = "deleted"

\* restoreArchivedArtifacts and the rest of restoreArchivedRun: the pictures are written,
\* then the record unless the run has been deleted meanwhile.
Restored(i) ==
  LET g == loads[i]
      f == [disk EXCEPT !.pics = @ \cup g.pics, !.turnPic = IF g.turnPic # 0 THEN g.turnPic ELSE @]
  IN /\ g.via = "archive" /\ loads' = RemoveAt(loads, i)
     /\ disk' = IF Refused THEN f ELSE FilesAfter(f, g.doc, 4, FALSE)
     /\ memory' = IF Refused \/ g.doc.state = "deleted" THEN memory ELSE Resolved(g.doc, disk')
     /\ IF Refused THEN UNCHANGED saves ELSE Mirrors(SaveOf(g.doc))
     /\ Suffers(IF memory # Nowhere THEN {"reload"} ELSE {})
     /\ UNCHANGED <<database, serving, rows, archive, due, copies>>

-----------------------------------------------------------------------------
Loading(i) == RowLoaded(i) \/ Restored(i)
StoreNext ==
  \/ Queues \/ HandsOut \/ Finishes \/ ShelvesRun \/ DeletesRun
  \/ \E i \in DOMAIN saves : SaveLands(i) \/ SaveFails(i)
  \/ CopyStarts \/ \E i \in DOMAIN copies : CopyGoesOn(i)
  \/ Dying \/ LosesDisk \/ \E b \in BOOLEAN : Starts(b)
  \/ LoadsFile \/ \E via \in {"database", "archive"} : LoadStarts(via)
  \/ \E i \in DOMAIN loads : Loading(i)

StoreSpec == StoreInit /\ [][StoreNext]_storeVars

-----------------------------------------------------------------------------
(* Properties *)

\* What the process knows of the run, or would once it starts or is asked.
Known == IF memory # Nowhere THEN memory ELSE Hydrated(disk)
Spared(mishaps) == storePast.hit \cap mishaps = {}
\* The run is at hand, or will be: its files are there or nobody has asked for it yet.
AtHand == memory # Nowhere \/ disk.state # "none"

\* A message that was accepted and not handed to a worker is in the queue, whatever died
\* in between (flushRun, hydrateFromStore, restoreArchivedArtifacts).  Left out: saves to
\* the database that failed, overtook each other or died with the process, a disk lost
\* before it was copied, and a run loaded over itself.
NothingForgotten ==
  Spared({"mirror", "order", "late", "disk", "reload"}) /\ AtHand
    => storePast.waiting \ storePast.torn \subseteq Known.queue.open
NothingForgottenAlways == AtHand => storePast.waiting \subseteq Known.queue.open

\* A waiting message keeps its picture through flushes, deaths, starts and restores
\* (persistImagesForRecord: pictures before the queue that names them), and the turn under
\* way is sent again with its own picture or none, though all turns use one file name.
\* Left out besides: a disk lost under a database, and messages whose flush was cut short.
PicturesKept ==
  LET q == Known.queue
  IN Spared({"mirror", "order", "late", "disk", "reload", "picture"})
       => /\ AtHand => q.open \ storePast.torn \subseteq q.pics
          /\ q.turn \notin storePast.torn => q.turnPic \in {0, q.turn}
PicturesKeptAlways == AtHand => Known.queue.open \subseteq Known.queue.pics
OwnPictureAlways == Known.queue.turnPic \in {0, Known.queue.turn}

\* A deleted run stays deleted, though requests for it were waiting for the object store
\* when it was deleted (archive.test.ts: "restore does not overwrite a
\* soft-deleted run record").
StaysDeleted ==
  storePast.deleted /\ Spared({"mirror", "order", "late", "disk", "reload"})
    => memory = Nowhere /\ disk.state \in {"none", "deleted"}
StaysDeletedAlways == storePast.deleted => memory = Nowhere
===============================================================================
