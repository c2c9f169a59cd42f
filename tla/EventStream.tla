------------------------------ MODULE EventStream ------------------------------
(***************************************************************************)
(* The event log of one run and a browser that shows it.  publish (bus.ts) *)
(* keeps the log in memory and on disk and sends every event to the open   *)
(* streams; history.ts folds the token deltas of a finished message into   *)
(* one event, in memory only; attachEventStream (stream.ts) replays what   *)
(* comes after the reader's cursor; the client (web/src/App.tsx) starts    *)
(* from a snapshot, reconnects with its cursor, and fetches the snapshot   *)
(* again when the stream is quiet and the run's last id is not its own.    *)
(*                                                                         *)
(* An event is its number in the log on disk.  In memory and on the wire   *)
(* an item [from, to] carries the events from..to under the id `to`.       *)
(***************************************************************************)
EXTENDS Integers, Sequences, SequencesExt, FiniteSets, FiniteSetsExt

CONSTANTS
  MaxEvents,   \* bound: events of the run
  MaxBreaks    \* bound: broken streams and restarts of the control plane

ASSUME StreamNumbers == MaxEvents \in Nat /\ MaxBreaks \in Nat

VARIABLES
  log,       \* the persisted log: the kinds of the events
  hot,       \* history.get(run): what is kept in memory
  saved,     \* the compiled transcript on disk
  archived,  \* the run is archived: its history is dropped
  wire,      \* items on their way to the reader
  reader,    \* the client
  past       \* history: breaks, and what the provisos of the properties name
streamVars == <<log, hot, saved, archived, wire, reader, past>>

Kinds == {"delta", "end", "other"}   \* "end": message.end and the others of FOLD_AFTER
Ids == 1..MaxEvents
Item == [from : Ids, to : Ids]
Snapshot == [last : 0..MaxEvents, shown : SUBSET Ids]

StreamTypeOK ==
  /\ log \in Seq(Kinds) /\ Len(log) <= MaxEvents
  /\ hot \in Seq(Item) /\ wire \in Seq(Item)
  /\ saved \in Snapshot /\ archived \in BOOLEAN
  /\ reader.pc \in {"closed", "opening", "off", "open"} /\ reader.snapshot \in Snapshot
  /\ reader.shown \subseteq Ids /\ reader.applied \subseteq Ids
  /\ reader.cursor \in 0..MaxEvents /\ reader.last \in 0..MaxEvents
  /\ reader.poll \in {"no", "run", "body"} /\ reader.polled \in Snapshot
  /\ past.breaks \in 0..MaxBreaks
  /\ {past.twice, past.lostCursor, past.polled, past.stale, past.late} \subseteq BOOLEAN

Nothing == [last |-> 0, shown |-> {}]
StreamInit ==
  /\ log = <<>> /\ hot = <<>> /\ wire = <<>> /\ saved = Nothing /\ archived = FALSE
  /\ reader = [pc |-> "closed", snapshot |-> Nothing, shown |-> {}, applied |-> {}, cursor |-> 0,
               last |-> 0, poll |-> "no", polled |-> Nothing]
  /\ past = [breaks |-> 0, twice |-> FALSE, lostCursor |-> FALSE, polled |-> FALSE,
             stale |-> FALSE, late |-> FALSE]

-----------------------------------------------------------------------------
(* history.ts                                                              *)

(* The first item of the run of deltas that ends at place i of a list.     *)
IsDelta(kinds, item) == kinds[item.from] = "delta"
RunStart(kinds, list, i) ==
  CHOOSE k \in 1..i : /\ \A j \in k..i : IsDelta(kinds, list[j])
                      /\ k > 1 => ~IsDelta(kinds, list[k - 1])

(* compactClosedDeltaRuns                                                  *)
FoldClosed(kinds, list) ==
  LET i == Len(list) - 1
  IN IF i < 2 \/ kinds[Last(list).to] # "end" \/ ~IsDelta(kinds, list[i]) THEN list
     ELSE LET k == RunStart(kinds, list, i)
          IN SubSeq(list, 1, k - 1)
             \o <<[from |-> list[k].from, to |-> list[i].to], Last(list)>>

(* compactHotEvents: `out` after each of the events.                      *)
FoldIn(kinds, list, id) ==
  IF list # <<>> /\ kinds[id] = "delta" /\ IsDelta(kinds, Last(list))
  THEN [list EXCEPT ![Len(list)].to = id]
  ELSE Append(list, [from |-> id, to |-> id])
CompactHot(kinds) ==
  LET out[n \in 0..Len(kinds)] == IF n = 0 THEN <<>> ELSE FoldIn(kinds, out[n - 1], n)
  IN out[Len(kinds)]

-----------------------------------------------------------------------------
(* bus.ts, snapshot.ts                                                     *)

Covered(list) == UNION {list[i].from..list[i].to : i \in DOMAIN list}
SnapshotOf(list) == [last |-> IF list = <<>> THEN 0 ELSE Last(list).to, shown |-> Covered(list)]

(* eventsForRun, lastEventIdForRun                                         *)
EventsForRun == IF hot # <<>> THEN hot ELSE CompactHot(log)
LastEventId == IF hot # <<>> THEN Last(hot).to ELSE Len(log)

(* snapshotForRun: memory, or the compiled transcript if it is of the last *)
(* event, or the log.                                                      *)
SnapshotForRun ==
  IF hot = <<>> /\ saved.last = Len(log) THEN saved ELSE SnapshotOf(EventsForRun)

(* listEventsAfter: a cursor that memory does not know any more gets       *)
(* nothing; as if it got everything, which appends the story again.        *)
After(list, cursor) ==
  IF cursor = 0 THEN list
  ELSE LET known == {i \in DOMAIN list : list[i].to = cursor}
       IN IF known = {} THEN <<>> ELSE SubSeq(list, Max(known) + 1, Len(list))
Unknown(cursor) == cursor # 0 /\ \A i \in DOMAIN EventsForRun : EventsForRun[i].to # cursor
AfterOrAll(cursor) == IF Unknown(cursor) THEN EventsForRun ELSE After(EventsForRun, cursor)
AfterNext(cursor) ==
  LET items == After(EventsForRun, cursor) IN IF items = <<>> THEN items ELSE Tail(items)
ListEventsAfter(cursor) == After(EventsForRun, cursor)

(* publish: append, fold, compile the transcript, send.                    *)
Publish(kind) ==
  LET id == Len(log) + 1
      kinds == Append(log, kind)
      list == FoldClosed(kinds, Append(hot, [from |-> id, to |-> id]))
  IN /\ log' = kinds /\ hot' = list
     /\ saved' = IF kind = "delta" THEN saved ELSE SnapshotOf(list)
     /\ wire' = IF reader.pc = "open" THEN Append(wire, [from |-> id, to |-> id]) ELSE wire

PublishEvent(kind) ==
  /\ Len(log) < MaxEvents
  /\ Publish(kind)
  /\ past' = [past EXCEPT !.late = @ \/ archived]
  /\ UNCHANGED <<archived, reader>>

(* archiveRun: the last event, then dropHistory.                           *)
ArchiveDropsHistory ==
  /\ ~archived /\ archived' = TRUE /\ Len(log) < MaxEvents
  /\ log' = Append(log, "other") /\ hot' = <<>>
  /\ saved' = SnapshotOf(Append(hot, [from |-> Len(log) + 1, to |-> Len(log) + 1]))
  /\ wire' = IF reader.pc = "open" THEN Append(wire, [from |-> Len(log) + 1, to |-> Len(log) + 1])
             ELSE wire
  /\ UNCHANGED <<reader, past>>

(* A restart reads the log of a run that is not archived back, folded.     *)
Restart ==
  /\ past.breaks < MaxBreaks /\ past' = [past EXCEPT !.breaks = @ + 1]
  /\ hot' = IF archived THEN <<>> ELSE CompactHot(log)
  /\ wire' = <<>>
  /\ reader' = [reader EXCEPT !.pc = IF @ = "open" THEN "off" ELSE @]
  /\ UNCHANGED <<log, saved, archived>>

-----------------------------------------------------------------------------
(* The client: web/src/App.tsx                                             *)

(* openRun: the transcript is fetched, shown, and listened from.           *)
OpensRun ==
  /\ reader.pc = "closed"
  /\ reader' = [reader EXCEPT !.pc = "opening", !.snapshot = SnapshotForRun]
  /\ UNCHANGED <<log, hot, saved, archived, wire, past>>

ShowsRun ==
  /\ reader.pc = "opening"
  /\ reader' = [reader EXCEPT !.pc = "off", !.snapshot = Nothing, !.shown = reader.snapshot.shown,
                  !.cursor = reader.snapshot.last, !.last = reader.snapshot.last]
  /\ UNCHANGED <<log, hot, saved, archived, wire, past>>

(* attachEventStream, for a first connection, for EventSource's own retry  *)
(* (last-event-id) or for a new one of listen (after=lastEventIdRef).      *)
Connects ==
  /\ reader.pc = "off"
  /\ \E cursor \in {reader.last, reader.cursor} :
       /\ reader' = [reader EXCEPT !.pc = "open", !.last = cursor]
       /\ wire' = ListEventsAfter(cursor)
       /\ past' = [past EXCEPT !.lostCursor = @ \/ Unknown(cursor)]
  /\ UNCHANGED <<log, hot, saved, archived>>

StreamDrops ==
  /\ reader.pc = "open" /\ past.breaks < MaxBreaks
  /\ past' = [past EXCEPT !.breaks = @ + 1]
  /\ reader' = [reader EXCEPT !.pc = "off"] /\ wire' = <<>>
  /\ UNCHANGED <<log, hot, saved, archived>>

(* onmessage and flush: an id that was applied is skipped; a delta is      *)
(* appended to the text that is there.                                     *)
Receives ==
  /\ wire # <<>> /\ wire' = Tail(wire)
  /\ LET item == Head(wire)
         carried == item.from..item.to
     IN IF item.to \in reader.applied
        THEN reader' = [reader EXCEPT !.last = item.to] /\ past' = past
        ELSE /\ reader' = [reader EXCEPT !.last = item.to, !.cursor = item.to,
                             !.applied = @ \cup {item.to}, !.shown = @ \cup carried]
             /\ past' = [past EXCEPT !.twice = @ \/ \E id \in carried \cap reader.shown :
                                                      log[id] = "delta"]
  /\ UNCHANGED <<log, hot, saved, archived>>

(* The poll of a quiet stream: GET the run ...                             *)
PollAsks ==
  /\ reader.pc \in {"off", "open"} /\ reader.poll = "no"
  /\ reader.cursor # LastEventId   \* else nothing comes of it
  /\ reader' = [reader EXCEPT !.poll = "run", !.polled = [last |-> LastEventId, shown |-> {}]]
  /\ UNCHANGED <<log, hot, saved, archived, wire, past>>

(* ... and if its last id is not the one applied, GET the transcript ...   *)
NeverNeeded(last) == FALSE
TranscriptBodyNeeded(last) == last # reader.cursor
PollCompares ==
  /\ reader.poll = "run"
  /\ reader' = IF TranscriptBodyNeeded(reader.polled.last)
               THEN [reader EXCEPT !.poll = "body", !.polled = SnapshotForRun]
               ELSE [reader EXCEPT !.poll = "no", !.polled = Nothing]
  /\ UNCHANGED <<log, hot, saved, archived, wire, past>>

(* ... and show it in place of what was shown, although the stream may     *)
(* have brought more since, or may still bring what is in it.              *)
PollShows ==
  /\ reader.poll = "body"
  /\ LET r == [reader EXCEPT !.poll = "no", !.polled = Nothing]
         body == reader.polled
     IN IF body.last = reader.cursor
        THEN reader' = r /\ past' = past
        ELSE /\ reader' = [r EXCEPT !.shown = body.shown, !.cursor = body.last]
             /\ past' = [past EXCEPT !.polled = TRUE,
                                     !.stale = @ \/ ~(reader.shown \subseteq body.shown)]
  /\ UNCHANGED <<log, hot, saved, archived, wire>>

-----------------------------------------------------------------------------
ClientMoves == OpensRun \/ ShowsRun \/ Connects \/ Receives \/ PollAsks \/ PollCompares \/ PollShows
StreamNext ==
  \/ ClientMoves \/ ArchiveDropsHistory \/ Restart \/ StreamDrops
  \/ \E kind \in Kinds : PublishEvent(kind)

StreamSpec == StreamInit /\ [][StreamNext]_streamVars

-----------------------------------------------------------------------------
(* No token is shown twice, over reconnects, restarts and folded messages  *)
(* (bus.ts:120, "replaying the whole log appends the story again"), unless *)
(* a polled snapshot took the place of what the stream had brought.        *)
StoryOnce == past.twice => past.polled

(* What the reader shows has no hole before its last event, unless it came *)
(* back with the id of a delta that was folded away (bus.ts:122), a polled *)
(* snapshot was older than what it replaced, or an event came after the    *)
(* archive.                                                                *)
Whole == \A id \in reader.shown : 1..id \subseteq reader.shown
StoryWhole == Whole \/ past.lostCursor \/ past.stale \/ past.late

(* Once the run falls silent a reader comes to show all of it, or has a    *)
(* hole that StoryWhole names the reasons of.                              *)
CaughtUp == <>[](~Whole \/ reader.shown = DOMAIN log)

(* Reproductions: without the provisos.                                    *)
StoryWholeAlways == Whole
StoryOnceAlways == ~past.twice
CaughtUpAlways == <>[](reader.shown = DOMAIN log)
(* "archived / evicted runs read the persisted log" (bus.ts:105)           *)
ArchiveReadsLog == archived => SnapshotForRun.shown = DOMAIN log
=============================================================================
