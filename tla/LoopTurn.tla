------------------------------- MODULE LoopTurn -------------------------------
(***************************************************************************)
(* The turns of one Remote Control run (kernel agentscope, tools on a      *)
(* desk).  The orchestrator hands the messages of the run one by one to    *)
(* neo-loop (loop/client.ts: pendingLoopStarts, startingLoopTurns,         *)
(* pendingFollowUps and run.currentTurnId), neo-loop runs each in a turn   *)
(* (packages/loop: turn.ts, server.ts) that ends with a turn-complete call,*)
(* and the desk's tools worker comes and goes in between.                  *)
(*                                                                         *)
(* Both processes are single JavaScript threads: an action is the code     *)
(* between two awaits.  A turn is its place in `turns`, a message its      *)
(* number in the order of sending.  The control plane does not restart,    *)
(* the run is not archived, and the channel to the worker is only "there"  *)
(* or "not there".                                                         *)
(***************************************************************************)
EXTENDS Integers, Sequences, FiniteSets, SequencesExt

CONSTANTS
  MaxMsgs,    \* bound: the first prompt and its follow-ups
  MaxLosses,  \* bound: turn-complete requests or replies that get lost
  MaxStops,   \* bound: how often the user presses Stop
  Features,   \* which of the feature names below are used
  Faults      \* which of the fault names below may happen

ASSUME BoundsAssumption ==
  MaxMsgs \in Nat \ {0} /\ MaxLosses \in Nat /\ MaxStops \in Nat
ASSUME NamesAssumption ==
  /\ Features \subseteq {"steer", "twice", "leave", "tardy"}
  /\ Faults \subseteq {"refuse", "lost", "gateway", "slow", "crash", "reject"}

Msgs == 1..MaxMsgs

VARIABLES
  cp,       \* the run's record and the orchestrator's maps for it
  turns,    \* every turn that was dispatched, in that order
  signals,  \* POST .../signal requests on their way to neo-loop
  worker,   \* the tools worker on the desk
  offer,    \* the desk has an assignment it has not acted on
  sent,     \* messages accepted so far
  gone,     \* history: [given |-> pending starts a failRun deleted, steered |->
            \*   messages sent as steers, missed |-> ones no turn read]
  hit,      \* history: which mishaps have happened
  losses, stops

vars == <<cp, turns, signals, worker, offer, sent, gone, hit, losses, stops>>

Mishaps == {"refused", "lost", "failed", "rejected", "idleClaim", "early"}
\* beat: heartbeats has an entry younger than the timeout; handle: handles has one;
\* mail: inbound holds an abort item.
ControlPlane ==
  [status : {"NOT_YET_STARTED", "RUNNING", "IDLE", "ERROR"},
   handle : BOOLEAN, beat : BOOLEAN, pending : Nat, queue : Seq(Nat \ {0}),
   starting : BOOLEAN, cur : Nat, mail : BOOLEAN]
\* sent: its POST is under way.  complete: its turn-complete request is; answer:
\* the request was handled and the reply is.  last: it was sent from the catch
\* block, so nothing catches its failure.
Turn ==
  [msg : Nat \ {0},
   pc : {"sent", "refused", "ensure", "start", "infer", "final", "complete",
         "answer", "done", "dead"},
   aborted : BOOLEAN, steers : Seq(Nat),
   end : {"open", "idle", "cancelled", "error"}, last : BOOLEAN]
Signal == [turn : Nat, msg : Nat]    \* msg 0: {type: "abort"}

TypeOK ==
  /\ cp \in ControlPlane
  /\ turns \in Seq(Turn)
  /\ signals \subseteq Signal
  /\ worker \in {"none", "up", "stopping", "exited", "crashed"}
  /\ offer \in BOOLEAN
  /\ sent \in Nat
  /\ gone \in [given : SUBSET Nat, steered : SUBSET Nat, missed : SUBSET Nat]
  /\ hit \subseteq Mishaps
  /\ losses \in Nat /\ stops \in Nat

\* createRun has put the prompt into pendingLoopStarts and told the desk.
Init ==
  /\ cp = [status |-> "NOT_YET_STARTED", handle |-> FALSE, beat |-> FALSE,
           pending |-> 1, queue |-> <<>>, starting |-> FALSE, cur |-> 0,
           mail |-> FALSE]
  /\ turns = <<>> /\ signals = {} /\ worker = "none" /\ offer = TRUE
  /\ sent = 1 /\ gone = [given |-> {}, steered |-> {}, missed |-> {}]
  /\ hit = {} /\ losses = 0 /\ stops = 0

-----------------------------------------------------------------------------
(* What the orchestrator's helpers do to its record c.                     *)

IsWorkerAttached(c) == c.handle \/ c.beat
HasPending(c) == c.pending # 0 \/ c.queue # <<>>

\* Slips that a run must catch: each stands for the definition it precedes.
ParkAny(c) == [c EXCEPT !.pending = 0, !.queue = Append(@, c.pending)]
ParkPendingLoopStart(c) ==
  [c EXCEPT !.pending = 0,
            !.queue = IF c.pending # 0 THEN Append(@, c.pending) ELSE @]

\* startPendingLoopTurn up to the await of dispatchTurn's fetch.
Dispatches(c) == ~c.starting /\ c.cur = 0 /\ c.pending # 0
StartedKeeping(c) ==
  CASE c.starting \/ c.cur # 0 -> ParkPendingLoopStart(c)
    [] Dispatches(c) -> [c EXCEPT !.starting = TRUE, !.cur = Len(turns) + 1]
    [] OTHER -> c
Started(c) ==
  CASE c.starting \/ c.cur # 0 -> ParkPendingLoopStart(c)
    [] Dispatches(c) -> [c EXCEPT !.pending = 0, !.starting = TRUE,
                                  !.cur = Len(turns) + 1]
    [] OTHER -> c
\* A turn that neo-loop does not know, yet or any more.
Unstarted(m, pc) == [msg |-> m, pc |-> pc, aborted |-> FALSE, steers |-> <<>>,
                     end |-> "open", last |-> FALSE]
\* ts with the turn that Started(c) dispatches, if it does.
WithTurn(ts, c) ==
  IF Dispatches(c)
    THEN Append(ts, Unstarted(c.pending, "sent")) ELSE ts

QueuesWhenBusy(c) == c.status = "RUNNING" \/ c.cur # 0 \/ c.starting
QueuesAttached(c) == IsWorkerAttached(c) \/ c.pending # 0
\* shouldQueueAgentscopeFollowUp
ShouldQueue(c) ==
  c.status = "RUNNING" \/ c.pending # 0 \/ c.cur # 0 \/ c.starting

\* handles.delete, deleteWorkerLease and heartbeats.delete go together.
Detached(c) == [c EXCEPT !.handle = FALSE, !.beat = FALSE]
QueueRun(c) == [Detached(c) EXCEPT !.status = "NOT_YET_STARTED"]
FailedKeeping(c) == [Detached(c) EXCEPT !.status = "ERROR", !.mail = FALSE]
\* failRun; the desk is asked to stop the worker of a known handle.
Failed(c) == [Detached(c) EXCEPT !.status = "ERROR", !.pending = 0, !.mail = FALSE]
StopIf(asked) == IF asked /\ worker = "up" THEN "stopping" ELSE worker
GivenUp(c) == [gone EXCEPT !.given = @ \cup ({c.pending} \ {0})]

-----------------------------------------------------------------------------
(* The users and the desk.                                                 *)

\* enqueueFollowUp.  Without a worker the run goes back to the desk, unless it has
\* not been claimed for the first time; with one an idle run starts a turn.
FollowUp(steer) ==
  LET m == sent + 1
      steers == steer /\ cp.status = "RUNNING" /\ cp.cur # 0
      kept == CASE steers -> cp
                [] ~steers /\ ShouldQueue(cp) -> [cp EXCEPT !.queue = Append(@, m)]
                [] OTHER -> [cp EXCEPT !.pending = m]
      waits == kept.status = "NOT_YET_STARTED"
      starts == IsWorkerAttached(kept) /\ kept.status # "RUNNING"
  IN /\ sent < MaxMsgs /\ sent' = m
     /\ steer => "steer" \in Features
     /\ signals' = IF steers THEN signals \cup {[turn |-> cp.cur, msg |-> m]}
                             ELSE signals
     /\ \/ /\ ~IsWorkerAttached(kept) /\ ~waits
           /\ cp' = QueueRun(kept) /\ offer' = TRUE /\ UNCHANGED turns
        \/ /\ ~IsWorkerAttached(kept) /\ waits
           /\ cp' = kept /\ UNCHANGED <<offer, turns>>
        \/ /\ starts
           /\ cp' = Started(kept) /\ turns' = WithTurn(turns, kept)
           /\ UNCHANGED offer
        \/ /\ IsWorkerAttached(kept) /\ ~starts
           /\ cp' = kept /\ UNCHANGED <<offer, turns>>
     /\ gone' = IF steers THEN [gone EXCEPT !.steered = @ \cup {m}] ELSE gone
     /\ UNCHANGED <<worker, hit, losses, stops>>

\* abortRun: neo-loop is told of it, and so are the worker (through its inbox) and
\* the desk.  The messages that wait are left alone.
Abort ==
  /\ stops < MaxStops /\ stops' = stops + 1
  /\ cp' = [cp EXCEPT !.status = "IDLE", !.mail = TRUE]
  /\ signals' = IF cp.cur # 0 THEN signals \cup {[turn |-> cp.cur, msg |-> 0]}
                              ELSE signals
  /\ worker' = StopIf(TRUE)
  /\ UNCHANGED <<turns, offer, sent, gone, hit, losses>>

\* claimDeskRun.  The desk may claim again while its worker is up: the assignment
\* goes out twice, over the inbox stream and as a lease offer.
Claim ==
  /\ offer /\ worker \in {"none", "up"}
  /\ offer' \in (IF "twice" \in Features THEN BOOLEAN ELSE {FALSE})
  /\ worker' = "up"
  /\ LET c == [cp EXCEPT !.status = "RUNNING", !.handle = TRUE, !.beat = TRUE] IN
       /\ cp' = Started(c) /\ turns' = WithTurn(turns, c)
       /\ hit' = hit \cup (IF c.pending = 0 /\ c.cur = 0 THEN {"idleClaim"} ELSE {})
  /\ UNCHANGED <<signals, sent, gone, losses, stops>>

\* rejectDeskRun: the desk cannot take the run.
Reject ==
  /\ "reject" \in Faults /\ offer /\ worker = "none"
  /\ offer' = FALSE
  /\ cp' = [cp EXCEPT !.status = "ERROR", !.mail = FALSE]
  /\ hit' = hit \cup {"rejected"}
  /\ UNCHANGED <<turns, signals, worker, sent, gone, losses, stops>>

\* The worker's poll (takeInbound): an abort item, old or new, makes it stop.
Poll ==
  /\ worker = "up" /\ (cp.mail \/ ~cp.beat)
  /\ cp' = [cp EXCEPT !.mail = FALSE, !.beat = TRUE]
  /\ worker' = IF cp.mail THEN "stopping" ELSE "up"
  /\ UNCHANGED <<turns, signals, offer, sent, gone, hit, losses, stops>>

WorkerExits ==
  /\ \/ worker = "stopping" /\ worker' = "exited"
     \/ worker = "up" /\ "leave" \in Features /\ worker' = "exited"
     \/ worker = "up" /\ "crash" \in Faults /\ worker' = "crashed"
  /\ UNCHANGED <<cp, turns, signals, offer, sent, gone, hit, losses, stops>>

\* releaseDeskRun: work that waits goes back to the desk at once.
Release ==
  LET c == Detached(cp)
      idle == IF c.status = "RUNNING" /\ ~HasPending(c)
                THEN [c EXCEPT !.status = "IDLE"] ELSE c
      fails == worker = "crashed" /\ c.status = "RUNNING"
  IN /\ worker \in {"exited", "crashed"} /\ worker' = "none"
     /\ \/ /\ fails
           /\ cp' = Failed(c) /\ gone' = GivenUp(c) /\ hit' = hit \cup {"failed"}
           /\ UNCHANGED offer
        \/ /\ ~fails
           /\ cp' = IF HasPending(c) THEN QueueRun(idle) ELSE idle
           /\ offer' = (offer \/ HasPending(c))
           /\ UNCHANGED <<gone, hit>>
     /\ UNCHANGED <<turns, signals, sent, losses, stops>>

\* No word from the worker for WORKER_HEARTBEAT_TIMEOUT_MS.
HeartbeatAges ==
  /\ cp.beat /\ worker # "up"
  /\ cp' = [cp EXCEPT !.beat = FALSE]
  /\ UNCHANGED <<turns, signals, worker, offer, sent, gone, hit, losses, stops>>

\* expireStaleWorkers: detachOrQueue offers the run to the desk in either case.
Expire ==
  /\ cp.status = "RUNNING" /\ ~cp.beat /\ worker # "up"
  /\ cp' = IF HasPending(cp) THEN QueueRun(cp)
                             ELSE [Detached(cp) EXCEPT !.status = "IDLE"]
  /\ offer' = TRUE
  /\ UNCHANGED <<turns, signals, worker, sent, gone, hit, losses, stops>>

-----------------------------------------------------------------------------
(* The POST that starts a turn, and signals.                               *)

\* neo-loop takes the request, answers 202 and runs the turn on its own.
Accept(t) ==
  /\ turns[t].pc = "sent"
  /\ turns' = [turns EXCEPT ![t].pc = "ensure"]
  /\ UNCHANGED <<cp, signals, worker, offer, sent, gone, hit, losses, stops>>

\* dispatchTurn goes on after its await, with the 202 or with an error of the
\* connection that came too late to stop the turn: startingLoopTurns.delete.
PostReturns ==
  /\ cp.starting /\ turns[Len(turns)].pc # "sent"
  /\ cp' = [cp EXCEPT !.starting = FALSE]
  /\ UNCHANGED <<turns, signals, worker, offer, sent, gone, hit, losses, stops>>

\* neo-loop is down or answers with an error: run.currentTurnId stays.
Refuse(t) ==
  /\ "refuse" \in Faults /\ turns[t].pc = "sent"
  /\ turns' = [turns EXCEPT ![t] = Unstarted(@.msg, "refused")]
  /\ cp' = [cp EXCEPT !.starting = FALSE]
  /\ hit' = hit \cup {"refused"}
  /\ UNCHANGED <<signals, worker, offer, sent, gone, losses, stops>>

\* A signal for a turn that is not in neo-loop's map is accepted and dropped.
Registered(t) ==
  /\ t \in DOMAIN turns
  /\ turns[t].pc \in {"ensure", "start", "infer", "final", "complete", "answer"}
\* abort() or pushSteer().
Signalled(turn, msg) ==
  IF msg = 0 THEN [turn EXCEPT !.aborted = TRUE]
             ELSE [turn EXCEPT !.steers = Append(@, msg)]
DeliverSignal(s) ==
  /\ s \in signals /\ signals' = signals \ {s}
  /\ \/ /\ Registered(s.turn)
        /\ turns' = [turns EXCEPT ![s.turn] = Signalled(@, s.msg)]
        /\ UNCHANGED gone
     \/ /\ ~Registered(s.turn)
        /\ gone' = [gone EXCEPT !.missed = @ \cup ({s.msg} \ {0})]
        /\ UNCHANGED turns
  /\ UNCHANGED <<cp, worker, offer, sent, hit, losses, stops>>

-----------------------------------------------------------------------------
(* runTurn.                                                                *)

Ended(t, end, last) ==
  turns' = [turns EXCEPT ![t] = [@ EXCEPT !.pc = "complete", !.end = end,
                                          !.last = last]]
\* ingestEvents takes any event of a turn as a sign of life of the worker.
EventsIngested == cp' = [cp EXCEPT !.beat = TRUE]

\* waitReady finds the worker's channel.
Ready(t) ==
  /\ turns[t].pc = "ensure" /\ ~turns[t].aborted /\ worker = "up"
  /\ turns' = [turns EXCEPT ![t].pc = "start"]
  /\ UNCHANGED <<cp, signals, worker, offer, sent, gone, hit, losses, stops>>

\* waitReady gives up after 15 s.
NotReady(t) ==
  /\ turns[t].pc = "ensure" /\ ~turns[t].aborted
  /\ worker # "up" \/ "slow" \in Faults
  /\ Ended(t, "error", TRUE)
  /\ EventsIngested
  /\ UNCHANGED <<signals, worker, offer, sent, gone, hit, losses, stops>>

\* agent.start: the orchestrator sets RUNNING whatever the status is.
Begin(t) ==
  /\ turns[t].pc = "start"
  /\ turns' = [turns EXCEPT ![t].pc = "infer"]
  /\ cp' = [cp EXCEPT !.status = "RUNNING", !.beat = TRUE]
  /\ UNCHANGED <<signals, worker, offer, sent, gone, hit, losses, stops>>

\* One round that starts with a steer and ends with tool calls.
TakeSteer(t) ==
  /\ turns[t].pc = "infer" /\ turns[t].steers # <<>>
  /\ turns' = [turns EXCEPT ![t].steers = Tail(@)]
  /\ EventsIngested
  /\ UNCHANGED <<signals, worker, offer, sent, gone, hit, losses, stops>>

\* The model answers with text; a steer that comes from now on is not read.
Answer(t) ==
  /\ turns[t].pc = "infer" /\ ~turns[t].aborted
  /\ turns' = [turns EXCEPT ![t].pc = "final"]
  /\ EventsIngested
  /\ UNCHANGED <<signals, worker, offer, sent, gone, hit, losses, stops>>

\* The session is saved and the turn was not aborted meanwhile.
Finish(t) ==
  /\ turns[t].pc = "final" /\ ~turns[t].aborted
  /\ Ended(t, "idle", FALSE)
  /\ UNCHANGED <<cp, signals, worker, offer, sent, gone, hit, losses, stops>>

\* An abort is noticed: by a check, or by the inference or wait it interrupts.
Cancel(t) ==
  /\ turns[t].pc \in {"ensure", "infer", "final"} /\ turns[t].aborted
  /\ \E last \in (IF turns[t].pc = "final" THEN {FALSE} ELSE BOOLEAN) :
       Ended(t, "cancelled", last)
  /\ UNCHANGED <<cp, signals, worker, offer, sent, gone, hit, losses, stops>>

\* The gateway fails (catch block), or the model repeats itself or runs away.
InferFails(t) ==
  /\ "gateway" \in Faults
  /\ turns[t].pc = "infer" /\ ~turns[t].aborted
  /\ \E last \in BOOLEAN : Ended(t, "error", last)
  /\ EventsIngested
  /\ UNCHANGED <<signals, worker, offer, sent, gone, hit, losses, stops>>

-----------------------------------------------------------------------------
(* turn-complete.                                                          *)

ClearsAny(c, t) == [c EXCEPT !.cur = 0]
ClearsNone(c, t) == c
\* applyTurnComplete ignores the id of a turn that is not the current one.
ApplyTurnComplete(c, t) == IF c.cur # 0 /\ c.cur # t THEN c ELSE [c EXCEPT !.cur = 0]
\* agent.end
AgentEnd(c) ==
  [c EXCEPT !.beat = TRUE, !.status = IF @ = "RUNNING" THEN "IDLE" ELSE @]
TakeNewest(c) ==
  [c EXCEPT !.pending = c.queue[Len(c.queue)],
            !.queue = SubSeq(c.queue, 1, Len(c.queue) - 1)]
\* takeQueuedLoopFollowUp
TakeQueued(c) ==
  [c EXCEPT !.pending = Head(c.queue), !.queue = Tail(c.queue)]

\* dispatchTurn has not seen the 202 of the turn yet.
IsEarly(t) == cp.starting /\ t = Len(turns)

\* completeLoopTurn: an error fails the run, anything else starts the next message
\* that waits, whichever turn it comes from.
Complete(t) ==
  LET c == ApplyTurnComplete(cp, t)
      d == AgentEnd(c)
      next == IF d.queue # <<>> THEN TakeQueued(d) ELSE d
  IN /\ turns[t].pc = "complete"
     /\ IsEarly(t) => "tardy" \in Features
     /\ \/ /\ turns[t].end = "error"
           /\ cp' = Failed(c) /\ gone' = GivenUp(c)
           /\ worker' = StopIf(c.handle)
           /\ turns' = [turns EXCEPT ![t].pc = "answer"]
        \/ /\ turns[t].end # "error" /\ d.queue # <<>>
           /\ cp' = Started(next)
           /\ turns' = WithTurn([turns EXCEPT ![t].pc = "answer"], next)
           /\ UNCHANGED <<gone, worker>>
        \/ /\ turns[t].end # "error" /\ d.queue = <<>>
           /\ cp' = d /\ turns' = [turns EXCEPT ![t].pc = "answer"]
           /\ UNCHANGED <<gone, worker>>
     /\ hit' = hit \cup (IF turns[t].end = "error" THEN {"failed"} ELSE {})
                   \cup (IF IsEarly(t) THEN {"early"} ELSE {})
     /\ UNCHANGED <<signals, offer, sent, losses, stops>>

\* The reply arrives: the turn leaves neo-loop's map, with the steers it never read.
Answered(t) ==
  /\ turns[t].pc = "answer"
  /\ turns' = [turns EXCEPT ![t] = [@ EXCEPT !.pc = "done", !.steers = <<>>]]
  /\ gone' = [gone EXCEPT !.missed = @ \cup ToSet(turns[t].steers)]
  /\ UNCHANGED <<cp, signals, worker, offer, sent, hit, losses, stops>>

\* The request or its reply is lost: runTurn's catch block completes the turn once
\* more; there, the rejection is unhandled and neo-loop dies with its turns.
Lose(t) ==
  /\ "lost" \in Faults /\ losses < MaxLosses /\ losses' = losses + 1
  /\ turns[t].pc \in {"complete", "answer"}
  /\ hit' = hit \cup {"lost"}
  /\ \/ /\ ~turns[t].last
        /\ Ended(t, IF turns[t].aborted THEN "cancelled" ELSE "error", TRUE)
        /\ cp' = IF turns[t].aborted THEN cp ELSE [cp EXCEPT !.beat = TRUE]
     \/ /\ turns[t].last
        /\ turns' = [u \in DOMAIN turns |->
             IF Registered(u) THEN Unstarted(turns[u].msg, "dead") ELSE turns[u]]
        /\ UNCHANGED cp
  /\ UNCHANGED <<signals, worker, offer, sent, gone, stops>>

-----------------------------------------------------------------------------
DeskStep == Claim \/ Reject \/ Poll \/ WorkerExits \/ Release
Watch == HeartbeatAges \/ Expire
TurnStep(t) ==
  \/ Accept(t) \/ Ready(t) \/ NotReady(t) \/ Begin(t) \/ TakeSteer(t)
  \/ Answer(t) \/ Finish(t) \/ Cancel(t) \/ InferFails(t)
  \/ Complete(t) \/ Answered(t)

Next ==
  \/ \E steer \in BOOLEAN : FollowUp(steer)
  \/ Abort \/ DeskStep \/ Watch \/ PostReturns
  \/ \E t \in DOMAIN turns : TurnStep(t) \/ Refuse(t) \/ Lose(t)
  \/ \E s \in signals : DeliverSignal(s)

\* Requests are answered, a turn ends (needsWrap closes it after 40 rounds), the
\* desk takes its assignments and reports the workers that left.  Nothing is fair
\* about users, the worker's own exits and faults.
Fairness ==
  /\ WF_vars(PostReturns)
  /\ WF_vars(Claim) /\ WF_vars(Release)
  /\ WF_vars(worker = "stopping" /\ WorkerExits)
  /\ \A t \in Msgs :
       /\ WF_vars(t \in DOMAIN turns /\
            (Accept(t) \/ Begin(t) \/ Finish(t) \/ Cancel(t) \/ Complete(t)))
       /\ WF_vars(t \in DOMAIN turns /\ (Ready(t) \/ NotReady(t)))
       /\ WF_vars(t \in DOMAIN turns /\ Answer(t))

Spec == Init /\ [][Next]_vars
FairSpec == Spec /\ Fairness

-----------------------------------------------------------------------------
(* Properties.                                                             *)

Working(t) == turns[t].pc \in {"sent", "ensure", "start", "infer", "final"}

\* Two turns never work on the run's session and folder at the same time, whatever
\* is claimed twice, completed twice or late.
OneTurn == \A t, u \in DOMAIN turns : Working(t) /\ Working(u) => t = u

\* No message is run twice: it has one turn at most, and does not wait for another.
RunsOnce ==
  /\ \A t, u \in DOMAIN turns : turns[t].msg = turns[u].msg => t = u
  /\ \A t \in DOMAIN turns : turns[t].msg \notin {cp.pending} \cup ToSet(cp.queue)

\* As long as no turn-complete was lost, an accepted message waits, has a turn,
\* went out as a steer or was given up with the run: none is overwritten.  A dispatch
\* that neo-loop refused counts as a turn; the code does not retry its message.
Waits(m) == m = cp.pending \/ m \in ToSet(cp.queue)
HasTurn(m) == \E t \in DOMAIN turns : turns[t].msg = m
Kept ==
  "lost" \notin hit =>
    \A m \in 1..sent : Waits(m) \/ HasTurn(m) \/ m \in gone.steered \/ m \in gone.given

Orderly == hit \cap {"lost", "failed", "early", "idleClaim"} = {}

\* Messages run in the order they were sent, unless a failed turn or a mishap with a
\* completion left some behind in the queue.
InOrder ==
  Orderly =>
    \A t, u \in DOMAIN turns : t < u => turns[t].msg < turns[u].msg

\* A queue is never orphaned while nothing went wrong: the turn that will take its
\* head is under way, or a start before it is waiting for the desk.
QueueHasTurn ==
  hit = {} /\ cp.queue # <<>> =>
    \/ cp.pending # 0 /\ (offer \/ worker # "none")
    \/ cp.cur # 0 /\ turns[cp.cur].pc # "answer"

-----------------------------------------------------------------------------
(* The ledger that a user sees: where each message is.                      *)

WaitingOf(c) == ({c.pending} \ {0}) \cup ToSet(c.queue)
MessagesOf(ts, at) == {ts[t].msg : t \in at}

Ledger == INSTANCE MessageLedger WITH
            waiting <- WaitingOf(cp),
            working <- MessagesOf(turns, {t \in DOMAIN turns : Working(t)}),
            over <- MessagesOf(turns, {t \in DOMAIN turns : ~Working(t)}),
            steered <- gone.steered, givenUp <- gone.given,
            orderly <- Orderly, keeping <- "lost" \notin hit

\* The run keeps its promise about messages: none is worked on twice or while another
\* is, or taken up again after it was given up, and none is overwritten or overtaken
\* before a call is lost, a turn fails or a completion comes at an odd time
\* (enqueueFollowUp, startPendingLoopTurn, completeLoopTurn, failRun).
ImplementsLedger == Ledger!LedgerSpec

\* A message that waits gets its turn in the end, or something went wrong.
Served ==
  \A m \in Msgs : Waits(m) ~> (HasTurn(m) \/ hit # {})

\* A steer reaches the turn it was sent to before that turn ends.
SteerHeard == gone.missed = {}

\* Whatever happened, a message that waits gets its turn or is given up.
AlwaysServed ==
  \A m \in Msgs : Waits(m) ~> ~Waits(m)
=============================================================================
