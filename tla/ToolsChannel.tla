----------------------------- MODULE ToolsChannel -----------------------------
(***************************************************************************)
(* The tool calls of one neo-loop turn.  turn.ts plans the calls of a      *)
(* model reply with the repeat guard (repeat.ts) and runs the plan, reads  *)
(* side by side and everything else alone; tools.ts turns a call into      *)
(* requests; hub.ts sends them on the run's tools connection; the worker   *)
(* (tools-ws.ts and tools-server.ts) executes them and dials again when    *)
(* its connection breaks.                                                  *)
(*                                                                         *)
(* A call's arguments are its signature (toolSignature), whose tool is     *)
(* told by the constant it belongs to.  A request's id is its place in     *)
(* `calls` (randomUUID in the code); answers are told apart by who gave    *)
(* them, not by what they say.  The two ends of a socket notice its end    *)
(* each in its own time.                                                   *)
(***************************************************************************)
EXTENDS Integers, FiniteSets, Sequences, SequencesExt

CONSTANTS
  Reads,       \* signatures of the parallel file tools: read, ls
  Greps,       \* of the parallel commands: grep, find
  Bashes,      \* of bash
  Sleeps,      \* of bash commands that only sleep (SLEEP_POLL_SIGNATURE)
  Edits,       \* of edit
  MaxTools,    \* bound: tool calls that the model makes in the turn
  WrapAt,      \* WRAP_TOOL_ROUNDS (40 in the code)
  MaxSockets   \* bound: connections that the worker opens

ASSUME ToolNumbers == MaxTools \in Nat \ {0} /\ WrapAt \in Nat \ {0} /\ MaxSockets \in Nat \ {0}
ASSUME EditsApart == Edits \cap (Reads \cup Greps) = {}

Sigs == Reads \cup Greps \cup Bashes \cup Sleeps \cup Edits
\* The repeat state before the first call; a signature is never empty.
NoSig == "none"
ASSUME SignaturesNamed == NoSig \notin Sigs
NoStep == [sig |-> NoSig, action |-> "run"]

VARIABLES
  turn,      \* the turn: where it is, its plan, the repeat state, `prior`
  calls,     \* every request of the turn to the worker
  hub,       \* the run's Connection: its socket, ready, pending
  sockets,   \* every connection: its two ends and the frames on it
  children,  \* running: child processes of exec
  tools      \* the worker: whether it was stopped, and what it executed
toolVars == <<turn, calls, hub, sockets, children, tools>>

Planned == [sig : Sigs, action : {"run", "replay", "stop"}]
Outcomes == {"answered", "closed", "timeout"}
Call == [sig : Sigs, op : {"fs", "exec", "upload"}, res : {"open"} \cup Outcomes]
Down == [kind : {"call"}, call : Nat] \cup [kind : {"abort_all"}]
Up == [kind : {"hello"}] \cup [kind : {"answer"}, call : Nat]

ToolsTypeOK ==
  /\ turn.pc \in {"start", "infer", "batch", "idle", "error", "cancelled"}
  /\ turn.plan \in Seq(Planned) /\ turn.at \in 1..MaxTools + 1 /\ DOMAIN turn.group \subseteq 1..MaxTools
  /\ \A k \in DOMAIN turn.group : turn.group[k] \in DOMAIN calls
  /\ turn.before \in Planned \cup {NoStep}
  /\ turn.repeat.last \in Sigs \cup {NoSig} /\ turn.repeat.streak \in 0..3
  /\ turn.prior \in [Sigs -> Outcomes \cup {NoSig}]
  /\ turn.rounds \in 0..WrapAt /\ turn.asked \in 0..MaxTools /\ turn.aborted \in BOOLEAN
  /\ calls \in Seq(Call)
  /\ hub.conn \in 0..Len(sockets) /\ hub.ready \in BOOLEAN /\ hub.pending \subseteq DOMAIN calls
  /\ \A i \in DOMAIN sockets : /\ sockets[i].hub \in BOOLEAN /\ sockets[i].worker \in BOOLEAN
                              /\ sockets[i].down \in Seq(Down) /\ sockets[i].up \in Seq(Up)
  /\ children \subseteq [call : Nat, killed : BOOLEAN]
  /\ tools.stopped \in BOOLEAN /\ tools.ran \subseteq DOMAIN calls

ToolsInit ==
  /\ turn = [pc |-> "start", plan |-> <<>>, at |-> 1, group |-> <<>>, before |-> NoStep,
             repeat |-> [last |-> NoSig, streak |-> 0], prior |-> [s \in Sigs |-> NoSig],
             rounds |-> 0, asked |-> 0, aborted |-> FALSE]
  /\ calls = <<>> /\ sockets = <<>> /\ children = {}
  /\ hub = [conn |-> 0, ready |-> FALSE, pending |-> {}]
  /\ tools = [stopped |-> FALSE, ran |-> {}]

-----------------------------------------------------------------------------
(* repeat.ts                                                               *)

Classify(state, sig) ==
  LET streak == IF sig = state.last THEN state.streak + 1 ELSE 1
  IN [state |-> [last |-> sig, streak |-> streak],
      action |-> IF streak >= 3 THEN "stop" ELSE IF streak = 2 THEN "replay" ELSE "run"]

NeedsWrap(rounds) == rounds >= WrapAt

(* The planning loop of runToolBatch, which breaks at the first stop.      *)
PlanCall(b, sig) ==
  LET next == Classify(b.state, sig)
  IN [state |-> next.state, stopped |-> next.action = "stop",
      plan |-> Append(b.plan, [sig |-> sig, action |-> next.action])]
PlanBatch(state, sigs) ==
  LET b[n \in 0..Len(sigs)] ==
        IF n = 0 THEN [state |-> state, plan |-> <<>>, stopped |-> FALSE]
        ELSE IF b[n - 1].stopped THEN b[n - 1] ELSE PlanCall(b[n - 1], sigs[n])
  IN b[Len(sigs)]
(* As if every reply began a new streak.                                   *)
PlanAfresh(state, sigs) == PlanBatch([last |-> NoSig, streak |-> 0], sigs)
PlanReply(state, sigs) == PlanBatch(state, sigs)

-----------------------------------------------------------------------------
(* hub.ts                                                                  *)

Connected == hub.conn # 0 /\ sockets[hub.conn].hub

(* failPending: every request of the connection gets its answer.           *)
DropPending(cs) == cs
FailPending(cs) ==
  [c \in DOMAIN cs |-> IF c \in hub.pending THEN [cs[c] EXCEPT !.res = "closed"] ELSE cs[c]]

SendDown(frames) ==
  sockets' = [sockets EXCEPT ![hub.conn].down = IF sockets[hub.conn].worker THEN @ \o frames ELSE @]

(* abortAll                                                                *)
AbortAll == IF Connected THEN SendDown(<<[kind |-> "abort_all"]>>) ELSE UNCHANGED sockets

(* call, for several requests made in one stretch: without an open socket  *)
(* they fail at once.                                                      *)
HubCalls(requests) ==
  LET ids == Len(calls) + 1 .. Len(calls) + Len(requests)
      result == IF Connected THEN "open" ELSE "closed"
  IN /\ calls' = calls \o [i \in DOMAIN requests |-> [requests[i] EXCEPT !.res = result]]
     /\ IF Connected
        THEN /\ hub' = [hub EXCEPT !.pending = @ \cup ids]
             /\ SendDown([i \in DOMAIN requests |-> [kind |-> "call", call |-> Len(calls) + i]])
        ELSE UNCHANGED <<hub, sockets>>

(* The timer of a request.                                                 *)
CallTimesOut(c) ==
  /\ c \in hub.pending
  /\ hub' = [hub EXCEPT !.pending = @ \ {c}]
  /\ calls' = [calls EXCEPT ![c].res = "timeout"]
  /\ UNCHANGED <<turn, sockets, children, tools>>

(* onFrame: the connection is looked up by the run, whichever socket the   *)
(* frame came on.                                                          *)
OnFrame(i) ==
  /\ sockets[i].up # <<>>
  /\ sockets' = [sockets EXCEPT ![i].up = Tail(@)]
  /\ LET frame == Head(sockets[i].up)
     IN IF frame.kind = "hello"
        THEN hub' = [hub EXCEPT !.ready = @ \/ hub.conn # 0] /\ UNCHANGED calls
        ELSE IF frame.call \in hub.pending
        THEN /\ hub' = [hub EXCEPT !.pending = @ \ {frame.call}]
             /\ calls' = [calls EXCEPT ![frame.call].res = "answered"]
        ELSE UNCHANGED <<hub, calls>>
  /\ UNCHANGED <<turn, children, tools>>

(* The close handler of attach: it acts for the current socket only.       *)
HubNotices(i) ==
  /\ sockets[i].hub /\ ~sockets[i].worker
  /\ sockets' = [sockets EXCEPT ![i].hub = FALSE, ![i].up = <<>>]
  /\ IF hub.conn = i
     THEN /\ hub' = [conn |-> 0, ready |-> FALSE, pending |-> {}]
          /\ calls' = FailPending(calls)
     ELSE UNCHANGED <<hub, calls>>
  /\ UNCHANGED <<turn, children, tools>>

-----------------------------------------------------------------------------
(* The worker: tools-ws.ts and tools-server.ts                             *)

OpenEnds == {i \in DOMAIN sockets : sockets[i].worker}
KillAll == {[ch EXCEPT !.killed = TRUE] : ch \in children}

(* open: the hub attaches the new socket (detach fails what the old one    *)
(* still had pending), a new ToolsServer says hello.                       *)
DialHub ==
  /\ ~tools.stopped /\ OpenEnds = {} /\ Len(sockets) < MaxSockets
  /\ calls' = FailPending(calls)
  /\ hub' = [conn |-> Len(sockets) + 1, ready |-> FALSE, pending |-> {}]
  /\ sockets' = Append([i \in DOMAIN sockets |-> [sockets[i] EXCEPT !.hub = FALSE]],
                  [hub |-> TRUE, worker |-> TRUE, down |-> <<>>, up |-> <<[kind |-> "hello"]>>])
  /\ UNCHANGED <<turn, children, tools>>

(* The worker's end closes: dispose kills what runs.  Frames that it sent  *)
(* before may still arrive.                                                *)
ForgetChildren == children
Dispose == KillAll
WorkerEndCloses(i) ==
  /\ sockets[i].worker
  /\ sockets' = [sockets EXCEPT ![i].worker = FALSE, ![i].down = <<>>]
  /\ children' = Dispose
  /\ UNCHANGED <<turn, calls, hub>>

SocketBreaks(i) == WorkerEndCloses(i) /\ UNCHANGED tools

(* runToolsWorker reads the abort in its inbox: the channel is closed for  *)
(* good.                                                                   *)
ToolsWorkerStops(i) ==
  turn.aborted /\ WorkerEndCloses(i) /\ tools' = [tools EXCEPT !.stopped = TRUE]

(* send: on the socket that is current now, if it is open.                 *)
SendUp(socks, frame) ==
  [i \in DOMAIN socks |-> IF socks[i].worker THEN [socks[i] EXCEPT !.up = Append(@, frame)] ELSE socks[i]]
AnswerFrame(c) == [kind |-> "answer", call |-> c]

(* handle: file requests are answered at once, a command is spawned,       *)
(* either may be refused (path-guard.ts) or fail; abort_all signals every  *)
(* child.                                                                  *)
HandleFrame(i) ==
  /\ sockets[i].down # <<>>
  /\ LET frame == Head(sockets[i].down)
         taken == [sockets EXCEPT ![i].down = Tail(@)]
     IN \/ /\ frame.kind = "abort_all"
           /\ sockets' = taken /\ children' = KillAll /\ UNCHANGED tools
        \/ /\ frame.kind = "call"
           /\ \/ /\ calls[frame.call].op = "exec"
                 /\ children' = children \cup {[call |-> frame.call, killed |-> FALSE]}
                 /\ tools' = [tools EXCEPT !.ran = @ \cup {frame.call}]
                 /\ sockets' = taken
              \/ /\ calls[frame.call].op # "exec"
                 /\ sockets' = SendUp(taken, AnswerFrame(frame.call))
                 /\ tools' = [tools EXCEPT !.ran = @ \cup {frame.call}]
                 /\ UNCHANGED children
              \/ /\ sockets' = SendUp(taken, AnswerFrame(frame.call))
                 /\ UNCHANGED <<children, tools>>
  /\ UNCHANGED <<turn, calls, hub>>

(* The exit handler of a child.                                            *)
ExecEnds(ch) ==
  /\ children' = children \ {ch}
  /\ sockets' = SendUp(sockets, AnswerFrame(ch.call))
  /\ UNCHANGED <<turn, calls, hub, tools>>

(* Its timer: SIGTERM, and an answer before the child is gone.             *)
ExecTimesOut(ch) ==
  /\ ~ch.killed
  /\ children' = (children \ {ch}) \cup {[ch EXCEPT !.killed = TRUE]}
  /\ sockets' = SendUp(sockets, AnswerFrame(ch.call))
  /\ UNCHANGED <<turn, calls, hub, tools>>

-----------------------------------------------------------------------------
(* turn.ts                                                                 *)

TurnOver == turn.pc \in {"idle", "error", "cancelled"}

(* waitReady: the hello has come, or 15 seconds have passed.               *)
WaitReady ==
  /\ turn.pc = "start"
  /\ turn' = [turn EXCEPT !.pc = IF hub.conn # 0 /\ hub.ready THEN "infer" ELSE "error"]
  /\ UNCHANGED <<calls, hub, sockets, children, tools>>

(* The signal {type: "abort"}.                                             *)
AbortTurn ==
  /\ ~TurnOver /\ ~turn.aborted
  /\ turn' = [turn EXCEPT !.aborted = TRUE]
  /\ UNCHANGED <<calls, hub, sockets, children, tools>>

(* The loop is left at its next look at control.aborted(), or the awaited  *)
(* inference or waitReady is rejected.                                     *)
CancelTurn ==
  /\ turn.aborted /\ (turn.pc \in {"start", "infer"} \/ (turn.pc = "batch" /\ turn.group = <<>>))
  /\ turn' = [turn EXCEPT !.pc = "cancelled"]
  /\ AbortAll
  /\ UNCHANGED <<calls, hub, children, tools>>

(* A reply without tool calls is the answer.                               *)
AnswerText ==
  /\ turn.pc = "infer" /\ ~turn.aborted
  /\ turn' = [turn EXCEPT !.pc = "idle"]
  /\ UNCHANGED <<calls, hub, sockets, children, tools>>

(* The catch of runTurn: the inference or a call to the control plane      *)
(* failed; commands that may still run are not told.                       *)
TurnFails ==
  /\ turn.pc = "infer" /\ ~turn.aborted
  /\ turn' = [turn EXCEPT !.pc = "error"]
  /\ UNCHANGED <<calls, hub, sockets, children, tools>>

(* A reply with tool calls: planned, or a runaway when the model was asked *)
(* to close.                                                               *)
PlanCalls ==
  /\ turn.pc = "infer" /\ ~turn.aborted /\ ~NeedsWrap(turn.rounds)
  /\ \E sigs \in UNION {[1..n -> Sigs] : n \in 1..MaxTools - turn.asked} :
       LET b == PlanReply(turn.repeat, sigs)
       IN turn' = [turn EXCEPT !.pc = "batch", !.plan = b.plan, !.at = 1, !.rounds = @ + 1, !.asked = @ + Len(sigs),
                     !.before = IF turn.plan = <<>> THEN NoStep ELSE Last(turn.plan),
                     !.repeat = b.state]
  /\ UNCHANGED <<calls, hub, sockets, children, tools>>

RunsAway ==
  /\ turn.pc = "infer" /\ ~turn.aborted /\ NeedsWrap(turn.rounds)
  /\ turn' = [turn EXCEPT !.pc = "error"]
  /\ AbortAll
  /\ UNCHANGED <<calls, hub, children, tools>>

(* runToolBatch: the next step of the plan.                                *)
AtStep == turn.pc = "batch" /\ turn.group = <<>> /\ turn.at <= Len(turn.plan) /\ ~turn.aborted
Step == turn.plan[turn.at]

HaltTurn ==
  /\ AtStep /\ Step.action = "stop"
  /\ turn' = [turn EXCEPT !.pc = "error"]
  /\ AbortAll
  /\ UNCHANGED <<calls, hub, children, tools>>

Replay ==
  /\ AtStep /\ Step.action = "replay"
  /\ turn' = [turn EXCEPT !.at = @ + 1]
  /\ UNCHANGED <<calls, hub, sockets, children, tools>>

(* A command that only sleeps is answered with a note.                     *)
BlockSleep ==
  /\ AtStep /\ Step.action = "run" /\ Step.sig \in Sleeps
  /\ turn' = [turn EXCEPT !.at = @ + 1, !.prior[Step.sig] = "answered"]
  /\ UNCHANGED <<calls, hub, sockets, children, tools>>

(* The n calls that run together: neighbours of PARALLEL_TOOLS, or one call. *)
Parallel(p) == p.action = "run" /\ p.sig \in Reads \cup Greps
Group(n) ==
  LET last == turn.at + n - 1
  IN /\ last <= Len(turn.plan)
     /\ IF Parallel(Step)
        THEN /\ \A k \in turn.at..last : Parallel(turn.plan[k])
             /\ last < Len(turn.plan) => ~Parallel(turn.plan[last + 1])
        ELSE n = 1

FirstOp(sig) == IF sig \in Greps \cup Bashes THEN "exec" ELSE "fs"
Request(step, op) == [sig |-> turn.plan[step].sig, op |-> op, res |-> "open"]

RunGroup ==
  /\ AtStep /\ Step.action = "run" /\ Step.sig \notin Sleeps
  /\ \E n \in 1..MaxTools :
       /\ Group(n)
       /\ turn' = [turn EXCEPT !.group =
            [step \in turn.at..turn.at + n - 1 |-> Len(calls) + 1 + step - turn.at]]
       /\ HubCalls([i \in 1..n |->
            LET step == turn.at + i - 1 IN Request(step, FirstOp(turn.plan[step].sig))])
  /\ UNCHANGED <<children, tools>>

(* editFile: when the text was downloaded and found in it, the whole file  *)
(* is uploaded; else the call is over.                                     *)
EditUploads ==
  /\ turn.pc = "batch" /\ turn.group # <<>> /\ Step.sig \in Edits
  /\ calls[turn.group[turn.at]].op = "fs" /\ calls[turn.group[turn.at]].res = "answered"
  /\ turn' = [turn EXCEPT !.group[turn.at] = Len(calls) + 1]
  /\ HubCalls(<<Request(turn.at, "upload")>>)
  /\ UNCHANGED <<children, tools>>

(* Promise.all: every call of the group has its answer.                    *)
GroupEnds ==
  /\ turn.pc = "batch" /\ turn.group # <<>>
  /\ \A step \in DOMAIN turn.group : calls[turn.group[step]].res # "open"
  /\ turn' = [turn EXCEPT !.group = <<>>, !.at = @ + Cardinality(DOMAIN turn.group),
       !.prior = [s \in Sigs |->
         LET steps == {k \in DOMAIN turn.group : turn.plan[k].sig = s}
         IN IF steps = {} THEN @[s]
            ELSE calls[turn.group[CHOOSE k \in steps : \A j \in steps : j <= k]].res]]
  /\ UNCHANGED <<calls, hub, sockets, children, tools>>

BatchEnds ==
  /\ turn.pc = "batch" /\ turn.group = <<>> /\ turn.at > Len(turn.plan)
  /\ turn' = [turn EXCEPT !.pc = "infer"]
  /\ UNCHANGED <<calls, hub, sockets, children, tools>>

-----------------------------------------------------------------------------
TurnMoves ==
  \/ WaitReady \/ CancelTurn \/ AnswerText \/ TurnFails \/ PlanCalls \/ RunsAway \/ HaltTurn
  \/ Replay \/ BlockSleep \/ RunGroup \/ EditUploads \/ GroupEnds \/ BatchEnds
SocketMoves(i) ==
  OnFrame(i) \/ HubNotices(i) \/ HandleFrame(i)
ToolsNext ==
  \/ TurnMoves \/ AbortTurn \/ DialHub
  \/ \E i \in DOMAIN sockets : SocketMoves(i) \/ SocketBreaks(i) \/ ToolsWorkerStops(i)
  \/ \E c \in DOMAIN calls : CallTimesOut(c)
  \/ \E ch \in children : ExecEnds(ch) \/ ExecTimesOut(ch)

ToolsSpec == ToolsInit /\ [][ToolsNext]_toolVars

-----------------------------------------------------------------------------
(* bash, edit and write run alone (turn.ts:220): when a request has been   *)
(* executed, no command of an earlier one still runs that was not told to  *)
(* end, if one of the two is not a read, unless the hub gave the earlier   *)
(* one up by its timer.  Over replies, retries and new connections.        *)
OneHand ==
  \A ch \in children, d \in tools.ran :
    \/ ch.killed \/ d <= ch.call \/ calls[ch.call].res = "timeout"
    \/ {calls[ch.call].sig, calls[d].sig} \subseteq Reads \cup Greps

(* A call that repeats the one before it (repeat.ts:1), also across two    *)
(* replies, is not executed again; it gets the answer of the first, which  *)
(* is there by then.                                                       *)
Before(k) == IF k = 1 THEN turn.before ELSE turn.plan[k - 1]
RepeatsAnswered ==
  turn.pc = "batch" =>
    /\ \A k \in DOMAIN turn.plan :
         Before(k).sig = turn.plan[k].sig => turn.plan[k].action # "run"
    /\ AtStep /\ Step.action = "replay" => turn.prior[Step.sig] # NoSig

(* Reproduction: an answer is repeated only when the command was heard of. *)
ReplaysAnswer == AtStep /\ Step.action = "replay" => turn.prior[Step.sig] = "answered"
=============================================================================
