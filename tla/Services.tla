------------------------------- MODULE Services -------------------------------
(***************************************************************************)
(* The components around the orchestrator, side by side: the desk's host,  *)
(* the tools channel, the event stream, the workspaces on the host, the    *)
(* automations, the GitHub subscriptions, the stores of a run and the      *)
(* limits.  They share no variable, so a behaviour exercises one of them   *)
(* (`part`) and leaves the others as they started: what holds of each part *)
(* holds of any interleaving.                                              *)
(***************************************************************************)
EXTENDS DeskHost, ToolsChannel, EventStream, Workspaces, Automations, Subscriptions,
        Persistence, RateLimits

CONSTANT Parts     \* which components an instance exercises
ASSUME PartsKnown == 
  Parts \subseteq {"desk", "tools", "stream", "files", "autos", "hooks", "store", "rates"}

VARIABLE part
serviceVars == <<part, deskVars, toolVars, streamVars, fileVars, autoVars, hookVars, storeVars, rateVars>>

\* The type invariant of every component.
ServicesTypeOK ==
  /\ part \in Parts
  /\ DeskTypeOK /\ ToolsTypeOK /\ StreamTypeOK /\ FilesTypeOK /\ AutoTypeOK /\ HookTypeOK
  /\ StoreTypeOK /\ RateTypeOK

ServicesInit ==
  /\ part \in Parts
  /\ DeskInit /\ (part # "desk" => asked = {})
  /\ ToolsInit /\ StreamInit /\ FilesInit /\ AutoInit /\ HookInit
  /\ StoreInit /\ (part # "store" => ~database)
  /\ RateInit

ServicesNext ==
  \/ part = "desk" /\ DeskNext
       /\ UNCHANGED <<part, toolVars, streamVars, fileVars, autoVars, hookVars, storeVars, rateVars>>
  \/ part = "tools" /\ ToolsNext
       /\ UNCHANGED <<part, deskVars, streamVars, fileVars, autoVars, hookVars, storeVars, rateVars>>
  \/ part = "stream" /\ StreamNext
       /\ UNCHANGED <<part, deskVars, toolVars, fileVars, autoVars, hookVars, storeVars, rateVars>>
  \/ part = "files" /\ FilesNext
       /\ UNCHANGED <<part, deskVars, toolVars, streamVars, autoVars, hookVars, storeVars, rateVars>>
  \/ part = "autos" /\ AutoNext
       /\ UNCHANGED <<part, deskVars, toolVars, streamVars, fileVars, hookVars, storeVars, rateVars>>
  \/ part = "hooks" /\ HookNext
       /\ UNCHANGED <<part, deskVars, toolVars, streamVars, fileVars, autoVars, storeVars, rateVars>>
  \/ part = "store" /\ StoreNext
       /\ UNCHANGED <<part, deskVars, toolVars, streamVars, fileVars, autoVars, hookVars, rateVars>>
  \/ part = "rates" /\ RateNext
       /\ UNCHANGED <<part, deskVars, toolVars, streamVars, fileVars, autoVars, hookVars, storeVars>>

ServicesSpec == ServicesInit /\ [][ServicesNext]_serviceVars

-----------------------------------------------------------------------------
\* A desk: what is under way arrives or is answered, the poll loop and the stream
\* come back, timers of the control plane fire and processes run.
DeskFairness ==
  /\ WF_deskVars(part = "desk" /\ StreamDelivers) /\ WF_deskVars(part = "desk" /\ LeaseAnswers)
  /\ WF_deskVars(part = "desk" /\ LeasePoll) /\ WF_deskVars(part = "desk" /\ StreamOpens)
  /\ \A r \in Runs : WF_deskVars(part = "desk" /\ Expire(r) /\ tale' = tale)
  /\ \A r \in Runs : WF_deskVars(part = "desk" /\ WindowStarts(r))
  /\ WF_deskVars(part = "desk" /\ \E p \in posts : PostArrives(p))
  /\ WF_deskVars(part = "desk" /\ \E s \in starts : HostStep(s))
  /\ \A i \in Pids : WF_deskVars(part = "desk" /\ i \in DOMAIN procs /\ ProcStep(i))

\* The tools channel: the turn's own code runs on, the model answers, and a request's
\* timer fires; nothing is assumed of the worker or of the connection.
ToolsFairness ==
  /\ WF_toolVars(part = "tools" /\ TurnMoves)
  /\ WF_toolVars(part = "tools" /\ \E c \in DOMAIN calls : CallTimesOut(c))

\* The event stream: the network delivers, and the browser's timers fire: the poll
\* runs next to the stream.
StreamFairness ==
  /\ WF_streamVars(part = "stream" /\ (OpensRun \/ ShowsRun \/ Connects \/ Receives))
  /\ WF_streamVars(part = "stream" /\ (PollAsks \/ PollCompares \/ PollShows))

\* The other components promise nothing that needs fairness.
ServicesFairSpec == ServicesSpec /\ DeskFairness /\ ToolsFairness /\ StreamFairness

\* A turn ends, whatever becomes of the tools worker and its connection: every request
\* is answered, failed or given up, and the model's tool calls are cut off (hub.ts
\* failPending and the timer of call, turn.ts runTurn).
TurnEndsAnyway == part = "tools" ~> TurnOver
===============================================================================
