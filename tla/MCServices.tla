------------------------------ MODULE MCServices ------------------------------
(***************************************************************************)
(* Services for TLC.  The runs of a desk and of the workspaces are only    *)
(* compared, so permuting them is sound for safety; the constraint keeps   *)
(* the expensive cases of one component from multiplying each other.  A    *)
(* store that has lost something for good is not followed further.         *)
(***************************************************************************)
EXTENDS Services, TLC

Webhook(kind, result, prs, branch) ==
  [kind |-> kind, result |-> result, prs |-> prs, branch |-> branch]
SomeDeliveries ==
  {Webhook("ci", "failure", "own", "own"), Webhook("ci", "failure", "none", "own"),
   Webhook("ci", "stale", "foreign", "none"), Webhook("ci", "success", "none", "none"),
   Webhook("pr_activity", "success", "foreign", "foreign"),
   Webhook("human_push", "success", "none", "own")}

RunSymmetry == Permutations(Runs) \cup Permutations(Jobs) \cup Permutations(Sessions)

SomeRates == [llm_run |-> 2, llm_org |-> 3, api |-> 2]
SomeBursts == [llm_run |-> 1, llm_org |-> 2, api |-> 2]
FewAtOnce == [run |-> 1, org |-> 1, sse |-> 1]

\* Connections of the desk break, Stop is pressed and workers are followed by others
\* only where one message was sent; a second connection of the tools worker only for
\* two calls; follow-ups to workspaces and failed runs only where one run exists.
Small ==
  /\ \/ tale.stops + tale.cuts = 0 /\ Len(procs) <= 1
     \/ tale.stops + tale.cuts <= 1 /\ tale.sent <= 1
  /\ Len(sockets) <= 1 \/ turn.asked <= 2
  /\ \/ fate.asked = 0 /\ \A r \in Jobs : files[r].status # "ERROR"
     \/ Cardinality({r \in Jobs : files[r].status # "new"}) <= 1
  /\ storePast.hit \subseteq {"picture"} /\ (storePast.loads = 0 \/ storePast.posts <= 1)
  /\ Len(saves) <= IF storePast.posts <= 1 /\ loads = <<>> THEN 2 ELSE 1
  /\ Cardinality({n \in {"chats", "asks", "viewers"} : ratePast[n] > 0}) <= 1
===============================================================================
