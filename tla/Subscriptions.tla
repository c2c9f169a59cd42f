----------------------------- MODULE Subscriptions -----------------------------
(***************************************************************************)
(* GitHub wakes a run.  neo_subscribe and the opening of a pull request    *)
(* add subscriptions to the run (subscribeRun); a webhook call walks them  *)
(* (ingestGitHubWebhook), decides for each whether to ask the agent to     *)
(* look or to repair (autofix.ts), and waits for each follow-up before it  *)
(* goes on.  GitHub may call twice, several calls wait side by side, and   *)
(* users send follow-ups, push and archive meanwhile.                      *)
(***************************************************************************)
EXTENDS Integers, Sequences, FiniteSets, Functions

CONSTANTS
  MaxSubscriptionWakes,  \* contracts/src/subscription.ts
  MaxCiAutofix,
  Deliveries,   \* what GitHub may deliver: a set of events, see Mail
  MaxKeys,      \* bound: deliveries of GitHub
  MaxHooks,     \* bound: webhook calls
  HookFaults    \* which of "throw" (enqueueFollowUp throws), "archive" may happen

ASSUME HookNumbers ==
  MaxSubscriptionWakes \in Nat /\ MaxCiAutofix \in Nat /\ MaxKeys \in Nat /\ MaxHooks \in Nat
ASSUME HookFaultsKnown == HookFaults \subseteq {"throw", "archive"}

\* What parseGitHubWebhook makes of an event.  prs, branch: which pull request and
\* branch it names, the run's own or not.
Mail == [kind : {"pr_activity", "ci", "human_push"}, result : {"success", "failure", "stale"},
         prs : {"none", "own", "foreign"}, branch : {"none", "own", "foreign"}]
ASSUME DeliveriesKnown == Deliveries \subseteq Mail

VARIABLES
  subs,      \* subscriptions.get(runId), in the order they were made
  owner,     \* the run's record: has a pull request, archived, blockAutofix
  hooks,     \* webhook calls that have not returned
  mail,      \* deliveries GitHub has made: mail[key]
  followUps,     \* followUps.get(runId)
  hookPast   \* history: calls, and <<subscription, key>> taken before another key was
hookVars == <<subs, owner, hooks, mail, followUps, hookPast>>

Keys == 1..MaxKeys
Actions == {"watch", "autofix"}
Subscription == [kind : {"github_pr", "github_ci"}, target : {"branch", "pr"}, mode : Actions,
                 wakes : 0..MaxSubscriptionWakes, fixes : 0..MaxCiAutofix, last : 0..MaxKeys,
                 fresh : BOOLEAN]       \* fresh: lastDeliveredAt is less than 8 s ago
FollowUpOf == [by : {"user", "hook"}, sub : Nat, key : 0..MaxKeys, action : Actions]

HookTypeOK ==
  /\ subs \in Seq(Subscription)
  /\ owner \in [pr : BOOLEAN, archived : BOOLEAN, blocked : BOOLEAN]
  /\ DOMAIN hooks \subseteq 1..MaxHooks
  /\ \A h \in DOMAIN hooks :
       hooks[h] \in [key : Keys, at : Nat, action : Actions, pc : {"account", "resume"}]
  /\ mail \in Seq(Mail) /\ Len(mail) <= MaxKeys
  /\ followUps \in Seq(FollowUpOf)
  /\ hookPast.calls \in 0..MaxHooks /\ hookPast.between \subseteq Nat \X Keys

HookInit ==
  /\ subs = <<>> /\ hooks = <<>> /\ mail = <<>> /\ followUps = <<>>
  /\ owner = [pr |-> FALSE, archived |-> FALSE, blocked |-> FALSE]
  /\ hookPast = [calls |-> 0, between |-> {}]

-----------------------------------------------------------------------------
(* orchestrator.ts subscribeRun: what is not there yet is added.           *)

Fresh(kind, target) ==
  [kind |-> kind, target |-> target, wakes |-> 0, fixes |-> 0, last |-> 0, fresh |-> FALSE,
   mode |-> IF kind = "github_ci" THEN "autofix" ELSE "watch"]

\* subscriptionTargetsFrom: the pull request once there is one, else repository and branch.
Subscribed(pr) ==
  LET target == IF pr THEN "pr" ELSE "branch"
      Added(kind) == IF \A i \in DOMAIN subs : subs[i].kind # kind \/ subs[i].target # target
                     THEN <<Fresh(kind, target)>> ELSE <<>>
  IN subs \o Added("github_pr") \o Added("github_ci")

SubscribeRun ==
  /\ ~owner.archived /\ subs # Subscribed(owner.pr)
  /\ subs' = Subscribed(owner.pr)
  /\ UNCHANGED <<owner, hooks, mail, followUps, hookPast>>

OpenPullRequest ==
  /\ ~owner.archived /\ ~owner.pr
  /\ owner' = [owner EXCEPT !.pr = TRUE] /\ subs' = Subscribed(TRUE)
  /\ UNCHANGED <<hooks, mail, followUps, hookPast>>

-----------------------------------------------------------------------------
(* github.ts and autofix.ts                                                *)

SubscriptionMatchesIngress(s, m) ==
  CASE m.kind = "human_push" -> m.branch = "own"
    [] m.kind = "ci" /\ s.kind # "github_ci" -> FALSE
    [] m.kind = "pr_activity" /\ s.kind # "github_pr" -> FALSE
    [] s.target = "pr" /\ m.prs # "none" -> m.prs = "own"
    [] m.branch # "none" -> m.branch = "own"
    [] OTHER -> s.target = "branch"

HasUserFollowUp == \E i \in DOMAIN followUps : followUps[i].by = "user"

\* A slip for decideSubscriptionWake: repairs are not counted.
DecideUncounted(s, m) ==
  IF m.kind = "ci" /\ m.result = "failure" /\ ~owner.blocked THEN {s.mode} ELSE {"watch"}
\* decideSubscriptionWake; "skip" is no action.  A result GitHub does not name counts
\* as a failure, one that is neither ("stale") is skipped.
DecideSubscriptionWake(s, m) ==
  IF m.kind = "pr_activity" \/ m.result = "success" THEN {"watch"}
  ELSE IF m.result = "stale" THEN {}
  ELSE IF s.mode = "watch" THEN {"watch"}
  ELSE IF owner.blocked \/ HasUserFollowUp \/ m.prs = "foreign" \/ s.fixes >= MaxCiAutofix THEN {}
  ELSE {"autofix"}

-----------------------------------------------------------------------------
(* orchestrator.ts ingestGitHubWebhook                                     *)

\* The subscriptions from place `from` on that a call with mail m has to ask for.
Wakes(key, m, from) ==
  {i \in from..Len(subs) :
     /\ SubscriptionMatchesIngress(subs[i], m)
     /\ subs[i].last # key /\ subs[i].wakes < MaxSubscriptionWakes /\ ~subs[i].fresh
     /\ DecideSubscriptionWake(subs[i], m) # {}}

\* A slip for Noted: the key is not kept.
Counted(s, key, action) ==
  [s EXCEPT !.wakes = @ + 1, !.fresh = TRUE, !.fixes = IF action = "autofix" THEN @ + 1 ELSE @]
Noted(s, key, action) == [Counted(s, key, action) EXCEPT !.last = key]

\* The loop of call h up to its next enqueueFollowUp, or to its end.
HookLoop(h, key, m, from) ==
  LET due == Wakes(key, m, from)
      calls == IF h > hookPast.calls THEN h ELSE hookPast.calls
  IN IF due = {} THEN /\ hooks' = Restrict(hooks, DOMAIN hooks \ {h})
                      /\ hookPast' = [hookPast EXCEPT !.calls = calls]
                      /\ UNCHANGED subs
     ELSE \E i \in due : \E action \in DecideSubscriptionWake(subs[i], m) :
          /\ \A j \in due : i <= j
          /\ subs' = [subs EXCEPT ![i] = Noted(@, key, action)]
          /\ hooks' = [g \in DOMAIN hooks \cup {h} |->
               IF g = h THEN [key |-> key, at |-> i, action |-> action, pc |-> "account"] ELSE hooks[g]]
          /\ hookPast' = [calls |-> calls,
               between |-> hookPast.between \cup ({<<i, subs[i].last>>} \cap (Nat \X (Keys \ {key})))]

\* GitHub delivers an event, or delivers one again.
IngestGitHubWebhook(key, m) ==
  /\ hookPast.calls < MaxHooks
  /\ mail' = IF key = Len(mail) + 1 THEN Append(mail, m) ELSE mail
  /\ key \in DOMAIN mail' /\ mail'[key] = m
  /\ m.prs = "own" => owner.pr
  /\ LET from == IF owner.archived \/ m.kind = "human_push" THEN Len(subs) + 1 ELSE 1
     IN HookLoop(hookPast.calls + 1, key, m, from)
  /\ owner' = [owner EXCEPT !.blocked = @ \/ (~owner.archived /\ m.kind = "human_push"
                 /\ \E i \in DOMAIN subs : SubscriptionMatchesIngress(subs[i], m))]
  /\ UNCHANGED followUps

\* enqueueFollowUp of a call: the run was looked at before the account is awaited;
\* of an archived run the follow-up goes nowhere.
EnqueueFollowUp(h) ==
  /\ hooks[h].pc = "account"
  /\ followUps' = IF owner.archived THEN followUps
              ELSE Append(followUps, [by |-> "hook", sub |-> hooks[h].at, key |-> hooks[h].key,
                                  action |-> hooks[h].action])
  /\ hooks' = [hooks EXCEPT ![h].pc = "resume"]
  /\ UNCHANGED <<subs, owner, mail, hookPast>>

\* resumeRun has ended: the next subscription; the run's status is not read again,
\* but enqueueFollowUp throws for an archived run and ends the call.
HookGoesOn(h) ==
  /\ hooks[h].pc = "resume"
  /\ HookLoop(h, hooks[h].key, mail[hooks[h].key],
              IF owner.archived THEN Len(subs) + 1 ELSE hooks[h].at + 1)
  /\ UNCHANGED <<owner, mail, followUps>>

\* enqueueFollowUp throws (no credit, a desk that is away): the call answers 500 and
\* the delivery counts as taken.
EnqueueThrows(h) ==
  /\ "throw" \in HookFaults /\ hooks[h].pc = "account"
  /\ hooks' = Restrict(hooks, DOMAIN hooks \ {h})
  /\ UNCHANGED <<subs, owner, mail, followUps, hookPast>>

-----------------------------------------------------------------------------
(* What else happens                                                       *)

\* SUBSCRIPTION_COALESCE_MS have passed.
Cools(i) ==
  /\ subs[i].fresh /\ subs' = [subs EXCEPT ![i].fresh = FALSE]
  /\ UNCHANGED <<owner, hooks, mail, followUps, hookPast>>

UserFollowsUp ==
  /\ ~owner.archived /\ ~HasUserFollowUp
  /\ followUps' = Append(followUps, [by |-> "user", sub |-> 0, key |-> 0, action |-> "watch"])
  /\ UNCHANGED <<subs, owner, hooks, mail, hookPast>>

\* archiveRun: followUps.delete.
RunIsArchived ==
  /\ "archive" \in HookFaults /\ ~owner.archived
  /\ owner' = [owner EXCEPT !.archived = TRUE] /\ followUps' = <<>>
  /\ UNCHANGED <<subs, hooks, mail, hookPast>>

HookNext ==
  \/ SubscribeRun \/ OpenPullRequest \/ UserFollowsUp \/ RunIsArchived
  \/ \E key \in Keys, m \in Deliveries : IngestGitHubWebhook(key, m)
  \/ \E h \in DOMAIN hooks : EnqueueFollowUp(h) \/ HookGoesOn(h) \/ EnqueueThrows(h)
  \/ \E i \in DOMAIN subs : Cools(i)

HookSpec == HookInit /\ [][HookNext]_hookVars

-----------------------------------------------------------------------------
(* Properties                                                              *)

Asked(i) == {p \in DOMAIN followUps : followUps[p].by = "hook" /\ followUps[p].sub = i}

\* However often GitHub repeats a delivery and however many calls wait side by side,
\* a subscription asks the agent at most once for one delivery (until another delivery
\* took its place: one key is kept), and never beyond MAX_CI_AUTOFIX repairs and
\* MAX_SUBSCRIPTION_WAKES wakes (orchestrator.ts ingestGitHubWebhook, which counts and
\* keeps the key before it waits).
WakesOnce ==
  \A i \in DOMAIN subs :
    /\ Cardinality(Asked(i)) <= MaxSubscriptionWakes
    /\ Cardinality({p \in Asked(i) : followUps[p].action = "autofix"}) <= MaxCiAutofix
    /\ \A p, q \in Asked(i) : (p < q /\ followUps[p].key = followUps[q].key)
                                => <<i, followUps[p].key>> \in hookPast.between

\* What the docs say of the run, and is not so: at most MAX_CI_AUTOFIX repairs
\* (architecture-overview.md:488) ...
RepairsBounded ==
  Cardinality({p \in DOMAIN followUps : followUps[p].action = "autofix"}) <= MaxCiAutofix

\* ... and none once a user has followed up or pushed (architecture-overview.md:596).
HumansTakeOver ==
  \A p, q \in DOMAIN followUps : (p < q /\ followUps[p].by = "user") => followUps[q].action # "autofix"
===============================================================================
