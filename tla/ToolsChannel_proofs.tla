------------------------- MODULE ToolsChannel_proofs -------------------------
(***************************************************************************)
(* Proofs about ToolsChannel: however many calls the model makes, and      *)
(* however often the worker's connection breaks and comes back, no command *)
(* runs beside another on the same files, and no call runs twice in a row. *)
(***************************************************************************)
EXTENDS ToolsChannel, FiniteSetTheorems, WellFoundedInduction, TLAPS

Ops == {"fs", "exec", "upload"}
CallOf(S) == [sig : S, op : Ops, res : {"open"} \cup Outcomes]
Sock == [hub : BOOLEAN, worker : BOOLEAN, down : Seq(Down), up : Seq(Up)]
Child == [call : Nat, killed : BOOLEAN]
Par == Reads \cup Greps

\* A call that is on its way to the worker; one whose answer is on its way back.
InDown(c) == \E i \in DOMAIN sockets : \E j \in DOMAIN sockets[i].down :
               sockets[i].down[j].kind = "call" /\ sockets[i].down[j].call = c
InUp(c) == \E i \in DOMAIN sockets : \E j \in DOMAIN sockets[i].up :
             sockets[i].up[j].kind = "answer" /\ sockets[i].up[j].call = c
AnswerOpen(c) == calls[c].res \in {"open", "timeout"}

ToolShapes ==
  /\ DOMAIN turn = {"pc", "plan", "at", "group", "before", "repeat", "prior", "rounds", "asked", "aborted"}
  /\ DOMAIN hub = {"conn", "ready", "pending"}
  /\ \E S : calls \in Seq(CallOf(S))
  /\ sockets \in Seq(Sock) /\ children \subseteq Child
\* The calls that wait are those of the group under way, and only reads wait together.
Grouped ==
  /\ turn.at \in Nat /\ IsFiniteSet(DOMAIN turn.group)
  /\ turn.group # <<>> => turn.pc = "batch"
  /\ \A c \in DOMAIN calls : calls[c].res = "open" => \E step \in DOMAIN turn.group : turn.group[step] = c
  /\ \A step \in DOMAIN turn.group : turn.group[step] \in DOMAIN calls
  /\ turn.group # <<>> => \/ DOMAIN turn.group = {turn.at}
                          \/ turn.plan[turn.at].sig \in Par
  /\ \A c, d \in DOMAIN calls : (c < d /\ calls[c].res = "open") => {calls[c].sig, calls[d].sig} \subseteq Par
\* One end at the worker is open at most, that of the last connection; the hub has that one or none.
SocketEnds ==
  /\ \A i \in DOMAIN sockets : /\ sockets[i].worker => i = Len(sockets)
                               /\ ~sockets[i].worker => sockets[i].down = <<>>
  /\ hub.conn \in {0, Len(sockets)}
  /\ hub.pending \subseteq DOMAIN calls /\ \A c \in hub.pending : calls[c].res = "open"
\* Each call is sent once, and answered after it was sent.
Frames ==
  /\ \A i \in DOMAIN sockets : \A j, k \in DOMAIN sockets[i].down :
       (j # k /\ sockets[i].down[j].kind = "call" /\ sockets[i].down[k].kind = "call")
         => sockets[i].down[j].call # sockets[i].down[k].call
  /\ \A c : InUp(c) => c \in DOMAIN calls
  /\ \A c : InDown(c) => /\ c \in DOMAIN calls /\ AnswerOpen(c) /\ ~InUp(c)
                         /\ \A ch \in children : ch.call # c
\* A command that runs on unhindered is one whose call still waits, on a connection that is open.
Commands ==
  /\ \A ch \in children : ch.call \in DOMAIN calls
  /\ \A ch \in children : ~ch.killed => AnswerOpen(ch.call) /\ ~InUp(ch.call)
  /\ \A ch, other \in children : ch.call = other.call => ch = other
  /\ OpenEnds = {} => \A ch \in children : ch.killed
Executed == DOMAIN tools = {"stopped", "ran"} /\ tools.ran \subseteq DOMAIN calls
TInv == ToolShapes /\ Grouped /\ SocketEnds /\ Frames /\ Commands /\ Executed

-----------------------------------------------------------------------------
\* The invariant says more than the property.
LEMMA HandsKnown == TInv => OneHand
<1>. SUFFICES ASSUME TInv, NEW ch \in children, NEW d \in tools.ran,
                     ~ch.killed, ~(d <= ch.call), calls[ch.call].res # "timeout"
              PROVE  {calls[ch.call].sig, calls[d].sig} \subseteq Reads \cup Greps
  BY DEF OneHand
<1>1. PICK S : calls \in Seq(CallOf(S))
  BY DEF TInv, ToolShapes
<1>2. /\ ch.call \in DOMAIN calls /\ calls[ch.call].res = "open" /\ d \in DOMAIN calls
  BY DEF TInv, Commands, AnswerOpen, Executed
<1>3. ch.call \in Nat /\ d \in Nat
  BY <1>1, <1>2
<1>4. ch.call < d
  BY <1>3
<1>. QED BY <1>2, <1>4 DEF TInv, Grouped, Par

LEMMA TInit == ToolsInit => TInv
<1>. SUFFICES ASSUME ToolsInit PROVE TInv
  OBVIOUS
<1>1. /\ calls = <<>> /\ sockets = <<>> /\ children = {} /\ DOMAIN calls = {} /\ DOMAIN sockets = {}
      /\ hub = [conn |-> 0, ready |-> FALSE, pending |-> {}] /\ tools.ran = {} /\ Len(sockets) = 0
      /\ DOMAIN tools = {"stopped", "ran"}
  BY DEF ToolsInit
<1>2. /\ DOMAIN turn = {"pc", "plan", "at", "group", "before", "repeat", "prior", "rounds", "asked", "aborted"}
      /\ turn.at = 1 /\ turn.group = <<>> /\ DOMAIN turn.group = {}
  BY DEF ToolsInit
<1>3. ToolShapes
  BY <1>1, <1>2 DEF ToolShapes
<1>4. Grouped
  BY <1>1, <1>2, FS_EmptySet DEF Grouped
<1>5. SocketEnds
  BY <1>1 DEF SocketEnds
<1>6. Frames /\ Commands
  BY <1>1 DEF Frames, Commands, InUp, InDown
<1>. QED BY <1>1, <1>3, <1>4, <1>5, <1>6 DEF TInv, Executed

-----------------------------------------------------------------------------
(* The turn moves and nothing else does: it keeps the calls under way, or   *)
(* none waits.                                                              *)

LEMMA OnlyTurn ==
  ASSUME TInv, UNCHANGED <<calls, hub, sockets, children, tools>>,
         DOMAIN turn' = DOMAIN turn, turn'.at \in Nat,
         \/ /\ turn'.group = turn.group /\ turn'.at = turn.at
            /\ turn'.plan = turn.plan /\ turn'.pc = turn.pc
         \/ turn'.group = <<>> /\ \A c \in DOMAIN calls : calls[c].res # "open"
  PROVE  TInv'
<1>1. ToolShapes' /\ SocketEnds' /\ Frames' /\ Commands' /\ Executed'
  BY DEF TInv, ToolShapes, SocketEnds, Frames, Commands, Executed, InDown, InUp, AnswerOpen, OpenEnds
<1>2. CASE /\ turn'.group = turn.group /\ turn'.at = turn.at
           /\ turn'.plan = turn.plan /\ turn'.pc = turn.pc
  BY <1>1, <1>2 DEF TInv, Grouped
<1>3. CASE turn'.group = <<>> /\ \A c \in DOMAIN calls : calls[c].res # "open"
  <2>1. DOMAIN turn'.group = {} /\ IsFiniteSet(DOMAIN turn'.group)
    BY <1>3, FS_EmptySet
  <2>2. Grouped'
    BY <1>3, <2>1 DEF Grouped
  <2>. QED BY <1>1, <2>2 DEF TInv
<1>. QED BY <1>2, <1>3

\* Between the calls of two groups none waits.
LEMMA NoneWaits ==
  ASSUME TInv, turn.group = <<>>
  PROVE  \A c \in DOMAIN calls : calls[c].res # "open"
BY DEF TInv, Grouped

LEMMA TurnMovesKept ==
  ASSUME TInv,
         \/ WaitReady \/ AnswerText \/ TurnFails \/ PlanCalls \/ Replay \/ BlockSleep
         \/ GroupEnds \/ BatchEnds \/ AbortTurn
  PROVE  TInv'
<1>0. /\ DOMAIN turn = {"pc", "plan", "at", "group", "before", "repeat", "prior", "rounds", "asked", "aborted"}
      /\ turn.at \in Nat /\ IsFiniteSet(DOMAIN turn.group)
      /\ turn.pc # "batch" => turn.group = <<>>
  BY DEF TInv, ToolShapes, Grouped
<1>1. CASE WaitReady \/ AnswerText \/ TurnFails
  <2>1. turn.group = <<>> /\ UNCHANGED <<calls, hub, sockets, children, tools>>
    BY <1>0, <1>1 DEF WaitReady, AnswerText, TurnFails
  <2>2. PICK p : turn' = [turn EXCEPT !.pc = p]
    BY <1>1 DEF WaitReady, AnswerText, TurnFails
  <2>3. DOMAIN turn' = DOMAIN turn /\ turn'.at = turn.at /\ turn'.group = turn.group
    BY <1>0, <2>2
  <2>. QED BY <1>0, <2>1, <2>3, NoneWaits, OnlyTurn
<1>2. CASE PlanCalls
  <2>1. turn.group = <<>> /\ UNCHANGED <<calls, hub, sockets, children, tools>>
    BY <1>0, <1>2 DEF PlanCalls
  <2>2. PICK sigs \in UNION {[1..n -> Sigs] : n \in 1..MaxTools - turn.asked} :
          LET b == PlanReply(turn.repeat, sigs)
          IN turn' = [turn EXCEPT !.pc = "batch", !.plan = b.plan, !.at = 1, !.rounds = @ + 1, !.asked = @ + Len(sigs),
                        !.before = IF turn.plan = <<>> THEN NoStep ELSE Last(turn.plan),
                        !.repeat = b.state]
    BY <1>2 DEF PlanCalls
  <2>3. DOMAIN turn' = DOMAIN turn /\ turn'.at = 1 /\ turn'.group = turn.group
    BY <1>0, <2>2
  <2>. QED BY <1>0, <2>1, <2>3, NoneWaits, OnlyTurn
<1>3. CASE Replay \/ BlockSleep \/ BatchEnds
  <2>1. turn.group = <<>> /\ UNCHANGED <<calls, hub, sockets, children, tools>>
    BY <1>0, <1>3 DEF Replay, BlockSleep, BatchEnds, AtStep
  <2>2. CASE Replay
    <3>1. turn' = [turn EXCEPT !.at = @ + 1]
      BY <2>2 DEF Replay
    <3>. QED BY <1>0, <2>1, <3>1, NoneWaits, OnlyTurn
  <2>3. CASE BlockSleep
    <3>1. turn' = [turn EXCEPT !.at = @ + 1, !.prior[Step.sig] = "answered"]
      BY <2>3 DEF BlockSleep
    <3>2. DOMAIN turn' = DOMAIN turn /\ turn'.at \in Nat /\ turn'.group = turn.group
      BY <1>0, <3>1
    <3>. QED BY <1>0, <2>1, <3>2, NoneWaits, OnlyTurn
  <2>4. CASE BatchEnds
    <3>1. turn' = [turn EXCEPT !.pc = "infer"]
      BY <2>4 DEF BatchEnds
    <3>. QED BY <1>0, <2>1, <3>1, NoneWaits, OnlyTurn
  <2>. QED BY <1>3, <2>2, <2>3, <2>4
<1>4. CASE GroupEnds
  <2>1. UNCHANGED <<calls, hub, sockets, children, tools>>
    BY <1>4 DEF GroupEnds
  <2>2. \A c \in DOMAIN calls : calls[c].res # "open"
    BY <1>4 DEF GroupEnds, TInv, Grouped
  <2>3. PICK prior : turn' = [turn EXCEPT !.group = <<>>, !.at = @ + Cardinality(DOMAIN turn.group), !.prior = prior]
    BY <1>4 DEF GroupEnds
  <2>4. Cardinality(DOMAIN turn.group) \in Nat
    BY <1>0, FS_CardinalityType
  <2>5. DOMAIN turn' = DOMAIN turn /\ turn'.at = turn.at + Cardinality(DOMAIN turn.group) /\ turn'.group = <<>>
    BY <1>0, <2>3
  <2>. QED BY <1>0, <2>1, <2>2, <2>4, <2>5, OnlyTurn
<1>5. CASE AbortTurn
  <2>1. /\ DOMAIN turn' = DOMAIN turn /\ turn'.group = turn.group /\ turn'.at = turn.at
        /\ turn'.plan = turn.plan /\ turn'.pc = turn.pc
        /\ UNCHANGED <<calls, hub, sockets, children, tools>>
    BY <1>0, <1>5 DEF AbortTurn
  <2>. QED BY <1>0, <2>1, OnlyTurn
<1>. QED BY <1>1, <1>2, <1>3, <1>4, <1>5

-----------------------------------------------------------------------------
(* Frames on their way to the worker.                                       *)

CallFrames(frames) == {frames[j].call : j \in {k \in DOMAIN frames : frames[k].kind = "call"}}
Distinct(frames) == \A j, k \in DOMAIN frames :
  (j # k /\ frames[j].kind = "call" /\ frames[k].kind = "call") => frames[j].call # frames[k].call

\* Frames appended to the connection's queue: what is then on its way.
LEMMA SentDown ==
  ASSUME TInv, Connected, NEW frames \in Seq(Down), SendDown(frames)
  PROVE  /\ sockets' \in Seq(Sock) /\ Len(sockets') = Len(sockets)
         /\ \A i \in DOMAIN sockets : /\ sockets'[i].worker = sockets[i].worker
                                      /\ sockets'[i].hub = sockets[i].hub /\ sockets'[i].up = sockets[i].up
         /\ \A i \in DOMAIN sockets : sockets'[i].down =
              IF i = hub.conn /\ sockets[i].worker THEN sockets[i].down \o frames ELSE sockets[i].down
<1>1. sockets \in Seq(Sock) /\ hub.conn \in DOMAIN sockets
  BY DEF TInv, ToolShapes, SocketEnds, Connected
<1>2. PICK h \in DOMAIN sockets : h = hub.conn
  BY <1>1
<1>3. sockets[h] \in Sock
  BY <1>1
<1>4. DEFINE q == IF sockets[h].worker THEN sockets[h].down \o frames ELSE sockets[h].down
<1>5. q \in Seq(Down)
  BY <1>3 DEF Sock
<1>6. sockets' = [sockets EXCEPT ![h] = [sockets[h] EXCEPT !.down = q]]
  BY <1>2 DEF SendDown
<1>. HIDE DEF q
<1>7. [sockets[h] EXCEPT !.down = q] \in Sock
  BY <1>3, <1>5 DEF Sock
<1>8. sockets' \in Seq(Sock) /\ Len(sockets') = Len(sockets) /\ DOMAIN sockets' = DOMAIN sockets
  BY <1>1, <1>6, <1>7
<1>9. \A i \in DOMAIN sockets : sockets'[i] = IF i = h THEN [sockets[h] EXCEPT !.down = q] ELSE sockets[i]
  BY <1>1, <1>6
<1>10. \A i \in DOMAIN sockets :
         /\ sockets'[i].worker = sockets[i].worker /\ sockets'[i].hub = sockets[i].hub
         /\ sockets'[i].up = sockets[i].up
         /\ sockets'[i].down = IF i = h THEN q ELSE sockets[i].down
  BY <1>3, <1>9 DEF Sock
<1>11. q = IF h = hub.conn /\ sockets[h].worker THEN sockets[h].down \o frames ELSE sockets[h].down
  BY <1>2 DEF q
<1>. QED BY <1>2, <1>8, <1>10, <1>11

LEMMA DownGrows ==
  ASSUME TInv, Connected, NEW frames \in Seq(Down), SendDown(frames)
  PROVE  /\ \A c : InUp(c)' <=> InUp(c)
         /\ \A c : InDown(c)' => InDown(c) \/ c \in CallFrames(frames)
         /\ (Distinct(frames) /\ \A c \in CallFrames(frames) : ~InDown(c)) =>
              \A i \in DOMAIN sockets : Distinct(sockets'[i].down)
         /\ \A i \in DOMAIN sockets : ~sockets[i].worker => sockets'[i].down = <<>>
         /\ OpenEnds' = OpenEnds
<1>1. /\ sockets' \in Seq(Sock) /\ DOMAIN sockets' = DOMAIN sockets
      /\ \A i \in DOMAIN sockets : /\ sockets'[i].worker = sockets[i].worker
                                   /\ sockets'[i].up = sockets[i].up
      /\ \A i \in DOMAIN sockets : sockets'[i].down =
           IF i = hub.conn /\ sockets[i].worker THEN sockets[i].down \o frames ELSE sockets[i].down
  BY SentDown DEF TInv, ToolShapes
<1>2. \A i \in DOMAIN sockets : sockets[i] \in Sock
  BY DEF TInv, ToolShapes
<1>3. \A i \in DOMAIN sockets : sockets[i].down \in Seq(Down)
  BY <1>2 DEF Sock
<1>4. \A i \in DOMAIN sockets : \A j \in DOMAIN (sockets[i].down \o frames) :
        \/ j \in DOMAIN sockets[i].down /\ (sockets[i].down \o frames)[j] = sockets[i].down[j]
        \/ \E k \in DOMAIN frames : /\ k = j - Len(sockets[i].down)
                                    /\ (sockets[i].down \o frames)[j] = frames[k]
  BY <1>3
<1>5. \A c : InUp(c)' <=> InUp(c)
  BY <1>1 DEF InUp
<1>6. ASSUME NEW c, InDown(c)' PROVE InDown(c) \/ c \in CallFrames(frames)
  <2>1. PICK i \in DOMAIN sockets : \E j \in DOMAIN sockets'[i].down :
          sockets'[i].down[j].kind = "call" /\ sockets'[i].down[j].call = c
    BY <1>1, <1>6 DEF InDown
  <2>2. PICK j \in DOMAIN sockets'[i].down :
          sockets'[i].down[j].kind = "call" /\ sockets'[i].down[j].call = c
    BY <2>1
  <2>3. CASE sockets'[i].down = sockets[i].down
    BY <2>2, <2>3 DEF InDown
  <2>4. CASE sockets'[i].down = sockets[i].down \o frames
    <3>1. CASE j \in DOMAIN sockets[i].down /\ sockets'[i].down[j] = sockets[i].down[j]
      BY <2>2, <3>1 DEF InDown
    <3>2. CASE \E k \in DOMAIN frames : sockets'[i].down[j] = frames[k]
      BY <2>2, <3>2 DEF CallFrames
    <3>. QED BY <1>4, <2>2, <2>4, <3>1, <3>2
  <2>. QED BY <1>1, <2>3, <2>4
<1>7. ASSUME Distinct(frames), \A c \in CallFrames(frames) : ~InDown(c), NEW i \in DOMAIN sockets
      PROVE  Distinct(sockets'[i].down)
  <2>1. Distinct(sockets[i].down)
    BY DEF TInv, Frames, Distinct
  <2>2. \A j \in DOMAIN sockets[i].down, k \in DOMAIN frames :
          (sockets[i].down[j].kind = "call" /\ frames[k].kind = "call") => sockets[i].down[j].call # frames[k].call
    BY <1>7 DEF InDown, CallFrames
  <2>3. CASE sockets'[i].down = sockets[i].down \o frames
    <3>. SUFFICES ASSUME NEW j \in DOMAIN sockets'[i].down, NEW k \in DOMAIN sockets'[i].down, j # k,
                         sockets'[i].down[j].kind = "call", sockets'[i].down[k].kind = "call"
                  PROVE  sockets'[i].down[j].call # sockets'[i].down[k].call
      BY DEF Distinct
    <3>1. \/ j \in DOMAIN sockets[i].down /\ sockets'[i].down[j] = sockets[i].down[j]
          \/ \E l \in DOMAIN frames : l = j - Len(sockets[i].down) /\ sockets'[i].down[j] = frames[l]
      BY <1>4, <2>3
    <3>2. \/ k \in DOMAIN sockets[i].down /\ sockets'[i].down[k] = sockets[i].down[k]
          \/ \E l \in DOMAIN frames : l = k - Len(sockets[i].down) /\ sockets'[i].down[k] = frames[l]
      BY <1>4, <2>3
    <3>3. j \in Nat /\ k \in Nat /\ Len(sockets[i].down) \in Nat
      BY <1>3, <2>3
    <3>4. CASE j \in DOMAIN sockets[i].down /\ sockets'[i].down[j] = sockets[i].down[j]
      BY <2>1, <2>2, <3>2, <3>4 DEF Distinct
    <3>5. ASSUME NEW l \in DOMAIN frames, l = j - Len(sockets[i].down), sockets'[i].down[j] = frames[l]
          PROVE  sockets'[i].down[j].call # sockets'[i].down[k].call
      <4>1. CASE k \in DOMAIN sockets[i].down /\ sockets'[i].down[k] = sockets[i].down[k]
        BY <2>2, <3>5, <4>1
      <4>2. ASSUME NEW m \in DOMAIN frames, m = k - Len(sockets[i].down), sockets'[i].down[k] = frames[m]
            PROVE  sockets'[i].down[j].call # sockets'[i].down[k].call
        <5>1. l # m
          BY <3>3, <3>5, <4>2
        <5>. QED BY <1>7, <3>5, <4>2, <5>1 DEF Distinct
      <4>. QED BY <3>2, <4>1, <4>2
    <3>. QED BY <3>1, <3>4, <3>5
  <2>. QED BY <1>1, <2>1, <2>3
<1>8. \A i \in DOMAIN sockets : ~sockets[i].worker => sockets'[i].down = <<>>
  BY <1>1 DEF TInv, SocketEnds
<1>9. OpenEnds' = OpenEnds
  BY <1>1 DEF OpenEnds
<1>. QED BY <1>5, <1>6, <1>7, <1>8, <1>9

-----------------------------------------------------------------------------
(* abort_all: a turn that is stopped, runs away or is halted.               *)

LEMMA AbortKept ==
  ASSUME TInv, AbortAll, UNCHANGED <<calls, hub, children, tools>>, turn.group = <<>>,
         DOMAIN turn' = DOMAIN turn, turn'.at = turn.at, turn'.group = turn.group
  PROVE  TInv'
<1>0. \A c \in DOMAIN calls : calls[c].res # "open"
  BY NoneWaits
<1>1. CASE UNCHANGED sockets
  BY <1>0, <1>1, OnlyTurn DEF TInv, Grouped
<1>2. CASE Connected /\ SendDown(<<[kind |-> "abort_all"]>>)
  <2>. DEFINE frames == <<[kind |-> "abort_all"]>>
  <2>1. [kind |-> "abort_all"] \in Down
    BY DEF Down
  <2>2. frames \in Seq(Down) /\ CallFrames(frames) = {} /\ Distinct(frames)
    BY <2>1 DEF CallFrames, Distinct
  <2>. HIDE DEF frames
  <2>3. SendDown(frames)
    BY <1>2 DEF frames
  <2>4. /\ sockets' \in Seq(Sock) /\ Len(sockets') = Len(sockets) /\ DOMAIN sockets' = DOMAIN sockets
        /\ \A i \in DOMAIN sockets : sockets'[i].worker = sockets[i].worker
    BY <1>2, <2>2, <2>3, SentDown DEF TInv, ToolShapes
  <2>5. /\ \A c : InUp(c)' <=> InUp(c)
        /\ \A c : InDown(c)' => InDown(c)
        /\ \A i \in DOMAIN sockets : Distinct(sockets'[i].down)
        /\ \A i \in DOMAIN sockets : ~sockets[i].worker => sockets'[i].down = <<>>
        /\ OpenEnds' = OpenEnds
    BY <1>2, <2>2, <2>3, DownGrows
  <2>6. ToolShapes'
    BY <2>4 DEF TInv, ToolShapes
  <2>7. Grouped'
    BY <1>0, FS_EmptySet DEF TInv, Grouped
  <2>8. SocketEnds'
    BY <2>4, <2>5 DEF TInv, SocketEnds
  <2>9. Frames'
    BY <2>4, <2>5 DEF TInv, Frames, Distinct, AnswerOpen
  <2>10. Commands'
    BY <2>5 DEF TInv, Commands, AnswerOpen
  <2>. QED BY <2>6, <2>7, <2>8, <2>9, <2>10 DEF TInv, Executed
<1>. QED BY <1>1, <1>2 DEF AbortAll

LEMMA HaltKept ==
  ASSUME TInv, CancelTurn \/ RunsAway \/ HaltTurn
  PROVE  TInv'
<1>1. /\ AbortAll /\ UNCHANGED <<calls, hub, children, tools>> /\ turn.group = <<>>
  BY DEF CancelTurn, RunsAway, HaltTurn, AtStep, TInv, Grouped
<1>2. PICK p : turn' = [turn EXCEPT !.pc = p]
  BY DEF CancelTurn, RunsAway, HaltTurn
<1>3. DOMAIN turn' = DOMAIN turn /\ turn'.at = turn.at /\ turn'.group = turn.group
  BY <1>2 DEF TInv, ToolShapes
<1>. QED BY <1>1, <1>3, AbortKept

-----------------------------------------------------------------------------
(* The worker's end of a connection closes.                                 *)

\* dispose and abort_all leave the same commands, all told to end.
LEMMA AllKilled ==
  ASSUME TInv
  PROVE  /\ KillAll \subseteq Child /\ \A ch \in KillAll : ch.killed
         /\ \A ch \in KillAll : \E other \in children : ch.call = other.call
         /\ \A ch, other \in KillAll : ch.call = other.call => ch = other
<1>. DEFINE told == TRUE
<1>0. told \in BOOLEAN /\ told = TRUE
  OBVIOUS
<1>. HIDE DEF told
<1>1. KillAll = {[ch EXCEPT !.killed = told] : ch \in children}
  BY DEF KillAll, told
<1>2. ASSUME NEW ch \in Child
      PROVE  /\ [ch EXCEPT !.killed = told] \in Child
             /\ [ch EXCEPT !.killed = told].call = ch.call /\ [ch EXCEPT !.killed = told].killed = told
  BY <1>0 DEF Child
<1>3. children \subseteq Child
  BY DEF TInv, ToolShapes
<1>4. \A ch \in KillAll : \E other \in children : ch = [other EXCEPT !.killed = told]
  BY <1>1
<1>5. \A ch \in KillAll : ch \in Child /\ ch.killed = told /\ \E other \in children : ch.call = other.call
  BY <1>2, <1>3, <1>4
<1>6. ASSUME NEW ch \in KillAll, NEW other \in KillAll, ch.call = other.call
      PROVE  ch = other
  <2>1. PICK c \in children : ch = [c EXCEPT !.killed = told]
    BY <1>4
  <2>2. PICK d \in children : other = [d EXCEPT !.killed = told]
    BY <1>4
  <2>3. c.call = d.call
    BY <1>2, <1>3, <1>6, <2>1, <2>2
  <2>4. c = d
    BY <2>3 DEF TInv, Commands
  <2>. QED BY <2>1, <2>2, <2>4
<1>7. \A ch \in KillAll : ch.killed
  BY <1>0, <1>5
<1>. QED BY <1>5, <1>6, <1>7

LEMMA WorkerEndKept ==
  ASSUME TInv, NEW i \in DOMAIN sockets, WorkerEndCloses(i), DOMAIN tools' = DOMAIN tools, tools'.ran = tools.ran
  PROVE  TInv'
<1>1. /\ sockets \in Seq(Sock) /\ sockets[i] \in Sock /\ sockets[i].worker /\ i = Len(sockets)
      /\ \A k \in DOMAIN sockets : sockets[k] \in Sock
  BY DEF TInv, ToolShapes, SocketEnds, WorkerEndCloses
<1>2. sockets' = [sockets EXCEPT ![i] = [sockets[i] EXCEPT !.worker = FALSE, !.down = <<>>]]
  BY DEF WorkerEndCloses
<1>3. [sockets[i] EXCEPT !.worker = FALSE, !.down = <<>>] \in Sock
  <2>1. <<>> \in Seq(Down) /\ FALSE \in BOOLEAN
    OBVIOUS
  <2>. QED BY <1>1, <2>1, Zenon DEF Sock
<1>4. sockets' \in Seq(Sock) /\ Len(sockets') = Len(sockets) /\ DOMAIN sockets' = DOMAIN sockets
  BY <1>1, <1>2, <1>3
<1>5. \A k \in DOMAIN sockets :
        /\ sockets'[k].up = sockets[k].up
        /\ sockets'[k].worker => k # i /\ sockets[k].worker
        /\ k = i => sockets'[k].down = <<>>
        /\ k # i => sockets'[k].down = sockets[k].down /\ (~sockets'[k].worker => ~sockets[k].worker)
  BY <1>1, <1>2 DEF Sock
<1>6. \A c : /\ InUp(c)' <=> InUp(c)
             /\ InDown(c)' => InDown(c)
  BY <1>4, <1>5 DEF InUp, InDown
<1>7. UNCHANGED <<turn, calls, hub>>
  BY DEF WorkerEndCloses
<1>8. ToolShapes' /\ Grouped' /\ Executed'
  <2>1. children' \subseteq Child /\ \A ch \in children' : ch.killed
    BY AllKilled DEF WorkerEndCloses, Dispose
  <2>. QED BY <1>4, <1>7, <2>1 DEF TInv, ToolShapes, Grouped, Executed
<1>9. SocketEnds'
  BY <1>1, <1>4, <1>5, <1>7 DEF TInv, SocketEnds
<1>10. /\ \A ch \in children' : ch.killed
       /\ \A ch \in children' : \E other \in children : ch.call = other.call
       /\ \A ch, other \in children' : ch.call = other.call => ch = other
  BY AllKilled DEF WorkerEndCloses, Dispose
<1>11. Frames'
  <2>1. \A k \in DOMAIN sockets' : Distinct(sockets'[k].down)
    BY <1>4, <1>5 DEF TInv, Frames, Distinct
  <2>. QED BY <1>6, <1>7, <1>10, <2>1 DEF TInv, Frames, Distinct, AnswerOpen
<1>12. Commands'
  BY <1>7, <1>10 DEF TInv, Commands
<1>. QED BY <1>8, <1>9, <1>11, <1>12 DEF TInv

LEMMA WorkerStopsKept ==
  ASSUME TInv, NEW i \in DOMAIN sockets, SocketBreaks(i) \/ ToolsWorkerStops(i)
  PROVE  TInv'
<1>1. WorkerEndCloses(i)
  BY DEF SocketBreaks, ToolsWorkerStops
<1>2. DOMAIN tools' = DOMAIN tools /\ tools'.ran = tools.ran
  BY DEF SocketBreaks, ToolsWorkerStops, TInv, Executed
<1>. QED BY <1>1, <1>2, WorkerEndKept

-----------------------------------------------------------------------------
(* Requests get their outcome: an answer, the end of the connection, or the *)
(* timer.                                                                   *)

\* It may be anything but "timeout" only for a call that is not to be executed any more.
LEMMA CallsFall ==
  ASSUME TInv, UNCHANGED <<turn, children, tools>>,
         sockets' \in Seq(Sock),
         \A i \in DOMAIN sockets' : /\ sockets'[i].worker => i = Len(sockets')
                                    /\ ~sockets'[i].worker => sockets'[i].down = <<>>
                                    /\ Distinct(sockets'[i].down),
         \A c : /\ InUp(c)' => InUp(c)
                /\ InDown(c)' => InDown(c),
         OpenEnds' = {} => \A ch \in children : ch.killed,
         DOMAIN hub' = DOMAIN hub, hub'.conn \in {0, Len(sockets')}, hub'.pending \subseteq hub.pending,
         DOMAIN calls' = DOMAIN calls, \E S : calls' \in Seq(CallOf(S)),
         \A c \in DOMAIN calls :
           /\ calls'[c].sig = calls[c].sig
           /\ \/ calls'[c].res = calls[c].res
              \/ /\ calls'[c].res # "open" /\ c \notin hub'.pending
                 /\ \/ calls'[c].res = "timeout"
                    \/ ~InDown(c) /\ \A ch \in children : ch.call = c => ch.killed
  PROVE  TInv'
<1>1. ToolShapes' /\ Executed'
  BY DEF TInv, ToolShapes, Executed
<1>2. \A c \in DOMAIN calls : calls'[c].res = "open" => calls[c].res = "open"
  OBVIOUS
<1>3. Grouped'
  <2>1. \A c, d \in DOMAIN calls' :
          (c < d /\ calls'[c].res = "open") => {calls'[c].sig, calls'[d].sig} \subseteq Par
    BY <1>2 DEF TInv, Grouped
  <2>. QED BY <1>2, <2>1 DEF TInv, Grouped
<1>4. SocketEnds'
  <2>1. hub'.pending \subseteq DOMAIN calls' /\ \A c \in hub'.pending : calls'[c].res = "open"
    BY DEF TInv, SocketEnds
  <2>. QED BY <2>1 DEF SocketEnds
<1>5. \A c \in DOMAIN calls : InDown(c) \/ (\E ch \in children : ch.call = c /\ ~ch.killed) =>
        (AnswerOpen(c) => AnswerOpen(c)')
  BY DEF AnswerOpen
<1>6. Frames'
  BY <1>5 DEF TInv, Frames, Distinct
<1>7. Commands'
  BY <1>5 DEF TInv, Commands
<1>. QED BY <1>1, <1>3, <1>4, <1>6, <1>7 DEF TInv

\* One call's outcome.
LEMMA OneOutcome ==
  ASSUME NEW S, NEW cs \in Seq(CallOf(S)), NEW c \in DOMAIN cs, NEW r \in Outcomes
  PROVE  /\ [cs EXCEPT ![c].res = r] \in Seq(CallOf(S)) /\ DOMAIN [cs EXCEPT ![c].res = r] = DOMAIN cs
         /\ \A d \in DOMAIN cs : /\ [cs EXCEPT ![c].res = r][d].sig = cs[d].sig
                                 /\ [cs EXCEPT ![c].res = r][d].res = IF d = c THEN r ELSE cs[d].res
<1>1. \A d \in DOMAIN cs : cs[d] \in CallOf(S)
  OBVIOUS
<1>2. [cs[c] EXCEPT !.res = r] \in CallOf(S)
  BY <1>1 DEF CallOf
<1>3. [cs EXCEPT ![c].res = r] = [cs EXCEPT ![c] = [cs[c] EXCEPT !.res = r]]
  OBVIOUS
<1>4. /\ [cs EXCEPT ![c].res = r] \in Seq(CallOf(S)) /\ DOMAIN [cs EXCEPT ![c].res = r] = DOMAIN cs
      /\ \A d \in DOMAIN cs : [cs EXCEPT ![c].res = r][d] = IF d = c THEN [cs[c] EXCEPT !.res = r] ELSE cs[d]
  BY <1>2, <1>3
<1>. QED BY <1>1, <1>4 DEF CallOf

LEMMA TimeOutKept ==
  ASSUME TInv, NEW c \in DOMAIN calls, CallTimesOut(c)
  PROVE  TInv'
<1>1. /\ c \in hub.pending /\ UNCHANGED <<turn, sockets, children, tools>>
      /\ hub' = [hub EXCEPT !.pending = @ \ {c}] /\ calls' = [calls EXCEPT ![c].res = "timeout"]
  BY DEF CallTimesOut
<1>2. DOMAIN hub' = DOMAIN hub /\ hub'.conn = hub.conn /\ hub'.pending = hub.pending \ {c}
  BY <1>1 DEF TInv, ToolShapes
<1>3. PICK S : calls \in Seq(CallOf(S))
  BY DEF TInv, ToolShapes
<1>4. /\ calls' \in Seq(CallOf(S)) /\ DOMAIN calls' = DOMAIN calls
      /\ \A d \in DOMAIN calls : calls'[d].sig = calls[d].sig /\ calls'[d].res = IF d = c THEN "timeout" ELSE calls[d].res
  <2>1. "timeout" \in Outcomes
    BY DEF Outcomes
  <2>2. /\ [calls EXCEPT ![c].res = "timeout"] \in Seq(CallOf(S))
        /\ DOMAIN [calls EXCEPT ![c].res = "timeout"] = DOMAIN calls
        /\ \A d \in DOMAIN calls :
             /\ [calls EXCEPT ![c].res = "timeout"][d].sig = calls[d].sig
             /\ [calls EXCEPT ![c].res = "timeout"][d].res = IF d = c THEN "timeout" ELSE calls[d].res
    BY <1>3, <2>1, OneOutcome
  <2>. QED BY <1>1, <2>2
<1>5. /\ sockets' \in Seq(Sock)
      /\ \A i \in DOMAIN sockets' : /\ sockets'[i].worker => i = Len(sockets')
                                    /\ ~sockets'[i].worker => sockets'[i].down = <<>>
                                    /\ Distinct(sockets'[i].down)
      /\ OpenEnds' = {} => \A ch \in children : ch.killed
      /\ hub'.conn \in {0, Len(sockets')} /\ hub'.pending \subseteq hub.pending
  BY <1>1, <1>2 DEF TInv, ToolShapes, SocketEnds, Frames, Distinct, Commands, OpenEnds
<1>6. \A d : /\ InUp(d)' => InUp(d)
             /\ InDown(d)' => InDown(d)
  BY <1>1 DEF InUp, InDown
<1>7. \A d \in DOMAIN calls :
        /\ calls'[d].sig = calls[d].sig
        /\ \/ calls'[d].res = calls[d].res
           \/ calls'[d].res # "open" /\ d \notin hub'.pending /\ calls'[d].res = "timeout"
  BY <1>2, <1>4
<1>8. \E T : calls' \in Seq(CallOf(T))
  BY <1>4
<1>. QED BY <1>1, <1>2, <1>4, <1>5, <1>6, <1>7, <1>8, CallsFall

\* A frame is taken from the worker's side of a connection, or all of them are lost with it.
LEMMA UpTaken ==
  ASSUME TInv, NEW i \in DOMAIN sockets, NEW h \in BOOLEAN, NEW up \in Seq(Up),
         sockets' = [sockets EXCEPT ![i] = [sockets[i] EXCEPT !.hub = h, !.up = up]],
         \A j \in DOMAIN up : \E k \in DOMAIN sockets[i].up : up[j] = sockets[i].up[k]
  PROVE  /\ sockets' \in Seq(Sock) /\ Len(sockets') = Len(sockets)
         /\ \A k \in DOMAIN sockets' : /\ sockets'[k].worker => k = Len(sockets')
                                       /\ ~sockets'[k].worker => sockets'[k].down = <<>>
                                       /\ Distinct(sockets'[k].down)
         /\ OpenEnds' = OpenEnds
         /\ \A c : /\ InUp(c)' => InUp(c)
                   /\ InDown(c)' => InDown(c)
<1>1. sockets \in Seq(Sock) /\ sockets[i] \in Sock /\ \A k \in DOMAIN sockets : sockets[k] \in Sock
  BY DEF TInv, ToolShapes
<1>2. [sockets[i] EXCEPT !.hub = h, !.up = up] \in Sock
  BY <1>1 DEF Sock
<1>3. /\ sockets' \in Seq(Sock) /\ Len(sockets') = Len(sockets) /\ DOMAIN sockets' = DOMAIN sockets
      /\ \A k \in DOMAIN sockets :
           sockets'[k] = IF k = i THEN [sockets[i] EXCEPT !.hub = h, !.up = up] ELSE sockets[k]
  BY <1>1, <1>2
<1>4. \A k \in DOMAIN sockets : /\ sockets'[k].worker = sockets[k].worker
                                /\ sockets'[k].down = sockets[k].down
                                /\ sockets'[k].up = IF k = i THEN up ELSE sockets[k].up
  BY <1>1, <1>3 DEF Sock
<1>5. \A k \in DOMAIN sockets' : /\ sockets'[k].worker => k = Len(sockets')
                                 /\ ~sockets'[k].worker => sockets'[k].down = <<>>
                                 /\ Distinct(sockets'[k].down)
  BY <1>3, <1>4 DEF TInv, SocketEnds, Frames, Distinct
<1>6. OpenEnds' = OpenEnds
  BY <1>3, <1>4 DEF OpenEnds
<1>7. \A c : InDown(c)' => InDown(c)
  BY <1>3, <1>4 DEF InDown
<1>8. ASSUME NEW c, InUp(c)' PROVE InUp(c)
  <2>1. PICK k \in DOMAIN sockets : \E j \in DOMAIN sockets'[k].up :
          sockets'[k].up[j].kind = "answer" /\ sockets'[k].up[j].call = c
    BY <1>3, <1>8 DEF InUp
  <2>2. CASE k = i
    <3>1. PICK j \in DOMAIN up : up[j].kind = "answer" /\ up[j].call = c
      BY <1>4, <2>1, <2>2
    <3>2. PICK l \in DOMAIN sockets[i].up : up[j] = sockets[i].up[l]
      OBVIOUS
    <3>. QED BY <3>1, <3>2 DEF InUp
  <2>3. CASE k # i
    BY <1>4, <2>1, <2>3 DEF InUp
  <2>. QED BY <2>2, <2>3
<1>. QED BY <1>3, <1>5, <1>6, <1>7, <1>8

LEMMA OnFrameKept ==
  ASSUME TInv, NEW i \in DOMAIN sockets, OnFrame(i)
  PROVE  TInv'
<1>1. /\ sockets[i] \in Sock /\ sockets[i].up # <<>> /\ UNCHANGED <<turn, children, tools>>
      /\ sockets' = [sockets EXCEPT ![i].up = Tail(@)]
  BY DEF OnFrame, TInv, ToolShapes
<1>2. sockets[i].up \in Seq(Up) /\ sockets[i].hub \in BOOLEAN
  BY <1>1 DEF Sock
<1>3. PICK up : up = Tail(sockets[i].up)
  OBVIOUS
<1>4. PICK h : h = sockets[i].hub
  OBVIOUS
<1>5. /\ up \in Seq(Up) /\ h \in BOOLEAN
      /\ \A j \in DOMAIN up : \E k \in DOMAIN sockets[i].up : up[j] = sockets[i].up[k]
  <2>1. Len(up) = Len(sockets[i].up) - 1 /\ \A j \in DOMAIN up : up[j] = sockets[i].up[j+1]
    BY <1>1, <1>2, <1>3
  <2>2. \A j \in DOMAIN up : j + 1 \in DOMAIN sockets[i].up
    BY <1>1, <1>2, <1>3, <2>1
  <2>. QED BY <1>1, <1>2, <1>3, <1>4, <2>1, <2>2
<1>6. sockets' = [sockets EXCEPT ![i] = [sockets[i] EXCEPT !.hub = h, !.up = up]]
  <2>1. [sockets[i] EXCEPT !.hub = h, !.up = up] = [sockets[i] EXCEPT !.up = up]
    BY <1>1, <1>4 DEF Sock
  <2>. QED BY <1>1, <1>3, <2>1
<1>7. /\ sockets' \in Seq(Sock) /\ Len(sockets') = Len(sockets)
      /\ \A k \in DOMAIN sockets' : /\ sockets'[k].worker => k = Len(sockets')
                                    /\ ~sockets'[k].worker => sockets'[k].down = <<>>
                                    /\ Distinct(sockets'[k].down)
      /\ OpenEnds' = OpenEnds
      /\ \A c : /\ InUp(c)' => InUp(c)
                /\ InDown(c)' => InDown(c)
  BY <1>5, <1>6, UpTaken
<1>8. OpenEnds' = {} => \A ch \in children : ch.killed
  BY <1>7 DEF TInv, Commands
<1>9. CASE /\ DOMAIN hub' = DOMAIN hub /\ hub'.conn = hub.conn /\ hub'.pending = hub.pending /\ calls' = calls
  <2>1. /\ hub'.conn \in {0, Len(sockets')} /\ \E S : calls' \in Seq(CallOf(S))
    BY <1>7, <1>9 DEF TInv, ToolShapes, SocketEnds
  <2>. QED BY <1>1, <1>7, <1>8, <1>9, <2>1, CallsFall
<1>10. CASE \E c \in hub.pending : /\ hub' = [hub EXCEPT !.pending = @ \ {c}] /\ InUp(c)
                                   /\ calls' = [calls EXCEPT ![c].res = "answered"]
  <2>1. PICK c \in hub.pending : /\ hub' = [hub EXCEPT !.pending = @ \ {c}] /\ InUp(c)
                                 /\ calls' = [calls EXCEPT ![c].res = "answered"]
    BY <1>10
  <2>2. DOMAIN hub' = DOMAIN hub /\ hub'.conn = hub.conn /\ hub'.pending = hub.pending \ {c}
    BY <2>1 DEF TInv, ToolShapes
  <2>3. PICK S : calls \in Seq(CallOf(S))
    BY DEF TInv, ToolShapes
  <2>4. "answered" \in Outcomes /\ c \in DOMAIN calls
    BY DEF Outcomes, TInv, SocketEnds
  <2>5. /\ [calls EXCEPT ![c].res = "answered"] \in Seq(CallOf(S))
        /\ DOMAIN [calls EXCEPT ![c].res = "answered"] = DOMAIN calls
        /\ \A d \in DOMAIN calls :
             /\ [calls EXCEPT ![c].res = "answered"][d].sig = calls[d].sig
             /\ [calls EXCEPT ![c].res = "answered"][d].res = IF d = c THEN "answered" ELSE calls[d].res
    BY <2>3, <2>4, OneOutcome
  <2>6. ~InDown(c) /\ \A ch \in children : ch.call = c => ch.killed
    BY <2>1 DEF TInv, Frames, Commands
  <2>7. \A d \in DOMAIN calls :
          /\ calls'[d].sig = calls[d].sig
          /\ \/ calls'[d].res = calls[d].res
             \/ /\ calls'[d].res # "open" /\ d \notin hub'.pending
                /\ ~InDown(d) /\ \A ch \in children : ch.call = d => ch.killed
    BY <2>1, <2>2, <2>5, <2>6
  <2>8. \E T : calls' \in Seq(CallOf(T))
    BY <2>1, <2>5
  <2>9. DOMAIN calls' = DOMAIN calls /\ hub'.pending \subseteq hub.pending /\ hub'.conn \in {0, Len(sockets')}
    BY <1>7, <2>1, <2>2, <2>5 DEF TInv, SocketEnds
  <2>. QED BY <1>1, <1>7, <1>8, <2>2, <2>7, <2>8, <2>9, CallsFall
<1>11. \/ /\ DOMAIN hub' = DOMAIN hub /\ hub'.conn = hub.conn /\ hub'.pending = hub.pending /\ calls' = calls
       \/ \E c \in hub.pending : /\ hub' = [hub EXCEPT !.pending = @ \ {c}] /\ InUp(c)
                                 /\ calls' = [calls EXCEPT ![c].res = "answered"]
  <2>. DEFINE frame == Head(sockets[i].up)
  <2>1. frame = sockets[i].up[1] /\ 1 \in DOMAIN sockets[i].up /\ frame \in Up
    BY <1>1, <1>2
  <2>2. CASE frame.kind = "hello"
    <3>1. hub' = [hub EXCEPT !.ready = @ \/ hub.conn # 0] /\ calls' = calls
      BY <2>2 DEF OnFrame
    <3>. QED BY <3>1 DEF TInv, ToolShapes
  <2>3. CASE frame.kind # "hello" /\ frame.call \in hub.pending
    <3>1. frame.kind = "answer"
      BY <2>1, <2>3 DEF Up
    <3>2. InUp(frame.call)
      BY <2>1, <3>1 DEF InUp
    <3>. QED BY <2>3, <3>2 DEF OnFrame
  <2>4. CASE frame.kind # "hello" /\ frame.call \notin hub.pending
    BY <2>4 DEF OnFrame
  <2>. QED BY <2>2, <2>3, <2>4
<1>. QED BY <1>9, <1>10, <1>11

-----------------------------------------------------------------------------
(* A connection is over at the hub: its requests are answered with "closed". *)

LEMMA FailPendingFalls ==
  ASSUME TInv
  PROVE  /\ DOMAIN FailPending(calls) = DOMAIN calls /\ \E S : FailPending(calls) \in Seq(CallOf(S))
         /\ \A c \in DOMAIN calls :
              /\ FailPending(calls)[c].sig = calls[c].sig
              /\ FailPending(calls)[c].res = IF c \in hub.pending THEN "closed" ELSE calls[c].res
<1>1. PICK S : calls \in Seq(CallOf(S))
  BY DEF TInv, ToolShapes
<1>2. ASSUME NEW x \in CallOf(S)
      PROVE  /\ [x EXCEPT !.res = "closed"] \in CallOf(S)
             /\ [x EXCEPT !.res = "closed"].sig = x.sig /\ [x EXCEPT !.res = "closed"].res = "closed"
  BY DEF CallOf, Outcomes
<1>3. /\ DOMAIN FailPending(calls) = DOMAIN calls
      /\ \A c \in DOMAIN calls :
           FailPending(calls)[c] = IF c \in hub.pending THEN [calls[c] EXCEPT !.res = "closed"] ELSE calls[c]
  BY DEF FailPending
<1>4. DOMAIN calls = 1..Len(calls) /\ Len(calls) \in Nat /\ \A c \in DOMAIN calls : calls[c] \in CallOf(S)
  BY <1>1
<1>5. \A c \in DOMAIN calls : FailPending(calls)[c] \in CallOf(S)
  BY <1>2, <1>3, <1>4
<1>6. FailPending(calls) = [c \in 1..Len(calls) |-> FailPending(calls)[c]]
  BY <1>4 DEF FailPending
<1>7. FailPending(calls) \in Seq(CallOf(S))
  BY <1>4, <1>5, <1>6
<1>. QED BY <1>2, <1>3, <1>4, <1>7

\* When the worker's end of the last connection is closed, nothing is on its way to it and
\* what runs was told to end.
LEMMA NothingRuns ==
  ASSUME TInv, OpenEnds = {}
  PROVE  (\A c : ~InDown(c)) /\ \A ch \in children : ch.killed
<1>1. \A i \in DOMAIN sockets : sockets[i].down = <<>>
  BY DEF TInv, SocketEnds, OpenEnds
<1>2. \A i \in DOMAIN sockets : DOMAIN sockets[i].down = {}
  BY <1>1
<1>3. \A c : ~InDown(c)
  BY <1>2 DEF InDown
<1>. QED BY <1>3 DEF TInv, Commands

LEMMA HubNoticesKept ==
  ASSUME TInv, NEW i \in DOMAIN sockets, HubNotices(i)
  PROVE  TInv'
<1>1. /\ sockets[i] \in Sock /\ ~sockets[i].worker /\ UNCHANGED <<turn, children, tools>>
      /\ sockets' = [sockets EXCEPT ![i].hub = FALSE, ![i].up = <<>>]
  BY DEF HubNotices, TInv, ToolShapes
<1>2. PICK up : up = <<>>
  OBVIOUS
<1>3. PICK h : h = FALSE
  OBVIOUS
<1>4. sockets' = [sockets EXCEPT ![i] = [sockets[i] EXCEPT !.hub = h, !.up = up]]
  BY <1>1, <1>2, <1>3
<1>5. up \in Seq(Up) /\ h \in BOOLEAN /\ \A j \in DOMAIN up : \E k \in DOMAIN sockets[i].up : up[j] = sockets[i].up[k]
  <2>1. <<>> \in Seq(Up) /\ FALSE \in BOOLEAN /\ DOMAIN <<>> = {}
    OBVIOUS
  <2>. QED BY <1>2, <1>3, <2>1
<1>6. /\ sockets' \in Seq(Sock) /\ Len(sockets') = Len(sockets)
      /\ \A k \in DOMAIN sockets' : /\ sockets'[k].worker => k = Len(sockets')
                                    /\ ~sockets'[k].worker => sockets'[k].down = <<>>
                                    /\ Distinct(sockets'[k].down)
      /\ OpenEnds' = OpenEnds
      /\ \A c : /\ InUp(c)' => InUp(c)
                /\ InDown(c)' => InDown(c)
  BY <1>4, <1>5, UpTaken
<1>7. OpenEnds' = {} => \A ch \in children : ch.killed
  BY <1>6 DEF TInv, Commands
<1>8. CASE hub.conn # i
  <2>1. UNCHANGED <<hub, calls>>
    BY <1>8 DEF HubNotices
  <2>2. /\ hub'.conn \in {0, Len(sockets')} /\ \E S : calls' \in Seq(CallOf(S))
    BY <1>6, <2>1 DEF TInv, ToolShapes, SocketEnds
  <2>. QED BY <1>1, <1>6, <1>7, <2>1, <2>2, CallsFall
<1>9. CASE hub.conn = i
  <2>1. hub' = [conn |-> 0, ready |-> FALSE, pending |-> {}] /\ calls' = FailPending(calls)
    BY <1>9 DEF HubNotices
  <2>2. OpenEnds = {}
    BY <1>1, <1>9 DEF TInv, SocketEnds, ToolShapes, OpenEnds
  <2>3. \A c \in DOMAIN calls :
          /\ calls'[c].sig = calls[c].sig
          /\ \/ calls'[c].res = calls[c].res
             \/ /\ calls'[c].res # "open" /\ c \notin hub'.pending
                /\ ~InDown(c) /\ \A ch \in children : ch.call = c => ch.killed
    BY <2>1, <2>2, NothingRuns, FailPendingFalls
  <2>4. DOMAIN calls' = DOMAIN calls /\ \E S : calls' \in Seq(CallOf(S))
    BY <2>1, FailPendingFalls
  <2>5. DOMAIN hub' = DOMAIN hub /\ hub'.conn \in {0, Len(sockets')} /\ hub'.pending \subseteq hub.pending
    BY <2>1 DEF TInv, ToolShapes
  <2>. QED BY <1>1, <1>6, <1>7, <2>3, <2>4, <2>5, CallsFall
<1>. QED BY <1>8, <1>9

LEMMA DialHubKept ==
  ASSUME TInv, DialHub
  PROVE  TInv'
<1>. DEFINE old == [i \in DOMAIN sockets |-> [sockets[i] EXCEPT !.hub = FALSE]]
            new == [hub |-> TRUE, worker |-> TRUE, down |-> <<>>, up |-> <<[kind |-> "hello"]>>]
<1>1. /\ OpenEnds = {} /\ UNCHANGED <<turn, children, tools>> /\ sockets' = Append(old, new)
      /\ hub' = [conn |-> Len(sockets) + 1, ready |-> FALSE, pending |-> {}] /\ calls' = FailPending(calls)
  BY DEF DialHub
<1>2. sockets \in Seq(Sock) /\ Len(sockets) \in Nat /\ DOMAIN sockets = 1..Len(sockets)
      /\ \A i \in DOMAIN sockets : sockets[i] \in Sock
  BY DEF TInv, ToolShapes
<1>3. ASSUME NEW s \in Sock, NEW h \in BOOLEAN
      PROVE  /\ [s EXCEPT !.hub = h] \in Sock /\ [s EXCEPT !.hub = h].worker = s.worker
             /\ [s EXCEPT !.hub = h].down = s.down /\ [s EXCEPT !.hub = h].up = s.up
  BY DEF Sock
<1>4. /\ old \in Seq(Sock) /\ Len(old) = Len(sockets)
      /\ \A i \in DOMAIN sockets : /\ old[i].worker = sockets[i].worker
                                   /\ old[i].down = sockets[i].down /\ old[i].up = sockets[i].up
  <2>1. \A i \in 1..Len(sockets) : [sockets[i] EXCEPT !.hub = FALSE] \in Sock
    BY <1>2, <1>3
  <2>2. old = [i \in 1..Len(sockets) |-> [sockets[i] EXCEPT !.hub = FALSE]]
    BY <1>2
  <2>3. old \in Seq(Sock) /\ Len(old) = Len(sockets)
    BY <1>2, <2>1, <2>2
  <2>. QED BY <1>2, <1>3, <2>3
<1>5. new \in Sock
  <2>1. <<>> \in Seq(Down) /\ [kind |-> "hello"] \in Up /\ TRUE \in BOOLEAN
    BY DEF Up
  <2>2. <<[kind |-> "hello"]>> \in Seq(Up)
    BY <2>1
  <2>. QED BY <2>1, <2>2, Zenon DEF Sock
<1>6. new.worker /\ new.down = <<>> /\ new.up = <<[kind |-> "hello"]>>
  OBVIOUS
<1>. HIDE DEF old, new
<1>7. /\ sockets' \in Seq(Sock) /\ Len(sockets') = Len(sockets) + 1
      /\ \A i \in DOMAIN sockets' : (i \in DOMAIN sockets /\ sockets'[i] = old[i]) \/ (i = Len(sockets') /\ sockets'[i] = new)
  <2>1. /\ Append(old, new) \in Seq(Sock) /\ Len(Append(old, new)) = Len(old) + 1
        /\ \A i \in 1..Len(old) : Append(old, new)[i] = old[i]
        /\ Append(old, new)[Len(old) + 1] = new /\ DOMAIN Append(old, new) = 1..Len(old) + 1
    BY <1>4, <1>5
  <2>2. \A i \in 1..Len(sockets) + 1 : i \in 1..Len(sockets) \/ i = Len(sockets) + 1
    BY <1>2
  <2>3. sockets' \in Seq(Sock) /\ Len(sockets') = Len(sockets) + 1 /\ DOMAIN sockets' = 1..Len(sockets) + 1
    BY <1>1, <1>4, <2>1
  <2>4. /\ \A i \in 1..Len(sockets) : sockets'[i] = old[i]
        /\ sockets'[Len(sockets) + 1] = new
    BY <1>1, <1>4, <2>1
  <2>5. ASSUME NEW i \in DOMAIN sockets'
        PROVE  (i \in DOMAIN sockets /\ sockets'[i] = old[i]) \/ (i = Len(sockets') /\ sockets'[i] = new)
    <3>1. CASE i \in 1..Len(sockets)
      BY <1>2, <2>4, <3>1
    <3>2. CASE i = Len(sockets) + 1
      BY <2>3, <2>4, <3>2
    <3>. QED BY <2>2, <2>3, <2>5, <3>1, <3>2
  <2>. QED BY <2>3, <2>5
<1>8. \A i \in DOMAIN sockets : sockets[i].down = <<>> /\ ~sockets[i].worker
  BY <1>1 DEF TInv, SocketEnds, OpenEnds
<1>9. \A i \in DOMAIN sockets' : /\ sockets'[i].worker => i = Len(sockets')
                                 /\ sockets'[i].down = <<>>
                                 /\ Distinct(sockets'[i].down)
  BY <1>4, <1>6, <1>7, <1>8 DEF Distinct
<1>10. \A c : ~InDown(c)'
  BY <1>9 DEF InDown
<1>11. ASSUME NEW c, InUp(c)' PROVE InUp(c)
  <2>1. PICK i \in DOMAIN sockets' : \E j \in DOMAIN sockets'[i].up :
          sockets'[i].up[j].kind = "answer" /\ sockets'[i].up[j].call = c
    BY <1>11 DEF InUp
  <2>2. sockets'[i] # new
    BY <1>6, <2>1
  <2>. QED BY <1>4, <1>7, <2>1, <2>2 DEF InUp
<1>12. \A c \in DOMAIN calls :
         /\ calls'[c].sig = calls[c].sig
         /\ \/ calls'[c].res = calls[c].res
            \/ /\ calls'[c].res # "open" /\ c \notin hub'.pending
               /\ ~InDown(c) /\ \A ch \in children : ch.call = c => ch.killed
  BY <1>1, NothingRuns, FailPendingFalls
<1>13. DOMAIN calls' = DOMAIN calls /\ \E S : calls' \in Seq(CallOf(S))
  BY <1>1, FailPendingFalls
<1>14. DOMAIN hub' = DOMAIN hub /\ hub'.conn \in {0, Len(sockets')} /\ hub'.pending \subseteq hub.pending
  BY <1>1, <1>7 DEF TInv, ToolShapes
<1>15. \A ch \in children : ch.killed
  BY <1>1, NothingRuns
<1>. QED BY <1>1, <1>7, <1>9, <1>10, <1>11, <1>12, <1>13, <1>14, <1>15, CallsFall

-----------------------------------------------------------------------------
(* The worker takes a frame, and gives its answer.                          *)

\* What the worker may do: A are the calls it answers.
LEMMA WorkerKeeps ==
  ASSUME TInv, UNCHANGED <<turn, calls, hub>>, Executed',
         sockets' \in Seq(Sock), Len(sockets') = Len(sockets),
         \A i \in DOMAIN sockets' : /\ sockets'[i].worker => i = Len(sockets')
                                    /\ ~sockets'[i].worker => sockets'[i].down = <<>>
                                    /\ Distinct(sockets'[i].down),
         NEW A \in SUBSET DOMAIN calls,
         \A c : InUp(c)' => InUp(c) \/ c \in A,
         \A c : InDown(c)' => InDown(c) /\ c \notin A /\ \A ch \in children' : ch.call # c,
         children' \subseteq Child,
         \A ch \in children' : /\ ch.call \in DOMAIN calls
                               /\ ~ch.killed => AnswerOpen(ch.call) /\ ~InUp(ch.call) /\ ch.call \notin A,
         \A ch, other \in children' : ch.call = other.call => ch = other,
         OpenEnds' = {} => \A ch \in children' : ch.killed
  PROVE  TInv'
<1>1. ToolShapes' /\ Grouped' /\ SocketEnds'
  BY DEF TInv, ToolShapes, Grouped, SocketEnds
<1>2. Frames'
  BY DEF TInv, Frames, Distinct, AnswerOpen
<1>3. Commands'
  BY DEF Commands, AnswerOpen
<1>. QED BY <1>1, <1>2, <1>3 DEF TInv

\* An answer goes out on the connection that is open.
LEMMA UpSent ==
  ASSUME NEW socks \in Seq(Sock), NEW c \in Nat
  PROVE  /\ SendUp(socks, AnswerFrame(c)) \in Seq(Sock) /\ Len(SendUp(socks, AnswerFrame(c))) = Len(socks)
         /\ \A i \in DOMAIN socks :
              /\ SendUp(socks, AnswerFrame(c))[i].worker = socks[i].worker
              /\ SendUp(socks, AnswerFrame(c))[i].down = socks[i].down
              /\ \A j \in DOMAIN SendUp(socks, AnswerFrame(c))[i].up :
                   \/ SendUp(socks, AnswerFrame(c))[i].up[j].call = c
                   \/ j \in DOMAIN socks[i].up /\ SendUp(socks, AnswerFrame(c))[i].up[j] = socks[i].up[j]
<1>. DEFINE f == AnswerFrame(c)
<1>1. f \in Up /\ f.call = c
  BY DEF AnswerFrame, Up
<1>. HIDE DEF f
<1>2. DOMAIN socks = 1..Len(socks) /\ Len(socks) \in Nat /\ \A i \in DOMAIN socks : socks[i] \in Sock
  OBVIOUS
<1>3. ASSUME NEW s \in Sock
      PROVE  /\ [s EXCEPT !.up = Append(@, f)] \in Sock
             /\ [s EXCEPT !.up = Append(@, f)].worker = s.worker /\ [s EXCEPT !.up = Append(@, f)].down = s.down
             /\ [s EXCEPT !.up = Append(@, f)].up = Append(s.up, f) /\ s.up \in Seq(Up)
  <2>1. s.up \in Seq(Up)
    BY DEF Sock
  <2>2. PICK up : up = Append(s.up, f)
    OBVIOUS
  <2>3. up \in Seq(Up)
    BY <1>1, <2>1, <2>2
  <2>4. [s EXCEPT !.up = up] \in Sock /\ [s EXCEPT !.up = up].worker = s.worker
        /\ [s EXCEPT !.up = up].down = s.down /\ [s EXCEPT !.up = up].up = up
    BY <2>3 DEF Sock
  <2>. QED BY <2>1, <2>2, <2>4
<1>4. ASSUME NEW q \in Seq(Up), NEW j \in DOMAIN Append(q, f)
      PROVE  Append(q, f)[j] = f \/ (j \in DOMAIN q /\ Append(q, f)[j] = q[j])
  OBVIOUS
<1>5. SendUp(socks, f) = [i \in 1..Len(socks) |-> IF socks[i].worker THEN [socks[i] EXCEPT !.up = Append(@, f)] ELSE socks[i]]
  BY <1>2 DEF SendUp
<1>6. \A i \in 1..Len(socks) : (IF socks[i].worker THEN [socks[i] EXCEPT !.up = Append(@, f)] ELSE socks[i]) \in Sock
  BY <1>2, <1>3
<1>7. SendUp(socks, f) \in Seq(Sock) /\ Len(SendUp(socks, f)) = Len(socks)
  <2>1. PICK v : v = SendUp(socks, f)
    OBVIOUS
  <2>2. v = [i \in 1..Len(socks) |-> v[i]] /\ \A i \in 1..Len(socks) : v[i] \in Sock
    BY <1>5, <1>6, <2>1
  <2>. QED BY <1>2, <2>1, <2>2
<1>8. ASSUME NEW i \in DOMAIN socks
      PROVE  /\ SendUp(socks, f)[i].worker = socks[i].worker
             /\ SendUp(socks, f)[i].down = socks[i].down
             /\ \/ SendUp(socks, f)[i].up = socks[i].up
                \/ SendUp(socks, f)[i].up = Append(socks[i].up, f) /\ socks[i].up \in Seq(Up)
  <2>1. CASE socks[i].worker
    <3>1. SendUp(socks, f)[i] = [socks[i] EXCEPT !.up = Append(@, f)]
      BY <1>2, <1>5, <2>1
    <3>. QED BY <1>2, <1>3, <3>1
  <2>2. CASE ~socks[i].worker
    BY <1>2, <1>5, <2>2
  <2>. QED BY <2>1, <2>2
<1>9. ASSUME NEW i \in DOMAIN socks, NEW j \in DOMAIN SendUp(socks, f)[i].up
      PROVE  \/ SendUp(socks, f)[i].up[j].call = c
             \/ j \in DOMAIN socks[i].up /\ SendUp(socks, f)[i].up[j] = socks[i].up[j]
  <2>1. CASE SendUp(socks, f)[i].up = socks[i].up
    BY <2>1
  <2>2. CASE SendUp(socks, f)[i].up = Append(socks[i].up, f) /\ socks[i].up \in Seq(Up)
    BY <1>1, <1>4, <2>2
  <2>. QED BY <1>8, <2>1, <2>2
<1>. QED BY <1>7, <1>8, <1>9 DEF f

\* What is then on the way, when the answer goes out on the connections as they are.
LEMMA Answers ==
  ASSUME TInv, NEW c \in Nat, sockets' = SendUp(sockets, AnswerFrame(c))
  PROVE  /\ sockets' \in Seq(Sock) /\ Len(sockets') = Len(sockets)
         /\ \A i \in DOMAIN sockets' : /\ sockets'[i].worker => i = Len(sockets')
                                       /\ ~sockets'[i].worker => sockets'[i].down = <<>>
                                       /\ Distinct(sockets'[i].down)
         /\ \A d : InUp(d)' => InUp(d) \/ d = c
         /\ \A d : InDown(d)' => InDown(d)
         /\ OpenEnds' = OpenEnds
<1>1. sockets \in Seq(Sock)
  BY DEF TInv, ToolShapes
<1>2. /\ sockets' \in Seq(Sock) /\ Len(sockets') = Len(sockets)
      /\ \A i \in DOMAIN sockets :
           /\ sockets'[i].worker = sockets[i].worker /\ sockets'[i].down = sockets[i].down
           /\ \A j \in DOMAIN sockets'[i].up :
                \/ sockets'[i].up[j].call = c
                \/ j \in DOMAIN sockets[i].up /\ sockets'[i].up[j] = sockets[i].up[j]
  BY <1>1, UpSent
<1>3. DOMAIN sockets' = DOMAIN sockets
  BY <1>1, <1>2
<1>4. \A i \in DOMAIN sockets' : /\ sockets'[i].worker => i = Len(sockets')
                                 /\ ~sockets'[i].worker => sockets'[i].down = <<>>
                                 /\ Distinct(sockets'[i].down)
  BY <1>2, <1>3 DEF TInv, SocketEnds, Frames, Distinct
<1>5. OpenEnds' = OpenEnds /\ \A d : InDown(d)' => InDown(d)
  BY <1>2, <1>3 DEF OpenEnds, InDown
<1>6. \A d : InUp(d)' => InUp(d) \/ d = c
  BY <1>2, <1>3 DEF InUp
<1>. QED BY <1>2, <1>4, <1>5, <1>6

LEMMA ExecKept ==
  ASSUME TInv, NEW ch \in children, ExecEnds(ch) \/ ExecTimesOut(ch)
  PROVE  TInv'
<1>1. /\ ch \in Child /\ ch.call \in DOMAIN calls /\ ch.call \in Nat /\ UNCHANGED <<turn, calls, hub, tools>>
      /\ sockets' = SendUp(sockets, AnswerFrame(ch.call))
  BY DEF ExecEnds, ExecTimesOut, TInv, ToolShapes, Child, Commands
<1>2. /\ sockets' \in Seq(Sock) /\ Len(sockets') = Len(sockets)
      /\ \A i \in DOMAIN sockets' : /\ sockets'[i].worker => i = Len(sockets')
                                    /\ ~sockets'[i].worker => sockets'[i].down = <<>>
                                    /\ Distinct(sockets'[i].down)
      /\ \A d : InUp(d)' => InUp(d) \/ d = ch.call
      /\ \A d : InDown(d)' => InDown(d)
      /\ OpenEnds' = OpenEnds
  BY <1>1, Answers
<1>3. /\ children' \subseteq Child
      /\ \A x \in children' : \E y \in children : x.call = y.call /\ (y # ch => x = y) /\ (y = ch => x.killed)
      /\ \A x, y \in children' : x.call = y.call => x = y
  <2>1. CASE ExecEnds(ch)
    <3>1. children' = children \ {ch}
      BY <2>1 DEF ExecEnds
    <3>. QED BY <3>1 DEF TInv, ToolShapes, Commands
  <2>2. CASE ExecTimesOut(ch)
    <3>. DEFINE told == TRUE
                dying == [ch EXCEPT !.killed = told]
    <3>1. children' = (children \ {ch}) \cup {dying}
      BY <2>2 DEF ExecTimesOut
    <3>2. told \in BOOLEAN /\ told = TRUE
      OBVIOUS
    <3>. HIDE DEF told
    <3>3. dying \in Child /\ dying.call = ch.call /\ dying.killed = told
      BY <1>1, <3>2 DEF Child
    <3>4. dying.killed
      BY <3>2, <3>3
    <3>. HIDE DEF dying
    <3>5. \A x \in children : (x # ch) => x.call # ch.call
      BY DEF TInv, Commands
    <3>. QED BY <3>1, <3>3, <3>4, <3>5 DEF TInv, ToolShapes, Commands
  <2>. QED BY <2>1, <2>2
<1>4. \A x \in children : x # ch => x.call # ch.call
  BY DEF TInv, Commands
<1>5. \A x \in children' : /\ x.call \in DOMAIN calls
                           /\ ~x.killed => AnswerOpen(x.call) /\ ~InUp(x.call) /\ x.call # ch.call
  BY <1>3, <1>4 DEF TInv, Commands
<1>6. \A c : InDown(c)' => InDown(c) /\ c # ch.call /\ \A x \in children' : x.call # c
  BY <1>2, <1>3 DEF TInv, Frames
<1>7. OpenEnds' = {} => \A x \in children' : x.killed
  BY <1>2, <1>3 DEF TInv, Commands
<1>8. Executed'
  BY <1>1 DEF TInv, Executed
<1>9. PICK A : A = {ch.call}
  OBVIOUS
<1>10. /\ A \in SUBSET DOMAIN calls
       /\ \A d : InUp(d)' => InUp(d) \/ d \in A
       /\ \A c : InDown(c)' => InDown(c) /\ c \notin A /\ \A x \in children' : x.call # c
       /\ \A x \in children' : /\ x.call \in DOMAIN calls
                               /\ ~x.killed => AnswerOpen(x.call) /\ ~InUp(x.call) /\ x.call \notin A
  BY <1>1, <1>2, <1>5, <1>6, <1>9
<1>. QED BY <1>1, <1>2, <1>3, <1>7, <1>8, <1>10, WorkerKeeps

\* A frame is taken from the queue of the connection.
Taken(i) == [sockets EXCEPT ![i].down = Tail(@)]
SameQueues(socks, others) ==
  \A k \in DOMAIN others : socks[k].worker = others[k].worker /\ socks[k].down = others[k].down
LEMMA DownTaken ==
  ASSUME TInv, NEW i \in DOMAIN sockets, sockets[i].down # <<>>,
         NEW taken, taken = Taken(i),
         sockets' \in Seq(Sock), Len(sockets') = Len(sockets),
         SameQueues(sockets', taken)
  PROVE  /\ Head(sockets[i].down) \in Down
         /\ \A k \in DOMAIN sockets' : /\ sockets'[k].worker => k = Len(sockets')
                                       /\ ~sockets'[k].worker => sockets'[k].down = <<>>
                                       /\ Distinct(sockets'[k].down)
         /\ \A c : InDown(c)' => InDown(c)
         /\ \A c : (Head(sockets[i].down).kind = "call" /\ c = Head(sockets[i].down).call) =>
                    InDown(c) /\ ~InDown(c)'
         /\ OpenEnds' = OpenEnds /\ OpenEnds # {}
         /\ taken \in Seq(Sock) /\ Len(taken) = Len(sockets) /\ \A k \in DOMAIN sockets : taken[k].up = sockets[k].up
<1>. DEFINE q == sockets[i].down
<1>1. /\ sockets \in Seq(Sock) /\ sockets[i] \in Sock /\ sockets[i].worker /\ i = Len(sockets)
      /\ \A k \in DOMAIN sockets : sockets[k] \in Sock
  BY DEF TInv, ToolShapes, SocketEnds
<1>2. q \in Seq(Down) /\ q # <<>>
  BY <1>1 DEF Sock
<1>3. PICK rest : rest = Tail(q)
  OBVIOUS
<1>4. /\ rest \in Seq(Down) /\ Len(rest) = Len(q) - 1 /\ \A j \in DOMAIN rest : rest[j] = q[j+1] /\ j + 1 \in DOMAIN q
      /\ Head(q) = q[1] /\ 1 \in DOMAIN q
  BY <1>2, <1>3
<1>5. taken = [sockets EXCEPT ![i] = [sockets[i] EXCEPT !.down = rest]]
  BY <1>3 DEF Taken
<1>6. [sockets[i] EXCEPT !.down = rest] \in Sock
  BY <1>1, <1>4 DEF Sock
<1>7. /\ taken \in Seq(Sock) /\ Len(taken) = Len(sockets) /\ DOMAIN taken = DOMAIN sockets
      /\ \A k \in DOMAIN sockets : taken[k] = IF k = i THEN [sockets[i] EXCEPT !.down = rest] ELSE sockets[k]
  <2>1. PICK v : v = [sockets[i] EXCEPT !.down = rest]
    OBVIOUS
  <2>2. v \in Sock /\ taken = [sockets EXCEPT ![i] = v]
    BY <1>5, <1>6, <2>1
  <2>3. taken \in Seq(Sock) /\ Len(taken) = Len(sockets) /\ DOMAIN taken = DOMAIN sockets
    <3>1. sockets \in Seq(Sock) /\ i \in DOMAIN sockets
      BY <1>1
    <3>2. [sockets EXCEPT ![i] = v] \in Seq(Sock) /\ Len([sockets EXCEPT ![i] = v]) = Len(sockets)
      BY <2>2, <3>1
    <3>3. DOMAIN [sockets EXCEPT ![i] = v] = DOMAIN sockets
      OBVIOUS
    <3>. QED BY <2>2, <3>2, <3>3
  <2>4. \A k \in DOMAIN sockets : taken[k] = IF k = i THEN v ELSE sockets[k]
    BY <1>1, <2>2
  <2>. QED BY <2>1, <2>3, <2>4
<1>8. /\ DOMAIN sockets' = DOMAIN sockets /\ Len(sockets') = Len(sockets)
      /\ \A k \in DOMAIN sockets : /\ sockets'[k].worker = sockets[k].worker /\ taken[k].up = sockets[k].up
                                   /\ sockets'[k].down = IF k = i THEN rest ELSE sockets[k].down
  <2>1. \A k \in DOMAIN sockets : /\ taken[k].worker = sockets[k].worker /\ taken[k].up = sockets[k].up
                                  /\ taken[k].down = IF k = i THEN rest ELSE sockets[k].down
    BY <1>1, <1>7 DEF Sock
  <2>2. DOMAIN sockets' = DOMAIN sockets /\ Len(sockets') = Len(sockets)
    BY <1>1
  <2>. QED BY <1>7, <2>1, <2>2 DEF SameQueues
<1>9. \A k \in DOMAIN sockets : k # i => sockets[k].down = <<>> /\ DOMAIN sockets[k].down = {}
  BY <1>1 DEF TInv, SocketEnds
<1>. HIDE DEF q
<1>10. Distinct(q)
  BY DEF TInv, Frames, Distinct, q
<1>11. Distinct(rest)
  <2>. SUFFICES ASSUME NEW j \in DOMAIN rest, NEW k \in DOMAIN rest, j # k, rest[j].kind = "call", rest[k].kind = "call"
                PROVE  rest[j].call # rest[k].call
    BY DEF Distinct
  <2>1. j \in Nat /\ k \in Nat
    BY <1>4
  <2>2. j + 1 # k + 1
    BY <2>1
  <2>. QED BY <1>4, <1>10, <2>2 DEF Distinct
<1>12. \A k \in DOMAIN sockets' : /\ sockets'[k].worker => k = Len(sockets')
                                  /\ ~sockets'[k].worker => sockets'[k].down = <<>>
                                  /\ Distinct(sockets'[k].down)
  BY <1>1, <1>8, <1>11 DEF TInv, SocketEnds, Frames, Distinct
<1>13. ASSUME NEW c, InDown(c)'
       PROVE  \E j \in DOMAIN rest : rest[j].kind = "call" /\ rest[j].call = c
  <2>1. PICK k \in DOMAIN sockets : \E j \in DOMAIN sockets'[k].down :
          sockets'[k].down[j].kind = "call" /\ sockets'[k].down[j].call = c
    BY <1>8, <1>13 DEF InDown
  <2>2. k = i
    BY <1>8, <1>9, <2>1
  <2>. QED BY <1>8, <2>1, <2>2
<1>14. ASSUME NEW c, InDown(c)' PROVE InDown(c)
  <2>1. PICK j \in DOMAIN rest : rest[j].kind = "call" /\ rest[j].call = c
    BY <1>13, <1>14
  <2>2. q[j+1].kind = "call" /\ q[j+1].call = c /\ j + 1 \in DOMAIN q
    BY <1>4, <2>1
  <2>. QED BY <2>2 DEF InDown, q
<1>15. ASSUME NEW c, Head(q).kind = "call", c = Head(q).call
       PROVE  InDown(c) /\ ~InDown(c)'
  <2>2. InDown(c)
    BY <1>4, <1>15 DEF InDown, q
  <2>3. ASSUME InDown(c)' PROVE FALSE
    <3>1. PICK j \in DOMAIN rest : rest[j].kind = "call" /\ rest[j].call = c
      BY <1>13, <2>3
    <3>2. q[j+1].kind = "call" /\ q[j+1].call = c /\ j + 1 \in DOMAIN q /\ j \in Nat \ {0}
      BY <1>4, <3>1
    <3>3. j + 1 # 1
      BY <3>2
    <3>. QED BY <1>4, <1>10, <1>15, <3>2, <3>3 DEF Distinct
  <2>. QED BY <2>2, <2>3
<1>16. OpenEnds' = OpenEnds /\ OpenEnds # {}
  BY <1>1, <1>8 DEF OpenEnds
<1>17. Head(q) \in Down
  BY <1>2, <1>4
<1>. QED BY <1>7, <1>8, <1>12, <1>14, <1>15, <1>16, <1>17 DEF q

LEMMA HandleFrameKept ==
  ASSUME TInv, NEW i \in DOMAIN sockets, HandleFrame(i)
  PROVE  TInv'
<1>1. PICK frame, taken : frame = Head(sockets[i].down) /\ taken = Taken(i)
  OBVIOUS
<1>2. sockets[i].down # <<>> /\ UNCHANGED <<turn, calls, hub>>
  BY DEF HandleFrame
<1>3. taken \in Seq(Sock) /\ Len(taken) = Len(sockets) /\ DOMAIN taken = DOMAIN sockets
  <2>1. [sockets EXCEPT ![i].down = Tail(@)] = taken
    BY <1>1 DEF Taken
  <2>2. sockets \in Seq(Sock) /\ sockets[i] \in Sock
    BY DEF TInv, ToolShapes
  <2>3. sockets[i].down \in Seq(Down)
    BY <2>2 DEF Sock
  <2>4. PICK rest : rest = Tail(sockets[i].down)
    OBVIOUS
  <2>5. rest \in Seq(Down)
    BY <1>2, <2>3, <2>4
  <2>6. PICK v : v = [sockets[i] EXCEPT !.down = rest]
    OBVIOUS
  <2>7. v \in Sock
    BY <2>2, <2>5, <2>6 DEF Sock
  <2>8. taken = [sockets EXCEPT ![i] = v]
    BY <2>1, <2>4, <2>6
  <2>9. [sockets EXCEPT ![i] = v] \in Seq(Sock) /\ Len([sockets EXCEPT ![i] = v]) = Len(sockets)
    BY <2>2, <2>7
  <2>. QED BY <2>8, <2>9
<1>4. ASSUME sockets' \in Seq(Sock), Len(sockets') = Len(sockets),
             SameQueues(sockets', taken)
      PROVE  /\ frame \in Down
             /\ \A k \in DOMAIN sockets' : /\ sockets'[k].worker => k = Len(sockets')
                                           /\ ~sockets'[k].worker => sockets'[k].down = <<>>
                                           /\ Distinct(sockets'[k].down)
             /\ \A c : InDown(c)' => InDown(c)
             /\ \A c : (frame.kind = "call" /\ c = frame.call) => InDown(c) /\ ~InDown(c)'
             /\ OpenEnds' # {}
             /\ \A k \in DOMAIN sockets : taken[k].up = sockets[k].up
  <2>1. taken = Taken(i)
    BY <1>1
  <2>2. /\ Head(sockets[i].down) \in Down
        /\ \A k \in DOMAIN sockets' : /\ sockets'[k].worker => k = Len(sockets')
                                      /\ ~sockets'[k].worker => sockets'[k].down = <<>>
                                      /\ Distinct(sockets'[k].down)
        /\ \A c : InDown(c)' => InDown(c)
        /\ \A c : (Head(sockets[i].down).kind = "call" /\ c = Head(sockets[i].down).call) =>
                   InDown(c) /\ ~InDown(c)'
        /\ OpenEnds' = OpenEnds /\ OpenEnds # {}
        /\ \A k \in DOMAIN sockets : taken[k].up = sockets[k].up
    BY <1>2, <1>4, <2>1, DownTaken
  <2>. QED BY <1>1, <2>2
<1>5. ASSUME sockets' = taken
      PROVE  \A c : InUp(c)' => InUp(c)
  <2>0. SameQueues(sockets', taken)
    BY <1>5 DEF SameQueues
  <2>1. \A k \in DOMAIN sockets : taken[k].up = sockets[k].up
    BY <1>3, <1>4, <1>5, <2>0
  <2>. QED BY <1>3, <1>5, <2>1 DEF InUp
<1>6. CASE frame.kind = "abort_all" /\ sockets' = taken /\ children' = KillAll /\ UNCHANGED tools
  <2>0. SameQueues(sockets', taken)
    BY <1>6 DEF SameQueues
  <2>1. /\ \A k \in DOMAIN sockets' : /\ sockets'[k].worker => k = Len(sockets')
                                      /\ ~sockets'[k].worker => sockets'[k].down = <<>>
                                      /\ Distinct(sockets'[k].down)
        /\ \A c : InDown(c)' => InDown(c)
        /\ OpenEnds' # {}
    BY <1>3, <1>4, <1>6, <2>0
  <2>2. PICK A : A = {}
    OBVIOUS
  <2>3. /\ A \in SUBSET DOMAIN calls
        /\ \A c : InUp(c)' => InUp(c) \/ c \in A
    BY <1>5, <1>6, <2>2
  <2>4. \A c : InDown(c)' => InDown(c) /\ c \notin A /\ \A ch \in children' : ch.call # c
    BY <1>6, <2>1, <2>2, AllKilled DEF TInv, Frames
  <2>5. /\ children' \subseteq Child
        /\ \A ch \in children' : ch.call \in DOMAIN calls /\ ch.killed
        /\ \A ch, other \in children' : ch.call = other.call => ch = other
    BY <1>6, AllKilled DEF TInv, Commands
  <2>6. Executed'
    BY <1>2, <1>6 DEF TInv, Executed
  <2>. QED BY <1>2, <1>3, <1>6, <2>1, <2>3, <2>4, <2>5, <2>6, WorkerKeeps
<1>7. CASE /\ frame.kind = "call" /\ sockets' = taken
           /\ children' = children \cup {[call |-> frame.call, killed |-> FALSE]}
           /\ tools' = [tools EXCEPT !.ran = @ \cup {frame.call}]
  <2>0. SameQueues(sockets', taken)
    BY <1>7 DEF SameQueues
  <2>1. /\ frame \in Down
        /\ \A k \in DOMAIN sockets' : /\ sockets'[k].worker => k = Len(sockets')
                                      /\ ~sockets'[k].worker => sockets'[k].down = <<>>
                                      /\ Distinct(sockets'[k].down)
        /\ \A c : InDown(c)' => InDown(c)
        /\ \A c : (frame.kind = "call" /\ c = frame.call) => InDown(c) /\ ~InDown(c)'
        /\ OpenEnds' # {}
    BY <1>3, <1>4, <1>7, <2>0
  <2>2. PICK c : c = frame.call
    OBVIOUS
  <2>3. /\ InDown(c) /\ ~InDown(c)' /\ c \in DOMAIN calls /\ AnswerOpen(c) /\ ~InUp(c)
        /\ \A ch \in children : ch.call # c
    BY <1>7, <2>1, <2>2 DEF TInv, Frames
  <2>. DEFINE told == FALSE
              new == [call |-> c, killed |-> told]
  <2>4. told \in BOOLEAN
    OBVIOUS
  <2>5. children' = children \cup {new} /\ new.call = c
    BY <1>7, <2>2
  <2>. HIDE DEF told
  <2>6. new \in Child
    <3>1. c \in Nat
      BY <2>3 DEF TInv, ToolShapes
    <3>. QED BY <2>4, <3>1 DEF Child
  <2>. HIDE DEF new
  <2>7. /\ children' \subseteq Child
        /\ \A ch, other \in children' : ch.call = other.call => ch = other
    BY <2>3, <2>5, <2>6 DEF TInv, ToolShapes, Commands
  <2>8. PICK A : A = {}
    OBVIOUS
  <2>9. \A ch \in children' : /\ ch.call \in DOMAIN calls
                              /\ ~ch.killed => AnswerOpen(ch.call) /\ ~InUp(ch.call) /\ ch.call \notin A
    BY <2>3, <2>5, <2>8 DEF TInv, Commands
  <2>10. /\ A \in SUBSET DOMAIN calls
         /\ \A d : InUp(d)' => InUp(d) \/ d \in A
         /\ \A d : InDown(d)' => InDown(d) /\ d \notin A /\ \A ch \in children' : ch.call # d
    BY <1>5, <1>7, <2>1, <2>3, <2>5, <2>8 DEF TInv, Frames
  <2>11. Executed'
    BY <1>2, <1>7, <2>2, <2>3 DEF TInv, Executed
  <2>. QED BY <1>2, <1>3, <1>7, <2>1, <2>7, <2>9, <2>10, <2>11, WorkerKeeps
<1>8. CASE /\ frame.kind = "call" /\ sockets' = SendUp(taken, AnswerFrame(frame.call))
           /\ UNCHANGED children
           /\ (tools' = [tools EXCEPT !.ran = @ \cup {frame.call}] \/ UNCHANGED tools)
  <2>1. PICK c : c = frame.call
    OBVIOUS
  <2>2. c \in Nat
    <3>1. /\ \A k \in DOMAIN taken : taken[k].worker = taken[k].worker /\ taken[k].down = taken[k].down
      OBVIOUS
    <3>2. frame \in Down
      <4>1. sockets[i] \in Sock
        BY DEF TInv, ToolShapes
      <4>2. sockets[i].down \in Seq(Down)
        BY <4>1 DEF Sock
      <4>. QED BY <1>1, <1>2, <4>2
    <3>. QED BY <1>8, <2>1, <3>2 DEF Down
  <2>3. PICK socks : socks = SendUp(taken, AnswerFrame(c))
    OBVIOUS
  <2>4. /\ socks \in Seq(Sock) /\ Len(socks) = Len(taken) /\ sockets' = socks
        /\ \A k \in DOMAIN taken :
             /\ socks[k].worker = taken[k].worker /\ socks[k].down = taken[k].down
             /\ \A j \in DOMAIN socks[k].up :
                  \/ socks[k].up[j].call = c
                  \/ j \in DOMAIN taken[k].up /\ socks[k].up[j] = taken[k].up[j]
    BY <1>3, <1>8, <2>1, <2>2, <2>3, UpSent
  <2>0. SameQueues(sockets', taken)
    BY <2>4 DEF SameQueues
  <2>5. /\ \A k \in DOMAIN sockets' : /\ sockets'[k].worker => k = Len(sockets')
                                      /\ ~sockets'[k].worker => sockets'[k].down = <<>>
                                      /\ Distinct(sockets'[k].down)
        /\ \A d : InDown(d)' => InDown(d)
        /\ InDown(c) /\ ~InDown(c)'
        /\ OpenEnds' # {}
        /\ \A k \in DOMAIN sockets : taken[k].up = sockets[k].up
    BY <1>3, <1>4, <1>8, <2>1, <2>4, <2>0
  <2>6. \A d : InUp(d)' => InUp(d) \/ d = c
    <3>1. DOMAIN sockets' = DOMAIN sockets
      BY <1>3, <2>4
    <3>. QED BY <1>3, <2>4, <2>5, <3>1 DEF InUp
  <2>7. /\ c \in DOMAIN calls /\ \A ch \in children : ch.call # c
    BY <2>5 DEF TInv, Frames
  <2>8. PICK A : A = {c}
    OBVIOUS
  <2>9. /\ A \in SUBSET DOMAIN calls
        /\ \A d : InUp(d)' => InUp(d) \/ d \in A
        /\ \A d : InDown(d)' => InDown(d) /\ d \notin A /\ \A ch \in children' : ch.call # d
    BY <1>8, <2>5, <2>6, <2>7, <2>8 DEF TInv, Frames
  <2>10. /\ children' \subseteq Child
         /\ \A ch, other \in children' : ch.call = other.call => ch = other
         /\ \A ch \in children' : /\ ch.call \in DOMAIN calls
                                  /\ ~ch.killed => AnswerOpen(ch.call) /\ ~InUp(ch.call) /\ ch.call \notin A
    BY <1>8, <2>7, <2>8 DEF TInv, ToolShapes, Commands
  <2>11. Executed'
    BY <1>2, <1>8, <2>1, <2>7 DEF TInv, Executed
  <2>. QED BY <1>2, <1>3, <2>4, <2>5, <2>9, <2>10, <2>11, WorkerKeeps
<1>. QED BY <1>1, <1>6, <1>7, <1>8 DEF HandleFrame, Taken

-----------------------------------------------------------------------------
(* Requests are made.                                                       *)

\* None waits; those that are made are all of one group, of one step or of reads.
LEMMA HubCallsKept ==
  ASSUME TInv, \A c \in DOMAIN calls : calls[c].res # "open",
         NEW T, NEW reqs \in Seq(CallOf(T)), HubCalls(reqs), UNCHANGED <<children, tools>>,
         DOMAIN turn' = DOMAIN turn, turn'.at = turn.at, turn'.plan = turn.plan, turn'.pc = "batch",
         IsFiniteSet(DOMAIN turn'.group),
         \A step \in DOMAIN turn'.group : turn'.group[step] \in 1..Len(calls) + Len(reqs),
         \A k \in DOMAIN reqs : \E step \in DOMAIN turn'.group : turn'.group[step] = Len(calls) + k,
         DOMAIN turn'.group = {turn.at} \/ turn.plan[turn.at].sig \in Par,
         Len(reqs) = 1 \/ \A k \in DOMAIN reqs : reqs[k].sig \in Par
  PROVE  TInv'
<1>1. PICK S : calls \in Seq(CallOf(S))
  BY DEF TInv, ToolShapes
<1>2. PICK result : result = IF Connected THEN "open" ELSE "closed"
  OBVIOUS
<1>3. PICK made : made = [i \in DOMAIN reqs |-> [reqs[i] EXCEPT !.res = result]]
  OBVIOUS
<1>4. DOMAIN reqs = 1..Len(reqs) /\ Len(reqs) \in Nat /\ \A i \in DOMAIN reqs : reqs[i] \in CallOf(T)
  OBVIOUS
<1>5. ASSUME NEW x \in CallOf(T)
      PROVE  /\ [x EXCEPT !.res = result] \in CallOf(T)
             /\ [x EXCEPT !.res = result].sig = x.sig /\ [x EXCEPT !.res = result].res = result
  BY <1>2 DEF CallOf, Outcomes
<1>6. /\ made \in Seq(CallOf(T)) /\ Len(made) = Len(reqs) /\ DOMAIN made = DOMAIN reqs
      /\ \A i \in DOMAIN reqs : made[i].sig = reqs[i].sig /\ made[i].res = result
  <2>1. made = [i \in 1..Len(reqs) |-> made[i]] /\ \A i \in 1..Len(reqs) : made[i] \in CallOf(T)
    BY <1>3, <1>4, <1>5
  <2>2. made \in Seq(CallOf(T)) /\ Len(made) = Len(reqs)
    BY <1>4, <2>1
  <2>. QED BY <1>3, <1>4, <1>5, <2>2
<1>7. calls' = calls \o made
  BY <1>2, <1>3 DEF HubCalls
<1>8. PICK R : R = CallOf(S \cup T)
  OBVIOUS
<1>9. CallOf(S) \subseteq R /\ CallOf(T) \subseteq R
  BY <1>8 DEF CallOf
<1>10. calls \in Seq(R) /\ made \in Seq(R)
  BY <1>1, <1>6, <1>9
<1>11. /\ calls' \in Seq(R) /\ Len(calls') = Len(calls) + Len(reqs) /\ Len(calls) \in Nat
       /\ DOMAIN calls' = 1..Len(calls) + Len(reqs) /\ DOMAIN calls = 1..Len(calls)
       /\ \A c \in DOMAIN calls : c \in DOMAIN calls' /\ calls'[c] = calls[c]
  <2>1. Len(calls) \in Nat /\ DOMAIN calls = 1..Len(calls)
    BY <1>1
  <2>2. calls \o made \in Seq(R) /\ Len(calls \o made) = Len(calls) + Len(made)
    BY <1>10
  <2>3. \A c \in 1..Len(calls) : (calls \o made)[c] = calls[c]
    BY <1>10
  <2>4. calls' \in Seq(R) /\ Len(calls') = Len(calls) + Len(reqs)
    BY <1>6, <1>7, <2>2
  <2>5. DOMAIN calls' = 1..Len(calls) + Len(reqs)
    BY <2>4
  <2>6. \A c \in DOMAIN calls : c \in DOMAIN calls' /\ calls'[c] = calls[c]
    BY <1>4, <1>7, <2>1, <2>3, <2>5
  <2>. QED BY <2>1, <2>4, <2>5, <2>6
<1>12. \A c \in DOMAIN calls' : c \notin DOMAIN calls =>
         \E k \in DOMAIN reqs : c = Len(calls) + k /\ calls'[c].sig = reqs[k].sig /\ calls'[c].res = result
  <2>. SUFFICES ASSUME NEW c \in DOMAIN calls', c \notin DOMAIN calls
                PROVE  \E k \in DOMAIN reqs : c = Len(calls) + k /\ calls'[c].sig = reqs[k].sig /\ calls'[c].res = result
    OBVIOUS
  <2>1. PICK k : k = c - Len(calls)
    OBVIOUS
  <2>2. k \in DOMAIN reqs /\ c = Len(calls) + k
    BY <1>4, <1>11, <2>1
  <2>3. calls'[c] = made[k]
    BY <1>4, <1>6, <1>7, <1>10, <1>11, <2>2
  <2>. QED BY <1>6, <2>2, <2>3
<1>13. Grouped'
  <2>1. \A c \in DOMAIN calls' : calls'[c].res = "open" => \E step \in DOMAIN turn'.group : turn'.group[step] = c
    BY <1>11, <1>12
  <2>2. ASSUME NEW c \in DOMAIN calls', NEW d \in DOMAIN calls', c < d, calls'[c].res = "open"
        PROVE  {calls'[c].sig, calls'[d].sig} \subseteq Par
    <3>1. c \notin DOMAIN calls
      BY <1>11, <2>2
    <3>2. d \notin DOMAIN calls
      BY <1>11, <2>2, <3>1
    <3>3. PICK k \in DOMAIN reqs : c = Len(calls) + k /\ calls'[c].sig = reqs[k].sig
      BY <1>12, <3>1
    <3>4. PICK l \in DOMAIN reqs : d = Len(calls) + l /\ calls'[d].sig = reqs[l].sig
      BY <1>12, <3>2
    <3>5. Len(reqs) # 1
      BY <1>4, <1>11, <2>2, <3>3, <3>4
    <3>. QED BY <3>3, <3>4, <3>5
  <2>3. turn.at \in Nat
    BY DEF TInv, Grouped
  <2>. QED BY <1>11, <2>1, <2>2, <2>3 DEF Grouped
<1>14. \A c : AnswerOpen(c) /\ c \in DOMAIN calls => AnswerOpen(c)'
  BY <1>11 DEF AnswerOpen
<1>15. Executed'
  BY <1>11 DEF TInv, Executed
<1>16. \A ch \in children : ch.call \in DOMAIN calls /\ ch.call \in DOMAIN calls'
  BY <1>11 DEF TInv, Commands
<1>17. CASE ~Connected
  <2>1. UNCHANGED <<hub, sockets>>
    BY <1>17 DEF HubCalls
  <2>2. \A c : (InUp(c)' <=> InUp(c)) /\ (InDown(c)' <=> InDown(c))
    BY <2>1 DEF InUp, InDown
  <2>3. ToolShapes'
    BY <1>8, <1>11, <2>1 DEF TInv, ToolShapes
  <2>4. SocketEnds'
    BY <1>11, <2>1 DEF TInv, SocketEnds
  <2>5. Frames'
    BY <1>11, <1>14, <2>1, <2>2 DEF TInv, Frames
  <2>6. Commands'
    BY <1>14, <1>16, <2>1, <2>2 DEF TInv, Commands, OpenEnds
  <2>. QED BY <1>13, <1>15, <2>3, <2>4, <2>5, <2>6 DEF TInv
<1>18. CASE Connected
  <2>. DEFINE frames == [i \in DOMAIN reqs |-> [kind |-> "call", call |-> Len(calls) + i]]
  <2>1. SendDown(frames) /\ hub' = [hub EXCEPT !.pending = @ \cup (Len(calls) + 1 .. Len(calls) + Len(reqs))]
    BY <1>18 DEF HubCalls
  <2>2. \A i \in DOMAIN reqs : [kind |-> "call", call |-> Len(calls) + i] \in Down
    BY <1>4, <1>11 DEF Down
  <2>3. frames \in Seq(Down)
    BY <1>4, <2>2
  <2>4. \A i \in DOMAIN frames : frames[i].kind = "call" /\ frames[i].call = Len(calls) + i /\ i \in DOMAIN reqs
    OBVIOUS
  <2>. HIDE DEF frames
  <2>5. Distinct(frames)
    <3>. SUFFICES ASSUME NEW j \in DOMAIN frames, NEW k \in DOMAIN frames, j # k
                  PROVE  frames[j].call # frames[k].call
      BY DEF Distinct
    <3>. QED BY <1>4, <1>11, <2>4
  <2>6. \A c \in CallFrames(frames) : c \in DOMAIN calls' /\ c \notin DOMAIN calls
    <3>1. \A c \in CallFrames(frames) : \E k \in DOMAIN reqs : c = Len(calls) + k
      BY <2>4 DEF CallFrames
    <3>2. \A k \in DOMAIN reqs : Len(calls) + k \in DOMAIN calls' /\ Len(calls) + k \notin DOMAIN calls
      BY <1>4, <1>11
    <3>. QED BY <3>1, <3>2
  <2>7. \A c \in CallFrames(frames) : ~InDown(c) /\ ~InUp(c) /\ \A ch \in children : ch.call # c
    BY <1>16, <2>6 DEF TInv, Frames
  <2>8. /\ sockets' \in Seq(Sock) /\ Len(sockets') = Len(sockets) /\ DOMAIN sockets' = DOMAIN sockets
        /\ \A i \in DOMAIN sockets : sockets'[i].worker = sockets[i].worker
    BY <1>18, <2>1, <2>3, SentDown DEF TInv, ToolShapes
  <2>9. /\ \A c : InUp(c)' <=> InUp(c)
        /\ \A c : InDown(c)' => InDown(c) \/ c \in CallFrames(frames)
        /\ \A i \in DOMAIN sockets : Distinct(sockets'[i].down)
        /\ \A i \in DOMAIN sockets : ~sockets[i].worker => sockets'[i].down = <<>>
        /\ OpenEnds' = OpenEnds
    BY <1>18, <2>1, <2>3, <2>5, <2>7, DownGrows
  <2>10. \A c \in DOMAIN calls' : c \notin DOMAIN calls => calls'[c].res = "open"
    BY <1>2, <1>12, <1>18
  <2>11. /\ DOMAIN hub' = DOMAIN hub /\ hub'.conn = hub.conn
         /\ hub'.pending = hub.pending \cup (Len(calls) + 1 .. Len(calls) + Len(reqs))
    BY <2>1 DEF TInv, ToolShapes
  <2>12. \A c \in Len(calls) + 1 .. Len(calls) + Len(reqs) : c \in DOMAIN calls' /\ c \notin DOMAIN calls
    BY <1>4, <1>11
  <2>13. ToolShapes'
    BY <1>8, <1>11, <2>8, <2>11 DEF TInv, ToolShapes
  <2>14. SocketEnds'
    <3>1. hub'.pending \subseteq DOMAIN calls' /\ \A c \in hub'.pending : calls'[c].res = "open"
      BY <1>11, <2>10, <2>11, <2>12 DEF TInv, SocketEnds
    <3>. QED BY <2>8, <2>9, <2>11, <3>1 DEF TInv, SocketEnds
  <2>15. ASSUME NEW c, InDown(c)'
         PROVE  c \in DOMAIN calls' /\ AnswerOpen(c)' /\ ~InUp(c)' /\ \A ch \in children : ch.call # c
    <3>1. CASE InDown(c)
      BY <1>11, <1>14, <2>9, <3>1 DEF TInv, Frames
    <3>2. CASE c \in CallFrames(frames)
      BY <2>6, <2>7, <2>9, <2>10, <3>2 DEF AnswerOpen
    <3>. QED BY <2>9, <2>15, <3>1, <3>2
  <2>16. Frames'
    BY <1>11, <2>8, <2>9, <2>15 DEF TInv, Frames, Distinct
  <2>17. Commands'
    BY <1>14, <1>16, <2>9 DEF TInv, Commands
  <2>. QED BY <1>13, <1>15, <2>13, <2>14, <2>16, <2>17 DEF TInv
<1>. QED BY <1>17, <1>18

LEMMA RunGroupKept ==
  ASSUME TInv, RunGroup
  PROVE  TInv'
<1>1. turn.pc = "batch" /\ turn.group = <<>> /\ turn.at \in Nat /\ UNCHANGED <<children, tools>>
  BY DEF RunGroup, AtStep, TInv, Grouped
<1>2. PICK n \in 1..MaxTools :
        /\ Group(n)
        /\ turn' = [turn EXCEPT !.group = [step \in turn.at..turn.at + n - 1 |-> Len(calls) + 1 + step - turn.at]]
        /\ HubCalls([i \in 1..n |->
             LET step == turn.at + i - 1 IN Request(step, FirstOp(turn.plan[step].sig))])
  BY DEF RunGroup
<1>3. n \in Nat \ {0}
  BY <1>2, ToolNumbers
<1>4. PICK T : T = {turn.plan[turn.at + i - 1].sig : i \in 1..n}
  OBVIOUS
<1>5. PICK reqs : reqs = [i \in 1..n |-> LET step == turn.at + i - 1 IN Request(step, FirstOp(turn.plan[step].sig))]
  OBVIOUS
<1>6. \A i \in 1..n : reqs[i] \in CallOf(T) /\ reqs[i].sig = turn.plan[turn.at + i - 1].sig
  BY <1>4, <1>5 DEF CallOf, Request, FirstOp, Ops
<1>7. reqs \in Seq(CallOf(T)) /\ Len(reqs) = n /\ DOMAIN reqs = 1..n
  <2>1. reqs = [i \in 1..n |-> reqs[i]]
    BY <1>5
  <2>. QED BY <1>3, <1>6, <2>1
<1>8. PICK group : group = [step \in turn.at..turn.at + n - 1 |-> Len(calls) + 1 + step - turn.at]
  OBVIOUS
<1>9. /\ DOMAIN turn' = DOMAIN turn /\ turn'.at = turn.at /\ turn'.plan = turn.plan /\ turn'.pc = "batch"
      /\ turn'.group = group
  BY <1>1, <1>2, <1>8 DEF TInv, ToolShapes
<1>10. Len(calls) \in Nat
  BY DEF TInv, ToolShapes
<1>11. /\ IsFiniteSet(DOMAIN group)
       /\ \A step \in DOMAIN group : group[step] \in 1..Len(calls) + n
       /\ \A k \in 1..n : \E step \in DOMAIN group : group[step] = Len(calls) + k
  <2>1. DOMAIN group = turn.at..turn.at + n - 1 /\ turn.at + n - 1 \in Int
    BY <1>1, <1>3, <1>8
  <2>2. IsFiniteSet(DOMAIN group)
    BY <1>1, <2>1, FS_Interval
  <2>3. \A step \in DOMAIN group : group[step] = Len(calls) + 1 + step - turn.at
    BY <1>8
  <2>4. \A step \in DOMAIN group : group[step] \in 1..Len(calls) + n
    BY <1>1, <1>3, <1>10, <2>1, <2>3
  <2>5. ASSUME NEW k \in 1..n PROVE \E step \in DOMAIN group : group[step] = Len(calls) + k
    <3>1. turn.at + k - 1 \in DOMAIN group
      BY <1>1, <1>3, <2>1
    <3>2. group[turn.at + k - 1] = Len(calls) + k
      BY <1>1, <1>10, <2>3, <3>1
    <3>. QED BY <3>1, <3>2
  <2>. QED BY <2>2, <2>4, <2>5
<1>12. CASE Parallel(Step)
  <2>1. \A k \in turn.at..turn.at + n - 1 : turn.plan[k].sig \in Par
    BY <1>2, <1>12 DEF Group, Parallel, Par
  <2>2. turn.plan[turn.at].sig \in Par
    BY <1>1, <1>3, <2>1
  <2>3. \A k \in DOMAIN reqs : reqs[k].sig \in Par
    <3>1. \A k \in 1..n : turn.at + k - 1 \in turn.at..turn.at + n - 1
      BY <1>1, <1>3
    <3>. QED BY <1>6, <1>7, <2>1, <3>1
  <2>. QED BY <1>1, <1>2, <1>5, <1>7, <1>9, <1>11, <2>2, <2>3, NoneWaits, HubCallsKept
<1>13. CASE ~Parallel(Step)
  <2>1. n = 1
    BY <1>2, <1>13 DEF Group
  <2>2. DOMAIN group = {turn.at} /\ Len(reqs) = 1
    BY <1>1, <1>7, <1>8, <2>1
  <2>. QED BY <1>1, <1>2, <1>5, <1>7, <1>9, <1>11, <2>2, NoneWaits, HubCallsKept
<1>. QED BY <1>12, <1>13

LEMMA EditUploadsKept ==
  ASSUME TInv, EditUploads
  PROVE  TInv'
<1>1. /\ turn.pc = "batch" /\ turn.group # <<>> /\ turn.at \in Nat /\ UNCHANGED <<children, tools>>
      /\ calls[turn.group[turn.at]].res = "answered"
      /\ turn' = [turn EXCEPT !.group[turn.at] = Len(calls) + 1] /\ HubCalls(<<Request(turn.at, "upload")>>)
  BY DEF EditUploads, TInv, Grouped
<1>2. DOMAIN turn.group = {turn.at}
  BY EditsApart DEF EditUploads, TInv, Grouped, Step, Par
<1>3. \A c \in DOMAIN calls : calls[c].res # "open"
  BY <1>1, <1>2 DEF TInv, Grouped
<1>4. PICK T : T = {turn.plan[turn.at].sig}
  OBVIOUS
<1>5. PICK reqs : reqs = <<Request(turn.at, "upload")>>
  OBVIOUS
<1>6. Request(turn.at, "upload") \in CallOf(T)
  BY <1>4 DEF Request, CallOf, Ops
<1>7. reqs \in Seq(CallOf(T)) /\ Len(reqs) = 1 /\ DOMAIN reqs = {1}
  BY <1>5, <1>6
<1>8. PICK group : group = [turn.group EXCEPT ![turn.at] = Len(calls) + 1]
  OBVIOUS
<1>9. /\ DOMAIN turn' = DOMAIN turn /\ turn'.at = turn.at /\ turn'.plan = turn.plan /\ turn'.pc = "batch"
      /\ turn'.group = group
  BY <1>1, <1>8 DEF TInv, ToolShapes
<1>10. Len(calls) \in Nat
  BY DEF TInv, ToolShapes
<1>11. /\ DOMAIN group = {turn.at} /\ IsFiniteSet(DOMAIN group)
       /\ \A step \in DOMAIN group : group[step] = Len(calls) + 1
  BY <1>2, <1>8, FS_Singleton
<1>12. Len(calls) + 1 \in 1..Len(calls) + Len(reqs)
  BY <1>7, <1>10
<1>13. /\ \A step \in DOMAIN group : group[step] \in 1..Len(calls) + Len(reqs)
       /\ \A k \in DOMAIN reqs : \E step \in DOMAIN group : group[step] = Len(calls) + k
  BY <1>7, <1>11, <1>12
<1>. QED BY <1>1, <1>3, <1>5, <1>7, <1>9, <1>11, <1>13, HubCallsKept

-----------------------------------------------------------------------------
LEMMA TNext == TInv /\ [ToolsNext]_toolVars => TInv'
<1>. SUFFICES ASSUME TInv, [ToolsNext]_toolVars PROVE TInv'
  OBVIOUS
<1>1. CASE TurnMoves \/ AbortTurn
  BY <1>1, TurnMovesKept, HaltKept, RunGroupKept, EditUploadsKept DEF TurnMoves
<1>2. CASE DialHub
  BY <1>2, DialHubKept
<1>3. ASSUME NEW i \in DOMAIN sockets, SocketMoves(i) \/ SocketBreaks(i) \/ ToolsWorkerStops(i)
      PROVE  TInv'
  BY <1>3, OnFrameKept, HubNoticesKept, HandleFrameKept, WorkerStopsKept DEF SocketMoves
<1>4. ASSUME NEW c \in DOMAIN calls, CallTimesOut(c) PROVE TInv'
  BY <1>4, TimeOutKept
<1>5. ASSUME NEW ch \in children, ExecEnds(ch) \/ ExecTimesOut(ch) PROVE TInv'
  BY <1>5, ExecKept
<1>6. CASE UNCHANGED toolVars
  <2>1. turn' = turn /\ UNCHANGED <<calls, hub, sockets, children, tools>>
    BY <1>6 DEF toolVars
  <2>2. turn'.at \in Nat
    BY <2>1 DEF TInv, Grouped
  <2>. QED BY <2>1, <2>2, OnlyTurn
<1>. QED BY <1>1, <1>2, <1>3, <1>4, <1>5, <1>6 DEF ToolsNext

\* Whatever the model asks for, however often the connection breaks and comes back, whatever
\* times out and whenever the turn is stopped: a command that may change files is executed
\* beside no other (turn.ts:220), unless the hub gave the earlier one up by its timer.
THEOREM OneHandOnly == ToolsSpec => []OneHand
<1>1. TInv => OneHand
  BY HandsKnown
<1>. QED BY <1>1, TInit, TNext, PTL DEF ToolsSpec

-----------------------------------------------------------------------------
(* The repeat guard.  First the loop of runToolBatch, by induction over the *)
(* calls of a reply.                                                        *)

LEMMA LeastNumber ==
  ASSUME NEW S, S \subseteq Nat, S # {}
  PROVE  \E m \in S : \A n \in S : m <= n
<1>1. PICK m \in S : \A n \in S : <<n, m>> \notin OpToRel(<, Nat)
  BY NatLessThanWellFounded, WFMin
<1>2. \A n \in S : ~(n < m)
  BY <1>1 DEF OpToRel
<1>. QED BY <1>2

Began(state) == [state |-> state, plan |-> <<>>, stopped |-> FALSE]
GoOn(b, sig) == IF b.stopped THEN b ELSE PlanCall(b, sig)
IsLoop(g, state, sigs, n) ==
  g = [i \in 0..n |-> IF i = 0 THEN Began(state) ELSE GoOn(g[i - 1], sigs[i])]

\* The loop's rounds exist: what the recursive definition of PlanBatch chooses is one.
LEMMA LoopRuns ==
  ASSUME NEW state, NEW sigs, NEW n \in Nat
  PROVE  \E g : IsLoop(g, state, sigs, n)
<1>. DEFINE Bad == {m \in Nat : ~ \E g : IsLoop(g, state, sigs, m)}
<1>1. ASSUME Bad # {} PROVE FALSE
  <2>1. PICK m \in Bad : \A k \in Bad : m <= k
    BY <1>1, LeastNumber
  <2>2. m \in Nat
    OBVIOUS
  <2>3. CASE m = 0
    <3>. DEFINE g == [i \in 0..0 |-> Began(state)]
    <3>1. IsLoop(g, state, sigs, 0)
      BY DEF IsLoop
    <3>. QED BY <2>1, <2>3, <3>1
  <2>4. CASE m # 0
    <3>1. m - 1 \in Nat /\ m - 1 \notin Bad
      BY <2>1, <2>2, <2>4
    <3>2. PICK g : IsLoop(g, state, sigs, m - 1)
      BY <3>1
    <3>. DEFINE h == [i \in 0..m |-> IF i = m THEN GoOn(g[m - 1], sigs[m]) ELSE g[i]]
    <3>3. \A i \in 0..m - 1 : h[i] = g[i]
      BY <2>2, <3>1
    <3>4. \A i \in 0..m : h[i] = IF i = 0 THEN Began(state) ELSE GoOn(h[i - 1], sigs[i])
      <4>. SUFFICES ASSUME NEW i \in 0..m
                    PROVE  h[i] = IF i = 0 THEN Began(state) ELSE GoOn(h[i - 1], sigs[i])
        OBVIOUS
      <4>1. CASE i = m
        <5>1. h[i] = GoOn(g[m - 1], sigs[m]) /\ m - 1 \in 0..m - 1
          BY <2>2, <3>1, <4>1
        <5>. QED BY <2>4, <3>3, <4>1, <5>1
      <4>2. CASE i # m
        <5>1. i \in 0..m - 1 /\ (i # 0 => i - 1 \in 0..m - 1)
          BY <2>2, <4>2
        <5>2. g[i] = IF i = 0 THEN Began(state) ELSE GoOn(g[i - 1], sigs[i])
          BY <3>2, <5>1 DEF IsLoop
        <5>. QED BY <3>3, <5>1, <5>2
      <4>. QED BY <4>1, <4>2
    <3>5. IsLoop(h, state, sigs, m)
      BY <3>4 DEF IsLoop
    <3>. QED BY <2>1, <3>5
  <2>. QED BY <2>3, <2>4
<1>. QED BY <1>1

LEMMA PlanIsLoop ==
  ASSUME NEW state, NEW sigs, Len(sigs) \in Nat
  PROVE  \E g : IsLoop(g, state, sigs, Len(sigs)) /\ PlanBatch(state, sigs) = g[Len(sigs)]
<1>. DEFINE b == CHOOSE g : IsLoop(g, state, sigs, Len(sigs))
<1>1. IsLoop(b, state, sigs, Len(sigs))
  BY LoopRuns
<1>2. PlanBatch(state, sigs) = b[Len(sigs)]
  BY DEF PlanBatch, IsLoop, Began, GoOn
<1>. QED BY <1>1, <1>2

\* What a step of a plan says of the call before it, which is `was` for the first.
Chained(was, plan) ==
  \A k \in DOMAIN plan :
    /\ (IF k = 1 THEN was ELSE plan[k - 1].sig) = plan[k].sig => plan[k].action # "run"
    /\ plan[k].action = "replay" => (IF k = 1 THEN was ELSE plan[k - 1].sig) = plan[k].sig
FreshStreak(state) == state.last = NoSig \/ state.streak > 0
RepeatState(state) == state.last \in Sigs \cup {NoSig} /\ state.streak \in Nat /\ FreshStreak(state)
PlanGood(state, b) ==
  /\ b.plan \in Seq(Planned)
  /\ b.plan = <<>> => b.state = state
  /\ b.plan # <<>> => b.state.last = b.plan[Len(b.plan)].sig
  /\ RepeatState(b.state)
  /\ Chained(state.last, b.plan)

LEMMA CallPlanned ==
  ASSUME NEW state, RepeatState(state), NEW b, PlanGood(state, b), NEW sig \in Sigs
  PROVE  PlanGood(state, PlanCall(b, sig)) /\ PlanCall(b, sig).plan # <<>>
<1>. DEFINE next == Classify(b.state, sig)
            step == [sig |-> sig, action |-> next.action]
            plan == Append(b.plan, step)
<1>1. /\ next.action \in {"run", "replay", "stop"}
      /\ next.state.last = sig /\ next.state.streak \in Nat /\ next.state.streak > 0
      /\ sig = b.state.last => next.action # "run"
      /\ next.action = "replay" => sig = b.state.last
  BY SignaturesNamed DEF Classify, PlanGood, RepeatState, FreshStreak
<1>2. PlanCall(b, sig).state = next.state /\ PlanCall(b, sig).plan = plan
  BY DEF PlanCall
<1>. HIDE DEF next
<1>3. step \in Planned /\ step.sig = sig /\ step.action = next.action
  BY <1>1 DEF Planned
<1>. HIDE DEF step
<1>4. b.plan \in Seq(Planned)
  BY DEF PlanGood
<1>5. /\ plan \in Seq(Planned) /\ Len(plan) = Len(b.plan) + 1 /\ plan # <<>>
      /\ plan[Len(plan)] = step /\ DOMAIN plan = 1..Len(b.plan) + 1
      /\ \A k \in DOMAIN b.plan : plan[k] = b.plan[k]
      /\ Len(b.plan) \in Nat /\ DOMAIN b.plan = 1..Len(b.plan)
  BY <1>3, <1>4
<1>. HIDE DEF plan
<1>6. Chained(state.last, plan)
  <2>. SUFFICES ASSUME NEW k \in DOMAIN plan
                PROVE  /\ (IF k = 1 THEN state.last ELSE plan[k - 1].sig) = plan[k].sig => plan[k].action # "run"
                       /\ plan[k].action = "replay" => (IF k = 1 THEN state.last ELSE plan[k - 1].sig) = plan[k].sig
    BY DEF Chained
  <2>1. CASE k \in DOMAIN b.plan
    <3>1. plan[k] = b.plan[k] /\ (k # 1 => plan[k - 1] = b.plan[k - 1])
      BY <1>5, <2>1
    <3>. QED BY <2>1, <3>1 DEF PlanGood, Chained
  <2>2. CASE k \notin DOMAIN b.plan
    <3>1. k = Len(b.plan) + 1 /\ plan[k] = step
      BY <1>5, <2>2
    <3>2. (IF k = 1 THEN state.last ELSE plan[k - 1].sig) = b.state.last
      <4>1. CASE k = 1
        <5>1. b.plan = <<>>
          BY <1>4, <1>5, <3>1, <4>1
        <5>. QED BY <4>1, <5>1 DEF PlanGood
      <4>2. CASE k # 1
        <5>1. k - 1 = Len(b.plan) /\ k - 1 \in DOMAIN b.plan /\ b.plan # <<>>
          BY <1>4, <1>5, <3>1, <4>2
        <5>2. plan[k - 1] = b.plan[Len(b.plan)]
          BY <1>5, <5>1
        <5>. QED BY <4>2, <5>1, <5>2 DEF PlanGood
      <4>. QED BY <4>1, <4>2
    <3>. QED BY <1>1, <1>3, <3>1, <3>2
  <2>. QED BY <2>1, <2>2
<1>7. RepeatState(next.state)
  BY <1>1 DEF RepeatState, FreshStreak
<1>. QED BY <1>1, <1>2, <1>3, <1>5, <1>6, <1>7 DEF PlanGood

LEMMA ReplyPlanned ==
  ASSUME NEW state, RepeatState(state), NEW n \in Nat \ {0}, NEW sigs \in [1..n -> Sigs]
  PROVE  PlanGood(state, PlanBatch(state, sigs)) /\ PlanBatch(state, sigs).plan # <<>>
<1>1. Len(sigs) = n
  OBVIOUS
<1>2. PICK g : IsLoop(g, state, sigs, n) /\ PlanBatch(state, sigs) = g[n]
  BY <1>1, PlanIsLoop
<1>. DEFINE Good(i) == PlanGood(state, g[i]) /\ (i # 0 => g[i].plan # <<>>) /\ (i = 0 => ~g[i].stopped)
            Bad == {i \in 0..n : ~Good(i)}
<1>3. /\ g[0] = Began(state)
      /\ \A i \in 1..n : g[i] = GoOn(g[i - 1], sigs[i])
  BY <1>2 DEF IsLoop
<1>4. Good(0)
  BY <1>3 DEF Began, PlanGood, Chained
<1>5. ASSUME Bad # {} PROVE FALSE
  <2>1. Bad \subseteq Nat
    OBVIOUS
  <2>2. PICK m \in Bad : \A k \in Bad : m <= k
    BY <1>5, <2>1, LeastNumber
  <2>3. m \in 1..n /\ m - 1 \in 0..n /\ m - 1 \notin Bad
    BY <1>4, <2>2
  <2>4. Good(m - 1)
    BY <2>3
  <2>5. sigs[m] \in Sigs /\ g[m] = GoOn(g[m - 1], sigs[m])
    BY <1>3, <2>3
  <2>6. CASE g[m - 1].stopped
    <3>1. g[m] = g[m - 1] /\ m - 1 # 0
      BY <2>4, <2>5, <2>6 DEF GoOn
    <3>. QED BY <2>2, <2>3, <2>4, <3>1
  <2>7. CASE ~g[m - 1].stopped
    <3>1. g[m] = PlanCall(g[m - 1], sigs[m])
      BY <2>5, <2>7 DEF GoOn
    <3>. QED BY <2>2, <2>3, <2>4, <2>5, <3>1, CallPlanned
  <2>. QED BY <2>6, <2>7
<1>6. Good(n)
  BY <1>5
<1>. QED BY <1>2, <1>6

-----------------------------------------------------------------------------
(* What the turn knows: the steps before the next one have an answer, so    *)
(* has the last step of the reply before, and the repeat state is at the    *)
(* last step planned.                                                       *)

Heard(t, sig) == t.prior[sig] # NoSig
GroupAt(t) == \E n \in Nat \ {0} :
  DOMAIN t.group = t.at..t.at + n - 1 /\ t.at + n - 1 <= Len(t.plan)
TurnKnown(t) ==
  /\ t.plan \in Seq(Planned) /\ t.at \in 1..Len(t.plan) + 1
  /\ t.before \in Planned \cup {NoStep}
  /\ t.prior \in [Sigs -> Outcomes \cup {NoSig}]
  /\ RepeatState(t.repeat)
  /\ t.repeat.last = IF t.plan = <<>> THEN NoSig ELSE t.plan[Len(t.plan)].sig
  /\ t.before # NoStep => Heard(t, t.before.sig)
  /\ \A k \in 1..t.at - 1 : Heard(t, t.plan[k].sig)
  /\ t.pc \in {"start", "infer"} => t.at = Len(t.plan) + 1
  /\ t.group # <<>> => GroupAt(t)
  /\ Chained(t.before.sig, t.plan)

LEMMA StepsPlanned ==
  ASSUME NEW t, TurnKnown(t)
  PROVE  /\ DOMAIN t.plan = 1..Len(t.plan) /\ Len(t.plan) \in Nat /\ t.at \in Nat
         /\ \A k \in 1..Len(t.plan) : t.plan[k] \in Planned /\ t.plan[k].sig \in Sigs
<1>1. t.plan \in Seq(Planned) /\ t.at \in 1..Len(t.plan) + 1
  BY DEF TurnKnown
<1>2. DOMAIN t.plan = 1..Len(t.plan) /\ Len(t.plan) \in Nat /\ t.at \in Nat
  BY <1>1
<1>3. \A k \in 1..Len(t.plan) : t.plan[k] \in Planned
  BY <1>1, <1>2
<1>. QED BY <1>2, <1>3 DEF Planned

\* A step that repeats the one before it finds that one's answer.
LEMMA ReplayHeard ==
  ASSUME TurnKnown(turn), AtStep, Step.action = "replay"
  PROVE  Heard(turn, Step.sig)
<1>1. turn.at \in 1..Len(turn.plan) /\ DOMAIN turn.plan = 1..Len(turn.plan)
  BY StepsPlanned DEF AtStep, TurnKnown
<1>2. Step.sig \in Sigs
  BY <1>1, StepsPlanned DEF Step
<1>3. (IF turn.at = 1 THEN turn.before.sig ELSE turn.plan[turn.at - 1].sig) = Step.sig
  BY <1>1 DEF TurnKnown, Chained, Step
<1>4. CASE turn.at = 1
  BY <1>2, <1>3, <1>4, SignaturesNamed DEF TurnKnown, NoStep
<1>5. CASE turn.at # 1
  <2>1. turn.at - 1 \in 1..turn.at - 1
    BY <1>1, <1>5
  <2>. QED BY <1>3, <1>5, <2>1 DEF TurnKnown
<1>. QED BY <1>4, <1>5

\* Steps that leave the plan, the place in it and the answers alone.
LEMMA PlanSame ==
  ASSUME NEW t, NEW u, TurnKnown(t),
         u.plan = t.plan, u.at = t.at, u.before = t.before, u.prior = t.prior,
         u.repeat = t.repeat,
         u.pc \in {"start", "infer"} => t.at = Len(t.plan) + 1,
         u.group # <<>> => GroupAt(u)
  PROVE  TurnKnown(u)
<1>1. \A sig : Heard(u, sig) <=> Heard(t, sig)
  BY DEF Heard
<1>. QED BY <1>1 DEF TurnKnown

\* Steps that are over: the place moves on to u.at.
LEMMA PlanGoesOn ==
  ASSUME NEW t, NEW u, TurnKnown(t),
         u.plan = t.plan, u.before = t.before, u.repeat = t.repeat, u.pc = "batch",
         u.prior \in [Sigs -> Outcomes \cup {NoSig}],
         \A sig \in Sigs : Heard(t, sig) => Heard(u, sig),
         u.at \in 1..Len(t.plan) + 1, u.group = <<>>,
         \A k \in t.at..u.at - 1 : Heard(u, t.plan[k].sig)
  PROVE  TurnKnown(u)
<1>1. /\ Len(t.plan) \in Nat /\ t.at \in Nat
      /\ \A k \in 1..Len(t.plan) : t.plan[k].sig \in Sigs
  BY StepsPlanned
<1>2. ASSUME NEW k \in 1..u.at - 1 PROVE Heard(u, u.plan[k].sig)
  <2>1. CASE k \in 1..t.at - 1
    <3>1. k \in 1..Len(t.plan)
      BY <1>1, <1>2
    <3>. QED BY <1>1, <2>1, <3>1 DEF TurnKnown
  <2>2. CASE k \in t.at..u.at - 1
    BY <2>2
  <2>. QED BY <1>1, <1>2, <2>1, <2>2
<1>3. u.before # NoStep => Heard(u, u.before.sig)
  <2>1. t.before # NoStep => t.before.sig \in Sigs /\ Heard(t, t.before.sig)
    BY DEF TurnKnown, Planned
  <2>. QED BY <2>1
<1>. QED BY <1>2, <1>3 DEF TurnKnown

LEMMA AnswersInit == ToolsInit => TurnKnown(turn)
<1>. SUFFICES ASSUME ToolsInit PROVE TurnKnown(turn)
  OBVIOUS
<1>1. /\ turn.plan = <<>> /\ turn.at = 1 /\ turn.before = NoStep /\ turn.group = <<>>
      /\ turn.repeat = [last |-> NoSig, streak |-> 0] /\ turn.prior = [s \in Sigs |-> NoSig]
  BY DEF ToolsInit
<1>2. RepeatState(turn.repeat) /\ turn.repeat.last = NoSig
  BY <1>1 DEF RepeatState, FreshStreak
<1>3. Len(turn.plan) = 0 /\ turn.plan \in Seq(Planned)
  BY <1>1
<1>4. Chained(turn.before.sig, turn.plan)
  BY <1>1 DEF Chained
<1>. QED BY <1>1, <1>2, <1>3, <1>4 DEF TurnKnown

LEMMA IntervalSize ==
  ASSUME NEW a \in Nat, NEW n \in Nat \ {0}
  PROVE  /\ Cardinality(a..a + n - 1) = n
         /\ \A S : S \subseteq a..a + n - 1 /\ S # {} => \E k \in S : \A j \in S : j <= k
<1>1. Cardinality(a..a + n - 1) = n
  BY FS_Interval
<1>2. ASSUME NEW S, S \subseteq a..a + n - 1, S # {}
      PROVE  \E k \in S : \A j \in S : j <= k
  <2>. DEFINE T == {a + n - k : k \in S}
  <2>1. \A k \in S : k \in Nat /\ a + n - k \in Nat
    <3>1. \A k \in a..a + n - 1 : k \in Nat /\ a + n - k \in Nat
      OBVIOUS
    <3>. QED BY <1>2, <3>1
  <2>2. T \subseteq Nat /\ T # {}
    BY <1>2, <2>1
  <2>3. PICK m \in T : \A x \in T : m <= x
    BY <2>2, LeastNumber
  <2>4. PICK k \in S : m = a + n - k
    OBVIOUS
  <2>5. ASSUME NEW j \in S PROVE j <= k
    <3>1. a + n - j \in T
      OBVIOUS
    <3>2. a + n - k <= a + n - j
      BY <2>3, <2>4, <3>1
    <3>. HIDE DEF T
    <3>. QED BY <2>1, <3>2
  <2>. QED BY <2>5
<1>. QED BY <1>1, <1>2

\* Promise.all of a group: each of its signatures has an answer.
LEMMA GroupHeard ==
  ASSUME TInv, TurnKnown(turn), GroupEnds
  PROVE  TurnKnown(turn')
<1>1. PICK n \in Nat \ {0} : /\ DOMAIN turn.group = turn.at..turn.at + n - 1
                             /\ turn.at + n - 1 <= Len(turn.plan)
  BY DEF GroupEnds, TurnKnown, GroupAt
<1>2. turn.at \in Nat /\ turn.at >= 1 /\ Len(turn.plan) \in Nat
  BY StepsPlanned DEF TurnKnown
<1>3. Cardinality(DOMAIN turn.group) = n
  <2>1. Cardinality(turn.at..turn.at + n - 1) = n
    BY <1>2, IntervalSize
  <2>. QED BY <1>1, <2>1
<1>. DEFINE Steps(s) == {k \in DOMAIN turn.group : turn.plan[k].sig = s}
            Newest(s) == CHOOSE k \in Steps(s) : \A j \in Steps(s) : j <= k
            prior == [s \in Sigs |-> IF Steps(s) = {} THEN turn.prior[s]
                                     ELSE calls[turn.group[Newest(s)]].res]
<1>4. \A k \in DOMAIN turn.group : calls[turn.group[k]].res \in Outcomes
  <2>1. \A k \in DOMAIN turn.group : turn.group[k] \in DOMAIN calls
    BY DEF TInv, Grouped
  <2>2. PICK S : calls \in Seq(CallOf(S))
    BY DEF TInv, ToolShapes
  <2>3. \A c \in DOMAIN calls : calls[c].res \in {"open"} \cup Outcomes
    <3>1. \A c \in DOMAIN calls : calls[c] \in CallOf(S)
      BY <2>2
    <3>. QED BY <3>1 DEF CallOf
  <2>. QED BY <2>1, <2>3 DEF GroupEnds
<1>5. \A s : Steps(s) # {} => Newest(s) \in Steps(s)
  <2>. SUFFICES ASSUME NEW s, Steps(s) # {} PROVE Newest(s) \in Steps(s)
    OBVIOUS
  <2>1. Steps(s) \subseteq turn.at..turn.at + n - 1
    BY <1>1
  <2>2. \E k \in Steps(s) : \A j \in Steps(s) : j <= k
    BY <1>2, <2>1, IntervalSize
  <2>. QED BY <2>2
<1>6. \A s \in Sigs : Steps(s) # {} => prior[s] \in Outcomes
  BY <1>4, <1>5
<1>7. /\ DOMAIN turn = {"pc", "plan", "at", "group", "before", "repeat", "prior", "rounds", "asked", "aborted"}
      /\ turn.pc = "batch"
  BY DEF TInv, ToolShapes, GroupEnds
<1>8. /\ turn'.plan = turn.plan /\ turn'.before = turn.before /\ turn'.repeat = turn.repeat
      /\ turn'.pc = "batch" /\ turn'.group = <<>>
      /\ turn'.at = turn.at + n
      /\ turn'.prior = prior
  BY <1>3, <1>7 DEF GroupEnds
<1>9. \A s \in Sigs : prior[s] = turn.prior[s] \/ prior[s] \in Outcomes
  BY <1>6
<1>10. \A k \in turn.at..turn.at + n - 1 : prior[turn.plan[k].sig] \in Outcomes
  <2>. SUFFICES ASSUME NEW k \in turn.at..turn.at + n - 1
                PROVE  prior[turn.plan[k].sig] \in Outcomes
    OBVIOUS
  <2>1. k \in Steps(turn.plan[k].sig)
    BY <1>1
  <2>2. turn.plan[k].sig \in Sigs
    BY <1>1, <1>2, StepsPlanned
  <2>. QED BY <1>6, <2>1, <2>2
<1>11. NoSig \notin Outcomes
  BY DEF NoSig, Outcomes
<1>12. DOMAIN prior = Sigs /\ prior \in [Sigs -> Outcomes \cup {NoSig}]
  BY <1>9 DEF TurnKnown
<1>. HIDE DEF prior
<1>13. \A sig \in Sigs : Heard(turn, sig) => Heard(turn', sig)
  BY <1>8, <1>9, <1>11 DEF Heard
<1>14. turn.at + n \in 1..Len(turn.plan) + 1 /\ turn.at + n - 1 = turn'.at - 1
  BY <1>1, <1>2, <1>8
<1>15. \A k \in turn.at..turn'.at - 1 : Heard(turn', turn.plan[k].sig)
  BY <1>8, <1>10, <1>11, <1>14 DEF Heard
<1>. QED BY <1>8, <1>12, <1>13, <1>14, <1>15, PlanGoesOn

\* A new reply: its first step is chained to the last one of the reply before.
LEMMA ReplyKnown ==
  ASSUME TInv, TurnKnown(turn), PlanCalls
  PROVE  TurnKnown(turn')
<1>1. PICK sigs \in UNION {[1..n -> Sigs] : n \in 1..MaxTools - turn.asked} :
         LET b == PlanReply(turn.repeat, sigs)
         IN turn' = [turn EXCEPT !.pc = "batch", !.plan = b.plan, !.at = 1, !.rounds = @ + 1, !.asked = @ + Len(sigs),
                       !.before = IF turn.plan = <<>> THEN NoStep ELSE Last(turn.plan),
                       !.repeat = b.state]
  BY DEF PlanCalls
<1>2. PICK n \in 1..MaxTools - turn.asked : sigs \in [1..n -> Sigs]
  OBVIOUS
<1>3. PICK b : b = PlanBatch(turn.repeat, sigs)
  OBVIOUS
<1>4. /\ DOMAIN turn = {"pc", "plan", "at", "group", "before", "repeat", "prior", "rounds", "asked", "aborted"}
      /\ turn.group = <<>> /\ turn.pc = "infer"
  BY DEF TInv, ToolShapes, Grouped, PlanCalls
<1>5. /\ turn'.plan = b.plan /\ turn'.at = 1 /\ turn'.repeat = b.state
      /\ turn'.before = IF turn.plan = <<>> THEN NoStep ELSE Last(turn.plan)
      /\ turn'.pc = "batch" /\ turn'.group = <<>> /\ turn'.prior = turn.prior
  BY <1>1, <1>3, <1>4 DEF PlanReply
<1>6. PlanGood(turn.repeat, b) /\ b.plan # <<>>
  <2>1. RepeatState(turn.repeat) /\ n \in Nat \ {0}
    BY DEF TurnKnown
  <2>2. sigs \in [1..n -> Sigs]
    BY <1>2
  <2>. QED BY <1>3, <2>1, <2>2, ReplyPlanned
<1>7. /\ turn'.before \in Planned \cup {NoStep}
      /\ turn'.before.sig = turn.repeat.last
      /\ turn'.before # NoStep => Heard(turn, turn'.before.sig)
  <2>1. CASE turn.plan = <<>>
    BY <1>5, <2>1 DEF TurnKnown, NoStep
  <2>2. CASE turn.plan # <<>>
    <3>1. Len(turn.plan) \in 1..Len(turn.plan) /\ Last(turn.plan) = turn.plan[Len(turn.plan)]
      BY <2>2 DEF TurnKnown, Last
    <3>2. turn.plan[Len(turn.plan)] \in Planned
      BY <3>1, StepsPlanned
    <3>3. Len(turn.plan) \in 1..turn.at - 1
      BY <1>4, <3>1, StepsPlanned DEF TurnKnown
    <3>. QED BY <1>5, <2>2, <3>1, <3>2, <3>3 DEF TurnKnown
  <2>. QED BY <2>1, <2>2
<1>8. Chained(turn'.before.sig, turn'.plan)
  BY <1>5, <1>6, <1>7 DEF PlanGood
<1>9. 1 \in 1..Len(turn'.plan) + 1 /\ turn'.plan \in Seq(Planned)
  BY <1>5, <1>6 DEF PlanGood
<1>10. turn'.repeat.last = turn'.plan[Len(turn'.plan)].sig /\ RepeatState(turn'.repeat)
  BY <1>5, <1>6 DEF PlanGood
<1>11. turn'.before # NoStep => Heard(turn', turn'.before.sig)
  BY <1>5, <1>7 DEF Heard
<1>12. turn'.prior \in [Sigs -> Outcomes \cup {NoSig}]
  BY <1>5 DEF TurnKnown
<1>13. /\ \A k \in 1..turn'.at - 1 : Heard(turn', turn'.plan[k].sig)
       /\ turn'.at \in 1..Len(turn'.plan) + 1
       /\ turn'.repeat.last = IF turn'.plan = <<>> THEN NoSig ELSE turn'.plan[Len(turn'.plan)].sig
       /\ ~(turn'.pc \in {"start", "infer"}) /\ ~(turn'.group # <<>>)
  BY <1>5, <1>6, <1>9, <1>10
<1>. QED BY <1>7, <1>8, <1>9, <1>10, <1>11, <1>12, <1>13 DEF TurnKnown

\* The steps of a batch.
LEMMA BatchKnown ==
  ASSUME TInv, TurnKnown(turn), Replay \/ BlockSleep \/ RunGroup \/ EditUploads
  PROVE  TurnKnown(turn')
<1>0. /\ DOMAIN turn = {"pc", "plan", "at", "group", "before", "repeat", "prior", "rounds", "asked", "aborted"}
      /\ turn.at \in Nat /\ Len(turn.plan) \in Nat /\ turn.at >= 1
      /\ DOMAIN turn.plan = 1..Len(turn.plan)
      /\ turn.prior \in [Sigs -> Outcomes \cup {NoSig}]
      /\ turn.pc = "batch"
  BY StepsPlanned DEF TInv, ToolShapes, TurnKnown, Replay, BlockSleep, RunGroup, EditUploads, AtStep
<1>1. CASE Replay
  <2>1. turn' = [turn EXCEPT !.at = @ + 1]
    BY <1>1 DEF Replay
  <2>2. AtStep /\ turn.group = <<>> /\ turn.at <= Len(turn.plan) /\ Step.action = "replay"
    BY <1>1 DEF Replay, AtStep
  <2>3. /\ turn'.plan = turn.plan /\ turn'.before = turn.before /\ turn'.repeat = turn.repeat
        /\ turn'.pc = "batch" /\ turn'.group = <<>> /\ turn'.prior = turn.prior
        /\ turn'.at = turn.at + 1
    BY <1>0, <2>1, <2>2
  <2>4. \A sig : Heard(turn', sig) <=> Heard(turn, sig)
    BY <2>3 DEF Heard
  <2>5. Heard(turn, turn.plan[turn.at].sig)
    BY <2>2, ReplayHeard DEF Step
  <2>6. turn'.at \in 1..Len(turn.plan) + 1 /\ \A k \in turn.at..turn'.at - 1 : k = turn.at
    BY <1>0, <2>2, <2>3
  <2>. QED BY <1>0, <2>3, <2>4, <2>5, <2>6, PlanGoesOn
<1>2. CASE BlockSleep
  <2>1. turn' = [turn EXCEPT !.at = @ + 1, !.prior[Step.sig] = "answered"]
    BY <1>2 DEF BlockSleep
  <2>2. turn.group = <<>> /\ turn.at <= Len(turn.plan)
    BY <1>2 DEF BlockSleep, AtStep
  <2>3. PICK sig \in Sigs : sig = Step.sig
    BY <1>0, <2>2, StepsPlanned DEF Step
  <2>4. /\ turn'.plan = turn.plan /\ turn'.before = turn.before /\ turn'.repeat = turn.repeat
        /\ turn'.pc = "batch" /\ turn'.group = <<>>
        /\ turn'.prior = [turn.prior EXCEPT ![sig] = "answered"]
        /\ turn'.at = turn.at + 1
    BY <1>0, <2>1, <2>2, <2>3
  <2>5. /\ turn'.prior \in [Sigs -> Outcomes \cup {NoSig}]
        /\ \A s \in Sigs : turn'.prior[s] = IF s = sig THEN "answered" ELSE turn.prior[s]
    BY <1>0, <2>4 DEF Outcomes
  <2>6. /\ \A s \in Sigs : Heard(turn, s) => Heard(turn', s)
        /\ Heard(turn', turn.plan[turn.at].sig)
    BY <2>3, <2>5 DEF Heard, NoSig, Step
  <2>7. turn'.at \in 1..Len(turn.plan) + 1 /\ \A k \in turn.at..turn'.at - 1 : k = turn.at
    BY <1>0, <2>2, <2>4
  <2>. QED BY <2>4, <2>5, <2>6, <2>7, PlanGoesOn
<1>3. CASE RunGroup
  <2>1. PICK n \in 1..MaxTools :
          /\ Group(n)
          /\ turn' = [turn EXCEPT !.group =
               [step \in turn.at..turn.at + n - 1 |-> Len(calls) + 1 + step - turn.at]]
    BY <1>3 DEF RunGroup
  <2>2. PICK g : /\ DOMAIN g = turn.at..turn.at + n - 1 /\ turn' = [turn EXCEPT !.group = g]
    BY <2>1
  <2>3. turn.at + n - 1 <= Len(turn.plan)
    BY <2>1 DEF Group
  <2>4. /\ turn'.plan = turn.plan /\ turn'.before = turn.before /\ turn'.repeat = turn.repeat
        /\ turn'.pc = "batch" /\ turn'.group = g /\ turn'.prior = turn.prior
        /\ turn'.at = turn.at
    BY <1>0, <2>2
  <2>5. n \in Nat \ {0}
    OBVIOUS
  <2>6. GroupAt(turn')
    BY <2>2, <2>3, <2>4, <2>5 DEF GroupAt
  <2>. QED BY <2>4, <2>6, PlanSame
<1>4. CASE EditUploads
  <2>1. turn' = [turn EXCEPT !.group[turn.at] = Len(calls) + 1] /\ turn.group # <<>>
    BY <1>4 DEF EditUploads
  <2>2. /\ turn'.plan = turn.plan /\ turn'.before = turn.before /\ turn'.repeat = turn.repeat
        /\ turn'.pc = "batch" /\ DOMAIN turn'.group = DOMAIN turn.group /\ turn'.prior = turn.prior
        /\ turn'.at = turn.at
    BY <1>0, <2>1
  <2>3. GroupAt(turn)
    BY <2>1 DEF TurnKnown
  <2>4. GroupAt(turn')
    BY <2>2, <2>3 DEF GroupAt
  <2>. QED BY <2>2, <2>4, PlanSame
<1>. QED BY <1>1, <1>2, <1>3, <1>4

\* The steps that move the turn on or end it.
LEMMA PlaceKnown ==
  ASSUME TInv, TurnKnown(turn),
         \/ WaitReady \/ CancelTurn \/ AnswerText \/ TurnFails \/ RunsAway \/ HaltTurn
         \/ BatchEnds \/ AbortTurn
  PROVE  TurnKnown(turn')
<1>0. /\ DOMAIN turn = {"pc", "plan", "at", "group", "before", "repeat", "prior", "rounds", "asked", "aborted"}
      /\ Len(turn.plan) \in Nat /\ turn.at \in Nat /\ turn.at <= Len(turn.plan) + 1
  BY StepsPlanned DEF TInv, ToolShapes, TurnKnown
<1>1. /\ turn'.plan = turn.plan /\ turn'.before = turn.before /\ turn'.repeat = turn.repeat
      /\ turn'.prior = turn.prior /\ turn'.at = turn.at /\ turn'.group = turn.group
  <2>1. CASE AbortTurn
    BY <1>0, <2>1 DEF AbortTurn
  <2>2. CASE ~AbortTurn
    <3>1. PICK p : turn' = [turn EXCEPT !.pc = p]
      BY <2>2 DEF WaitReady, CancelTurn, AnswerText, TurnFails, RunsAway, HaltTurn, BatchEnds
    <3>. QED BY <1>0, <3>1
  <2>. QED BY <2>1, <2>2
<1>2. turn'.pc \in {"start", "infer"} => turn.at = Len(turn.plan) + 1
  <2>1. CASE AbortTurn
    BY <1>0, <2>1 DEF AbortTurn, TurnKnown
  <2>2. CASE WaitReady
    BY <1>0, <2>2 DEF WaitReady, TurnKnown
  <2>3. CASE BatchEnds
    BY <1>0, <2>3 DEF BatchEnds
  <2>4. CASE CancelTurn \/ AnswerText \/ TurnFails \/ RunsAway \/ HaltTurn
    BY <1>0, <2>4 DEF CancelTurn, AnswerText, TurnFails, RunsAway, HaltTurn
  <2>. QED BY <2>1, <2>2, <2>3, <2>4
<1>3. GroupAt(turn) => GroupAt(turn')
  BY <1>1 DEF GroupAt
<1>4. turn'.group # <<>> => GroupAt(turn')
  BY <1>1, <1>3 DEF TurnKnown
<1>. QED BY <1>1, <1>2, <1>4, PlanSame

LEMMA KnownNext == TInv /\ TurnKnown(turn) /\ [ToolsNext]_toolVars => TurnKnown(turn')
<1>. SUFFICES ASSUME TInv, TurnKnown(turn), [ToolsNext]_toolVars PROVE TurnKnown(turn')
  OBVIOUS
<1>1. CASE UNCHANGED toolVars
  BY <1>1 DEF toolVars
<1>2. CASE TurnMoves \/ AbortTurn
  BY <1>2, PlaceKnown, ReplyKnown, BatchKnown, GroupHeard DEF TurnMoves
<1>3. CASE DialHub
  BY <1>3 DEF DialHub
<1>4. ASSUME NEW i, SocketMoves(i) \/ SocketBreaks(i) \/ ToolsWorkerStops(i) PROVE turn' = turn
  BY <1>4 DEF SocketMoves, OnFrame, HubNotices, HandleFrame, SocketBreaks, ToolsWorkerStops, WorkerEndCloses
<1>5. ASSUME NEW c, CallTimesOut(c) PROVE turn' = turn
  BY <1>5 DEF CallTimesOut
<1>6. ASSUME NEW ch, ExecEnds(ch) \/ ExecTimesOut(ch) PROVE turn' = turn
  BY <1>6 DEF ExecEnds, ExecTimesOut
<1>. QED BY <1>1, <1>2, <1>3, <1>4, <1>5, <1>6 DEF ToolsNext

\* A call that repeats the one before it, in the same reply or across two, is not
\* executed again but answered with the outcome of the first, which is there by then
\* (classifyRepeat and runToolBatch), for replies of any length and however the calls
\* before it ended.
THEOREM RepeatsNotRun == ToolsSpec => []RepeatsAnswered
<1>1. TurnKnown(turn) => RepeatsAnswered
  <2>. SUFFICES ASSUME TurnKnown(turn) PROVE RepeatsAnswered
    OBVIOUS
  <2>1. \A k \in DOMAIN turn.plan : Before(k).sig = turn.plan[k].sig => turn.plan[k].action # "run"
    BY DEF TurnKnown, Chained, Before
  <2>2. AtStep /\ Step.action = "replay" => turn.prior[Step.sig] # NoSig
    BY ReplayHeard DEF Heard
  <2>. QED BY <2>1, <2>2 DEF RepeatsAnswered
<1>2. ToolsInit => TurnKnown(turn)
  BY AnswersInit
<1>3. TInv /\ TurnKnown(turn) /\ [ToolsNext]_toolVars => TurnKnown(turn)'
  BY KnownNext
<1>. QED BY <1>1, <1>2, <1>3, TInit, TNext, PTL DEF ToolsSpec

-----------------------------------------------------------------------------
(* The types.  The repeat guard's streak ends at three: the call that makes *)
(* it three is the last of its plan, and nothing goes past it.              *)

Bounded(t) ==
  /\ t.pc \in {"start", "infer", "batch", "idle", "error", "cancelled"}
  /\ Len(t.plan) <= MaxTools
  /\ t.repeat.streak \in 0..3
  /\ t.repeat.streak = 3 => t.plan # <<>> /\ t.plan[Len(t.plan)].action = "stop"
  /\ \A k \in 1..t.at - 1 : t.plan[k].action # "stop"
  /\ \A k \in DOMAIN t.group : t.plan[k].action = "run"
  /\ t.rounds \in 0..WrapAt /\ t.asked \in 0..MaxTools /\ t.aborted \in BOOLEAN
Wired == calls \in Seq(Call) /\ hub.ready \in BOOLEAN /\ tools.stopped \in BOOLEAN
ToolsInv == TInv /\ TurnKnown(turn) /\ Bounded(turn) /\ Wired

LEMMA ToolsTyped == ToolsInv => ToolsTypeOK
<1>. SUFFICES ASSUME ToolsInv PROVE ToolsTypeOK
  OBVIOUS
<1>1. turn.plan \in Seq(Planned) /\ Len(turn.plan) \in Nat /\ Len(turn.plan) <= MaxTools
  BY StepsPlanned DEF ToolsInv, TurnKnown, Bounded
<1>2. turn.at \in 1..MaxTools + 1
  <2>1. turn.at \in 1..Len(turn.plan) + 1
    BY DEF ToolsInv, TurnKnown
  <2>. QED BY <1>1, <2>1, ToolNumbers
<1>3. DOMAIN turn.group \subseteq 1..MaxTools
  <2>1. CASE turn.group = <<>>
    BY <2>1
  <2>2. CASE turn.group # <<>>
    <3>1. PICK n \in Nat \ {0} : /\ DOMAIN turn.group = turn.at..turn.at + n - 1
                                 /\ turn.at + n - 1 <= Len(turn.plan)
      BY <2>2 DEF ToolsInv, TurnKnown, GroupAt
    <3>. QED BY <1>1, <1>2, <3>1, ToolNumbers
  <2>. QED BY <2>1, <2>2
<1>4. /\ turn.pc \in {"start", "infer", "batch", "idle", "error", "cancelled"}
      /\ turn.rounds \in 0..WrapAt /\ turn.asked \in 0..MaxTools /\ turn.aborted \in BOOLEAN
      /\ turn.repeat.streak \in 0..3
  BY DEF ToolsInv, Bounded
<1>5. /\ turn.before \in Planned \cup {NoStep} /\ turn.prior \in [Sigs -> Outcomes \cup {NoSig}]
      /\ turn.repeat.last \in Sigs \cup {NoSig}
  BY DEF ToolsInv, TurnKnown, RepeatState
<1>6. \A k \in DOMAIN turn.group : turn.group[k] \in DOMAIN calls
  BY DEF ToolsInv, TInv, Grouped
<1>7. hub.conn \in 0..Len(sockets) /\ hub.pending \subseteq DOMAIN calls
  <2>1. Len(sockets) \in Nat
    BY DEF ToolsInv, TInv, ToolShapes
  <2>. QED BY <2>1 DEF ToolsInv, TInv, SocketEnds
<1>8. \A i \in DOMAIN sockets : /\ sockets[i].hub \in BOOLEAN /\ sockets[i].worker \in BOOLEAN
                                /\ sockets[i].down \in Seq(Down) /\ sockets[i].up \in Seq(Up)
  <2>1. \A i \in DOMAIN sockets : sockets[i] \in Sock
    BY DEF ToolsInv, TInv, ToolShapes
  <2>. QED BY <2>1 DEF Sock
<1>9. children \subseteq [call : Nat, killed : BOOLEAN] /\ tools.ran \subseteq DOMAIN calls
  BY DEF ToolsInv, TInv, ToolShapes, Child, Executed
<1>. QED BY <1>1, <1>2, <1>3, <1>4, <1>5, <1>6, <1>7, <1>8, <1>9 DEF ToolsInv, Wired, ToolsTypeOK

LEMMA ToolsBegin == ToolsInit => ToolsInv
<1>. SUFFICES ASSUME ToolsInit PROVE ToolsInv
  OBVIOUS
<1>1. Bounded(turn)
  <2>1. /\ turn.pc = "start" /\ turn.plan = <<>> /\ turn.at = 1 /\ turn.group = <<>>
        /\ turn.repeat.streak = 0 /\ turn.rounds = 0 /\ turn.asked = 0 /\ turn.aborted = FALSE
    BY DEF ToolsInit
  <2>2. Len(turn.plan) = 0 /\ DOMAIN turn.group = {} /\ 1..turn.at - 1 = {}
    BY <2>1
  <2>3. 0 \in 0..WrapAt /\ 0 \in 0..MaxTools /\ 0 <= MaxTools /\ 0 \in 0..3 /\ 0 # 3
    BY ToolNumbers
  <2>. QED BY <2>1, <2>2, <2>3 DEF Bounded
<1>2. Wired
  BY DEF ToolsInit, Wired
<1>. QED BY <1>1, <1>2, TInit, AnswersInit DEF ToolsInv

-----------------------------------------------------------------------------
\* A reply is planned: a streak of three stops the plan.
Stops(b) ==
  /\ b.state.streak \in 0..3
  /\ b.state.streak = 3 => b.stopped
  /\ b.stopped => b.plan # <<>> /\ b.plan[Len(b.plan)].action = "stop"

LEMMA CallStops ==
  ASSUME NEW b, Stops(b), ~b.stopped, b.plan \in Seq(Planned), NEW sig \in Sigs
  PROVE  Stops(PlanCall(b, sig)) /\ Len(PlanCall(b, sig).plan) = Len(b.plan) + 1
<1>. DEFINE next == Classify(b.state, sig)
            step == [sig |-> sig, action |-> next.action]
            plan == Append(b.plan, step)
<1>1. b.state.streak \in 0..2
  BY DEF Stops
<1>2. /\ next.action \in {"run", "replay", "stop"} /\ next.state.streak \in 0..3
      /\ next.state.streak = 3 => next.action = "stop"
  BY <1>1 DEF Classify
<1>3. /\ PlanCall(b, sig).state = next.state /\ PlanCall(b, sig).plan = plan
      /\ PlanCall(b, sig).stopped = (next.action = "stop")
  BY DEF PlanCall
<1>. HIDE DEF next
<1>4. step \in Planned /\ step.action = next.action
  BY <1>2 DEF Planned
<1>. HIDE DEF step
<1>5. Len(plan) = Len(b.plan) + 1 /\ plan # <<>> /\ plan[Len(plan)] = step
  BY <1>4
<1>. QED BY <1>2, <1>3, <1>4, <1>5 DEF Stops

LEMMA ReplyStops ==
  ASSUME NEW state, RepeatState(state), state.streak \in 0..2,
         NEW n \in Nat \ {0}, NEW sigs \in [1..n -> Sigs]
  PROVE  Stops(PlanBatch(state, sigs)) /\ Len(PlanBatch(state, sigs).plan) <= n
<1>1. Len(sigs) = n
  OBVIOUS
<1>2. PICK g : IsLoop(g, state, sigs, n) /\ PlanBatch(state, sigs) = g[n]
  BY <1>1, PlanIsLoop
<1>. DEFINE Good(i) == PlanGood(state, g[i]) /\ Stops(g[i]) /\ Len(g[i].plan) <= i
            Bad == {i \in 0..n : ~Good(i)}
<1>3. /\ g[0] = Began(state)
      /\ \A i \in 1..n : g[i] = GoOn(g[i - 1], sigs[i])
  BY <1>2 DEF IsLoop
<1>4. Good(0)
  <2>1. g[0].plan = <<>> /\ g[0].state = state /\ g[0].stopped = FALSE
    BY <1>3 DEF Began
  <2>2. PlanGood(state, g[0])
    BY <2>1 DEF PlanGood, Chained
  <2>. QED BY <2>1, <2>2 DEF Stops
<1>5. ASSUME Bad # {} PROVE FALSE
  <2>1. Bad \subseteq Nat
    OBVIOUS
  <2>2. PICK m \in Bad : \A k \in Bad : m <= k
    BY <1>5, <2>1, LeastNumber
  <2>3. m \in 1..n /\ m - 1 \in 0..n /\ m - 1 \notin Bad /\ m \in Nat
    BY <1>4, <2>2
  <2>4. Good(m - 1)
    BY <2>3
  <2>5. sigs[m] \in Sigs /\ g[m] = GoOn(g[m - 1], sigs[m])
    BY <1>3, <2>3
  <2>6. g[m - 1].plan \in Seq(Planned) /\ Len(g[m - 1].plan) \in Nat
    BY <2>4 DEF PlanGood
  <2>7. CASE g[m - 1].stopped
    <3>1. g[m] = g[m - 1]
      BY <2>5, <2>7 DEF GoOn
    <3>2. Len(g[m].plan) <= m
      BY <2>3, <2>4, <2>6, <3>1
    <3>. QED BY <2>2, <2>4, <3>1, <3>2
  <2>8. CASE ~g[m - 1].stopped
    <3>1. g[m] = PlanCall(g[m - 1], sigs[m])
      BY <2>5, <2>8 DEF GoOn
    <3>2. PlanGood(state, g[m])
      BY <2>4, <2>5, <3>1, CallPlanned
    <3>3. Stops(g[m]) /\ Len(g[m].plan) = Len(g[m - 1].plan) + 1
      BY <2>4, <2>5, <2>6, <2>8, <3>1, CallStops
    <3>4. Len(g[m].plan) <= m
      BY <2>3, <2>4, <2>6, <3>3
    <3>. QED BY <2>2, <3>2, <3>3, <3>4
  <2>. QED BY <2>7, <2>8
<1>6. Good(n)
  BY <1>5
<1>. QED BY <1>2, <1>6

LEMMA PlanBounded ==
  ASSUME ToolsInv, PlanCalls
  PROVE  Bounded(turn')
<1>1. PICK sigs \in UNION {[1..n -> Sigs] : n \in 1..MaxTools - turn.asked} :
         LET b == PlanReply(turn.repeat, sigs)
         IN turn' = [turn EXCEPT !.pc = "batch", !.plan = b.plan, !.at = 1, !.rounds = @ + 1, !.asked = @ + Len(sigs),
                       !.before = IF turn.plan = <<>> THEN NoStep ELSE Last(turn.plan),
                       !.repeat = b.state]
  BY DEF PlanCalls
<1>2. PICK n \in 1..MaxTools - turn.asked : sigs \in [1..n -> Sigs]
  OBVIOUS
<1>3. PICK b : b = PlanBatch(turn.repeat, sigs)
  OBVIOUS
<1>4. /\ DOMAIN turn = {"pc", "plan", "at", "group", "before", "repeat", "prior", "rounds", "asked", "aborted"}
      /\ turn.group = <<>> /\ turn.pc = "infer" /\ ~(turn.rounds >= WrapAt)
  BY DEF ToolsInv, TInv, ToolShapes, Grouped, PlanCalls, NeedsWrap
<1>5. /\ turn'.plan = b.plan /\ turn'.at = 1 /\ turn'.repeat = b.state
      /\ turn'.pc = "batch" /\ turn'.group = <<>> /\ turn'.rounds = turn.rounds + 1
      /\ turn'.asked = turn.asked + Len(sigs) /\ turn'.aborted = turn.aborted
  BY <1>1, <1>3, <1>4 DEF PlanReply
<1>6. turn.rounds \in 0..WrapAt /\ turn.asked \in 0..MaxTools /\ turn.aborted \in BOOLEAN
  BY DEF ToolsInv, Bounded
<1>7. n \in Nat \ {0} /\ n <= MaxTools - turn.asked /\ Len(sigs) = n
  BY <1>2, <1>6, ToolNumbers
<1>8. turn.repeat.streak \in 0..2 /\ RepeatState(turn.repeat)
  <2>1. turn.repeat.streak \in 0..3 /\ RepeatState(turn.repeat)
    BY DEF ToolsInv, Bounded, TurnKnown
  <2>2. ASSUME turn.repeat.streak = 3 PROVE FALSE
    <3>1. turn.plan # <<>> /\ turn.plan[Len(turn.plan)].action = "stop"
      BY <2>2 DEF ToolsInv, Bounded
    <3>2. turn.at = Len(turn.plan) + 1 /\ turn.plan \in Seq(Planned)
      BY <1>4 DEF ToolsInv, TurnKnown
    <3>3. Len(turn.plan) \in 1..turn.at - 1
      BY <3>1, <3>2
    <3>. QED BY <3>1, <3>3 DEF ToolsInv, Bounded
  <2>. QED BY <2>1, <2>2
<1>9. Stops(b) /\ Len(b.plan) <= n /\ b.plan \in Seq(Planned)
  <2>1. sigs \in [1..n -> Sigs]
    BY <1>2
  <2>. QED BY <1>3, <1>7, <1>8, <2>1, ReplyStops, ReplyPlanned DEF PlanGood
<1>10. Len(turn'.plan) <= MaxTools
  <2>1. Len(b.plan) \in Nat
    BY <1>9
  <2>. QED BY <1>5, <1>6, <1>7, <1>9, <2>1, ToolNumbers
<1>11. turn'.rounds \in 0..WrapAt
  BY <1>4, <1>5, <1>6, ToolNumbers
<1>12. turn'.asked \in 0..MaxTools
  BY <1>5, <1>6, <1>7, ToolNumbers
<1>13. DOMAIN turn'.group = {} /\ 1..turn'.at - 1 = {}
  BY <1>5
<1>. QED BY <1>5, <1>6, <1>9, <1>10, <1>11, <1>12, <1>13 DEF Bounded, Stops

\* Steps that leave the plan and the repeat state alone; u.at passes no stop.
LEMMA StillBounded ==
  ASSUME NEW t, NEW u, Bounded(t), t.at \in Nat, u.at \in Nat,
         u.pc \in {"start", "infer", "batch", "idle", "error", "cancelled"},
         u.plan = t.plan, u.repeat = t.repeat, u.rounds = t.rounds, u.asked = t.asked,
         u.aborted \in BOOLEAN,
         \A k \in t.at..u.at - 1 : t.plan[k].action # "stop",
         \A k \in DOMAIN u.group : t.plan[k].action = "run"
  PROVE  Bounded(u)
<1>1. ASSUME NEW k \in 1..u.at - 1 PROVE u.plan[k].action # "stop"
  <2>1. k \in 1..t.at - 1 \/ k \in t.at..u.at - 1
    OBVIOUS
  <2>. QED BY <2>1 DEF Bounded
<1>. QED BY <1>1 DEF Bounded

LEMMA BatchBounded ==
  ASSUME ToolsInv, Replay \/ BlockSleep \/ RunGroup \/ EditUploads \/ GroupEnds
  PROVE  Bounded(turn')
<1>0. /\ DOMAIN turn = {"pc", "plan", "at", "group", "before", "repeat", "prior", "rounds", "asked", "aborted"}
      /\ turn.at \in Nat /\ Bounded(turn) /\ turn.pc = "batch" /\ turn.aborted \in BOOLEAN
      /\ \A k \in DOMAIN turn.group : turn.plan[k].action = "run"
  BY StepsPlanned DEF ToolsInv, Bounded, TInv, ToolShapes, Replay, BlockSleep, RunGroup, EditUploads,
                      GroupEnds, AtStep
<1>1. CASE Replay \/ BlockSleep
  <2>1. /\ turn'.at = turn.at + 1 /\ turn'.plan = turn.plan /\ turn'.repeat = turn.repeat
        /\ turn'.rounds = turn.rounds /\ turn'.asked = turn.asked /\ turn'.aborted = turn.aborted
        /\ turn'.pc = "batch" /\ turn'.group = turn.group
    <3>1. CASE Replay
      BY <1>0, <3>1 DEF Replay
    <3>2. CASE BlockSleep
      BY <1>0, <3>2 DEF BlockSleep
    <3>. QED BY <1>1, <3>1, <3>2
  <2>2. turn.plan[turn.at].action # "stop"
    BY <1>1 DEF Replay, BlockSleep, Step
  <2>3. turn'.at \in Nat /\ \A k \in turn.at..turn'.at - 1 : k = turn.at
    BY <1>0, <2>1
  <2>. QED BY <1>0, <2>1, <2>2, <2>3, StillBounded
<1>2. CASE RunGroup
  <2>1. PICK n \in 1..MaxTools :
          /\ Group(n)
          /\ turn' = [turn EXCEPT !.group =
               [step \in turn.at..turn.at + n - 1 |-> Len(calls) + 1 + step - turn.at]]
    BY <1>2 DEF RunGroup
  <2>2. PICK g : /\ DOMAIN g = turn.at..turn.at + n - 1 /\ turn' = [turn EXCEPT !.group = g]
    BY <2>1
  <2>3. /\ turn'.at = turn.at /\ turn'.plan = turn.plan /\ turn'.repeat = turn.repeat
        /\ turn'.rounds = turn.rounds /\ turn'.asked = turn.asked /\ turn'.aborted = turn.aborted
        /\ turn'.pc = "batch" /\ turn'.group = g
    BY <1>0, <2>2
  <2>4. \A k \in turn.at..turn.at + n - 1 : turn.plan[k].action = "run"
    <3>1. CASE Parallel(Step)
      BY <2>1, <3>1 DEF Group, Parallel
    <3>2. CASE ~Parallel(Step)
      <4>1. n = 1
        BY <2>1, <3>2 DEF Group
      <4>2. \A k \in turn.at..turn.at + n - 1 : k = turn.at
        BY <1>0, <4>1
      <4>. QED BY <1>2, <4>2 DEF RunGroup, Step
    <3>. QED BY <3>1, <3>2
  <2>5. turn.at..turn'.at - 1 = {}
    BY <1>0, <2>3
  <2>. QED BY <1>0, <2>2, <2>3, <2>4, <2>5, StillBounded
<1>3. CASE EditUploads
  <2>1. turn' = [turn EXCEPT !.group[turn.at] = Len(calls) + 1]
    BY <1>3 DEF EditUploads
  <2>2. /\ turn'.at = turn.at /\ turn'.plan = turn.plan /\ turn'.repeat = turn.repeat
        /\ turn'.rounds = turn.rounds /\ turn'.asked = turn.asked /\ turn'.aborted = turn.aborted
        /\ turn'.pc = "batch" /\ DOMAIN turn'.group = DOMAIN turn.group
    BY <1>0, <2>1
  <2>3. turn.at..turn'.at - 1 = {}
    BY <1>0, <2>2
  <2>. QED BY <1>0, <2>2, <2>3, StillBounded
<1>4. CASE GroupEnds
  <2>1. PICK n \in Nat \ {0} : DOMAIN turn.group = turn.at..turn.at + n - 1
    BY <1>4 DEF GroupEnds, ToolsInv, TurnKnown, GroupAt
  <2>2. Cardinality(DOMAIN turn.group) = n
    <3>1. Cardinality(turn.at..turn.at + n - 1) = n
      BY <1>0, IntervalSize
    <3>. QED BY <2>1, <3>1
  <2>3. /\ turn'.at = turn.at + Cardinality(DOMAIN turn.group) /\ turn'.plan = turn.plan
        /\ turn'.repeat = turn.repeat /\ turn'.rounds = turn.rounds /\ turn'.asked = turn.asked
        /\ turn'.aborted = turn.aborted /\ turn'.pc = "batch" /\ turn'.group = <<>>
    BY <1>0, <1>4 DEF GroupEnds
  <2>4. turn'.at \in Nat /\ turn'.at - 1 = turn.at + n - 1
    BY <1>0, <2>2, <2>3
  <2>5. \A k \in turn.at..turn'.at - 1 : turn.plan[k].action # "stop"
    BY <1>0, <2>1, <2>4
  <2>6. DOMAIN turn'.group = {}
    BY <2>3
  <2>. QED BY <1>0, <2>3, <2>4, <2>5, <2>6, StillBounded
<1>. QED BY <1>1, <1>2, <1>3, <1>4

LEMMA PlaceBounded ==
  ASSUME ToolsInv,
         \/ WaitReady \/ CancelTurn \/ AnswerText \/ TurnFails \/ RunsAway \/ HaltTurn
         \/ BatchEnds \/ AbortTurn
  PROVE  Bounded(turn')
<1>0. /\ DOMAIN turn = {"pc", "plan", "at", "group", "before", "repeat", "prior", "rounds", "asked", "aborted"}
      /\ turn.at \in Nat /\ Bounded(turn)
  BY StepsPlanned DEF ToolsInv, TInv, ToolShapes
<1>1. PICK p, a : /\ turn' = [turn EXCEPT !.pc = p, !.aborted = a] /\ a \in BOOLEAN
                  /\ p \in {"start", "infer", "batch", "idle", "error", "cancelled"}
  <2>1. turn.pc \in {"start", "infer", "batch", "idle", "error", "cancelled"} /\ turn.aborted \in BOOLEAN
    BY <1>0 DEF Bounded
  <2>2. CASE AbortTurn
    <3>1. turn' = [turn EXCEPT !.pc = turn.pc, !.aborted = TRUE]
      BY <1>0, <2>2 DEF AbortTurn
    <3>. QED BY <2>1, <3>1
  <2>3. CASE ~AbortTurn
    <3>1. PICK p \in {"infer", "idle", "error", "cancelled"} : turn' = [turn EXCEPT !.pc = p]
      BY <2>3 DEF WaitReady, CancelTurn, AnswerText, TurnFails, RunsAway, HaltTurn, BatchEnds
    <3>2. turn' = [turn EXCEPT !.pc = p, !.aborted = turn.aborted]
      BY <1>0, <3>1
    <3>. QED BY <2>1, <3>2
  <2>. QED BY <2>2, <2>3
<1>2. /\ turn'.at = turn.at /\ turn'.plan = turn.plan /\ turn'.repeat = turn.repeat
      /\ turn'.rounds = turn.rounds /\ turn'.asked = turn.asked /\ turn'.aborted = a
      /\ turn'.pc = p /\ turn'.group = turn.group
  BY <1>0, <1>1
<1>3. turn.at..turn'.at - 1 = {}
  BY <1>0, <1>2
<1>4. \A k \in DOMAIN turn.group : turn.plan[k].action = "run"
  BY <1>0 DEF Bounded
<1>. QED BY <1>0, <1>1, <1>2, <1>3, <1>4, StillBounded

-----------------------------------------------------------------------------
\* Requests get their outcome and new ones are appended.
LEMMA CallsTyped ==
  ASSUME calls \in Seq(Call)
  PROVE  /\ FailPending(calls) \in Seq(Call)
         /\ \A c \in DOMAIN calls : \A res \in Outcomes : [calls EXCEPT ![c].res = res] \in Seq(Call)
<1>1. DOMAIN calls = 1..Len(calls) /\ Len(calls) \in Nat /\ \A c \in DOMAIN calls : calls[c] \in Call
  OBVIOUS
<1>2. \A x \in Call : \A res \in Outcomes : [x EXCEPT !.res = res] \in Call
  BY DEF Call
<1>3. FailPending(calls) \in Seq(Call)
  <2>1. "closed" \in Outcomes
    BY DEF Outcomes
  <2>2. FailPending(calls) = [c \in 1..Len(calls) |-> FailPending(calls)[c]]
    BY <1>1 DEF FailPending
  <2>3. \A c \in 1..Len(calls) : FailPending(calls)[c] \in Call
    BY <1>1, <1>2, <2>1 DEF FailPending
  <2>. QED BY <1>1, <2>2, <2>3
<1>4. ASSUME NEW c \in DOMAIN calls, NEW res \in Outcomes
      PROVE  [calls EXCEPT ![c].res = res] \in Seq(Call)
  <2>1. [calls[c] EXCEPT !.res = res] \in Call
    BY <1>1, <1>2
  <2>. QED BY <1>1, <2>1
<1>. QED BY <1>3, <1>4

LEMMA RequestsTyped ==
  ASSUME Wired, DOMAIN hub = {"conn", "ready", "pending"},
         NEW reqs \in Seq(Call), HubCalls(reqs)
  PROVE  calls' \in Seq(Call) /\ hub'.ready = hub.ready
<1>1. PICK result \in {"open", "closed"} :
         calls' = calls \o [i \in DOMAIN reqs |-> [reqs[i] EXCEPT !.res = result]]
  BY DEF HubCalls
<1>2. PICK made : made = [i \in DOMAIN reqs |-> [reqs[i] EXCEPT !.res = result]]
  OBVIOUS
<1>3. \A x \in Call : [x EXCEPT !.res = result] \in Call
  BY DEF Call, Outcomes
<1>4. made \in Seq(Call)
  <2>1. DOMAIN reqs = 1..Len(reqs) /\ Len(reqs) \in Nat /\ \A i \in DOMAIN reqs : reqs[i] \in Call
    OBVIOUS
  <2>2. made = [i \in 1..Len(reqs) |-> made[i]] /\ \A i \in 1..Len(reqs) : made[i] \in Call
    BY <1>2, <1>3, <2>1
  <2>. QED BY <2>1, <2>2
<1>5. calls' \in Seq(Call)
  BY <1>1, <1>2, <1>4 DEF Wired
<1>6. hub'.ready = hub.ready
  <2>1. hub' = hub \/ \E new : hub' = [hub EXCEPT !.pending = new]
    BY DEF HubCalls
  <2>. QED BY <2>1
<1>. QED BY <1>5, <1>6

LEMMA WiredNext ==
  ASSUME ToolsInv, ToolsNext
  PROVE  Wired'
<1>0. /\ DOMAIN hub = {"conn", "ready", "pending"} /\ DOMAIN tools = {"stopped", "ran"}
      /\ calls \in Seq(Call) /\ hub.ready \in BOOLEAN /\ tools.stopped \in BOOLEAN
  BY DEF ToolsInv, TInv, ToolShapes, Executed, Wired
<1>1. CASE RunGroup
  <2>1. turn.at \in Nat /\ Len(turn.plan) \in Nat /\ turn.at >= 1
    BY StepsPlanned DEF ToolsInv, TurnKnown
  <2>2. PICK n \in 1..MaxTools :
          /\ Group(n)
          /\ HubCalls([i \in 1..n |->
               LET step == turn.at + i - 1 IN Request(step, FirstOp(turn.plan[step].sig))])
    BY <1>1 DEF RunGroup
  <2>3. PICK reqs : reqs = [i \in 1..n |-> LET step == turn.at + i - 1 IN Request(step, FirstOp(turn.plan[step].sig))]
    OBVIOUS
  <2>4. ASSUME NEW i \in 1..n PROVE reqs[i] \in Call
    <3>1. turn.at + i - 1 \in 1..Len(turn.plan)
      BY <2>1, <2>2 DEF Group
    <3>2. turn.plan[turn.at + i - 1].sig \in Sigs
      BY <3>1, StepsPlanned DEF ToolsInv
    <3>. QED BY <2>3, <3>2 DEF Request, FirstOp, Call
  <2>5. reqs \in Seq(Call)
    <3>1. n \in Nat /\ reqs = [i \in 1..n |-> reqs[i]]
      BY <2>3
    <3>. QED BY <2>4, <3>1
  <2>6. calls' \in Seq(Call) /\ hub'.ready = hub.ready
    BY <1>0, <2>2, <2>3, <2>5, RequestsTyped DEF ToolsInv
  <2>7. tools' = tools
    BY <1>1 DEF RunGroup
  <2>. QED BY <1>0, <2>6, <2>7 DEF Wired
<1>2. CASE EditUploads
  <2>1. turn.at \in 1..Len(turn.plan)
    <3>1. turn.group # <<>>
      BY <1>2 DEF EditUploads
    <3>2. PICK n \in Nat \ {0} : turn.at + n - 1 <= Len(turn.plan)
      BY <3>1 DEF ToolsInv, TurnKnown, GroupAt
    <3>. QED BY <3>2, StepsPlanned DEF ToolsInv, TurnKnown
  <2>2. turn.plan[turn.at].sig \in Sigs
    BY <2>1, StepsPlanned DEF ToolsInv
  <2>3. Request(turn.at, "upload") \in Call
    BY <2>2 DEF Request, Call
  <2>4. calls' \in Seq(Call) /\ hub'.ready = hub.ready
    <3>1. PICK reqs : reqs = <<Request(turn.at, "upload")>>
      OBVIOUS
    <3>2. reqs \in Seq(Call)
      BY <2>3, <3>1
    <3>3. HubCalls(reqs)
      BY <1>2, <3>1 DEF EditUploads
    <3>. QED BY <1>0, <3>2, <3>3, RequestsTyped DEF ToolsInv
  <2>5. tools' = tools
    BY <1>2 DEF EditUploads
  <2>. QED BY <1>0, <2>4, <2>5 DEF Wired
<1>3. CASE (TurnMoves /\ ~RunGroup /\ ~EditUploads) \/ AbortTurn
  <2>1. UNCHANGED <<calls, hub, tools>>
    BY <1>3 DEF TurnMoves, WaitReady, CancelTurn, AnswerText, TurnFails, PlanCalls, RunsAway, HaltTurn,
                Replay, BlockSleep, GroupEnds, BatchEnds, AbortTurn
  <2>. QED BY <1>0, <2>1 DEF Wired
<1>4. CASE DialHub
  BY <1>0, <1>4, CallsTyped DEF DialHub, Wired
<1>5. ASSUME NEW c, CallTimesOut(c) PROVE Wired'
  <2>1. hub'.ready = hub.ready /\ calls' \in Seq(Call) /\ tools' = tools
    <3>1. "timeout" \in Outcomes /\ c \in DOMAIN calls
      BY <1>5 DEF Outcomes, CallTimesOut, ToolsInv, TInv, SocketEnds
    <3>. QED BY <1>0, <1>5, <3>1, CallsTyped DEF CallTimesOut
  <2>. QED BY <1>0, <2>1 DEF Wired
<1>6. ASSUME NEW i, OnFrame(i) PROVE Wired'
  <2>1. "answered" \in Outcomes /\ tools' = tools
    BY <1>6 DEF Outcomes, OnFrame
  <2>2. PICK frame : frame = Head(sockets[i].up)
    OBVIOUS
  <2>3. CASE hub' = [hub EXCEPT !.ready = @ \/ hub.conn # 0] /\ UNCHANGED calls
    <3>1. hub'.ready \in BOOLEAN
      BY <1>0, <2>3
    <3>. QED BY <1>0, <2>1, <2>3, <3>1 DEF Wired
  <2>4. CASE /\ frame.call \in hub.pending /\ hub' = [hub EXCEPT !.pending = @ \ {frame.call}]
             /\ calls' = [calls EXCEPT ![frame.call].res = "answered"]
    <3>1. frame.call \in DOMAIN calls
      BY <2>4 DEF ToolsInv, TInv, SocketEnds
    <3>. QED BY <1>0, <2>1, <2>4, <3>1, CallsTyped DEF Wired
  <2>5. CASE UNCHANGED <<hub, calls>>
    BY <1>0, <2>1, <2>5 DEF Wired
  <2>. QED BY <1>6, <2>2, <2>3, <2>4, <2>5 DEF OnFrame
<1>7. ASSUME NEW i, HubNotices(i) PROVE Wired'
  <2>1. tools' = tools /\ FailPending(calls) \in Seq(Call)
    BY <1>0, <1>7, CallsTyped DEF HubNotices
  <2>2. CASE hub' = [conn |-> 0, ready |-> FALSE, pending |-> {}] /\ calls' = FailPending(calls)
    BY <1>0, <2>1, <2>2 DEF Wired
  <2>3. CASE UNCHANGED <<hub, calls>>
    BY <1>0, <2>1, <2>3 DEF Wired
  <2>. QED BY <1>7, <2>2, <2>3 DEF HubNotices
<1>8. ASSUME NEW i, HandleFrame(i) \/ SocketBreaks(i) \/ ToolsWorkerStops(i) PROVE Wired'
  <2>1. UNCHANGED <<calls, hub>>
    BY <1>8 DEF HandleFrame, SocketBreaks, ToolsWorkerStops, WorkerEndCloses
  <2>2. tools'.stopped \in BOOLEAN
    <3>1. tools' = tools \/ \E ran : tools' = [tools EXCEPT !.ran = ran] \/ tools' = [tools EXCEPT !.stopped = TRUE]
      BY <1>8 DEF HandleFrame, SocketBreaks, ToolsWorkerStops
    <3>. QED BY <1>0, <3>1
  <2>. QED BY <1>0, <2>1, <2>2 DEF Wired
<1>9. ASSUME NEW ch, ExecEnds(ch) \/ ExecTimesOut(ch) PROVE Wired'
  BY <1>0, <1>9 DEF ExecEnds, ExecTimesOut, Wired
<1>. QED BY <1>1, <1>2, <1>3, <1>4, <1>5, <1>6, <1>7, <1>8, <1>9 DEF ToolsNext, SocketMoves

LEMMA ToolsStep == ToolsInv /\ [ToolsNext]_toolVars => ToolsInv'
<1>. SUFFICES ASSUME ToolsInv, [ToolsNext]_toolVars PROVE ToolsInv'
  OBVIOUS
<1>1. TInv' /\ TurnKnown(turn')
  BY TNext, KnownNext DEF ToolsInv
<1>2. CASE UNCHANGED toolVars
  BY <1>1, <1>2 DEF toolVars, ToolsInv, Wired
<1>3. CASE ToolsNext
  <2>1. Wired'
    BY <1>3, WiredNext
  <2>2. CASE TurnMoves \/ AbortTurn
    <3>1. Bounded(turn')
      BY <2>2, PlanBounded, BatchBounded, PlaceBounded DEF TurnMoves
    <3>. QED BY <1>1, <2>1, <3>1 DEF ToolsInv
  <2>3. CASE ~(TurnMoves \/ AbortTurn)
    <3>1. turn' = turn
      BY <1>3, <2>3 DEF ToolsNext, DialHub, SocketMoves, OnFrame, HubNotices, HandleFrame, SocketBreaks,
                        ToolsWorkerStops, WorkerEndCloses, CallTimesOut, ExecEnds, ExecTimesOut
    <3>. QED BY <1>1, <2>1, <3>1 DEF ToolsInv
  <2>. QED BY <2>2, <2>3
<1>. QED BY <1>2, <1>3

\* The types of a turn and its channel: the place in the plan, the calls under way and
\* those that are pending are always ones there are, and the repeat guard never counts
\* past three, because a plan ends at the call it stops.
THEOREM ToolsTypes == ToolsSpec => []ToolsTypeOK
<1>1. ToolsInv => ToolsTypeOK
  BY ToolsTyped
<1>. QED BY <1>1, ToolsBegin, ToolsStep, PTL DEF ToolsSpec
=============================================================================
