--------------------------- MODULE LoopTurn_proofs ----------------------------
(***************************************************************************)
(* Theorems about LoopTurn, for every number of messages, stops and lost   *)
(* calls, and every choice of features and faults: its types, one turn at  *)
(* a time, each message run once, none overwritten, all in order; and      *)
(* that it implements MessageLedger, what a user is promised.              *)
(***************************************************************************)
EXTENDS LoopTurn, TLAPS

-----------------------------------------------------------------------------
(* The inductive invariant.  Its parts are predicates on a record c of the *)
(* orchestrator and turns ts, because a step often makes its new record in *)
(* two or three moves.                                                     *)

AtWork == {"sent", "ensure", "start", "infer", "final"}

\* The current turn is one that was dispatched, and a turn at work is current.
WorkIsCurrent(c, ts) ==
  /\ c.cur \in 0..Len(ts)
  /\ \A t \in DOMAIN ts : ts[t].pc \in AtWork => c.cur = t

\* No start waits while a turn is current or being dispatched.
BusyIsClear(c) == c.cur # 0 \/ c.starting => c.pending = 0

\* Each message is in one place at most: it waits to be started, is in the queue
\* or has a turn.
OnePlace(c, ts, n) ==
  /\ c.pending \in 0..n
  /\ \A i \in DOMAIN c.queue : c.queue[i] \in 1..n /\ c.queue[i] # c.pending
  /\ \A i, j \in DOMAIN c.queue : c.queue[i] = c.queue[j] => i = j
  /\ \A t \in DOMAIN ts : /\ ts[t].msg \in 1..n /\ ts[t].msg # c.pending
                          /\ \A i \in DOMAIN c.queue : ts[t].msg # c.queue[i]
  /\ \A t, u \in DOMAIN ts : ts[t].msg = ts[u].msg => t = u

\* Without a lost call the turn that is about to be completed is current.
EndIsCurrent(c, ts) == \A t \in DOMAIN ts : ts[t].pc = "complete" => c.cur = t

\* The messages up to n have their place, went out as steers or were given up.
Accounted(c, ts, n, g) ==
  \A m \in 1..n : \/ m = c.pending \/ \E i \in DOMAIN c.queue : m = c.queue[i]
                  \/ \E t \in DOMAIN ts : ts[t].msg = m
                  \/ m \in g.steered \/ m \in g.given

\* Turns, the pending start and the queue go by age.
ByAge(c, ts) ==
  /\ \A t, u \in DOMAIN ts : t < u => ts[t].msg < ts[u].msg
  /\ \A t \in DOMAIN ts : /\ c.pending # 0 => ts[t].msg < c.pending
                          /\ \A i \in DOMAIN c.queue : ts[t].msg < c.queue[i]
  /\ \A i \in DOMAIN c.queue : c.pending < c.queue[i]
  /\ \A i, j \in DOMAIN c.queue : i < j => c.queue[i] < c.queue[j]

\* Somebody will take the queue: a start waits or a turn is current; a dispatch under
\* way is that of the current turn, the newest; a run that is RUNNING has a turn.
Attended(c, ts) ==
  /\ c.queue # <<>> => c.pending # 0 \/ c.cur # 0
  /\ c.starting => c.cur # 0 /\ c.cur = Len(ts)
  /\ c.status = "RUNNING" => c.cur # 0

Disorder == {"lost", "failed", "early", "idleClaim"}

\* The books of a record c and turns ts, with n messages sent, the history g of what
\* was given up or steered and the mishaps h.
Books(c, ts, n, g, h) ==
  /\ WorkIsCurrent(c, ts)
  /\ BusyIsClear(c)
  /\ OnePlace(c, ts, n)
  /\ "lost" \notin h => EndIsCurrent(c, ts) /\ Accounted(c, ts, n, g)
  /\ h \cap Disorder = {} => ByAge(c, ts) /\ Attended(c, ts)

IInv == TypeOK /\ Books(cp, turns, sent, gone, hit)

-----------------------------------------------------------------------------
(* Types.                                                                  *)

Gone == [given : SUBSET Nat, steered : SUBSET Nat, missed : SUBSET Nat]

\* A turn that neo-loop does not know is a turn.
LEMMA UnstartedType ==
  ASSUME NEW m \in Nat \ {0}, NEW pc \in {"sent", "refused", "dead"}
  PROVE  /\ Unstarted(m, pc) \in Turn
         /\ Unstarted(m, pc).msg = m /\ Unstarted(m, pc).pc = pc
BY DEF Unstarted, Turn

\* The turns after one of them has changed.
LEMMA TurnChanged ==
  ASSUME NEW ts \in Seq(Turn), NEW t \in DOMAIN ts, NEW x \in Turn
  PROVE  /\ [ts EXCEPT ![t] = x] \in Seq(Turn)
         /\ Len([ts EXCEPT ![t] = x]) = Len(ts)
         /\ DOMAIN [ts EXCEPT ![t] = x] = DOMAIN ts
         /\ [ts EXCEPT ![t] = x][t] = x
         /\ \A u \in DOMAIN ts : u # t => [ts EXCEPT ![t] = x][u] = ts[u]
  OBVIOUS

\* ParkPendingLoopStart and Started stay within the types.
LEMMA StartedType ==
  ASSUME NEW c \in ControlPlane, Len(turns) \in Nat
  PROVE  Started(c) \in ControlPlane
<1>1. ParkPendingLoopStart(c) \in ControlPlane
  <2>1. c.pending # 0 => Append(c.queue, c.pending) \in Seq(Nat \ {0})
    BY DEF ControlPlane
  <2> QED BY <2>1 DEF ParkPendingLoopStart, ControlPlane
<1>2. Dispatches(c) => [c EXCEPT !.pending = 0, !.starting = TRUE,
                               !.cur = Len(turns) + 1] \in ControlPlane
  <2>1. \A k \in Nat : [c EXCEPT !.pending = 0, !.starting = TRUE,
                                !.cur = k] \in ControlPlane
    BY DEF ControlPlane
  <2>2. Len(turns) + 1 \in Nat
    OBVIOUS
  <2> QED BY <2>1, <2>2, Zenon
<1> QED BY <1>1, <1>2 DEF Started

\* The turns that WithTurn yields.
LEMMA WithTurnType ==
  ASSUME NEW c \in ControlPlane, NEW ts \in Seq(Turn)
  PROVE  /\ WithTurn(ts, c) \in Seq(Turn)
         /\ Dispatches(c) =>
              /\ Len(WithTurn(ts, c)) = Len(ts) + 1
              /\ \A t \in 1..Len(ts) : WithTurn(ts, c)[t] = ts[t]
              /\ WithTurn(ts, c)[Len(ts) + 1].pc = "sent"
              /\ WithTurn(ts, c)[Len(ts) + 1].msg = c.pending
         /\ ~Dispatches(c) => WithTurn(ts, c) = ts
<1>1. CASE Dispatches(c)
  <2>1. Unstarted(c.pending, "sent") \in Turn
    BY <1>1, UnstartedType DEF Dispatches, ControlPlane
  <2> QED BY <1>1, <2>1 DEF WithTurn, Unstarted
<1> QED BY <1>1 DEF WithTurn

-----------------------------------------------------------------------------
(* What keeps the books.                                                   *)

\* From (c, ts, g, h) to (d, us, g2, h2) the messages stay where they are and no turn
\* is put to work.
Alike(c, ts, g, h, d, us, g2, h2) ==
  /\ d.pending = c.pending /\ d.queue = c.queue /\ d.cur = c.cur
  /\ (d.starting = TRUE => c.starting = TRUE)
  /\ d.status = "RUNNING" => c.status = "RUNNING" \/ c.cur # 0
  /\ Len(us) = Len(ts)
  /\ \A t \in DOMAIN ts : /\ us[t].msg = ts[t].msg
                          /\ us[t].pc \in AtWork => ts[t].pc \in AtWork
  /\ "lost" \notin h2 => \A t \in DOMAIN ts :
       us[t].pc = "complete" => ts[t].pc \in AtWork \cup {"complete"}
  /\ g.given \subseteq g2.given /\ g.steered \subseteq g2.steered /\ h \subseteq h2

\* Such a step keeps the books.
LEMMA SameBooks ==
  ASSUME NEW c \in ControlPlane, NEW d \in ControlPlane,
         NEW ts \in Seq(Turn), NEW us \in Seq(Turn), NEW n \in Nat,
         NEW g, NEW g2, NEW h, NEW h2,
         Books(c, ts, n, g, h), Alike(c, ts, g, h, d, us, g2, h2)
  PROVE  Books(d, us, n, g2, h2)
<1> USE DEF Alike
<1> DOMAIN us = DOMAIN ts /\ DOMAIN d.queue = DOMAIN c.queue
  OBVIOUS
<1>1. WorkIsCurrent(d, us) /\ BusyIsClear(d) /\ OnePlace(d, us, n)
  BY DEF Books, WorkIsCurrent, BusyIsClear, OnePlace
<1>2. ASSUME "lost" \notin h2 PROVE EndIsCurrent(d, us) /\ Accounted(d, us, n, g2)
  <2>1. EndIsCurrent(c, ts) /\ Accounted(c, ts, n, g) /\ WorkIsCurrent(c, ts)
    BY <1>2 DEF Books
  <2>2. EndIsCurrent(d, us)
    BY <1>2, <2>1 DEF EndIsCurrent, WorkIsCurrent
  <2>3. Accounted(d, us, n, g2)
    BY <2>1 DEF Accounted
  <2> QED BY <2>2, <2>3
<1>3. ASSUME h2 \cap Disorder = {} PROVE ByAge(d, us) /\ Attended(d, us)
  <2>1. ByAge(c, ts) /\ Attended(c, ts)
    BY <1>3 DEF Books
  <2>2. ByAge(d, us)
    BY <2>1 DEF ByAge
  <2>3. Attended(d, us)
    BY <2>1 DEF Attended
  <2> QED BY <2>2, <2>3
<1> QED BY <1>1, <1>2, <1>3 DEF Books

\* Attended, except that a RUNNING run may have a start that waits, not a turn.
AttendedSoon(c, ts) ==
  /\ c.queue # <<>> => c.pending # 0 \/ c.cur # 0
  /\ c.starting => c.cur # 0 /\ c.cur = Len(ts)
  /\ c.status = "RUNNING" => c.pending # 0 \/ c.cur # 0

\* startPendingLoopTurn keeps the books, and makes them whole where only the start of
\* a RUNNING run was missing: it dispatches that start, or puts it in the queue.
LEMMA StartedBooks ==
  ASSUME NEW c \in ControlPlane, NEW ts \in Seq(Turn), NEW n \in Nat,
         NEW g, NEW h, turns \in Seq(Turn), Len(ts) = Len(turns),
         WorkIsCurrent(c, ts), OnePlace(c, ts, n),
         "lost" \notin h => EndIsCurrent(c, ts) /\ Accounted(c, ts, n, g),
         h \cap Disorder = {} => /\ BusyIsClear(c) /\ ByAge(c, ts)
                                /\ AttendedSoon(c, ts)
  PROVE  Books(Started(c), WithTurn(ts, c), n, g, h)
<1> DEFINE d == Started(c)
           us == WithTurn(ts, c)
<1>1. CASE c.starting \/ c.cur # 0
  <2>1. us = ts /\ d = ParkPendingLoopStart(c)
    BY <1>1 DEF Started, WithTurn, Dispatches
  <2>2. /\ d.pending = 0 /\ d.cur = c.cur /\ d.starting = c.starting
        /\ d.status = c.status
        /\ d.queue = IF c.pending # 0 THEN Append(c.queue, c.pending) ELSE c.queue
    BY <2>1 DEF ParkPendingLoopStart, ControlPlane
  <2>3. c.queue \in Seq(Nat) /\ c.pending \in Nat
    BY DEF ControlPlane
  <2>4. CASE c.pending = 0
    <3>1. d.queue = c.queue /\ d.pending = c.pending
      BY <2>2, <2>4
    <3>2. WorkIsCurrent(d, us) /\ BusyIsClear(d) /\ OnePlace(d, us, n)
      BY <2>1, <2>2, <3>1 DEF WorkIsCurrent, BusyIsClear, OnePlace
    <3>3. EndIsCurrent(c, ts) => EndIsCurrent(d, us)
      BY <2>1, <2>2 DEF EndIsCurrent
    <3>4. Accounted(c, ts, n, g) => Accounted(d, us, n, g)
      BY <2>1, <3>1 DEF Accounted
    <3>5. ByAge(c, ts) => ByAge(d, us)
      BY <2>1, <3>1 DEF ByAge
    <3>6. AttendedSoon(c, ts) => Attended(d, us)
      BY <1>1, <2>1, <2>2, <2>4, <3>1 DEF AttendedSoon, Attended
    <3> QED BY <3>2, <3>3, <3>4, <3>5, <3>6 DEF Books
  <2>5. CASE c.pending # 0
    <3>1. d.queue = Append(c.queue, c.pending)
      BY <2>2, <2>5
    <3>2. /\ DOMAIN d.queue = 1..(Len(c.queue) + 1)
          /\ \A i \in 1..Len(c.queue) : d.queue[i] = c.queue[i]
          /\ d.queue[Len(c.queue) + 1] = c.pending
          /\ DOMAIN c.queue = 1..Len(c.queue) /\ Len(c.queue) \in Nat
      BY <2>3, <3>1
    <3>3. WorkIsCurrent(d, us) /\ BusyIsClear(d)
      BY <2>1, <2>2 DEF WorkIsCurrent, BusyIsClear
    <3>4. OnePlace(d, us, n)
      <4> HIDE DEF d, us
      <4>a. c.pending \in 1..n
        <5>1. c.pending \in 0..n
          BY DEF OnePlace
        <5> QED BY <2>5, <5>1
      <4>b. \A i \in DOMAIN c.queue : c.queue[i] \in 1..n /\ c.queue[i] # c.pending
        BY DEF OnePlace
      <4>1. /\ c.pending \in 1..n
            /\ \A i \in 1..Len(c.queue) : c.queue[i] \in 1..n /\ c.queue[i] # c.pending
        BY <3>2, <4>a, <4>b
      <4>2. \A i \in DOMAIN d.queue : d.queue[i] \in 1..n /\ d.queue[i] # 0
        <5>1. \A m \in 1..n : m # 0
          OBVIOUS
        <5>2. \A i \in DOMAIN d.queue : i \in 1..Len(c.queue) \/ i = Len(c.queue) + 1
          BY <3>2
        <5> QED BY <3>2, <4>1, <5>1, <5>2
      <4>3. \A i, j \in DOMAIN d.queue : d.queue[i] = d.queue[j] => i = j
        <5>1. \A i, j \in 1..Len(c.queue) : c.queue[i] = c.queue[j] => i = j
          BY <3>2 DEF OnePlace
        <5>2. \A i \in DOMAIN d.queue : i \in 1..Len(c.queue) \/ i = Len(c.queue) + 1
          BY <3>2
        <5> QED BY <3>2, <4>1, <5>1, <5>2
      <4>4. \A t \in DOMAIN us : \A i \in DOMAIN d.queue : us[t].msg # d.queue[i]
        <5>a. \A t \in DOMAIN ts : /\ ts[t].msg # c.pending
                                  /\ \A i \in DOMAIN c.queue : ts[t].msg # c.queue[i]
          BY DEF OnePlace
        <5>1. \A t \in DOMAIN us : /\ us[t].msg # c.pending
                                  /\ \A i \in 1..Len(c.queue) : us[t].msg # c.queue[i]
          BY <2>1, <3>2, <5>a
        <5>2. \A i \in DOMAIN d.queue : i \in 1..Len(c.queue) \/ i = Len(c.queue) + 1
          BY <3>2
        <5> QED BY <3>2, <5>1, <5>2
      <4>5. /\ \A t \in DOMAIN us : us[t].msg \in 1..n /\ us[t].msg # 0
            /\ \A t, u \in DOMAIN us : us[t].msg = us[u].msg => t = u
        BY <2>1 DEF OnePlace
      <4>6. d.pending \in 0..n
        BY <2>2
      <4> QED BY <2>2, <4>2, <4>3, <4>4, <4>5, <4>6 DEF OnePlace
    <3>5. EndIsCurrent(c, ts) => EndIsCurrent(d, us)
      BY <2>1, <2>2 DEF EndIsCurrent
    <3>6. Accounted(c, ts, n, g) => Accounted(d, us, n, g)
      <4>1. Len(c.queue) + 1 \in DOMAIN d.queue
        BY <3>2
      <4>2. \A i \in DOMAIN c.queue : i \in DOMAIN d.queue /\ d.queue[i] = c.queue[i]
        BY <3>2
      <4> QED BY <2>1, <3>2, <4>1, <4>2 DEF Accounted
    <3>7. ~BusyIsClear(c)
      BY <1>1, <2>5 DEF BusyIsClear
    <3> QED BY <3>3, <3>4, <3>5, <3>6, <3>7 DEF Books
  <2> QED BY <2>4, <2>5
<1>2. CASE Dispatches(c)
  <2>1. /\ d.pending = 0 /\ d.cur = Len(ts) + 1 /\ d.starting = TRUE
        /\ d.status = c.status /\ d.queue = c.queue
    BY <1>2 DEF Started, Dispatches, ControlPlane
  <2>2. /\ us \in Seq(Turn) /\ Len(us) = Len(ts) + 1
        /\ \A t \in 1..Len(ts) : us[t] = ts[t]
        /\ us[Len(ts) + 1].pc = "sent" /\ us[Len(ts) + 1].msg = c.pending
    BY <1>2, WithTurnType
  <2>3. DOMAIN us = 1..(Len(ts) + 1) /\ DOMAIN ts = 1..Len(ts) /\ Len(ts) \in Nat
    BY <2>2
  <2>4. c.cur = 0 /\ c.pending # 0
    BY <1>2 DEF Dispatches
  <2> DEFINE k == Len(ts) + 1
  <2>a. /\ \A t \in DOMAIN us : t \in DOMAIN ts \/ t = k
        /\ \A t \in DOMAIN ts : t \in DOMAIN us /\ us[t] = ts[t] /\ t # k /\ t # 0
        /\ k \in DOMAIN us
    BY <2>2, <2>3
  <2>5. WorkIsCurrent(d, us) /\ BusyIsClear(d)
    <3>1. \A t \in DOMAIN us : us[t].pc \in AtWork => k = t
      BY <2>4, <2>a DEF WorkIsCurrent
    <3>2. d.cur \in 0..Len(us)
      BY <2>1, <2>2, <2>3
    <3> QED BY <2>1, <3>1, <3>2 DEF WorkIsCurrent, BusyIsClear
  <2>6. OnePlace(d, us, n)
    <3>1. /\ c.pending \in 1..n
          /\ \A i \in DOMAIN d.queue : d.queue[i] \in 1..n /\ d.queue[i] # c.pending
          /\ \A i, j \in DOMAIN d.queue : d.queue[i] = d.queue[j] => i = j
          /\ \A t \in DOMAIN ts :
               /\ ts[t].msg \in 1..n /\ ts[t].msg # c.pending
               /\ \A i \in DOMAIN d.queue : ts[t].msg # d.queue[i]
          /\ \A t, u \in DOMAIN ts : ts[t].msg = ts[u].msg => t = u
      BY <2>1, <2>4 DEF OnePlace, ControlPlane
    <3>2. \A t, u \in DOMAIN us : us[t].msg = us[u].msg => t = u
      BY <2>2, <2>a, <3>1
    <3>3. \A t \in DOMAIN us : /\ us[t].msg \in 1..n
                              /\ \A i \in DOMAIN d.queue : us[t].msg # d.queue[i]
      BY <2>2, <2>a, <3>1
    <3>4. \A m \in 1..n : m # 0
      OBVIOUS
    <3> HIDE DEF us, d, k
    <3> QED BY <2>1, <3>1, <3>2, <3>3, <3>4 DEF OnePlace
  <2>7. EndIsCurrent(c, ts) => EndIsCurrent(d, us)
    BY <2>1, <2>2, <2>4, <2>a DEF EndIsCurrent
  <2>8. Accounted(c, ts, n, g) => Accounted(d, us, n, g)
    BY <2>1, <2>2, <2>a DEF Accounted
  <2>9. ByAge(c, ts) => ByAge(d, us)
    <3> SUFFICES ASSUME ByAge(c, ts)
                 PROVE  ByAge(d, us)
      OBVIOUS
    <3>1. \A t, u \in DOMAIN ts : t < u => ts[t].msg < ts[u].msg
      BY DEF ByAge
    <3>2. \A t \in DOMAIN ts : /\ ts[t].msg < c.pending
                              /\ \A i \in DOMAIN d.queue : ts[t].msg < d.queue[i]
      BY <2>1, <2>4 DEF ByAge
    <3>3. \A i \in DOMAIN d.queue : c.pending < d.queue[i]
      BY <2>1 DEF ByAge
    <3>4. \A i, j \in DOMAIN d.queue : i < j => d.queue[i] < d.queue[j]
      BY <2>1 DEF ByAge
    <3>5. \A i \in DOMAIN d.queue : 0 < d.queue[i]
      BY <2>1 DEF ControlPlane
    <3>6. \A t \in DOMAIN ts : t < k
      BY <2>3
    <3> HIDE DEF us, d
    <3>7. \A t, u \in DOMAIN us : t < u => us[t].msg < us[u].msg
      BY <2>2, <2>3, <2>a, <3>1, <3>2, <3>6
    <3>8. \A t \in DOMAIN us : \A i \in DOMAIN d.queue : us[t].msg < d.queue[i]
      BY <2>2, <2>a, <3>2, <3>3
    <3> QED BY <2>1, <3>4, <3>5, <3>7, <3>8 DEF ByAge
  <2>10. Attended(d, us)
    BY <2>1, <2>2, <2>3 DEF Attended
  <2> QED BY <2>5, <2>6, <2>7, <2>8, <2>9, <2>10 DEF Books
<1>3. CASE ~c.starting /\ c.cur = 0 /\ c.pending = 0
  <2>1. d = c /\ us = ts
    BY <1>3 DEF Started, WithTurn, Dispatches
  <2>2. BusyIsClear(c)
    BY <1>3 DEF BusyIsClear
  <2>3. AttendedSoon(c, ts) => Attended(c, ts)
    BY <1>3 DEF AttendedSoon, Attended
  <2> QED BY <2>1, <2>2, <2>3 DEF Books
<1> QED BY <1>1, <1>2, <1>3 DEF Dispatches, ControlPlane

\* A new message goes to the end of the queue.
LEMMA QueueMessage ==
  ASSUME NEW c \in ControlPlane, NEW ts \in Seq(Turn), NEW n \in Nat,
         NEW g, NEW h, Books(c, ts, n, g, h), ShouldQueue(c)
  PROVE  LET d == [c EXCEPT !.queue = Append(@, n + 1)]
         IN  d \in ControlPlane /\ Books(d, ts, n + 1, g, h)
<1> DEFINE d == [c EXCEPT !.queue = Append(@, n + 1)]
           k == Len(c.queue) + 1
<1>1. d \in ControlPlane
  <2>1. c.queue \in Seq(Nat \ {0}) /\ n + 1 \in Nat \ {0}
    BY DEF ControlPlane
  <2>2. Append(c.queue, n + 1) \in Seq(Nat \ {0})
    BY <2>1
  <2>3. \A q \in Seq(Nat \ {0}) : [c EXCEPT !.queue = q] \in ControlPlane
    BY DEF ControlPlane
  <2> QED BY <2>2, <2>3, Zenon
<1>2. /\ d.pending = c.pending /\ d.cur = c.cur /\ d.starting = c.starting
      /\ d.status = c.status /\ d.queue = Append(c.queue, n + 1)
      /\ c.queue \in Seq(Nat)
  BY DEF ControlPlane
<1>3. /\ \A i \in DOMAIN d.queue : i \in DOMAIN c.queue \/ i = k
      /\ \A i \in DOMAIN c.queue : i \in DOMAIN d.queue /\ d.queue[i] = c.queue[i] /\ i < k
      /\ k \in DOMAIN d.queue /\ d.queue[k] = n + 1
  BY <1>2
<1>4. OnePlace(c, ts, n)
  BY DEF Books
<1> HIDE DEF d
<1>5. WorkIsCurrent(d, ts) /\ BusyIsClear(d)
  BY <1>2 DEF Books, WorkIsCurrent, BusyIsClear
<1>6. OnePlace(d, ts, n + 1)
  <2>1. d.pending \in 0..n
    BY <1>2, <1>4 DEF OnePlace
  <2>2. \A i \in DOMAIN c.queue : c.queue[i] \in 1..n /\ c.queue[i] # c.pending
    BY <1>4 DEF OnePlace
  <2>3. \A i \in DOMAIN d.queue : d.queue[i] \in 1..(n + 1) /\ d.queue[i] # d.pending
    BY <1>2, <1>3, <2>1, <2>2
  <2>4. \A i, j \in DOMAIN c.queue : c.queue[i] = c.queue[j] => i = j
    BY <1>4 DEF OnePlace
  <2>5. \A i, j \in DOMAIN d.queue : d.queue[i] = d.queue[j] => i = j
    BY <1>3, <2>2, <2>4
  <2>6. \A t \in DOMAIN ts : /\ ts[t].msg \in 1..n /\ ts[t].msg # c.pending
                            /\ \A i \in DOMAIN c.queue : ts[t].msg # c.queue[i]
    BY <1>4 DEF OnePlace
  <2>7. \A t \in DOMAIN ts : /\ ts[t].msg \in 1..(n + 1) /\ ts[t].msg # d.pending
                            /\ \A i \in DOMAIN d.queue : ts[t].msg # d.queue[i]
    BY <1>2, <1>3, <2>6
  <2>8. \A t, u \in DOMAIN ts : ts[t].msg = ts[u].msg => t = u
    BY <1>4 DEF OnePlace
  <2>9. d.pending \in 0..(n + 1)
    BY <2>1
  <2> QED BY <2>3, <2>5, <2>7, <2>8, <2>9 DEF OnePlace
<1>7. EndIsCurrent(c, ts) => EndIsCurrent(d, ts)
  BY <1>2 DEF EndIsCurrent
<1>8. Accounted(c, ts, n, g) => Accounted(d, ts, n + 1, g)
  <2>1. \A m \in 1..(n + 1) : m \in 1..n \/ m = n + 1
    OBVIOUS
  <2> QED BY <1>2, <1>3, <2>1 DEF Accounted
<1>9. ByAge(c, ts) => ByAge(d, ts)
  <2> SUFFICES ASSUME ByAge(c, ts)
               PROVE  ByAge(d, ts)
    OBVIOUS
  <2>1. \A t \in DOMAIN ts : ts[t].msg < n + 1
    BY <1>4 DEF OnePlace
  <2>2. d.pending < n + 1
    BY <1>2, <1>4 DEF OnePlace
  <2>3. \A i \in DOMAIN c.queue : c.queue[i] < n + 1
    BY <1>4 DEF OnePlace
  <2>4. \A i, j \in DOMAIN d.queue : i < j => d.queue[i] < d.queue[j]
    <3>1. \A i, j \in DOMAIN c.queue : i < j => c.queue[i] < c.queue[j]
      BY DEF ByAge
    <3>2. \A i \in DOMAIN d.queue : k < i => FALSE
      BY <1>2, <1>3
    <3>3. k \in Nat
      BY <1>2
    <3> QED BY <1>3, <2>3, <3>1, <3>2, <3>3
  <2>5. \A t \in DOMAIN ts : /\ d.pending # 0 => ts[t].msg < d.pending
                            /\ \A i \in DOMAIN d.queue : ts[t].msg < d.queue[i]
    BY <1>2, <1>3, <2>1 DEF ByAge
  <2>6. \A i \in DOMAIN d.queue : d.pending < d.queue[i]
    BY <1>2, <1>3, <2>2 DEF ByAge
  <2> QED BY <2>4, <2>5, <2>6 DEF ByAge
<1>10. Attended(c, ts) => Attended(d, ts)
  BY <1>2 DEF Attended, ShouldQueue
<1> QED BY <1>1, <1>5, <1>6, <1>7, <1>8, <1>9, <1>10 DEF d, Books

\* A new message is to be started next.
LEMMA PendMessage ==
  ASSUME NEW c \in ControlPlane, NEW ts \in Seq(Turn), NEW n \in Nat,
         NEW g, NEW h, Books(c, ts, n, g, h), ~ShouldQueue(c)
  PROVE  LET d == [c EXCEPT !.pending = n + 1]
         IN  d \in ControlPlane /\ Books(d, ts, n + 1, g, h)
<1> DEFINE d == [c EXCEPT !.pending = n + 1]
<1>1. d \in ControlPlane
  <2>1. \A k \in Nat : [c EXCEPT !.pending = k] \in ControlPlane
    BY DEF ControlPlane
  <2>2. n + 1 \in Nat
    OBVIOUS
  <2> QED BY <2>1, <2>2, Zenon
<1>2. /\ d.pending = n + 1 /\ d.cur = c.cur /\ d.starting = c.starting
      /\ d.status = c.status /\ d.queue = c.queue
  BY DEF ControlPlane
<1>3. /\ c.cur = 0 /\ c.pending = 0 /\ ~c.starting /\ c.status # "RUNNING"
  BY DEF ShouldQueue
<1>4. OnePlace(c, ts, n)
  BY DEF Books
<1> HIDE DEF d
<1>5. WorkIsCurrent(d, ts) /\ BusyIsClear(d)
  BY <1>2, <1>3 DEF Books, WorkIsCurrent, BusyIsClear
<1>6. OnePlace(d, ts, n + 1)
  <2>1. \A m \in 1..n : m \in 1..(n + 1) /\ m # n + 1
    OBVIOUS
  <2>2. n + 1 \in 0..(n + 1)
    OBVIOUS
  <2> QED BY <1>2, <1>4, <2>1, <2>2 DEF OnePlace
<1>7. EndIsCurrent(c, ts) => EndIsCurrent(d, ts)
  BY <1>2 DEF EndIsCurrent
<1>8. Accounted(c, ts, n, g) => Accounted(d, ts, n + 1, g)
  <2>1. \A m \in 1..(n + 1) : (m \in 1..n /\ m # c.pending) \/ m = n + 1
    BY <1>3
  <2> QED BY <1>2, <2>1 DEF Accounted
<1>9. ByAge(c, ts) /\ Attended(c, ts) => ByAge(d, ts) /\ Attended(d, ts)
  <2> SUFFICES ASSUME ByAge(c, ts), Attended(c, ts)
               PROVE  ByAge(d, ts) /\ Attended(d, ts)
    OBVIOUS
  <2>1. c.queue = <<>>
    BY <1>3 DEF Attended
  <2>2. \A t \in DOMAIN ts : ts[t].msg < n + 1
    BY <1>4 DEF OnePlace
  <2> QED BY <1>2, <1>3, <2>1, <2>2 DEF ByAge, Attended
<1> QED BY <1>1, <1>5, <1>6, <1>7, <1>8, <1>9 DEF d, Books

\* A new message goes out as a steer.
LEMMA SteerMessage ==
  ASSUME NEW c \in ControlPlane, NEW ts \in Seq(Turn), NEW n \in Nat,
         NEW g \in Gone, NEW g2 \in Gone, NEW h, Books(c, ts, n, g, h),
         g2.given = g.given, g2.steered = g.steered \cup {n + 1}
  PROVE  Books(c, ts, n + 1, g2, h)
<1>1. OnePlace(c, ts, n + 1)
  <2>1. 0..n \subseteq 0..(n + 1) /\ 1..n \subseteq 1..(n + 1)
    OBVIOUS
  <2> QED BY <2>1 DEF Books, OnePlace
<1>2. Accounted(c, ts, n, g) => Accounted(c, ts, n + 1, g2)
  <2>1. \A m \in 1..(n + 1) : m \in 1..n \/ m = n + 1
    OBVIOUS
  <2> QED BY <2>1 DEF Accounted
<1> QED BY <1>1, <1>2 DEF Books

\* failRun gives up the start that waits.
LEMMA FailedBooks ==
  ASSUME NEW c \in ControlPlane, NEW ts \in Seq(Turn), NEW n \in Nat,
         NEW g \in Gone, NEW g2 \in Gone, NEW h, NEW h2,
         WorkIsCurrent(c, ts), OnePlace(c, ts, n),
         "lost" \notin h => EndIsCurrent(c, ts) /\ Accounted(c, ts, n, g),
         g2.given = g.given \cup ({c.pending} \ {0}), g2.steered = g.steered,
         h \subseteq h2, "failed" \in h2
  PROVE  Failed(c) \in ControlPlane /\ Books(Failed(c), ts, n, g2, h2)
<1> DEFINE d == Failed(c)
<1>1. /\ d \in ControlPlane
      /\ d.pending = 0 /\ d.queue = c.queue /\ d.cur = c.cur
  BY DEF Failed, Detached, ControlPlane
<1> HIDE DEF d
<1>2. WorkIsCurrent(d, ts) /\ BusyIsClear(d)
  BY <1>1 DEF WorkIsCurrent, BusyIsClear
<1>3. OnePlace(d, ts, n)
  <2>1. \A m \in 1..n : m # 0
    OBVIOUS
  <2>2. 0 \in 0..n
    OBVIOUS
  <2> QED BY <1>1, <2>1, <2>2 DEF OnePlace
<1>4. EndIsCurrent(c, ts) => EndIsCurrent(d, ts)
  BY <1>1 DEF EndIsCurrent
<1>5. Accounted(c, ts, n, g) => Accounted(d, ts, n, g2)
  <2>1. \A m \in 1..n : m # 0
    OBVIOUS
  <2> QED BY <1>1, <2>1 DEF Accounted
<1> QED BY <1>1, <1>2, <1>3, <1>4, <1>5 DEF d, Books, Disorder

\* applyTurnComplete clears the current turn, if it is t that completes.
LEMMA CompletedBooks ==
  ASSUME NEW c \in ControlPlane, NEW ts \in Seq(Turn), NEW us \in Seq(Turn),
         NEW n \in Nat, NEW g, NEW h, Books(c, ts, n, g, h),
         NEW t \in DOMAIN ts, ts[t].pc = "complete", Len(us) = Len(ts),
         us[t].msg = ts[t].msg, us[t].pc = "answer",
         \A u \in DOMAIN ts : u # t => us[u] = ts[u],
         NEW d \in ControlPlane, d.cur = ApplyTurnComplete(c, t).cur,
         d.pending = c.pending, d.queue = c.queue, d.starting = c.starting
  PROVE  /\ WorkIsCurrent(d, us) /\ BusyIsClear(d) /\ OnePlace(d, us, n)
         /\ "lost" \notin h => /\ EndIsCurrent(d, us) /\ Accounted(d, us, n, g)
                              /\ d.pending = 0
         /\ h \cap Disorder = {} =>
              /\ ByAge(d, us) /\ d.cur = 0
              /\ ~(c.starting /\ t = Len(ts)) => ~d.starting
<1>1. /\ d.cur = IF c.cur # 0 /\ c.cur # t THEN c.cur ELSE 0
      /\ DOMAIN us = DOMAIN ts /\ \A u \in DOMAIN ts : u # 0
      /\ \A u \in DOMAIN us : us[u].msg = ts[u].msg
  BY DEF ApplyTurnComplete, ControlPlane
<1>2. WorkIsCurrent(d, us)
  <2>1. d.cur \in 0..Len(us)
    BY <1>1 DEF Books, WorkIsCurrent
  <2>2. ASSUME NEW u \in DOMAIN us, us[u].pc \in AtWork PROVE d.cur = u
    <3>1. u # t /\ ts[u].pc \in AtWork
      BY <1>1, <2>2 DEF AtWork
    <3>2. c.cur = u
      BY <1>1, <3>1 DEF Books, WorkIsCurrent
    <3> QED BY <1>1, <3>1, <3>2
  <2> QED BY <2>1, <2>2 DEF WorkIsCurrent
<1>3. BusyIsClear(d)
  BY <1>1 DEF Books, BusyIsClear
<1>4. OnePlace(d, us, n)
  BY <1>1 DEF Books, OnePlace
<1>5. ASSUME "lost" \notin h
      PROVE  EndIsCurrent(d, us) /\ Accounted(d, us, n, g) /\ d.pending = 0 /\ c.cur = t
  <2>1. EndIsCurrent(c, ts) /\ Accounted(c, ts, n, g) /\ BusyIsClear(c)
    BY <1>5 DEF Books
  <2>2. c.cur = t
    BY <2>1 DEF EndIsCurrent
  <2>3. \A u \in DOMAIN us : us[u].pc # "complete"
    BY <1>1, <2>1, <2>2 DEF EndIsCurrent
  <2>4. d.pending = 0
    BY <1>1, <2>1, <2>2 DEF BusyIsClear
  <2>5. Accounted(d, us, n, g)
    BY <1>1, <2>1 DEF Accounted
  <2> QED BY <2>2, <2>3, <2>4, <2>5 DEF EndIsCurrent
<1>6. ASSUME h \cap Disorder = {}
      PROVE  /\ ByAge(d, us) /\ d.cur = 0
             /\ ~(c.starting /\ t = Len(ts)) => ~d.starting
  <2>1. ByAge(c, ts) /\ Attended(c, ts) /\ "lost" \notin h
    BY <1>6 DEF Books, Disorder
  <2>2. ByAge(d, us)
    BY <1>1, <2>1 DEF ByAge
  <2> QED BY <1>1, <1>5, <2>1, <2>2 DEF Attended
<1> QED BY <1>2, <1>3, <1>4, <1>5, <1>6

\* takeQueuedLoopFollowUp, after a turn that ended.
LEMMA TakenBooks ==
  ASSUME NEW c \in ControlPlane, NEW ts \in Seq(Turn), NEW n \in Nat,
         NEW g, NEW h, OnePlace(c, ts, n), WorkIsCurrent(c, ts), c.queue # <<>>
  PROVE  LET d == TakeQueued(c)
         IN  /\ d \in ControlPlane
             /\ d.cur = c.cur /\ d.starting = c.starting /\ d.status = c.status
             /\ d.pending # 0
             /\ WorkIsCurrent(d, ts) /\ OnePlace(d, ts, n)
             /\ EndIsCurrent(c, ts) => EndIsCurrent(d, ts)
             /\ Accounted(c, ts, n, g) /\ c.pending = 0 => Accounted(d, ts, n, g)
             /\ ByAge(c, ts) => ByAge(d, ts)
<1> DEFINE d == TakeQueued(c)
<1>1. c.queue \in Seq(Nat \ {0})
  BY DEF ControlPlane
<1>2. /\ d \in ControlPlane
      /\ d.cur = c.cur /\ d.starting = c.starting /\ d.status = c.status
      /\ d.pending = c.queue[1] /\ d.queue = Tail(c.queue) /\ d.pending # 0
  <2>1. Head(c.queue) = c.queue[1] /\ Head(c.queue) \in Nat \ {0}
        /\ Tail(c.queue) \in Seq(Nat \ {0})
    BY <1>1
  <2> QED BY <2>1 DEF TakeQueued, ControlPlane
<1> HIDE DEF d
<1>3. /\ 1 \in DOMAIN c.queue
      /\ \A i \in DOMAIN d.queue : /\ i + 1 \in DOMAIN c.queue /\ i + 1 # 1 /\ i \in Nat
                                  /\ 1 < i + 1 /\ d.queue[i] = c.queue[i + 1]
      /\ \A i \in DOMAIN c.queue : i = 1 \/ (i - 1 \in DOMAIN d.queue
                                            /\ d.queue[i - 1] = c.queue[i])
  <2> DEFINE q == c.queue
             r == d.queue
  <2>1. q \in Seq(Nat \ {0}) /\ q # <<>> /\ r = Tail(q)
    BY <1>1, <1>2
  <2> HIDE DEF q, r
  <2>2. /\ DOMAIN q = 1..Len(q) /\ DOMAIN r = 1..(Len(q) - 1)
        /\ Len(q) \in Nat /\ Len(q) > 0
    BY <2>1
  <2>3. \A i \in DOMAIN r : r[i] = q[i + 1]
    BY <2>1, <2>2
  <2>4. /\ 1 \in DOMAIN q
        /\ \A i \in DOMAIN r : i + 1 \in DOMAIN q /\ i + 1 # 1 /\ i \in Nat /\ 1 < i + 1
        /\ \A i \in DOMAIN q : i = 1 \/ i - 1 \in DOMAIN r
    BY <2>2
  <2>5. \A i \in DOMAIN q : i - 1 \in DOMAIN r => r[i - 1] = q[i]
    BY <2>2, <2>3
  <2> QED BY <2>3, <2>4, <2>5 DEF q, r
<1>4. WorkIsCurrent(d, ts)
  BY <1>2 DEF WorkIsCurrent
<1>5. OnePlace(d, ts, n)
  <2>1. /\ \A i \in DOMAIN c.queue : c.queue[i] \in 1..n
        /\ \A i, j \in DOMAIN c.queue : c.queue[i] = c.queue[j] => i = j
        /\ \A t \in DOMAIN ts : /\ ts[t].msg \in 1..n
                                /\ \A i \in DOMAIN c.queue : ts[t].msg # c.queue[i]
        /\ \A t, u \in DOMAIN ts : ts[t].msg = ts[u].msg => t = u
    BY DEF OnePlace
  <2>2. 1..n \subseteq 0..n
    OBVIOUS
  <2>3. \A i, j \in DOMAIN d.queue : d.queue[i] = d.queue[j] => i = j
    BY <1>3, <2>1
  <2>4. \A i \in DOMAIN d.queue : d.queue[i] \in 1..n /\ d.queue[i] # d.pending
    BY <1>2, <1>3, <2>1
  <2>5. \A t \in DOMAIN ts : /\ ts[t].msg # d.pending
                            /\ \A i \in DOMAIN d.queue : ts[t].msg # d.queue[i]
    BY <1>2, <1>3, <2>1
  <2> QED BY <1>2, <1>3, <2>1, <2>2, <2>3, <2>4, <2>5 DEF OnePlace
<1>6. EndIsCurrent(c, ts) => EndIsCurrent(d, ts)
  BY <1>2 DEF EndIsCurrent
<1>7. Accounted(c, ts, n, g) /\ c.pending = 0 => Accounted(d, ts, n, g)
  <2> SUFFICES ASSUME Accounted(c, ts, n, g), c.pending = 0, NEW m \in 1..n
               PROVE  \/ m = d.pending \/ \E i \in DOMAIN d.queue : m = d.queue[i]
                      \/ \E t \in DOMAIN ts : ts[t].msg = m
                      \/ m \in g.steered \/ m \in g.given
    BY DEF Accounted
  <2>1. CASE \E i \in DOMAIN c.queue : m = c.queue[i]
    <3>1. PICK i \in DOMAIN c.queue : m = c.queue[i]
      BY <2>1
    <3>2. CASE i = 1
      BY <1>2, <3>1, <3>2
    <3>3. CASE i - 1 \in DOMAIN d.queue /\ d.queue[i - 1] = c.queue[i]
      BY <3>1, <3>3
    <3> QED BY <1>3, <3>2, <3>3
  <2> QED BY <2>1 DEF Accounted
<1>8. ByAge(c, ts) => ByAge(d, ts)
  <2> SUFFICES ASSUME ByAge(c, ts)
               PROVE  ByAge(d, ts)
    OBVIOUS
  <2>1. \A i, j \in DOMAIN c.queue : i < j => c.queue[i] < c.queue[j]
    BY DEF ByAge
  <2>2. \A i, j \in DOMAIN d.queue : i < j => d.queue[i] < d.queue[j]
    BY <1>3, <2>1
  <2>3. \A i \in DOMAIN d.queue : d.pending < d.queue[i]
    BY <1>2, <1>3, <2>1
  <2>4. \A t \in DOMAIN ts : /\ ts[t].msg < d.pending
                            /\ \A i \in DOMAIN d.queue : ts[t].msg < d.queue[i]
    BY <1>2, <1>3 DEF ByAge
  <2> QED BY <2>2, <2>3, <2>4 DEF ByAge
<1> QED BY <1>2, <1>4, <1>5, <1>6, <1>7, <1>8 DEF d

-----------------------------------------------------------------------------
(* The steps.                                                              *)

\* A step that changes one turn and leaves the messages where they are.
LEMMA OneTurnChanges ==
  ASSUME IInv, NEW t \in DOMAIN turns, NEW x \in Turn,
         turns' = [turns EXCEPT ![t] = x],
         x.msg = turns[t].msg, x.pc \in AtWork => turns[t].pc \in AtWork,
         "lost" \notin hit' =>
           (x.pc = "complete" => turns[t].pc \in AtWork \cup {"complete"}),
         cp' \in ControlPlane, cp'.pending = cp.pending, cp'.queue = cp.queue,
         cp'.cur = cp.cur, (cp'.starting = TRUE => cp.starting = TRUE),
         cp'.status = "RUNNING" => cp.status = "RUNNING" \/ cp.cur # 0,
         sent' = sent, gone.given \subseteq gone'.given,
         gone.steered \subseteq gone'.steered, hit \subseteq hit'
  PROVE  turns' \in Seq(Turn) /\ Books(cp', turns', sent', gone', hit')
<1>1. /\ cp \in ControlPlane /\ turns \in Seq(Turn) /\ sent \in Nat
      /\ Books(cp, turns, sent, gone, hit)
  BY DEF IInv, TypeOK
<1>2. /\ turns' \in Seq(Turn) /\ Len(turns') = Len(turns)
      /\ turns'[t] = x /\ \A u \in DOMAIN turns : u # t => turns'[u] = turns[u]
  BY <1>1, TurnChanged
<1>3. \A u \in DOMAIN turns : /\ turns'[u].msg = turns[u].msg
                              /\ turns'[u].pc \in AtWork => turns[u].pc \in AtWork
  BY <1>2
<1>4. "lost" \notin hit' => \A u \in DOMAIN turns :
        turns'[u].pc = "complete" => turns[u].pc \in AtWork \cup {"complete"}
  BY <1>2
<1>5. Alike(cp, turns, gone, hit, cp', turns', gone', hit')
  BY <1>2, <1>3, <1>4 DEF Alike
<1> QED BY <1>1, <1>2, <1>5, SameBooks

\* A step that changes no turn and leaves the messages where they are.
LEMMA NoTurnChanges ==
  ASSUME IInv, cp' \in ControlPlane, turns' = turns,
         cp'.pending = cp.pending, cp'.queue = cp.queue, cp'.cur = cp.cur,
         (cp'.starting = TRUE => cp.starting = TRUE),
         cp'.status = "RUNNING" => cp.status = "RUNNING" \/ cp.cur # 0,
         sent' = sent, gone' = gone, hit \subseteq hit'
  PROVE  Books(cp', turns', sent', gone', hit')
<1>1. /\ cp \in ControlPlane /\ turns \in Seq(Turn) /\ sent \in Nat
      /\ Books(cp, turns, sent, gone, hit)
  BY DEF IInv, TypeOK
<1>2. Alike(cp, turns, gone, hit, cp', turns', gone', hit')
  BY DEF Alike
<1> QED BY <1>1, <1>2, SameBooks

\* A new message is a steer, or the record has room for it.
Steers(steer) == steer /\ cp.status = "RUNNING" /\ cp.cur # 0
KeptBy(steer) ==
  CASE Steers(steer) -> cp
    [] ~Steers(steer) /\ ShouldQueue(cp) -> [cp EXCEPT !.queue = Append(@, sent + 1)]
    [] OTHER -> [cp EXCEPT !.pending = sent + 1]

\* A new message is booked first; then the run may go back to the desk or start a turn.
LEMMA FollowUpEffect ==
  ASSUME IInv, NEW steer \in BOOLEAN, FollowUp(steer)
  PROVE  /\ sent' = sent + 1 /\ hit' = hit /\ worker' = worker
         /\ losses' = losses /\ stops' = stops
         /\ signals' = IF Steers(steer) THEN signals \cup {[turn |-> cp.cur, msg |-> sent + 1]}
                                        ELSE signals
         /\ gone' \in Gone /\ gone'.given = gone.given
         /\ gone'.steered = gone.steered \cup (IF Steers(steer) THEN {sent + 1} ELSE {})
         /\ \/ cp' = QueueRun(KeptBy(steer)) /\ offer' = TRUE /\ turns' = turns
            \/ cp' = KeptBy(steer) /\ offer' = offer /\ turns' = turns
            \/ /\ cp' = Started(KeptBy(steer)) /\ turns' = WithTurn(turns, KeptBy(steer))
               /\ offer' = offer
         /\ KeptBy(steer) \in ControlPlane
         /\ Books(KeptBy(steer), turns, sent', gone', hit')
<1> DEFINE kept == KeptBy(steer)
<1>1. /\ cp \in ControlPlane /\ turns \in Seq(Turn) /\ sent \in Nat /\ gone \in Gone
      /\ Books(cp, turns, sent, gone, hit)
  BY DEF IInv, TypeOK, Gone
<1>2. /\ sent' = sent + 1 /\ hit' = hit /\ worker' = worker
      /\ losses' = losses /\ stops' = stops
      /\ signals' = IF Steers(steer) THEN signals \cup {[turn |-> cp.cur, msg |-> sent + 1]}
                                     ELSE signals
      /\ gone' = IF Steers(steer) THEN [gone EXCEPT !.steered = @ \cup {sent + 1}] ELSE gone
  BY DEF FollowUp, Steers
<1>3. \/ cp' = QueueRun(kept) /\ offer' = TRUE /\ turns' = turns
      \/ cp' = kept /\ offer' = offer /\ turns' = turns
      \/ cp' = Started(kept) /\ turns' = WithTurn(turns, kept) /\ offer' = offer
  BY DEF FollowUp, KeptBy, Steers
<1>4. /\ gone' \in Gone /\ gone'.given = gone.given
      /\ gone'.steered = gone.steered \cup (IF Steers(steer) THEN {sent + 1} ELSE {})
  BY <1>1, <1>2 DEF Gone
<1>5. kept \in ControlPlane /\ Books(kept, turns, sent', gone', hit')
  <2>1. CASE Steers(steer)
    <3>1. kept = cp
      BY <2>1 DEF KeptBy
    <3>2. gone'.steered = gone.steered \cup {sent + 1}
      BY <1>4, <2>1
    <3> HIDE DEF kept
    <3> QED BY <1>1, <1>2, <1>4, <3>1, <3>2, SteerMessage
  <2>2. CASE ~Steers(steer) /\ ShouldQueue(cp)
    <3>1. kept = [cp EXCEPT !.queue = Append(@, sent + 1)]
      BY <2>2 DEF KeptBy
    <3> HIDE DEF kept
    <3> QED BY <1>1, <1>2, <2>2, <3>1, QueueMessage
  <2>3. CASE ~Steers(steer) /\ ~ShouldQueue(cp)
    <3>1. kept = [cp EXCEPT !.pending = sent + 1]
      BY <2>3 DEF KeptBy
    <3> HIDE DEF kept
    <3> QED BY <1>1, <1>2, <2>3, <3>1, PendMessage
  <2> QED BY <2>1, <2>2, <2>3
<1> QED BY <1>2, <1>3, <1>4, <1>5

\* A new message keeps the invariant, whether it waits, is queued, steers or starts.
LEMMA FollowUpKeeps ==
  ASSUME IInv, NEW steer \in BOOLEAN, FollowUp(steer)
  PROVE  IInv'
<1> DEFINE kept == KeptBy(steer)
<1>1. /\ cp \in ControlPlane /\ turns \in Seq(Turn) /\ sent \in Nat
  BY DEF IInv, TypeOK
<1>2. /\ sent' = sent + 1 /\ hit' = hit /\ worker' = worker
      /\ losses' = losses /\ stops' = stops /\ gone' \in Gone
      /\ signals' = IF Steers(steer) THEN signals \cup {[turn |-> cp.cur, msg |-> sent + 1]}
                                     ELSE signals
  BY FollowUpEffect
<1>3. \/ cp' = QueueRun(kept) /\ offer' = TRUE /\ turns' = turns
      \/ cp' = kept /\ offer' = offer /\ turns' = turns
      \/ cp' = Started(kept) /\ turns' = WithTurn(turns, kept) /\ offer' = offer
  BY FollowUpEffect
<1>5. kept \in ControlPlane /\ Books(kept, turns, sent', gone', hit')
  BY FollowUpEffect
<1>6. signals' \subseteq Signal
  BY <1>1, <1>2 DEF IInv, TypeOK, Signal, ControlPlane
<1> HIDE DEF kept
<1>7. /\ cp' \in ControlPlane /\ turns' \in Seq(Turn) /\ offer' \in BOOLEAN
      /\ Books(cp', turns', sent', gone', hit')
  <2>1. CASE cp' = QueueRun(kept) /\ offer' = TRUE /\ turns' = turns
    <3>1. /\ QueueRun(kept) \in ControlPlane
          /\ QueueRun(kept).pending = kept.pending
          /\ QueueRun(kept).queue = kept.queue /\ QueueRun(kept).cur = kept.cur
          /\ QueueRun(kept).starting = kept.starting
          /\ QueueRun(kept).status = "NOT_YET_STARTED"
      BY <1>5 DEF QueueRun, Detached, ControlPlane
    <3>2. sent' \in Nat
      BY <1>1, <1>2
    <3>3. Alike(kept, turns, gone', hit', QueueRun(kept), turns, gone', hit')
      BY <3>1 DEF Alike
    <3>4. Books(QueueRun(kept), turns, sent', gone', hit')
      BY <1>1, <1>5, <3>1, <3>2, <3>3, SameBooks
    <3> QED BY <1>1, <2>1, <3>1, <3>4
  <2>2. CASE cp' = kept /\ offer' = offer /\ turns' = turns
    BY <1>1, <1>5, <2>2 DEF IInv, TypeOK
  <2>3. CASE cp' = Started(kept) /\ turns' = WithTurn(turns, kept) /\ offer' = offer
    <3>1. /\ WorkIsCurrent(kept, turns) /\ OnePlace(kept, turns, sent')
          /\ "lost" \notin hit' =>
               EndIsCurrent(kept, turns) /\ Accounted(kept, turns, sent', gone')
          /\ hit' \cap Disorder = {} => /\ BusyIsClear(kept) /\ ByAge(kept, turns)
                                       /\ AttendedSoon(kept, turns)
      BY <1>5 DEF Books, Attended, AttendedSoon
    <3>2. sent' \in Nat /\ Len(turns) \in Nat
      BY <1>1, <1>2
    <3>3. Books(cp', turns', sent', gone', hit')
      BY <1>1, <1>5, <2>3, <3>1, <3>2, StartedBooks
    <3> QED BY <1>1, <1>5, <2>3, <3>2, <3>3, StartedType, WithTurnType DEF IInv, TypeOK
  <2> QED BY <1>3, <2>1, <2>2, <2>3
<1> QED BY <1>2, <1>6, <1>7 DEF IInv, TypeOK, Gone

\* A claim keeps it, also of a run that is claimed already or has nothing to start.
LEMMA ClaimKeeps ==
  ASSUME IInv, Claim
  PROVE  IInv'
<1> DEFINE c == [cp EXCEPT !.status = "RUNNING", !.handle = TRUE, !.beat = TRUE]
<1>1. /\ cp \in ControlPlane /\ turns \in Seq(Turn) /\ sent \in Nat
      /\ Books(cp, turns, sent, gone, hit) /\ Len(turns) \in Nat
  BY DEF IInv, TypeOK
<1>2. /\ cp' = Started(c) /\ turns' = WithTurn(turns, c) /\ sent' = sent /\ gone' = gone
      /\ signals' = signals /\ losses' = losses /\ stops' = stops
      /\ worker' = "up" /\ offer' \in BOOLEAN
      /\ hit' = hit \cup (IF c.pending = 0 /\ c.cur = 0 THEN {"idleClaim"} ELSE {})
  BY DEF Claim
<1>3. /\ c \in ControlPlane /\ c.pending = cp.pending /\ c.queue = cp.queue
      /\ c.cur = cp.cur /\ c.starting = cp.starting /\ c.status = "RUNNING"
  BY <1>1 DEF ControlPlane
<1> HIDE DEF c
<1>4. WorkIsCurrent(c, turns) /\ OnePlace(c, turns, sent)
  BY <1>1, <1>3 DEF Books, WorkIsCurrent, OnePlace
<1>5. "lost" \notin hit' => EndIsCurrent(c, turns) /\ Accounted(c, turns, sent, gone)
  BY <1>1, <1>2, <1>3 DEF Books, EndIsCurrent, Accounted
<1>6. hit' \cap Disorder = {} =>
        BusyIsClear(c) /\ ByAge(c, turns) /\ AttendedSoon(c, turns)
  <2> SUFFICES ASSUME hit' \cap Disorder = {}
               PROVE  BusyIsClear(c) /\ ByAge(c, turns) /\ AttendedSoon(c, turns)
    OBVIOUS
  <2>1. c.pending # 0 \/ c.cur # 0
    BY <1>2 DEF Disorder
  <2>2. hit \cap Disorder = {}
    BY <1>2
  <2> QED BY <1>1, <1>3, <2>1, <2>2
          DEF Books, BusyIsClear, ByAge, Attended, AttendedSoon
<1>7. Books(cp', turns', sent', gone', hit')
  BY <1>1, <1>2, <1>3, <1>4, <1>5, <1>6, StartedBooks
<1>8. hit' \subseteq Mishaps
  BY <1>2 DEF IInv, TypeOK, Mishaps
<1> QED BY <1>1, <1>2, <1>3, <1>7, <1>8, StartedType, WithTurnType DEF IInv, TypeOK

\* A worker that left keeps it, whether the run fails, is offered again or goes idle.
LEMMA ReleaseKeeps ==
  ASSUME IInv, Release
  PROVE  IInv'
<1> DEFINE c == Detached(cp)
           idle == IF c.status = "RUNNING" /\ ~HasPending(c)
                     THEN [c EXCEPT !.status = "IDLE"] ELSE c
<1>1. /\ cp \in ControlPlane /\ turns \in Seq(Turn) /\ sent \in Nat /\ gone \in Gone
      /\ Books(cp, turns, sent, gone, hit)
  BY DEF IInv, TypeOK, Gone
<1>2. /\ turns' = turns /\ signals' = signals /\ sent' = sent
      /\ losses' = losses /\ stops' = stops /\ worker' = "none"
  BY DEF Release
<1>3. /\ c \in ControlPlane /\ c.pending = cp.pending /\ c.queue = cp.queue
      /\ c.cur = cp.cur /\ c.starting = cp.starting /\ c.status = cp.status
  BY <1>1 DEF Detached, ControlPlane
<1> HIDE DEF c
<1>4. CASE cp' = Failed(c) /\ gone' = GivenUp(c) /\ hit' = hit \cup {"failed"}
           /\ offer' = offer
  <2>1. /\ gone' \in Gone
        /\ gone'.given = gone.given \cup ({c.pending} \ {0})
        /\ gone'.steered = gone.steered
    BY <1>1, <1>3, <1>4 DEF GivenUp, Gone, ControlPlane
  <2>2. /\ WorkIsCurrent(c, turns) /\ OnePlace(c, turns, sent)
        /\ "lost" \notin hit => EndIsCurrent(c, turns) /\ Accounted(c, turns, sent, gone)
    BY <1>1, <1>3 DEF Books, WorkIsCurrent, OnePlace, EndIsCurrent, Accounted
  <2>a. hit \subseteq hit' /\ "failed" \in hit'
    BY <1>4
  <2>3. cp' \in ControlPlane /\ Books(cp', turns', sent', gone', hit')
    <3>1. Failed(c) \in ControlPlane /\ Books(Failed(c), turns, sent, gone', hit')
      BY <1>1, <1>3, <2>1, <2>2, <2>a, FailedBooks
    <3> QED BY <1>2, <1>4, <3>1
  <2>4. hit' \subseteq Mishaps
    BY <1>4 DEF IInv, TypeOK, Mishaps
  <2> QED BY <1>1, <1>2, <1>4, <2>1, <2>3, <2>4 DEF IInv, TypeOK, Gone
<1>5. CASE /\ cp' = IF HasPending(c) THEN QueueRun(idle) ELSE idle
           /\ offer' = (offer \/ HasPending(c)) /\ gone' = gone /\ hit' = hit
  <2>1. /\ cp' \in ControlPlane /\ cp'.pending = cp.pending /\ cp'.queue = cp.queue
        /\ cp'.cur = cp.cur /\ cp'.starting = cp.starting
        /\ cp'.status = "RUNNING" => cp.status = "RUNNING"
    <3>1. /\ idle \in ControlPlane /\ idle.pending = c.pending /\ idle.queue = c.queue
          /\ idle.cur = c.cur /\ idle.starting = c.starting
          /\ idle.status = "RUNNING" => c.status = "RUNNING"
      BY <1>3 DEF ControlPlane
    <3> HIDE DEF idle
    <3>2. /\ QueueRun(idle) \in ControlPlane
          /\ QueueRun(idle).pending = idle.pending /\ QueueRun(idle).queue = idle.queue
          /\ QueueRun(idle).cur = idle.cur /\ QueueRun(idle).starting = idle.starting
          /\ QueueRun(idle).status = "NOT_YET_STARTED"
      BY <3>1 DEF QueueRun, Detached, ControlPlane
    <3> QED BY <1>3, <1>5, <3>1, <3>2
  <2>2. Books(cp', turns', sent', gone', hit')
    BY <1>2, <1>5, <2>1, NoTurnChanges
  <2>3. offer' \in BOOLEAN
    BY <1>5 DEF IInv, TypeOK
  <2> QED BY <1>1, <1>2, <1>5, <2>1, <2>2, <2>3 DEF IInv, TypeOK
<1>6. \/ cp' = Failed(c) /\ gone' = GivenUp(c) /\ hit' = hit \cup {"failed"}
         /\ offer' = offer
      \/ /\ cp' = IF HasPending(c) THEN QueueRun(idle) ELSE idle
         /\ offer' = (offer \/ HasPending(c)) /\ gone' = gone /\ hit' = hit
  BY DEF Release, c
<1> QED BY <1>4, <1>5, <1>6

DeskOnly ==
  Abort \/ Reject \/ Poll \/ WorkerExits \/ HeartbeatAges \/ Expire \/ PostReturns

\* What the steps of the user and the desk do that touch no turn.
LEMMA DeskEffect ==
  ASSUME IInv, DeskOnly
  PROVE  /\ turns' = turns /\ sent' = sent /\ gone' = gone /\ losses' = losses
         /\ cp' \in ControlPlane /\ cp'.pending = cp.pending /\ cp'.queue = cp.queue
         /\ cp'.cur = cp.cur /\ (cp'.starting = TRUE => cp.starting = TRUE)
         /\ cp'.status = "RUNNING" => cp.status = "RUNNING"
         /\ hit \subseteq hit' /\ hit' \subseteq Mishaps
<1> USE DEF DeskOnly
<1>1. /\ cp \in ControlPlane /\ turns \in Seq(Turn) /\ sent \in Nat
      /\ signals \subseteq Signal /\ offer \in BOOLEAN
      /\ worker \in {"none", "up", "stopping", "exited", "crashed"}
      /\ gone \in [given : SUBSET Nat, steered : SUBSET Nat, missed : SUBSET Nat]
      /\ hit \subseteq Mishaps /\ losses \in Nat /\ stops \in Nat
  BY DEF IInv, TypeOK
<1>2. turns' = turns /\ sent' = sent /\ gone' = gone /\ losses' = losses
  BY DEF Abort, Reject, Poll, WorkerExits, HeartbeatAges, Expire, PostReturns
<1>3. /\ cp' \in ControlPlane /\ cp'.pending = cp.pending /\ cp'.queue = cp.queue
      /\ cp'.cur = cp.cur /\ (cp'.starting = TRUE => cp.starting = TRUE)
      /\ cp'.status = "RUNNING" => cp.status = "RUNNING"
  <2>1. CASE Abort
    BY <1>1, <2>1 DEF Abort, ControlPlane
  <2>2. CASE Reject
    BY <1>1, <2>2 DEF Reject, ControlPlane
  <2>3. CASE Poll
    BY <1>1, <2>3 DEF Poll, ControlPlane
  <2>4. CASE WorkerExits
    BY <1>1, <2>4 DEF WorkerExits
  <2>5. CASE HeartbeatAges
    BY <1>1, <2>5 DEF HeartbeatAges, ControlPlane
  <2>6. CASE Expire
    BY <1>1, <2>6 DEF Expire, QueueRun, Detached, ControlPlane
  <2>7. CASE PostReturns
    BY <1>1, <2>7 DEF PostReturns, ControlPlane
  <2> QED BY <2>1, <2>2, <2>3, <2>4, <2>5, <2>6, <2>7
<1>4. hit \subseteq hit' /\ hit' \subseteq Mishaps
  BY <1>1 DEF Mishaps, Abort, Reject, Poll, WorkerExits, HeartbeatAges, Expire, PostReturns
<1> QED BY <1>2, <1>3, <1>4

\* They keep the invariant.
LEMMA DeskKeeps ==
  ASSUME IInv, DeskOnly
  PROVE  IInv'
<1>1. /\ cp \in ControlPlane /\ turns \in Seq(Turn) /\ sent \in Nat
      /\ signals \subseteq Signal /\ offer \in BOOLEAN
      /\ worker \in {"none", "up", "stopping", "exited", "crashed"}
      /\ gone \in [given : SUBSET Nat, steered : SUBSET Nat, missed : SUBSET Nat]
      /\ hit \subseteq Mishaps /\ losses \in Nat /\ stops \in Nat
  BY DEF IInv, TypeOK
<1>2. /\ turns' = turns /\ sent' = sent /\ gone' = gone /\ losses' = losses
      /\ cp' \in ControlPlane /\ cp'.pending = cp.pending /\ cp'.queue = cp.queue
      /\ cp'.cur = cp.cur /\ (cp'.starting = TRUE => cp.starting = TRUE)
      /\ cp'.status = "RUNNING" => cp.status = "RUNNING"
      /\ hit \subseteq hit' /\ hit' \subseteq Mishaps
  BY DeskEffect
<1> USE DEF DeskOnly
<1>5. signals' \subseteq Signal /\ stops' \in Nat
  <2>1. CASE Abort
    <3>1. [turn |-> cp.cur, msg |-> 0] \in Signal
      BY <1>1 DEF Signal, ControlPlane
    <3> QED BY <1>1, <2>1, <3>1 DEF Abort
  <2>2. CASE ~Abort
    BY <1>1, <2>2 DEF Reject, Poll, WorkerExits, HeartbeatAges, Expire, PostReturns
  <2> QED BY <2>1, <2>2
<1>6. /\ offer' \in BOOLEAN
      /\ worker' \in {"none", "up", "stopping", "exited", "crashed"}
  BY <1>1 DEF StopIf, Abort, Reject, Poll, WorkerExits, HeartbeatAges, Expire, PostReturns
<1>7. Books(cp', turns', sent', gone', hit')
  BY <1>2, NoTurnChanges
<1> QED BY <1>1, <1>2, <1>5, <1>6, <1>7 DEF IInv, TypeOK

TurnOnly(t) ==
  \/ Accept(t) \/ Refuse(t) \/ Ready(t) \/ NotReady(t) \/ Begin(t) \/ TakeSteer(t)
  \/ Answer(t) \/ Finish(t) \/ Cancel(t) \/ InferFails(t) \/ Answered(t)

\* What the steps of one turn up to its completion do.
LEMMA TurnEffect ==
  ASSUME IInv, NEW t \in DOMAIN turns, TurnOnly(t)
  PROVE  /\ signals' = signals /\ worker' = worker /\ offer' = offer /\ sent' = sent
         /\ losses' = losses /\ stops' = stops
         /\ \E x \in Turn :
              /\ turns' = [turns EXCEPT ![t] = x] /\ x.msg = turns[t].msg
              /\ x.pc \in AtWork => turns[t].pc \in AtWork
              /\ x.pc = "complete" => turns[t].pc \in AtWork
         /\ cp' \in ControlPlane /\ cp'.pending = cp.pending /\ cp'.queue = cp.queue
         /\ cp'.cur = cp.cur /\ (cp'.starting = TRUE => cp.starting = TRUE)
         /\ cp'.status = "RUNNING" => cp.status = "RUNNING" \/ cp.cur # 0
         /\ hit \subseteq hit' /\ hit' \subseteq Mishaps
         /\ gone' \in [given : SUBSET Nat, steered : SUBSET Nat, missed : SUBSET Nat]
         /\ gone'.given = gone.given /\ gone'.steered = gone.steered
<1> USE DEF TurnOnly
<1>1. /\ cp \in ControlPlane /\ turns \in Seq(Turn) /\ sent \in Nat
      /\ signals \subseteq Signal /\ offer \in BOOLEAN
      /\ worker \in {"none", "up", "stopping", "exited", "crashed"}
      /\ gone \in [given : SUBSET Nat, steered : SUBSET Nat, missed : SUBSET Nat]
      /\ hit \subseteq Mishaps /\ losses \in Nat /\ stops \in Nat
      /\ turns[t] \in Turn /\ WorkIsCurrent(cp, turns) /\ t # 0
  BY DEF IInv, TypeOK, Books
<1>2. /\ signals' = signals /\ worker' = worker /\ offer' = offer /\ sent' = sent
      /\ losses' = losses /\ stops' = stops
  BY DEF Accept, Refuse, Ready, NotReady, Begin, TakeSteer, Answer, Finish, Cancel,
         InferFails, Answered
<1>3. PICK x \in Turn :
        /\ turns' = [turns EXCEPT ![t] = x] /\ x.msg = turns[t].msg
        /\ x.pc \in AtWork => turns[t].pc \in AtWork
        /\ x.pc = "complete" => turns[t].pc \in AtWork
  <2>1. CASE Accept(t)
    <3>1. [turns[t] EXCEPT !.pc = "ensure"] \in Turn
      BY <1>1 DEF Turn
    <3> QED BY <1>1, <2>1, <3>1 DEF Accept, AtWork, Turn
  <2>2. CASE Refuse(t)
    <3>1. turns[t].msg \in Nat \ {0}
      BY <1>1 DEF Turn
    <3>2. /\ Unstarted(turns[t].msg, "refused") \in Turn
          /\ Unstarted(turns[t].msg, "refused").msg = turns[t].msg
          /\ Unstarted(turns[t].msg, "refused").pc = "refused"
      BY <3>1, UnstartedType
    <3> QED BY <2>2, <3>2 DEF Refuse, AtWork
  <2>3. CASE Ready(t)
    <3>1. [turns[t] EXCEPT !.pc = "start"] \in Turn
      BY <1>1 DEF Turn
    <3> QED BY <1>1, <2>3, <3>1 DEF Ready, AtWork, Turn
  <2>4. CASE Begin(t)
    <3>1. [turns[t] EXCEPT !.pc = "infer"] \in Turn
      BY <1>1 DEF Turn
    <3> QED BY <1>1, <2>4, <3>1 DEF Begin, AtWork, Turn
  <2>5. CASE TakeSteer(t)
    <3>1. Tail(turns[t].steers) \in Seq(Nat)
      BY <1>1, <2>5 DEF TakeSteer, Turn
    <3>2. [turns[t] EXCEPT !.steers = Tail(turns[t].steers)] \in Turn
      BY <1>1, <3>1 DEF Turn
    <3> QED BY <1>1, <2>5, <3>2 DEF TakeSteer, AtWork, Turn
  <2>6. CASE Answer(t)
    <3>1. [turns[t] EXCEPT !.pc = "final"] \in Turn
      BY <1>1 DEF Turn
    <3> QED BY <1>1, <2>6, <3>1 DEF Answer, AtWork, Turn
  <2>7. CASE Answered(t)
    <3>0. <<>> \in Seq(Nat)
      OBVIOUS
    <3>1. [turns[t] EXCEPT !.pc = "done", !.steers = <<>>] \in Turn
      BY <1>1, <3>0 DEF Turn
    <3> QED BY <1>1, <2>7, <3>1 DEF Answered, AtWork, Turn
  <2>8. CASE NotReady(t) \/ Finish(t) \/ Cancel(t) \/ InferFails(t)
    <3>1. PICK end \in {"idle", "cancelled", "error"}, last \in BOOLEAN : Ended(t, end, last)
      BY <2>8 DEF NotReady, Finish, Cancel, InferFails
    <3>2. turns[t].pc \in AtWork
      BY <2>8 DEF NotReady, Finish, Cancel, InferFails, AtWork
    <3> DEFINE x == [turns[t] EXCEPT !.pc = "complete", !.end = end, !.last = last]
    <3>3. x \in Turn /\ x.msg = turns[t].msg
      BY <1>1 DEF Turn
    <3>4. turns' = [turns EXCEPT ![t] = x]
      BY <3>1 DEF Ended
    <3> HIDE DEF x
    <3> QED BY <3>2, <3>3, <3>4
  <2> QED BY <2>1, <2>2, <2>3, <2>4, <2>5, <2>6, <2>7, <2>8
<1>4. /\ cp' \in ControlPlane /\ cp'.pending = cp.pending /\ cp'.queue = cp.queue
      /\ cp'.cur = cp.cur /\ (cp'.starting = TRUE => cp.starting = TRUE)
      /\ cp'.status = "RUNNING" => cp.status = "RUNNING" \/ cp.cur # 0
  <2>1. CASE cp' = cp
    BY <1>1, <2>1
  <2>2. CASE cp' = [cp EXCEPT !.beat = TRUE]
    BY <1>1, <2>2 DEF ControlPlane
  <2>3. CASE Refuse(t)
    BY <1>1, <2>3 DEF Refuse, ControlPlane
  <2>4. CASE Begin(t)
    <3>1. cp.cur = t
      BY <1>1, <2>4 DEF Begin, WorkIsCurrent, AtWork
    <3> QED BY <1>1, <2>4, <3>1 DEF Begin, ControlPlane
  <2> QED BY <2>1, <2>2, <2>3, <2>4
          DEF Accept, Ready, NotReady, TakeSteer, Answer, Finish, Cancel, InferFails,
              Answered, EventsIngested
<1>5. hit \subseteq hit' /\ hit' \subseteq Mishaps
  BY <1>1 DEF Mishaps, Accept, Refuse, Ready, NotReady, Begin, TakeSteer, Answer, Finish,
              Cancel, InferFails, Answered
<1>6. /\ gone' \in [given : SUBSET Nat, steered : SUBSET Nat, missed : SUBSET Nat]
      /\ gone'.given = gone.given /\ gone'.steered = gone.steered
  <2>1. CASE gone' = gone
    BY <1>1, <2>1
  <2>2. CASE Answered(t)
    <3>1. ToSet(turns[t].steers) \subseteq Nat
      BY <1>1 DEF Turn, ToSet
    <3> QED BY <1>1, <2>2, <3>1 DEF Answered
  <2> QED BY <2>1, <2>2 DEF Accept, Refuse, Ready, NotReady, Begin, TakeSteer, Answer,
                            Finish, Cancel, InferFails
<1> QED BY <1>2, <1>3, <1>4, <1>5, <1>6

\* They keep the invariant.
LEMMA TurnKeeps ==
  ASSUME IInv, NEW t \in DOMAIN turns, TurnOnly(t)
  PROVE  IInv'
<1>1. /\ signals' = signals /\ worker' = worker /\ offer' = offer /\ sent' = sent
      /\ losses' = losses /\ stops' = stops
      /\ cp' \in ControlPlane /\ cp'.pending = cp.pending /\ cp'.queue = cp.queue
      /\ cp'.cur = cp.cur /\ (cp'.starting = TRUE => cp.starting = TRUE)
      /\ cp'.status = "RUNNING" => cp.status = "RUNNING" \/ cp.cur # 0
      /\ hit \subseteq hit' /\ hit' \subseteq Mishaps
      /\ gone' \in [given : SUBSET Nat, steered : SUBSET Nat, missed : SUBSET Nat]
      /\ gone'.given = gone.given /\ gone'.steered = gone.steered
  BY TurnEffect
<1>2. PICK x \in Turn :
        /\ turns' = [turns EXCEPT ![t] = x] /\ x.msg = turns[t].msg
        /\ x.pc \in AtWork => turns[t].pc \in AtWork
        /\ x.pc = "complete" => turns[t].pc \in AtWork
  BY TurnEffect
<1>3. turns' \in Seq(Turn) /\ Books(cp', turns', sent', gone', hit')
  BY <1>1, <1>2, OneTurnChanges
<1> QED BY <1>1, <1>3 DEF IInv, TypeOK

\* A steer or an abort arrives.
LEMMA SignalKeeps ==
  ASSUME IInv, NEW s \in signals, DeliverSignal(s)
  PROVE  IInv'
<1>1. /\ cp \in ControlPlane /\ turns \in Seq(Turn) /\ sent \in Nat
      /\ signals \subseteq Signal
      /\ gone \in [given : SUBSET Nat, steered : SUBSET Nat, missed : SUBSET Nat]
      /\ s.msg \in Nat
  BY DEF IInv, TypeOK, Signal
<1>2. /\ cp' = cp /\ worker' = worker /\ offer' = offer /\ sent' = sent /\ hit' = hit
      /\ losses' = losses /\ stops' = stops /\ signals' = signals \ {s}
  BY DEF DeliverSignal
<1>3. CASE ~Registered(s.turn)
  <2>1. turns' = turns /\ gone' = [gone EXCEPT !.missed = @ \cup ({s.msg} \ {0})]
    BY <1>3 DEF DeliverSignal
  <2>2. /\ gone' \in [given : SUBSET Nat, steered : SUBSET Nat, missed : SUBSET Nat]
        /\ gone'.given = gone.given /\ gone'.steered = gone.steered
    BY <1>1, <2>1
  <2>3. Accounted(cp, turns, sent, gone) => Accounted(cp, turns, sent, gone')
    BY <2>2 DEF Accounted
  <2>4. Books(cp, turns, sent, gone, hit)
    BY DEF IInv
  <2>5. Books(cp, turns, sent, gone', hit)
    BY <2>3, <2>4 DEF Books
  <2> QED BY <1>1, <1>2, <2>1, <2>2, <2>5 DEF IInv, TypeOK
<1>4. CASE Registered(s.turn)
  <2> DEFINE t == s.turn
             x == Signalled(turns[t], s.msg)
  <2>1. turns' = [turns EXCEPT ![t] = x] /\ gone' = gone
    BY <1>4 DEF DeliverSignal
  <2>b. t \in DOMAIN turns
    BY <1>4 DEF Registered
  <2>2. x \in Turn /\ x.msg = turns[t].msg /\ x.pc = turns[t].pc
    <3>1. turns[t] \in Turn
      BY <1>1, <2>b
    <3>2. Append(turns[t].steers, s.msg) \in Seq(Nat)
      BY <1>1, <3>1 DEF Turn
    <3> QED BY <3>1, <3>2 DEF Turn, Signalled
  <2> HIDE DEF x
  <2>3. turns' \in Seq(Turn) /\ Books(cp', turns', sent', gone', hit')
    BY <1>1, <1>2, <2>b, <2>1, <2>2, OneTurnChanges
  <2> QED BY <1>1, <1>2, <2>1, <2>3 DEF IInv, TypeOK
<1> QED BY <1>3, <1>4

\* A lost turn-complete, or one whose reply is lost.
LEMMA LoseKeeps ==
  ASSUME IInv, NEW t \in DOMAIN turns, Lose(t)
  PROVE  IInv'
<1>1. /\ cp \in ControlPlane /\ turns \in Seq(Turn) /\ sent \in Nat /\ losses \in Nat
      /\ hit \subseteq Mishaps /\ turns[t] \in Turn
      /\ Books(cp, turns, sent, gone, hit)
  BY DEF IInv, TypeOK
<1>2. /\ signals' = signals /\ worker' = worker /\ offer' = offer /\ sent' = sent
      /\ gone' = gone /\ stops' = stops /\ losses' = losses + 1
      /\ hit' = hit \cup {"lost"} /\ hit' \subseteq Mishaps
  BY <1>1 DEF Lose, Mishaps
<1>3. CASE turns[t].last
  <2>1. cp' = cp
    BY <1>3 DEF Lose
  <2>2. turns' = [u \in DOMAIN turns |->
          IF Registered(u) THEN Unstarted(turns[u].msg, "dead") ELSE turns[u]]
    BY <1>3 DEF Lose
  <2>3. \A u \in DOMAIN turns : /\ turns[u] \in Turn
                                /\ Unstarted(turns[u].msg, "dead") \in Turn
                                /\ Unstarted(turns[u].msg, "dead").msg = turns[u].msg
                                /\ Unstarted(turns[u].msg, "dead").pc = "dead"
    <3> SUFFICES ASSUME NEW u \in DOMAIN turns
                 PROVE  /\ turns[u] \in Turn
                        /\ Unstarted(turns[u].msg, "dead") \in Turn
                        /\ Unstarted(turns[u].msg, "dead").msg = turns[u].msg
                        /\ Unstarted(turns[u].msg, "dead").pc = "dead"
      OBVIOUS
    <3>1. turns[u] \in Turn
      BY <1>1
    <3>2. turns[u].msg \in Nat \ {0}
      BY <3>1 DEF Turn
    <3> QED BY <3>1, <3>2, UnstartedType
  <2>4. \A u \in DOMAIN turns :
          /\ turns'[u] \in Turn /\ turns'[u].msg = turns[u].msg
          /\ turns'[u].pc \in AtWork => turns[u].pc \in AtWork
    BY <2>2, <2>3 DEF AtWork
  <2>5. turns' \in Seq(Turn) /\ Len(turns') = Len(turns)
    BY <1>1, <2>2, <2>4
  <2>6. Alike(cp, turns, gone, hit, cp', turns', gone', hit')
    BY <1>2, <2>1, <2>4, <2>5 DEF Alike
  <2>7. Books(cp', turns', sent', gone', hit')
    BY <1>1, <1>2, <2>1, <2>5, <2>6, SameBooks
  <2> QED BY <1>1, <1>2, <2>1, <2>5, <2>7 DEF IInv, TypeOK
<1>4. CASE ~turns[t].last
  <2>1. PICK end \in {"cancelled", "error"} : Ended(t, end, TRUE)
    BY <1>4 DEF Lose
  <2> DEFINE x == [turns[t] EXCEPT !.pc = "complete", !.end = end, !.last = TRUE]
  <2>2. x \in Turn /\ x.msg = turns[t].msg /\ x.pc = "complete"
    BY <1>1 DEF Turn
  <2>3. turns' = [turns EXCEPT ![t] = x]
    BY <2>1 DEF Ended
  <2>4. /\ cp' \in ControlPlane /\ cp'.pending = cp.pending /\ cp'.queue = cp.queue
        /\ cp'.cur = cp.cur /\ cp'.starting = cp.starting /\ cp'.status = cp.status
    <3>1. cp' = cp \/ cp' = [cp EXCEPT !.beat = TRUE]
      BY <1>4 DEF Lose
    <3> QED BY <1>1, <3>1 DEF ControlPlane
  <2> HIDE DEF x
  <2>5. turns' \in Seq(Turn) /\ Books(cp', turns', sent', gone', hit')
    BY <1>2, <2>2, <2>3, <2>4, OneTurnChanges DEF AtWork
  <2> QED BY <1>1, <1>2, <2>4, <2>5 DEF IInv, TypeOK
<1> QED BY <1>3, <1>4

\* A turn-complete keeps it: of a failed turn, with nothing to do next, or with a
\* message to start.
LEMMA CompleteKeeps ==
  ASSUME IInv, NEW t \in DOMAIN turns, Complete(t)
  PROVE  IInv'
<1> DEFINE c == ApplyTurnComplete(cp, t)
           d == AgentEnd(c)
           us == [turns EXCEPT ![t].pc = "answer"]
<1>1. /\ cp \in ControlPlane /\ turns \in Seq(Turn) /\ sent \in Nat /\ gone \in Gone
      /\ hit \subseteq Mishaps /\ turns[t] \in Turn
      /\ Books(cp, turns, sent, gone, hit)
      /\ worker \in {"none", "up", "stopping", "exited", "crashed"}
  BY DEF IInv, TypeOK, Gone
<1>2. /\ signals' = signals /\ offer' = offer /\ sent' = sent
      /\ losses' = losses /\ stops' = stops /\ turns[t].pc = "complete"
      /\ hit' = hit \cup (IF turns[t].end = "error" THEN {"failed"} ELSE {})
                    \cup (IF IsEarly(t) THEN {"early"} ELSE {})
  BY DEF Complete
<1>3. /\ us \in Seq(Turn) /\ Len(us) = Len(turns) /\ us[t].msg = turns[t].msg
      /\ us[t].pc = "answer" /\ \A u \in DOMAIN turns : u # t => us[u] = turns[u]
  <2> DEFINE x == [turns[t] EXCEPT !.pc = "answer"]
  <2>1. x \in Turn /\ x.msg = turns[t].msg /\ x.pc = "answer"
    BY <1>1 DEF Turn
  <2>2. us = [turns EXCEPT ![t] = x]
    OBVIOUS
  <2> HIDE DEF x, us
  <2> QED BY <1>1, <2>1, <2>2, TurnChanged
<1>4. /\ c \in ControlPlane /\ c.pending = cp.pending /\ c.queue = cp.queue
      /\ c.starting = cp.starting /\ c.cur = ApplyTurnComplete(cp, t).cur
  BY <1>1 DEF ApplyTurnComplete, ControlPlane
<1> HIDE DEF c
<1>5. /\ d \in ControlPlane /\ d.pending = cp.pending /\ d.queue = cp.queue
      /\ d.starting = cp.starting /\ d.cur = ApplyTurnComplete(cp, t).cur
      /\ d.status # "RUNNING"
  BY <1>4 DEF AgentEnd, ControlPlane
<1>6. hit \subseteq hit' /\ hit' \subseteq Mishaps
  BY <1>1, <1>2 DEF Mishaps
<1> HIDE DEF us, d
\* The turn failed.
<1>7. CASE cp' = Failed(c) /\ gone' = GivenUp(c) /\ worker' = StopIf(c.handle)
           /\ turns' = us /\ turns[t].end = "error"
  <2>1. /\ gone' \in Gone
        /\ gone'.given = gone.given \cup ({c.pending} \ {0})
        /\ gone'.steered = gone.steered
    BY <1>1, <1>4, <1>7 DEF GivenUp, Gone, ControlPlane
  <2>2. /\ WorkIsCurrent(c, us) /\ OnePlace(c, us, sent)
        /\ "lost" \notin hit => EndIsCurrent(c, us) /\ Accounted(c, us, sent, gone)
    BY <1>1, <1>2, <1>3, <1>4, CompletedBooks
  <2>3. "failed" \in hit'
    BY <1>2, <1>7
  <2>4. Failed(c) \in ControlPlane /\ Books(Failed(c), us, sent, gone', hit')
    BY <1>1, <1>3, <1>4, <1>6, <2>1, <2>2, <2>3, FailedBooks
  <2>5. worker' \in {"none", "up", "stopping", "exited", "crashed"}
    BY <1>1, <1>7 DEF StopIf
  <2> QED BY <1>2, <1>3, <1>6, <1>7, <2>1, <2>4, <2>5 DEF IInv, TypeOK, Gone
<1>8. /\ WorkIsCurrent(d, us) /\ BusyIsClear(d) /\ OnePlace(d, us, sent)
      /\ "lost" \notin hit => /\ EndIsCurrent(d, us) /\ Accounted(d, us, sent, gone)
                             /\ d.pending = 0
      /\ hit \cap Disorder = {} =>
           /\ ByAge(d, us) /\ d.cur = 0
           /\ ~(cp.starting /\ t = Len(turns)) => ~d.starting
  BY <1>1, <1>2, <1>3, <1>5, CompletedBooks
<1>9. hit' \cap Disorder = {} => d.cur = 0 /\ ~d.starting /\ ByAge(d, us)
  <2> SUFFICES ASSUME hit' \cap Disorder = {}
               PROVE  d.cur = 0 /\ ~d.starting /\ ByAge(d, us)
    OBVIOUS
  <2>1. hit \cap Disorder = {} /\ ~IsEarly(t)
    BY <1>2 DEF Disorder
  <2> QED BY <1>8, <2>1 DEF IsEarly
\* Nothing waits.
<1>10. CASE d.queue = <<>> /\ cp' = d /\ turns' = us /\ gone' = gone /\ worker' = worker
  <2>1. hit' \cap Disorder = {} => Attended(d, us)
    BY <1>5, <1>9, <1>10 DEF Attended
  <2>2. Books(d, us, sent, gone, hit')
    BY <1>6, <1>8, <1>9, <2>1 DEF Books
  <2> QED BY <1>1, <1>2, <1>3, <1>5, <1>6, <1>10, <2>2 DEF IInv, TypeOK, Gone
\* The next message is started.
<1>11. CASE /\ d.queue # <<>> /\ cp' = Started(TakeQueued(d))
            /\ turns' = WithTurn(us, TakeQueued(d)) /\ gone' = gone /\ worker' = worker
  <2> DEFINE e == TakeQueued(d)
  <2>1. /\ e \in ControlPlane
        /\ e.cur = d.cur /\ e.starting = d.starting /\ e.status = d.status
        /\ e.pending # 0 /\ WorkIsCurrent(e, us) /\ OnePlace(e, us, sent)
        /\ EndIsCurrent(d, us) => EndIsCurrent(e, us)
        /\ Accounted(d, us, sent, gone) /\ d.pending = 0 => Accounted(e, us, sent, gone)
        /\ ByAge(d, us) => ByAge(e, us)
    BY <1>1, <1>3, <1>5, <1>8, <1>11, TakenBooks
  <2> HIDE DEF e
  <2>2. "lost" \notin hit' => EndIsCurrent(e, us) /\ Accounted(e, us, sent, gone)
    BY <1>6, <1>8, <2>1
  <2>3. hit' \cap Disorder = {} => BusyIsClear(e) /\ ByAge(e, us) /\ AttendedSoon(e, us)
    BY <1>5, <1>9, <2>1 DEF BusyIsClear, AttendedSoon
  <2>4. Books(Started(e), WithTurn(us, e), sent, gone, hit')
    BY <1>1, <1>3, <2>1, <2>2, <2>3, StartedBooks
  <2>5. Len(turns) \in Nat
    BY <1>1
  <2>6. Started(e) \in ControlPlane /\ WithTurn(us, e) \in Seq(Turn)
    BY <1>3, <2>1, <2>5, StartedType, WithTurnType
  <2> QED BY <1>1, <1>2, <1>6, <1>11, <2>4, <2>6 DEF IInv, TypeOK, Gone, e
<1>12. \/ cp' = Failed(c) /\ gone' = GivenUp(c) /\ worker' = StopIf(c.handle)
          /\ turns' = us /\ turns[t].end = "error"
       \/ d.queue = <<>> /\ cp' = d /\ turns' = us /\ gone' = gone /\ worker' = worker
       \/ /\ d.queue # <<>> /\ cp' = Started(TakeQueued(d))
          /\ turns' = WithTurn(us, TakeQueued(d)) /\ gone' = gone /\ worker' = worker
  BY DEF Complete, c, d, us
<1> QED BY <1>7, <1>10, <1>11, <1>12

-----------------------------------------------------------------------------
(* The theorems.                                                           *)

\* The books are right at the start.
LEMMA InitBooks == Init => IInv
<1> SUFFICES ASSUME Init
             PROVE  IInv
  OBVIOUS
<1>1. cp \in ControlPlane /\ TypeOK
  BY DEF Init, TypeOK, ControlPlane, Mishaps
<1>2. /\ cp.cur = 0 /\ cp.pending = 1 /\ cp.queue = <<>> /\ ~cp.starting
      /\ cp.status = "NOT_YET_STARTED" /\ turns = <<>> /\ sent = 1
  BY DEF Init
<1>3. WorkIsCurrent(cp, turns) /\ BusyIsClear(cp)
  BY <1>2 DEF WorkIsCurrent, BusyIsClear
<1>4. OnePlace(cp, turns, sent)
  BY <1>2 DEF OnePlace
<1>5. EndIsCurrent(cp, turns) /\ Accounted(cp, turns, sent, gone)
  BY <1>2 DEF EndIsCurrent, Accounted
<1>6. ByAge(cp, turns) /\ Attended(cp, turns)
  BY <1>2 DEF ByAge, Attended
<1> QED BY <1>1, <1>3, <1>4, <1>5, <1>6 DEF IInv, Books

\* Every step keeps them.
LEMMA NextKeeps == IInv /\ [Next]_vars => IInv'
<1> SUFFICES ASSUME IInv, [Next]_vars
             PROVE  IInv'
  OBVIOUS
<1>1. CASE \E steer \in BOOLEAN : FollowUp(steer)
  BY <1>1, FollowUpKeeps
<1>2. CASE DeskStep
  BY <1>2, ClaimKeeps, ReleaseKeeps, DeskKeeps DEF DeskStep, DeskOnly
<1>3. CASE Abort \/ Watch \/ PostReturns
  BY <1>3, DeskKeeps DEF Watch, DeskOnly
<1>4. CASE \E t \in DOMAIN turns : TurnStep(t) \/ Refuse(t) \/ Lose(t)
  BY <1>4, TurnKeeps, CompleteKeeps, LoseKeeps DEF TurnStep, TurnOnly
<1>5. CASE \E s \in signals : DeliverSignal(s)
  BY <1>5, SignalKeeps
<1>6. CASE UNCHANGED vars
  BY <1>6 DEF IInv, TypeOK, Books, vars
<1> QED BY <1>1, <1>2, <1>3, <1>4, <1>5, <1>6 DEF Next

\* So they are always right.
LEMMA Invariance == Spec => []IInv
BY InitBooks, NextKeeps, PTL DEF Spec

\* The types, for every bound, feature and fault.
THEOREM TypeCorrect == Spec => []TypeOK
<1>1. IInv => TypeOK
  BY DEF IInv
<1> QED BY <1>1, Invariance, PTL

\* Two turns never work at the same time: a turn at work is the current one, and a turn
\* is dispatched only when none is current.
THEOREM OneTurnOnly == Spec => []OneTurn
<1>1. IInv => OneTurn
  BY DEF IInv, Books, WorkIsCurrent, OneTurn, Working, AtWork
<1> QED BY <1>1, Invariance, PTL

\* No message is run twice, even if calls are lost or arrive late.
THEOREM EachRunsOnce == Spec => []RunsOnce
<1>1. IInv => RunsOnce
  BY DEF IInv, Books, OnePlace, RunsOnce, ToSet
<1> QED BY <1>1, Invariance, PTL

\* While no turn-complete is lost, no accepted message is overwritten.
THEOREM NoneOverwritten == Spec => []Kept
<1>1. IInv => Kept
  <2> SUFFICES ASSUME IInv, "lost" \notin hit, NEW m \in 1..sent
               PROVE  Waits(m) \/ HasTurn(m) \/ m \in gone.steered \/ m \in gone.given
    BY DEF Kept
  <2>1. Accounted(cp, turns, sent, gone)
    BY DEF IInv, Books
  <2> QED BY <2>1 DEF Accounted, Waits, HasTurn, ToSet
<1> QED BY <1>1, Invariance, PTL

\* While nothing fails, is lost or comes early, messages run in the order of sending.
THEOREM RunInOrder == Spec => []InOrder
<1>1. IInv => InOrder
  BY DEF IInv, Books, ByAge, Disorder, InOrder, Orderly
<1> QED BY <1>1, Invariance, PTL

-----------------------------------------------------------------------------
(* The ledger of the messages.  A step takes the record c, the turns ts and *)
(* the number n of messages sent to d, us and n2.                          *)

Workers(ts) == MessagesOf(ts, {t \in DOMAIN ts : ts[t].pc \in AtWork})
Enders(ts) == MessagesOf(ts, {t \in DOMAIN ts : ts[t].pc \notin AtWork})

\* Nothing moves but messages whose turn ends.
LEMMA TurnsEnd ==
  ASSUME NEW c \in ControlPlane, NEW ts \in Seq(Turn), NEW us \in Seq(Turn), NEW n \in Nat,
         OnePlace(c, ts, n), Len(us) = Len(ts),
         \A t \in DOMAIN ts : /\ us[t].msg = ts[t].msg
                              /\ us[t].pc \in AtWork => ts[t].pc \in AtWork
  PROVE  /\ Workers(us) \subseteq Workers(ts)
         /\ Enders(us) = Enders(ts) \cup (Workers(ts) \ Workers(us))
<1>1. DOMAIN us = DOMAIN ts
  OBVIOUS
<1>2. Workers(us) \subseteq Workers(ts)
  BY <1>1 DEF Workers, MessagesOf
<1>3. ASSUME NEW m \in Enders(us)
      PROVE  m \in Enders(ts) \cup (Workers(ts) \ Workers(us))
  <2>1. PICK t \in DOMAIN ts : us[t].pc \notin AtWork /\ ts[t].msg = m
    BY <1>1, <1>3 DEF Enders, MessagesOf
  <2>2. m \notin Workers(us)
    BY <1>1, <2>1 DEF Workers, MessagesOf, OnePlace
  <2> QED BY <2>1, <2>2 DEF Enders, Workers, MessagesOf
<1>4. ASSUME NEW m \in Enders(ts) \cup (Workers(ts) \ Workers(us))
      PROVE  m \in Enders(us)
  <2>1. PICK t \in DOMAIN ts : us[t].pc \notin AtWork /\ us[t].msg = m
    BY <1>1, <1>4 DEF Enders, Workers, MessagesOf
  <2> QED BY <1>1, <2>1 DEF Enders, MessagesOf
<1> QED BY <1>2, <1>3, <1>4

\* A message that has a turn does not wait.
LEMMA WorkersWaitNot ==
  ASSUME NEW c \in ControlPlane, NEW ts \in Seq(Turn), NEW n \in Nat, OnePlace(c, ts, n)
  PROVE  /\ Workers(ts) \cap WaitingOf(c) = {}
         /\ WaitingOf(c) \subseteq 1..n /\ Workers(ts) \subseteq 1..n
         /\ c.pending \notin ToSet(c.queue)
BY DEF OnePlace, Workers, MessagesOf, WaitingOf, ToSet, ControlPlane

\* A turn that startPendingLoopTurn dispatches takes the message that waits to be
\* started, when none is at work, and it is the oldest if all go by age.
LEMMA StartedMoves ==
  ASSUME NEW c \in ControlPlane, NEW ts \in Seq(Turn), NEW n \in Nat,
         turns \in Seq(Turn), Len(ts) = Len(turns),
         WorkIsCurrent(c, ts), OnePlace(c, ts, n)
  PROVE  LET d == Started(c)
             us == WithTurn(ts, c)
         IN /\ Enders(us) = Enders(ts)
            /\ \/ WaitingOf(d) = WaitingOf(c) /\ Workers(us) = Workers(ts)
               \/ /\ Workers(ts) = {} /\ c.pending \in WaitingOf(c)
                  /\ Workers(us) = {c.pending}
                  /\ WaitingOf(d) = WaitingOf(c) \ {c.pending}
                  /\ ByAge(c, ts) => \A k \in WaitingOf(d) : c.pending < k
<1> DEFINE d == Started(c)
           us == WithTurn(ts, c)
<1>q. c.queue \in Seq(Nat \ {0}) /\ c.pending \in Nat
  BY DEF ControlPlane
<1>1. CASE Dispatches(c)
  <2>1. d.pending = 0 /\ d.queue = c.queue
    BY <1>1 DEF Started, Dispatches, ControlPlane
  <2>2. /\ us \in Seq(Turn) /\ Len(us) = Len(ts) + 1
        /\ \A t \in 1..Len(ts) : us[t] = ts[t]
        /\ us[Len(ts) + 1].pc = "sent" /\ us[Len(ts) + 1].msg = c.pending
    BY <1>1, WithTurnType
  <2>3. c.cur = 0 /\ c.pending # 0
    BY <1>1 DEF Dispatches
  <2> HIDE DEF d, us
  <2>4. /\ \A t \in DOMAIN us : t \in DOMAIN ts \/ t = Len(ts) + 1
        /\ \A t \in DOMAIN ts : t \in DOMAIN us /\ us[t] = ts[t] /\ t # 0
        /\ Len(ts) + 1 \in DOMAIN us
    BY <2>2
  <2>5. \A t \in DOMAIN ts : ts[t].pc \notin AtWork
    BY <2>3, <2>4 DEF WorkIsCurrent
  <2>6. Workers(ts) = {}
    BY <2>5 DEF Workers, MessagesOf
  <2>7. Workers(us) = {c.pending}
    <3>1. {t \in DOMAIN us : us[t].pc \in AtWork} = {Len(ts) + 1}
      BY <2>2, <2>4, <2>5 DEF AtWork
    <3> QED BY <2>2, <3>1 DEF Workers, MessagesOf
  <2>8. Enders(us) = Enders(ts)
    <3>1. \A t \in DOMAIN us : us[t].pc \notin AtWork <=> t \in DOMAIN ts
      <4>1. Len(ts) + 1 \notin DOMAIN ts
        OBVIOUS
      <4> QED BY <2>2, <2>4, <2>5, <4>1 DEF AtWork
    <3>2. \A m : m \in Enders(us) <=> \E t \in DOMAIN ts : ts[t].msg = m
      BY <2>4, <3>1 DEF Enders, MessagesOf
    <3>3. \A m : m \in Enders(ts) <=> \E t \in DOMAIN ts : ts[t].msg = m
      BY <2>5 DEF Enders, MessagesOf
    <3> QED BY <3>2, <3>3
  <2>9. WaitingOf(d) = WaitingOf(c) \ {c.pending} /\ c.pending \in WaitingOf(c)
    BY <2>1, <2>3, WorkersWaitNot DEF WaitingOf
  <2>10. ByAge(c, ts) => \A k \in WaitingOf(d) : c.pending < k
    BY <2>1 DEF ByAge, WaitingOf, ToSet
  <2> QED BY <2>6, <2>7, <2>8, <2>9, <2>10 DEF d, us
<1>2. CASE ~Dispatches(c)
  <2>1. us = ts /\ (d = c \/ d = ParkPendingLoopStart(c))
    BY <1>2 DEF WithTurn, Started
  <2>2. WaitingOf(ParkPendingLoopStart(c)) = WaitingOf(c)
    <3> DEFINE e == ParkPendingLoopStart(c)
    <3>1. /\ e.pending = 0
          /\ e.queue = IF c.pending # 0 THEN Append(c.queue, c.pending) ELSE c.queue
      BY DEF ParkPendingLoopStart, ControlPlane
    <3> HIDE DEF e
    <3>2. ToSet(Append(c.queue, c.pending)) = ToSet(c.queue) \cup {c.pending}
      <4> DEFINE q == c.queue
                 r == Append(c.queue, c.pending)
      <4>1. /\ \A i \in DOMAIN r : i \in DOMAIN q \/ i = Len(q) + 1
            /\ \A i \in DOMAIN q : i \in DOMAIN r /\ r[i] = q[i]
            /\ Len(q) + 1 \in DOMAIN r /\ r[Len(q) + 1] = c.pending
        BY <1>q
      <4> HIDE DEF q, r
      <4>2. ToSet(r) = ToSet(q) \cup {c.pending}
        BY <4>1 DEF ToSet
      <4> QED BY <4>2 DEF q, r
    <3>3. WaitingOf(e) = WaitingOf(c)
      BY <3>1, <3>2 DEF WaitingOf
    <3> QED BY <3>3 DEF e
  <2> QED BY <2>1, <2>2
<1> QED BY <1>1, <1>2

\* The step moves messages as the ledger allows.
LEMMA LedgerMoves ==
  ASSUME cp \in ControlPlane, turns \in Seq(Turn), sent \in Nat,
         OnePlace(cp, turns, sent),
         cp' \in ControlPlane, turns' \in Seq(Turn),
         OnePlace(cp', turns', sent'),
         sent' \in {sent, sent + 1}, hit \subseteq hit',
         NEW new, new = (sent + 1)..sent',
         new \subseteq WaitingOf(cp') \cup Workers(turns') \cup gone'.steered,
         WaitingOf(cp') \subseteq WaitingOf(cp) \cup new,
         Workers(turns') \subseteq Workers(turns) \cup WaitingOf(cp) \cup new,
         \/ Workers(turns') \subseteq Workers(turns)
         \/ Workers(turns) = {} /\ \E m : Workers(turns') = {m},
         Enders(turns') = Enders(turns) \cup (Workers(turns) \ Workers(turns')),
         gone.steered \subseteq gone'.steered,
         gone'.steered \ gone.steered
           \subseteq new \ (WaitingOf(cp') \cup Workers(turns')),
         gone.given \subseteq gone'.given,
         gone'.given \ gone.given
           \subseteq WaitingOf(cp) \ (WaitingOf(cp') \cup Workers(turns')),
         "lost" \notin hit' =>
           WaitingOf(cp) \subseteq WaitingOf(cp') \cup Workers(turns') \cup gone'.given,
         hit' \cap Disorder = {} =>
           \A m \in Workers(turns') \ Workers(turns) : \A k \in WaitingOf(cp') : m < k
  PROVE  Ledger!LedgerNext
<1> DEFINE K == MessagesOf(turns, {t \in DOMAIN turns : Working(t)})
           O == MessagesOf(turns, {t \in DOMAIN turns : ~Working(t)})
           W == WaitingOf(cp)
<1>1. K = Workers(turns) /\ K' = Workers(turns')
  BY DEF Workers, Working, AtWork
<1>2. O = Enders(turns) /\ O' = Enders(turns')
  BY DEF Enders, Working, AtWork
<1>3. W' = WaitingOf(cp')
  BY DEF WaitingOf
<1>4. K' \cap W' = {}
  <2>1. sent' \in Nat
    OBVIOUS
  <2> QED BY <1>1, <1>3, <2>1, WorkersWaitNot
<1>5. Orderly' <=> hit' \cap Disorder = {}
  BY DEF Orderly, Disorder
<1>6. Orderly' => Orderly
  BY DEF Orderly
<1> HIDE DEF K, O, W
<1>7. Ledger!Sends
  BY <1>1, <1>3 DEF Ledger!Sends, Ledger!Fresh, K, W
<1>8. Ledger!Waits
  BY <1>1, <1>3, <1>4 DEF Ledger!Waits, Ledger!Fresh, Ledger!Steered, Ledger!Dropped, K, W
<1>9. Ledger!Starts
  <2>1. K' \ K \subseteq W \cup new
    BY <1>1 DEF W
  <2>2. K' \ K # {} => K = {}
    BY <1>1
  <2>3. \A m, k \in K' \ K : m = k
    BY <1>1
  <2> QED BY <2>1, <2>2, <2>3 DEF Ledger!Starts, Ledger!Fresh, Ledger!Begun, K, W
<1>10. Ledger!Ends
  BY <1>1, <1>2, <1>3
     DEF Ledger!Ends, Ledger!Fresh, Ledger!Steered, Ledger!Dropped, K, O, W
<1>11. "lost" \notin hit' => Ledger!Keeps
  BY <1>1, <1>3 DEF Ledger!Keeps, K, W
<1>12. Orderly' => Ledger!InOrder
  BY <1>1, <1>3, <1>5 DEF Ledger!InOrder, Ledger!Begun, K, W
<1> QED
  BY <1>6, <1>7, <1>8, <1>9, <1>10, <1>11, <1>12 DEF Ledger!LedgerNext, Orderly

\* What the books say where a step begins or ends.
LEMMA InBooks ==
  ASSUME IInv
  PROVE  /\ cp \in ControlPlane /\ turns \in Seq(Turn) /\ sent \in Nat /\ gone \in Gone
         /\ WorkIsCurrent(cp, turns) /\ OnePlace(cp, turns, sent)
         /\ hit \cap Disorder = {} => ByAge(cp, turns)
BY DEF IInv, TypeOK, Books, Gone

\* A step that leaves the messages where they are, but for a turn that may end.
LEMMA QuietMoves ==
  ASSUME IInv, IInv', cp'.pending = cp.pending, cp'.queue = cp.queue,
         Len(turns') = Len(turns),
         \A t \in DOMAIN turns : /\ turns'[t].msg = turns[t].msg
                                 /\ turns'[t].pc \in AtWork => turns[t].pc \in AtWork,
         sent' = sent, gone'.given = gone.given, gone'.steered = gone.steered,
         hit \subseteq hit'
  PROVE  Ledger!LedgerNext
<1>1. /\ cp \in ControlPlane /\ turns \in Seq(Turn) /\ sent \in Nat
      /\ OnePlace(cp, turns, sent)
  BY InBooks
<1>2. cp' \in ControlPlane /\ turns' \in Seq(Turn) /\ OnePlace(cp', turns', sent')
  BY DEF IInv, TypeOK, Books
<1>3. WaitingOf(cp') = WaitingOf(cp)
  BY DEF WaitingOf
<1>4. /\ Workers(turns') \subseteq Workers(turns)
      /\ Enders(turns') = Enders(turns) \cup (Workers(turns) \ Workers(turns'))
  BY <1>1, <1>2, TurnsEnd
<1>5. {} = (sent + 1)..sent'
  BY <1>1
<1> QED BY <1>1, <1>2, <1>3, <1>4, <1>5, LedgerMoves

\* The desk, the worker and the clock.
LEMMA DeskMoves ==
  ASSUME IInv, IInv', DeskOnly
  PROVE  Ledger!LedgerNext
<1>1. /\ turns' = turns /\ sent' = sent /\ gone' = gone /\ hit \subseteq hit'
      /\ cp'.pending = cp.pending /\ cp'.queue = cp.queue
  BY DeskEffect
<1> QED BY <1>1, QuietMoves

\* A turn up to its completion.
LEMMA TurnMoves ==
  ASSUME IInv, IInv', NEW t \in DOMAIN turns, TurnOnly(t)
  PROVE  Ledger!LedgerNext
<1>1. /\ sent' = sent /\ hit \subseteq hit'
      /\ gone'.given = gone.given /\ gone'.steered = gone.steered
      /\ cp'.pending = cp.pending /\ cp'.queue = cp.queue
  BY TurnEffect
<1>2. PICK x \in Turn : /\ turns' = [turns EXCEPT ![t] = x] /\ x.msg = turns[t].msg
                        /\ x.pc \in AtWork => turns[t].pc \in AtWork
  BY TurnEffect
<1>3. turns \in Seq(Turn)
  BY InBooks
<1>4. /\ Len(turns') = Len(turns)
      /\ turns'[t] = x /\ \A u \in DOMAIN turns : u # t => turns'[u] = turns[u]
  BY <1>2, <1>3, TurnChanged
<1>5. \A u \in DOMAIN turns : /\ turns'[u].msg = turns[u].msg
                              /\ turns'[u].pc \in AtWork => turns[u].pc \in AtWork
  BY <1>2, <1>4
<1> QED BY <1>1, <1>4, <1>5, QuietMoves

\* A steer or an abort that arrives.
LEMMA SignalMoves ==
  ASSUME IInv, IInv', NEW s \in signals, DeliverSignal(s)
  PROVE  Ledger!LedgerNext
<1>1. cp' = cp /\ sent' = sent /\ hit' = hit
  BY DEF DeliverSignal
<1>2. gone'.given = gone.given /\ gone'.steered = gone.steered
  <2>1. gone \in Gone
    BY InBooks
  <2> QED BY <2>1 DEF DeliverSignal, Gone
<1>3. /\ Len(turns') = Len(turns)
      /\ \A u \in DOMAIN turns : turns'[u].msg = turns[u].msg /\ turns'[u].pc = turns[u].pc
  <2>1. turns \in Seq(Turn)
    BY InBooks
  <2>2. CASE turns' = turns
    BY <2>2
  <2>3. CASE Registered(s.turn) /\ turns' = [turns EXCEPT ![s.turn] = Signalled(@, s.msg)]
    <3> DEFINE x == Signalled(turns[s.turn], s.msg)
    <3>1. s.turn \in DOMAIN turns /\ turns' = [turns EXCEPT ![s.turn] = x]
      BY <2>3 DEF Registered
    <3>2. turns[s.turn] \in Turn
      BY <2>1, <3>1
    <3>3. x.msg = turns[s.turn].msg /\ x.pc = turns[s.turn].pc
      BY <3>2 DEF Signalled, Turn
    <3> HIDE DEF x
    <3> QED BY <2>1, <3>1, <3>3
  <2> QED BY <2>2, <2>3 DEF DeliverSignal
<1> QED BY <1>1, <1>2, <1>3, QuietMoves

\* A lost turn-complete, and the death of neo-loop.
LEMMA LoseMoves ==
  ASSUME IInv, IInv', NEW t \in DOMAIN turns, Lose(t)
  PROVE  Ledger!LedgerNext
<1>1. /\ sent' = sent /\ gone' = gone /\ hit \subseteq hit'
      /\ turns \in Seq(Turn) /\ cp \in ControlPlane
  BY InBooks DEF Lose
<1>2. cp'.pending = cp.pending /\ cp'.queue = cp.queue
  BY <1>1 DEF Lose, ControlPlane
<1>3. /\ Len(turns') = Len(turns)
      /\ \A u \in DOMAIN turns : /\ turns'[u].msg = turns[u].msg
                                 /\ turns'[u].pc \in AtWork => turns[u].pc \in AtWork
  <2>1. CASE turns[t].last
    <3>1. turns' = [u \in DOMAIN turns |->
            IF Registered(u) THEN Unstarted(turns[u].msg, "dead") ELSE turns[u]]
      BY <2>1 DEF Lose
    <3>2. \A u \in DOMAIN turns : /\ turns'[u].msg = turns[u].msg
                                  /\ turns'[u].pc \in AtWork => turns[u].pc \in AtWork
      BY <3>1 DEF Unstarted, AtWork
    <3>3. turns' \in Seq(Turn)
      BY DEF IInv, TypeOK
    <3> QED BY <1>1, <3>1, <3>2, <3>3
  <2>2. CASE ~turns[t].last
    <3>1. PICK end : Ended(t, end, TRUE)
      BY <2>2 DEF Lose
    <3> DEFINE x == [turns[t] EXCEPT !.pc = "complete", !.end = end, !.last = TRUE]
    <3>2. turns[t] \in Turn
      BY <1>1
    <3>3. x.msg = turns[t].msg /\ x.pc = "complete"
      BY <3>2 DEF Turn
    <3>4. turns' = [turns EXCEPT ![t] = x]
      BY <3>1 DEF Ended
    <3> HIDE DEF x
    <3> QED BY <1>1, <3>3, <3>4 DEF AtWork
  <2> QED BY <2>1, <2>2
<1> QED BY <1>1, <1>2, <1>3, QuietMoves

\* A step in which a record c, which waits for what cp waits for, has a turn started.
LEMMA StartMoves ==
  ASSUME IInv, IInv', NEW c \in ControlPlane, NEW ts \in Seq(Turn), NEW new,
         Len(ts) = Len(turns), sent' \in {sent, sent + 1}, new = (sent + 1)..sent',
         WorkIsCurrent(c, ts), OnePlace(c, ts, sent'),
         cp' = Started(c), turns' = WithTurn(ts, c),
         Workers(ts) = Workers(turns), Enders(ts) = Enders(turns),
         WaitingOf(c) \subseteq WaitingOf(cp) \cup new,
         new \subseteq WaitingOf(c) \cup gone'.steered,
         "lost" \notin hit' => WaitingOf(cp) \subseteq WaitingOf(c),
         gone.steered \subseteq gone'.steered,
         gone'.steered \ gone.steered \subseteq new \ WaitingOf(c),
         gone'.given = gone.given, hit \subseteq hit',
         hit' \cap Disorder = {} => ByAge(c, ts)
  PROVE  Ledger!LedgerNext
<1>1. /\ cp \in ControlPlane /\ turns \in Seq(Turn) /\ sent \in Nat
      /\ OnePlace(cp, turns, sent)
  BY InBooks
<1>2. cp' \in ControlPlane /\ turns' \in Seq(Turn) /\ OnePlace(cp', turns', sent')
  BY DEF IInv, TypeOK, Books
<1>3. sent' \in Nat
  BY <1>1
<1>4. /\ Enders(turns') = Enders(ts)
      /\ \/ WaitingOf(cp') = WaitingOf(c) /\ Workers(turns') = Workers(ts)
         \/ /\ Workers(ts) = {} /\ c.pending \in WaitingOf(c)
            /\ Workers(turns') = {c.pending}
            /\ WaitingOf(cp') = WaitingOf(c) \ {c.pending}
            /\ ByAge(c, ts) => \A k \in WaitingOf(cp') : c.pending < k
  BY <1>1, <1>3, StartedMoves
<1>5. Workers(turns) \cap new = {}
  <2>1. Workers(turns) \subseteq 1..sent
    BY <1>1, WorkersWaitNot
  <2> QED BY <1>1, <2>1
<1>6. CASE WaitingOf(cp') = WaitingOf(c) /\ Workers(turns') = Workers(ts)
  <2>1. gone'.steered \ gone.steered \subseteq new \ (WaitingOf(cp') \cup Workers(turns'))
    BY <1>5, <1>6
  <2> QED BY <1>1, <1>2, <1>4, <1>6, <2>1, LedgerMoves
<1>7. CASE /\ Workers(ts) = {} /\ c.pending \in WaitingOf(c)
           /\ Workers(turns') = {c.pending}
           /\ WaitingOf(cp') = WaitingOf(c) \ {c.pending}
           /\ ByAge(c, ts) => \A k \in WaitingOf(cp') : c.pending < k
  <2>1. gone'.steered \ gone.steered \subseteq new \ (WaitingOf(cp') \cup Workers(turns'))
    BY <1>7
  <2>2. new \subseteq WaitingOf(cp') \cup Workers(turns') \cup gone'.steered
    BY <1>7
  <2>3. /\ WaitingOf(cp') \subseteq WaitingOf(cp) \cup new
        /\ Workers(turns') \subseteq Workers(turns) \cup WaitingOf(cp) \cup new
        /\ Workers(turns) = {} /\ \E m : Workers(turns') = {m}
        /\ Enders(turns') = Enders(turns) \cup (Workers(turns) \ Workers(turns'))
    BY <1>4, <1>7
  <2>4. "lost" \notin hit' => WaitingOf(cp) \subseteq WaitingOf(cp') \cup Workers(turns')
    BY <1>7
  <2>5. hit' \cap Disorder = {} =>
          \A m \in Workers(turns') \ Workers(turns) : \A k \in WaitingOf(cp') : m < k
    BY <1>7
  <2> QED BY <1>1, <1>2, <2>1, <2>2, <2>3, <2>4, <2>5, LedgerMoves
<1> QED BY <1>4, <1>6, <1>7

\* A claim starts the message that waits to be started.
LEMMA ClaimMoves ==
  ASSUME IInv, IInv', Claim
  PROVE  Ledger!LedgerNext
<1> DEFINE c == [cp EXCEPT !.status = "RUNNING", !.handle = TRUE, !.beat = TRUE]
<1>1. /\ cp \in ControlPlane /\ turns \in Seq(Turn) /\ sent \in Nat /\ gone \in Gone
      /\ WorkIsCurrent(cp, turns) /\ OnePlace(cp, turns, sent)
      /\ hit \cap Disorder = {} => ByAge(cp, turns)
  BY InBooks
<1>2. /\ cp' = Started(c) /\ turns' = WithTurn(turns, c) /\ sent' = sent /\ gone' = gone
      /\ hit \subseteq hit'
  BY DEF Claim
<1>3. /\ c \in ControlPlane /\ c.pending = cp.pending /\ c.queue = cp.queue
      /\ c.cur = cp.cur /\ c.starting = cp.starting
  BY <1>1 DEF ControlPlane
<1> HIDE DEF c
<1>4. WorkIsCurrent(c, turns) /\ OnePlace(c, turns, sent') /\ WaitingOf(c) = WaitingOf(cp)
  BY <1>1, <1>2, <1>3 DEF WorkIsCurrent, OnePlace, WaitingOf
<1>5. hit' \cap Disorder = {} => ByAge(c, turns)
  <2>1. ByAge(cp, turns) => ByAge(c, turns)
    BY <1>3 DEF ByAge
  <2> QED BY <1>1, <1>2, <2>1
<1>6. {} = (sent + 1)..sent'
  BY <1>1, <1>2
<1> QED BY <1>1, <1>2, <1>3, <1>4, <1>5, <1>6, StartMoves

\* failRun gives up the start that waits.
LEMMA GivingUpMoves ==
  ASSUME IInv, IInv', NEW c \in ControlPlane, c.pending = cp.pending, c.queue = cp.queue,
         cp' = Failed(c), gone' = GivenUp(c), sent' = sent, hit \subseteq hit',
         "failed" \in hit', Workers(turns') = Workers(turns), Enders(turns') = Enders(turns)
  PROVE  Ledger!LedgerNext
<1>1. /\ cp \in ControlPlane /\ turns \in Seq(Turn) /\ sent \in Nat /\ gone \in Gone
      /\ OnePlace(cp, turns, sent)
  BY InBooks
<1>2. cp' \in ControlPlane /\ turns' \in Seq(Turn) /\ OnePlace(cp', turns', sent')
  BY DEF IInv, TypeOK, Books
<1>3. cp'.pending = 0 /\ cp'.queue = cp.queue
  BY DEF Failed, Detached, ControlPlane
<1>4. /\ gone'.given = gone.given \cup ({cp.pending} \ {0})
      /\ gone'.steered = gone.steered
  BY <1>1 DEF GivenUp, Gone
<1>5. /\ WaitingOf(cp') = ToSet(cp.queue) \ {0}
      /\ WaitingOf(cp) = WaitingOf(cp') \cup ({cp.pending} \ {0})
      /\ cp.pending \notin ToSet(cp.queue)
  <2>1. 0 \notin ToSet(cp.queue)
    BY <1>1 DEF ToSet, ControlPlane
  <2>2. cp.pending \notin ToSet(cp.queue)
    BY <1>1, WorkersWaitNot
  <2> QED BY <1>3, <2>1, <2>2 DEF WaitingOf
<1>6. {} = (sent + 1)..sent'
  BY <1>1
<1>7. Workers(turns) \cap WaitingOf(cp) = {}
  BY <1>1, WorkersWaitNot
<1>8. gone'.given \ gone.given \subseteq WaitingOf(cp) \ (WaitingOf(cp') \cup Workers(turns'))
  BY <1>4, <1>5, <1>7
<1>9. hit' \cap Disorder # {}
  BY DEF Disorder
<1> QED BY <1>1, <1>2, <1>4, <1>5, <1>6, <1>8, <1>9, LedgerMoves

\* A worker that left: the run fails, is offered again or goes idle.
LEMMA ReleaseMoves ==
  ASSUME IInv, IInv', Release
  PROVE  Ledger!LedgerNext
<1> DEFINE c == Detached(cp)
           idle == IF c.status = "RUNNING" /\ ~HasPending(c)
                     THEN [c EXCEPT !.status = "IDLE"] ELSE c
<1>1. cp \in ControlPlane
  BY InBooks
<1>2. turns' = turns /\ sent' = sent
  BY DEF Release
<1>3. c \in ControlPlane /\ c.pending = cp.pending /\ c.queue = cp.queue
  BY <1>1 DEF Detached, ControlPlane
<1> HIDE DEF c
<1>4. CASE cp' = Failed(c) /\ gone' = GivenUp(c) /\ hit' = hit \cup {"failed"}
  <2>1. hit \subseteq hit' /\ "failed" \in hit'
    BY <1>4
  <2> QED BY <1>2, <1>3, <1>4, <2>1, GivingUpMoves
<1>5. CASE cp' = (IF HasPending(c) THEN QueueRun(idle) ELSE idle) /\ gone' = gone /\ hit' = hit
  <2>1. cp'.pending = cp.pending /\ cp'.queue = cp.queue
    <3>1. idle \in ControlPlane /\ idle.pending = c.pending /\ idle.queue = c.queue
      BY <1>3 DEF ControlPlane
    <3> HIDE DEF idle
    <3>2. QueueRun(idle).pending = idle.pending /\ QueueRun(idle).queue = idle.queue
      BY <3>1 DEF QueueRun, Detached, ControlPlane
    <3> QED BY <1>3, <1>5, <3>1, <3>2
  <2> QED BY <1>2, <1>5, <2>1, QuietMoves
<1> QED BY <1>4, <1>5 DEF Release, c

\* A new message waits, goes out as a steer or is started.
LEMMA FollowUpMoves ==
  ASSUME IInv, IInv', NEW steer \in BOOLEAN, FollowUp(steer)
  PROVE  Ledger!LedgerNext
<1> DEFINE kept == KeptBy(steer)
           new == {sent + 1}
<1>1. /\ cp \in ControlPlane /\ turns \in Seq(Turn) /\ sent \in Nat
      /\ WorkIsCurrent(cp, turns) /\ OnePlace(cp, turns, sent)
  BY InBooks
<1>2. /\ sent' = sent + 1 /\ hit' = hit /\ gone'.given = gone.given
      /\ gone'.steered = gone.steered \cup (IF Steers(steer) THEN {sent + 1} ELSE {})
      /\ \/ cp' = QueueRun(kept) /\ turns' = turns
         \/ cp' = kept /\ turns' = turns
         \/ cp' = Started(kept) /\ turns' = WithTurn(turns, kept)
      /\ kept \in ControlPlane /\ Books(kept, turns, sent', gone', hit')
  BY FollowUpEffect
<1>4. WaitingOf(kept) = WaitingOf(cp) \cup (IF Steers(steer) THEN {} ELSE new)
  <2>1. CASE Steers(steer)
    BY <2>1 DEF KeptBy
  <2>2. CASE ~Steers(steer) /\ ShouldQueue(cp)
    <3> DEFINE q == cp.queue
               r == Append(cp.queue, sent + 1)
    <3>1. q \in Seq(Nat \ {0})
      BY <1>1 DEF ControlPlane
    <3>2. kept.pending = cp.pending /\ kept.queue = r
      BY <1>1, <2>2 DEF KeptBy, ControlPlane
    <3>3. /\ \A i \in DOMAIN r : i \in DOMAIN q \/ i = Len(q) + 1
          /\ \A i \in DOMAIN q : i \in DOMAIN r /\ r[i] = q[i]
          /\ Len(q) + 1 \in DOMAIN r /\ r[Len(q) + 1] = sent + 1
      BY <1>1, <3>1
    <3> HIDE DEF q, r, kept
    <3>4. ToSet(r) = ToSet(q) \cup new
      BY <3>3 DEF ToSet
    <3> QED BY <2>2, <3>2, <3>4 DEF WaitingOf, q
  <2>3. CASE ~Steers(steer) /\ ~ShouldQueue(cp)
    <3>1. kept.pending = sent + 1 /\ kept.queue = cp.queue /\ cp.pending = 0
      BY <1>1, <2>3 DEF KeptBy, ShouldQueue, ControlPlane
    <3> HIDE DEF kept
    <3> QED BY <1>1, <2>3, <3>1 DEF WaitingOf
  <2> QED BY <2>1, <2>2, <2>3
<1> HIDE DEF kept
<1>5. /\ new = (sent + 1)..sent' /\ new \cap 1..sent = {} /\ sent' \in {sent, sent + 1}
  BY <1>1, <1>2
<1>6. /\ WorkIsCurrent(kept, turns) /\ OnePlace(kept, turns, sent')
      /\ hit' \cap Disorder = {} => ByAge(kept, turns)
  BY <1>2 DEF Books
<1>7. WaitingOf(cp) \cap new = {} /\ Workers(turns) \cap new = {}
  BY <1>1, <1>5, WorkersWaitNot
<1> HIDE DEF new
<1>8. /\ WaitingOf(kept) \subseteq WaitingOf(cp) \cup new
      /\ new \subseteq WaitingOf(kept) \cup gone'.steered
      /\ WaitingOf(cp) \subseteq WaitingOf(kept)
      /\ gone.steered \subseteq gone'.steered
      /\ gone'.steered \ gone.steered \subseteq new \ (WaitingOf(kept) \cup Workers(turns))
  BY <1>2, <1>4, <1>7 DEF new
\* No turn is started.
<1>9. CASE cp' \in {QueueRun(kept), kept} /\ turns' = turns
  <2>1. QueueRun(kept).pending = kept.pending /\ QueueRun(kept).queue = kept.queue
    BY <1>2 DEF QueueRun, Detached, ControlPlane
  <2>2. WaitingOf(cp') = WaitingOf(kept)
    BY <1>9, <2>1 DEF WaitingOf
  <2>3. cp' \in ControlPlane /\ turns' \in Seq(Turn) /\ OnePlace(cp', turns', sent')
    BY DEF IInv, TypeOK, Books
  <2> QED BY <1>1, <1>2, <1>5, <1>8, <1>9, <2>2, <2>3, LedgerMoves
\* A turn may be started.
<1>10. CASE cp' = Started(kept) /\ turns' = WithTurn(turns, kept)
  BY <1>1, <1>2, <1>5, <1>6, <1>8, <1>10, StartMoves
<1> QED BY <1>2, <1>9, <1>10

\* A turn that is completed: it failed, or the next message in the queue is started.
LEMMA CompleteMoves ==
  ASSUME IInv, IInv', NEW t \in DOMAIN turns, Complete(t)
  PROVE  Ledger!LedgerNext
<1> DEFINE c == ApplyTurnComplete(cp, t)
           d == AgentEnd(c)
           us == [turns EXCEPT ![t].pc = "answer"]
<1>1. /\ cp \in ControlPlane /\ turns \in Seq(Turn) /\ sent \in Nat /\ gone \in Gone
      /\ turns[t] \in Turn /\ Books(cp, turns, sent, gone, hit)
  BY DEF IInv, TypeOK, Gone
<1>2. /\ sent' = sent /\ turns[t].pc = "complete" /\ hit \subseteq hit'
      /\ turns[t].end = "error" => "failed" \in hit'
  BY DEF Complete
<1>3. /\ us \in Seq(Turn) /\ Len(us) = Len(turns) /\ us[t].msg = turns[t].msg
      /\ us[t].pc = "answer" /\ \A u \in DOMAIN turns : u # t => us[u] = turns[u]
  <2> DEFINE x == [turns[t] EXCEPT !.pc = "answer"]
  <2>1. x \in Turn /\ x.msg = turns[t].msg /\ x.pc = "answer"
    BY <1>1 DEF Turn
  <2>2. us = [turns EXCEPT ![t] = x]
    OBVIOUS
  <2> HIDE DEF x, us
  <2> QED BY <1>1, <2>1, <2>2, TurnChanged
<1>4. c \in ControlPlane /\ c.pending = cp.pending /\ c.queue = cp.queue
  BY <1>1 DEF ApplyTurnComplete, ControlPlane
<1>5. /\ d \in ControlPlane /\ d.pending = cp.pending /\ d.queue = cp.queue
      /\ d.starting = cp.starting /\ d.cur = ApplyTurnComplete(cp, t).cur
  BY <1>1 DEF AgentEnd, ApplyTurnComplete, ControlPlane
<1>6. \/ cp' = Failed(c) /\ gone' = GivenUp(c) /\ turns' = us /\ turns[t].end = "error"
      \/ d.queue = <<>> /\ cp' = d /\ turns' = us /\ gone' = gone
      \/ /\ d.queue # <<>> /\ cp' = Started(TakeQueued(d))
         /\ turns' = WithTurn(us, TakeQueued(d)) /\ gone' = gone
  BY DEF Complete
<1> HIDE DEF c, d, us
<1>7. \A u \in DOMAIN turns : /\ us[u].msg = turns[u].msg
                              /\ us[u].pc \in AtWork <=> turns[u].pc \in AtWork
  BY <1>2, <1>3 DEF AtWork
<1>8. Workers(us) = Workers(turns) /\ Enders(us) = Enders(turns)
  <2>1. DOMAIN us = DOMAIN turns
    BY <1>1, <1>3
  <2>2. Workers(us) = Workers(turns)
    BY <1>7, <2>1 DEF Workers, MessagesOf
  <2>3. Enders(us) = Enders(turns)
    BY <1>7, <2>1 DEF Enders, MessagesOf
  <2> QED BY <2>2, <2>3
\* The turn failed.
<1>9. CASE cp' = Failed(c) /\ gone' = GivenUp(c) /\ turns' = us /\ turns[t].end = "error"
  BY <1>2, <1>4, <1>8, <1>9, GivingUpMoves
\* Nothing waits.
<1>10. CASE cp' = d /\ turns' = us /\ gone' = gone
  BY <1>2, <1>3, <1>5, <1>7, <1>10, QuietMoves
\* The next message is started.
<1>11. CASE /\ d.queue # <<>> /\ cp' = Started(TakeQueued(d))
            /\ turns' = WithTurn(us, TakeQueued(d)) /\ gone' = gone
  <2> DEFINE e == TakeQueued(d)
  <2>1. /\ WorkIsCurrent(d, us) /\ BusyIsClear(d) /\ OnePlace(d, us, sent)
        /\ "lost" \notin hit => /\ EndIsCurrent(d, us) /\ Accounted(d, us, sent, gone)
                               /\ d.pending = 0
        /\ hit \cap Disorder = {} =>
             /\ ByAge(d, us) /\ d.cur = 0
             /\ ~(cp.starting /\ t = Len(turns)) => ~d.starting
    BY SMTT(60), <1>1, <1>2, <1>3, <1>5, CompletedBooks
  <2>2. /\ e \in ControlPlane /\ WorkIsCurrent(e, us) /\ OnePlace(e, us, sent)
        /\ ByAge(d, us) => ByAge(e, us)
    BY <1>1, <1>3, <1>5, <1>11, <2>1, TakenBooks
  <2>3. WaitingOf(e) = ToSet(d.queue) /\ WaitingOf(cp) = ({d.pending} \ {0}) \cup ToSet(d.queue)
    <3> DEFINE q == d.queue
    <3>1. q \in Seq(Nat \ {0}) /\ q # <<>>
      BY <1>5, <1>11 DEF ControlPlane
    <3>2. e.pending = q[1] /\ e.queue = Tail(q)
      BY <1>5, <3>1 DEF TakeQueued, ControlPlane
    <3>3. WaitingOf(cp) = ({d.pending} \ {0}) \cup ToSet(q)
      BY <1>5 DEF WaitingOf
    <3> DEFINE r == Tail(q)
    <3> HIDE DEF e, q
    <3>4. /\ 1 \in DOMAIN q /\ q[1] # 0
          /\ \A i \in DOMAIN r : i + 1 \in DOMAIN q /\ r[i] = q[i + 1]
          /\ \A i \in DOMAIN q : i = 1 \/ (i - 1 \in DOMAIN r /\ r[i - 1] = q[i])
      <4>1. /\ DOMAIN q = 1..Len(q) /\ DOMAIN r = 1..(Len(q) - 1)
            /\ Len(q) \in Nat /\ Len(q) > 0
        BY <3>1
      <4>2. \A i \in DOMAIN r : r[i] = q[i + 1]
        BY <3>1, <4>1
      <4>3. 1 \in DOMAIN q /\ q[1] # 0
        BY <3>1, <4>1
      <4> HIDE DEF r
      <4> QED BY <4>1, <4>2, <4>3
    <3> HIDE DEF r
    <3>5. ToSet(q) = {q[1]} \cup ToSet(r)
      BY <3>4 DEF ToSet
    <3> QED BY <3>2, <3>3, <3>4, <3>5 DEF WaitingOf, r, q
  <2> HIDE DEF e
  <2>4. hit' \cap Disorder = {} => ByAge(e, us)
    BY <1>2, <2>1, <2>2
  <2>5. {} = (sent + 1)..sent'
    BY <1>1, <1>2
  <2>6. "lost" \notin hit' => WaitingOf(cp) \subseteq WaitingOf(e)
    BY <1>2, <2>1, <2>3
  <2>7. WaitingOf(e) \subseteq WaitingOf(cp) \cup {}
    BY <2>3
  <2>8. cp' = Started(e) /\ turns' = WithTurn(us, e) /\ OnePlace(e, us, sent')
    BY <1>2, <1>11, <2>2 DEF e
  <2> QED BY <1>2, <1>3, <1>8, <1>11, <2>2, <2>4, <2>5, <2>6, <2>7, <2>8, StartMoves
<1> QED BY <1>6, <1>9, <1>10, <1>11

\* Every step is one of the ledger, or leaves it as it is.
LEMMA LedgerStep == IInv /\ IInv' /\ [Next]_vars => [Ledger!LedgerNext]_(Ledger!ledger)
<1> SUFFICES ASSUME IInv, IInv', [Next]_vars
             PROVE  Ledger!LedgerNext \/ UNCHANGED Ledger!ledger
  OBVIOUS
<1>1. CASE \E steer \in BOOLEAN : FollowUp(steer)
  BY <1>1, FollowUpMoves
<1>2. CASE DeskStep
  BY <1>2, ClaimMoves, ReleaseMoves, DeskMoves DEF DeskStep, DeskOnly
<1>3. CASE Abort \/ Watch \/ PostReturns
  BY <1>3, DeskMoves DEF Watch, DeskOnly
<1>4. CASE \E t \in DOMAIN turns : TurnStep(t) \/ Refuse(t) \/ Lose(t)
  BY <1>4, TurnMoves, CompleteMoves, LoseMoves DEF TurnStep, TurnOnly
<1>5. CASE \E s \in signals : DeliverSignal(s)
  BY <1>5, SignalMoves
<1>6. CASE UNCHANGED vars
  BY <1>6 DEF vars, Ledger!ledger, WaitingOf, Working, MessagesOf, Orderly
<1> QED BY <1>1, <1>2, <1>3, <1>4, <1>5, <1>6 DEF Next

\* The run keeps its promise about messages: what it does with them, in whatever order
\* claims, completions and losses come, are steps of MessageLedger.
THEOREM LedgerImplemented == Spec => ImplementsLedger
<1>1. Init => Ledger!LedgerInit
  <2> SUFFICES ASSUME Init
               PROVE  Ledger!LedgerInit
    OBVIOUS
  <2>1. /\ cp.pending = 1 /\ cp.queue = <<>> /\ turns = <<>> /\ sent = 1 /\ hit = {}
        /\ gone.steered = {} /\ gone.given = {}
    BY DEF Init
  <2>2. WaitingOf(cp) = {1}
    BY <2>1 DEF WaitingOf, ToSet
  <2>3. \A at \in SUBSET DOMAIN turns : MessagesOf(turns, at) = {}
    BY <2>1 DEF MessagesOf
  <2>4. Orderly /\ "lost" \notin hit
    BY <2>1 DEF Orderly
  <2> QED BY <2>1, <2>2, <2>3, <2>4 DEF Ledger!LedgerInit
<1> QED BY <1>1, LedgerStep, Invariance, PTL DEF Spec, ImplementsLedger, Ledger!LedgerSpec

\* A message that is over, was given up or went out as a steer is never taken up again:
\* this follows from the ledger alone, whatever is lost, late or done twice.
THEOREM PlacesApart == Spec => []Ledger!Apart
<1>1. Ledger!LedgerInit => Ledger!Apart
  BY DEF Ledger!LedgerInit, Ledger!Apart
<1>2. Ledger!Apart /\ [Ledger!LedgerNext]_(Ledger!ledger) => Ledger!Apart'
  <2> DEFINE K == MessagesOf(turns, {t \in DOMAIN turns : Working(t)})
             O == MessagesOf(turns, {t \in DOMAIN turns : ~Working(t)})
             W == WaitingOf(cp)
             S == gone.steered
             G == gone.given
             F == (sent + 1)..sent'
  <2> SUFFICES ASSUME Ledger!Apart, Ledger!LedgerNext \/ UNCHANGED Ledger!ledger
               PROVE  Ledger!Apart'
    OBVIOUS
  <2>1. /\ sent \in Nat /\ W \cup K \cup O \cup S \cup G \subseteq 1..sent
        /\ W \cap (K \cup O \cup S \cup G) = {} /\ K \cap (O \cup S \cup G) = {}
        /\ O \cap (S \cup G) = {} /\ S \cap G = {}
    BY DEF Ledger!Apart
  <2>2. CASE UNCHANGED Ledger!ledger
    BY <2>2 DEF Ledger!Apart, Ledger!ledger
  <2>3. CASE Ledger!LedgerNext
    <3>1. sent' \in {sent, sent + 1} /\ F \subseteq W' \cup K' \cup S'
      BY <2>3 DEF Ledger!LedgerNext, Ledger!Sends, Ledger!Fresh
    <3>2. /\ W' \subseteq W \cup F
          /\ W' \cap (K' \cup (S' \ S) \cup (G' \ G)) = {}
      BY <2>3 DEF Ledger!LedgerNext, Ledger!Waits, Ledger!Fresh, Ledger!Steered,
                  Ledger!Dropped
    <3>3. K' \ K \subseteq W \cup F
      BY <2>3 DEF Ledger!LedgerNext, Ledger!Starts, Ledger!Begun, Ledger!Fresh
    <3>4. /\ O' = O \cup (K \ K')
          /\ S \subseteq S' /\ S' \ S \subseteq F \ K'
          /\ G \subseteq G' /\ G' \ G \subseteq W \ K'
      BY <2>3 DEF Ledger!LedgerNext, Ledger!Ends, Ledger!Steered, Ledger!Dropped,
                  Ledger!Fresh
    <3> HIDE DEF K, O, W, S, G, F
    <3>5. F \cap 1..sent = {} /\ F \subseteq 1..sent' /\ 1..sent \subseteq 1..sent'
          /\ sent' \in Nat
      BY <2>1, <3>1 DEF F
    <3>6. W' \cup K' \cup O' \cup S' \cup G' \subseteq 1..sent'
      BY <2>1, <3>2, <3>3, <3>4, <3>5
    <3>7. W' \cap (K' \cup O' \cup S' \cup G') = {}
      BY <2>1, <3>2, <3>3, <3>4, <3>5
    <3>8. K' \cap (O' \cup S' \cup G') = {}
      BY <2>1, <3>2, <3>3, <3>4, <3>5
    <3>9. O' \cap (S' \cup G') = {} /\ S' \cap G' = {}
      BY <2>1, <3>2, <3>3, <3>4, <3>5
    <3> QED BY <3>5, <3>6, <3>7, <3>8, <3>9 DEF Ledger!Apart, K, O, W, S, G
  <2> QED BY <2>2, <2>3
<1> QED BY <1>1, <1>2, LedgerImplemented, PTL DEF ImplementsLedger, Ledger!LedgerSpec
=============================================================================
