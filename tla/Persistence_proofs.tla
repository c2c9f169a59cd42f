------------------------ MODULE Persistence_proofs ------------------------
(***************************************************************************)
(* Proofs about Persistence: however the saves of a run land, whoever      *)
(* loads it over a start or a restore, and whatever crashes in between, what *)
(* waits for the run is kept, its pictures are on disk, and a deleted run    *)
(* stays deleted.                                                          *)
(***************************************************************************)
EXTENDS Persistence, WellFoundedInduction, TLAPS

\* A set of numbers that is not empty has a least one.
LEMMA LeastNat ==
  ASSUME NEW S, S \subseteq Nat, S # {}
  PROVE  \E m \in S : \A n \in S : m <= n
<1>1. PICK m \in S : \A n \in S : ~(<<n, m>> \in OpToRel(<, Nat))
  BY NatLessThanWellFounded, WFMin
<1>2. \A n \in S : ~(n < m)
  BY <1>1 DEF OpToRel
<1>. QED BY <1>2

-----------------------------------------------------------------------------
(* Persistence: every place a run can be read from holds what is waiting,    *)
(* unless a mishap of the properties has happened.                           *)

Turns == 0..MaxPosts
Deaths == 0..MaxCrashes
Asks == 0..MaxLoads
QueueSet ==
  {q \in [open : SUBSET Posts, pics : SUBSET Posts, turn : Turns, turnPic : Turns] :
     q.turn = 0 => q.turnPic = 0}
DocSet == [state : States, queue : QueueSet]
StoredSet == {s \in [state : States, queue : QueueSet, has : BOOLEAN] : ~s.has => s.queue = EmptyQueue}
FileSet ==
  {f \in [state : States, queue : QueueSet, has : BOOLEAN, pics : SUBSET Posts, turnPic : Turns] :
     ~f.has => f.queue = EmptyQueue}
SaveSet == [doc : DocSet, at : {"queue", "record", "drop"}]
CopySet == [of : StoredSet, at : {"record", "queue", "pics"}]
LoadSet == [via : {"database", "archive"}, doc : DocSet, pics : SUBSET Posts, turnPic : Turns,
            at : {"read", "written"}]
Mishaps == {"mirror", "order", "late", "disk", "picture", "reload"}
PastSet == [posts : Turns, crashes : Deaths, loads : Asks,
            waiting : SUBSET Posts, deleted : BOOLEAN, torn : SUBSET Posts, hit : SUBSET Mishaps]

StoreShape ==
  /\ database \in BOOLEAN /\ serving \in BOOLEAN /\ due \in BOOLEAN
  /\ memory \in DocSet /\ disk \in FileSet /\ archive \in FileSet /\ rows \in StoredSet
  /\ saves \in Seq(SaveSet) /\ copies \in Seq(CopySet) /\ loads \in Seq(LoadSet)
  /\ storePast \in PastSet
  /\ ~serving => memory = Nowhere /\ saves = <<>> /\ copies = <<>> /\ loads = <<>> /\ ~due
  /\ ~database => saves = <<>> /\ rows = NothingStored
  /\ disk.state = "none" => disk = NoFiles /\ memory = Nowhere /\ saves = <<>> /\ copies = <<>> /\ ~due
  /\ \A i \in DOMAIN loads :
       /\ loads[i].doc.state # "none" /\ (loads[i].via = "database" => database /\ loads[i].doc.state # "deleted")
       /\ loads[i].at = "written" => disk.state # "none" /\ loads[i].via = "database"

\* What has to be kept, and a place that keeps it.
Owed == storePast.waiting \ storePast.torn
HasOwed(s) == Owed \subseteq s.queue.open /\ (s.state \in {"none", "deleted"} => Owed = {})
\* The queue's row once every save has landed.
EndOf(ss, q) == IF ss # <<>> /\ ss[Len(ss)].at = "queue" THEN ss[Len(ss)].doc.queue ELSE q
EndQueue == EndOf(saves, rows.queue)
\* The run's row is marked once every save has landed.
Marks(ss, i) == ss[i].at = "drop" \/ ss[i].doc.state = "deleted"
EndsGone(ss, state) ==
  \/ \E i \in DOMAIN ss : ss[i].at # "drop" /\ \A j \in DOMAIN ss : i <= j => Marks(ss, j)
  \/ state = "deleted" /\ \A j \in DOMAIN ss : Marks(ss, j)
\* Saves land one after the other, and the last is that of a deletion.
InOrder(ss, gone) ==
  \A i \in DOMAIN ss :
    /\ ss[i].at = "record" => \A j \in DOMAIN ss : j < i => ss[j].at = "record"
    /\ ss[i].at = "drop" => i = Len(ss) /\ gone
Whence(i) ==
  /\ HasOwed(loads[i].doc)
  /\ loads[i].via = "database" => loads[i].doc.state = rows.state /\ loads[i].doc.queue = rows.queue
  /\ loads[i].at = "written" => disk.state = loads[i].doc.state /\ disk.queue = loads[i].doc.queue

\* A run as the process has it, read from its files.
ReadBack(d, f) ==
  /\ f.state \notin {"none", "deleted"} /\ d.state = f.state /\ d.queue.open = f.queue.open
  /\ d.queue.pics = f.queue.pics \cap f.pics /\ d.queue.turn = f.queue.turn
  /\ d.queue.turnPic = IF f.queue.turnPic = 0 THEN 0 ELSE f.turnPic
\* Memory is what the files say, and every place the run would be read from next has what is owed.
Unharmed == Spared({"mirror", "order", "late", "disk", "reload"})
OwedKept ==
  /\ memory # Nowhere => ReadBack(memory, disk)
  /\ IF disk.state # "none" THEN HasOwed(disk) ELSE HasOwed(archive)
  /\ memory = Nowhere /\ disk.state # "deleted" => saves = <<>> /\ \A i \in DOMAIN loads : Whence(i)
  /\ InOrder(saves, storePast.deleted)
  /\ database /\ ~storePast.deleted => Owed \subseteq EndQueue.open
  /\ storePast.deleted =>
       /\ storePast.waiting = {} /\ memory = Nowhere /\ disk.state \in {"none", "deleted"}
       /\ disk.state = "none" => /\ archive.state = "deleted"
                                 /\ \A i \in DOMAIN loads : loads[i].doc.state = "deleted"
       /\ database => EndsGone(saves, rows.state)

\* The pictures a queue names are among the files, and the turn's file is the turn's.
Pictured(q, pics, turnPic, torn) ==
  /\ q.open \ torn \subseteq q.pics \cap pics
  /\ q.turn \notin torn /\ q.turnPic # 0 => turnPic \in {0, q.turn}
\* Every place that the pictures would be read from has them.
Undamaged == Unharmed /\ Spared({"picture"})
PicturesThere ==
  LET torn == storePast.torn
  IN /\ disk.state # "deleted" => Pictured(disk.queue, disk.pics, disk.turnPic, torn)
     /\ database => disk.state # "none" /\ loads = <<>>
     /\ disk.state = "none" /\ archive.state # "deleted" =>
          Pictured(archive.queue, archive.pics, archive.turnPic, torn)
     /\ memory = Nowhere /\ disk.state # "deleted" =>
          /\ loads # <<>> => disk.state = "none"
          /\ \A i \in DOMAIN loads : loads[i].doc.state # "deleted" =>
               Pictured(loads[i].doc.queue, loads[i].pics, loads[i].turnPic, torn)
     /\ database /\ ~storePast.deleted =>
          /\ Pictured(EndQueue, disk.pics, disk.turnPic, torn)
          /\ EndQueue.open \ torn \subseteq disk.queue.open
          /\ EndQueue.turn \in torn \cup {0, disk.queue.turn}
StoreInv == StoreShape /\ (Unharmed => OwedKept) /\ (Undamaged => PicturesThere)

-----------------------------------------------------------------------------
LEMMA StoreCounts ==
  /\ 0 \in Turns /\ 0 \in Deaths /\ 0 \in Asks /\ Turns \subseteq Nat /\ Posts \subseteq Turns
  /\ \A n \in Turns : (n # 0 => n \in Posts) /\ (n < MaxPosts => n + 1 \in Posts)
  /\ Posts \subseteq Nat
  /\ Deaths \subseteq Nat /\ \A n \in Deaths : n < MaxCrashes => n + 1 \in Deaths
  /\ Asks \subseteq Nat /\ \A n \in Asks : n < MaxLoads => n + 1 \in Asks
BY StoreNumbers DEF Turns, Deaths, Asks, Posts

LEMMA EmptyTypes ==
  /\ EmptyQueue \in QueueSet /\ Nowhere \in DocSet /\ NoFiles \in FileSet /\ NothingStored \in StoredSet
  /\ EmptyQueue.open = {} /\ EmptyQueue.pics = {} /\ EmptyQueue.turn = 0 /\ EmptyQueue.turnPic = 0
  /\ Nowhere.state = "none" /\ Nowhere.queue = EmptyQueue
  /\ NoFiles.state = "none" /\ NoFiles.queue = EmptyQueue /\ NoFiles.pics = {} /\ NoFiles.turnPic = 0
  /\ NothingStored.state = "none" /\ NothingStored.queue = EmptyQueue
<1>1. /\ EmptyQueue.open = {} /\ EmptyQueue.pics = {} /\ EmptyQueue.turn = 0 /\ EmptyQueue.turnPic = 0
      /\ EmptyQueue \in [open : SUBSET Posts, pics : SUBSET Posts, turn : Turns, turnPic : Turns]
  BY StoreCounts DEF EmptyQueue
<1>2. EmptyQueue \in QueueSet
  BY <1>1 DEF QueueSet
<1>. HIDE DEF EmptyQueue
<1>. QED BY <1>1, <1>2, StoreCounts DEF Nowhere, NoFiles, NothingStored, DocSet, FileSet, StoredSet, States

\* The parts of a queue.
LEMMA QueueFields ==
  ASSUME NEW q \in QueueSet
  PROVE  /\ q.open \subseteq Posts /\ q.pics \subseteq Posts /\ q.turn \in Turns /\ q.turnPic \in Turns
         /\ q.turn = 0 => q.turnPic = 0
BY DEF QueueSet

\* What the operators of the flush and of the start return, field by field.
LEMMA ResolvedIs ==
  ASSUME NEW d \in DocSet, NEW f \in FileSet
  PROVE  LET r == Resolved(d, f)
         IN /\ r \in DocSet /\ r.state = d.state /\ r.queue.open = d.queue.open
            /\ r.queue.pics = d.queue.pics \cap f.pics /\ r.queue.turn = d.queue.turn
            /\ r.queue.turnPic = IF d.queue.turnPic = 0 THEN 0 ELSE f.turnPic
<1>. DEFINE q == d.queue
            tp == IF q.turnPic = 0 THEN 0 ELSE f.turnPic
            p == q.pics \cap f.pics
            n == [q EXCEPT !.pics = p, !.turnPic = tp]
            r == Resolved(d, f)
<1>1. d \in [state : States, queue : QueueSet] /\ q \in QueueSet
  BY DEF DocSet
<1>2. f.pics \in SUBSET Posts /\ f.turnPic \in Turns
  BY DEF FileSet
<1>3. /\ q.open \subseteq Posts /\ q.pics \subseteq Posts /\ q.turn \in Turns /\ q.turnPic \in Turns
      /\ q.turn = 0 => q.turnPic = 0
  BY <1>1, QueueFields
<1>4. tp \in Turns /\ (q.turn = 0 => tp = 0) /\ p \in SUBSET Posts
  BY <1>2, <1>3, StoreCounts
<1>5. r = [d EXCEPT !.queue = n]
  BY <1>1 DEF Resolved, QueueSet
<1>. HIDE DEF tp, p
<1>6. n \in QueueSet /\ n.open = q.open /\ n.pics = p /\ n.turn = q.turn /\ n.turnPic = tp
  BY <1>1, <1>3, <1>4 DEF QueueSet
<1>. HIDE DEF n, r
<1>7. r \in DocSet /\ r.state = d.state /\ r.queue = n
  BY <1>1, <1>5, <1>6 DEF DocSet
<1>. QED BY <1>6, <1>7 DEF r, tp, p

LEMMA MergedIs ==
  ASSUME NEW s, s \in StoredSet \/ s \in FileSet
  PROVE  Merged(s) = [state |-> s.state, queue |-> s.queue] /\ Merged(s) \in DocSet
BY EmptyTypes DEF Merged, StoredSet, FileSet, DocSet

LEMMA FilesAfterIs ==
  ASSUME NEW f \in FileSet, NEW d \in DocSet, NEW upTo \in 0..4, NEW bytes \in BOOLEAN
  PROVE  LET g == FilesAfter(f, d, upTo, bytes)
             put == IF bytes THEN f.pics \cup d.queue.pics ELSE f.pics
             turned == IF bytes /\ d.queue.turnPic # 0 THEN d.queue.turnPic ELSE f.turnPic
         IN /\ g \in FileSet
            /\ g.state = IF upTo >= 4 THEN d.state ELSE f.state
            /\ g.queue = IF upTo >= 3 THEN d.queue ELSE f.queue
            /\ g.pics = IF upTo >= 2 THEN put \cap d.queue.pics ELSE put
            /\ g.turnPic = IF upTo >= 2 /\ d.queue.turnPic = 0 THEN 0 ELSE turned
<1>. DEFINE g == FilesAfter(f, d, upTo, bytes)
            put == IF bytes THEN f.pics \cup d.queue.pics ELSE f.pics
            turned == IF bytes /\ d.queue.turnPic # 0 THEN d.queue.turnPic ELSE f.turnPic
            st == IF upTo >= 4 THEN d.state ELSE f.state
            qu == IF upTo >= 3 THEN d.queue ELSE f.queue
            ha == IF upTo >= 3 THEN TRUE ELSE f.has
            pi == IF upTo >= 2 THEN put \cap d.queue.pics ELSE put
            tu == IF upTo >= 2 /\ d.queue.turnPic = 0 THEN 0 ELSE turned
<1>1. g = [state |-> st, queue |-> qu, has |-> ha, pics |-> pi, turnPic |-> tu]
  BY DEF FilesAfter, NamedIn
<1>2. /\ d.state \in States /\ d.queue \in QueueSet /\ f.state \in States /\ f.queue \in QueueSet
      /\ f.has \in BOOLEAN /\ f.pics \in SUBSET Posts /\ f.turnPic \in Turns /\ (~f.has => f.queue = EmptyQueue)
  BY DEF DocSet, FileSet
<1>3. d.queue.pics \in SUBSET Posts /\ d.queue.turnPic \in Turns
  BY <1>2, QueueFields
<1>4. st \in States /\ qu \in QueueSet
  BY <1>2
<1>5. ha \in BOOLEAN /\ (~ha => qu = EmptyQueue)
  BY <1>2
<1>6. pi \in SUBSET Posts /\ tu \in Turns
  BY <1>2, <1>3, StoreCounts
<1>. HIDE DEF st, qu, ha, pi, tu, g
<1>7. g \in FileSet
  BY <1>1, <1>4, <1>5, <1>6 DEF FileSet
<1>8. g.state = st /\ g.queue = qu /\ g.pics = pi /\ g.turnPic = tu
  BY <1>1
<1>. QED BY <1>7, <1>8 DEF g, st, qu, pi, tu

\* With the bytes of the pictures, as a flush has them, ...
LEMMA WrittenIs ==
  ASSUME NEW f \in FileSet, NEW d \in DocSet, NEW upTo \in 0..4
  PROVE  LET g == FilesAfter(f, d, upTo, TRUE)
             put == f.pics \cup d.queue.pics
             turned == IF d.queue.turnPic # 0 THEN d.queue.turnPic ELSE f.turnPic
         IN /\ g \in FileSet
            /\ g.state = IF upTo >= 4 THEN d.state ELSE f.state
            /\ g.queue = IF upTo >= 3 THEN d.queue ELSE f.queue
            /\ g.pics = IF upTo >= 2 THEN put \cap d.queue.pics ELSE put
            /\ g.turnPic = IF upTo >= 2 /\ d.queue.turnPic = 0 THEN 0 ELSE turned
<1>. DEFINE P(b) ==
         LET g == FilesAfter(f, d, upTo, b)
             put == IF b THEN f.pics \cup d.queue.pics ELSE f.pics
             turned == IF b /\ d.queue.turnPic # 0 THEN d.queue.turnPic ELSE f.turnPic
         IN /\ g \in FileSet
            /\ g.state = IF upTo >= 4 THEN d.state ELSE f.state
            /\ g.queue = IF upTo >= 3 THEN d.queue ELSE f.queue
            /\ g.pics = IF upTo >= 2 THEN put \cap d.queue.pics ELSE put
            /\ g.turnPic = IF upTo >= 2 /\ d.queue.turnPic = 0 THEN 0 ELSE turned
<1>1. \A b \in BOOLEAN : P(b)
  BY FilesAfterIs
<1>2. P(TRUE)
  <2>. HIDE DEF P
  <2>. QED BY <1>1
<1>. QED BY <1>2

\* ... and without, as rows and objects have only the names.
LEMMA TakenIs ==
  ASSUME NEW f \in FileSet, NEW d \in DocSet
  PROVE  LET g == FilesAfter(f, d, 4, FALSE)
         IN /\ g \in FileSet /\ g.state = d.state /\ g.queue = d.queue
            /\ g.pics = f.pics \cap d.queue.pics
            /\ g.turnPic = IF d.queue.turnPic = 0 THEN 0 ELSE f.turnPic
<1>. DEFINE P(u, b) ==
         LET g == FilesAfter(f, d, u, b)
             put == IF b THEN f.pics \cup d.queue.pics ELSE f.pics
             turned == IF b /\ d.queue.turnPic # 0 THEN d.queue.turnPic ELSE f.turnPic
         IN /\ g \in FileSet
            /\ g.state = IF u >= 4 THEN d.state ELSE f.state
            /\ g.queue = IF u >= 3 THEN d.queue ELSE f.queue
            /\ g.pics = IF u >= 2 THEN put \cap d.queue.pics ELSE put
            /\ g.turnPic = IF u >= 2 /\ d.queue.turnPic = 0 THEN 0 ELSE turned
<1>1. \A u \in 0..4 : \A b \in BOOLEAN : P(u, b)
  BY FilesAfterIs
<1>2. P(4, FALSE)
  <2>. HIDE DEF P
  <2>1. 4 \in 0..4
    OBVIOUS
  <2>. QED BY <1>1, <2>1
<1>3. 4 >= 2 /\ 4 >= 3 /\ 4 >= 4
  OBVIOUS
<1>. QED BY <1>2, <1>3

LEMMA HydratedIs ==
  ASSUME NEW f \in FileSet
  PROVE  /\ Hydrated(f) \in DocSet
         /\ f.state \in {"none", "deleted"} => Hydrated(f) = Nowhere
         /\ f.state \notin {"none", "deleted"} => ReadBack(Hydrated(f), f) /\ Hydrated(f) # Nowhere
<1>1. Merged(f) = [state |-> f.state, queue |-> f.queue] /\ Merged(f) \in DocSet
  BY MergedIs
<1>2. f.state \in {"none", "deleted"} => Hydrated(f) = Nowhere
  BY DEF Hydrated
<1>3. ASSUME f.state \notin {"none", "deleted"}
      PROVE  Hydrated(f) \in DocSet /\ ReadBack(Hydrated(f), f) /\ Hydrated(f) # Nowhere
  <2>1. Hydrated(f) = Resolved(Merged(f), f)
    BY <1>3 DEF Hydrated
  <2>2. Merged(f).state = f.state /\ Merged(f).queue = f.queue
    BY <1>1
  <2>3. LET r == Resolved(Merged(f), f)
        IN /\ r \in DocSet /\ r.state = f.state /\ r.queue.open = f.queue.open
           /\ r.queue.pics = f.queue.pics \cap f.pics /\ r.queue.turn = f.queue.turn
           /\ r.queue.turnPic = IF f.queue.turnPic = 0 THEN 0 ELSE f.turnPic
    BY <1>1, <2>2, ResolvedIs
  <2>. QED BY <1>3, <2>1, <2>3, EmptyTypes DEF ReadBack
<1>. QED BY <1>2, <1>3, EmptyTypes

\* What a flush leaves is read back as it was.
LEMMA FlushedIs ==
  ASSUME NEW f \in FileSet, NEW d \in DocSet, d.state \notin {"none", "deleted"}
  PROVE  LET g == FilesAfter(f, d, 4, TRUE)
         IN /\ g \in FileSet /\ g.state = d.state /\ g.queue = d.queue /\ g.pics = d.queue.pics
            /\ g.turnPic = d.queue.turnPic /\ ReadBack(d, g)
<1>. DEFINE g == FilesAfter(f, d, 4, TRUE)
            q == d.queue
<1>1. /\ g \in FileSet /\ g.state = d.state /\ g.queue = q
      /\ g.pics = (f.pics \cup q.pics) \cap q.pics
      /\ g.turnPic = IF q.turnPic = 0 THEN 0 ELSE q.turnPic
  <2>. DEFINE P(u) ==
         LET h == FilesAfter(f, d, u, TRUE)
             put == f.pics \cup d.queue.pics
             turned == IF d.queue.turnPic # 0 THEN d.queue.turnPic ELSE f.turnPic
         IN /\ h \in FileSet
            /\ h.state = IF u >= 4 THEN d.state ELSE f.state
            /\ h.queue = IF u >= 3 THEN d.queue ELSE f.queue
            /\ h.pics = IF u >= 2 THEN put \cap d.queue.pics ELSE put
            /\ h.turnPic = IF u >= 2 /\ d.queue.turnPic = 0 THEN 0 ELSE turned
  <2>1. \A u \in 0..4 : P(u)
    BY WrittenIs
  <2>2. P(4)
    <3>. HIDE DEF P
    <3>1. 4 \in 0..4
      OBVIOUS
    <3>. QED BY <2>1, <3>1
  <2>3. 4 >= 2 /\ 4 >= 3 /\ 4 >= 4
    OBVIOUS
  <2>. QED BY <2>2, <2>3
<1>. HIDE DEF g, q
<1>. QED BY <1>1 DEF ReadBack, g, q

-----------------------------------------------------------------------------
LEMMA MemoryKnown ==
  ASSUME StoreInv, Working
  PROVE  /\ memory # Nowhere /\ disk.state # "none" /\ memory.queue \in QueueSet /\ disk.queue \in QueueSet
         /\ memory \in DocSet /\ disk \in FileSet
         /\ Unharmed => /\ ReadBack(memory, disk) /\ ~storePast.deleted /\ HasOwed(disk)
                        /\ Owed \subseteq memory.queue.open
<1>1. memory # Nowhere
  BY EmptyTypes DEF Working
<1>2. disk.state # "none" /\ memory \in DocSet /\ disk \in FileSet
  BY <1>1 DEF StoreInv, StoreShape
<1>3. Unharmed => ReadBack(memory, disk) /\ ~storePast.deleted /\ HasOwed(disk)
  BY <1>1, <1>2 DEF StoreInv, OwedKept
<1>. QED BY <1>1, <1>2, <1>3 DEF DocSet, FileSet, HasOwed, ReadBack

LEMMA OneMoreSave ==
  ASSUME NEW ss \in Seq(SaveSet), NEW gone, NEW x \in SaveSet, InOrder(ss, gone),
         \A i \in DOMAIN ss : ss[i].at # "drop", x.at = "queue"
  PROVE  /\ ss \o <<x>> \in Seq(SaveSet) /\ InOrder(ss \o <<x>>, gone)
         /\ \A i \in DOMAIN (ss \o <<x>>) : (ss \o <<x>>)[i].at # "drop"
         /\ \A q : EndOf(ss \o <<x>>, q) = x.doc.queue
<1>. DEFINE new == ss \o <<x>>
            k == Len(ss)
<1>1. /\ new \in Seq(SaveSet) /\ Len(new) = k + 1 /\ k \in Nat /\ DOMAIN ss = 1..k
      /\ DOMAIN new = 1..(k + 1)
      /\ \A i \in 1..k : new[i] = ss[i]
      /\ new[k + 1] = x
  OBVIOUS
<1>2. new # <<>>
  BY <1>1
<1>. HIDE DEF new, k
<1>3. \A i \in 1..(k + 1) : i \in 1..k \/ i = k + 1
  BY <1>1
<1>4. \A i \in 1..(k + 1) : new[i].at # "drop"
  BY <1>1, <1>3
<1>5. ASSUME NEW i \in 1..(k + 1), NEW j \in 1..(k + 1), new[i].at = "record", j < i
      PROVE  new[j].at = "record"
  <2>1. i \in 1..k /\ j \in 1..k
    BY <1>1, <1>3, <1>5
  <2>. QED BY <1>1, <1>5, <2>1 DEF InOrder
<1>6. InOrder(new, gone)
  BY <1>1, <1>4, <1>5 DEF InOrder
<1>7. \A q : EndOf(new, q) = x.doc.queue
  BY <1>1, <1>2 DEF EndOf
<1>. QED BY <1>1, <1>4, <1>6, <1>7 DEF new

\* A flush that death cut short, seen from a queue that names pictures.
LEMMA TornPictures ==
  ASSUME NEW f \in FileSet, NEW d \in DocSet, NEW upTo \in 0..3, NEW m \in QueueSet, NEW q \in QueueSet,
         NEW torn, NEW more, torn \cup (m.open \ d.queue.open) \cup ({d.queue.turn, m.turn} \ {0}) \subseteq more,
         q.open \ torn \subseteq m.open, q.turn \in torn \cup {0, m.turn},
         Pictured(q, f.pics, f.turnPic, torn), d.queue.open \ torn \subseteq d.queue.pics
  PROVE  LET g == FilesAfter(f, d, upTo, TRUE)
         IN /\ Pictured(q, g.pics, g.turnPic, more)
            /\ q.open \ more \subseteq d.queue.open
            /\ upTo = 3 => Pictured(d.queue, g.pics, g.turnPic, more)
<1>. DEFINE g == FilesAfter(f, d, upTo, TRUE)
<1>1. g.pics = IF upTo >= 2 THEN (f.pics \cup d.queue.pics) \cap d.queue.pics ELSE f.pics \cup d.queue.pics
  <2>1. upTo \in 0..4
    OBVIOUS
  <2>. QED BY <2>1, WrittenIs
<1>. HIDE DEF g
<1>2. q.open \ more \subseteq q.pics \cap g.pics
  <2>1. \A x \in q.open \ more : x \in q.pics /\ x \in f.pics /\ x \in d.queue.open /\ x \in d.queue.pics
    BY DEF Pictured
  <2>. QED BY <1>1, <2>1
<1>3. q.turn \notin more => q.turnPic = 0
  <2>1. q.turn \notin more => q.turn = 0
    OBVIOUS
  <2>. QED BY <2>1, QueueFields
<1>4. q.open \ more \subseteq d.queue.open
  OBVIOUS
<1>5. ASSUME upTo = 3
      PROVE  Pictured(d.queue, g.pics, g.turnPic, more)
  <2>1. g.pics = (f.pics \cup d.queue.pics) \cap d.queue.pics
    BY <1>1, <1>5
  <2>2. d.queue.open \ more \subseteq d.queue.pics \cap g.pics
    BY <2>1
  <2>3. d.queue.turn \notin more => d.queue.turnPic = 0
    <3>1. d.queue.turn \notin more => d.queue.turn = 0
      OBVIOUS
    <3>2. d.queue \in QueueSet
      BY DEF DocSet
    <3>. QED BY <3>1, <3>2, QueueFields
  <2>. QED BY <2>2, <2>3 DEF Pictured
<1>. QED BY <1>2, <1>3, <1>4, <1>5 DEF Pictured, g

-----------------------------------------------------------------------------
\* Nothing more went wrong than in the next state, or less.
LEMMA StillGood ==
  ASSUME StoreInv, storePast' \in PastSet, storePast.hit \subseteq storePast'.hit
  PROVE  /\ Unharmed' => Unharmed /\ OwedKept
         /\ Undamaged' => Undamaged /\ PicturesThere
BY DEF StoreInv, Unharmed, Undamaged, Spared

\* What a flush takes up: the queue holds what is owed, with its pictures.
Flushable(d, p) ==
  /\ d \in DocSet /\ d.state \in {"open", "archived"} /\ p \in PastSet
  /\ p.hit = storePast.hit /\ p.torn = storePast.torn /\ p.deleted = storePast.deleted
  /\ Unharmed => p.waiting \ p.torn \subseteq d.queue.open
  /\ Undamaged => Pictured(d.queue, d.queue.pics, d.queue.turnPic, p.torn)

LEMMA FlushEnds ==
  ASSUME StoreInv, Working, NEW d, NEW p, Flushable(d, p),
         disk' = FilesAfter(disk, d, 4, TRUE), memory' = d, Mirrors(SaveOf(d)), due' = TRUE,
         storePast' = p, UNCHANGED <<database, serving, rows, archive, copies, loads>>
  PROVE  StoreInv'
<1>1. /\ d \in DocSet /\ d.state \in {"open", "archived"} /\ p \in PastSet /\ d.queue \in QueueSet
      /\ d.state \notin {"none", "deleted"} /\ d # Nowhere
  BY EmptyTypes DEF Flushable, DocSet
<1>2. /\ memory # Nowhere /\ disk \in FileSet /\ disk.state # "none"
      /\ Unharmed => ~storePast.deleted
  BY MemoryKnown
<1>3. /\ disk' \in FileSet /\ disk'.state = d.state /\ disk'.queue = d.queue /\ disk'.pics = d.queue.pics
      /\ disk'.turnPic = d.queue.turnPic /\ ReadBack(d, disk')
  BY <1>1, <1>2, FlushedIs
<1>4. /\ storePast' \in PastSet /\ storePast'.hit = storePast.hit /\ storePast'.torn = storePast.torn
      /\ storePast'.deleted = storePast.deleted
  BY <1>1 DEF Flushable
<1>5. /\ Unharmed' => Unharmed /\ OwedKept
      /\ Undamaged' => Undamaged /\ PicturesThere
  BY <1>4, StillGood
<1>. DEFINE x == [doc |-> d, at |-> "queue"]
<1>6. x \in SaveSet /\ x.at = "queue" /\ x.doc = d
  BY <1>1 DEF SaveSet
<1>7. saves' = IF database THEN saves \o <<x>> ELSE saves
  BY DEF Mirrors, SaveOf
<1>. HIDE DEF x
<1>8. saves \in Seq(SaveSet) /\ (~database => saves = <<>>) /\ serving
  BY DEF StoreInv, StoreShape, Working
<1>9. saves' \in Seq(SaveSet)
  BY <1>6, <1>7, <1>8
<1>10. ASSUME Unharmed
       PROVE  InOrder(saves', storePast.deleted) /\ (database => EndQueue' = d.queue)
  <2>1. ~storePast.deleted /\ InOrder(saves, storePast.deleted)
    BY <1>2, <1>10 DEF StoreInv, OwedKept
  <2>2. \A i \in DOMAIN saves : saves[i].at # "drop"
    BY <2>1 DEF InOrder
  <2>3. CASE ~database
    BY <1>7, <2>1, <2>3
  <2>4. CASE database
    <3>1. /\ InOrder(saves \o <<x>>, storePast.deleted)
          /\ \A q : EndOf(saves \o <<x>>, q) = x.doc.queue
      BY <1>6, <1>8, <2>1, <2>2, OneMoreSave
    <3>. QED BY <1>6, <1>7, <2>4, <3>1 DEF EndQueue
  <2>. QED BY <2>3, <2>4
<1>11. StoreShape'
  BY <1>1, <1>3, <1>4, <1>7, <1>8, <1>9 DEF StoreInv, StoreShape
<1>12. ASSUME Unharmed'
       PROVE  OwedKept'
  <2>1. Unharmed /\ ~storePast.deleted /\ storePast' = p
    BY <1>2, <1>5, <1>12
  <2>2. Owed' \subseteq d.queue.open
    BY <2>1 DEF Owed, Flushable
  <2>3. HasOwed(disk)'
    BY <1>1, <1>3, <2>2 DEF HasOwed
  <2>4. InOrder(saves, storePast.deleted)'
    BY <1>4, <1>10, <2>1
  <2>5. (database /\ ~storePast.deleted => Owed \subseteq EndQueue.open)'
    BY <1>10, <2>1, <2>2
  <2>. QED BY <1>1, <1>3, <1>4, <2>1, <2>3, <2>4, <2>5 DEF OwedKept
<1>13. ASSUME Undamaged'
       PROVE  PicturesThere'
  <2>1. Undamaged /\ PicturesThere /\ Unharmed
    BY <1>5, <1>13 DEF Undamaged
  <2>2. Pictured(d.queue, d.queue.pics, d.queue.turnPic, storePast.torn)
    BY <1>4, <2>1 DEF Flushable
  <2>3. Pictured(disk.queue, disk.pics, disk.turnPic, storePast.torn)'
    BY <1>3, <1>4, <2>2
  <2>4. database => EndQueue' = d.queue
    BY <1>10, <2>1
  <2>5. database' => Pictured(EndQueue, disk.pics, disk.turnPic, storePast.torn)'
    BY <1>3, <1>4, <2>2, <2>4
  <2>6. database' => /\ (EndQueue.open \ storePast.torn \subseteq disk.queue.open)'
                     /\ (EndQueue.turn \in storePast.torn \cup {0, disk.queue.turn})'
    BY <1>3, <2>4
  <2>. QED BY <1>1, <1>3, <2>1, <2>3, <2>5, <2>6 DEF PicturesThere
<1>. QED BY <1>11, <1>12, <1>13 DEF StoreInv

LEMMA LateIs == Late \in SUBSET Mishaps /\ (saves # <<>> => Late = {"late"})
<1>1. CASE saves # <<>>
  <2>1. Late = {"late"}
    BY <1>1 DEF Late
  <2>2. {"late"} \in SUBSET Mishaps
    BY DEF Mishaps
  <2>. QED BY <2>1, <2>2
<1>2. CASE saves = <<>>
  <2>1. Late = {}
    BY <1>2 DEF Late
  <2>. QED BY <1>2, <2>1
<1>. QED BY <1>1, <1>2

\* What is in memory, under way and waiting is gone.
LEMMA AfterDeath ==
  ASSUME StoreInv, Dies, disk' \in FileSet, storePast' \in PastSet,
         disk'.state = "none" => disk' = NoFiles
  PROVE  StoreShape'
<1>1. /\ serving' = FALSE /\ memory' = Nowhere /\ saves' = <<>> /\ copies' = <<>> /\ loads' = <<>>
      /\ due' = FALSE /\ database' = database /\ rows' = rows /\ archive' = archive
  BY DEF Dies
<1>2. memory' \in DocSet /\ saves' \in Seq(SaveSet) /\ copies' \in Seq(CopySet) /\ loads' \in Seq(LoadSet)
  BY <1>1, EmptyTypes
<1>3. /\ database' \in BOOLEAN /\ archive' \in FileSet /\ rows' \in StoredSet
      /\ (~database' => rows' = NothingStored)
  BY <1>1 DEF StoreInv, StoreShape
<1>4. DOMAIN loads' = {}
  BY <1>1
<1>5. serving' \in BOOLEAN /\ due' \in BOOLEAN
  BY <1>1
<1>. QED BY <1>1, <1>2, <1>3, <1>4, <1>5 DEF StoreShape

\* The history after a death inside the flush of d.
TornBy(d) == storePast.torn \cup ((memory.queue.open \ d.queue.open)
                                \cup ({d.queue.turn, memory.queue.turn} \ {0}))
DiedIn(d) ==
  /\ storePast' \in PastSet /\ storePast'.hit = storePast.hit \cup Late /\ storePast'.torn = TornBy(d)
  /\ storePast'.deleted = storePast.deleted /\ storePast'.waiting = storePast.waiting

LEMMA DiesIn ==
  ASSUME StoreInv, Working, CanDie, NEW d \in DocSet,
         storePast' = [storePast EXCEPT !.crashes = @ + 1, !.hit = @ \cup Late,
                        !.torn = @ \cup ((memory.queue.open \ d.queue.open)
                                         \cup ({d.queue.turn, memory.queue.turn} \ {0}))]
  PROVE  DiedIn(d)
<1>1. storePast \in PastSet /\ memory.queue \in QueueSet /\ d.queue \in QueueSet
  BY MemoryKnown DEF StoreInv, StoreShape, DocSet
<1>2. TornBy(d) \in SUBSET Posts
  <2>1. memory.queue.open \subseteq Posts /\ memory.queue.turn \in Turns /\ d.queue.turn \in Turns
    BY <1>1, QueueFields
  <2>2. {d.queue.turn, memory.queue.turn} \ {0} \subseteq Posts
    BY <2>1, StoreCounts
  <2>3. storePast.torn \subseteq Posts
    BY <1>1 DEF PastSet
  <2>. QED BY <2>1, <2>2, <2>3 DEF TornBy
<1>3. storePast' = [storePast EXCEPT !.crashes = storePast.crashes + 1,
                                     !.hit = storePast.hit \cup Late, !.torn = TornBy(d)]
  BY DEF TornBy
<1>4. Late \in SUBSET Mishaps
  BY LateIs
<1>5. PICK c \in Deaths : c = storePast.crashes + 1
  BY <1>1, StoreCounts DEF PastSet, CanDie
<1>6. PICK h \in SUBSET Mishaps : h = storePast.hit \cup Late
  BY <1>1, <1>4 DEF PastSet
<1>7. PICK more \in SUBSET Posts : more = TornBy(d)
  BY <1>2
<1>8. storePast' = [storePast EXCEPT !.crashes = c, !.hit = h, !.torn = more]
  BY <1>3, <1>5, <1>6, <1>7
<1>9. /\ storePast' \in PastSet /\ storePast'.hit = h /\ storePast'.torn = more
      /\ storePast'.deleted = storePast.deleted /\ storePast'.waiting = storePast.waiting
  BY ONLY <1>1, <1>8 DEF PastSet
<1>. QED BY <1>6, <1>7, <1>9 DEF DiedIn

LEMMA FlushTorn ==
  ASSUME StoreInv, Working, NEW d, NEW p, Flushable(d, p), NEW upTo \in 0..3,
         disk' = FilesAfter(disk, d, upTo, TRUE), Dies, DiedIn(d)
  PROVE  StoreInv'
<1>1. /\ d \in DocSet /\ d.state \in {"open", "archived"} /\ d.queue \in QueueSet
      /\ p.torn = storePast.torn
  BY DEF Flushable, DocSet
<1>2. /\ memory # Nowhere /\ disk \in FileSet /\ disk.state # "none" /\ memory.queue \in QueueSet
      /\ disk.queue \in QueueSet
      /\ Unharmed => /\ ReadBack(memory, disk) /\ ~storePast.deleted /\ HasOwed(disk)
                     /\ Owed \subseteq memory.queue.open
  BY MemoryKnown
<1>3. /\ disk' \in FileSet /\ disk'.state = disk.state
      /\ disk'.queue = IF upTo >= 3 THEN d.queue ELSE disk.queue
  <2>1. upTo \in 0..4 /\ ~(upTo >= 4)
    OBVIOUS
  <2>. QED BY <1>1, <1>2, <2>1, WrittenIs
<1>6. saves # <<>> => Late = {"late"}
  BY LateIs
<1>7. /\ storePast' \in PastSet /\ storePast'.hit = storePast.hit \cup Late /\ storePast'.torn = TornBy(d)
      /\ storePast'.deleted = storePast.deleted /\ storePast'.waiting = storePast.waiting
  BY DEF DiedIn
<1>8. /\ Unharmed' => Unharmed /\ OwedKept
      /\ Undamaged' => Undamaged /\ PicturesThere
  BY <1>7, StillGood
<1>9. Unharmed' => saves = <<>>
  BY <1>6, <1>7 DEF Unharmed, Spared
<1>10. /\ serving' = FALSE /\ memory' = Nowhere /\ saves' = <<>> /\ copies' = <<>> /\ loads' = <<>>
       /\ due' = FALSE /\ UNCHANGED <<database, rows, archive>>
  BY DEF Dies
<1>11. StoreShape'
  BY <1>2, <1>3, <1>7, <1>10, AfterDeath
<1>12. ASSUME Unharmed'
       PROVE  OwedKept'
  <2>1. Unharmed /\ OwedKept /\ ~storePast.deleted /\ saves = <<>>
    BY <1>2, <1>8, <1>9, <1>12
  <2>2. ReadBack(memory, disk) /\ HasOwed(disk) /\ Owed \subseteq memory.queue.open
    BY <1>2, <2>1
  <2>3. Owed' \subseteq Owed /\ Owed' \subseteq disk'.queue.open
    <3>1. Owed' = storePast.waiting \ TornBy(d) /\ Owed = storePast.waiting \ storePast.torn
      BY <1>7 DEF Owed
    <3>2. Owed' \subseteq Owed /\ Owed' \subseteq d.queue.open
      BY <2>2, <3>1 DEF TornBy
    <3>. QED BY <1>3, <2>2, <3>2 DEF HasOwed
  <2>4. HasOwed(disk)'
    BY <1>3, <2>2, <2>3 DEF HasOwed, ReadBack
  <2>5. EndQueue' = EndQueue
    BY <1>10, <2>1 DEF EndQueue
  <2>6. InOrder(saves, storePast.deleted)'
    BY <1>10 DEF InOrder
  <2>7. disk'.state # "none" /\ ~storePast'.deleted
    BY <1>2, <1>3, <1>7, <2>1
  <2>9. DOMAIN loads' = {}
    BY <1>10
  <2>8. (database /\ ~storePast.deleted => Owed \subseteq EndQueue.open)'
    BY <1>10, <2>1, <2>3, <2>5 DEF OwedKept
  <2>. QED BY <1>10, <2>4, <2>6, <2>7, <2>8, <2>9 DEF OwedKept
<1>13. ASSUME Undamaged'
       PROVE  PicturesThere'
  <2>1. Undamaged /\ PicturesThere /\ Unharmed /\ saves = <<>> /\ ~storePast.deleted
    BY <1>2, <1>8, <1>9, <1>13 DEF Undamaged
  <2>2. ReadBack(memory, disk)
    BY <1>2, <2>1
  <2>3. Pictured(d.queue, d.queue.pics, d.queue.turnPic, storePast.torn)
    BY <1>1, <2>1 DEF Flushable
  <2>4. Pictured(disk.queue, disk.pics, disk.turnPic, storePast.torn)
    BY <2>1, <2>2 DEF PicturesThere, ReadBack
  <2>5. d.queue.open \ storePast.torn \subseteq d.queue.pics
    BY <2>3 DEF Pictured
  <2>6. storePast.torn \cup (memory.queue.open \ d.queue.open) \cup ({d.queue.turn, memory.queue.turn} \ {0}) \subseteq TornBy(d)
    BY DEF TornBy
  <2>7. ASSUME NEW q \in QueueSet, q.open \ storePast.torn \subseteq memory.queue.open,
               q.turn \in storePast.torn \cup {0, memory.queue.turn},
               Pictured(q, disk.pics, disk.turnPic, storePast.torn)
        PROVE  /\ Pictured(q, disk'.pics, disk'.turnPic, TornBy(d))
               /\ q.open \ TornBy(d) \subseteq d.queue.open
               /\ upTo = 3 => Pictured(d.queue, disk'.pics, disk'.turnPic, TornBy(d))
    BY <1>1, <1>2, <2>5, <2>6, <2>7, TornPictures
  <2>8. /\ Pictured(disk.queue, disk'.pics, disk'.turnPic, TornBy(d))
        /\ upTo = 3 => Pictured(d.queue, disk'.pics, disk'.turnPic, TornBy(d))
    <3>1. disk.queue.open \ storePast.torn \subseteq memory.queue.open
      BY <2>2 DEF ReadBack
    <3>2. disk.queue.turn \in storePast.torn \cup {0, memory.queue.turn}
      BY <2>2 DEF ReadBack
    <3>. QED BY <1>2, <2>4, <2>7, <3>1, <3>2
  <2>9. Pictured(disk.queue, disk.pics, disk.turnPic, storePast.torn)'
    <3>1. CASE upTo >= 3
      <4>0. upTo = 3
        BY <3>1
      <4>1. disk'.queue = d.queue
        BY <1>3, <3>1
      <4>. QED BY <1>7, <2>8, <4>0, <4>1
    <3>2. CASE ~(upTo >= 3)
      <4>1. disk'.queue = disk.queue
        BY <1>3, <3>2
      <4>. QED BY <1>7, <2>8, <4>1
    <3>. QED BY <3>1, <3>2
  <2>10. ASSUME database
         PROVE  /\ Pictured(EndQueue, disk.pics, disk.turnPic, storePast.torn)'
                /\ (EndQueue.open \ storePast.torn \subseteq disk.queue.open)'
                /\ (EndQueue.turn \in storePast.torn \cup {0, disk.queue.turn})'
    <3>1. EndQueue' = rows.queue /\ EndQueue = rows.queue /\ rows.queue \in QueueSet
      BY <1>10, <2>1 DEF EndQueue, EndOf, StoreInv, StoreShape, StoredSet
    <3>2. /\ Pictured(rows.queue, disk.pics, disk.turnPic, storePast.torn)
          /\ rows.queue.open \ storePast.torn \subseteq disk.queue.open
          /\ rows.queue.turn \in storePast.torn \cup {0, disk.queue.turn}
      BY <2>1, <2>10, <3>1 DEF PicturesThere
    <3>3. /\ rows.queue.open \ storePast.torn \subseteq memory.queue.open
          /\ rows.queue.turn \in storePast.torn \cup {0, memory.queue.turn}
      BY <2>2, <3>2 DEF ReadBack
    <3>4. /\ Pictured(rows.queue, disk'.pics, disk'.turnPic, TornBy(d))
          /\ rows.queue.open \ TornBy(d) \subseteq d.queue.open
      BY <2>7, <3>1, <3>2, <3>3
    <3>5. rows.queue.open \ TornBy(d) \subseteq disk.queue.open /\ storePast.torn \subseteq TornBy(d)
      BY <3>2 DEF TornBy
    <3>6. rows.queue.turn \in TornBy(d) \cup {0}
      BY <3>3 DEF TornBy
    <3>. QED BY <1>3, <1>7, <3>1, <3>4, <3>5, <3>6
  <2>11. disk'.state # "none"
    BY <1>2, <1>3
  <2>12. loads' = <<>> /\ DOMAIN loads' = {} /\ database' = database
    BY <1>10
  <2>. QED BY <2>9, <2>10, <2>11, <2>12 DEF PicturesThere
<1>. QED BY <1>11, <1>12, <1>13 DEF StoreInv

\* A step that ends in a flush keeps the invariant, whether the flush ends or is cut short.
LEMMA FlushKeeps ==
  ASSUME StoreInv, Working, NEW d, NEW p, Flushable(d, p), Flushes(d, p)
  PROVE  StoreInv'
<1>1. d \in DocSet
  BY DEF Flushable
<1>. QED BY <1>1, FlushEnds, DiesIn, FlushTorn DEF Flushes

-----------------------------------------------------------------------------
LEMMA NewQueue ==
  ASSUME NEW d \in DocSet, NEW q \in QueueSet, NEW new, new = [d EXCEPT !.queue = q]
  PROVE  new \in DocSet /\ new.state = d.state /\ new.queue = q
BY DEF DocSet

\* What memory names is there, for its names are those that were found.
LEMMA MemoryPictured ==
  ASSUME StoreInv, Working, Undamaged
  PROVE  Pictured(memory.queue, memory.queue.pics, memory.queue.turnPic, storePast.torn)
<1>1. ReadBack(memory, disk) /\ memory.queue \in QueueSet
  BY MemoryKnown DEF Undamaged
<1>2. Pictured(disk.queue, disk.pics, disk.turnPic, storePast.torn)
  BY <1>1 DEF StoreInv, PicturesThere, ReadBack
<1>3. memory.queue.open \ storePast.torn \subseteq memory.queue.pics
  BY <1>1, <1>2 DEF ReadBack, Pictured
<1>4. memory.queue.turn \notin storePast.torn /\ memory.queue.turnPic # 0
        => memory.queue.turnPic \in {0, memory.queue.turn}
  BY <1>1, <1>2 DEF ReadBack, Pictured
<1>. QED BY <1>3, <1>4 DEF Pictured

\* Of the messages that wait there is a newest.
LEMMA GreatestPost ==
  ASSUME NEW S \in SUBSET Posts, S # {}
  PROVE  \E n \in S : \A o \in S : o <= n
<1>. DEFINE T == {MaxPosts - n : n \in S}
<1>1. MaxPosts \in Nat /\ \A n \in S : n \in Nat /\ n <= MaxPosts
  BY StoreNumbers DEF Posts
<1>2. T \subseteq Nat /\ T # {}
  BY <1>1
<1>3. PICK t \in T : \A u \in T : t <= u
  <2>. HIDE DEF T
  <2>. QED BY <1>2, LeastNat
<1>4. PICK n \in S : t = MaxPosts - n
  BY <1>3
<1>5. ASSUME NEW o \in S
      PROVE  o <= n
  <2>1. MaxPosts - n <= MaxPosts - o
    BY <1>3, <1>4
  <2>. QED BY <1>1, <2>1
<1>. QED BY <1>5

LEMMA QueuesKept == ASSUME StoreInv, Queues PROVE StoreInv'
<1>. DEFINE q == memory.queue
            m == storePast.posts + 1
            nq == [q EXCEPT !.open = q.open \cup {m}, !.pics = q.pics \cup {m}]
<1>1. /\ Working /\ storePast \in PastSet /\ q \in QueueSet /\ memory \in DocSet
      /\ memory.state = "open" /\ storePast.posts < MaxPosts
  BY MemoryKnown DEF Queues, StoreInv, StoreShape
<1>2. m \in Posts /\ m \in Nat
  BY <1>1, StoreCounts DEF PastSet
<1>3. PICK d : /\ d = [memory EXCEPT !.queue.open = @ \cup {m}, !.queue.pics = @ \cup {m}]
               /\ Flushes(d, [storePast EXCEPT !.posts = m, !.waiting = @ \cup {m}])
  BY DEF Queues
<1>4. PICK p : p = [storePast EXCEPT !.posts = m, !.waiting = storePast.waiting \cup {m}]
  OBVIOUS
<1>5. Flushes(d, p)
  BY <1>3, <1>4
<1>6. d = [memory EXCEPT !.queue = nq]
  BY <1>1, <1>3 DEF DocSet, QueueSet
<1>7. /\ q.open \in SUBSET Posts /\ q.pics \in SUBSET Posts
  BY <1>1, QueueFields
<1>8. PICK open \in SUBSET Posts : open = q.open \cup {m}
  BY <1>2, <1>7
<1>9. PICK pics \in SUBSET Posts : pics = q.pics \cup {m}
  BY <1>2, <1>7
<1>10. nq = [q EXCEPT !.open = open, !.pics = pics]
  BY <1>8, <1>9
<1>. HIDE DEF nq
<1>11. nq \in QueueSet /\ nq.open = open /\ nq.pics = pics /\ nq.turn = q.turn /\ nq.turnPic = q.turnPic
  BY <1>1, <1>10 DEF QueueSet
<1>12. d \in DocSet /\ d.state = memory.state /\ d.queue = nq
  BY <1>1, <1>6, <1>11, NewQueue
<1>13. PICK waiting \in SUBSET Posts : waiting = storePast.waiting \cup {m}
  BY <1>1, <1>2 DEF PastSet
<1>14. /\ p \in PastSet /\ p.waiting = waiting /\ p.hit = storePast.hit /\ p.torn = storePast.torn
       /\ p.deleted = storePast.deleted
  <2>1. PICK n \in Turns : n = m
    BY <1>2, StoreCounts
  <2>2. p = [storePast EXCEPT !.posts = n, !.waiting = waiting]
    BY <1>4, <1>13, <2>1
  <2>. HIDE DEF m
  <2>. QED BY <1>1, <1>13, <2>2 DEF PastSet
<1>15. Unharmed => p.waiting \ p.torn \subseteq d.queue.open
  <2>1. Unharmed => Owed \subseteq q.open
    BY <1>1, MemoryKnown
  <2>. QED BY <1>8, <1>11, <1>12, <1>13, <1>14, <2>1 DEF Owed
<1>16. Undamaged => Pictured(d.queue, d.queue.pics, d.queue.turnPic, p.torn)
  <2>1. Undamaged => Pictured(q, q.pics, q.turnPic, storePast.torn)
    BY <1>1, MemoryPictured
  <2>. QED BY <1>8, <1>9, <1>11, <1>12, <1>14, <2>1 DEF Pictured
<1>17. Flushable(d, p)
  BY <1>1, <1>12, <1>14, <1>15, <1>16 DEF Flushable
<1>. QED BY <1>1, <1>5, <1>17, FlushKeeps

LEMMA HandSteps == ASSUME StoreInv, HandsOut PROVE StoreInv'
<1>. DEFINE q == memory.queue
<1>1. /\ Working /\ storePast \in PastSet /\ q \in QueueSet /\ memory \in DocSet /\ q.open # {}
      /\ q.open \in SUBSET Posts /\ memory.state \in {"open", "archived"}
  <2>1. Working /\ q.open # {}
    BY DEF HandsOut
  <2>2. storePast \in PastSet /\ q \in QueueSet /\ memory \in DocSet
    BY <2>1, MemoryKnown DEF StoreInv, StoreShape
  <2>. QED BY <2>1, <2>2, QueueFields DEF Working
<1>2. PICK m : m = CHOOSE n \in q.open : \A o \in q.open : o <= n
  OBVIOUS
<1>3. m \in q.open
  BY <1>1, <1>2, GreatestPost
<1>4. m \in Turns /\ 0 \in Turns /\ m # 0
  BY <1>1, <1>3, StoreCounts DEF Posts
<1>5. PICK nq : nq = [open |-> {}, pics |-> {}, turn |-> m, turnPic |-> IF m \in q.pics THEN m ELSE 0]
  OBVIOUS
<1>6. PICK d : d = [memory EXCEPT !.queue = nq]
  OBVIOUS
<1>7. PICK p : p = [storePast EXCEPT !.waiting = storePast.waiting \ q.open]
  OBVIOUS
<1>8. Flushes(d, p)
  BY <1>2, <1>5, <1>6, <1>7 DEF HandsOut
<1>9. PICK t \in Turns : t = IF m \in q.pics THEN m ELSE 0
  BY <1>4
<1>10. nq = [open |-> {}, pics |-> {}, turn |-> m, turnPic |-> t]
  BY <1>5, <1>9
<1>11. nq \in QueueSet /\ nq.open = {} /\ nq.pics = {} /\ nq.turn = m /\ nq.turnPic = t
  BY <1>4, <1>10 DEF QueueSet
<1>12. d \in DocSet /\ d.state = memory.state /\ d.queue = nq
  BY <1>1, <1>6, <1>11, NewQueue
<1>13. PICK waiting \in SUBSET Posts : waiting = storePast.waiting \ q.open
  BY <1>1 DEF PastSet
<1>14. /\ p \in PastSet /\ p.waiting = waiting /\ p.hit = storePast.hit /\ p.torn = storePast.torn
       /\ p.deleted = storePast.deleted
  BY <1>1, <1>7, <1>13 DEF PastSet
<1>15. Unharmed => p.waiting \ p.torn \subseteq d.queue.open
  <2>1. Unharmed => Owed \subseteq q.open
    BY <1>1, MemoryKnown
  <2>. QED BY <1>13, <1>14, <2>1 DEF Owed
<1>16. Pictured(d.queue, d.queue.pics, d.queue.turnPic, p.torn)
  BY <1>9, <1>11, <1>12 DEF Pictured
<1>17. Flushable(d, p)
  BY <1>1, <1>12, <1>14, <1>15, <1>16 DEF Flushable
<1>. QED BY <1>1, <1>8, <1>17, FlushKeeps

\* The queue is as it was, or without its turn.
LEMMA SameQueue ==
  ASSUME StoreInv, Working, NEW d \in DocSet, d.state \in {"open", "archived"},
         d.queue.open = memory.queue.open, d.queue.pics = memory.queue.pics,
         \/ d.queue.turn = memory.queue.turn /\ d.queue.turnPic = memory.queue.turnPic
         \/ d.queue.turnPic = 0
  PROVE  Flushable(d, storePast)
<1>1. storePast \in PastSet
  BY DEF StoreInv, StoreShape
<1>2. Unharmed => Owed \subseteq memory.queue.open
  BY MemoryKnown
<1>3. Undamaged => Pictured(memory.queue, memory.queue.pics, memory.queue.turnPic, storePast.torn)
  BY MemoryPictured
<1>4. Undamaged => Pictured(d.queue, d.queue.pics, d.queue.turnPic, storePast.torn)
  BY <1>3 DEF Pictured
<1>. QED BY <1>1, <1>2, <1>4 DEF Flushable, Owed

LEMMA FinishSteps == ASSUME StoreInv, Finishes PROVE StoreInv'
<1>. DEFINE q == memory.queue
            nq == [q EXCEPT !.turn = 0, !.turnPic = 0]
<1>1. Working /\ q \in QueueSet /\ memory \in DocSet /\ memory.state = "open"
  BY MemoryKnown DEF Finishes
<1>2. PICK d : d = [memory EXCEPT !.queue.turn = 0, !.queue.turnPic = 0] /\ Flushes(d, storePast)
  BY DEF Finishes
<1>3. d = [memory EXCEPT !.queue = nq]
  BY <1>1, <1>2 DEF DocSet, QueueSet
<1>4. nq \in QueueSet /\ nq.open = q.open /\ nq.pics = q.pics /\ nq.turnPic = 0
  BY <1>1, StoreCounts DEF QueueSet
<1>. HIDE DEF nq
<1>5. d \in DocSet /\ d.state = memory.state /\ d.queue = nq
  BY <1>1, <1>3, <1>4, NewQueue
<1>6. Flushable(d, storePast)
  BY <1>1, <1>4, <1>5, SameQueue
<1>. QED BY <1>1, <1>2, <1>6, FlushKeeps

LEMMA ShelveSteps == ASSUME StoreInv, ShelvesRun PROVE StoreInv'
<1>1. Working /\ memory \in DocSet
  BY MemoryKnown DEF ShelvesRun
<1>2. PICK d : d = [memory EXCEPT !.state = "archived"] /\ Flushes(d, storePast)
  BY DEF ShelvesRun
<1>3. d \in DocSet /\ d.state = "archived" /\ d.queue = memory.queue
  BY <1>1, <1>2 DEF DocSet, States
<1>4. Flushable(d, storePast)
  BY <1>1, <1>3, SameQueue
<1>. QED BY <1>1, <1>2, <1>4, FlushKeeps

\* Writing what was read takes no picture away that is named.
LEMMA SameFiles ==
  ASSUME NEW f \in FileSet, NEW m \in DocSet, ReadBack(m, f), NEW d \in DocSet, d.queue = m.queue,
         NEW upTo \in 0..4, NEW torn, Pictured(f.queue, f.pics, f.turnPic, torn),
         NEW g, g = FilesAfter(f, d, upTo, TRUE)
  PROVE  /\ Pictured(g.queue, g.pics, g.turnPic, torn)
         /\ \A q : Pictured(q, f.pics, f.turnPic, torn) /\ q.open \ torn \subseteq f.queue.open
                     => Pictured(q, g.pics, g.turnPic, torn)
<1>. DEFINE mq == m.queue
<1>1. /\ g \in FileSet
      /\ g.state = IF upTo >= 4 THEN d.state ELSE f.state
      /\ g.queue = IF upTo >= 3 THEN mq ELSE f.queue
      /\ g.pics = IF upTo >= 2 THEN (f.pics \cup mq.pics) \cap mq.pics ELSE f.pics \cup mq.pics
      /\ g.turnPic = IF upTo >= 2 /\ mq.turnPic = 0 THEN 0
                     ELSE IF mq.turnPic # 0 THEN mq.turnPic ELSE f.turnPic
  <2>. DEFINE put == f.pics \cup d.queue.pics
              turned == IF d.queue.turnPic # 0 THEN d.queue.turnPic ELSE f.turnPic
  <2>1. g \in FileSet /\ g.state = IF upTo >= 4 THEN d.state ELSE f.state
    BY WrittenIs
  <2>3. g.queue = IF upTo >= 3 THEN d.queue ELSE f.queue
    BY WrittenIs
  <2>4. g.pics = IF upTo >= 2 THEN put \cap d.queue.pics ELSE put
    BY WrittenIs
  <2>5. g.turnPic = IF upTo >= 2 /\ d.queue.turnPic = 0 THEN 0 ELSE turned
    BY DEF FilesAfter
  <2>2. d.queue = mq
    OBVIOUS
  <2>. HIDE DEF mq
  <2>. QED BY <2>1, <2>2, <2>3, <2>4, <2>5
<1>2. /\ mq.open = f.queue.open /\ mq.pics = f.queue.pics \cap f.pics /\ mq.turn = f.queue.turn
      /\ mq.turnPic = IF f.queue.turnPic = 0 THEN 0 ELSE f.turnPic
  BY DEF ReadBack
<1>. HIDE DEF mq
<1>3. g.turnPic \in {0, f.turnPic}
  BY <1>1, <1>2
<1>4. f.queue.pics \cap f.pics \subseteq g.pics
  BY <1>1, <1>2
<1>5. f.queue.open \ torn \subseteq f.queue.pics \cap f.pics
  BY DEF Pictured
<1>6. ASSUME NEW q, Pictured(q, f.pics, f.turnPic, torn), q.open \ torn \subseteq f.queue.open
      PROVE  Pictured(q, g.pics, g.turnPic, torn)
  <2>1. q.open \ torn \subseteq q.pics \cap g.pics
    BY <1>4, <1>5, <1>6 DEF Pictured
  <2>. QED BY <1>3, <1>6, <2>1 DEF Pictured
<1>7. Pictured(f.queue, g.pics, g.turnPic, torn)
  BY <1>6
<1>8. g.queue = mq \/ g.queue = f.queue
  BY <1>1
<1>10. Pictured(mq, g.pics, g.turnPic, torn)
  <2>1. mq.open \ torn \subseteq mq.pics \cap g.pics
    BY <1>2, <1>4, <1>5
  <2>2. mq.turn \notin torn /\ mq.turnPic # 0 => g.turnPic \in {0, mq.turn}
    BY <1>2, <1>7 DEF Pictured
  <2>. QED BY <2>1, <2>2 DEF Pictured
<1>11. Pictured(g.queue, g.pics, g.turnPic, torn)
  BY <1>7, <1>8, <1>10
<1>. QED BY <1>6, <1>11

LEMMA ReclaimedIs ==
  ASSUME NEW f \in FileSet, NEW r, r = Reclaimed(f)
  PROVE  r \in FileSet /\ r.state = f.state /\ r.queue = EmptyQueue
<1>1. f.has \in BOOLEAN /\ f.state \in States
  BY DEF FileSet
<1>. QED BY <1>1, EmptyTypes DEF Reclaimed, FileSet

\* The saves of a deletion: both rows, and the queue's row goes.
LEMMA TwoMoreSaves ==
  ASSUME NEW ss \in Seq(SaveSet), NEW x \in SaveSet, NEW y \in SaveSet, NEW new,
         new = ss \o (<<x>> \o <<y>>), x.at = "queue", x.doc.state = "deleted", y.at = "drop",
         \A i \in DOMAIN ss : ss[i].at # "drop", InOrder(ss, FALSE)
  PROVE  InOrder(new, TRUE) /\ \A state : EndsGone(new, state)
<1>. DEFINE k == Len(ss)
<1>1. /\ k \in Nat /\ DOMAIN ss = 1..k /\ Len(new) = k + 2 /\ DOMAIN new = 1..(k + 2)
      /\ \A i \in 1..k : new[i] = ss[i]
      /\ new[k + 1] = x /\ new[k + 2] = y
  OBVIOUS
<1>. HIDE DEF k
<1>2. \A i \in 1..(k + 2) : i \in 1..k \/ i = k + 1 \/ i = k + 2
  BY <1>1
<1>3. ASSUME NEW i \in 1..(k + 2), new[i].at = "record", NEW j \in 1..(k + 2), j < i
      PROVE  new[j].at = "record"
  <2>1. i \in 1..k /\ j \in 1..k
    BY <1>1, <1>2, <1>3
  <2>. QED BY <1>1, <1>3, <2>1 DEF InOrder
<1>4. ASSUME NEW i \in 1..(k + 2), new[i].at = "drop"
      PROVE  i = k + 2
  BY <1>1, <1>2, <1>4
<1>5. InOrder(new, TRUE)
  BY <1>1, <1>3, <1>4 DEF InOrder
<1>6. \A j \in 1..(k + 2) : k + 1 <= j => Marks(new, j)
  <2>1. \A j \in 1..(k + 2) : k + 1 <= j => j = k + 1 \/ j = k + 2
    BY <1>1
  <2>. QED BY <1>1, <2>1 DEF Marks
<1>7. k + 1 \in 1..(k + 2) /\ new[k + 1].at # "drop"
  <2>1. k + 1 \in 1..(k + 2)
    BY <1>1
  <2>2. new[k + 1] = x
    BY <1>1
  <2>. QED BY <2>1, <2>2
<1>8. \A state : EndsGone(new, state)
  BY <1>1, <1>6, <1>7 DEF EndsGone
<1>. QED BY <1>5, <1>8

\* A deletion is flushed like any other change, and the run leaves memory.
LEMMA DeletedDoc ==
  ASSUME StoreInv, Working, NEW d, d = [memory EXCEPT !.state = "deleted"]
  PROVE  d \in DocSet /\ d.state = "deleted" /\ d.queue = memory.queue
<1>1. memory \in DocSet
  BY MemoryKnown
<1>. QED BY <1>1 DEF DocSet, States

LEMMA DeleteEnds ==
  ASSUME StoreInv, Working, NEW d, d = [memory EXCEPT !.state = "deleted"],
         disk' = Reclaimed(FilesAfter(disk, d, 4, TRUE)), memory' = Nowhere, due' = TRUE,
         Mirrors(SaveOf(d) \o <<[doc |-> d, at |-> "drop"]>>),
         storePast' = [storePast EXCEPT !.deleted = TRUE, !.waiting = {}],
         UNCHANGED <<database, serving, rows, archive, copies, loads>>
  PROVE  StoreInv'
<1>1. d \in DocSet /\ d.state = "deleted" /\ d.queue = memory.queue
  BY DeletedDoc
<1>2. disk \in FileSet /\ disk.state # "none" /\ (Unharmed => ~storePast.deleted) /\ storePast \in PastSet
  BY MemoryKnown DEF StoreInv, StoreShape
<1>3. /\ disk' \in FileSet /\ disk'.state = "deleted" /\ disk'.queue = EmptyQueue
  <2>1. PICK f : f = FilesAfter(disk, d, 4, TRUE)
    OBVIOUS
  <2>2. f \in FileSet /\ f.state = "deleted"
    <3>1. /\ 4 \in 0..4 /\ 4 >= 4
      OBVIOUS
    <3>. QED BY <1>1, <1>2, <2>1, <3>1, WrittenIs
  <2>3. disk' = Reclaimed(f)
    BY <2>1
  <2>. QED BY <2>2, <2>3, ReclaimedIs
<1>4. /\ storePast' \in PastSet /\ storePast'.hit = storePast.hit /\ storePast'.torn = storePast.torn
      /\ storePast'.waiting = {} /\ storePast'.deleted
  <2>1. {} \in SUBSET Posts
    OBVIOUS
  <2>. QED BY <1>2, <2>1 DEF PastSet
<1>5. /\ Unharmed' => Unharmed /\ OwedKept
      /\ Undamaged' => Undamaged /\ PicturesThere
  BY <1>4, StillGood
<1>. DEFINE x == [doc |-> d, at |-> "queue"]
            y == [doc |-> d, at |-> "drop"]
<1>6. /\ x \in SaveSet /\ x.at = "queue" /\ x.doc = d
      /\ y \in SaveSet /\ y.at = "drop" /\ y.doc = d
  <2>1. x \in SaveSet /\ x.at = "queue" /\ x.doc = d
    BY ONLY <1>1 DEF SaveSet
  <2>2. y \in SaveSet /\ y.at = "drop" /\ y.doc = d
    BY ONLY <1>1 DEF SaveSet
  <2>. QED BY <2>1, <2>2
<1>7. saves' = IF database THEN saves \o (<<x>> \o <<y>>) ELSE saves
  BY DEF Mirrors, SaveOf
<1>. HIDE DEF x, y
<1>8. saves \in Seq(SaveSet) /\ (~database => saves = <<>>) /\ serving
  BY DEF StoreInv, StoreShape, Working
<1>9. saves' \in Seq(SaveSet)
  BY <1>6, <1>7, <1>8
<1>10. ASSUME Unharmed
       PROVE  InOrder(saves', TRUE) /\ (database => EndsGone(saves', rows.state))
  <2>1. ~storePast.deleted /\ InOrder(saves, storePast.deleted)
    BY <1>2, <1>10 DEF StoreInv, OwedKept
  <2>2. InOrder(saves, FALSE) /\ \A i \in DOMAIN saves : saves[i].at # "drop"
    BY <2>1 DEF InOrder
  <2>3. CASE ~database
    BY <1>7, <1>8, <2>3 DEF InOrder
  <2>4. CASE database
    <3>1. saves' = saves \o (<<x>> \o <<y>>)
      BY <1>7, <2>4
    <3>. QED BY <1>1, <1>6, <1>8, <2>2, <3>1, TwoMoreSaves
  <2>. QED BY <2>3, <2>4
<1>11. StoreShape'
  BY <1>1, <1>3, <1>4, <1>7, <1>8, <1>9, EmptyTypes DEF StoreInv, StoreShape
<1>12. ASSUME Unharmed'
       PROVE  OwedKept'
  <2>1. Owed' = {}
    BY <1>4 DEF Owed
  <2>2. HasOwed(disk)'
    BY <2>1 DEF HasOwed
  <2>3. InOrder(saves', TRUE) /\ (database' => EndsGone(saves', rows'.state))
    BY <1>5, <1>10, <1>12
  <2>4. InOrder(saves, storePast.deleted)'
    BY <1>4, <2>3 DEF InOrder
  <2>. QED BY <1>3, <1>4, <2>2, <2>3, <2>4 DEF OwedKept
<1>13. ASSUME Undamaged'
       PROVE  PicturesThere'
  <2>1. database' => loads' = <<>>
    BY <1>5, <1>13 DEF PicturesThere
  <2>. QED BY <1>3, <1>4, <2>1 DEF PicturesThere
<1>. QED BY <1>11, <1>12, <1>13 DEF StoreInv

LEMMA DeleteTorn ==
  ASSUME StoreInv, Working, NEW d, d = [memory EXCEPT !.state = "deleted"], NEW upTo \in 0..4,
         disk' = FilesAfter(disk, d, upTo, TRUE), Dies,
         storePast' \in PastSet, storePast'.hit = storePast.hit \cup Late,
         storePast'.torn = storePast.torn, storePast'.waiting = {}, storePast'.deleted = storePast.deleted
  PROVE  StoreInv'
<1>1. d \in DocSet /\ d.state = "deleted" /\ d.queue = memory.queue
  BY DeletedDoc
<1>2. /\ memory # Nowhere /\ disk \in FileSet /\ disk.state # "none" /\ memory \in DocSet
      /\ Unharmed => ReadBack(memory, disk) /\ ~storePast.deleted
  BY MemoryKnown
<1>3. disk' \in FileSet /\ disk'.state \in {disk.state, "deleted"}
  <2>1. /\ disk' \in FileSet /\ disk'.state = IF upTo >= 4 THEN d.state ELSE disk.state
    BY <1>1, <1>2, WrittenIs
  <2>. QED BY <1>1, <2>1
<1>4. saves # <<>> => Late = {"late"}
  BY LateIs
<1>5. /\ Unharmed' => Unharmed /\ OwedKept
      /\ Undamaged' => Undamaged /\ PicturesThere
  BY StillGood
<1>6. Unharmed' => saves = <<>>
  BY <1>4 DEF Unharmed, Spared
<1>7. /\ serving' = FALSE /\ memory' = Nowhere /\ saves' = <<>> /\ copies' = <<>> /\ loads' = <<>>
      /\ due' = FALSE /\ database' = database /\ rows' = rows /\ archive' = archive
  BY DEF Dies
<1>8. DOMAIN loads' = {} /\ DOMAIN saves' = {} /\ disk'.state # "none"
  <2>1. DOMAIN loads' = {} /\ DOMAIN saves' = {}
    BY <1>7
  <2>. QED BY <1>2, <1>3, <2>1
<1>9. StoreShape'
  BY <1>3, <1>8, AfterDeath
<1>10. ASSUME Unharmed'
       PROVE  OwedKept'
  <2>1. Unharmed /\ ~storePast.deleted
    BY <1>2, <1>5, <1>10
  <2>2. Owed' = {}
    BY DEF Owed
  <2>3. HasOwed(disk)'
    BY <2>2 DEF HasOwed
  <2>4. InOrder(saves, storePast.deleted)'
    BY <1>8 DEF InOrder
  <2>. QED BY <1>7, <1>8, <2>1, <2>2, <2>3, <2>4 DEF OwedKept
<1>11. ASSUME Undamaged'
       PROVE  PicturesThere'
  <2>1. Undamaged /\ PicturesThere /\ Unharmed /\ saves = <<>> /\ ReadBack(memory, disk) /\ ~storePast.deleted
    BY <1>2, <1>5, <1>6, <1>11 DEF Undamaged
  <2>2. Pictured(disk.queue, disk.pics, disk.turnPic, storePast.torn)
    BY <2>1 DEF PicturesThere, ReadBack
  <2>3. /\ disk'.queue.open = disk.queue.open /\ disk'.queue.turn = disk.queue.turn
        /\ Pictured(disk'.queue, disk'.pics, disk'.turnPic, storePast.torn)
        /\ \A q : Pictured(q, disk.pics, disk.turnPic, storePast.torn)
                  /\ q.open \ storePast.torn \subseteq disk.queue.open
                    => Pictured(q, disk'.pics, disk'.turnPic, storePast.torn)
    <3>1. d.queue = memory.queue /\ d \in DocSet /\ memory \in DocSet /\ disk \in FileSet
      BY <1>1, <1>2
    <3>2. PICK f, g, m, torn : f = disk /\ g = disk' /\ m = memory /\ torn = storePast.torn
      OBVIOUS
    <3>3. /\ f \in FileSet /\ m \in DocSet /\ ReadBack(m, f) /\ d \in DocSet /\ d.queue = m.queue
          /\ Pictured(f.queue, f.pics, f.turnPic, torn) /\ g = FilesAfter(f, d, upTo, TRUE)
      BY <2>1, <2>2, <3>1, <3>2
    <3>4. /\ g.queue.open = f.queue.open /\ g.queue.turn = f.queue.turn
          /\ Pictured(g.queue, g.pics, g.turnPic, torn)
          /\ \A q : Pictured(q, f.pics, f.turnPic, torn) /\ q.open \ torn \subseteq f.queue.open
                      => Pictured(q, g.pics, g.turnPic, torn)
      <4>4. g.queue = m.queue \/ g.queue = f.queue
        BY <3>3 DEF FilesAfter
      <4>1. g.queue.open = f.queue.open /\ g.queue.turn = f.queue.turn
        BY <3>3, <4>4 DEF ReadBack
      <4>2. Pictured(g.queue, g.pics, g.turnPic, torn)
        BY ONLY <3>3, SameFiles
      <4>3. \A q : Pictured(q, f.pics, f.turnPic, torn) /\ q.open \ torn \subseteq f.queue.open
                      => Pictured(q, g.pics, g.turnPic, torn)
        BY ONLY <3>3, SameFiles
      <4>. QED BY <4>1, <4>2, <4>3
    <3>. QED BY <3>2, <3>4
  <2>4. Pictured(disk.queue, disk.pics, disk.turnPic, storePast.torn)'
    BY <2>3
  <2>5. ASSUME database
        PROVE  /\ Pictured(EndQueue, disk.pics, disk.turnPic, storePast.torn)'
               /\ (EndQueue.open \ storePast.torn \subseteq disk.queue.open)'
               /\ (EndQueue.turn \in storePast.torn \cup {0, disk.queue.turn})'
    <3>1. EndQueue' = rows.queue /\ EndQueue = rows.queue
      BY <1>7, <2>1 DEF EndQueue, EndOf
    <3>2. /\ Pictured(rows.queue, disk.pics, disk.turnPic, storePast.torn)
          /\ rows.queue.open \ storePast.torn \subseteq disk.queue.open
          /\ rows.queue.turn \in storePast.torn \cup {0, disk.queue.turn}
      BY <2>1, <2>5, <3>1 DEF PicturesThere
    <3>3. Pictured(rows.queue, disk'.pics, disk'.turnPic, storePast.torn)
      BY <2>3, <3>2
    <3>. QED BY <2>3, <3>1, <3>2, <3>3
  <2>. QED BY <1>7, <1>8, <2>4, <2>5 DEF PicturesThere
<1>. QED BY <1>9, <1>10, <1>11 DEF StoreInv

LEMMA DeleteSteps == ASSUME StoreInv, DeletesRun PROVE StoreInv'
<1>1. PICK d : d = [memory EXCEPT !.state = "deleted"]
  OBVIOUS
<1>2. Working /\ storePast \in PastSet
  BY DEF DeletesRun, StoreInv, StoreShape
<1>3. CASE /\ disk' = Reclaimed(FilesAfter(disk, d, 4, TRUE)) /\ memory' = Nowhere /\ due' = TRUE
           /\ Mirrors(SaveOf(d) \o <<[doc |-> d, at |-> "drop"]>>)
           /\ storePast' = [storePast EXCEPT !.deleted = TRUE, !.waiting = {}]
           /\ UNCHANGED <<database, serving, rows, archive, copies, loads>>
  BY <1>1, <1>2, <1>3, DeleteEnds
<1>4. CASE /\ CanDie /\ \E upTo \in 0..4 : disk' = FilesAfter(disk, d, upTo, TRUE)
           /\ storePast' = [storePast EXCEPT !.crashes = @ + 1, !.waiting = {}, !.hit = @ \cup Late]
           /\ Dies
  <2>1. PICK c \in Deaths : c = storePast.crashes + 1
    BY <1>2, <1>4, StoreCounts DEF PastSet, CanDie
  <2>2. PICK h \in SUBSET Mishaps : h = storePast.hit \cup Late
    BY <1>2, LateIs DEF PastSet
  <2>3. storePast' = [storePast EXCEPT !.crashes = c, !.waiting = {}, !.hit = h]
    BY <1>4, <2>1, <2>2
  <2>4. {} \in SUBSET Posts
    OBVIOUS
  <2>5. /\ storePast' \in PastSet /\ storePast'.hit = h /\ storePast'.torn = storePast.torn
        /\ storePast'.waiting = {} /\ storePast'.deleted = storePast.deleted
    BY ONLY <1>2, <2>3, <2>4 DEF PastSet
  <2>6. PICK upTo \in 0..4 : disk' = FilesAfter(disk, d, upTo, TRUE)
    BY <1>4
  <2>7. /\ storePast' \in PastSet /\ storePast'.hit = storePast.hit \cup Late
        /\ storePast'.torn = storePast.torn /\ storePast'.waiting = {}
        /\ storePast'.deleted = storePast.deleted
    BY <2>2, <2>5
  <2>8. Dies
    BY <1>4
  <2>. QED BY <1>1, <1>2, <2>6, <2>7, <2>8, DeleteTorn
<1>. QED BY <1>1, <1>3, <1>4 DEF DeletesRun

-----------------------------------------------------------------------------
LEMMA RemoveAtIs ==
  ASSUME NEW S, NEW s \in Seq(S), NEW i \in DOMAIN s, NEW new, new = RemoveAt(s, i)
  PROVE  /\ new \in Seq(S) /\ Len(new) = Len(s) - 1 /\ DOMAIN new = 1..(Len(s) - 1)
         /\ \A j \in 1..(Len(s) - 1) : new[j] = IF j < i THEN s[j] ELSE s[j + 1]
<1>. DEFINE k == Len(s)
            a == SubSeq(s, 1, i - 1)
            b == SubSeq(s, i + 1, k)
<1>1. k \in Nat /\ i \in 1..k
  OBVIOUS
<1>2. new = a \o b
  BY DEF RemoveAt
<1>3. a \in Seq(S) /\ Len(a) = i - 1 /\ \A j \in 1..(i - 1) : a[j] = s[j]
  BY <1>1
<1>4. b \in Seq(S) /\ Len(b) = k - i /\ \A j \in 1..(k - i) : b[j] = s[i + j]
  BY <1>1
<1>. HIDE DEF a, b
<1>5. /\ new \in Seq(S) /\ Len(new) = k - 1 /\ DOMAIN new = 1..(k - 1)
      /\ \A j \in 1..(k - 1) : new[j] = IF j <= i - 1 THEN a[j] ELSE b[j - (i - 1)]
  <2>. DEFINE la == i - 1
              lb == k - i
  <2>1. la \in Nat /\ lb \in Nat /\ la + lb = k - 1 /\ Len(a) = la /\ Len(b) = lb
    BY <1>1, <1>3, <1>4
  <2>. HIDE DEF la, lb, k
  <2>2. /\ new \in Seq(S) /\ Len(new) = la + lb /\ DOMAIN new = 1..(la + lb)
        /\ \A j \in 1..(la + lb) : new[j] = IF j <= la THEN a[j] ELSE b[j - la]
    <3>1. a \in Seq(S) /\ b \in Seq(S)
      BY <1>3, <1>4
    <3>2. /\ a \o b \in Seq(S) /\ Len(a \o b) = Len(a) + Len(b)
          /\ DOMAIN (a \o b) = 1..(Len(a) + Len(b))
          /\ \A j \in 1..(Len(a) + Len(b)) : (a \o b)[j] = IF j <= Len(a) THEN a[j] ELSE b[j - Len(a)]
      BY ONLY <3>1
    <3>. QED BY <1>2, <2>1, <3>2
  <2>. QED BY <2>1, <2>2 DEF la
<1>6. ASSUME NEW j \in 1..(k - 1)
      PROVE  new[j] = IF j < i THEN s[j] ELSE s[j + 1]
  <2>1. CASE j < i
    <3>1. j \in 1..(i - 1) /\ j <= i - 1
      BY <1>1, <2>1
    <3>. QED BY <1>3, <1>5, <2>1, <3>1
  <2>2. CASE ~(j < i)
    <3>1. j - (i - 1) \in 1..(k - i) /\ i + (j - (i - 1)) = j + 1 /\ ~(j <= i - 1)
      BY <1>1, <2>2
    <3>2. b[j - (i - 1)] = s[j + 1]
      BY <1>4, <3>1
    <3>. QED BY <1>5, <2>2, <3>1, <3>2
  <2>. QED BY <2>1, <2>2
<1>. QED BY <1>5, <1>6

LEMMA AtIs ==
  ASSUME NEW ss \in Seq(SaveSet), NEW i \in DOMAIN ss, NEW stage \in {"queue", "record", "drop"},
         NEW new, new = At(ss, i, stage)
  PROVE  /\ new \in Seq(SaveSet) /\ Len(new) = Len(ss) /\ DOMAIN new = DOMAIN ss
         /\ \A j \in DOMAIN ss : new[j].doc = ss[j].doc /\ new[j].at = IF j = i THEN stage ELSE ss[j].at
<1>1. ss[i] \in SaveSet
  OBVIOUS
<1>2. PICK e : e = [ss[i] EXCEPT !.at = stage]
  OBVIOUS
<1>3. e \in SaveSet /\ e.doc = ss[i].doc /\ e.at = stage
  BY <1>1, <1>2 DEF SaveSet
<1>4. new = [ss EXCEPT ![i] = e]
  BY <1>2 DEF At
<1>. QED BY <1>3, <1>4

\* A save lands that overtakes none.
FirstOf(ss, i) == \A j \in DOMAIN ss : j < i => ss[j].at # ss[i].at /\ ss[i].at # "drop"

LEMMA QueueLands ==
  ASSUME NEW ss \in Seq(SaveSet), NEW i \in DOMAIN ss, NEW gone, InOrder(ss, gone),
         ss[i].at = "queue", NEW new, new = At(ss, i, "record")
  PROVE  /\ InOrder(new, gone) \/ ~FirstOf(ss, i)
         /\ ~gone => \A q : EndOf(new, ss[i].doc.queue) = EndOf(ss, q)
         /\ \A st : EndsGone(ss, st) => EndsGone(new, st)
<1>. DEFINE k == Len(ss)
<1>1. k \in Nat /\ DOMAIN ss = 1..k /\ i \in 1..k /\ ss # <<>>
  OBVIOUS
<1>2. /\ Len(new) = k /\ DOMAIN new = 1..k
      /\ \A j \in 1..k : new[j].doc = ss[j].doc /\ new[j].at = IF j = i THEN "record" ELSE ss[j].at
  <2>1. /\ Len(new) = Len(ss) /\ DOMAIN new = DOMAIN ss
        /\ \A j \in DOMAIN ss : new[j].doc = ss[j].doc /\ new[j].at = IF j = i THEN "record" ELSE ss[j].at
    <3>1. PICK st \in {"queue", "record", "drop"} : st = "record"
      OBVIOUS
    <3>2. new = At(ss, i, st)
      BY <3>1
    <3>. QED BY <3>1, <3>2, AtIs
  <2>. QED BY <1>1, <2>1
<1>3. \A j \in 1..k : ss[j].at \in {"queue", "record", "drop"}
  <2>1. \A j \in 1..k : ss[j] \in SaveSet
    BY <1>1
  <2>. QED BY <2>1 DEF SaveSet
<1>. HIDE DEF k
<1>4. ASSUME FirstOf(ss, i)
      PROVE  InOrder(new, gone)
  <2>1. \A j \in 1..k : j < i => ss[j].at = "record"
    <3>1. \A j \in 1..k : j < i => ss[j].at # "drop"
      BY <1>1, k = Len(ss) DEF InOrder, k
    <3>2. \A j \in 1..k : j < i => ss[j].at # "queue"
      BY <1>1, <1>4 DEF FirstOf
    <3>. QED BY <1>3, <3>1, <3>2
  <2>2. ASSUME NEW a \in 1..k, new[a].at = "record", NEW b \in 1..k, b < a
        PROVE  new[b].at = "record"
    <3>1. CASE a = i
      BY <1>1, <1>2, <2>1, <2>2, <3>1
    <3>2. CASE a # i
      <4>1. ss[a].at = "record"
        BY <1>2, <2>2, <3>2
      <4>2. ss[b].at = "record"
        BY <1>1, <2>2, <4>1 DEF InOrder
      <4>. QED BY <1>2, <4>2
    <3>. QED BY <3>1, <3>2
  <2>3. ASSUME NEW a \in 1..k, new[a].at = "drop"
        PROVE  a = k /\ gone
    <3>1. ss[a].at = "drop"
      BY <1>2, <2>3
    <3>. QED BY <1>1, <3>1 DEF InOrder, k
  <2>. QED BY <1>2, <2>2, <2>3 DEF InOrder
<1>5. ASSUME ~gone, NEW q
      PROVE  EndOf(new, ss[i].doc.queue) = EndOf(ss, q)
  <2>1. k \in 1..k /\ new # <<>>
    BY <1>1, <1>2
  <2>2. ss[k].at # "drop"
    BY <1>1, <1>5, <2>1 DEF InOrder
  <2>3. ss[k].at # "record"
    <3>1. CASE k = i
      BY <3>1
    <3>2. CASE k # i
      <4>1. i < k
        BY <1>1, <3>2
      <4>. QED BY <1>1, <2>1, <4>1 DEF InOrder
    <3>. QED BY <3>1, <3>2
  <2>4. ss[k].at = "queue"
    BY <1>3, <2>1, <2>2, <2>3
  <2>5. EndOf(ss, q) = ss[k].doc.queue
    BY <1>1, <2>4 DEF EndOf, k
  <2>6. EndOf(new, ss[i].doc.queue) = IF k # i THEN new[k].doc.queue ELSE ss[i].doc.queue
    BY <1>2, <2>1, <2>4 DEF EndOf
  <2>. QED BY <1>2, <2>1, <2>5, <2>6
<1>6. ASSUME NEW st, EndsGone(ss, st)
      PROVE  EndsGone(new, st)
  <2>1. \A j \in 1..k : Marks(ss, j) => Marks(new, j)
    BY <1>2 DEF Marks
  <2>2. \A j \in 1..k : ss[j].at # "drop" => new[j].at # "drop"
    BY <1>2
  <2>. QED BY <1>1, <1>2, <1>6, <2>1, <2>2 DEF EndsGone
<1>. QED BY <1>4, <1>5, <1>6

LEMMA RecordLands ==
  ASSUME NEW ss \in Seq(SaveSet), NEW i \in DOMAIN ss, NEW gone, InOrder(ss, gone), FirstOf(ss, i),
         ss[i].at = "record", NEW new, new = RemoveAt(ss, i)
  PROVE  /\ InOrder(new, gone) /\ \A q : EndOf(new, q) = EndOf(ss, q)
         /\ \A st : EndsGone(ss, st) => EndsGone(new, ss[i].doc.state)
<1>. DEFINE k == Len(ss)
<1>1. k \in Nat /\ DOMAIN ss = 1..k /\ i \in 1..k /\ ss # <<>> /\ 1 \in 1..k
  OBVIOUS
<1>2. i = 1
  <2>1. CASE 1 < i
    <3>1. ss[1].at = "record"
      BY <1>1, <2>1 DEF InOrder
    <3>. QED BY <1>1, <2>1, <3>1 DEF FirstOf
  <2>. QED BY <1>1, <2>1
<1>3. /\ Len(new) = k - 1 /\ DOMAIN new = 1..(k - 1) /\ new \in Seq(SaveSet)
      /\ \A j \in 1..(k - 1) : new[j] = IF j < i THEN ss[j] ELSE ss[j + 1]
  BY RemoveAtIs
<1>. HIDE DEF k
<1>4. \A j \in 1..(k - 1) : j + 1 \in 1..k /\ new[j] = ss[j + 1] /\ Marks(new, j) = Marks(ss, j + 1)
  <2>1. \A j \in 1..(k - 1) : j + 1 \in 1..k /\ new[j] = ss[j + 1]
    BY <1>1, <1>2, <1>3
  <2>. QED BY <2>1 DEF Marks
<1>5. InOrder(new, gone)
  <2>1. ASSUME NEW a \in 1..(k - 1), new[a].at = "record", NEW b \in 1..(k - 1), b < a
        PROVE  new[b].at = "record"
    <3>1. a + 1 \in 1..k /\ b + 1 \in 1..k /\ b + 1 < a + 1 /\ ss[a + 1].at = "record"
      BY <1>1, <1>4, <2>1
    <3>2. ss[b + 1].at = "record"
      BY <1>1, <3>1 DEF InOrder
    <3>. QED BY <1>4, <3>2
  <2>2. ASSUME NEW a \in 1..(k - 1), new[a].at = "drop"
        PROVE  a = k - 1 /\ gone
    <3>1. a + 1 \in 1..k /\ ss[a + 1].at = "drop"
      BY <1>4, <2>2
    <3>2. a + 1 = k /\ gone
      BY <1>1, <3>1 DEF InOrder, k
    <3>. QED BY <1>1, <3>2
  <2>. QED BY <1>3, <2>1, <2>2 DEF InOrder
<1>6. ASSUME NEW q
      PROVE  EndOf(new, q) = EndOf(ss, q)
  <2>1. CASE k = 1
    <3>1. new = <<>>
      BY <1>3, <2>1
    <3>2. ss[Len(ss)].at = "record"
      BY <1>2, <2>1 DEF k
    <3>. QED BY <3>1, <3>2 DEF EndOf
  <2>2. CASE k # 1
    <3>1. k - 1 \in 1..(k - 1) /\ (k - 1) + 1 = k
      BY <1>1, <2>2
    <3>2. new # <<>> /\ new[k - 1] = ss[k]
      <4>1. new[k - 1] = ss[(k - 1) + 1]
        BY <1>4, <3>1
      <4>. QED BY <1>3, <3>1, <4>1
    <3>. QED BY <1>1, <1>3, <3>2 DEF EndOf, k
  <2>. QED BY <2>1, <2>2
<1>7. ASSUME NEW st, EndsGone(ss, st)
      PROVE  EndsGone(new, ss[i].doc.state)
  <2>1. CASE \A j \in 1..k : Marks(ss, j)
    <3>1. ss[i].doc.state = "deleted"
      BY <1>1, <2>1 DEF Marks
    <3>2. \A j \in 1..(k - 1) : Marks(new, j)
      BY <1>4, <2>1
    <3>. QED BY <1>3, <3>1, <3>2 DEF EndsGone
  <2>2. CASE ~\A j \in 1..k : Marks(ss, j)
    <3>1. PICK a \in 1..k : ss[a].at # "drop" /\ \A j \in 1..k : a <= j => Marks(ss, j)
      BY <1>1, <1>7, <2>2 DEF EndsGone
    <3>2. a # 1
      BY <2>2, <3>1
    <3>3. a - 1 \in 1..(k - 1) /\ (a - 1) + 1 = a
      BY <1>1, <3>2
    <3>4. new[a - 1] = ss[a]
      <4>1. new[a - 1] = ss[(a - 1) + 1]
        BY <1>4, <3>3
      <4>. QED BY <3>3, <4>1
    <3>5. ASSUME NEW j \in 1..(k - 1), a - 1 <= j
          PROVE  Marks(new, j)
      <4>1. a <= j + 1
        BY <3>5
      <4>. QED BY <1>4, <3>1, <4>1
    <3>6. \E b \in 1..(k - 1) : new[b].at # "drop" /\ \A j \in 1..(k - 1) : b <= j => Marks(new, j)
      BY <3>1, <3>3, <3>4, <3>5
    <3>. QED BY <1>3, <3>6 DEF EndsGone
  <2>. QED BY <2>1, <2>2
<1>. QED BY <1>5, <1>6, <1>7

LEMMA DropLands ==
  ASSUME NEW ss \in Seq(SaveSet), NEW i \in DOMAIN ss, NEW gone, InOrder(ss, gone), FirstOf(ss, i),
         ss[i].at = "drop", NEW new, new = RemoveAt(ss, i)
  PROVE  gone /\ new = <<>> /\ \A st : EndsGone(ss, st) => st = "deleted"
<1>. DEFINE k == Len(ss)
<1>1. k \in Nat /\ DOMAIN ss = 1..k /\ i \in 1..k
  OBVIOUS
<1>2. i = k /\ gone
  BY <1>1 DEF InOrder
<1>3. k = 1
  <2>1. CASE 1 < k
    <3>1. 1 \in 1..k /\ 1 < i
      BY <1>1, <1>2, <2>1
    <3>. QED BY <1>1, <3>1 DEF FirstOf
  <2>. QED BY <1>1, <2>1
<1>4. Len(new) = 0 /\ new \in Seq(SaveSet)
  BY <1>3, RemoveAtIs
<1>5. new = <<>>
  BY <1>4
<1>6. DOMAIN ss = {1} /\ i = 1
  BY <1>1, <1>3
<1>7. \A st : EndsGone(ss, st) => st = "deleted"
  BY <1>6 DEF EndsGone
<1>. QED BY <1>2, <1>5, <1>7

LEMMA SuffersIs ==
  ASSUME storePast \in PastSet, NEW what \in SUBSET Mishaps, Suffers(what)
  PROVE  /\ storePast' \in PastSet /\ storePast'.hit = storePast.hit \cup what
         /\ storePast'.torn = storePast.torn /\ storePast'.waiting = storePast.waiting
         /\ storePast'.deleted = storePast.deleted
<1>1. PICK h \in SUBSET Mishaps : h = storePast.hit \cup what
  BY DEF PastSet
<1>2. storePast' = [storePast EXCEPT !.hit = h]
  BY <1>1 DEF Suffers
<1>3. /\ storePast' \in PastSet /\ storePast'.hit = h
      /\ storePast'.torn = storePast.torn /\ storePast'.waiting = storePast.waiting
      /\ storePast'.deleted = storePast.deleted
  BY <1>2 DEF PastSet
<1>. QED BY <1>1, <1>3

LEMMA SaveLost == ASSUME StoreInv, NEW i \in DOMAIN saves, SaveFails(i) PROVE StoreInv'
<1>1. /\ saves \in Seq(SaveSet) /\ storePast \in PastSet /\ saves # <<>>
      /\ serving /\ database /\ disk.state # "none"
  BY DEF StoreInv, StoreShape
<1>2. saves' = RemoveAt(saves, i) /\ Suffers({"mirror"})
      /\ UNCHANGED <<database, serving, memory, disk, rows, archive, due, copies, loads>>
  BY DEF SaveFails
<1>3. storePast' \in PastSet /\ storePast'.hit = storePast.hit \cup {"mirror"}
  <2>1. PICK w \in SUBSET Mishaps : w = {"mirror"}
    BY DEF Mishaps
  <2>. QED BY <1>1, <1>2, <2>1, SuffersIs
<1>4. saves' \in Seq(SaveSet)
  BY <1>1, <1>2, RemoveAtIs
<1>5. StoreShape'
  BY <1>1, <1>2, <1>3, <1>4 DEF StoreInv, StoreShape
<1>6. ~Unharmed' /\ ~Undamaged'
  BY <1>3 DEF Unharmed, Undamaged, Spared
<1>. QED BY <1>5, <1>6 DEF StoreInv

LEMMA SaveDone == ASSUME StoreInv, NEW i \in DOMAIN saves, SaveLands(i) PROVE StoreInv'
<1>. DEFINE s == saves[i]
<1>1. /\ saves \in Seq(SaveSet) /\ storePast \in PastSet /\ saves # <<>> /\ rows \in StoredSet
      /\ serving /\ database /\ disk.state # "none" /\ s \in SaveSet
  BY DEF StoreInv, StoreShape
<1>2. s.doc \in DocSet /\ s.at \in {"queue", "record", "drop"}
  BY <1>1 DEF SaveSet
<1>3. /\ Suffers(IF Overtakes(i) THEN {"order"} ELSE {}) /\ saves' = Answered(i)
      /\ rows' = CASE s.at = "queue"  -> [rows EXCEPT !.queue = s.doc.queue, !.has = TRUE]
                   [] s.at = "record" -> [rows EXCEPT !.state = s.doc.state]
                   [] s.at = "drop"   -> [rows EXCEPT !.queue = EmptyQueue, !.has = FALSE]
      /\ UNCHANGED <<database, serving, memory, disk, archive, due, copies, loads>>
  BY DEF SaveLands
<1>4. /\ storePast' \in PastSet /\ storePast.hit \subseteq storePast'.hit
      /\ storePast'.torn = storePast.torn /\ storePast'.waiting = storePast.waiting
      /\ storePast'.deleted = storePast.deleted
      /\ Overtakes(i) => "order" \in storePast'.hit
  <2>1. PICK w \in SUBSET Mishaps : w = IF Overtakes(i) THEN {"order"} ELSE {}
    BY DEF Mishaps
  <2>2. /\ storePast' \in PastSet /\ storePast'.hit = storePast.hit \cup w
        /\ storePast'.torn = storePast.torn /\ storePast'.waiting = storePast.waiting
        /\ storePast'.deleted = storePast.deleted
    BY <1>1, <1>3, <2>1, SuffersIs
  <2>. QED BY <2>1, <2>2
<1>5. /\ rows' \in StoredSet
      /\ s.at = "queue" => rows'.state = rows.state /\ rows'.queue = s.doc.queue
      /\ s.at = "record" => rows'.state = s.doc.state /\ rows'.queue = rows.queue
      /\ s.at = "drop" => rows'.state = rows.state
  <2>. HIDE DEF s
  <2>1. PICK new : new = rows'
    OBVIOUS
  <2>2. PICK r, d, at : r = rows /\ d = s.doc /\ at = s.at
    OBVIOUS
  <2>3. /\ at = "queue"  => new = [r EXCEPT !.queue = d.queue, !.has = TRUE]
        /\ at = "record" => new = [r EXCEPT !.state = d.state]
        /\ at = "drop"   => new = [r EXCEPT !.queue = EmptyQueue, !.has = FALSE]
    BY <1>3, <2>1, <2>2
  <2>4. r \in StoredSet /\ d \in DocSet /\ at \in {"queue", "record", "drop"}
    BY <1>1, <1>2, <2>2
  <2>5. /\ new \in StoredSet
        /\ at = "queue" => new.state = r.state /\ new.queue = d.queue
        /\ at = "record" => new.state = d.state /\ new.queue = r.queue
        /\ at = "drop" => new.state = r.state
    <3>1. d.queue \in QueueSet /\ d.state \in States
      BY <2>4 DEF DocSet
    <3>2. CASE at = "queue"
      <4>1. new = [r EXCEPT !.queue = d.queue, !.has = TRUE]
        BY <2>3, <3>2
      <4>. QED BY <2>4, <3>1, <3>2, <4>1 DEF StoredSet
    <3>3. CASE at = "record"
      <4>1. new = [r EXCEPT !.state = d.state]
        BY <2>3, <3>3
      <4>. QED BY <2>4, <3>1, <3>3, <4>1 DEF StoredSet
    <3>4. CASE at = "drop"
      <4>1. new = [r EXCEPT !.queue = EmptyQueue, !.has = FALSE]
        BY <2>3, <3>4
      <4>. QED BY <2>4, <3>4, <4>1, EmptyTypes DEF StoredSet
    <3>. QED BY <2>4, <3>2, <3>3, <3>4
  <2>. QED BY <2>1, <2>2, <2>5
<1>6. /\ s.at = "queue" => saves' = At(saves, i, "record")
      /\ s.at # "queue" => saves' = RemoveAt(saves, i)
  BY <1>3 DEF Answered
<1>. HIDE DEF s
<1>7. saves' \in Seq(SaveSet)
  <2>1. CASE s.at = "queue"
    <3>1. PICK st \in {"queue", "record", "drop"} : st = "record"
      OBVIOUS
    <3>. QED BY <1>1, <1>6, <2>1, <3>1, AtIs
  <2>2. CASE s.at # "queue"
    BY <1>1, <1>6, <2>2, RemoveAtIs
  <2>. QED BY <2>1, <2>2
<1>8. StoreShape'
  BY <1>1, <1>3, <1>4, <1>5, <1>7 DEF StoreInv, StoreShape
<1>9. /\ Unharmed' => Unharmed /\ OwedKept
      /\ Undamaged' => Undamaged /\ PicturesThere
  BY <1>4, StillGood
<1>10. Unharmed' => FirstOf(saves, i)
  <2>1. ASSUME ~Overtakes(i)
        PROVE  FirstOf(saves, i)
    <3>1. ASSUME NEW j \in DOMAIN saves, j < i
          PROVE  j \in 1..(i - 1)
      BY <1>1, <3>1
    <3>. QED BY <2>1, <3>1 DEF Overtakes, FirstOf
  <2>2. Unharmed' => "order" \notin storePast'.hit
    BY DEF Unharmed, Spared
  <2>. QED BY <1>4, <2>1, <2>2
<1>11. ASSUME Unharmed
       PROVE  InOrder(saves, storePast.deleted) /\ (memory # Nowhere \/ disk.state = "deleted")
  BY <1>1, <1>11 DEF StoreInv, OwedKept
<1>12. ASSUME Unharmed, FirstOf(saves, i)
       PROVE  /\ InOrder(saves', storePast.deleted) /\ (~storePast.deleted => EndQueue' = EndQueue)
              /\ EndsGone(saves, rows.state) => EndsGone(saves', rows'.state)
  <2>1. CASE s.at = "queue"
    <3>1. saves' = At(saves, i, "record") /\ saves[i].at = "queue"
      BY <1>6, <2>1 DEF s
    <3>2. /\ InOrder(saves', storePast.deleted)
          /\ ~storePast.deleted => \A q : EndOf(saves', saves[i].doc.queue) = EndOf(saves, q)
          /\ \A st : EndsGone(saves, st) => EndsGone(saves', st)
      BY <1>1, <1>11, <1>12, <3>1, QueueLands
    <3>3. rows'.state = rows.state /\ rows'.queue = saves[i].doc.queue
      BY <1>5, <2>1 DEF s
    <3>. QED BY <3>2, <3>3 DEF EndQueue
  <2>2. CASE s.at = "record"
    <3>1. saves' = RemoveAt(saves, i) /\ saves[i].at = "record"
      BY <1>6, <2>2 DEF s
    <3>2. /\ InOrder(saves', storePast.deleted) /\ \A q : EndOf(saves', q) = EndOf(saves, q)
          /\ \A st : EndsGone(saves, st) => EndsGone(saves', saves[i].doc.state)
      BY <1>1, <1>11, <1>12, <3>1, RecordLands
    <3>3. rows'.state = saves[i].doc.state /\ rows'.queue = rows.queue
      BY <1>5, <2>2 DEF s
    <3>. QED BY <3>2, <3>3 DEF EndQueue
  <2>3. CASE s.at = "drop"
    <3>1. saves' = RemoveAt(saves, i) /\ saves[i].at = "drop"
      BY <1>6, <2>3 DEF s
    <3>2. storePast.deleted /\ saves' = <<>> /\ \A st : EndsGone(saves, st) => st = "deleted"
      BY <1>1, <1>11, <1>12, <3>1, DropLands
    <3>3. rows'.state = rows.state
      BY <1>5, <2>3
    <3>4. DOMAIN saves' = {}
      BY <3>2
    <3>5. InOrder(saves', storePast.deleted)
      BY <3>4 DEF InOrder
    <3>6. EndsGone(saves, rows.state) => EndsGone(saves', rows'.state)
      BY <3>2, <3>3, <3>4 DEF EndsGone
    <3>. QED BY <3>2, <3>5, <3>6
  <2>. QED BY <1>2, <2>1, <2>2, <2>3 DEF s
<1>13. ASSUME Unharmed'
       PROVE  OwedKept'
  <2>1. Unharmed /\ OwedKept /\ (memory # Nowhere \/ disk.state = "deleted")
    BY <1>9, <1>11, <1>13
  <2>2. /\ InOrder(saves', storePast.deleted) /\ (~storePast.deleted => EndQueue' = EndQueue)
        /\ EndsGone(saves, rows.state) => EndsGone(saves', rows'.state)
    BY <1>10, <1>12, <1>13, <2>1
  <2>3. Owed' = Owed
    BY <1>4 DEF Owed
  <2>4. (memory # Nowhere => ReadBack(memory, disk))'
    BY <1>3, <2>1 DEF OwedKept
  <2>5. (IF disk.state # "none" THEN HasOwed(disk) ELSE HasOwed(archive))'
    BY <1>3, <2>1, <2>3 DEF OwedKept, HasOwed
  <2>6. ~(memory = Nowhere /\ disk.state # "deleted")'
    BY <1>3, <2>1
  <2>7. InOrder(saves, storePast.deleted)'
    BY <1>4, <2>2
  <2>8. (database /\ ~storePast.deleted => Owed \subseteq EndQueue.open)'
    BY <1>3, <1>4, <2>1, <2>2, <2>3 DEF OwedKept
  <2>9. (storePast.deleted =>
          /\ storePast.waiting = {} /\ memory = Nowhere /\ disk.state \in {"none", "deleted"}
          /\ disk.state = "none" => /\ archive.state = "deleted"
                                    /\ \A k \in DOMAIN loads : loads[k].doc.state = "deleted"
          /\ database => EndsGone(saves, rows.state))'
    BY <1>3, <1>4, <2>1, <2>2 DEF OwedKept
  <2>. QED BY <2>4, <2>5, <2>6, <2>7, <2>8, <2>9 DEF OwedKept
<1>14. ASSUME Undamaged'
       PROVE  PicturesThere'
  <2>1. Unharmed /\ PicturesThere /\ Unharmed'
    BY <1>9, <1>14 DEF Undamaged
  <2>2. ~storePast.deleted => EndQueue' = EndQueue
    BY <1>10, <1>12, <2>1
  <2>. QED BY <1>3, <1>4, <2>1, <2>2 DEF PicturesThere
<1>. QED BY <1>8, <1>13, <1>14 DEF StoreInv

-----------------------------------------------------------------------------
\* Nothing that counts has changed.
LEMMA SameRest ==
  ASSUME StoreInv, UNCHANGED <<database, memory, disk, rows, saves, loads>>,
         disk.state # "none" \/ archive' = archive,
         storePast' \in PastSet, storePast.hit \subseteq storePast'.hit, storePast'.torn = storePast.torn,
         storePast'.waiting = storePast.waiting, storePast'.deleted = storePast.deleted
  PROVE  (Unharmed' => OwedKept') /\ (Undamaged' => PicturesThere')
<1>1. /\ Unharmed' => Unharmed /\ OwedKept
      /\ Undamaged' => Undamaged /\ PicturesThere
  BY StillGood
<1>2. Owed' = Owed /\ EndQueue' = EndQueue
  BY DEF Owed, EndQueue
<1>3. ASSUME NEW i, Whence(i)
      PROVE  Whence(i)'
  BY <1>2, <1>3 DEF Whence, HasOwed
<1>4. ASSUME Unharmed'
      PROVE  OwedKept'
  <2>1. OwedKept
    BY <1>1, <1>4
  <2>2. (IF disk.state # "none" THEN HasOwed(disk) ELSE HasOwed(archive))'
    BY <1>2, <2>1 DEF OwedKept, HasOwed
  <2>3. (memory = Nowhere /\ disk.state # "deleted" => saves = <<>> /\ \A i \in DOMAIN loads : Whence(i))'
    BY <1>3, <2>1 DEF OwedKept
  <2>4. (memory # Nowhere => ReadBack(memory, disk))'
    BY <2>1 DEF OwedKept
  <2>5. InOrder(saves, storePast.deleted)' /\ (database /\ ~storePast.deleted => Owed \subseteq EndQueue.open)'
    BY <1>2, <2>1 DEF OwedKept
  <2>6. (storePast.deleted =>
          /\ storePast.waiting = {} /\ memory = Nowhere /\ disk.state \in {"none", "deleted"}
          /\ disk.state = "none" => /\ archive.state = "deleted"
                                    /\ \A i \in DOMAIN loads : loads[i].doc.state = "deleted"
          /\ database => EndsGone(saves, rows.state))'
    BY <2>1 DEF OwedKept
  <2>. QED BY <2>2, <2>3, <2>4, <2>5, <2>6 DEF OwedKept
<1>5. ASSUME Undamaged'
      PROVE  PicturesThere'
  <2>1. PicturesThere
    BY <1>1, <1>5
  <2>. QED BY <1>2, <2>1 DEF PicturesThere
<1>. QED BY <1>4, <1>5

\* A copy to the archive begins with the record as the files have it.
LEMMA CopyBegins == ASSUME StoreInv, CopyStarts PROVE StoreInv'
<1>. DEFINE o == [state |-> disk.state, queue |-> disk.queue, has |-> disk.has]
            c == [of |-> o, at |-> "record"]
<1>1. /\ due /\ serving /\ due' = FALSE /\ copies' = Append(copies, c)
      /\ Suffers(IF copies = <<>> THEN {} ELSE {"disk"})
      /\ UNCHANGED <<database, serving, memory, disk, rows, saves, archive, loads>>
  BY DEF CopyStarts
<1>2. storePast \in PastSet /\ disk \in FileSet /\ disk.state # "none" /\ copies \in Seq(CopySet)
  BY <1>1 DEF StoreInv, StoreShape
<1>3. o \in StoredSet
  BY <1>2 DEF FileSet, StoredSet
<1>4. c \in CopySet
  <2>. HIDE DEF o
  <2>. QED BY <1>3 DEF CopySet
<1>5. copies' \in Seq(CopySet)
  <2>. HIDE DEF c
  <2>. QED BY <1>1, <1>2, <1>4
<1>6. PICK w \in SUBSET Mishaps : w = IF copies = <<>> THEN {} ELSE {"disk"}
  BY DEF Mishaps
<1>7. /\ storePast' \in PastSet /\ storePast'.hit = storePast.hit \cup w
      /\ storePast'.torn = storePast.torn /\ storePast'.waiting = storePast.waiting
      /\ storePast'.deleted = storePast.deleted
  BY <1>1, <1>2, <1>6, SuffersIs
<1>8. StoreShape'
  BY <1>1, <1>2, <1>5, <1>7 DEF StoreInv, StoreShape
<1>9. (Unharmed' => OwedKept') /\ (Undamaged' => PicturesThere')
  BY <1>1, <1>2, <1>7, SameRest
<1>. QED BY <1>8, <1>9 DEF StoreInv

LEMMA CopyOn == ASSUME StoreInv, NEW i \in DOMAIN copies, CopyGoesOn(i) PROVE StoreInv'
<1>. DEFINE c == copies[i]
<1>1. /\ archive' = CASE c.at = "record" -> IF c.of.state = "none" THEN archive
                                            ELSE [archive EXCEPT !.state = c.of.state]
                      [] c.at = "queue" -> IF c.of.has
                                           THEN [archive EXCEPT !.queue = c.of.queue, !.has = TRUE]
                                           ELSE archive
                      [] c.at = "pics" -> [archive EXCEPT !.pics = archive.pics \cup disk.pics,
                                             !.turnPic = IF disk.turnPic # 0 THEN disk.turnPic ELSE archive.turnPic]
      /\ copies' = CASE c.at = "record" -> At(copies, i, "queue")
                     [] c.at = "queue" -> At(copies, i, "pics")
                     [] c.at = "pics" -> RemoveAt(copies, i)
      /\ UNCHANGED <<database, serving, memory, disk, rows, saves, due, loads, storePast>>
  BY DEF CopyGoesOn
<1>2. /\ storePast \in PastSet /\ disk \in FileSet /\ disk.state # "none" /\ copies \in Seq(CopySet)
      /\ archive \in FileSet /\ c \in CopySet /\ serving
  BY DEF StoreInv, StoreShape
<1>3. c.of \in StoredSet /\ c.at \in {"record", "queue", "pics"}
  BY <1>2 DEF CopySet
<1>. HIDE DEF c
<1>4. archive' \in FileSet
  <2>1. CASE c.at = "record"
    <3>1. archive' = archive \/ archive' = [archive EXCEPT !.state = c.of.state]
      BY <1>1, <2>1
    <3>2. c.of.state \in States
      BY <1>3 DEF StoredSet
    <3>. QED BY <1>2, <3>1, <3>2 DEF FileSet
  <2>2. CASE c.at = "queue"
    <3>1. archive' = archive \/ archive' = [archive EXCEPT !.queue = c.of.queue, !.has = TRUE]
      BY <1>1, <2>2
    <3>2. c.of.queue \in QueueSet
      BY <1>3 DEF StoredSet
    <3>. QED BY <1>2, <3>1, <3>2 DEF FileSet
  <2>3. CASE c.at = "pics"
    <3>1. PICK pics \in SUBSET Posts : pics = archive.pics \cup disk.pics
      BY <1>2 DEF FileSet
    <3>2. PICK tp \in Turns : tp = IF disk.turnPic # 0 THEN disk.turnPic ELSE archive.turnPic
      BY <1>2 DEF FileSet
    <3>3. archive' = [archive EXCEPT !.pics = pics, !.turnPic = tp]
      BY <1>1, <2>3, <3>1, <3>2
    <3>. QED BY <1>2, <3>3 DEF FileSet
  <2>. QED BY <1>3, <2>1, <2>2, <2>3
<1>5. copies' \in Seq(CopySet)
  <2>1. ASSUME NEW stage \in {"record", "queue", "pics"}
        PROVE  At(copies, i, stage) \in Seq(CopySet)
    <3>1. PICK e : e = [copies[i] EXCEPT !.at = stage]
      OBVIOUS
    <3>2. e \in CopySet
      BY <1>2, <3>1 DEF CopySet, c
    <3>3. At(copies, i, stage) = [copies EXCEPT ![i] = e]
      BY <3>1 DEF At
    <3>. QED BY <1>2, <3>2, <3>3
  <2>2. CASE c.at = "record"
    <3>1. copies' = At(copies, i, "queue")
      BY <1>1, <2>2
    <3>. QED BY <2>1, <3>1
  <2>3. CASE c.at = "queue"
    <3>1. copies' = At(copies, i, "pics")
      BY <1>1, <2>3
    <3>. QED BY <2>1, <3>1
  <2>4. CASE c.at = "pics"
    <3>1. copies' = RemoveAt(copies, i)
      BY <1>1, <2>4
    <3>. QED BY <1>2, <3>1, RemoveAtIs
  <2>. QED BY <1>3, <2>2, <2>3, <2>4
<1>6. StoreShape'
  BY <1>1, <1>2, <1>4, <1>5 DEF StoreInv, StoreShape
<1>7. (Unharmed' => OwedKept') /\ (Undamaged' => PicturesThere')
  BY <1>1, <1>2, SameRest
<1>. QED BY <1>6, <1>7 DEF StoreInv

-----------------------------------------------------------------------------
LEMMA DyingKeeps == ASSUME StoreInv, Dying PROVE StoreInv'
<1>1. /\ Dies /\ CanDie /\ disk' = disk /\ storePast \in PastSet /\ disk \in FileSet
      /\ disk.state = "none" => disk = NoFiles
      /\ storePast' = [storePast EXCEPT !.crashes = storePast.crashes + 1, !.hit = storePast.hit \cup Late]
  BY DEF Dying, StoreInv, StoreShape
<1>2. PICK c \in Deaths : c = storePast.crashes + 1
  BY <1>1, StoreCounts DEF PastSet, CanDie
<1>3. PICK h \in SUBSET Mishaps : h = storePast.hit \cup Late
  BY <1>1, LateIs DEF PastSet
<1>4. storePast' = [storePast EXCEPT !.crashes = c, !.hit = h]
  BY <1>1, <1>2, <1>3
<1>5. /\ storePast' \in PastSet /\ storePast'.hit = h /\ storePast'.torn = storePast.torn
      /\ storePast'.waiting = storePast.waiting /\ storePast'.deleted = storePast.deleted
  BY ONLY <1>1, <1>4 DEF PastSet
<1>6. saves # <<>> => Late = {"late"}
  BY LateIs
<1>7. Unharmed' => saves = <<>>
  BY <1>3, <1>5, <1>6 DEF Unharmed, Spared
<1>8. storePast.hit \subseteq storePast'.hit
  BY <1>3, <1>5
<1>9. /\ Unharmed' => Unharmed /\ OwedKept
      /\ Undamaged' => Undamaged /\ PicturesThere
  BY <1>5, <1>8, StillGood
<1>10. /\ serving' = FALSE /\ memory' = Nowhere /\ saves' = <<>> /\ copies' = <<>> /\ loads' = <<>>
       /\ due' = FALSE /\ database' = database /\ rows' = rows /\ archive' = archive
  BY <1>1 DEF Dies
<1>11. DOMAIN loads' = {} /\ DOMAIN saves' = {}
  BY <1>10
<1>12. StoreShape'
  BY <1>1, <1>5, AfterDeath
<1>13. Owed' = Owed
  BY <1>5 DEF Owed
<1>14. ASSUME Unharmed'
       PROVE  OwedKept'
  <2>1. OwedKept /\ saves = <<>>
    BY <1>7, <1>9, <1>14
  <2>2. EndQueue' = EndQueue
    BY <1>10, <2>1 DEF EndQueue
  <2>3. (IF disk.state # "none" THEN HasOwed(disk) ELSE HasOwed(archive))'
    BY <1>1, <1>10, <1>13, <2>1 DEF OwedKept, HasOwed
  <2>4. InOrder(saves, storePast.deleted)'
    BY <1>11 DEF InOrder
  <2>5. (database /\ ~storePast.deleted => Owed \subseteq EndQueue.open)'
    BY <1>5, <1>10, <1>13, <2>1, <2>2 DEF OwedKept
  <2>6. (storePast.deleted =>
          /\ storePast.waiting = {} /\ memory = Nowhere /\ disk.state \in {"none", "deleted"}
          /\ disk.state = "none" => /\ archive.state = "deleted"
                                    /\ \A i \in DOMAIN loads : loads[i].doc.state = "deleted"
          /\ database => EndsGone(saves, rows.state))'
    BY <1>1, <1>5, <1>10, <1>11, <2>1 DEF OwedKept
  <2>. QED BY <1>10, <1>11, <2>3, <2>4, <2>5, <2>6 DEF OwedKept
<1>15. ASSUME Undamaged'
       PROVE  PicturesThere'
  <2>1. PicturesThere /\ saves = <<>>
    BY <1>7, <1>9, <1>15 DEF Undamaged
  <2>2. EndQueue' = EndQueue
    BY <1>10, <2>1 DEF EndQueue
  <2>. QED BY <1>1, <1>5, <1>10, <1>11, <2>1, <2>2 DEF PicturesThere
<1>. QED BY <1>12, <1>14, <1>15 DEF StoreInv

LEMMA DiskLost == ASSUME StoreInv, LosesDisk PROVE StoreInv'
<1>. DEFINE copied == /\ archive.state = disk.state /\ archive.queue = disk.queue
                      /\ disk.pics \subseteq archive.pics /\ archive.turnPic = disk.turnPic
<1>1. /\ ~serving /\ disk # NoFiles /\ disk' = NoFiles
      /\ Suffers((IF copied THEN {} ELSE {"disk"}) \cup (IF database THEN {"picture"} ELSE {}))
      /\ UNCHANGED <<database, serving, memory, rows, saves, archive, due, copies, loads>>
  BY DEF LosesDisk
<1>2. /\ storePast \in PastSet /\ memory = Nowhere /\ saves = <<>> /\ copies = <<>> /\ loads = <<>> /\ ~due
      /\ disk.state # "none"
  BY <1>1 DEF StoreInv, StoreShape
<1>. HIDE DEF copied
<1>3. PICK w \in SUBSET Mishaps : w = (IF copied THEN {} ELSE {"disk"}) \cup (IF database THEN {"picture"} ELSE {})
  BY DEF Mishaps
<1>4. /\ storePast' \in PastSet /\ storePast'.hit = storePast.hit \cup w
      /\ storePast'.torn = storePast.torn /\ storePast'.waiting = storePast.waiting
      /\ storePast'.deleted = storePast.deleted
  BY <1>1, <1>2, <1>3, SuffersIs
<1>5. storePast.hit \subseteq storePast'.hit /\ (~copied => "disk" \in storePast'.hit)
      /\ (database => "picture" \in storePast'.hit)
  BY <1>3, <1>4
<1>6. /\ Unharmed' => Unharmed /\ OwedKept
      /\ Undamaged' => Undamaged /\ PicturesThere
  BY <1>4, <1>5, StillGood
<1>7. (Unharmed' => copied) /\ (Undamaged' => ~database)
  BY <1>5 DEF Unharmed, Undamaged, Spared
<1>8. DOMAIN loads' = {} /\ disk'.state = "none" /\ disk' \in FileSet /\ disk'.queue = EmptyQueue
  BY <1>1, <1>2, EmptyTypes
<1>9. StoreShape'
  BY <1>1, <1>2, <1>4, <1>8 DEF StoreInv, StoreShape
<1>10. Owed' = Owed /\ EndQueue' = EndQueue
  BY <1>1, <1>4 DEF Owed, EndQueue
<1>11. ASSUME Unharmed'
       PROVE  OwedKept'
  <2>1. OwedKept /\ archive.state = disk.state /\ archive.queue = disk.queue
    BY <1>6, <1>7, <1>11 DEF copied
  <2>2. HasOwed(archive)'
    BY <1>1, <1>2, <1>10, <2>1 DEF OwedKept, HasOwed
  <2>3. InOrder(saves, storePast.deleted)'
    BY <1>1, <1>4, <2>1 DEF OwedKept
  <2>4. (database /\ ~storePast.deleted => Owed \subseteq EndQueue.open)'
    BY <1>1, <1>4, <1>10, <2>1 DEF OwedKept
  <2>5. (storePast.deleted =>
          /\ storePast.waiting = {} /\ memory = Nowhere /\ disk.state \in {"none", "deleted"}
          /\ disk.state = "none" => /\ archive.state = "deleted"
                                    /\ \A i \in DOMAIN loads : loads[i].doc.state = "deleted"
          /\ database => EndsGone(saves, rows.state))'
    BY <1>1, <1>2, <1>4, <1>8, <2>1 DEF OwedKept
  <2>. QED BY <1>1, <1>2, <1>8, <2>2, <2>3, <2>4, <2>5 DEF OwedKept
<1>12. ASSUME Undamaged'
       PROVE  PicturesThere'
  <2>1. /\ PicturesThere /\ ~database /\ copied
    BY <1>6, <1>7, <1>12 DEF Undamaged
  <2>2. Pictured(disk.queue, disk.pics, disk.turnPic, storePast.torn)'
    BY <1>1, EmptyTypes DEF Pictured
  <2>3. (disk.state = "none" /\ archive.state # "deleted" =>
          Pictured(archive.queue, archive.pics, archive.turnPic, storePast.torn))'
    BY <1>1, <1>4, <2>1 DEF PicturesThere, Pictured, copied
  <2>. QED BY <1>1, <1>2, <1>8, <2>1, <2>2, <2>3 DEF PicturesThere
<1>. QED BY <1>9, <1>11, <1>12 DEF StoreInv

-----------------------------------------------------------------------------
\* Memory takes what the files hold, and nothing else has changed.
LEMMA TakesFiles ==
  ASSUME StoreInv, memory = Nowhere, memory' = Hydrated(disk), serving' = TRUE,
         saves = <<>> \/ disk.state \notin {"none", "deleted"},
         loads = <<>> \/ disk.state \notin {"none", "deleted"},
         UNCHANGED <<database, disk, rows, saves, archive, due, copies, loads, storePast>>
  PROVE  StoreInv'
<1>1. disk \in FileSet /\ storePast \in PastSet /\ (disk.state = "none" => memory' = Nowhere)
  BY HydratedIs DEF StoreInv, StoreShape
<1>2. /\ memory' \in DocSet
      /\ disk.state \in {"none", "deleted"} => memory' = Nowhere
      /\ disk.state \notin {"none", "deleted"} => ReadBack(memory', disk) /\ memory' # Nowhere
  BY <1>1, HydratedIs
<1>3. /\ Unharmed' => Unharmed /\ OwedKept
      /\ Undamaged' => Undamaged /\ PicturesThere
  BY <1>1, StillGood
<1>4. Owed' = Owed /\ EndQueue' = EndQueue
  BY DEF Owed, EndQueue
<1>5. StoreShape'
  BY <1>1, <1>2 DEF StoreInv, StoreShape
<1>6. memory' = Nowhere => saves = <<>> /\ loads = <<>>
  BY <1>2
<1>7. ASSUME Unharmed'
      PROVE  OwedKept'
  <2>1. OwedKept
    BY <1>3, <1>7
  <2>2. (memory # Nowhere => ReadBack(memory, disk))'
    BY <1>2
  <2>3. (IF disk.state # "none" THEN HasOwed(disk) ELSE HasOwed(archive))'
    BY <1>4, <2>1 DEF OwedKept, HasOwed
  <2>4. (memory = Nowhere /\ disk.state # "deleted" => saves = <<>> /\ \A i \in DOMAIN loads : Whence(i))'
    <3>1. memory' = Nowhere => saves' = <<>> /\ DOMAIN loads' = {}
      BY <1>6
    <3>. QED BY <3>1
  <2>5. InOrder(saves, storePast.deleted)' /\ (database /\ ~storePast.deleted => Owed \subseteq EndQueue.open)'
    BY <1>4, <2>1 DEF OwedKept
  <2>6. (storePast.deleted =>
          /\ storePast.waiting = {} /\ memory = Nowhere /\ disk.state \in {"none", "deleted"}
          /\ disk.state = "none" => /\ archive.state = "deleted"
                                    /\ \A i \in DOMAIN loads : loads[i].doc.state = "deleted"
          /\ database => EndsGone(saves, rows.state))'
    BY <1>2, <2>1 DEF OwedKept
  <2>. QED BY <2>2, <2>3, <2>4, <2>5, <2>6 DEF OwedKept
<1>8. ASSUME Undamaged'
      PROVE  PicturesThere'
  <2>1. PicturesThere
    BY <1>3, <1>8
  <2>2. memory' = Nowhere => loads' = <<>> /\ DOMAIN loads' = {}
    BY <1>6
  <2>. QED BY <1>4, <2>1, <2>2 DEF PicturesThere
<1>. QED BY <1>5, <1>7, <1>8 DEF StoreInv

LEMMA LoadsFileKeeps == ASSUME StoreInv, LoadsFile PROVE StoreInv'
<1>1. /\ serving /\ memory = Nowhere /\ Hydrated(disk) # Nowhere /\ memory' = Hydrated(disk) /\ serving' = serving
      /\ UNCHANGED <<database, disk, rows, saves, archive, due, copies, loads, storePast>>
  BY DEF LoadsFile
<1>2. disk.state \notin {"none", "deleted"} /\ serving \in BOOLEAN
  <2>1. disk \in FileSet /\ serving \in BOOLEAN
    BY DEF StoreInv, StoreShape
  <2>. QED BY <1>1, <2>1, HydratedIs
<1>. QED BY <1>1, <1>2, TakesFiles

\* The row is written over the files, and memory takes what they hold then.
LEMMA HydratesKeeps ==
  ASSUME StoreInv, ~serving, serving' = TRUE, database, rows.state \notin {"none", "deleted"},
         disk' = FilesAfter(disk, Merged(rows), 4, FALSE), memory' = Hydrated(disk'),
         UNCHANGED <<database, rows, saves, archive, due, copies, loads, storePast>>
  PROVE  StoreInv'
<1>1. /\ memory = Nowhere /\ saves = <<>> /\ copies = <<>> /\ loads = <<>> /\ ~due
      /\ rows \in StoredSet /\ disk \in FileSet /\ storePast \in PastSet
  BY DEF StoreInv, StoreShape
<1>. DEFINE d == Merged(rows)
<1>2. d.state = rows.state /\ d.queue = rows.queue /\ d \in DocSet
  <2>1. d = [state |-> rows.state, queue |-> rows.queue] /\ d \in DocSet
    BY <1>1, MergedIs
  <2>. HIDE DEF d
  <2>. QED BY <2>1
<1>. HIDE DEF d
<1>3. /\ disk' \in FileSet /\ disk'.state = rows.state /\ disk'.queue = rows.queue
      /\ disk'.pics = disk.pics \cap rows.queue.pics
      /\ disk'.turnPic = IF rows.queue.turnPic = 0 THEN 0 ELSE disk.turnPic
  <2>1. disk' = FilesAfter(disk, d, 4, FALSE)
    BY DEF d
  <2>2. /\ disk' \in FileSet /\ disk'.state = d.state /\ disk'.queue = d.queue
        /\ disk'.pics = disk.pics \cap d.queue.pics
        /\ disk'.turnPic = IF d.queue.turnPic = 0 THEN 0 ELSE disk.turnPic
    <3>1. disk' \in FileSet
      BY <1>1, <1>2, <2>1, TakenIs
    <3>2. disk'.state = d.state
      BY <1>1, <1>2, <2>1, TakenIs
    <3>3. disk'.queue = d.queue
      BY <1>1, <1>2, <2>1, TakenIs
    <3>4. disk'.pics = disk.pics \cap d.queue.pics
      BY <1>1, <1>2, <2>1, TakenIs
    <3>5. disk'.turnPic = IF d.queue.turnPic = 0 THEN 0 ELSE disk.turnPic
      BY <2>1 DEF FilesAfter
    <3>. QED BY <3>1, <3>2, <3>3, <3>4, <3>5
  <2>. QED BY <1>2, <2>2
<1>4. memory' \in DocSet /\ ReadBack(memory', disk') /\ memory' # Nowhere
  <2>1. PICK f : f = disk'
    OBVIOUS
  <2>2. f \in FileSet /\ f.state \notin {"none", "deleted"}
    BY <1>3, <2>1
  <2>3. Hydrated(f) \in DocSet /\ ReadBack(Hydrated(f), f) /\ Hydrated(f) # Nowhere
    BY <2>2, HydratedIs
  <2>. QED BY <2>1, <2>3
<1>5. /\ Unharmed' => Unharmed /\ OwedKept
      /\ Undamaged' => Undamaged /\ PicturesThere
  BY <1>1, StillGood
<1>6. Owed' = Owed /\ EndQueue' = rows.queue /\ EndQueue = rows.queue
  BY <1>1 DEF Owed, EndQueue, EndOf
<1>7. DOMAIN loads' = {} /\ DOMAIN saves' = {} /\ DOMAIN saves = {}
  BY <1>1
<1>8. StoreShape'
  BY <1>1, <1>3, <1>4, <1>7 DEF StoreInv, StoreShape
<1>9. ASSUME Unharmed'
      PROVE  OwedKept'
  <2>1. OwedKept
    BY <1>5, <1>9
  <2>2. ~storePast.deleted
    BY <1>7, <2>1 DEF OwedKept, EndsGone
  <2>3. Owed \subseteq rows.queue.open
    BY <1>6, <2>1, <2>2 DEF OwedKept
  <2>4. HasOwed(disk)'
    BY <1>3, <1>6, <2>3 DEF HasOwed
  <2>5. InOrder(saves, storePast.deleted)'
    BY <1>7 DEF InOrder
  <2>6. (database /\ ~storePast.deleted => Owed \subseteq EndQueue.open)'
    BY <1>6, <2>3
  <2>. QED BY <1>3, <1>4, <2>2, <2>4, <2>5, <2>6 DEF OwedKept
<1>10. ASSUME Undamaged'
       PROVE  PicturesThere'
  <2>1. PicturesThere /\ OwedKept
    BY <1>5, <1>10 DEF StoreInv, Undamaged
  <2>2. ~storePast.deleted
    BY <1>7, <2>1 DEF OwedKept, EndsGone
  <2>3. Pictured(rows.queue, disk.pics, disk.turnPic, storePast.torn)
    BY <1>6, <2>1, <2>2 DEF PicturesThere
  <2>4. Pictured(rows.queue, disk'.pics, disk'.turnPic, storePast.torn)
    BY <1>3, <2>3 DEF Pictured
  <2>5. Pictured(disk.queue, disk.pics, disk.turnPic, storePast.torn)'
    BY <1>3, <2>4
  <2>6. /\ Pictured(EndQueue, disk.pics, disk.turnPic, storePast.torn)'
        /\ (EndQueue.open \ storePast.torn \subseteq disk.queue.open)'
        /\ (EndQueue.turn \in storePast.torn \cup {0, disk.queue.turn})'
    BY <1>3, <1>6, <2>4
  <2>. QED BY <1>1, <1>3, <1>4, <2>5, <2>6 DEF PicturesThere
<1>. QED BY <1>8, <1>9, <1>10 DEF StoreInv

LEMMA StartsKeeps == ASSUME StoreInv, NEW b \in BOOLEAN, Starts(b) PROVE StoreInv'
<1>1. /\ ~serving /\ serving' = TRUE /\ memory' = Hydrated(disk')
      /\ b => database /\ rows.state \notin {"none", "deleted"}
      /\ disk' = IF b THEN FilesAfter(disk, Merged(rows), 4, FALSE) ELSE disk
      /\ UNCHANGED <<database, rows, saves, archive, due, copies, loads, storePast>>
  BY DEF Starts
<1>2. CASE b
  <2>1. disk' = FilesAfter(disk, Merged(rows), 4, FALSE)
    BY <1>1, <1>2
  <2>. QED BY <1>1, <1>2, <2>1, HydratesKeeps
<1>3. CASE ~b
  <2>1. disk' = disk /\ memory' = Hydrated(disk)
    BY <1>1, <1>3
  <2>2. memory = Nowhere /\ saves = <<>> /\ loads = <<>>
    BY <1>1 DEF StoreInv, StoreShape
  <2>. QED BY <1>1, <2>1, <2>2, TakesFiles
<1>. QED BY <1>2, <1>3

-----------------------------------------------------------------------------
\* A load of a run that is not in memory begins: it is one more that waits.
LEMMA AddLoad ==
  ASSUME NEW ls \in Seq(LoadSet), NEW e \in LoadSet
  PROVE  /\ Append(ls, e) \in Seq(LoadSet) /\ Append(ls, e) # <<>>
         /\ \A i \in DOMAIN Append(ls, e) :
              (i \in DOMAIN ls /\ Append(ls, e)[i] = ls[i]) \/ Append(ls, e)[i] = e
OBVIOUS

LEMMA LoadKeeps == ASSUME StoreInv, NEW via \in {"database", "archive"}, LoadStarts(via) PROVE StoreInv'
<1>. DEFINE from == IF via = "database" THEN Merged(rows)
                    ELSE Merged([state |-> archive.state, queue |-> archive.queue, has |-> archive.has])
<1>1. /\ serving /\ memory = Nowhere /\ disk.state = "none"
      /\ IF via = "database" THEN database /\ rows.state \notin {"none", "deleted"}
         ELSE archive.state # "none"
      /\ loads' = Append(loads, [via |-> via, doc |-> from, at |-> "read",
                                 pics |-> archive.pics, turnPic |-> archive.turnPic])
      /\ storePast' = [storePast EXCEPT !.loads = storePast.loads + 1]
      /\ UNCHANGED <<database, serving, memory, disk, rows, saves, archive, due, copies>>
  BY DEF LoadStarts
<1>2. /\ rows \in StoredSet /\ archive \in FileSet /\ storePast \in PastSet /\ loads \in Seq(LoadSet)
      /\ disk = NoFiles
  BY <1>1 DEF StoreInv, StoreShape
<1>3. /\ from \in DocSet
      /\ via = "database" => from.state = rows.state /\ from.queue = rows.queue
      /\ via # "database" => from.state = archive.state /\ from.queue = archive.queue
  <2>1. CASE via = "database"
    <3>1. Merged(rows) = [state |-> rows.state, queue |-> rows.queue] /\ Merged(rows) \in DocSet
      BY <1>2, MergedIs
    <3>2. from = Merged(rows)
      BY <2>1
    <3>. QED BY <2>1, <3>1, <3>2
  <2>2. CASE via # "database"
    <3>1. PICK a : a = [state |-> archive.state, queue |-> archive.queue, has |-> archive.has]
      OBVIOUS
    <3>2. a \in StoredSet /\ a.state = archive.state /\ a.queue = archive.queue
      BY <1>2, <3>1 DEF StoredSet, FileSet
    <3>3. Merged(a) = [state |-> a.state, queue |-> a.queue] /\ Merged(a) \in DocSet
      BY <3>2, MergedIs
    <3>4. from = Merged(a)
      BY <2>2, <3>1
    <3>. QED BY <2>2, <3>2, <3>3, <3>4
  <2>. QED BY <2>1, <2>2
<1>. HIDE DEF from
<1>4. PICK e : e = [via |-> via, doc |-> from, at |-> "read", pics |-> archive.pics, turnPic |-> archive.turnPic]
  OBVIOUS
<1>5. /\ e \in LoadSet /\ e.via = via /\ e.doc = from /\ e.at = "read"
      /\ e.pics = archive.pics /\ e.turnPic = archive.turnPic
  <2>1. archive.pics \in SUBSET Posts /\ archive.turnPic \in Turns
    BY <1>2 DEF FileSet
  <2>. QED BY <1>3, <1>4, <2>1 DEF LoadSet
<1>6. /\ loads' \in Seq(LoadSet) /\ loads' # <<>>
      /\ \A i \in DOMAIN loads' : (i \in DOMAIN loads /\ loads'[i] = loads[i]) \/ loads'[i] = e
  <2>1. loads' = Append(loads, e)
    BY <1>1, <1>4
  <2>. QED BY <1>2, <1>5, <2>1, AddLoad
<1>7. /\ storePast' \in PastSet /\ storePast'.hit = storePast.hit /\ storePast'.torn = storePast.torn
      /\ storePast'.waiting = storePast.waiting /\ storePast'.deleted = storePast.deleted
  <2>1. PICK n \in Asks : n = storePast.loads + 1
    BY <1>2, StoreCounts DEF PastSet, LoadStarts
  <2>2. storePast' = [storePast EXCEPT !.loads = n]
    BY <1>1, <2>1
  <2>. QED BY <1>2, <2>2 DEF PastSet
<1>8. /\ Unharmed' => Unharmed /\ OwedKept
      /\ Undamaged' => Undamaged /\ PicturesThere
  BY <1>7, StillGood
<1>9. Owed' = Owed /\ EndQueue' = EndQueue
  BY <1>1, <1>7 DEF Owed, EndQueue
<1>10. StoreShape'
  <2>1. ASSUME NEW i \in DOMAIN loads'
        PROVE  /\ loads'[i].doc.state # "none"
               /\ loads'[i].via = "database" => database /\ loads'[i].doc.state # "deleted"
               /\ loads'[i].at = "written" => disk.state # "none" /\ loads'[i].via = "database"
    <3>1. CASE i \in DOMAIN loads /\ loads'[i] = loads[i]
      BY <3>1 DEF StoreInv, StoreShape
    <3>2. CASE loads'[i] = e
      BY <1>1, <1>3, <1>5, <3>2
    <3>. QED BY <1>6, <3>1, <3>2
  <2>. QED BY <1>1, <1>2, <1>6, <1>7, <2>1 DEF StoreInv, StoreShape
<1>11. ASSUME Unharmed'
       PROVE  OwedKept'
  <2>1. OwedKept
    BY <1>8, <1>11
  <2>2. saves = <<>> /\ (\A i \in DOMAIN loads : Whence(i)) /\ HasOwed(archive)
    BY <1>1, <2>1 DEF OwedKept
  <2>3. DOMAIN saves = {} /\ EndQueue = rows.queue
    BY <2>2 DEF EndQueue, EndOf
  <2>4. via = "database" => ~storePast.deleted
    BY <1>1, <2>1, <2>3 DEF OwedKept, EndsGone
  <2>5. HasOwed(e.doc)
    <3>1. CASE via = "database"
      <4>1. Owed \subseteq rows.queue.open
        BY <1>1, <2>1, <2>3, <2>4, <3>1 DEF OwedKept
      <4>. QED BY <1>1, <1>3, <1>5, <3>1, <4>1 DEF HasOwed
    <3>2. CASE via # "database"
      BY <1>3, <1>5, <2>2, <3>2 DEF HasOwed
    <3>. QED BY <3>1, <3>2
  <2>6. ASSUME NEW i \in DOMAIN loads'
        PROVE  Whence(i)'
    <3>1. CASE i \in DOMAIN loads /\ loads'[i] = loads[i]
      BY <1>1, <1>9, <2>2, <3>1 DEF Whence, HasOwed
    <3>2. CASE loads'[i] = e
      BY <1>1, <1>3, <1>5, <1>9, <2>5, <3>2 DEF Whence, HasOwed
    <3>. QED BY <1>6, <3>1, <3>2
  <2>7. (IF disk.state # "none" THEN HasOwed(disk) ELSE HasOwed(archive))'
    BY <1>1, <1>9, <2>2 DEF HasOwed
  <2>8. InOrder(saves, storePast.deleted)'
    BY <1>1, <1>7, <2>1 DEF OwedKept
  <2>9. (database /\ ~storePast.deleted => Owed \subseteq EndQueue.open)'
    BY <1>1, <1>7, <1>9, <2>1 DEF OwedKept
  <2>10. ASSUME storePast'.deleted
         PROVE  /\ storePast'.waiting = {} /\ memory' = Nowhere /\ disk'.state \in {"none", "deleted"}
                /\ archive'.state = "deleted"
                /\ \A i \in DOMAIN loads' : loads'[i].doc.state = "deleted"
                /\ database' => EndsGone(saves, rows.state)'
    <3>1. /\ storePast.waiting = {} /\ archive.state = "deleted"
          /\ \A i \in DOMAIN loads : loads[i].doc.state = "deleted"
          /\ database => EndsGone(saves, rows.state)
      BY <1>1, <1>7, <2>1, <2>10 DEF OwedKept
    <3>2. e.doc.state = "deleted"
      BY <1>3, <1>5, <1>7, <2>4, <2>10, <3>1
    <3>3. \A i \in DOMAIN loads' : loads'[i].doc.state = "deleted"
      BY <1>6, <3>1, <3>2
    <3>. QED BY <1>1, <1>7, <3>1, <3>3
  <2>. QED BY <1>1, <2>2, <2>6, <2>7, <2>8, <2>9, <2>10 DEF OwedKept
<1>12. ASSUME Undamaged'
       PROVE  PicturesThere'
  <2>1. PicturesThere
    BY <1>8, <1>12
  <2>2. ~database /\ via # "database"
    BY <1>1, <2>1 DEF PicturesThere
  <2>3. \A i \in DOMAIN loads : loads[i].doc.state # "deleted" =>
          Pictured(loads[i].doc.queue, loads[i].pics, loads[i].turnPic, storePast.torn)
    BY <1>1, <2>1 DEF PicturesThere
  <2>4. e.doc.state # "deleted" => Pictured(e.doc.queue, e.pics, e.turnPic, storePast.torn)
    BY <1>1, <1>3, <1>5, <2>1, <2>2 DEF PicturesThere
  <2>5. \A i \in DOMAIN loads' : loads'[i].doc.state # "deleted" =>
          Pictured(loads'[i].doc.queue, loads'[i].pics, loads'[i].turnPic, storePast.torn)
    BY <1>6, <2>3, <2>4
  <2>. QED BY <1>1, <1>7, <2>1, <2>2, <2>5 DEF PicturesThere
<1>. QED BY <1>10, <1>11, <1>12 DEF StoreInv

-----------------------------------------------------------------------------
LEMMA DroppedLoads ==
  ASSUME NEW ls \in Seq(LoadSet), NEW i \in DOMAIN ls, NEW new, new = RemoveAt(ls, i)
  PROVE  /\ new \in Seq(LoadSet)
         /\ \A j \in DOMAIN new : \E k \in DOMAIN ls : new[j] = ls[k]
<1>1. /\ new \in Seq(LoadSet) /\ DOMAIN new = 1..(Len(ls) - 1)
      /\ \A j \in 1..(Len(ls) - 1) : new[j] = IF j < i THEN ls[j] ELSE ls[j + 1]
  BY RemoveAtIs
<1>2. \A j \in 1..(Len(ls) - 1) : j \in DOMAIN ls /\ j + 1 \in DOMAIN ls
  OBVIOUS
<1>. QED BY <1>1, <1>2

\* The row of a run that is loaded has come.
LEMMA RowKeeps == ASSUME StoreInv, NEW i \in DOMAIN loads, RowLoaded(i) PROVE StoreInv'
<1>. DEFINE d == loads[i].doc
<1>1. /\ loads[i].via = "database" /\ Suffers(Again)
      /\ loads[i].at = "read" => /\ disk' = FilesAfter(disk, d, 4, FALSE)
                                 /\ loads' = At(loads, i, "written") /\ memory' = memory
      /\ loads[i].at # "read" => /\ memory' = Resolved(d, disk)
                                 /\ loads' = RemoveAt(loads, i) /\ disk' = disk
      /\ UNCHANGED <<database, serving, rows, saves, archive, due, copies>>
  BY DEF RowLoaded
<1>2. /\ loads \in Seq(LoadSet) /\ disk \in FileSet /\ storePast \in PastSet /\ loads[i] \in LoadSet
      /\ serving /\ database /\ d.state \notin {"none", "deleted"}
  <2>1. /\ loads \in Seq(LoadSet) /\ disk \in FileSet /\ storePast \in PastSet /\ serving
        /\ d.state # "none" /\ database /\ d.state # "deleted"
    BY <1>1 DEF StoreInv, StoreShape
  <2>. QED BY <2>1
<1>3. d \in DocSet /\ loads[i].at \in {"read", "written"}
  BY <1>2 DEF LoadSet
<1>. HIDE DEF d
<1>4. /\ storePast' \in PastSet /\ storePast.hit \subseteq storePast'.hit
      /\ storePast'.torn = storePast.torn /\ storePast'.waiting = storePast.waiting
      /\ storePast'.deleted = storePast.deleted
      /\ memory # Nowhere \/ disk.state = "deleted" => "reload" \in storePast'.hit
  <2>1. PICK w \in SUBSET Mishaps : w = Again
    BY DEF Again, Mishaps
  <2>2. /\ storePast' \in PastSet /\ storePast'.hit = storePast.hit \cup w
        /\ storePast'.torn = storePast.torn /\ storePast'.waiting = storePast.waiting
        /\ storePast'.deleted = storePast.deleted
    BY <1>1, <1>2, <2>1, SuffersIs
  <2>3. memory # Nowhere \/ disk.state = "deleted" => "reload" \in w
    BY <2>1 DEF Again
  <2>. QED BY <2>2, <2>3
<1>5. loads[i].at = "read" =>
        /\ loads' \in Seq(LoadSet) /\ DOMAIN loads' = DOMAIN loads
        /\ \A j \in DOMAIN loads : /\ loads'[j].doc = loads[j].doc /\ loads'[j].via = loads[j].via
                                   /\ j # i => loads'[j] = loads[j]
  <2>1. PICK e : e = [loads[i] EXCEPT !.at = "written"]
    OBVIOUS
  <2>2. e \in LoadSet /\ e.doc = loads[i].doc /\ e.via = loads[i].via
    BY <1>2, <2>1 DEF LoadSet
  <2>3. loads[i].at = "read" => loads' = [loads EXCEPT ![i] = e]
    BY <1>1, <2>1 DEF At
  <2>. QED BY <1>2, <2>2, <2>3
<1>6. loads[i].at # "read" =>
        /\ loads' \in Seq(LoadSet)
        /\ \A j \in DOMAIN loads' : \E k \in DOMAIN loads : loads'[j] = loads[k]
  BY <1>1, <1>2, DroppedLoads
<1>7. loads[i].at = "read" => disk' \in FileSet /\ disk'.state = d.state /\ disk'.queue = d.queue
  <2>1. ASSUME loads[i].at = "read"
        PROVE  disk' = FilesAfter(disk, d, 4, FALSE)
    BY <1>1, <2>1
  <2>2. loads[i].at = "read" => disk' \in FileSet
    BY <1>2, <1>3, <2>1, TakenIs
  <2>3. loads[i].at = "read" => disk'.state = d.state
    BY <1>2, <1>3, <2>1, TakenIs
  <2>4. loads[i].at = "read" => disk'.queue = d.queue
    BY <1>2, <1>3, <2>1, TakenIs
  <2>. QED BY <2>2, <2>3, <2>4
<1>8. loads[i].at # "read" =>
        /\ memory' \in DocSet /\ memory'.state = d.state /\ memory'.queue.open = d.queue.open
        /\ memory'.queue.pics = d.queue.pics \cap disk.pics /\ memory'.queue.turn = d.queue.turn
        /\ memory'.queue.turnPic = IF d.queue.turnPic = 0 THEN 0 ELSE disk.turnPic
        /\ disk.state # "none" /\ disk' = disk /\ loads[i].at = "written"
  <2>1. ASSUME loads[i].at # "read"
        PROVE  /\ memory' = Resolved(d, disk) /\ loads[i].at = "written" /\ disk' = disk
               /\ disk.state # "none"
    BY <1>1, <1>3, <2>1 DEF StoreInv, StoreShape
  <2>2. PICK r : r = Resolved(d, disk)
    OBVIOUS
  <2>3. /\ r \in DocSet /\ r.state = d.state /\ r.queue.open = d.queue.open
        /\ r.queue.pics = d.queue.pics \cap disk.pics /\ r.queue.turn = d.queue.turn
        /\ r.queue.turnPic = IF d.queue.turnPic = 0 THEN 0 ELSE disk.turnPic
    BY <1>2, <1>3, <2>2, ResolvedIs
  <2>. QED BY <2>1, <2>2, <2>3
<1>9. /\ Unharmed' => Unharmed /\ OwedKept
      /\ ~Undamaged'
  <2>1. /\ Unharmed' => Unharmed /\ OwedKept
        /\ Undamaged' => Undamaged /\ PicturesThere
    BY <1>4, StillGood
  <2>2. loads # <<>>
    BY <1>2
  <2>. QED BY <1>2, <2>1, <2>2 DEF PicturesThere
<1>10. StoreShape'
  <2>1. CASE loads[i].at = "read"
    <3>1. \A j \in DOMAIN loads' :
            /\ loads'[j].doc.state # "none"
            /\ loads'[j].via = "database" => database /\ loads'[j].doc.state # "deleted"
            /\ loads'[j].at = "written" => disk'.state # "none" /\ loads'[j].via = "database"
      BY <1>1, <1>2, <1>5, <1>7, <2>1 DEF StoreInv, StoreShape
    <3>. QED BY <1>1, <1>2, <1>4, <1>5, <1>7, <2>1, <3>1 DEF StoreInv, StoreShape
  <2>2. CASE loads[i].at # "read"
    <3>1. \A j \in DOMAIN loads' :
            /\ loads'[j].doc.state # "none"
            /\ loads'[j].via = "database" => database /\ loads'[j].doc.state # "deleted"
            /\ loads'[j].at = "written" => disk.state # "none" /\ loads'[j].via = "database"
      BY <1>6, <2>2 DEF StoreInv, StoreShape
    <3>. QED BY <1>1, <1>2, <1>4, <1>6, <1>8, <2>2, <3>1 DEF StoreInv, StoreShape
  <2>. QED BY <2>1, <2>2
<1>11. ASSUME Unharmed'
       PROVE  OwedKept'
  <2>1. OwedKept /\ memory = Nowhere /\ disk.state # "deleted"
    BY <1>4, <1>9, <1>11 DEF Unharmed, Spared
  <2>2. saves = <<>> /\ \A j \in DOMAIN loads : Whence(j)
    BY <2>1 DEF OwedKept
  <2>3. ~storePast.deleted
    BY <1>2, <2>1 DEF OwedKept, d
  <2>4. Owed' = Owed /\ EndQueue' = EndQueue
    BY <1>1, <1>4 DEF Owed, EndQueue
  <2>5. HasOwed(loads[i].doc) /\ Whence(i)
    BY <2>2 DEF Whence
  <2>6. InOrder(saves, storePast.deleted)'
    BY <1>1, <1>4, <2>1 DEF OwedKept
  <2>7. (database /\ ~storePast.deleted => Owed \subseteq EndQueue.open)'
    BY <1>1, <1>4, <2>1, <2>4 DEF OwedKept
  <2>8. CASE loads[i].at = "read"
    <3>1. disk'.state = d.state /\ disk'.queue = d.queue /\ memory' = memory
      BY <1>1, <1>7, <2>8
    <3>2. HasOwed(disk)'
      BY <2>4, <2>5, <3>1 DEF HasOwed, d
    <3>3. ASSUME NEW j \in DOMAIN loads'
          PROVE  Whence(j)'
      <4>1. /\ j \in DOMAIN loads /\ loads'[j].doc = loads[j].doc /\ loads'[j].via = loads[j].via
            /\ j # i => loads'[j] = loads[j]
        BY <1>5, <2>8
      <4>2. Whence(j)
        BY <2>2, <4>1
      <4>3. HasOwed(loads[j].doc)'
        BY <2>4, <4>1, <4>2 DEF Whence, HasOwed
      <4>4. loads'[j].via = "database" => loads'[j].doc.state = rows'.state /\ loads'[j].doc.queue = rows'.queue
        BY <1>1, <4>1, <4>2 DEF Whence
      <4>5. loads'[j].at = "written" => disk'.state = loads'[j].doc.state /\ disk'.queue = loads'[j].doc.queue
        <5>1. CASE j = i
          BY <3>1, <4>1, <5>1 DEF d
        <5>2. CASE j # i
          <6>1. ASSUME loads[j].at = "written"
                PROVE  loads[j].via = "database"
            BY <4>1, <6>1 DEF StoreInv, StoreShape
          <6>2. loads[j].at = "written" => loads[j].doc.state = rows.state /\ loads[j].doc.queue = rows.queue
            BY <4>2, <6>1 DEF Whence
          <6>3. d.state = rows.state /\ d.queue = rows.queue
            BY <1>1, <2>5 DEF Whence, d
          <6>. QED BY <3>1, <4>1, <5>2, <6>2, <6>3
        <5>. QED BY <5>1, <5>2
      <4>. QED BY <4>3, <4>4, <4>5 DEF Whence
    <3>4. disk'.state # "none" /\ saves' = <<>>
      BY <1>1, <1>2, <2>2, <3>1
    <3>. QED BY <1>4, <2>1, <2>3, <2>6, <2>7, <3>1, <3>2, <3>3, <3>4 DEF OwedKept
  <2>9. CASE loads[i].at # "read"
    <3>1. disk.state = d.state /\ disk.queue = d.queue
      BY <1>8, <2>5, <2>9 DEF Whence, d
    <3>2. memory' # Nowhere
      BY <1>2, <1>8, <2>9, EmptyTypes
    <3>3. ReadBack(memory, disk)'
      <4>1. PICK m : m = memory'
        OBVIOUS
      <4>2. /\ m.state = d.state /\ m.queue.open = d.queue.open
            /\ m.queue.pics = d.queue.pics \cap disk.pics /\ m.queue.turn = d.queue.turn
            /\ m.queue.turnPic = IF d.queue.turnPic = 0 THEN 0 ELSE disk.turnPic
        BY <1>8, <2>9, <4>1
      <4>3. ReadBack(m, disk)
        BY <1>2, <3>1, <4>2 DEF ReadBack
      <4>4. disk' = disk
        BY <1>8, <2>9
      <4>. QED BY <4>1, <4>3, <4>4
    <3>4. HasOwed(disk)' /\ disk'.state # "none"
      BY <1>8, <2>1, <2>4, <2>9 DEF OwedKept, HasOwed
    <3>. QED BY <1>4, <2>3, <2>6, <2>7, <3>2, <3>3, <3>4 DEF OwedKept
  <2>. QED BY <2>8, <2>9
<1>. QED BY <1>9, <1>10, <1>11 DEF StoreInv

\* The objects of a run have come: the pictures are written, then the record.
LEMMA RestoreRefused ==
  ASSUME StoreInv, NEW i \in DOMAIN loads, Restored(i), Refused
  PROVE  StoreInv'
<1>. DEFINE g == loads[i]
<1>1. /\ loads' = RemoveAt(loads, i) /\ memory' = memory /\ saves' = saves
      /\ disk' = [disk EXCEPT !.pics = @ \cup g.pics, !.turnPic = IF g.turnPic # 0 THEN g.turnPic ELSE @]
      /\ Suffers(IF memory # Nowhere THEN {"reload"} ELSE {})
      /\ UNCHANGED <<database, serving, rows, archive, due, copies>>
  BY DEF Restored
<1>2. /\ loads \in Seq(LoadSet) /\ disk \in FileSet /\ storePast \in PastSet /\ g \in LoadSet
      /\ serving /\ disk.state = "deleted" /\ loads # <<>>
  BY DEF Refused, StoreInv, StoreShape
<1>3. g.pics \in SUBSET Posts /\ g.turnPic \in Turns
  BY <1>2 DEF LoadSet
<1>. HIDE DEF g
<1>4. disk' \in FileSet /\ disk'.state = "deleted" /\ disk'.queue = disk.queue
  <2>1. PICK p \in SUBSET Posts : p = disk.pics \cup g.pics
    BY <1>2, <1>3 DEF FileSet
  <2>2. PICK t \in Turns : t = IF g.turnPic # 0 THEN g.turnPic ELSE disk.turnPic
    BY <1>2, <1>3 DEF FileSet
  <2>3. disk' = [disk EXCEPT !.pics = p, !.turnPic = t]
    BY <1>1, <2>1, <2>2
  <2>4. disk' \in FileSet /\ disk'.state = disk.state /\ disk'.queue = disk.queue
    BY <1>2, <2>3 DEF FileSet
  <2>. QED BY <1>2, <2>4
<1>5. PICK w \in SUBSET Mishaps : w = IF memory # Nowhere THEN {"reload"} ELSE {}
  BY DEF Mishaps
<1>6. /\ storePast' \in PastSet /\ storePast'.hit = storePast.hit \cup w
      /\ storePast'.torn = storePast.torn /\ storePast'.waiting = storePast.waiting
      /\ storePast'.deleted = storePast.deleted
  BY <1>1, <1>2, <1>5, SuffersIs
<1>7. /\ loads' \in Seq(LoadSet)
      /\ \A j \in DOMAIN loads' : \E k \in DOMAIN loads : loads'[j] = loads[k]
  BY <1>1, <1>2, DroppedLoads
<1>8. /\ Unharmed' => Unharmed /\ OwedKept
      /\ Undamaged' => Undamaged /\ PicturesThere
  BY <1>6, StillGood
<1>9. StoreShape'
  <2>1. \A j \in DOMAIN loads' :
          /\ loads'[j].doc.state # "none"
          /\ loads'[j].via = "database" => database /\ loads'[j].doc.state # "deleted"
          /\ loads'[j].at = "written" => disk.state # "none" /\ loads'[j].via = "database"
    BY <1>7 DEF StoreInv, StoreShape
  <2>. QED BY <1>1, <1>2, <1>4, <1>6, <1>7, <2>1 DEF StoreInv, StoreShape
<1>10. Owed' = Owed /\ EndQueue' = EndQueue
  BY <1>1, <1>6 DEF Owed, EndQueue
<1>11. ASSUME Unharmed'
       PROVE  OwedKept'
  <2>1. OwedKept
    BY <1>8, <1>11
  <2>2. memory = Nowhere
    BY <1>2, <2>1 DEF OwedKept, ReadBack
  <2>3. HasOwed(disk)'
    BY <1>2, <1>4, <1>10, <2>1 DEF OwedKept, HasOwed
  <2>4. InOrder(saves, storePast.deleted)'
    BY <1>1, <1>6, <2>1 DEF OwedKept
  <2>5. (database /\ ~storePast.deleted => Owed \subseteq EndQueue.open)'
    BY <1>1, <1>6, <1>10, <2>1 DEF OwedKept
  <2>6. (storePast.deleted => storePast.waiting = {} /\ (database => EndsGone(saves, rows.state)))'
    BY <1>1, <1>6, <2>1 DEF OwedKept
  <2>. QED BY <1>1, <1>4, <2>2, <2>3, <2>4, <2>5, <2>6 DEF OwedKept
<1>12. ASSUME Undamaged'
       PROVE  PicturesThere'
  <2>1. ~database
    BY <1>2, <1>8, <1>12 DEF PicturesThere
  <2>. QED BY <1>1, <1>4, <2>1 DEF PicturesThere
<1>. QED BY <1>9, <1>11, <1>12 DEF StoreInv

LEMMA RestoreDone ==
  ASSUME StoreInv, NEW i \in DOMAIN loads, Restored(i), ~Refused
  PROVE  StoreInv'
<1>. DEFINE g == loads[i]
            d == g.doc
<1>1. PICK f : /\ f = [disk EXCEPT !.pics = @ \cup g.pics, !.turnPic = IF g.turnPic # 0 THEN g.turnPic ELSE @]
               /\ disk' = FilesAfter(f, d, 4, FALSE)
               /\ memory' = IF d.state = "deleted" THEN memory ELSE Resolved(d, disk')
  BY DEF Restored
<1>2. /\ g.via = "archive" /\ loads' = RemoveAt(loads, i) /\ Mirrors(SaveOf(d))
      /\ Suffers(IF memory # Nowhere THEN {"reload"} ELSE {})
      /\ UNCHANGED <<database, serving, rows, archive, due, copies>>
  BY DEF Restored
<1>3. /\ loads \in Seq(LoadSet) /\ disk \in FileSet /\ storePast \in PastSet /\ g \in LoadSet
      /\ serving /\ disk.state # "deleted" /\ loads # <<>> /\ saves \in Seq(SaveSet)
      /\ ~database => saves = <<>>
  BY DEF Refused, StoreInv, StoreShape
<1>4. g.pics \in SUBSET Posts /\ g.turnPic \in Turns /\ d \in DocSet
  BY <1>3 DEF LoadSet
<1>5. d.state # "none"
  BY DEF StoreInv, StoreShape
<1>. HIDE DEF d, g
<1>6. /\ f \in FileSet /\ f.pics = disk.pics \cup g.pics
      /\ f.turnPic = IF g.turnPic # 0 THEN g.turnPic ELSE disk.turnPic
  <2>1. PICK p \in SUBSET Posts : p = disk.pics \cup g.pics
    BY <1>3, <1>4 DEF FileSet
  <2>2. PICK t \in Turns : t = IF g.turnPic # 0 THEN g.turnPic ELSE disk.turnPic
    BY <1>3, <1>4 DEF FileSet
  <2>3. f = [disk EXCEPT !.pics = p, !.turnPic = t]
    BY <1>1, <2>1, <2>2
  <2>4. f \in FileSet /\ f.pics = p /\ f.turnPic = t
    BY <1>3, <2>3 DEF FileSet
  <2>. QED BY <2>1, <2>2, <2>4
<1>7. disk' \in FileSet
  BY <1>1, <1>4, <1>6, TakenIs
<1>8. disk'.state = d.state /\ disk'.queue = d.queue
  <2>1. disk'.state = d.state
    BY <1>1, <1>4, <1>6, TakenIs
  <2>2. disk'.queue = d.queue
    BY <1>1, <1>4, <1>6, TakenIs
  <2>. QED BY <2>1, <2>2
<1>9. disk'.pics = f.pics \cap d.queue.pics
  BY <1>1, <1>4, <1>6, TakenIs
<1>10. disk'.turnPic = IF d.queue.turnPic = 0 THEN 0 ELSE f.turnPic
  BY <1>1 DEF FilesAfter
<1>11. d.state # "deleted" => memory' \in DocSet /\ memory' # Nowhere /\ ReadBack(memory', disk')
  <2>1. PICK x : x = disk'
    OBVIOUS
  <2>2. PICK r : r = Resolved(d, x)
    OBVIOUS
  <2>3. x \in FileSet /\ x.state = d.state /\ x.queue = d.queue
    BY <1>7, <1>8, <2>1
  <2>4. /\ r \in DocSet /\ r.state = d.state /\ r.queue.open = d.queue.open
        /\ r.queue.pics = d.queue.pics \cap x.pics /\ r.queue.turn = d.queue.turn
        /\ r.queue.turnPic = IF d.queue.turnPic = 0 THEN 0 ELSE x.turnPic
    BY <1>4, <2>2, <2>3, ResolvedIs
  <2>5. d.state # "deleted" => ReadBack(r, x) /\ r # Nowhere
    BY <1>5, <2>3, <2>4, EmptyTypes DEF ReadBack
  <2>6. d.state # "deleted" => memory' = r
    BY <1>1, <2>1, <2>2
  <2>. QED BY <2>1, <2>4, <2>5, <2>6
<1>12. d.state = "deleted" => memory' = memory
  BY <1>1
<1>. DEFINE x == [doc |-> d, at |-> "queue"]
<1>13. x \in SaveSet /\ x.at = "queue" /\ x.doc = d
  BY ONLY <1>4 DEF SaveSet
<1>14. saves' = IF database THEN saves \o <<x>> ELSE saves
  BY <1>2 DEF Mirrors, SaveOf
<1>. HIDE DEF x
<1>15. saves' \in Seq(SaveSet)
  BY <1>3, <1>13, <1>14
<1>16. PICK w \in SUBSET Mishaps : w = IF memory # Nowhere THEN {"reload"} ELSE {}
  BY DEF Mishaps
<1>17. /\ storePast' \in PastSet /\ storePast'.hit = storePast.hit \cup w
       /\ storePast'.torn = storePast.torn /\ storePast'.waiting = storePast.waiting
       /\ storePast'.deleted = storePast.deleted
  BY <1>2, <1>3, <1>16, SuffersIs
<1>18. /\ loads' \in Seq(LoadSet)
       /\ \A j \in DOMAIN loads' : \E k \in DOMAIN loads : loads'[j] = loads[k]
  BY <1>2, <1>3, DroppedLoads
<1>19. /\ Unharmed' => Unharmed /\ OwedKept
       /\ Undamaged' => Undamaged /\ PicturesThere
  BY <1>17, StillGood
<1>20. StoreShape'
  <2>1. \A j \in DOMAIN loads' :
          /\ loads'[j].doc.state # "none"
          /\ loads'[j].via = "database" => database /\ loads'[j].doc.state # "deleted"
          /\ loads'[j].at = "written" => loads'[j].via = "database"
    BY <1>18 DEF StoreInv, StoreShape
  <2>2. memory' \in DocSet
    BY <1>11, <1>12 DEF StoreInv, StoreShape
  <2>3. ~database' => saves' = <<>>
    BY <1>2, <1>3, <1>14
  <2>4. disk'.state # "none"
    BY <1>5, <1>8
  <2>. QED BY <1>2, <1>3, <1>7, <1>15, <1>17, <1>18, <2>1, <2>2, <2>3, <2>4 DEF StoreInv, StoreShape
<1>21. Owed' = Owed
  BY <1>17 DEF Owed
<1>22. ASSUME Unharmed'
       PROVE  OwedKept'
  <2>1. OwedKept /\ memory = Nowhere
    BY <1>16, <1>17, <1>19, <1>22 DEF Unharmed, Spared
  <2>2. saves = <<>> /\ HasOwed(d) /\ InOrder(saves, storePast.deleted)
    BY <1>3, <2>1 DEF OwedKept, Whence, d, g
  <2>3. storePast.deleted => d.state = "deleted" /\ storePast.waiting = {}
    <3>1. storePast.deleted => disk.state = "none"
      BY <1>3, <2>1 DEF OwedKept
    <3>. QED BY <2>1, <3>1 DEF OwedKept, d, g
  <2>4. HasOwed(disk)'
    BY <1>8, <1>21, <2>2 DEF HasOwed
  <2>5. CASE ~database
    <3>1. saves' = <<>> /\ ~database'
      BY <1>2, <1>14, <2>2, <2>5
    <3>2. DOMAIN saves' = {}
      BY <3>1
    <3>3. InOrder(saves, storePast.deleted)'
      BY <3>2 DEF InOrder
    <3>4. (memory # Nowhere => ReadBack(memory, disk))' /\ (memory' = Nowhere => disk'.state = "deleted")
      BY <1>8, <1>11, <1>12, <2>1
    <3>5. (storePast.deleted => storePast.waiting = {} /\ memory = Nowhere /\ disk.state = "deleted")'
      BY <1>8, <1>12, <1>17, <2>1, <2>3
    <3>6. disk'.state # "none"
      BY <1>5, <1>8
    <3>. QED BY <2>4, <3>1, <3>3, <3>4, <3>5, <3>6 DEF OwedKept
  <2>6. CASE database
    <3>1. saves' = saves \o <<x>>
      BY <1>14, <2>6
    <3>2. DOMAIN saves = {}
      BY <2>2
    <3>3. /\ InOrder(saves', storePast.deleted) /\ \A q : EndOf(saves', q) = d.queue
      <4>1. \A k \in DOMAIN saves : saves[k].at # "drop"
        BY <3>2
      <4>. QED BY <1>3, <1>13, <2>2, <3>1, <4>1, OneMoreSave
    <3>4. InOrder(saves, storePast.deleted)' /\ EndQueue' = d.queue
      BY <1>17, <3>3 DEF EndQueue
    <3>5. (memory # Nowhere => ReadBack(memory, disk))' /\ (memory' = Nowhere => disk'.state = "deleted")
      BY <1>8, <1>11, <1>12, <2>1
    <3>6. (storePast.deleted => storePast.waiting = {} /\ memory = Nowhere /\ disk.state = "deleted")'
      BY <1>8, <1>12, <1>17, <2>1, <2>3
    <3>7. disk'.state # "none"
      BY <1>5, <1>8
    <3>8. (storePast.deleted => EndsGone(saves, rows.state))'
      <4>1. saves' = <<x>>
        BY <1>13, <2>2, <3>1
      <4>2. DOMAIN saves' = {1} /\ saves'[1] = x
        BY <4>1
      <4>3. storePast'.deleted => Marks(saves', 1) /\ saves'[1].at # "drop"
        BY <1>13, <1>17, <2>3, <4>2 DEF Marks
      <4>4. storePast'.deleted => EndsGone(saves', rows'.state)
        BY <4>2, <4>3 DEF EndsGone
      <4>. QED BY <4>4
    <3>9. (database /\ ~storePast.deleted => Owed \subseteq EndQueue.open)'
      BY <1>21, <2>2, <3>4 DEF HasOwed
    <3>. QED BY <2>4, <3>4, <3>5, <3>6, <3>7, <3>8, <3>9 DEF OwedKept
  <2>. QED BY <2>5, <2>6
<1>23. ASSUME Undamaged'
       PROVE  PicturesThere'
  <2>1. PicturesThere /\ memory = Nowhere
    BY <1>16, <1>17, <1>19, <1>23 DEF Undamaged, Unharmed, Spared
  <2>2. ~database /\ disk.state = "none"
    BY <1>3, <2>1 DEF PicturesThere
  <2>3. f.pics = g.pics /\ f.turnPic = g.turnPic
    <3>1. disk = NoFiles
      BY <2>2 DEF StoreInv, StoreShape
    <3>2. disk.pics = {} /\ disk.turnPic = 0
      BY <3>1, EmptyTypes
    <3>. QED BY <1>4, <1>6, <3>2
  <2>4. d.state # "deleted" => Pictured(d.queue, g.pics, g.turnPic, storePast.torn)
    BY <1>3, <2>1 DEF PicturesThere, d, g
  <2>5. d.state # "deleted" => Pictured(d.queue, disk'.pics, disk'.turnPic, storePast.torn)
    BY <1>9, <1>10, <2>3, <2>4 DEF Pictured
  <2>6. (disk.state # "deleted" => Pictured(disk.queue, disk.pics, disk.turnPic, storePast.torn))'
    BY <1>8, <1>17, <2>5
  <2>7. memory' = Nowhere => disk'.state = "deleted"
    BY <1>8, <1>11
  <2>8. ~database' /\ disk'.state # "none"
    BY <1>2, <1>5, <1>8, <2>2
  <2>. QED BY <2>6, <2>7, <2>8 DEF PicturesThere
<1>. QED BY <1>20, <1>22, <1>23 DEF StoreInv

-----------------------------------------------------------------------------
LEMMA StoreStarts == StoreInit => StoreInv
<1>. SUFFICES ASSUME StoreInit PROVE StoreInv
  OBVIOUS
<1>1. /\ database \in BOOLEAN /\ serving = TRUE /\ due = TRUE /\ saves = <<>> /\ copies = <<>> /\ loads = <<>>
      /\ memory = [state |-> "open", queue |-> EmptyQueue]
      /\ disk = [NoFiles EXCEPT !.state = "open", !.has = TRUE] /\ archive = NoFiles
      /\ rows = IF database THEN [state |-> "open", queue |-> EmptyQueue, has |-> TRUE] ELSE NothingStored
      /\ storePast = [posts |-> 0, crashes |-> 0, loads |-> 0, waiting |-> {}, deleted |-> FALSE,
                      torn |-> {}, hit |-> {}]
  BY DEF StoreInit
<1>2. EmptyQueue \in QueueSet /\ EmptyQueue.open = {} /\ EmptyQueue.turn = 0
      /\ EmptyQueue.pics = {} /\ EmptyQueue.turnPic = 0
  BY EmptyTypes
<1>3. memory \in DocSet /\ memory.state = "open" /\ memory.queue = EmptyQueue
  BY <1>1, <1>2 DEF DocSet, States
<1>4. /\ disk \in FileSet /\ disk.state = "open" /\ disk.queue = EmptyQueue /\ disk.pics = {} /\ disk.turnPic = 0
  BY <1>1, EmptyTypes, StoreCounts DEF FileSet, States, NoFiles
<1>5. archive \in FileSet
  BY <1>1, EmptyTypes
<1>6. rows \in StoredSet /\ (database => rows.queue = EmptyQueue) /\ (~database => rows = NothingStored)
  <2>1. CASE database
    BY <1>1, <1>2, <2>1 DEF StoredSet, States
  <2>2. CASE ~database
    BY <1>1, <2>2, EmptyTypes
  <2>. QED BY <2>1, <2>2
<1>7. /\ storePast \in PastSet /\ storePast.waiting = {} /\ ~storePast.deleted /\ storePast.torn = {}
  <2>1. {} \in SUBSET Posts /\ {} \in SUBSET Posts /\ {} \in SUBSET Mishaps
    OBVIOUS
  <2>. QED BY <1>1, <2>1, StoreCounts DEF PastSet
<1>8. DOMAIN loads = {} /\ DOMAIN saves = {}
  BY <1>1
<1>9. StoreShape
  BY <1>1, <1>3, <1>4, <1>5, <1>6, <1>7, <1>8 DEF StoreShape
<1>10. Owed = {} /\ (database => EndQueue = EmptyQueue)
  BY <1>1, <1>6, <1>7 DEF Owed, EndQueue, EndOf
<1>11. OwedKept
  <2>1. ReadBack(memory, disk) /\ memory # Nowhere
    BY <1>2, <1>3, <1>4, EmptyTypes DEF ReadBack
  <2>2. HasOwed(disk) /\ InOrder(saves, storePast.deleted)
    BY <1>4, <1>8, <1>10 DEF HasOwed, InOrder
  <2>. QED BY <1>4, <1>7, <1>10, <2>1, <2>2 DEF OwedKept
<1>12. PicturesThere
  <2>1. Pictured(EmptyQueue, disk.pics, disk.turnPic, storePast.torn)
    BY <1>2 DEF Pictured
  <2>2. EmptyQueue.open \ storePast.torn \subseteq disk.queue.open
        /\ EmptyQueue.turn \in storePast.torn \cup {0, disk.queue.turn}
    BY <1>2
  <2>3. memory # Nowhere
    BY <1>3, EmptyTypes
  <2>. QED BY <1>1, <1>4, <1>10, <2>1, <2>2, <2>3 DEF PicturesThere
<1>. QED BY <1>9, <1>11, <1>12 DEF StoreInv

LEMMA StoreSteps == StoreInv /\ [StoreNext]_storeVars => StoreInv'
<1>. SUFFICES ASSUME StoreInv, [StoreNext]_storeVars PROVE StoreInv'
  OBVIOUS
<1>1. CASE UNCHANGED storeVars
  <2>1. storePast \in PastSet
    BY DEF StoreInv, StoreShape
  <2>2. (Unharmed' => OwedKept') /\ (Undamaged' => PicturesThere')
    BY <1>1, <2>1, SameRest DEF storeVars
  <2>3. StoreShape'
    BY <1>1 DEF storeVars, StoreInv, StoreShape
  <2>. QED BY <2>2, <2>3 DEF StoreInv
<1>2. ASSUME NEW i \in DOMAIN loads, Restored(i)
      PROVE  StoreInv'
  BY <1>2, RestoreDone, RestoreRefused
<1>. QED
  BY <1>1, <1>2, QueuesKept, HandSteps, FinishSteps, ShelveSteps, DeleteSteps, SaveDone, SaveLost, CopyBegins,
     CopyOn, DyingKeeps, DiskLost, StartsKeeps, LoadsFileKeeps, LoadKeeps, RowKeeps
     DEF StoreNext, Loading

LEMMA StoreAlways == StoreSpec => []StoreInv
BY StoreStarts, StoreSteps, PTL DEF StoreSpec

\* What the process knows is what is at hand.
LEMMA KnownIs ==
  ASSUME StoreInv
  PROVE  /\ Unharmed /\ disk.state \notin {"none", "deleted"} => ReadBack(Known, disk)
         /\ memory = Nowhere /\ disk.state \in {"none", "deleted"} => Known = Nowhere
<1>1. disk \in FileSet
  BY DEF StoreInv, StoreShape
<1>2. Unharmed /\ memory # Nowhere => ReadBack(Known, disk)
  BY DEF StoreInv, OwedKept, Known
<1>3. memory = Nowhere => Known = Hydrated(disk)
  BY DEF Known
<1>. QED BY <1>1, <1>2, <1>3, HydratedIs

\* A message that was accepted and not handed to a worker is in the queue, for any number
\* of messages, deaths of the process, loads and saves side by side.
THEOREM NothingIsForgotten == StoreSpec => []NothingForgotten
<1>1. StoreInv => NothingForgotten
  <2>. SUFFICES ASSUME StoreInv, Unharmed, AtHand PROVE Owed \subseteq Known.queue.open
    BY DEF NothingForgotten, Unharmed, Owed
  <2>1. OwedKept /\ disk.state # "none" /\ HasOwed(disk)
    <3>1. OwedKept
      BY DEF StoreInv
    <3>2. disk.state # "none"
      BY <3>1 DEF AtHand, OwedKept, ReadBack
    <3>. QED BY <3>1, <3>2 DEF OwedKept
  <2>2. CASE disk.state = "deleted"
    BY <2>1, <2>2 DEF HasOwed
  <2>3. CASE disk.state # "deleted"
    BY <2>1, <2>3, KnownIs DEF HasOwed, ReadBack
  <2>. QED BY <2>2, <2>3
<1>. QED BY <1>1, StoreAlways, PTL

\* A waiting message keeps its picture, and the turn under way its own or none, for any
\* number of messages, deaths of the process and loads.
THEOREM PicturesStay == StoreSpec => []PicturesKept
<1>1. StoreInv => PicturesKept
  <2>. SUFFICES ASSUME StoreInv, Undamaged
                PROVE  /\ AtHand => Known.queue.open \ storePast.torn \subseteq Known.queue.pics
                       /\ Known.queue.turn \notin storePast.torn => Known.queue.turnPic \in {0, Known.queue.turn}
    BY DEF PicturesKept, Undamaged, Unharmed, Spared
  <2>1. PicturesThere /\ OwedKept /\ Unharmed
    BY DEF StoreInv, Undamaged
  <2>2. CASE disk.state \in {"none", "deleted"}
    <3>1. memory = Nowhere
      BY <2>1, <2>2 DEF OwedKept, ReadBack
    <3>2. Known = Nowhere
      BY <2>2, <3>1, KnownIs
    <3>. QED BY <3>2, EmptyTypes
  <2>3. CASE disk.state \notin {"none", "deleted"}
    <3>1. ReadBack(Known, disk)
      BY <2>1, <2>3, KnownIs
    <3>2. Pictured(disk.queue, disk.pics, disk.turnPic, storePast.torn)
      BY <2>1, <2>3 DEF PicturesThere
    <3>. QED BY <3>1, <3>2 DEF ReadBack, Pictured
  <2>. QED BY <2>2, <2>3
<1>. QED BY <1>1, StoreAlways, PTL

\* A deleted run stays deleted, whatever was waiting for the object store when it was.
THEOREM DeletedStays == StoreSpec => []StaysDeleted
<1>1. StoreInv => StaysDeleted
  BY DEF StoreInv, StaysDeleted, Unharmed, OwedKept
<1>. QED BY <1>1, StoreAlways, PTL

LEMMA SeqWider == ASSUME NEW A, NEW B, A \subseteq B, NEW s \in Seq(A) PROVE s \in Seq(B)
<1>1. s \in [1..Len(s) -> A] /\ Len(s) \in Nat
  OBVIOUS
<1>2. s \in [1..Len(s) -> B]
  BY <1>1
<1>. QED BY <1>1, <1>2

\* The types of what a run is stored as: every queue, in memory, on disk, in the database
\* and in the objects, names messages that were sent, and every copy under way is one of
\* such a queue, whatever died and whatever was loaded in between.
THEOREM StoreTypes == StoreSpec => []StoreTypeOK
<1>1. StoreInv => StoreTypeOK
  <2>. SUFFICES ASSUME StoreInv PROVE StoreTypeOK
    OBVIOUS
  <2>1. QueueSet \subseteq Queue
    BY DEF QueueSet, Queue, Turns
  <2>2. DocSet \subseteq Document /\ StoredSet \subseteq Stored /\ FileSet \subseteq Files
    BY <2>1 DEF DocSet, Document, StoredSet, Stored, FileSet, Files, Turns
  <2>3. saves \in Seq([doc : Document, at : {"queue", "record", "drop"}])
    <3>1. saves \in Seq(SaveSet) /\ SaveSet \subseteq [doc : Document, at : {"queue", "record", "drop"}]
      BY <2>2 DEF SaveSet, StoreInv, StoreShape
    <3>. QED BY <3>1, SeqWider
  <2>4. copies \in Seq([of : Stored, at : {"record", "queue", "pics"}])
    <3>1. copies \in Seq(CopySet) /\ CopySet \subseteq [of : Stored, at : {"record", "queue", "pics"}]
      BY <2>2 DEF CopySet, StoreInv, StoreShape
    <3>. QED BY <3>1, SeqWider
  <2>5. loads \in Seq([via : {"database", "archive"}, doc : Document, pics : SUBSET Posts,
                       turnPic : 0..MaxPosts, at : {"read", "written"}])
    <3>1. /\ loads \in Seq(LoadSet)
          /\ LoadSet \subseteq [via : {"database", "archive"}, doc : Document, pics : SUBSET Posts,
                               turnPic : 0..MaxPosts, at : {"read", "written"}]
      BY <2>2 DEF LoadSet, StoreInv, StoreShape, Turns
    <3>. QED BY <3>1, SeqWider
  <2>6. /\ database \in BOOLEAN /\ serving \in BOOLEAN /\ due \in BOOLEAN
        /\ memory \in Document /\ disk \in Files /\ archive \in Files /\ rows \in Stored
    BY <2>2 DEF StoreInv, StoreShape
  <2>7. /\ storePast.posts \in 0..MaxPosts /\ storePast.crashes \in 0..MaxCrashes
        /\ storePast.loads \in 0..MaxLoads
        /\ storePast.waiting \subseteq Posts /\ storePast.torn \subseteq Posts
        /\ storePast.hit \subseteq {"mirror", "order", "late", "disk", "picture", "reload"}
    BY DEF StoreInv, StoreShape, PastSet, Mishaps, Turns, Deaths, Asks
  <2>. QED BY <2>3, <2>4, <2>5, <2>6, <2>7 DEF StoreTypeOK
<1>. QED BY <1>1, StoreAlways, PTL
=============================================================================
