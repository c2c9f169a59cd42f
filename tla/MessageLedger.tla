----------------------------- MODULE MessageLedger -----------------------------
(***************************************************************************)
(* What a run promises to the user who sends it messages 1, 2, 3, ...      *)
(* (LoopTurn is shown to implement it).  A message waits for a turn of its *)
(* own or goes out as a steer; one is worked on at a time; what has been   *)
(* worked on, or given up with the run, is never taken up again.  Two      *)
(* promises hold until a mishap ends them for good: `keeping`, that no     *)
(* message that waits is overwritten, and `orderly`, that turns go by the  *)
(* order of sending.                                                       *)
(***************************************************************************)
EXTENDS Naturals

VARIABLES
  sent,      \* messages accepted so far
  waiting,   \* those that wait for a turn
  working,   \* the one a turn works on, if any
  over,      \* those whose turn has ended
  steered,   \* those sent into a turn that was there already
  givenUp,   \* those that were dropped when the run failed
  orderly, keeping

ledger == <<sent, waiting, working, over, steered, givenUp, orderly, keeping>>

LedgerInit ==
  /\ sent = 1 /\ waiting = {1}
  /\ working = {} /\ over = {} /\ steered = {} /\ givenUp = {}
  /\ orderly = TRUE /\ keeping = TRUE

-----------------------------------------------------------------------------
(* One step may send a message and, at the same time, start one or give    *)
(* one up.                                                                 *)

Fresh == (sent + 1)..sent'
Begun == working' \ working
Steered == steered' \ steered
Dropped == givenUp' \ givenUp

\* A message that is sent waits, is started at once or goes out as a steer.
Sends ==
  /\ sent' \in {sent, sent + 1}
  /\ Fresh \subseteq waiting' \cup working' \cup steered'

\* Only a message that was sent in this step comes to wait.
Waits ==
  /\ waiting' \subseteq waiting \cup Fresh
  /\ waiting' \cap (working' \cup Steered \cup Dropped) = {}

\* A turn begins when none is under way, with one message that waited.
Starts ==
  /\ Begun \subseteq waiting \cup Fresh
  /\ Begun # {} => working = {}
  /\ \A m, k \in Begun : m = k

\* What leaves the turn at work is over, and nothing comes back from there.
Ends ==
  /\ over' = over \cup (working \ working')
  /\ steered \subseteq steered' /\ Steered \subseteq Fresh \ working'
  /\ givenUp \subseteq givenUp' /\ Dropped \subseteq waiting \ working'

Keeps == waiting \subseteq waiting' \cup working' \cup givenUp'
InOrder == \A m \in Begun : \A k \in waiting' : m < k

LedgerNext ==
  /\ Sends /\ Waits /\ Starts /\ Ends
  /\ keeping' \in BOOLEAN /\ (keeping' => keeping /\ Keeps)
  /\ orderly' \in BOOLEAN /\ (orderly' => orderly /\ InOrder)

LedgerSpec == LedgerInit /\ [][LedgerNext]_ledger

\* What follows: a message is in one place at a time, so one that is over, was given up
\* or went out as a steer never waits for a turn, or has one, again.
Apart ==
  /\ sent \in Nat
  /\ waiting \cup working \cup over \cup steered \cup givenUp \subseteq 1..sent
  /\ waiting \cap (working \cup over \cup steered \cup givenUp) = {}
  /\ working \cap (over \cup steered \cup givenUp) = {}
  /\ over \cap (steered \cup givenUp) = {} /\ steered \cap givenUp = {}
=============================================================================
