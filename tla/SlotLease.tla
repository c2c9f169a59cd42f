------------------------------ MODULE SlotLease ------------------------------
(***************************************************************************)
(* What the pool of execution slots promises to the rest of the control   *)
(* plane (packages/control-plane/src/runtime/vm-slots.ts): a slot is       *)
(* leased to one run at a time, a run holds at most one slot, a worker     *)
(* starts only on the slot its run holds, alone, and a lease ends only     *)
(* when no worker is left on the slot.  VmSlots is shown to implement it.  *)
(***************************************************************************)
CONSTANTS Runs, Slots, NoRun

VARIABLES owner,    \* owner[s]: the run slot s is leased to, or NoRun
          users     \* users[s]: the runs with a live worker process on s

vars == <<owner, users>>

LeaseInit ==
  /\ owner = [s \in Slots |-> NoRun]
  /\ users = [s \in Slots |-> {}]

Lease(r, s) ==
  /\ owner[s] = NoRun
  /\ \A t \in Slots : owner[t] # r
  /\ owner' = [owner EXCEPT ![s] = r]
  /\ UNCHANGED users

StartWork(r, s) ==
  /\ owner[s] = r
  /\ users[s] = {}
  /\ users' = [users EXCEPT ![s] = {r}]
  /\ UNCHANGED owner

EndWork(r, s) ==
  /\ r \in users[s]
  /\ users' = [users EXCEPT ![s] = @ \ {r}]
  /\ UNCHANGED owner

GiveBack(s) ==
  /\ owner[s] # NoRun
  /\ users[s] = {}
  /\ owner' = [owner EXCEPT ![s] = NoRun]
  /\ UNCHANGED users

LeaseNext ==
  \E s \in Slots :
    \/ \E r \in Runs : Lease(r, s) \/ StartWork(r, s) \/ EndWork(r, s)
    \/ GiveBack(s)

LeaseSpec == LeaseInit /\ [][LeaseNext]_vars
=============================================================================
