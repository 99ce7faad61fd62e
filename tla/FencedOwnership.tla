-------------------------- MODULE FencedOwnership --------------------------
(***************************************************************************)
(* What the profile governor promises about ONE physical browser profile,  *)
(* without saying how: at most one holder at a time; a fence epoch that    *)
(* never goes back; authority that is opened only by a grant, together     *)
(* with a new epoch, and is never reopened once it has been closed.        *)
(* ProfileGovernor is shown to implement this module.                      *)
(***************************************************************************)
EXTENDS Naturals

CONSTANTS Lease,      \* the leases that can ever be issued
          NoLease     \* "nobody holds the profile"

VARIABLES holder,     \* the lease that holds the profile, or NoLease
          epoch,      \* the fence epoch
          open,       \* may the holder's fences be used?
          lastUse     \* the most recent use of a fence: [lease, epoch]

vars == <<holder, epoch, open, lastUse>>

NoUse == [lease |-> NoLease, epoch |-> 0]

Init == holder = NoLease /\ epoch = 0 /\ open = FALSE /\ lastUse = NoUse

\* A step may leave the epoch alone or advance it; it never takes it back.
EpochMayAdvance == epoch' \in {epoch, epoch + 1}

\* The only step that opens authority: to a new holder, under a new epoch.
Grant(l) ==
  /\ holder = NoLease
  /\ holder' = l /\ epoch' = epoch + 1 /\ open' = TRUE
  /\ UNCHANGED lastUse

\* The profile is held for somebody outside: nobody gets authority.
Hold(l) ==
  /\ holder = NoLease
  /\ holder' = l /\ EpochMayAdvance /\ open' = FALSE
  /\ UNCHANGED lastUse

\* The holder stays, its authority ends.
Close ==
  /\ open' = FALSE /\ EpochMayAdvance
  /\ UNCHANGED <<holder, lastUse>>

\* The holder is gone, by release or by recovery.
Free ==
  /\ holder # NoLease
  /\ holder' = NoLease /\ EpochMayAdvance /\ open' = FALSE
  /\ UNCHANGED lastUse

\* A fence is used: only the holder's, only while authority is open.
Use ==
  /\ open
  /\ lastUse' = [lease |-> holder, epoch |-> epoch]
  /\ UNCHANGED <<holder, epoch, open>>

Next == (\E l \in Lease : Grant(l) \/ Hold(l)) \/ Close \/ Free \/ Use

Spec == Init /\ [][Next]_vars

----------------------------------------------------------------------------
TypeOK ==
  /\ holder \in Lease \cup {NoLease}
  /\ epoch \in Nat
  /\ open \in BOOLEAN
  /\ lastUse \in [lease : Lease \cup {NoLease}, epoch : Nat]

\* No use is from the future, and a use under the present epoch was made by
\* whoever has authority now.
UseIsBehindEpoch ==
  /\ lastUse.epoch <= epoch
  /\ (open /\ lastUse.epoch = epoch) => lastUse.lease = holder

(***************************************************************************)
(* The fencing-token property: uses come in epoch order, and two uses      *)
(* under one epoch are uses by one lease.  A resource that checks epochs   *)
(* therefore never accepts an old holder after a new one.                  *)
(***************************************************************************)
UsesInEpochOrder ==
  [][ /\ lastUse'.epoch >= lastUse.epoch
      /\ lastUse'.epoch = lastUse.epoch => lastUse'.lease = lastUse.lease ]_lastUse
=============================================================================
