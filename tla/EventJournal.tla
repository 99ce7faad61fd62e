---------------------------- MODULE EventJournal ----------------------------
(***************************************************************************)
(* The event and receipt journals of the governor's state file, which all  *)
(* profiles of the machine share (profile-governor/events.mjs, recovery.mjs *)
(* and the validation in repository.mjs).  Each journal has a bound of its *)
(* own, a receipt names the event written with it, and a state in which a  *)
(* receipt names an event that is gone is refused: the transaction throws  *)
(* and leaves nothing behind.                                              *)
(*                                                                         *)
(* Of the governor's calls this module keeps which of them append what,    *)
(* and what becomes of the authority of a profile's lease.                 *)
(***************************************************************************)
EXTENDS Naturals, Sequences, SequencesExt

CONSTANTS
  Profile,      \* physical profile resources
  MaxEvents,    \* 256
  MaxReceipts,  \* 128
  MaxWritten    \* bound of the model: events ever written

ASSUME JournalBounds ==
  MaxEvents \in Nat \ {0} /\ MaxReceipts \in 1..MaxEvents /\ MaxWritten \in Nat

VARIABLES
  events,    \* the event journal: events are numbered as they are written
  digests,   \* the integrity journal beside it: the event each entry digests
  receipts,  \* the receipt journal: the event each receipt names
  written,   \* history: events written so far
  receipted, \* history: the events that were written with a receipt
  lease,     \* what the lease of each profile is worth
  claimed    \* does the Runner still claim the run of the lease?

journalVars == <<events, digests, receipts, written, receipted, lease, claimed>>

Worth == {"none", "usable", "gated", "quarantined", "external"}

JournalInit ==
  /\ events = <<>> /\ digests = <<>> /\ receipts = <<>>
  /\ written = 0 /\ receipted = {}
  /\ lease = [p \in Profile |-> "none"]
  /\ claimed = [p \in Profile |-> TRUE]

----------------------------------------------------------------------------
(* The journals *)

Newest(n, s) == IF Len(s) <= n THEN s ELSE SubSeq(s, Len(s) - n + 1, Len(s))

\* What validateState asks of the journals.
Valid(es, ds, rs) ==
  /\ Len(es) <= MaxEvents /\ Len(rs) <= MaxReceipts
  /\ ds = es
  /\ \A i, j \in DOMAIN es : es[i] = es[j] => i = j
  /\ \A i \in DOMAIN rs : Contains(es, rs[i])

\* Mutant: the events beyond the bound are cut off at the wrong end.
appendEventOldest(s, e) == IF Len(s) < MaxEvents THEN Append(s, e) ELSE s

appendEvent(s, e) == Newest(MaxEvents, Append(s, e))

appendReceipt(s, e) == Newest(MaxReceipts, Append(s, e))

\* A transaction that appends one event and leaves the receipts rs.
Accepted(rs) == Valid(appendEvent(events, written + 1), appendEvent(digests, written + 1), rs)

Write(rs, named) ==
  /\ written < MaxWritten /\ Accepted(rs)
  /\ written' = written + 1
  /\ events' = appendEvent(events, written + 1)
  /\ digests' = appendEvent(digests, written + 1)
  /\ receipts' = rs
  /\ receipted' = receipted \cup named

WithReceipt == appendReceipt(receipts, written + 1)

Log         == Write(receipts, {})
LogReceipt  == Write(WithReceipt, {written + 1})

\* What a transaction that appends nothing does to the journals.
Quiet == Valid(events, digests, receipts)
         /\ UNCHANGED <<events, digests, receipts, written, receipted>>

LogAccepted        == Accepted(receipts)
LogReceiptAccepted == Accepted(WithReceipt)

----------------------------------------------------------------------------
(* The calls of the governor *)

Becomes(p, worth) == lease' = [lease EXCEPT ![p] = worth]

Held(p)     == lease[p] \in {"usable", "gated"}
Presents(p) == Held(p) /\ claimed[p]

Acquire(p) ==
  /\ lease[p] = "none"
  /\ Quiet /\ Becomes(p, "usable")
  /\ claimed' = [claimed EXCEPT ![p] = TRUE]

\* An external acquire, or external use found in a profile without a lease.
ExternalUse(p) ==
  /\ lease[p] = "none"
  /\ Log /\ Becomes(p, "external")
  /\ UNCHANGED claimed

\* createFence, authorizeFence and reconciliations without a finding.
Silent(p) == Quiet /\ UNCHANGED <<lease, claimed>>

Heartbeat(p) ==
  /\ Presents(p)
  /\ Log /\ UNCHANGED <<lease, claimed>>

Transition(p) ==
  /\ lease[p] = "usable" /\ claimed[p]
  /\ Log /\ Becomes(p, "gated")
  /\ UNCHANGED claimed

Release(p) ==
  /\ Presents(p)
  /\ Log /\ Becomes(p, "none")
  /\ UNCHANGED claimed

\* An action of unknown outcome, or a liveness probe that failed.
Quarantine(p) ==
  /\ Held(p)
  /\ LogReceipt /\ Becomes(p, "quarantined")
  /\ UNCHANGED claimed

Recover(p) ==
  /\ lease[p] = "quarantined"
  /\ LogReceipt /\ Becomes(p, "none")
  /\ UNCHANGED claimed

\* The Runner ends or revokes the run.
ClaimLost(p) ==
  /\ Presents(p)
  /\ claimed' = [claimed EXCEPT ![p] = FALSE]
  /\ UNCHANGED <<events, digests, receipts, written, receipted, lease>>

\* A call that finds the claim gone sets up the revocation barrier; if the
\* journals do not take its event it throws, with the lease as it was.
Barrier(p) ==
  /\ ~claimed[p] /\ lease[p] \in {"usable", "gated", "quarantined"}
  /\ \/ Log /\ Becomes(p, "quarantined")
     \/ /\ ~LogAccepted
        /\ UNCHANGED <<events, digests, receipts, written, receipted, lease>>
  /\ UNCHANGED claimed

JournalNext ==
  \E p \in Profile :
    \/ Acquire(p) \/ ExternalUse(p) \/ Silent(p) \/ Heartbeat(p) \/ Transition(p)
    \/ Release(p) \/ Quarantine(p) \/ Recover(p) \/ ClaimLost(p) \/ Barrier(p)

JournalSpec == JournalInit /\ [][JournalNext]_journalVars

----------------------------------------------------------------------------
(* Correctness *)

Increasing(s) == \A i, j \in DOMAIN s : i < j => s[i] < s[j]

\* The state file can always be loaded again: the journals are within their
\* bounds, each event has its digest, and each receipt has its event.
JournalTypeOK ==
  /\ events \in Seq(1..written) /\ receipts \in Seq(1..written)
  /\ Valid(events, digests, receipts)
  /\ written \in Nat /\ receipted \subseteq 1..written
  /\ lease \in [Profile -> Worth]
  /\ claimed \in [Profile -> BOOLEAN]

\* Nothing recent is lost: the event journal is the latest events without a
\* gap, the receipt journal the latest receipts, however trims alternate.
RecentHistoryKept ==
  /\ ToSet(events) = {e \in 1..written : e + MaxEvents > written}
  /\ Increasing(events) /\ Increasing(receipts)
  /\ \A e \in receipted \ ToSet(receipts) :
       Len(receipts) = MaxReceipts /\ e < Head(receipts)

\* An append is refused for one reason only: the journal is full and a
\* receipt names the event that would have to go.
RefusedOnlyForNamedEvent ==
  ~LogAccepted => Len(events) = MaxEvents /\ Contains(receipts, Head(events))

\* While the receipt journal is full, a quarantine or a recovery is always
\* accepted: it drops the receipt of the event it drops.
FullReceiptsDoNotBlock == Len(receipts) = MaxReceipts => LogReceiptAccepted

\* The journals of every state that is written: complete as far back as their
\* bounds reach, loadable, and closed to an append for the one reason only.
JournalsSafe ==
  JournalTypeOK /\ RecentHistoryKept /\ RefusedOnlyForNamedEvent /\ FullReceiptsDoNotBlock
=============================================================================
