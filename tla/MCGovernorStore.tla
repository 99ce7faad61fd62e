--------------------------- MODULE MCGovernorStore ---------------------------
(***************************************************************************)
(* The governor's state file for TLC: who writes it, and what its journals *)
(* hold.  They share no state: a behaviour is one of one of them.          *)
(***************************************************************************)
EXTENDS GovernorRepository, EventJournal

VARIABLE part

StoreInit == part \in {"writers", "journals"} /\ Init /\ JournalInit

StoreNext ==
  /\ UNCHANGED part
  /\ \/ part = "writers"  /\ Next /\ UNCHANGED journalVars
     \/ part = "journals" /\ JournalNext /\ UNCHANGED vars

\* The writers proceed where they run.
StoreFairness == \A p \in Process : WF_vars(part = "writers" /\ Proceed(p))

StoreSpec == StoreInit /\ [][StoreNext]_<<part, vars, journalVars>> /\ StoreFairness
=============================================================================
