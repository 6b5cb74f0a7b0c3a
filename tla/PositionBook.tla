---------------------------- MODULE PositionBook ----------------------------
(***************************************************************************)
(* What the order path promises about the committed book of positions,    *)
(* with no locks, transactions or exchange: a trade enters the book once,  *)
(* a new OPEN position respects the cap and has its market to itself, and  *)
(* a proposal completes at most once.                                      *)
(***************************************************************************)
EXTENDS Naturals, FiniteSets

CONSTANTS Trade, Proposal, ProposalOf, MarketOf, MaxOpen

VARIABLES book,      \* the status of each trade's position
          complete   \* the proposals with a complete (entry and stop) execution

bookVars == <<book, complete>>

Open == {t \in Trade : book[t] = "OPEN"}
Room(t) ==
  /\ Cardinality(Open) < MaxOpen
  /\ \A u \in Open : MarketOf[ProposalOf[u]] # MarketOf[ProposalOf[t]]

BookInit == book = [t \in Trade |-> "NONE"] /\ complete = {}

\* A protected trade enters, OPEN or already flagged for attention.
Complete(t) ==
  /\ book[t] = "NONE" /\ Room(t) /\ ProposalOf[t] \notin complete
  /\ \E s \in {"OPEN", "NEEDS_ATTENTION"} : book' = [book EXCEPT ![t] = s]
  /\ complete' = complete \cup {ProposalOf[t]}

\* A trade without its stop enters flagged, and completes nothing.
EnterUnprotected(t) ==
  /\ book[t] = "NONE" /\ Room(t) /\ ProposalOf[t] \notin complete
  /\ book' = [book EXCEPT ![t] = "NEEDS_ATTENTION"]
  /\ UNCHANGED complete

Flag(t) ==
  /\ book[t] = "OPEN"
  /\ book' = [book EXCEPT ![t] = "NEEDS_ATTENTION"]
  /\ UNCHANGED complete

Close(t) ==
  /\ book[t] \in {"OPEN", "NEEDS_ATTENTION"}
  /\ book' = [book EXCEPT ![t] = "CLOSED"]
  /\ UNCHANGED complete

BookNext == \E t \in Trade : Complete(t) \/ EnterUnprotected(t) \/ Flag(t) \/ Close(t)

BookSpec == BookInit /\ [][BookNext]_bookVars

-----------------------------------------------------------------------------
(* The ledger: what is left of the promise when orders also arrive on the   *)
(* path that takes no lock.  Nothing bounds the positions any more, and a   *)
(* trade without its stop may enter beside a complete one; still a position *)
(* and its proposal's completion enter together, and only once.             *)

RecordComplete(t) ==
  /\ book[t] = "NONE" /\ ProposalOf[t] \notin complete
  /\ \E s \in {"OPEN", "NEEDS_ATTENTION"} : book' = [book EXCEPT ![t] = s]
  /\ complete' = complete \cup {ProposalOf[t]}

RecordUnprotected(t) ==
  /\ book[t] = "NONE"
  /\ book' = [book EXCEPT ![t] = "NEEDS_ATTENTION"]
  /\ UNCHANGED complete

LedgerNext ==
  \E t \in Trade : RecordComplete(t) \/ RecordUnprotected(t) \/ Flag(t) \/ Close(t)

LedgerSpec == BookInit /\ [][LedgerNext]_bookVars
=============================================================================
