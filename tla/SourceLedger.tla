---------------------------- MODULE SourceLedger ----------------------------
(***************************************************************************)
(* What a training run promises about its source instances.                *)
(*                                                                         *)
(* Instances are drawn in dataset order up to the budget.  Each one that   *)
(* was drawn is open until it is trained in one batch or dropped, and then *)
(* it stays that way.  A checkpoint remembers the ledger; a restart goes   *)
(* back to the newest checkpoint and nowhere else.                         *)
(*                                                                         *)
(* NaiveCollector implements this with its buffer, its tasks in flight,    *)
(* its retry and replay queues and its counters.                           *)
(***************************************************************************)
EXTENDS Integers, FiniteSets

CONSTANTS Budget, Batch

VARIABLES
  drawn,   (* how many instances were drawn                               *)
  trained, (* instances whose groups were handed to the optimizer         *)
  dropped, (* instances given up                                          *)
  durable  (* the ledger of the newest checkpoint                         *)

ledger == << drawn, trained, dropped >>
vars == << ledger, durable >>

Open == (0 .. drawn - 1) \ (trained \cup dropped)

Init ==
  /\ drawn = 0 /\ trained = {} /\ dropped = {}
  /\ durable = ledger

Draw ==
  /\ drawn < Budget
  /\ drawn' = drawn + 1
  /\ UNCHANGED << trained, dropped, durable >>

Train ==
  /\ \E S \in SUBSET Open : Cardinality(S) = Batch /\ trained' = trained \cup S
  /\ UNCHANGED << drawn, dropped, durable >>

Drop ==
  /\ \E S \in SUBSET Open : dropped' = dropped \cup S
  /\ UNCHANGED << drawn, trained, durable >>

Save ==
  /\ durable' = ledger
  /\ UNCHANGED ledger

Restart ==
  /\ drawn' = durable[1]
  /\ trained' = durable[2]
  /\ dropped' = durable[3]
  /\ UNCHANGED durable

Next == Draw \/ Train \/ Drop \/ Save \/ Restart

Spec == Init /\ [][Next]_vars
=============================================================================
