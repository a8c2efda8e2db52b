------------------------- MODULE MCProductionPayment -------------------------
(* Small instances of ProductionPayment for TLC. *)
EXTENDS ProductionPayment, TLC

Symmetry == Permutations(Worker) \cup Permutations(Quote)

\* Bounds of the run with two quotes.  Both are accepted in a screened
\* cross-currency order only, without an investigation case, a return or an event
\* that exhausts its attempts; an order with one of them has all of these.
TradeRace ==
    /\ cross /\ clean
    /\ ~db.case
    /\ db.ret = "ABSENT"
    /\ \A e \in Event : db.evt[e] # "DEAD_LETTER"

OneQuoteOrTradeRace ==
    TradeRace \/ \A p, q \in Quote : db.intent[p] # "ABSENT" /\ db.intent[q] # "ABSENT" => p = q
==============================================================================
