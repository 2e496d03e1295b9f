-------------------------- MODULE MCObservedExecution --------------------------
(***************************************************************************)
(* TLC instance of ObservedExecution: a buy of three units filled in full  *)
(* or in part and a sale of one that is filled, rejected or left open.     *)
(***************************************************************************)
EXTENDS ObservedExecution

CONSTANTS account, snapshot0, log0

Line(id, instrument, side, quantity) ==
  [id |-> <<id>>, instrument |-> instrument, type |-> "STOCK", side |-> side,
   quantity |-> quantity, full |-> FALSE, rules |-> 1]

OrderFor(line, status, filled) ==
  [id |-> line.id, line |-> line.id, batch |-> 1, decision |-> 1, instrument |-> line.instrument,
   type |-> line.type, side |-> line.side, quantity |-> line.quantity, full |-> FALSE, rules |-> 1,
   expires |-> 3, created |-> 1, status |-> status, filled |-> filled]

FillFor(line, quantity, price) ==
  [id |-> line.id, order |-> line.id, instrument |-> line.instrument, type |-> line.type,
   side |-> line.side, at |-> 1, quantity |-> quantity, price |-> price, commission |-> 1,
   stamp |-> IF line.side = "SELL" THEN 2 ELSE 0, transfer |-> 0, other |-> 0]

Buy == Line(1, 1, "BUY", 3)
Sale == Line(2, 2, "SELL", 1)

Outcomes ==
  {[bought |-> 3, sale |-> "FILLED"], [bought |-> 2, sale |-> "REJECTED"]}

Position(total, unsettled, basis) ==
  [type |-> "STOCK", total |-> total, available |-> total - unsettled, frozen |-> 0,
   unsettled |-> unsettled, basis |-> basis, average |-> basis \div total]

Execution(outcome) ==
  LET sold == IF outcome.sale = "FILLED" THEN 1 ELSE 0
      fills == {FillFor(Buy, outcome.bought, 4)}
                 \cup IF sold = 1 THEN {FillFor(Sale, 1, 5)} ELSE {}
      cash == 40 + MapThenSumSet(Cash, fills)
      orders == {OrderFor(Buy, IF outcome.bought = 3 THEN "FILLED" ELSE "PARTIALLY_FILLED",
                          outcome.bought),
                 OrderFor(Sale, outcome.sale, sold)}
      after ==
        [account |-> account, mode |-> "PAPER", version |-> 1, currency |-> "CNY",
         source |-> snapshot0, cash |-> [total |-> cash, available |-> cash, frozen |-> 0],
         positions |-> [i \in {1, 2} |->
            IF i = 1 THEN Position(outcome.bought, outcome.bought, 4 * outcome.bought + 1)
            ELSE Position(2 - sold, 0, 5 * (2 - sold))]]
  IN  [draft |-> [batch |-> 1, decision |-> 1, base |-> snapshot0, mode |-> "PAPER",
                  version |-> 1, currency |-> "CNY", expires |-> 3, lines |-> {Buy, Sale}],
       receipt |-> [batch |-> 1, base |-> snapshot0, log |-> log0, at |-> 1, submitted |-> 1,
                    before |-> [cash |-> 40, units |-> [i \in {1, 2} |-> IF i = 1 THEN 0 ELSE 2]],
                    after |-> after, orders |-> orders, fills |-> fills,
                    attempts |-> {[order |-> o.id, at |-> 1,
                                   reason |-> IF o.filled > 0 THEN Absent ELSE "LIMIT"] : o \in orders}],
       snapshot |-> [account |-> account, mode |-> "PAPER", version |-> 1, currency |-> "CNY",
                     asOf |-> 1, previous |-> snapshot0, log |-> log0, cash |-> after.cash,
                     positions |-> after.positions]]

MCExecutions == {Execution(outcome) : outcome \in Outcomes}
MCPolicies ==
  {[maxLag |-> 1, cash |-> 1, fee |-> 1, price |-> 0, cost |-> 1, stopOn |-> bound]
     : bound \in {"WARNING", "CRITICAL"}}
=============================================================================
