---------------------------- MODULE MCEventBacktest ----------------------------
EXTENDS EventBacktest, TLC

MCRule == [from |-> 0, to |-> Absent, buyLot |-> 1, sellLot |-> 1, oddLot |-> TRUE,
           settle |-> 1, participation |-> 100, tick |-> 1]
MCFeeRule == [from |-> 0, to |-> Absent, commission |-> 0, minimum |-> 1, stamp |-> 0,
              transfer |-> 0, other |-> 0, unit |-> 1]
MCSessions == [d \in 0..1 |->
  [day |-> d, state |-> "NORMAL", buy |-> TRUE, sell |-> d # 0, price |-> 2, lower |-> Absent,
   upper |-> Absent, quantity |-> 10, observed |-> 0, available |-> 0]]
MCCalendar == <<0, 1, 2>>
Strict == [negativeCash |-> FALSE, shortSales |-> FALSE, unsettledSales |-> FALSE,
           requireTarget |-> TRUE, feeBook |-> TRUE, ledgerEvents |-> TRUE]
Loose == [negativeCash |-> FALSE, shortSales |-> TRUE, unsettledSales |-> TRUE,
          requireTarget |-> FALSE, feeBook |-> FALSE, ledgerEvents |-> FALSE]
MCConfigs == {Strict, Loose}
MCOpeningLots == <<[quantity |-> 1, sellable |-> 0]>>
MCTargets == {[direction |-> "FLAT", quantity |-> 0], [direction |-> "SHORT", quantity |-> 1],
              [direction |-> "LONG", quantity |-> Absent]}
MCSymmetry == Permutations(OrderIds) \cup Permutations(FillIds)
=============================================================================
