---------------------------- MODULE TradingDayProofs ----------------------------
(***************************************************************************)
(* Proofs about TradingDay: what becomes of a draft batch when its plan is *)
(* replayed on the account, and what the account therefore always is.      *)
(*                                                                         *)
(* The first part is about the arithmetic of the market: prices, fees,     *)
(* settlement days.  The second is about the sums over lots, orders and    *)
(* lines that every amount of the ledger is, the third follows one drafted *)
(* line from its session to its order and fill, the fourth the fills of a  *)
(* plan, in any order, through the replay, then come drafts, snapshots and *)
(* refreshes.  The last part states the inductive invariant, shows that    *)
(* every action keeps it and draws the theorems from it.                   *)
(***************************************************************************)
EXTENDS TradingDay, SumTheorems, SequenceTheorems, TLAPS

-----------------------------------------------------------------------------
(* The arithmetic of the market.                                           *)

(* Products and quotients of naturals are naturals.                        *)
LEMMA MulNat == ASSUME NEW a \in Nat, NEW b \in Nat PROVE a * b \in Nat
OBVIOUS

LEMMA MulMonotone ==
  ASSUME NEW a \in Nat, NEW b \in Nat, NEW c \in Nat, a <= b
  PROVE  a * c <= b * c /\ c * a <= c * b
OBVIOUS

LEMMA DivInt == ASSUME NEW a \in Int, NEW b \in Nat \ {0} PROVE a \div b \in Int
OBVIOUS

LEMMA DivNat == ASSUME NEW a \in Nat, NEW b \in Nat \ {0} PROVE a \div b \in Nat
OBVIOUS

(* A quotient is rounded down.                                             *)
LEMMA DivBelow ==
  ASSUME NEW a \in Int, NEW b \in Nat \ {0}
  PROVE  (a \div b) * b <= a /\ a < (a \div b) * b + b
OBVIOUS

LEMMA DivMonotone ==
  ASSUME NEW a \in Int, NEW c \in Int, NEW b \in Nat \ {0}, a <= c
  PROVE  a \div b <= c \div b
<1> DEFINE p == a \div b
           q == c \div b
<1>1. p \in Int /\ q \in Int /\ p * b <= a /\ c < q * b + b
  BY DivInt, DivBelow
<1>2. (q + 1) * b = q * b + b
  BY <1>1
<1> HIDE DEF p, q
<1>3. p * b < (q + 1) * b
  <2>1. p * b \in Int /\ (q + 1) * b \in Int /\ q * b \in Int
    BY <1>1
  <2> QED
    BY <1>1, <1>2, <2>1
<1>4. p < q + 1
  <2> SUFFICES ASSUME q + 1 <= p PROVE FALSE
    BY <1>1
  <2>1. (q + 1) * b <= p * b
    BY <1>1
  <2> QED
    BY <1>1, <1>3, <2>1
<1> QED
  BY <1>1, <1>4 DEF p, q

LEMMA FloorToBelow ==
  ASSUME NEW n \in Int, NEW unit \in Nat \ {0}
  PROVE  FloorTo(n, unit) \in Int /\ FloorTo(n, unit) <= n
BY DivInt, DivBelow DEF FloorTo

LEMMA HalfUpNat ==
  ASSUME NEW a \in Nat, NEW d \in Nat \ {0}
  PROVE  HalfUp(a, d) \in Nat
<1>1. 2 * a + d \in Nat /\ 2 * d \in Nat \ {0}
  OBVIOUS
<1> QED
  BY <1>1, DivNat DEF HalfUp

LEMMA HalfUpMonotone ==
  ASSUME NEW a \in Nat, NEW c \in Nat, NEW d \in Nat \ {0}, a <= c
  PROVE  HalfUp(a, d) <= HalfUp(c, d)
<1>1. 2 * a + d \in Int /\ 2 * c + d \in Int /\ 2 * d \in Nat \ {0} /\ 2 * a + d <= 2 * c + d
  OBVIOUS
<1> QED
  BY <1>1, DivMonotone DEF HalfUp

(* One rounded part of a fee.                                              *)
LEMMA RoundedPart ==
  ASSUME NEW a \in Nat, NEW c \in Nat, NEW b \in Nat \ {0}, NEW u \in Nat, a <= c
  PROVE  HalfUp(a, b) * u \in Nat /\ HalfUp(c, b) * u \in Nat /\ HalfUp(a, b) * u <= HalfUp(c, b) * u
BY HalfUpNat, HalfUpMonotone, MulNat, MulMonotone

(* A fee is never negative, and never falls as the amount grows.           *)
LEMMA FeeOfFacts ==
  ASSUME NEW rule \in FeeRuleRecord, NEW g \in Nat, NEW h \in Nat, g <= h
  PROVE  /\ FeeOf(rule, g) \in Nat /\ FeeOf(rule, h) \in Nat
         /\ FeeOf(rule, g) <= FeeOf(rule, h)
<1> DEFINE u == rule.unit
           b == PerCent * rule.unit
           m == rule.minimum * PerCent
           C(x) == Largest(x * rule.commission, m)
           part(x) == HalfUp(x, b) * u
<1>1. /\ u \in Nat /\ rule.commission \in Nat /\ rule.minimum \in Nat
      /\ rule.stamp \in Nat /\ rule.transfer \in Nat /\ rule.other \in Nat /\ u # 0
  BY DEF FeeRuleRecord
<1>2. b \in Nat \ {0} /\ m \in Nat
  BY <1>1 DEF PerCent
<1>3. /\ g * rule.commission \in Nat /\ h * rule.commission \in Nat
      /\ g * rule.commission <= h * rule.commission
  BY <1>1, MulNat, MulMonotone
<1>4. g * rule.stamp \in Nat /\ h * rule.stamp \in Nat /\ g * rule.stamp <= h * rule.stamp
  BY <1>1, MulNat, MulMonotone
<1>5. /\ g * rule.transfer \in Nat /\ h * rule.transfer \in Nat
      /\ g * rule.transfer <= h * rule.transfer
      /\ g * rule.other \in Nat /\ h * rule.other \in Nat /\ g * rule.other <= h * rule.other
  BY <1>1, MulNat, MulMonotone
<1>6. C(g) \in Nat /\ C(h) \in Nat /\ C(g) <= C(h)
  <2> HIDE DEF m
  <2> QED
    BY <1>2, <1>3 DEF Largest
<1>7. FeeOf(rule, g)
        = part(C(g)) + part(g * rule.stamp) + part(g * rule.transfer) + part(g * rule.other)
  BY DEF FeeOf
<1>8. FeeOf(rule, h)
        = part(C(h)) + part(h * rule.stamp) + part(h * rule.transfer) + part(h * rule.other)
  BY DEF FeeOf
<1> HIDE DEF u, b, C, m
<1>9. part(C(g)) \in Nat /\ part(C(h)) \in Nat /\ part(C(g)) <= part(C(h))
  BY <1>1, <1>2, <1>6, RoundedPart
<1>10. /\ part(g * rule.stamp) \in Nat /\ part(h * rule.stamp) \in Nat
       /\ part(g * rule.stamp) <= part(h * rule.stamp)
  BY <1>1, <1>2, <1>4, RoundedPart
<1>11. /\ part(g * rule.transfer) \in Nat /\ part(h * rule.transfer) \in Nat
       /\ part(g * rule.transfer) <= part(h * rule.transfer)
  BY <1>1, <1>2, <1>5, RoundedPart
<1>12. /\ part(g * rule.other) \in Nat /\ part(h * rule.other) \in Nat
       /\ part(g * rule.other) <= part(h * rule.other)
  BY <1>1, <1>2, <1>5, RoundedPart
<1> HIDE DEF part
<1> QED
  BY <1>7, <1>8, <1>9, <1>10, <1>11, <1>12

(* A slipped price is a positive whole number.                             *)
LEMMA SlippedPriceType ==
  ASSUME NEW model \in SlippageRecord, NEW side, NEW price \in Nat, NEW quantity \in Nat,
         NEW capacity \in Nat \ {0}, NEW tick \in Nat \ {0},
         SlippedPrice(model, side, price, quantity, capacity, tick) # Failed
  PROVE  SlippedPrice(model, side, price, quantity, capacity, tick) \in Nat \ {0}
<1> DEFINE rate == Least(model.base * capacity + model.impact * quantity, model.cap * capacity)
           den  == PerCent * capacity
           raw  == IF side = "BUY" THEN price * (den + rate) ELSE price * (den - rate)
           step == den * tick
           paid == IF side = "BUY" THEN CeilTo(raw, step) \div den ELSE FloorTo(raw, step) \div den
<1>1. model.base \in Nat /\ model.impact \in Nat /\ model.cap \in Nat
  BY DEF SlippageRecord
<1>2. rate \in Int
  <2>1. /\ model.base * capacity \in Nat /\ model.impact * quantity \in Nat
        /\ model.cap * capacity \in Nat
    BY <1>1, MulNat
  <2> QED
    BY <2>1 DEF Least
<1>3. den \in Nat \ {0}
  BY DEF PerCent
<1> HIDE DEF rate, den
<1>4. raw \in Int /\ step \in Nat \ {0}
  BY <1>2, <1>3
<1> HIDE DEF raw, step
<1>5. raw + step - 1 \in Int
  BY <1>4
<1>6. CeilTo(raw, step) \in Int /\ FloorTo(raw, step) \in Int
  BY <1>4, <1>5, FloorToBelow DEF CeilTo
<1>7. paid \in Int
  BY <1>3, <1>6, DivInt
<1>8. SlippedPrice(model, side, price, quantity, capacity, tick) = IF paid <= 0 THEN Failed ELSE paid
  BY DEF SlippedPrice, rate, den, raw, step
<1> HIDE DEF paid
<1> QED
  BY <1>7, <1>8

(* A price kept inside the daily limits of a session.                      *)
LEMMA InLimitsFacts ==
  ASSUME NEW s \in SessionRecord, ValidSession(s), NEW price \in Nat \ {0}
  PROVE  /\ InLimits(s, price) \in Nat \ {0}
         /\ s.upper # Absent => InLimits(s, price) <= s.upper /\ s.upper \in Nat \ {0}
<1>1. CASE s.upper = Absent
  BY <1>1 DEF InLimits
<1>2. CASE s.upper # Absent
  <2>1. s.upper \in Nat /\ s.lower \in Nat \cup {Absent} /\ s.lower # Absent
    BY <1>2 DEF SessionRecord, ValidSession
  <2>2. 0 < s.lower /\ s.lower < s.upper /\ s.lower \in Nat
    BY <1>2, <2>1 DEF ValidSession
  <2> QED
    BY <1>2, <2>1, <2>2 DEF InLimits, Least, Largest
<1> QED
  BY <1>1, <1>2

(* Later is no earlier a day.                                              *)
LEMMA DayMonotone ==
  ASSUME NEW t \in Nat, NEW u \in Nat, t <= u
  PROVE  Day(t) \in Nat /\ Day(u) \in Nat /\ Day(t) <= Day(u)
BY OrderDraftsAssumption, DivNat, DivMonotone DEF Day

(* A settlement day is a day of the calendar, and no earlier than the      *)
(* trade.                                                                  *)
LEMMA SellableOnFacts ==
  ASSUME NEW rule \in MarketRuleRecord, NEW d \in Nat, SellableOn(rule, Calendar, d) # Failed
  PROVE  SellableOn(rule, Calendar, d) \in Nat /\ d <= SellableOn(rule, Calendar, d)
<1>0. rule.settle \in Nat
  BY DEF MarketRuleRecord
<1>1. CASE rule.settle = 0
  BY <1>1 DEF SellableOn
<1>2. CASE rule.settle # 0
  <2> DEFINE at == {i \in DOMAIN Calendar : Calendar[i] = d}
             i == CHOOSE j \in at : TRUE
  <2>1. /\ at # {} /\ ~\E j \in at : j + rule.settle > Len(Calendar)
        /\ SellableOn(rule, Calendar, d) = Calendar[i + rule.settle]
    BY <1>2 DEF SellableOn
  <2>2. i \in at
    BY <2>1
  <2>3. /\ Calendar \in Seq(Nat) /\ Len(Calendar) \in Nat
        /\ DOMAIN Calendar = 1..Len(Calendar)
    BY OrderDraftsAssumption, LenProperties
  <2>4. i \in 1..Len(Calendar) /\ Calendar[i] = d
    BY <2>2, <2>3
  <2>5. ~(i + rule.settle > Len(Calendar))
    BY <2>1, <2>2
  <2> HIDE DEF i
  <2>6. i + rule.settle \in 1..Len(Calendar) /\ i < i + rule.settle
    BY <1>0, <1>2, <2>3, <2>4, <2>5
  <2>7. Calendar[i + rule.settle] \in Nat
    BY <2>3, <2>6, ElementOfSeq
  <2>8. Calendar[i] < Calendar[i + rule.settle]
    BY <2>3, <2>4, <2>6, OrderDraftsAssumption
  <2> QED
    BY <2>1, <2>4, <2>7, <2>8
<1> QED
  BY <1>1, <1>2

(* The rule a book yields is one of its rules.                             *)
LEMMA LatestIn ==
  ASSUME NEW items, IsFiniteSet(items), \A i \in items : i.from \in Nat, NEW d,
         Latest(items, d) # Failed
  PROVE  Latest(items, d) \in items
<1> DEFINE known == {i \in items : AppliesOn(i, d)}
           v == [i \in known |-> i.from]
<1>1. known # {} /\ Latest(items, d) = CHOOSE i \in known : \A j \in known : j.from <= i.from
  BY DEF Latest
<1>2. IsFiniteSet(known) /\ known \subseteq items
  BY FS_Subset
<1>3. \A i \in known : v[i] = i.from /\ v[i] \in Nat
  BY <1>2
<1> HIDE DEF known, v
<1>4. \E i \in known : \A j \in known : v[j] <= v[i]
  BY <1>1, <1>2, <1>3, GreatestOf
<1>5. \E i \in known : \A j \in known : j.from <= i.from
  BY <1>3, <1>4
<1> QED
  BY <1>1, <1>2, <1>5

(* The rules a line is drafted with.                                       *)
LEMMA RulesAreRecords ==
  ASSUME NEW i \in Instruments, NEW side \in Sides, NEW d
  PROVE  /\ RuleFor(i, d) # Failed => RuleFor(i, d) \in MarketRuleRecord
         /\ FeeFor(i, side, d) # Failed => FeeFor(i, side, d) \in FeeRuleRecord
         /\ Latest(Slippage, d) # Failed => Latest(Slippage, d) \in SlippageRecord
<1>0. TypeOf[i] \in Types
  BY OrderDraftsAssumption
<1>1. ASSUME RuleFor(i, d) # Failed PROVE RuleFor(i, d) \in MarketRuleRecord
  <2> DEFINE items == MarketRules[TypeOf[i]]
  <2>1. items \subseteq MarketRuleRecord /\ IsFiniteSet(items)
    BY <1>0, OrderDraftsAssumption DEF Book
  <2>2. \A x \in items : x.from \in Nat
    BY <2>1 DEF MarketRuleRecord
  <2> QED
    BY <1>1, <2>1, <2>2, LatestIn DEF RuleFor
<1>2. ASSUME FeeFor(i, side, d) # Failed PROVE FeeFor(i, side, d) \in FeeRuleRecord
  <2> DEFINE items == FeeRules[TypeOf[i]][side]
  <2>1. items \subseteq FeeRuleRecord /\ IsFiniteSet(items)
    BY <1>0, OrderDraftsAssumption DEF Book
  <2>2. \A x \in items : x.from \in Nat
    BY <2>1 DEF FeeRuleRecord
  <2> QED
    BY <1>2, <2>1, <2>2, LatestIn DEF FeeFor
<1>3. ASSUME Latest(Slippage, d) # Failed PROVE Latest(Slippage, d) \in SlippageRecord
  <2>1. Slippage \subseteq SlippageRecord /\ IsFiniteSet(Slippage)
    BY OrderDraftsAssumption DEF Book
  <2>2. \A x \in Slippage : x.from \in Nat
    BY <2>1 DEF SlippageRecord
  <2> QED
    BY <1>3, <2>1, <2>2, LatestIn
<1> QED
  BY <1>1, <1>2, <1>3

(* The session an order meets is one of the market, of its day.            *)
LEMMA StateForFacts ==
  ASSUME NEW sessions, NEW rule, NEW i, NEW d, NEW at,
         StateFor(sessions, rule, i, d, at) # Failed
  PROVE  /\ StateFor(sessions, rule, i, d, at) \in sessions
         /\ StateFor(sessions, rule, i, d, at).instrument = i
         /\ StateFor(sessions, rule, i, d, at).day = d
<1> DEFINE known  == {s \in sessions : /\ s.instrument = i /\ s.day = d
                                       /\ s.observed <= at /\ s.available <= at}
           latest == {s \in known : \A o \in known : o.available <= s.available}
           s == CHOOSE x \in latest : TRUE
<1>1. Cardinality(latest) = 1 /\ StateFor(sessions, rule, i, d, at) = s
  BY DEF StateFor
<1>2. latest # {}
  BY <1>1, FS_EmptySet
<1>3. s \in latest
  BY <1>2
<1>4. s \in sessions /\ s.instrument = i /\ s.day = d
  BY <1>3
<1> QED
  BY <1>1, <1>4

-----------------------------------------------------------------------------
(* What becomes of one line of a batch.                                    *)

(* The part of an order a session takes is no more than the order.         *)
LEMMA FillableFacts ==
  ASSUME NEW rule \in MarketRuleRecord, NEW s \in SessionRecord, NEW side, NEW q \in Nat \ {0},
         NEW full
  PROVE  /\ Fillable(rule, s, side, q, full) \in Int
         /\ Fillable(rule, s, side, q, full) <= q
         /\ Fillable(rule, s, side, q, full) > 0 => s.quantity \in Nat \ {0}
<1> DEFINE unit == IF side = "BUY" THEN rule.buyLot ELSE rule.sellLot
           c == Capacity(rule, s)
           n == Least(q, c)
<1>1. unit \in Nat \ {0} /\ s.quantity \in Nat /\ rule.participation \in Nat
  BY DEF MarketRuleRecord, SessionRecord, PerCent
<1>2. c \in Nat /\ (c > 0 => s.quantity # 0)
  <2>1. s.quantity * rule.participation \in Nat /\ PerCent \in Nat \ {0}
    BY <1>1, MulNat DEF PerCent
  <2>2. c \in Nat
    BY <2>1, DivNat DEF Capacity
  <2>3. s.quantity = 0 => c = 0
    BY <1>1 DEF Capacity, PerCent
  <2> QED
    BY <2>2, <2>3
<1> HIDE DEF c
<1>3. n \in Int /\ n <= q /\ n <= c
  BY <1>2 DEF Least
<1> HIDE DEF unit, n
<1>4. FloorTo(n, unit) \in Int /\ FloorTo(n, unit) <= n
  BY <1>1, <1>3, FloorToBelow
<1>5. Fillable(rule, s, side, q, full) =
        IF side = "SELL" /\ rule.oddLot /\ full /\ n >= q THEN q ELSE FloorTo(n, unit)
  BY DEF Fillable, c, n, unit
<1> QED
  BY <1>1, <1>2, <1>3, <1>4, <1>5

NoMatchReasons == {"ZERO_CAPACITY", "PARTIAL_FILL_DISABLED"}

(* A match takes at most what was asked, at a price within the limits.     *)
LEMMA MatchFacts ==
  ASSUME NEW rule \in MarketRuleRecord, NEW model \in SlippageRecord,
         NEW s \in SessionRecord, ValidSession(s), NEW order, order.quantity \in Nat \ {0},
         order.limit = Absent, NEW m, m = Match(rule, model, s, order, AllowPartial), m # Failed
  PROVE  \/ m.filled = 0 /\ m.reason \in NoMatchReasons
         \/ /\ m.filled \in Nat \ {0} /\ m.filled <= order.quantity
            /\ m.price \in Nat \ {0} /\ (s.upper # Absent => m.price <= s.upper /\ s.upper \in Nat \ {0})
<1> DEFINE q == Fillable(rule, s, order.side, order.quantity, order.full)
           slipped == SlippedPrice(model, order.side, s.price, q, s.quantity, rule.tick)
           price == InLimits(s, slipped)
<1>1. q \in Int /\ q <= order.quantity /\ (q > 0 => s.quantity \in Nat \ {0})
  BY FillableFacts
<1>2. /\ q <= 0 => m = NoFill("ZERO_CAPACITY")
      /\ ~(q <= 0) => \/ m = NoFill("PARTIAL_FILL_DISABLED")
                      \/ slipped # Failed /\ m = [filled |-> q, price |-> price, reason |-> Absent]
  BY DEF Match
<1>3. CASE \E reason \in NoMatchReasons : m = NoFill(reason)
  BY <1>3 DEF NoFill
<1>4. CASE ~(q <= 0) /\ slipped # Failed /\ m = [filled |-> q, price |-> price, reason |-> Absent]
  <2>1. s.price \in Nat /\ rule.tick \in Nat \ {0} /\ q \in Nat /\ s.quantity \in Nat \ {0}
    BY <1>1, <1>4 DEF SessionRecord, MarketRuleRecord
  <2> HIDE DEF q
  <2>2. slipped \in Nat \ {0}
    BY <1>4, <2>1, SlippedPriceType
  <2> HIDE DEF slipped
  <2>3. price \in Nat \ {0} /\ (s.upper # Absent => price <= s.upper /\ s.upper \in Nat \ {0})
    BY <2>2, InLimitsFacts
  <2> QED
    BY <1>1, <1>4, <2>3
<1> QED
  BY <1>2, <1>3, <1>4 DEF NoMatchReasons

(* What the market of these days consists of.                              *)
MarketIsSound == \A s \in market : s \in SessionRecord /\ ValidSession(s)

(* What a price costs with its fee.                                        *)
Cost(l, n, price) == n * price + FeeOf(l.fee, n * price)

(* The three ways a line can end: held, turned down, or filled.            *)
IsHeld(b, l, r) ==
  \E reason \in NoFillReasons \ {"INSUFFICIENT_CASH"} : r = Unfilled(b, l, reason)

IsTurnedDown(b, l, r, at) ==
  /\ r = Rejected(b, l)
  /\ l.side = "BUY" =>
       \E s \in market, n \in 1..l.quantity, price \in Nat \ {0} :
         /\ s.instrument = l.instrument /\ s.day = Day(at)
         /\ s.upper # Absent => s.upper \in Nat \ {0} /\ price <= s.upper
         /\ l.reserved < Cost(l, n, price) \/ (n < l.quantity /\ l.reserved = Cost(l, n, price))

IsFilled(b, l, r, at) ==
  \E n \in 1..l.quantity, change \in Int :
    /\ r = Executed(b, l, n, change, at)
    /\ change >= -l.reserved
    /\ l.side = "BUY" =>
         /\ change < 0 /\ SellableOn(l.rule, Calendar, Day(at)) # Failed
         /\ n < l.quantity => l.reserved + change > 0

(* A line the engine does not refuse ends one of the three ways.           *)
LEMMA LineOutcome ==
  ASSUME MarketIsSound, NEW b, NEW l \in LineRecord, NEW at,
         NEW r, r = MatchedLine(b, l, market, at), r # Failed
  PROVE  IsHeld(b, l, r) \/ IsTurnedDown(b, l, r, at) \/ IsFilled(b, l, r, at)
<1> DEFINE s == StateFor(market, l.rule, l.instrument, Day(at), at)
           order == [side |-> l.side, quantity |-> l.quantity, full |-> l.full, limit |-> Absent]
           m == Match(l.rule, l.model, s, order, AllowPartial)
<1>1. s # Failed /\ r = IF BlockedReason(s, l.side) # Absent
                        THEN Unfilled(b, l, BlockedReason(s, l.side))
                        ELSE Taken(b, l, m, at)
  BY DEF MatchedLine, Attempted
<1>2. s \in market /\ s.instrument = l.instrument /\ s.day = Day(at)
  BY <1>1, StateForFacts
<1> HIDE DEF s
<1>3. s \in SessionRecord /\ ValidSession(s)
  BY <1>2 DEF MarketIsSound
<1>4. l.quantity \in Nat \ {0} /\ l.side \in Sides /\ l.reserved \in Nat /\ l.fee \in FeeRuleRecord
  BY DEF LineRecord
<1>5. CASE BlockedReason(s, l.side) # Absent
  <2>1. BlockedReason(s, l.side) \in NoFillReasons \ {"INSUFFICIENT_CASH"}
    BY <1>5 DEF BlockedReason, NoFillReasons
  <2> QED
    BY <1>1, <1>5, <2>1 DEF IsHeld
<1>6. CASE BlockedReason(s, l.side) = Absent
  <2> DEFINE gross == m.filled * m.price
             change == CashChange(l.side, gross, FeeOf(l.fee, gross))
             kept == l.reserved - Largest(-change, 0)
  <2>1. r = Taken(b, l, m, at) /\ m # Failed
    BY <1>1, <1>6 DEF Taken
  <2>2. order.quantity = l.quantity /\ order.limit = Absent /\ l.rule \in MarketRuleRecord
        /\ l.model \in SlippageRecord
    BY DEF LineRecord
  <2>3. \/ m.filled = 0 /\ m.reason \in NoMatchReasons
        \/ /\ m.filled \in Nat \ {0} /\ m.filled <= l.quantity /\ m.price \in Nat \ {0}
           /\ (s.upper # Absent => m.price <= s.upper /\ s.upper \in Nat \ {0})
    <3> HIDE DEF m
    <3>1. order.quantity \in Nat \ {0}
      BY <1>4, <2>2
    <3> HIDE DEF order
    <3> QED
      BY <1>3, <2>1, <2>2, <3>1, MatchFacts DEF m
  <2> HIDE DEF m
  <2>4. CASE m.filled = 0 /\ m.reason \in NoMatchReasons
    <3>1. r = Unfilled(b, l, m.reason)
      BY <2>1, <2>4 DEF Taken
    <3> QED
      BY <2>4, <3>1 DEF IsHeld, NoMatchReasons, NoFillReasons
  <2>5. CASE /\ m.filled \in Nat \ {0} /\ m.filled <= l.quantity /\ m.price \in Nat \ {0}
             /\ (s.upper # Absent => m.price <= s.upper /\ s.upper \in Nat \ {0})
    <3>1. r = Paid(b, l, m.filled, change, at)
      BY <2>1, <2>5 DEF Taken
    <3>2. gross \in Nat /\ gross > 0
      BY <2>5, MulNat
    <3> DEFINE fee == FeeOf(l.fee, gross)
    <3>3. fee \in Nat
      <4> HIDE DEF gross
      <4> QED
        BY <1>4, <3>2, FeeOfFacts
    <3>4. change = IF l.side = "BUY" THEN -(gross + fee) ELSE gross - fee
      BY DEF CashChange
    <3>5. Cost(l, m.filled, m.price) = gross + fee
      BY DEF Cost
    <3> HIDE DEF gross, fee, change
    <3>6. /\ change \in Int /\ Cost(l, m.filled, m.price) \in Int
          /\ l.side = "BUY" => change < 0 /\ change = -Cost(l, m.filled, m.price)
      BY <3>2, <3>3, <3>4, <3>5
    <3>7. /\ kept \in Int /\ kept <= l.reserved + change
          /\ l.side = "BUY" => /\ kept = l.reserved - Cost(l, m.filled, m.price)
                               /\ kept = l.reserved + change
      <4> PICK c \in Int : c = Cost(l, m.filled, m.price)
        BY <3>6
      <4> QED
        BY <1>4, <3>6 DEF Largest
    <3>8. m.filled \in 1..l.quantity
      BY <1>4, <2>5
    <3> DEFINE short == \/ kept < 0
                        \/ l.side = "BUY" /\ m.filled < l.quantity /\ kept = 0
    <3>9. r = IF short THEN Rejected(b, l)
              ELSE IF l.side = "BUY" /\ SellableOn(l.rule, Calendar, Day(at)) = Failed THEN Failed
              ELSE Executed(b, l, m.filled, change, at)
      BY <3>1 DEF Paid
    <3> HIDE DEF kept
    <3>10. CASE short
      <4>1. l.side = "BUY" => /\ Cost(l, m.filled, m.price) \in Int
                              /\ \/ l.reserved < Cost(l, m.filled, m.price)
                                 \/ m.filled < l.quantity /\ l.reserved = Cost(l, m.filled, m.price)
        BY <1>4, <3>2, <3>3, <3>5, <3>7, <3>10
      <4>2. r = Rejected(b, l)
        BY <3>9, <3>10
      <4> HIDE DEF short
      <4> QED
        BY <1>2, <2>5, <3>8, <4>1, <4>2 DEF IsTurnedDown
    <3>11. CASE ~short
      <4>1. kept >= 0 /\ (l.side = "BUY" /\ m.filled < l.quantity => kept > 0)
        BY <3>7, <3>11
      <4>2. r = Executed(b, l, m.filled, change, at)
            /\ (l.side = "BUY" => SellableOn(l.rule, Calendar, Day(at)) # Failed)
        BY <3>9, <3>11
      <4>3. change >= -l.reserved
        BY <1>4, <3>6, <3>7, <4>1
      <4>4. l.side = "BUY" /\ m.filled < l.quantity => l.reserved + change > 0
        BY <3>7, <4>1
      <4> QED
        BY <3>6, <3>8, <4>2, <4>3, <4>4 DEF IsFilled
    <3> QED
      BY <3>10, <3>11
  <2> QED
    BY <2>3, <2>4, <2>5
<1> QED
  BY <1>5, <1>6

(* A BUY that reserved its cost at the daily limit is not turned down.     *)
LEMMA FundedIsNotTurnedDown ==
  ASSUME LimitsAreDaily, NEW b, NEW l \in LineRecord, l.side = "BUY", NEW r, NEW at,
         NEW t \in market, t.instrument = l.instrument, t.day = Day(at), t.upper # Absent,
         l.reserved >= Cost(l, l.quantity, t.upper)
  PROVE  ~IsTurnedDown(b, l, r, at)
<1> SUFFICES ASSUME IsTurnedDown(b, l, r, at) PROVE FALSE
  OBVIOUS
<1>1. PICK s \in market, n \in 1..l.quantity, price \in Nat \ {0} :
        /\ s.instrument = l.instrument /\ s.day = Day(at)
        /\ s.upper # Absent => s.upper \in Nat \ {0} /\ price <= s.upper
        /\ l.reserved < Cost(l, n, price) \/ (n < l.quantity /\ l.reserved = Cost(l, n, price))
  BY DEF IsTurnedDown
<1>2. s.upper = t.upper
  BY <1>1 DEF LimitsAreDaily
<1> DEFINE u == t.upper
           g == n * price
           h == l.quantity * u
<1>3. u \in Nat \ {0} /\ price <= u
  BY <1>1, <1>2
<1>4. l.quantity \in Nat \ {0} /\ l.reserved \in Nat /\ l.fee \in FeeRuleRecord
      /\ n \in Nat /\ n <= l.quantity
  BY DEF LineRecord
<1> HIDE DEF u
<1>5. g \in Nat /\ h \in Nat /\ g <= h /\ (n < l.quantity => g < h)
  <2>1. n * price <= n * u /\ n * u <= l.quantity * u /\ n * u \in Nat /\ g \in Nat /\ h \in Nat
    BY <1>3, <1>4, MulMonotone, MulNat
  <2>2. n < l.quantity => n * u < l.quantity * u
    <3> SUFFICES ASSUME n < l.quantity PROVE n * u < l.quantity * u
      OBVIOUS
    <3>1. (n + 1) * u <= l.quantity * u /\ (n + 1) * u = n * u + u
      BY <1>3, <1>4, MulMonotone
    <3> QED
      BY <1>3, <2>1, <3>1
  <2> QED
    BY <2>1, <2>2
<1>6. l.reserved >= h + FeeOf(l.fee, h) /\ Cost(l, n, price) = g + FeeOf(l.fee, g)
  BY DEF Cost, u
<1> HIDE DEF g, h
<1>7. FeeOf(l.fee, g) \in Nat /\ FeeOf(l.fee, h) \in Nat /\ FeeOf(l.fee, g) <= FeeOf(l.fee, h)
  BY <1>4, <1>5, FeeOfFacts
<1> QED
  BY <1>1, <1>4, <1>5, <1>6, <1>7

-----------------------------------------------------------------------------
(* The sums of the ledger: units and free units of lots, what orders still *)
(* ask for and hold, what lines reserve.                                   *)

(* The sum of differences is the difference of the sums.                   *)
LEMMA SumMinus ==
  ASSUME NEW S, IsFiniteSet(S), NEW u, NEW v, NEW w,
         \A x \in S : u[x] \in Int /\ v[x] \in Int /\ w[x] = u[x] - v[x]
  PROVE  SumOver(w, S) = SumOver(u, S) - SumOver(v, S)
<1> DEFINE Wrong(T) == SumOver(w, T) # SumOver(u, T) - SumOver(v, T)
           Bad == {n \in Nat : \E T \in SUBSET S : Cardinality(T) = n /\ Wrong(T)}
<1>1. ASSUME Bad # {} PROVE FALSE
  <2>1. PICK n \in Bad : \A m \in Bad : n <= m
    BY <1>1, LeastNat
  <2>2. PICK T \in SUBSET S : Cardinality(T) = n /\ Wrong(T)
    BY <2>1
  <2>3. T # {}
    <3>1. /\ SumOver(w, {}) = 0 /\ SumOver(u, {}) = 0 /\ SumOver(v, {}) = 0
      BY SumEmpty
    <3>2. ~Wrong({})
      BY <3>1
    <3> HIDE DEF Wrong
    <3> QED
      BY <2>2, <3>2
  <2>4. IsFiniteSet(T) /\ Cardinality(T) \in Nat /\ Cardinality(T) # 0
    BY <2>3, SubsetFacts
  <2>5. PICK p : p = Pick(T) /\ p \in T /\ Cardinality(T \ {p}) = Cardinality(T) - 1
    BY <2>3, SubsetFacts
  <2> DEFINE U == T \ {p}
  <2>6. n - 1 \notin Bad /\ n - 1 \in Nat
    <3>1. n \in Nat /\ n # 0
      BY <2>2, <2>4
    <3> HIDE DEF Bad
    <3> QED
      BY <2>1, <3>1
  <2>7. ~Wrong(U)
    <3>1. U \in SUBSET S /\ Cardinality(U) = n - 1
      BY <2>2, <2>5
    <3> HIDE DEF Wrong, U
    <3> QED
      BY <2>6, <3>1
  <2>8. /\ SumOver(u, T) = u[p] + SumOver(u, U) /\ SumOver(v, T) = v[p] + SumOver(v, U)
        /\ SumOver(w, T) = w[p] + SumOver(w, U)
    BY <2>3, <2>4, <2>5, SumPick
  <2>9. IsFiniteSet(U) /\ \A x \in U : u[x] \in Int /\ v[x] \in Int
    BY <2>4, <2>5, FS_Subset
  <2>10. SumOver(u, U) \in Int /\ SumOver(v, U) \in Int
    BY <2>9, SumType
  <2>11. u[p] \in Int /\ v[p] \in Int /\ w[p] = u[p] - v[p]
    BY <2>5
  <2> HIDE DEF U
  <2> QED
    BY <2>2, <2>7, <2>8, <2>10, <2>11
<1>2. Cardinality(S) \in Nat
  BY FS_CardinalityType
<1> QED
  BY <1>1, <1>2

(* A lot a sale has taken units from may have none left.                   *)
LooseLot == [id : Nat, quantity : Nat, acquired : Nat, sellable : Nat, frozen : Nat]

LotUnits == [l \in LooseLot |-> l.quantity]
LotFrozen == [l \in LooseLot |-> l.frozen]
LotFree(day) == [l \in LooseLot |-> Free(l, day)]
OrderLeft == [o \in OrderRecord |-> Remaining(o)]
OrderReserve == [o \in OrderRecord |-> o.reserved]
LineReserve == [l \in LineRecord |-> l.reserved]

LEMMA UnitsIs ==
  ASSUME NEW X, IsFiniteSet(X), X \subseteq LooseLot
  PROVE  Units(X) = SumOver(LotUnits, X)
<1> DEFINE v == LotUnits
           h == CHOOSE g : g = [s \in SUBSET X |-> IF s = {} THEN 0 ELSE
                                  Pick(s).quantity + g[s \ {Pick(s)}]]
<1>1. PICK g : Sums(v, X, g)
  BY IterExists
<1>2. \A s \in SUBSET X : s # {} => v[Pick(s)] = Pick(s).quantity
  BY DEF Pick, LotUnits
<1> HIDE DEF v
<1>3. g = [s \in SUBSET X |-> IF s = {} THEN 0 ELSE Pick(s).quantity + g[s \ {Pick(s)}]]
  BY <1>1, <1>2 DEF Sums
<1>4. h = [s \in SUBSET X |-> IF s = {} THEN 0 ELSE Pick(s).quantity + h[s \ {Pick(s)}]]
  BY <1>3
<1>5. Units(X) = h[X]
  BY DEF Units, MapThenSumSet, MapThenFoldSet, Pick
<1> HIDE DEF h
<1>6. Sums(v, X, h)
  BY <1>4, <1>2 DEF Sums
<1> QED
  BY <1>5, <1>6, SumOverIs DEF v

LEMMA FrozenIs ==
  ASSUME NEW X, IsFiniteSet(X), X \subseteq LooseLot
  PROVE  MapThenSumSet(LAMBDA l : l.frozen, X) = SumOver(LotFrozen, X)
<1> DEFINE v == LotFrozen
           h == CHOOSE g : g = [s \in SUBSET X |-> IF s = {} THEN 0 ELSE
                                  Pick(s).frozen + g[s \ {Pick(s)}]]
<1>1. PICK g : Sums(v, X, g)
  BY IterExists
<1>2. \A s \in SUBSET X : s # {} => v[Pick(s)] = Pick(s).frozen
  BY DEF Pick, LotFrozen
<1> HIDE DEF v
<1>3. g = [s \in SUBSET X |-> IF s = {} THEN 0 ELSE Pick(s).frozen + g[s \ {Pick(s)}]]
  BY <1>1, <1>2 DEF Sums
<1>4. h = [s \in SUBSET X |-> IF s = {} THEN 0 ELSE Pick(s).frozen + h[s \ {Pick(s)}]]
  BY <1>3
<1>5. MapThenSumSet(LAMBDA l : l.frozen, X) = h[X]
  BY DEF MapThenSumSet, MapThenFoldSet, Pick
<1> HIDE DEF h
<1>6. Sums(v, X, h)
  BY <1>4, <1>2 DEF Sums
<1> QED
  BY <1>5, <1>6, SumOverIs DEF v

LEMMA FreeIs ==
  ASSUME NEW X, IsFiniteSet(X), X \subseteq LooseLot, NEW day
  PROVE  FreeUnits(X, day) = SumOver(LotFree(day), X)
<1> DEFINE v == LotFree(day)
           h == CHOOSE g : g = [s \in SUBSET X |-> IF s = {} THEN 0 ELSE
                                  Free(Pick(s), day) + g[s \ {Pick(s)}]]
<1>1. PICK g : Sums(v, X, g)
  BY IterExists
<1>2. \A s \in SUBSET X : s # {} => v[Pick(s)] = Free(Pick(s), day)
  BY DEF Pick, LotFree
<1> HIDE DEF v
<1>3. g = [s \in SUBSET X |-> IF s = {} THEN 0 ELSE Free(Pick(s), day) + g[s \ {Pick(s)}]]
  BY <1>1, <1>2 DEF Sums
<1>4. h = [s \in SUBSET X |-> IF s = {} THEN 0 ELSE Free(Pick(s), day) + h[s \ {Pick(s)}]]
  BY <1>3
<1>5. FreeUnits(X, day) = h[X]
  BY DEF FreeUnits, MapThenSumSet, MapThenFoldSet, Pick
<1> HIDE DEF h
<1>6. Sums(v, X, h)
  BY <1>4, <1>2 DEF Sums
<1> QED
  BY <1>5, <1>6, SumOverIs DEF v

LEMMA LeftIs ==
  ASSUME NEW X, IsFiniteSet(X), X \subseteq OrderRecord
  PROVE  MapThenSumSet(Remaining, X) = SumOver(OrderLeft, X)
<1> DEFINE v == OrderLeft
           h == CHOOSE g : g = [s \in SUBSET X |-> IF s = {} THEN 0 ELSE
                                  Remaining(Pick(s)) + g[s \ {Pick(s)}]]
<1>1. PICK g : Sums(v, X, g)
  BY IterExists
<1>2. \A s \in SUBSET X : s # {} => v[Pick(s)] = Remaining(Pick(s))
  BY DEF Pick, OrderLeft
<1> HIDE DEF v
<1>3. g = [s \in SUBSET X |-> IF s = {} THEN 0 ELSE Remaining(Pick(s)) + g[s \ {Pick(s)}]]
  BY <1>1, <1>2 DEF Sums
<1>4. h = [s \in SUBSET X |-> IF s = {} THEN 0 ELSE Remaining(Pick(s)) + h[s \ {Pick(s)}]]
  BY <1>3
<1>5. MapThenSumSet(Remaining, X) = h[X]
  BY DEF MapThenSumSet, MapThenFoldSet, Pick
<1> HIDE DEF h
<1>6. Sums(v, X, h)
  BY <1>4, <1>2 DEF Sums
<1> QED
  BY <1>5, <1>6, SumOverIs DEF v

LEMMA ReserveIs ==
  ASSUME NEW X, IsFiniteSet(X), NEW v, \A x \in X : v[x] = x.reserved
  PROVE  MapThenSumSet(LAMBDA o : o.reserved, X) = SumOver(v, X)
<1> DEFINE h == CHOOSE g : g = [s \in SUBSET X |-> IF s = {} THEN 0 ELSE
                                  Pick(s).reserved + g[s \ {Pick(s)}]]
<1>1. PICK g : Sums(v, X, g)
  BY IterExists
<1>2. \A s \in SUBSET X : s # {} => v[Pick(s)] = Pick(s).reserved
  BY DEF Pick
<1>3. g = [s \in SUBSET X |-> IF s = {} THEN 0 ELSE Pick(s).reserved + g[s \ {Pick(s)}]]
  BY <1>1, <1>2 DEF Sums
<1>4. h = [s \in SUBSET X |-> IF s = {} THEN 0 ELSE Pick(s).reserved + h[s \ {Pick(s)}]]
  BY <1>3
<1>5. MapThenSumSet(LAMBDA o : o.reserved, X) = h[X]
  BY DEF MapThenSumSet, MapThenFoldSet, Pick
<1> HIDE DEF h
<1>6. Sums(v, X, h)
  BY <1>4, <1>2 DEF Sums
<1> QED
  BY <1>5, <1>6, SumOverIs

-----------------------------------------------------------------------------
(* Lots: what is free of them, and what a sale takes.                      *)

(* The lots of one instrument: finitely many, none frozen beyond its       *)
(* units, no two of one id.                                                *)
SoundLots(lots) ==
  /\ lots \subseteq LotRecord /\ IsFiniteSet(lots)
  /\ \A l \in lots : l.frozen <= l.quantity
  /\ \A k, l \in lots : k.id = l.id => k = l

LEMMA LotsAreLoose == LotRecord \subseteq LooseLot
BY DEF LotRecord, LooseLot

LEMMA LotValues ==
  ASSUME NEW l \in LooseLot, NEW day \in Nat
  PROVE  /\ LotUnits[l] = l.quantity /\ l.quantity \in Nat
         /\ LotFrozen[l] = l.frozen /\ l.frozen \in Nat
         /\ LotFree(day)[l] = Free(l, day) /\ Free(l, day) \in Int
         /\ Free(l, day) <= l.quantity
         /\ l.frozen <= l.quantity => Free(l, day) \in Nat
         /\ l.sellable \in Nat /\ l.acquired \in Nat /\ l.id \in Nat
BY DEF LooseLot, LotUnits, LotFrozen, LotFree, Free

(* Every part of sound lots is sound.                                      *)
LEMMA SoundParts ==
  ASSUME NEW lots, SoundLots(lots), NEW T, T \subseteq lots
  PROVE  SoundLots(T) /\ IsFiniteSet(T) /\ T \subseteq LooseLot
BY FS_Subset, LotsAreLoose DEF SoundLots

(* Units and free units of sound lots are naturals.                        *)
LEMMA SoundSums ==
  ASSUME NEW lots, SoundLots(lots), NEW day \in Nat
  PROVE  /\ Units(lots) = SumOver(LotUnits, lots) /\ Units(lots) \in Nat
         /\ FreeUnits(lots, day) = SumOver(LotFree(day), lots) /\ FreeUnits(lots, day) \in Nat
         /\ \A l \in lots : /\ LotFree(day)[l] = Free(l, day) /\ Free(l, day) \in Nat
                            /\ LotUnits[l] = l.quantity /\ l.quantity \in Nat
<1>1. IsFiniteSet(lots) /\ lots \subseteq LooseLot
  BY SoundParts
<1>2. \A l \in lots : /\ LotFree(day)[l] = Free(l, day) /\ Free(l, day) \in Nat
                      /\ LotUnits[l] = l.quantity /\ l.quantity \in Nat
  BY <1>1, LotValues DEF SoundLots
<1> QED
  BY <1>1, <1>2, UnitsIs, FreeIs, SumNat

(* One lot of some sound lots is taken last by every sale.                 *)
LEMMA LastLot ==
  ASSUME NEW T, SoundLots(T), T # {}
  PROVE  \E m \in T : \A k \in T : k # m => Earlier(k, m) /\ ~Earlier(m, k)
<1>1. \A l \in T : l.sellable \in Nat /\ l.acquired \in Nat /\ l.id \in Nat
  BY DEF SoundLots, LotRecord
<1> DEFINE u == [l \in T |-> l.sellable]
<1>2. PICK a \in T : \A l \in T : l.sellable <= a.sellable
  <2>1. IsFiniteSet(T) /\ \A l \in T : u[l] = l.sellable /\ u[l] \in Nat
    BY <1>1 DEF SoundLots
  <2> HIDE DEF u
  <2>2. \E x \in T : \A y \in T : u[y] <= u[x]
    BY <2>1, GreatestOf
  <2> QED
    BY <2>1, <2>2
<1> DEFINE A == {l \in T : l.sellable = a.sellable}
           v == [l \in A |-> l.acquired]
<1>3. PICK b \in A : \A l \in A : l.acquired <= b.acquired
  <2>1. A # {} /\ IsFiniteSet(A) /\ \A l \in A : v[l] = l.acquired /\ v[l] \in Nat
    BY <1>1, <1>2, FS_Subset DEF SoundLots
  <2> HIDE DEF v, A
  <2>2. \E x \in A : \A y \in A : v[y] <= v[x]
    BY <2>1, GreatestOf
  <2> QED
    BY <2>1, <2>2
<1> DEFINE B == {l \in T : l.sellable = a.sellable /\ l.acquired = b.acquired}
           w == [l \in B |-> l.id]
<1>4. PICK c \in B : \A l \in B : l.id <= c.id
  <2>1. b \in B /\ IsFiniteSet(B) /\ \A l \in B : w[l] = l.id /\ w[l] \in Nat
    BY <1>1, <1>3, FS_Subset DEF SoundLots
  <2> HIDE DEF w, B
  <2>2. \E x \in B : \A y \in B : w[y] <= w[x]
    BY <2>1, GreatestOf
  <2> QED
    BY <2>1, <2>2
<1>5. c \in T /\ c.sellable = a.sellable /\ c.acquired = b.acquired
  BY <1>4
<1>6. ASSUME NEW k \in T, k # c PROVE Earlier(k, c) /\ ~Earlier(c, k)
  <2>1. k.id # c.id
    BY <1>5, <1>6 DEF SoundLots
  <2>2. k.sellable <= c.sellable
    BY <1>2, <1>5
  <2>3. k.sellable = c.sellable => k.acquired <= c.acquired
    BY <1>3, <1>5
  <2>4. k.sellable = c.sellable /\ k.acquired = c.acquired => k.id <= c.id
    BY <1>4, <1>5
  <2> QED
    BY <1>1, <1>5, <2>1, <2>2, <2>3, <2>4 DEF Earlier
<1> QED
  BY <1>5, <1>6

(* A sale takes from a lot no more than is free of it.                     *)
LEMMA ConsumedFacts ==
  ASSUME NEW lots, SoundLots(lots), NEW l \in lots, NEW q \in Nat, NEW day \in Nat
  PROVE  Consumed(lots, l, q, day) \in Nat /\ Consumed(lots, l, q, day) <= Free(l, day)
<1> DEFINE T == {k \in lots : Earlier(k, l)}
           before == FreeUnits(T, day)
<1>1. before \in Nat
  BY SoundParts, SoundSums
<1>2. Free(l, day) \in Nat
  BY SoundSums
<1>3. Consumed(lots, l, q, day) = Least(Free(l, day), Largest(q - before, 0))
  BY DEF Consumed
<1> HIDE DEF before
<1> QED
  BY <1>1, <1>2, <1>3 DEF Least, Largest

(* What a sale takes from every lot.                                       *)
Taking(lots, q, day) == [l \in lots |-> Consumed(lots, l, q, day)]

(* A sale takes its whole quantity if that much is free.                   *)
LEMMA TotalConsumed ==
  ASSUME NEW lots, SoundLots(lots), NEW q \in Nat, NEW day \in Nat
  PROVE  SumOver(Taking(lots, q, day), lots) = Least(q, FreeUnits(lots, day))
<1> DEFINE Wrong(T) == SumOver(Taking(T, q, day), T) # Least(q, FreeUnits(T, day))
           Bad == {n \in Nat : \E T \in SUBSET lots : Cardinality(T) = n /\ Wrong(T)}
<1>0. IsFiniteSet(lots)
  BY DEF SoundLots
<1>1. ASSUME Bad # {} PROVE FALSE
  <2>1. PICK n \in Bad : \A m \in Bad : n <= m
    BY <1>1, LeastNat
  <2>2. PICK T \in SUBSET lots : Cardinality(T) = n /\ Wrong(T)
    BY <2>1
  <2>3. SoundLots(T) /\ IsFiniteSet(T) /\ T \subseteq LooseLot
    BY SoundParts
  <2>4. T # {}
    <3>1. SumOver(Taking({}, q, day), {}) = 0
      BY SumEmpty
    <3>2. FreeUnits({}, day) = 0
      BY FreeIs, SumEmpty, FS_EmptySet
    <3>3. ~Wrong({})
      BY <3>1, <3>2 DEF Least
    <3> HIDE DEF Wrong
    <3> QED
      BY <2>2, <3>3
  <2>5. PICK m \in T : \A k \in T : k # m => Earlier(k, m) /\ ~Earlier(m, k)
    BY <2>3, <2>4, LastLot
  <2> DEFINE U == T \ {m}
             C == Taking(T, q, day)
  <2>6. SoundLots(U) /\ IsFiniteSet(U) /\ U \subseteq LooseLot /\ m \notin U /\ T = U \cup {m}
    BY <2>3, SoundParts
  <2>7. ~Wrong(U)
    <3>1. Cardinality(T) \in Nat /\ Cardinality(U) = Cardinality(T) - 1 /\ Cardinality(T) # 0
      BY <2>3, <2>4, FS_CardinalityType, FS_RemoveElement, FS_EmptySet
    <3>2. n - 1 \in Nat /\ Cardinality(U) = n - 1 /\ n \in Nat
      BY <2>2, <3>1
    <3>3. n - 1 \notin Bad
      <4> HIDE DEF Bad
      <4> QED
        BY <2>1, <3>2
    <3>4. U \in SUBSET lots
      OBVIOUS
    <3> HIDE DEF U, Wrong
    <3> QED
      BY <3>2, <3>3, <3>4
  <2>8. ASSUME NEW l \in U PROVE Consumed(T, l, q, day) = Consumed(U, l, q, day)
    <3>1. ~Earlier(m, l)
      BY <2>5, <2>6
    <3>2. {k \in T : Earlier(k, l)} = {k \in U : Earlier(k, l)}
      BY <3>1
    <3> QED
      BY <3>2 DEF Consumed
  <2>9. SumOver(C, U) = SumOver(Taking(U, q, day), U)
    <3>1. \A l \in U : C[l] = Taking(U, q, day)[l]
      BY <2>8 DEF Taking
    <3> HIDE DEF C, U
    <3> QED
      BY <2>6, <3>1, SumCongruence
  <2>10. SumOver(C, T) = SumOver(C, U) + C[m]
    <3>1. \A l \in T : C[l] \in Int
      BY <2>3, ConsumedFacts DEF Taking
    <3>2. U \subseteq T /\ m \in T \ U
      OBVIOUS
    <3> HIDE DEF C, U
    <3>3. SumOver(C, U \cup {m}) = SumOver(C, U) + C[m]
      BY <2>3, <3>1, <3>2, SumAdd
    <3> QED
      BY <2>6, <3>3
  <2> DEFINE F == FreeUnits(U, day)
             f == Free(m, day)
  <2>11. C[m] = Least(f, Largest(q - F, 0))
    <3>1. {k \in T : Earlier(k, m)} = U
      <4>1. \A k \in T : ~(k = m /\ Earlier(k, m))
        BY <2>3 DEF Earlier, SoundLots, LotRecord
      <4> QED
        BY <2>5, <4>1
    <3>2. C[m] = Consumed(T, m, q, day)
      BY DEF Taking
    <3> QED
      BY <3>1, <3>2 DEF Consumed
  <2>12. FreeUnits(T, day) = F + f
    <3>1. \A l \in T : LotFree(day)[l] \in Int /\ LotFree(day)[m] = f
      BY <2>3, LotValues
    <3>2. SumOver(LotFree(day), U \cup {m}) = SumOver(LotFree(day), U) + LotFree(day)[m]
      <4>1. U \subseteq T /\ m \in T \ U
        OBVIOUS
      <4> HIDE DEF U
      <4> QED
        BY <2>3, <3>1, <4>1, SumAdd
    <3> HIDE DEF U
    <3> QED
      BY <2>3, <2>6, <3>1, <3>2, FreeIs DEF F
  <2>13. F \in Nat /\ f \in Nat
    BY <2>3, <2>6, SoundSums
  <2>14. SumOver(C, U) = Least(q, F)
    BY <2>7, <2>9
  <2>15. SumOver(C, T) # Least(q, FreeUnits(T, day))
    BY <2>2
  <2> HIDE DEF C, F, f, U
  <2> QED
    BY <2>10, <2>11, <2>12, <2>13, <2>14, <2>15 DEF Least, Largest
<1>2. Cardinality(lots) \in Nat
  BY <1>0, FS_CardinalityType
<1> QED
  BY <1>1, <1>2

(* A sale of no more than is free: every lot loses a free part of its      *)
(* units, and together they lose what is sold.                             *)
LEMMA SaleFacts ==
  ASSUME NEW lots, SoundLots(lots), NEW q \in Nat, NEW day \in Nat, q <= FreeUnits(lots, day)
  PROVE  LET sold == ConsumeSellLots(lots, q, day) IN
         /\ SoundLots(sold)
         /\ Units(sold) = Units(lots) - q
         /\ FreeUnits(sold, day) = FreeUnits(lots, day) - q
         /\ \A l \in sold : \E k \in lots :
              /\ l.id = k.id /\ l.acquired = k.acquired /\ l.sellable = k.sellable
              /\ l.frozen = k.frozen
         /\ \A k \in lots : \E c \in Nat :
              /\ c <= Free(k, day)
              /\ {l \in sold : l.id = k.id} =
                   IF k.quantity - c > 0 THEN {[k EXCEPT !.quantity = k.quantity - c]} ELSE {}
<1> DEFINE C == Taking(lots, q, day)
           g == [l \in lots |-> [l EXCEPT !.quantity = l.quantity - C[l]]]
           left == {g[l] : l \in lots}
           sold == ConsumeSellLots(lots, q, day)
<1>1. sold = {l \in left : l.quantity > 0}
  BY DEF ConsumeSellLots, Taking
<1>2. IsFiniteSet(lots) /\ lots \subseteq LooseLot /\ \A l \in lots : l \in LotRecord
  BY SoundParts DEF SoundLots
<1>3. \A l \in lots : C[l] \in Nat /\ C[l] <= Free(l, day)
  BY ConsumedFacts DEF Taking
<1> HIDE DEF C
<1>4. ASSUME NEW l \in lots
      PROVE  /\ g[l] \in LooseLot /\ g[l].quantity = l.quantity - C[l]
             /\ g[l].id = l.id /\ g[l].acquired = l.acquired /\ g[l].sellable = l.sellable
             /\ g[l].frozen = l.frozen /\ g[l].frozen <= g[l].quantity
             /\ Free(g[l], day) = Free(l, day) - C[l]
             /\ g[l].quantity > 0 => g[l] \in LotRecord
  <2>1. /\ l.id \in Nat /\ l.quantity \in Nat \ {0} /\ l.acquired \in Nat /\ l.sellable \in Nat
        /\ l.frozen \in Nat /\ l.frozen <= l.quantity /\ l \in LotRecord
    BY <1>2 DEF SoundLots, LotRecord
  <2>2. /\ C[l] \in Nat
        /\ l.sellable <= day => C[l] <= l.quantity - l.frozen
        /\ ~(l.sellable <= day) => C[l] = 0
    BY <1>3 DEF Free
  <2> DEFINE n == l.quantity - C[l]
  <2>3. n \in Nat /\ l.frozen <= n
    BY <2>1, <2>2
  <2>4. /\ g[l] = [l EXCEPT !.quantity = n]
    OBVIOUS
  <2>5. /\ g[l].quantity = n /\ g[l].id = l.id /\ g[l].acquired = l.acquired
        /\ g[l].sellable = l.sellable /\ g[l].frozen = l.frozen
    <3> HIDE DEF n
    <3> QED
      BY <2>1, <2>4 DEF LotRecord
  <2>6. g[l] \in LooseLot /\ (n > 0 => g[l] \in LotRecord)
    <3> HIDE DEF n, g
    <3> QED
      BY <2>1, <2>3, <2>4 DEF LotRecord, LooseLot
  <2>7. Free(g[l], day) = Free(l, day) - C[l]
    <3> HIDE DEF g
    <3> QED
      BY <2>1, <2>2, <2>5 DEF Free
  <2> HIDE DEF g
  <2> QED
    BY <2>3, <2>5, <2>6, <2>7
<1>5. \A k, l \in lots : g[k].id = g[l].id => k = l
  <2> SUFFICES ASSUME NEW k \in lots, NEW l \in lots, g[k].id = g[l].id PROVE k = l
    OBVIOUS
  <2>1. k.id = l.id
    BY <1>4
  <2> QED
    BY <2>1 DEF SoundLots
<1> HIDE DEF g
<1>6. IsFiniteSet(left) /\ left \subseteq LooseLot /\ sold \subseteq left /\ IsFiniteSet(sold)
  <2>1. IsFiniteSet(left)
    BY <1>2, ImageFinite
  <2>2. left \subseteq LooseLot
    BY <1>4
  <2>3. sold \subseteq left
    BY <1>1
  <2> HIDE DEF left
  <2> QED
    BY <2>1, <2>2, <2>3, FS_Subset
<1>7. SoundLots(sold)
  <2>1. \A x \in sold : \E l \in lots : x = g[l] /\ g[l].quantity > 0
    BY <1>1
  <2> HIDE DEF sold
  <2> QED
    BY <1>4, <1>5, <1>6, <2>1 DEF SoundLots
<1>8. SumOver(C, lots) = q
  <2>1. SumOver(C, lots) = Least(q, FreeUnits(lots, day))
    BY TotalConsumed DEF C
  <2> QED
    BY <2>1 DEF Least
<1> HIDE DEF sold
<1>9. Units(sold) = Units(lots) - q
  <2> DEFINE w == [l \in lots |-> LotUnits[g[l]]]
  <2>1. \A l \in lots : LotUnits[g[l]] = g[l].quantity /\ LotUnits[g[l]] \in Int /\ w[l] = LotUnits[g[l]]
    BY <1>4, LotValues
  <2>2. \A l \in lots : LotUnits[l] = l.quantity /\ LotUnits[l] \in Int
    BY <1>2, LotValues
  <2>3. \A l \in lots : w[l] = LotUnits[l] - C[l] /\ C[l] \in Int
    BY <1>3, <1>4, <2>1, <2>2
  <2>4. \A x, y \in lots : g[x] = g[y] => x = y
    BY <1>5
  <2> HIDE DEF w
  <2>5. SumOver(LotUnits, left) = SumOver(w, lots)
    BY <1>2, <2>1, <2>4, SumImage
  <2>6. SumOver(w, lots) = SumOver(LotUnits, lots) - SumOver(C, lots)
    BY <1>2, <2>2, <2>3, SumMinus
  <2>7. SumOver(LotUnits, left) = SumOver(LotUnits, sold)
    <3>1. \A y \in left : LotUnits[y] = y.quantity /\ LotUnits[y] \in Nat
      BY <1>6, LotValues
    <3>2. \A y \in left \ sold : LotUnits[y] = 0
      BY <1>1, <3>1
    <3> HIDE DEF left
    <3> QED
      BY <1>6, <3>1, <3>2, SumRestrict
  <2>8. Units(sold) = SumOver(LotUnits, sold) /\ Units(lots) = SumOver(LotUnits, lots)
    BY <1>2, <1>6, UnitsIs
  <2> QED
    BY <1>8, <2>5, <2>6, <2>7, <2>8
<1>10. FreeUnits(sold, day) = FreeUnits(lots, day) - q
  <2> DEFINE F == LotFree(day)
             w == [l \in lots |-> F[g[l]]]
  <2>1. \A l \in lots : F[g[l]] = Free(g[l], day) /\ F[g[l]] \in Int /\ w[l] = F[g[l]]
    BY <1>4, LotValues
  <2>2. \A l \in lots : F[l] = Free(l, day) /\ F[l] \in Int
    BY <1>2, LotValues
  <2>3. \A l \in lots : w[l] = F[l] - C[l] /\ C[l] \in Int
    BY <1>3, <1>4, <2>1, <2>2
  <2>4. \A x, y \in lots : g[x] = g[y] => x = y
    BY <1>5
  <2>5. \A y \in left \ sold : F[y] = 0
    <3>1. \A l \in lots : g[l].quantity \in Nat /\ g[l].frozen \in Nat
      BY <1>4, LotValues
    <3>2. \A l \in lots : g[l].quantity = 0 => Free(g[l], day) = 0
      BY <1>4, <3>1 DEF Free
    <3>3. \A y \in left \ sold : \E l \in lots : y = g[l] /\ g[l].quantity = 0
      BY <1>1, <3>1
    <3> HIDE DEF F, w
    <3> QED
      BY <2>1, <3>2, <3>3
  <2>6. \A y \in left : F[y] \in Int
    BY <1>6, LotValues
  <2>7. FreeUnits(sold, day) = SumOver(F, sold) /\ FreeUnits(lots, day) = SumOver(F, lots)
    BY <1>2, <1>6, FreeIs
  <2> HIDE DEF F, w
  <2>8. SumOver(F, left) = SumOver(w, lots)
    BY <1>2, <2>1, <2>4, SumImage
  <2>9. SumOver(w, lots) = SumOver(F, lots) - SumOver(C, lots)
    BY <1>2, <2>2, <2>3, SumMinus
  <2>10. SumOver(F, left) = SumOver(F, sold)
    <3> HIDE DEF left
    <3> QED
      BY <1>6, <2>5, <2>6, SumRestrict
  <2> QED
    BY <1>8, <2>7, <2>8, <2>9, <2>10
<1>11. \A l \in sold : \E k \in lots :
         /\ l.id = k.id /\ l.acquired = k.acquired /\ l.sellable = k.sellable
         /\ l.frozen = k.frozen
  BY <1>1, <1>4
<1>12. ASSUME NEW k \in lots
       PROVE  \E c \in Nat :
                /\ c <= Free(k, day)
                /\ {l \in sold : l.id = k.id} =
                     IF k.quantity - c > 0 THEN {[k EXCEPT !.quantity = k.quantity - c]} ELSE {}
  <2>1. g[k] = [k EXCEPT !.quantity = k.quantity - C[k]] /\ g[k].quantity = k.quantity - C[k]
        /\ g[k].id = k.id
    BY <1>4 DEF g
  <2>2. \A l \in sold : l.id = k.id => l = g[k]
    BY <1>1, <1>4, <1>5
  <2>3. {l \in sold : l.id = k.id} = IF g[k].quantity > 0 THEN {g[k]} ELSE {}
    <3>1. g[k] \in sold <=> g[k].quantity > 0
      BY <1>1
    <3> HIDE DEF left
    <3> QED
      BY <2>1, <2>2, <3>1
  <2> QED
    BY <1>3, <2>1, <2>3
<1> QED
  BY <1>7, <1>9, <1>10, <1>11, <1>12 DEF sold

(* What is free of a position's lots on a day, less what its open orders   *)
(* hold, is what the position says is available.                           *)
LEMMA AvailableIs ==
  ASSUME NEW a, NEW i, SoundLots(a.lots[i]), a.asOf \in Nat, SellHold(a, i) \in Nat
  PROVE  /\ AvailableUnits(a, i) = FreeUnits(a.lots[i], Day(a.asOf)) - SellHold(a, i)
         /\ Unsettled(a, i) \in Nat /\ Frozen(a, i) \in Nat /\ AvailableUnits(a, i) \in Int
         /\ Units(a.lots[i]) \in Nat
<1> DEFINE L == a.lots[i]
           d == Day(a.asOf)
           S == Settled(L, d)
           R == L \ S
           F == LotFree(d)
<1>1. d \in Nat
  BY DayMonotone
<1>2. /\ SoundLots(S) /\ SoundLots(R) /\ S \subseteq L /\ R \subseteq L /\ S \cap R = {}
      /\ S \cup R = L /\ IsFiniteSet(L) /\ L \subseteq LooseLot
  <2>1. S \subseteq L /\ R \subseteq L /\ S \cap R = {} /\ S \cup R = L
    BY DEF Settled
  <2> HIDE DEF S, R, L
  <2> QED
    BY <2>1, SoundParts DEF L
<1>3. \A l \in L : /\ l.sellable <= d <=> l \in S
                   /\ LotUnits[l] = l.quantity /\ LotUnits[l] \in Nat
                   /\ LotFrozen[l] = l.frozen /\ LotFrozen[l] \in Nat
                   /\ F[l] = IF l \in S THEN l.quantity - l.frozen ELSE 0
                   /\ F[l] \in Int
  <2> TAKE l \in L
  <2>1. /\ LotUnits[l] = l.quantity /\ l.quantity \in Nat
        /\ LotFrozen[l] = l.frozen /\ l.frozen \in Nat
        /\ F[l] = Free(l, d) /\ F[l] \in Int
    BY <1>1, <1>2, LotValues
  <2>2. l.sellable <= d <=> l \in S
    BY DEF Settled
  <2> HIDE DEF S, L, F
  <2> QED
    BY <2>1, <2>2 DEF Free
<1>4. /\ Units(L) = SumOver(LotUnits, L) /\ Units(R) = SumOver(LotUnits, R)
      /\ FreeUnits(L, d) = SumOver(F, L)
      /\ MapThenSumSet(LAMBDA l : l.frozen, S) = SumOver(LotFrozen, S)
  <2>1. IsFiniteSet(S) /\ IsFiniteSet(R) /\ S \subseteq LooseLot /\ R \subseteq LooseLot
    BY <1>2, SoundParts
  <2> HIDE DEF S, R, L
  <2> QED
    BY <1>2, <2>1, UnitsIs, FreeIs, FrozenIs
<1>5. /\ AvailableUnits(a, i) = Units(L) - Units(R)
            - (MapThenSumSet(LAMBDA l : l.frozen, S) + SellHold(a, i))
      /\ Unsettled(a, i) = Units(R)
      /\ Frozen(a, i) = MapThenSumSet(LAMBDA l : l.frozen, S) + SellHold(a, i)
  BY DEF AvailableUnits, Unsettled, Frozen
<1> HIDE DEF S, R, L, F, d
<1>6. SumOver(LotUnits, S \cup R) = SumOver(LotUnits, S) + SumOver(LotUnits, R)
  BY <1>2, <1>3, SumUnion
<1>7. SumOver(F, L) = SumOver(F, S)
  <2>1. \A l \in L \ S : F[l] = 0
    BY <1>3
  <2> QED
    BY <1>2, <1>3, <2>1, SumRestrict
<1>8. SumOver(F, S) = SumOver(LotUnits, S) - SumOver(LotFrozen, S)
  <2>1. \A l \in S : F[l] = LotUnits[l] - LotFrozen[l] /\ LotUnits[l] \in Int /\ LotFrozen[l] \in Int
    BY <1>2, <1>3
  <2>2. IsFiniteSet(S)
    BY <1>2, FS_Subset
  <2> QED
    BY <2>1, <2>2, SumMinus
<1>9. /\ SumOver(LotUnits, S) \in Nat /\ SumOver(LotUnits, R) \in Nat
      /\ SumOver(LotFrozen, S) \in Nat /\ SumOver(LotUnits, L) \in Nat
  <2>1. IsFiniteSet(S) /\ IsFiniteSet(R)
    BY <1>2, FS_Subset
  <2> QED
    BY <1>2, <1>3, <2>1, SumNat
<1>10. SumOver(LotUnits, L) = SumOver(LotUnits, S) + SumOver(LotUnits, R)
  BY <1>2, <1>6
<1>11. AvailableUnits(a, i) = FreeUnits(L, d) - SellHold(a, i) /\ AvailableUnits(a, i) \in Int
  BY <1>4, <1>5, <1>7, <1>8, <1>9, <1>10
<1>12. Unsettled(a, i) \in Nat /\ Frozen(a, i) \in Nat /\ Units(L) \in Nat
  BY <1>4, <1>5, <1>9
<1> QED
  BY <1>11, <1>12 DEF L, d

(* What is free on a day is free on every later one.                       *)
LEMMA FreeMonotone ==
  ASSUME NEW lots, SoundLots(lots), NEW d \in Nat, NEW e \in Nat, d <= e
  PROVE  FreeUnits(lots, d) <= FreeUnits(lots, e)
<1>1. IsFiniteSet(lots) /\ lots \subseteq LooseLot
  BY SoundParts
<1>2. \A l \in lots : LotFree(d)[l] \in Int /\ LotFree(e)[l] \in Int /\ LotFree(d)[l] <= LotFree(e)[l]
  <2> TAKE l \in lots
  <2>1. /\ LotFree(d)[l] = Free(l, d) /\ LotFree(e)[l] = Free(l, e) /\ Free(l, d) \in Nat
        /\ Free(l, e) \in Nat
    BY SoundSums
  <2>2. l.sellable \in Nat
    BY DEF SoundLots, LotRecord
  <2> QED
    BY <2>1, <2>2 DEF Free
<1> QED
  BY <1>1, <1>2, SumBelow, FreeIs

(* A fill that buys adds a lot of its own.                                 *)
LEMMA BoughtFacts ==
  ASSUME NEW lots, SoundLots(lots), NEW lot \in LotRecord, lot.frozen = 0,
         \A l \in lots : l.id # lot.id, NEW day \in Nat
  PROVE  /\ SoundLots(lots \cup {lot})
         /\ Units(lots \cup {lot}) = Units(lots) + lot.quantity
         /\ FreeUnits(lots \cup {lot}, day) >= FreeUnits(lots, day)
<1> DEFINE more == lots \cup {lot}
<1>1. lot.quantity \in Nat /\ lot.sellable \in Nat /\ lot \notin lots
  BY DEF LotRecord
<1>2. SoundLots(more)
  <2>1. IsFiniteSet(more)
    BY FS_AddElement DEF SoundLots
  <2>2. \A l \in more : l.frozen <= l.quantity
    BY <1>1 DEF SoundLots
  <2>3. \A k, l \in more : k.id = l.id => k = l
    BY DEF SoundLots
  <2> QED
    BY <2>1, <2>2, <2>3 DEF SoundLots
<1>3. /\ IsFiniteSet(lots) /\ lots \subseteq LooseLot /\ IsFiniteSet(more) /\ more \subseteq LooseLot
      /\ lot \in more \ lots /\ lots \subseteq more
  BY <1>1, <1>2, SoundParts
<1>4. \A l \in more : LotUnits[l] = l.quantity /\ LotUnits[l] \in Int
                      /\ LotFree(day)[l] = Free(l, day) /\ LotFree(day)[l] \in Nat
  BY <1>2, SoundSums
<1>5. SumOver(LotUnits, lots \cup {lot}) = SumOver(LotUnits, lots) + LotUnits[lot]
  <2> HIDE DEF more
  <2> QED
    BY <1>3, <1>4, SumAdd
<1>6. SumOver(LotFree(day), lots \cup {lot}) = SumOver(LotFree(day), lots) + LotFree(day)[lot]
  <2>1. \A l \in more : LotFree(day)[l] \in Int
    BY <1>4
  <2> HIDE DEF more
  <2> QED
    BY <1>3, <2>1, SumAdd
<1>7. Units(more) = SumOver(LotUnits, more) /\ Units(lots) = SumOver(LotUnits, lots)
  BY <1>3, UnitsIs
<1>8. FreeUnits(more, day) = SumOver(LotFree(day), more)
      /\ FreeUnits(lots, day) = SumOver(LotFree(day), lots) /\ FreeUnits(lots, day) \in Nat
  BY <1>3, FreeIs, SoundSums
<1>9. LotUnits[lot] = lot.quantity /\ LotFree(day)[lot] \in Nat
  BY <1>4
<1> QED
  BY <1>2, <1>5, <1>6, <1>7, <1>8, <1>9

(* The units of the one lot that has an id.                                *)
LEMMA QuantityOfIs ==
  ASSUME NEW lots, NEW id, NEW T, T = {l \in lots : l.id = id}
  PROVE  /\ T = {} => QuantityOf(lots, id) = 0
         /\ \A k \in LooseLot : T = {k} => QuantityOf(lots, id) = k.quantity
<1>1. T = {} => Units(T) = 0
  BY UnitsIs, SumEmpty, FS_EmptySet
<1>2. ASSUME NEW k \in LooseLot, T = {k} PROVE Units(T) = k.quantity
  <2>1. LotUnits[k] = k.quantity /\ LotUnits[k] \in Int
    BY DEF LotUnits, LooseLot
  <2>2. IsFiniteSet({k}) /\ {k} \subseteq LooseLot
    BY FS_Singleton
  <2> QED
    BY <1>2, <2>1, <2>2, UnitsIs, SumOne
<1> QED
  BY <1>1, <1>2 DEF QuantityOf

-----------------------------------------------------------------------------
(* Orders: what they still ask for and hold.                               *)

SoundOrders(orders) ==
  orders \subseteq OrderRecord /\ IsFiniteSet(orders) /\ \A o \in orders : ValidOrder(o)

LEMMA OrderFacts ==
  ASSUME NEW o \in OrderRecord, ValidOrder(o)
  PROVE  /\ Remaining(o) \in Nat /\ o.filled <= o.quantity
         /\ ~IsActive(o) => o.reserved = 0
         /\ o.status = "REJECTED" => o.filled = 0
<1>1. /\ o.quantity \in Nat \ {0} /\ o.filled \in Nat
      /\ o.status \in {"ACCEPTED", "PARTIALLY_FILLED", "FILLED", "CANCELED", "EXPIRED", "REJECTED"}
  BY DEF OrderRecord, OrderStatuses
<1>2. o.filled <= o.quantity /\ (o.status = "REJECTED" => o.filled = 0)
  BY <1>1 DEF ValidOrder, FilledAsStatus
<1> QED
  BY <1>1, <1>2 DEF Remaining, ValidOrder

SellsOf(orders, i) == {o \in orders : IsActive(o) /\ o.side = "SELL" /\ o.instrument = i}
ActiveOf(orders) == {o \in orders : IsActive(o)}

(* What sells hold of a position, and what buys hold of the cash.          *)
LEMMA HoldFacts ==
  ASSUME NEW a, SoundOrders(a.orders), NEW i
  PROVE  /\ SellHold(a, i) = SumOver(OrderLeft, SellsOf(a.orders, i)) /\ SellHold(a, i) \in Nat
         /\ MapThenSumSet(LAMBDA o : o.reserved, {o \in a.orders : IsActive(o)})
              = SumOver(OrderReserve, a.orders)
         /\ SumOver(OrderReserve, a.orders) \in Nat
<1>1. \A o \in a.orders : /\ OrderLeft[o] = Remaining(o) /\ OrderLeft[o] \in Nat
                          /\ OrderReserve[o] = o.reserved /\ OrderReserve[o] \in Nat
                          /\ ~IsActive(o) => OrderReserve[o] = 0
  <2> TAKE o \in a.orders
  <2>1. o \in OrderRecord /\ ValidOrder(o)
    BY DEF SoundOrders
  <2>2. Remaining(o) \in Nat /\ o.reserved \in Nat /\ (~IsActive(o) => o.reserved = 0)
    BY <2>1, OrderFacts DEF OrderRecord
  <2> QED
    BY <2>1, <2>2 DEF OrderLeft, OrderReserve
<1> DEFINE S == SellsOf(a.orders, i)
           A == ActiveOf(a.orders)
<1>2. /\ IsFiniteSet(a.orders) /\ a.orders \subseteq OrderRecord
      /\ S \subseteq a.orders /\ IsFiniteSet(S) /\ S \subseteq OrderRecord
      /\ A \subseteq a.orders /\ IsFiniteSet(A) /\ A \subseteq OrderRecord
  <2>1. S \subseteq a.orders /\ A \subseteq a.orders
    BY DEF SellsOf, ActiveOf
  <2> HIDE DEF S, A
  <2> QED
    BY <2>1, FS_Subset DEF SoundOrders
<1>3. SellHold(a, i) = MapThenSumSet(Remaining, S)
  BY DEF SellHold, SellsOf
<1>4. \A o \in a.orders \ A : OrderReserve[o] = 0
  BY <1>1 DEF ActiveOf
<1>5. MapThenSumSet(LAMBDA o : o.reserved, A) = SumOver(OrderReserve, A)
  <2>1. \A o \in A : OrderReserve[o] = o.reserved
    BY <1>1, <1>2
  <2> HIDE DEF A
  <2> QED
    BY <1>2, <2>1, ReserveIs
<1>6. A = {o \in a.orders : IsActive(o)}
  BY DEF ActiveOf
<1> HIDE DEF S, A
<1>7. MapThenSumSet(Remaining, S) = SumOver(OrderLeft, S)
  BY <1>2, LeftIs
<1>8. SumOver(OrderLeft, S) \in Nat /\ SumOver(OrderReserve, a.orders) \in Nat
  BY <1>1, <1>2, SumNat
<1>9. SumOver(OrderReserve, a.orders) = SumOver(OrderReserve, A)
  <2>1. \A o \in a.orders : OrderReserve[o] \in Int
    BY <1>1
  <2> QED
    BY <1>2, <1>4, <2>1, SumRestrict
<1> QED
  BY <1>3, <1>5, <1>6, <1>7, <1>8, <1>9 DEF S

-----------------------------------------------------------------------------
(* The replay books the fills of a plan one after the other.               *)

(* d is the books after 0, 1, .. n fills.                                  *)
Booking(d, n, start, fills, lotId) ==
  /\ d[0] = start
  /\ \A k \in 1..n : d[k] = Booked(d[k - 1], fills[k], lotId[fills[k].instrument])
  /\ BooksAfter(start, fills, lotId) = d[n]

LEMMA BooksSteps ==
  ASSUME NEW n \in Nat, NEW F, NEW fills \in [1..n -> F], NEW start, NEW lotId
  PROVE  \E d : Booking(d, n, start, fills, lotId)
<1> DEFINE Top(s) == Max(s)
           Step(s, h) == Booked(h[s \ {Top(s)}], fills[Top(s)], lotId[fills[Top(s)].instrument])
           D(m) == {T \in SUBSET (1..n) : Cardinality(T) \in 0..m}
           Good(m) == \E h : h = [s \in D(m) |-> IF s = {} THEN start ELSE Step(s, h)]
           Bad == {m \in Nat : ~Good(m)}
           g == CHOOSE h : h = [s \in SUBSET (1..n) |->
                  IF s = {} THEN start
                  ELSE Booked(h[s \ {Top(s)}], fills[Top(s)], lotId[fills[Top(s)].instrument])]
<1>1. n \in Nat /\ DOMAIN fills = 1..n /\ IsFiniteSet(1..n) /\ Cardinality(1..n) \in Nat
  BY FS_Interval, FS_CardinalityType
<1>2. ASSUME NEW s \in SUBSET (1..n), s # {}
      PROVE  Top(s) \in s /\ Cardinality(s \ {Top(s)}) = Cardinality(s) - 1 /\ Cardinality(s) \in Nat
  <2>1. Top(s) \in s
    BY <1>1, <1>2, GreatestIn
  <2>2. IsFiniteSet(s)
    BY <1>1, FS_Subset
  <2> HIDE DEF Top
  <2> QED
    BY <2>1, <2>2, FS_RemoveElement, FS_CardinalityType
<1> HIDE DEF Top
<1>3. Good(0)
  <2> DEFINE h == [s \in D(0) |-> start]
  <2>1. ASSUME NEW s \in D(0) PROVE s = {}
    <3>1. s \in SUBSET (1..n) /\ Cardinality(s) = 0
      OBVIOUS
    <3>2. IsFiniteSet(s)
      BY <1>1, <3>1, FS_Subset
    <3> QED
      BY <3>1, <3>2, FS_EmptySet
  <2>2. h = [s \in D(0) |-> IF s = {} THEN start ELSE Step(s, h)]
    BY <2>1
  <2> QED
    BY <2>2
<1>4. ASSUME NEW m \in Nat, Good(m) PROVE Good(m + 1)
  <2>1. PICK u : u = [s \in D(m) |-> IF s = {} THEN start ELSE Step(s, u)]
    BY <1>4
  <2> DEFINE h == [s \in D(m + 1) |-> IF s = {} THEN start ELSE Step(s, u)]
  <2>2. ASSUME NEW s \in D(m) PROVE s \in D(m + 1) /\ h[s] = u[s]
    <3>1. s \in D(m + 1)
      OBVIOUS
    <3> QED
      BY <2>1, <3>1
  <2>3. ASSUME NEW s \in D(m + 1), s # {} PROVE s \ {Top(s)} \in D(m)
    <3>1. s \in SUBSET (1..n) /\ Cardinality(s) \in 0..(m + 1)
      OBVIOUS
    <3> DEFINE rest == s \ {Top(s)}
    <3>2. Top(s) \in s /\ Cardinality(rest) = Cardinality(s) - 1 /\ Cardinality(s) \in Nat
      BY <1>2, <2>3, <3>1
    <3>3. IsFiniteSet(rest) /\ rest \in SUBSET (1..n)
      BY <1>1, <3>1, FS_Subset
    <3>4. Cardinality(rest) \in Nat
      BY <3>3, FS_CardinalityType
    <3> HIDE DEF rest
    <3>5. Cardinality(rest) \in 0..m
      BY <3>1, <3>2, <3>4
    <3> QED
      BY <3>3, <3>5 DEF rest
  <2> HIDE DEF D
  <2>4. ASSUME NEW s \in D(m + 1), s # {} PROVE Step(s, u) = Step(s, h)
    <3>1. u[s \ {Top(s)}] = h[s \ {Top(s)}]
      BY <2>2, <2>3, <2>4
    <3> HIDE DEF h
    <3> QED
      BY <3>1
  <2>5. h = [s \in D(m + 1) |-> IF s = {} THEN start ELSE Step(s, h)]
    <3> HIDE DEF Step
    <3> QED
      BY <2>4
  <2> QED
    BY <2>5
<1> HIDE DEF Good
<1>5. Bad = {}
  <2> SUFFICES ASSUME Bad # {} PROVE FALSE
    OBVIOUS
  <2>1. PICK m \in Bad : \A j \in Bad : m <= j
    BY LeastNat
  <2>2. m # 0
    BY <1>3, <2>1
  <2>3. m - 1 \in Nat /\ Good(m - 1)
    BY <2>1, <2>2
  <2>4. Good((m - 1) + 1)
    BY <1>4, <2>3
  <2> QED
    BY <2>1, <2>4
<1>6. D(Cardinality(1..n)) = SUBSET (1..n)
  BY <1>1, FS_Subset, FS_CardinalityType
<1>7. \E h : h = [s \in SUBSET (1..n) |-> IF s = {} THEN start ELSE Step(s, h)]
  <2>1. Good(Cardinality(1..n))
    BY <1>1, <1>5
  <2> QED
    BY <1>6, <2>1 DEF Good
<1>8. g = [s \in SUBSET (1..n) |-> IF s = {} THEN start ELSE Step(s, g)]
  BY <1>7
<1>9. BooksAfter(start, fills, lotId) = g[1..n]
  BY <1>1 DEF BooksAfter, FoldLeft, MapThenFoldSet, Top
<1> HIDE DEF g
<1> DEFINE d == [k \in 0..n |-> g[1..k]]
<1>10. d[0] = start
  <2>1. 1..0 = {} /\ 0 \in 0..n
    BY <1>1
  <2> QED
    BY <1>8, <2>1
<1>11. ASSUME NEW k \in 1..n
       PROVE  d[k] = Booked(d[k - 1], fills[k], lotId[fills[k].instrument])
  <2>1. /\ 1..k \in SUBSET (1..n) /\ 1..k # {}
        /\ (1..k) \ {k} = 1..(k - 1)
        /\ k - 1 \in 0..n /\ k \in 0..n
    <3>1. 1..k \in SUBSET (1..n) /\ 1..k # {}
      <4>1. n \in Nat /\ k \in Nat /\ 1 <= k /\ k <= n
        BY <1>1
      <4>2. 1 \in 1..k
        BY <4>1
      <4>3. \A j \in 1..k : j \in 1..n
        BY <4>1
      <4> QED
        BY <4>2, <4>3
    <3>2. (1..k) \ {k} = 1..(k - 1)
      <4>1. k \in Nat /\ \A j \in Int : j <= k /\ j # k <=> j <= k - 1
        BY <1>1
      <4> QED
        BY <4>1
    <3>3. k - 1 \in 0..n /\ k \in 0..n
      BY <1>1
    <3> QED
      BY <3>1, <3>2, <3>3
  <2>2. Top(1..k) = k
    <3>1. Max(1..k) \in 1..k /\ \A m \in 1..k : m <= Max(1..k)
      BY <1>1, <2>1, GreatestIn
    <3> QED
      BY <3>1 DEF Top
  <2>3. g[1..k] = Step(1..k, g)
    BY <1>8, <2>1
  <2>4. d[k] = g[1..k] /\ d[k - 1] = g[1..(k - 1)]
    BY <2>1
  <2> QED
    BY <2>1, <2>2, <2>3, <2>4
<1>12. BooksAfter(start, fills, lotId) = d[n]
  BY <1>1, <1>9
<1> HIDE DEF d
<1> QED
  BY <1>10, <1>11, <1>12 DEF Booking

(* A sequence of all the elements of a finite set misses none.             *)
LEMMA SequencesMissNone ==
  ASSUME NEW F, IsFiniteSet(F), NEW fills \in SetToSeqs(F)
  PROVE  /\ fills \in [1..Cardinality(F) -> F] /\ Cardinality(F) \in Nat
         /\ \A i, j \in 1..Cardinality(F) : fills[i] = fills[j] => i = j
         /\ \A f \in F : \E i \in 1..Cardinality(F) : fills[i] = f
<1> DEFINE n == Cardinality(F)
<1>1. n \in Nat /\ IsFiniteSet(1..n) /\ Cardinality(1..n) = n
  BY FS_CardinalityType, FS_Interval
<1>2. fills \in [1..n -> F] /\ \A i, j \in 1..n : fills[i] = fills[j] => i = j
  BY DEF SetToSeqs
<1> HIDE DEF n
<1>3. fills \in Injection(1..n, F)
  BY <1>2 DEF Injection, IsInjective
<1>4. fills \in Surjection(1..n, F)
  BY <1>1, <1>3, FS_Injection DEF n
<1> QED
  BY <1>1, <1>2, <1>4 DEF Surjection, n

ChangeOf == [f \in FillRecord |-> f.change]

(* What a fill makes of the lots of its instrument.                        *)
LotOf(f, id) ==
  [id |-> id, quantity |-> f.quantity, acquired |-> f.day, sellable |-> f.sellable, frozen |-> 0]

LotsAfter(lots, f, id) ==
  IF f.side = "BUY" THEN lots \cup {LotOf(f, id)} ELSE ConsumeSellLots(lots, f.quantity, f.day)

(* What some fills, no two of one instrument, make of all lots.            *)
LotsDone(lots, D, lotId) ==
  [i \in Instruments |->
     IF \E f \in D : f.instrument = i
     THEN LotsAfter(lots[i], CHOOSE f \in D : f.instrument = i, lotId[i])
     ELSE lots[i]]

OnePerInstrument(F) == \A f, g \in F : f.instrument = g.instrument => f = g

LEMMA LotsDoneFacts ==
  ASSUME NEW lots, NEW D, OnePerInstrument(D), NEW lotId, NEW i \in Instruments
  PROVE  /\ \A f \in D : f.instrument = i => LotsDone(lots, D, lotId)[i] = LotsAfter(lots[i], f, lotId[i])
         /\ (\A f \in D : f.instrument # i) => LotsDone(lots, D, lotId)[i] = lots[i]
<1>1. ASSUME NEW f \in D, f.instrument = i
      PROVE  LotsDone(lots, D, lotId)[i] = LotsAfter(lots[i], f, lotId[i])
  <2>1. (CHOOSE g \in D : g.instrument = i) = f
    BY <1>1 DEF OnePerInstrument
  <2> QED
    BY <1>1, <2>1 DEF LotsDone
<1> QED
  BY <1>1 DEF LotsDone

(* A function that differs from another at one point.                      *)
LEMMA ChangedAt ==
  ASSUME NEW S, NEW L, L = [j \in S |-> L[j]], NEW M, M = [j \in S |-> M[j]], NEW i \in S,
         NEW x, M[i] = x, \A j \in S : j # i => M[j] = L[j]
  PROVE  M = [L EXCEPT ![i] = x]
<1> DEFINE N == [L EXCEPT ![i] = x]
<1>1. N = [j \in S |-> N[j]] /\ \A j \in S : N[j] = M[j]
  OBVIOUS
<1> HIDE DEF N
<1> QED
  BY <1>1 DEF N

(* The books after all fills: cash and lots do not depend on their order.  *)
LEMMA BooksAre ==
  ASSUME NEW F, F \subseteq FillRecord, IsFiniteSet(F), OnePerInstrument(F),
         NEW fills \in SetToSeqs(F), NEW lotId,
         NEW cash \in Int, NEW lots \in LotTable,
         \A D \in SUBSET F : cash + SumOver(ChangeOf, D) >= 0,
         \A f \in F : /\ f.side = "SELL" => f.quantity <= FreeUnits(lots[f.instrument], f.day)
                                             /\ FreeUnits(lots[f.instrument], f.day) \in Int
                      /\ LotsAfter(lots[f.instrument], f, lotId[f.instrument]) \subseteq LotRecord
  PROVE  BooksAfter([cash |-> cash, lots |-> lots], fills, lotId)
           = [cash |-> cash + SumOver(ChangeOf, F), lots |-> LotsDone(lots, F, lotId)]
<1> DEFINE n == Cardinality(F)
           D(k) == {fills[j] : j \in 1..k}
           books(k) == [cash |-> cash + SumOver(ChangeOf, D(k)), lots |-> LotsDone(lots, D(k), lotId)]
           start == [cash |-> cash, lots |-> lots]
<1>1. /\ fills \in [1..n -> F] /\ n \in Nat /\ \A i, j \in 1..n : fills[i] = fills[j] => i = j
      /\ \A f \in F : \E i \in 1..n : fills[i] = f
  BY SequencesMissNone
<1>2. \A f \in FillRecord : ChangeOf[f] = f.change /\ f.change \in Int /\ f.instrument \in Instruments
                            /\ f.quantity \in Nat /\ f.side \in Sides
  BY DEF ChangeOf, FillRecord
<1>3. ASSUME NEW k \in 0..n
      PROVE  D(k) \subseteq F /\ SumOver(ChangeOf, D(k)) \in Int
  <2>1. D(k) \subseteq F
    <3>1. \A j \in 1..k : j \in 1..n
      BY <1>1
    <3> QED
      BY <1>1, <3>1
  <2>2. IsFiniteSet(D(k))
    BY <2>1, FS_Subset
  <2>3. \A f \in D(k) : ChangeOf[f] \in Int
    BY <1>2, <2>1
  <2> HIDE DEF D
  <2> QED
    BY <2>1, <2>2, <2>3, SumType
<1>4. PICK d : Booking(d, n, start, fills, lotId)
  <2> HIDE DEF start, n
  <2> QED
    BY <1>1, BooksSteps
<1>5. d[0] = books(0)
  <2>1. D(0) = {}
    OBVIOUS
  <2>2. SumOver(ChangeOf, D(0)) = 0
    BY <2>1, SumEmpty
  <2>3. LotsDone(lots, D(0), lotId) = lots
    <3>1. \A f \in D(0) : FALSE
      BY <2>1
    <3> HIDE DEF D
    <3> QED
      BY <3>1 DEF LotsDone, LotTable
  <2> HIDE DEF D
  <2>4. cash + SumOver(ChangeOf, D(0)) = cash
    BY <2>2
  <2> QED
    BY <1>4, <2>3, <2>4 DEF Booking
<1>6. ASSUME NEW k \in 1..n, d[k - 1] = books(k - 1) PROVE d[k] = books(k)
  <2> DEFINE E == D(k - 1)
             f == fills[k]
             i == f.instrument
             was == books(k - 1)
  <2>1. /\ k \in 0..n /\ k - 1 \in 0..n /\ k \in Int /\ f \in F /\ f \in FillRecord
    BY <1>1
  <2>2. D(k) = E \cup {f} /\ f \notin E
    <3>1. \A j \in Int : j \in 1..k <=> j \in 1..(k - 1) \/ j = k
      BY <2>1
    <3>2. D(k) = E \cup {f}
      BY <3>1
    <3>3. \A j \in 1..(k - 1) : j \in 1..n /\ j # k
      BY <1>1, <2>1
    <3> QED
      BY <1>1, <3>2, <3>3
  <2>3. E \subseteq F /\ SumOver(ChangeOf, E) \in Int /\ SumOver(ChangeOf, D(k)) \in Int /\ D(k) \subseteq F
    BY <1>3, <2>1
  <2> HIDE DEF f
  <2>4. SumOver(ChangeOf, D(k)) = SumOver(ChangeOf, E) + f.change
    <3>1. \A x \in F : ChangeOf[x] \in Int
      BY <1>2
    <3>2. f \in F \ E
      BY <2>1, <2>2
    <3>3. PICK T : T = E
      OBVIOUS
    <3>4. T \subseteq F /\ f \in F \ T
      BY <2>3, <3>2, <3>3
    <3>5. SumOver(ChangeOf, T \cup {f}) = SumOver(ChangeOf, T) + ChangeOf[f]
      BY <3>1, <3>4, SumAdd
    <3>6. T \cup {f} = D(k)
      BY <2>2, <3>3
    <3>7. SumOver(ChangeOf, D(k)) = SumOver(ChangeOf, T) + ChangeOf[f]
      BY <3>5, <3>6
    <3> QED
      BY <1>2, <2>1, <3>3, <3>7
  <2>5. OnePerInstrument(E) /\ OnePerInstrument(D(k)) /\ \A x \in E : x.instrument # i
    <3>1. \A x \in E : x \in F /\ x # f
      BY <2>2, <2>3
    <3>2. D(k) \subseteq F /\ E \subseteq F
      BY <2>3
    <3> HIDE DEF D, E, i
    <3> QED
      BY <2>1, <3>1, <3>2 DEF OnePerInstrument, i
  <2>6. i \in Instruments
    BY <1>2, <2>1
  <2> DEFINE L == LotsDone(lots, E, lotId)
             c == cash + SumOver(ChangeOf, E)
  <2>7. was = [cash |-> c, lots |-> L] /\ was.cash = c /\ was.lots = L
    OBVIOUS
  <2>8. L[i] = lots[i]
    <3> HIDE DEF D, E, i
    <3> QED
      BY <2>5, <2>6, LotsDoneFacts
  <2>9. was # Failed
    <3>1. c \in Int
      BY <2>3
    <3>2. L \in LotTable
      <4>1. ASSUME NEW j \in Instruments PROVE L[j] \subseteq LotRecord
        <5>1. CASE \E x \in E : x.instrument = j
          <6>1. PICK x \in E : x.instrument = j
            BY <5>1
          <6>2. L[j] = LotsAfter(lots[j], x, lotId[j])
            <7> HIDE DEF D, E
            <7> QED
              BY <2>5, <6>1, LotsDoneFacts
          <6> QED
            BY <2>3, <6>1, <6>2
        <5>2. CASE ~\E x \in E : x.instrument = j
          <6>1. L[j] = lots[j]
            <7> HIDE DEF D, E
            <7> QED
              BY <2>5, <5>2, LotsDoneFacts
          <6> QED
            BY <6>1 DEF LotTable
        <5> QED
          BY <5>1, <5>2
      <4>2. L = [j \in Instruments |-> L[j]]
        BY DEF LotsDone
      <4> HIDE DEF L
      <4> QED
        BY <4>1, <4>2 DEF LotTable
    <3> HIDE DEF L, c
    <3>3. [cash |-> c, lots |-> L] \in [cash : Int, lots : LotTable]
      BY <3>1, <3>2
    <3> QED
      BY <2>7, <3>3, PaperLedgerAssumption
  <2>10. c + f.change >= 0 /\ c + f.change = cash + SumOver(ChangeOf, D(k)) /\ c + f.change \in Int
    <3>1. cash + SumOver(ChangeOf, D(k)) >= 0 /\ f.change \in Int
      BY <1>2, <2>1, <2>3
    <3> HIDE DEF D, E
    <3> QED
      BY <2>3, <2>4, <3>1
  <2>11. LotsDone(lots, D(k), lotId) = [L EXCEPT ![i] = LotsAfter(lots[i], f, lotId[i])]
    <3> DEFINE M == LotsDone(lots, D(k), lotId)
    <3>1. M[i] = LotsAfter(lots[i], f, lotId[i])
      <4>1. f \in D(k)
        BY <2>2
      <4> HIDE DEF D, i
      <4> QED
        BY <2>5, <2>6, <4>1, LotsDoneFacts DEF i
    <3>2. ASSUME NEW j \in Instruments, j # i PROVE M[j] = L[j]
      <4>1. CASE \E x \in E : x.instrument = j
        <5>1. PICK x \in E : x.instrument = j
          BY <4>1
        <5>2. x \in D(k)
          BY <2>2
        <5> HIDE DEF D, E
        <5> QED
          BY <2>5, <5>1, <5>2, LotsDoneFacts
      <4>2. CASE ~\E x \in E : x.instrument = j
        <5>1. \A x \in D(k) : x.instrument # j
          BY <2>2, <3>2, <4>2
        <5> HIDE DEF D, E
        <5> QED
          BY <2>5, <4>2, <5>1, LotsDoneFacts
      <4> QED
        BY <4>1, <4>2
    <3>3. M = [j \in Instruments |-> M[j]] /\ L = [j \in Instruments |-> L[j]]
      BY DEF LotsDone
    <3> HIDE DEF M, L, D, E, i
    <3> QED
      BY <2>6, <3>1, <3>2, <3>3, ChangedAt DEF M
  <2>12. d[k] = Booked(was, f, lotId[i])
    BY <1>4, <1>6 DEF f, Booking
  <2>13. Booked(was, f, lotId[i])
           = [cash |-> c + f.change, lots |-> [L EXCEPT ![i] = LotsAfter(lots[i], f, lotId[i])]]
    <3>1. ~(c + f.change < 0)
      <4> HIDE DEF c
      <4> QED
        BY <2>10
    <3> HIDE DEF was, c, L
    <3>2. CASE f.side = "BUY"
      BY <2>7, <2>8, <2>9, <3>1, <3>2 DEF Booked, LotsAfter, LotOf
    <3>3. CASE f.side # "BUY"
      <4>1. f.side = "SELL" /\ f.quantity \in Nat
        BY <1>2, <2>1, <3>3 DEF Sides
      <4>2. ~(FreeUnits(L[i], f.day) < f.quantity)
        BY <2>1, <2>8, <4>1
      <4> QED
        BY <2>7, <2>8, <2>9, <3>1, <3>3, <4>2 DEF Booked, LotsAfter
    <3> QED
      BY <3>2, <3>3
  <2> HIDE DEF was, c, L, i, D
  <2> QED
    BY <2>10, <2>11, <2>12, <2>13
<1>7. \A k \in 0..n : d[k] = books(k)
  <2> DEFINE Bad == {k \in Nat : k \in 0..n /\ d[k] # books(k)}
  <2> HIDE DEF n, books
  <2>0. 0..n \subseteq Nat
    BY <1>1
  <2> SUFFICES ASSUME Bad # {} PROVE FALSE
    BY <2>0
  <2>1. PICK k \in Bad : \A m \in Bad : k <= m
    BY LeastNat
  <2>2. k # 0
    BY <1>5, <2>1
  <2>3. k \in 1..n /\ k - 1 \in Nat /\ k - 1 \in 0..n /\ ~(k <= k - 1)
    BY <1>1, <2>1, <2>2
  <2>4. d[k - 1] = books(k - 1)
    BY <2>1, <2>3
  <2> HIDE DEF books
  <2> QED
    BY <1>6, <2>1, <2>3, <2>4
<1>8. D(n) = F
  BY <1>1
<1>9. d[n] = books(n)
  <2>1. n \in 0..n
    BY <1>1
  <2> HIDE DEF books, n
  <2> QED
    BY <1>7, <2>1
<1> HIDE DEF D, n
<1> QED
  BY <1>4, <1>8, <1>9 DEF Booking

-----------------------------------------------------------------------------
(* A plan the engine accepts.                                              *)

SoundAccount(a) ==
  /\ a \in AccountRecord /\ ValidAccount(a) /\ SoundOrders(a.orders)
  /\ \A i \in Instruments : SoundLots(a.lots[i])
  /\ LotsAreDistinct(a.lots)

(* Every batch drafted has finitely many valid lines, no two of one        *)
(* instrument.                                                             *)
SoundBatch(b) ==
  /\ b \in BatchRecord /\ IsFiniteSet(b.lines)
  /\ \A k, l \in b.lines : k.instrument = l.instrument => k = l
  /\ \A l \in b.lines : ValidLine(l)

Planned(b, plan) ==
  /\ MarketIsSound /\ now \in Nat /\ SoundAccount(account) /\ SoundBatch(b)
  /\ plan \in PlansOf(b)

ResultOf(b) == [l \in b.lines |-> MatchedLine(b, l, market, now)]

LEMMA PlanGuards ==
  ASSUME NEW b, NEW plan, Planned(b, plan)
  PROVE  /\ Submittable(account, source, b, now) /\ HoldsAffordable(account, b)
         /\ \A l \in b.lines : LineExecutable(account, l, b.day)
         /\ plan = {ResultOf(b)[l] : l \in b.lines} /\ Failed \notin plan
<1>1. plan = Plan(account, source, b, market, now) /\ plan # Failed
  BY DEF Planned, PlansOf
<1>2. /\ Submittable(account, source, b, now) /\ HoldsAffordable(account, b)
      /\ \A l \in b.lines : LineExecutable(account, l, b.day)
      /\ plan = Affordable(account, {MatchedLine(b, l, market, now) : l \in b.lines})
  BY <1>1 DEF Plan
<1>3. plan = {MatchedLine(b, l, market, now) : l \in b.lines} /\ Failed \notin plan
  BY <1>1, <1>2 DEF Affordable
<1>4. {MatchedLine(b, l, market, now) : l \in b.lines} = {ResultOf(b)[l] : l \in b.lines}
  BY DEF ResultOf
<1> QED
  BY <1>2, <1>3, <1>4

(* The order and the fill of one line.                                     *)
OrderMatches(b, l, o) ==
  /\ o \in OrderRecord /\ ValidOrder(o)
  /\ o.batch = b /\ o.instrument = l.instrument /\ o.side = l.side /\ o.quantity = l.quantity
  /\ o.limited = l.limited /\ o.expires = b.expires

FillMatches(l, o, f) ==
  /\ f \in FillRecord /\ ValidFill(f) /\ f.instrument = l.instrument /\ f.side = l.side
  /\ f.quantity = o.filled /\ o.filled > 0 /\ f.day = Day(now)
  /\ f.change >= -l.reserved /\ o.reserved <= l.reserved + f.change
  /\ f.side = "BUY" => f.sellable \in Nat /\ f.day <= f.sellable

NoFillOf(l, o) == o.filled = 0 /\ o.reserved <= l.reserved

AttemptMatches(o, a) ==
  ValidAttempt(a) /\ a.status = o.status /\ a.filled = o.filled

LEMMA LineFacts ==
  ASSUME NEW b, b \in BatchRecord, NEW l \in LineRecord, ValidLine(l)
  PROVE  /\ l.instrument \in Instruments /\ l.side \in Sides /\ l.quantity \in Nat \ {0}
         /\ l.limited \in BOOLEAN /\ l.reserved \in Nat /\ l.rule \in MarketRuleRecord
         /\ l.fee \in FeeRuleRecord
         /\ b.expires \in Nat
         /\ l.side = "BUY" => l.reserved > 0
<1>1. /\ l.instrument \in Instruments /\ l.side \in Sides /\ l.quantity \in Nat \ {0}
      /\ l.limited \in BOOLEAN /\ l.reserved \in Nat /\ l.rule \in MarketRuleRecord
      /\ l.fee \in FeeRuleRecord /\ l.price \in Nat \ {0} /\ l.estimate \in Nat
  BY DEF LineRecord
<1>2. b.expires \in Nat
  BY DEF BatchRecord
<1>3. ASSUME l.side = "BUY" PROVE l.reserved > 0
  <2>1. l.estimate >= l.price /\ l.reserved >= l.quantity * l.estimate
    BY <1>3 DEF ValidLine
  <2>2. l.estimate > 0 /\ l.quantity > 0
    BY <1>1, <2>1
  <2>3. l.quantity * l.estimate > 0
    BY <1>1, <2>2
  <2> QED
    BY <1>1, <2>1, <2>3
<1> QED
  BY <1>1, <1>2, <1>3

LEMMA HeldFacts ==
  ASSUME NEW b, b \in BatchRecord, NEW l \in LineRecord, ValidLine(l), NEW r, IsHeld(b, l, r)
  PROVE  /\ OrderMatches(b, l, r.order) /\ AttemptMatches(r.order, r.attempt)
         /\ r.fill = Absent /\ NoFillOf(l, r.order) /\ r.order.status # "REJECTED"
<1>1. PICK reason \in NoFillReasons \ {"INSUFFICIENT_CASH"} : r = Unfilled(b, l, reason)
  BY DEF IsHeld
<1>2. /\ r.order = OrderOf(b, l, "ACCEPTED", 0, l.reserved) /\ r.fill = Absent
      /\ r.attempt = Attempt(l, "ACCEPTED", 0, reason)
  BY <1>1 DEF Unfilled
<1>3. reason # Absent /\ reason # "INSUFFICIENT_CASH"
  BY PaperLedgerAssumption
<1> DEFINE o == OrderOf(b, l, "ACCEPTED", 0, l.reserved)
<1>4. /\ o.batch = b /\ o.instrument = l.instrument /\ o.side = l.side /\ o.quantity = l.quantity
      /\ o.filled = 0 /\ o.status = "ACCEPTED" /\ o.reserved = l.reserved
      /\ o.limited = l.limited /\ o.expires = b.expires
  BY DEF OrderOf
<1>5. o \in OrderRecord
  BY LineFacts DEF OrderOf, OrderRecord, OrderStatuses
<1> HIDE DEF o
<1>6. ValidOrder(o)
  <2>1. IsActive(o)
    BY <1>4 DEF IsActive
  <2>2. o.side = "BUY" => o.reserved > 0
    BY <1>4, LineFacts
  <2>3. FilledAsStatus(o.status, o.filled, o.quantity)
    BY <1>4 DEF FilledAsStatus
  <2> QED
    BY <2>1, <2>2, <2>3 DEF ValidOrder
<1>7. AttemptMatches(o, r.attempt)
  BY <1>2, <1>3, <1>4 DEF AttemptMatches, Attempt, ValidAttempt, FilledAsStatus
<1>8. NoFillOf(l, o)
  BY <1>4, LineFacts DEF NoFillOf
<1> QED
  BY <1>2, <1>4, <1>5, <1>6, <1>7, <1>8 DEF OrderMatches, o

LEMMA TurnedDownFacts ==
  ASSUME NEW b, b \in BatchRecord, NEW l \in LineRecord, ValidLine(l), NEW r, NEW at,
         IsTurnedDown(b, l, r, at)
  PROVE  /\ OrderMatches(b, l, r.order) /\ AttemptMatches(r.order, r.attempt)
         /\ r.fill = Absent /\ NoFillOf(l, r.order) /\ r.order.status = "REJECTED"
<1>1. r = Rejected(b, l)
  BY DEF IsTurnedDown
<1>2. /\ r.order = OrderOf(b, l, "REJECTED", 0, 0) /\ r.fill = Absent
      /\ r.attempt = Attempt(l, "REJECTED", 0, "INSUFFICIENT_CASH")
  BY <1>1 DEF Rejected
<1>3. "INSUFFICIENT_CASH" # Absent
  BY PaperLedgerAssumption DEF NoFillReasons
<1> DEFINE o == OrderOf(b, l, "REJECTED", 0, 0)
<1>4. /\ o.batch = b /\ o.instrument = l.instrument /\ o.side = l.side /\ o.quantity = l.quantity
      /\ o.filled = 0 /\ o.status = "REJECTED" /\ o.reserved = 0
      /\ o.limited = l.limited /\ o.expires = b.expires
  BY DEF OrderOf
<1>5. o \in OrderRecord
  BY LineFacts DEF OrderOf, OrderRecord, OrderStatuses
<1> HIDE DEF o
<1>6. ValidOrder(o)
  BY <1>4 DEF ValidOrder, IsActive, FilledAsStatus
<1>7. AttemptMatches(o, r.attempt)
  BY <1>2, <1>3, <1>4 DEF AttemptMatches, Attempt, ValidAttempt, FilledAsStatus
<1>8. NoFillOf(l, o)
  BY <1>4, LineFacts DEF NoFillOf
<1> QED
  BY <1>2, <1>4, <1>5, <1>6, <1>7, <1>8 DEF OrderMatches, o

LEMMA FilledFacts ==
  ASSUME NEW b, b \in BatchRecord, NEW l \in LineRecord, ValidLine(l), NEW r, now \in Nat,
         IsFilled(b, l, r, now)
  PROVE  /\ OrderMatches(b, l, r.order) /\ AttemptMatches(r.order, r.attempt)
         /\ r.fill # Absent /\ FillMatches(l, r.order, r.fill) /\ r.order.status # "REJECTED"
<1>1. PICK n \in 1..l.quantity, change \in Int :
        /\ r = Executed(b, l, n, change, now)
        /\ change >= -l.reserved
        /\ l.side = "BUY" =>
             /\ change < 0 /\ SellableOn(l.rule, Calendar, Day(now)) # Failed
             /\ n < l.quantity => l.reserved + change > 0
  BY DEF IsFilled
<1> DEFINE done == n = l.quantity
           status == IF done THEN "FILLED" ELSE "PARTIALLY_FILLED"
           kept == l.reserved - Largest(-change, 0)
           left == IF done THEN 0 ELSE kept
           o == OrderOf(b, l, status, n, left)
           f == Fill(l, n, change, now)
<1>2. r.order = o /\ r.attempt = Attempt(l, status, n, Absent) /\ r.fill = f
  BY <1>1 DEF Executed
<1>3. /\ n \in Nat \ {0} /\ n <= l.quantity /\ l.reserved \in Nat /\ l.quantity \in Nat \ {0}
      /\ l.side \in Sides /\ l.instrument \in Instruments /\ l.rule \in MarketRuleRecord
  BY LineFacts
<1>4. /\ kept \in Nat /\ kept <= l.reserved + change
      /\ l.side = "BUY" /\ ~done => kept > 0
  BY <1>1, <1>3 DEF Largest
<1>5. left \in Nat /\ left <= l.reserved + change
  BY <1>1, <1>3, <1>4
<1>6. /\ o.batch = b /\ o.instrument = l.instrument /\ o.side = l.side /\ o.quantity = l.quantity
      /\ o.filled = n /\ o.status = status /\ o.reserved = left
      /\ o.limited = l.limited /\ o.expires = b.expires
  BY DEF OrderOf
<1>7. o \in OrderRecord
  <2>1. status \in OrderStatuses
    BY DEF OrderStatuses
  <2>2. n \in Nat
    BY <1>3
  <2> HIDE DEF status, left
  <2> QED
    BY <1>5, <2>1, <2>2, LineFacts DEF OrderOf, OrderRecord
<1>8. ValidOrder(o)
  <2>1. FilledAsStatus(o.status, o.filled, o.quantity)
    BY <1>3, <1>6 DEF FilledAsStatus
  <2>2. IsActive(o) <=> ~done
    BY <1>6 DEF IsActive
  <2>3. ~done /\ l.side = "BUY" => left > 0
    BY <1>4
  <2>4. done => left = 0
    OBVIOUS
  <2> HIDE DEF o, left, done
  <2> QED
    BY <1>6, <2>1, <2>2, <2>3, <2>4 DEF ValidOrder
<1>9. Day(now) \in Nat
  BY DayMonotone
<1>10. l.side = "BUY" => /\ SellableOn(l.rule, Calendar, Day(now)) \in Nat
                         /\ Day(now) <= SellableOn(l.rule, Calendar, Day(now))
  BY <1>1, <1>3, <1>9, SellableOnFacts
<1>11. /\ f.instrument = l.instrument /\ f.side = l.side /\ f.quantity = n /\ f.change = change
       /\ f.day = Day(now)
       /\ f.sellable = IF l.side = "BUY" THEN SellableOn(l.rule, Calendar, Day(now)) ELSE Absent
  BY DEF Fill
<1>12. f \in FillRecord
  <2> DEFINE s == IF l.side = "BUY" THEN SellableOn(l.rule, Calendar, Day(now)) ELSE Absent
  <2>1. s \in Nat \cup {Absent}
    BY <1>10
  <2>2. f = [instrument |-> l.instrument, side |-> l.side, quantity |-> n, change |-> change,
             day |-> Day(now), sellable |-> s]
    BY DEF Fill
  <2> HIDE DEF s, f
  <2> QED
    BY <1>1, <1>3, <1>9, <2>1, <2>2 DEF FillRecord
<1>13. ValidFill(f)
  <2>1. Absent \notin Nat
    BY OrderDraftsAssumption
  <2>2. l.side = "BUY" => f.sellable # Absent /\ f.change < 0
    BY <1>1, <1>10, <1>11, <2>1
  <2>3. l.side = "SELL" => f.sellable = Absent
    BY <1>11
  <2>4. f.quantity > 0
    BY <1>3, <1>11
  <2> HIDE DEF f
  <2> QED
    BY <1>11, <2>2, <2>3, <2>4 DEF ValidFill
<1>14. r.fill # Absent
  BY <1>2, <1>12, PaperLedgerAssumption
<1>15. AttemptMatches(o, r.attempt)
  <2>1. ValidAttempt(Attempt(l, status, n, Absent))
    <3>1. "INSUFFICIENT_CASH" # Absent
      BY PaperLedgerAssumption DEF NoFillReasons
    <3> QED
      BY <1>3, <3>1 DEF ValidAttempt, Attempt, FilledAsStatus
  <2> QED
    BY <1>2, <1>6, <2>1 DEF AttemptMatches, Attempt
<1>16. FillMatches(l, o, f)
  <2>1. f.side = "BUY" => f.sellable \in Nat /\ f.day <= f.sellable
    BY <1>10, <1>11
  <2> HIDE DEF f, o, left
  <2> QED
    BY <1>1, <1>3, <1>5, <1>6, <1>11, <1>12, <1>13, <2>1 DEF FillMatches
<1>17. o.status # "REJECTED"
  BY <1>6
<1> HIDE DEF o, f
<1> QED
  BY <1>2, <1>6, <1>7, <1>8, <1>14, <1>15, <1>16, <1>17 DEF OrderMatches

(* Every line of a plan has an order, and perhaps a fill, that fit it.     *)
LEMMA ResultFacts ==
  ASSUME NEW b, NEW plan, Planned(b, plan), NEW l \in b.lines, NEW r, r = ResultOf(b)[l]
  PROVE  /\ OrderMatches(b, l, r.order) /\ AttemptMatches(r.order, r.attempt)
         /\ r.fill = Absent => NoFillOf(l, r.order)
         /\ r.fill # Absent => FillMatches(l, r.order, r.fill)
         /\ r.order.status = "REJECTED" => IsTurnedDown(b, l, r, now)
<1>1. b \in BatchRecord /\ l \in LineRecord /\ ValidLine(l) /\ now \in Nat /\ MarketIsSound
  BY DEF Planned, SoundBatch, BatchRecord
<1>2. r = MatchedLine(b, l, market, now)
  BY DEF ResultOf
<1>3. r # Failed
  BY PlanGuards
<1>4. IsHeld(b, l, r) \/ IsTurnedDown(b, l, r, now) \/ IsFilled(b, l, r, now)
  BY <1>1, <1>2, <1>3, LineOutcome
<1>5. CASE IsHeld(b, l, r)
  BY <1>1, <1>5, HeldFacts
<1>6. CASE IsTurnedDown(b, l, r, now)
  BY <1>1, <1>6, TurnedDownFacts
<1>7. CASE IsFilled(b, l, r, now)
  BY <1>1, <1>7, FilledFacts
<1> QED
  BY <1>4, <1>5, <1>6, <1>7

LEMMA AccountParts ==
  ASSUME NEW a, SoundAccount(a)
  PROVE  /\ a.asOf \in Nat /\ a.cash \in Nat /\ a.external \in Nat /\ a.lots \in LotTable
         /\ a.orders \subseteq OrderRecord /\ IsFiniteSet(a.orders) /\ SoundOrders(a.orders)
         /\ a.processed \subseteq BatchRecord /\ Day(a.asOf) \in Nat
         /\ \A i \in Instruments : /\ SoundLots(a.lots[i]) /\ SellHold(a, i) \in Nat
                                   /\ AvailableUnits(a, i) >= 0
                                   /\ AvailableUnits(a, i) =
                                        FreeUnits(a.lots[i], Day(a.asOf)) - SellHold(a, i)
                                   /\ \A d \in Nat : FreeUnits(a.lots[i], d) \in Nat
         /\ AvailableCash(a) = a.cash - a.external - SumOver(OrderReserve, a.orders)
         /\ SumOver(OrderReserve, a.orders) \in Nat
<1>1. /\ a.asOf \in Nat /\ a.cash \in Nat /\ a.external \in Nat /\ a.lots \in LotTable
      /\ a.orders \subseteq OrderRecord /\ a.processed \subseteq BatchRecord
  BY DEF SoundAccount, AccountRecord
<1>2. SoundOrders(a.orders) /\ IsFiniteSet(a.orders)
  BY DEF SoundAccount, SoundOrders
<1>3. Day(a.asOf) \in Nat
  BY <1>1, DayMonotone
<1>4. ASSUME NEW i \in Instruments
      PROVE  /\ SoundLots(a.lots[i]) /\ SellHold(a, i) \in Nat
             /\ AvailableUnits(a, i) >= 0
             /\ AvailableUnits(a, i) = FreeUnits(a.lots[i], Day(a.asOf)) - SellHold(a, i)
             /\ \A d \in Nat : FreeUnits(a.lots[i], d) \in Nat
  <2>1. SoundLots(a.lots[i]) /\ AvailableUnits(a, i) >= 0
    BY DEF SoundAccount, ValidAccount
  <2>2. SellHold(a, i) \in Nat
    BY <1>2, HoldFacts
  <2> QED
    BY <1>1, <2>1, <2>2, AvailableIs, SoundSums
<1>5. /\ MapThenSumSet(LAMBDA o : o.reserved, {o \in a.orders : IsActive(o)})
           = SumOver(OrderReserve, a.orders)
      /\ SumOver(OrderReserve, a.orders) \in Nat
  BY <1>2, HoldFacts
<1>6. AvailableCash(a) = a.cash - (a.external + SumOver(OrderReserve, a.orders))
  BY <1>5 DEF AvailableCash, FrozenCash
<1> QED
  BY <1>1, <1>2, <1>3, <1>4, <1>5, <1>6

(* The batch of a plan, and when it is executed.                           *)
LEMMA PlanParts ==
  ASSUME NEW b, NEW plan, Planned(b, plan)
  PROVE  /\ IsFiniteSet(b.lines) /\ b.lines \subseteq LineRecord /\ b \in BatchRecord
         /\ now \in Nat /\ account.asOf <= now /\ Day(now) \in Nat
         /\ Day(account.asOf) <= Day(now) /\ b.day = Day(now) /\ b.account = source.id
         /\ b \notin account.processed /\ now < b.expires
         /\ \A k, l \in b.lines : k.instrument = l.instrument => k = l
         /\ SoundAccount(account)
<1>1. Submittable(account, source, b, now)
  BY PlanGuards
<1>2. SoundBatch(b) /\ SoundAccount(account) /\ now \in Nat
  BY DEF Planned
<1>3. account.asOf \in Nat /\ account.asOf <= now
  BY <1>1, <1>2, AccountParts DEF Submittable
<1> QED
  BY <1>1, <1>2, <1>3, DayMonotone DEF Submittable, SoundBatch, BatchRecord

(* The fills of a plan are those of its lines, at most one of each         *)
(* instrument.                                                             *)
LEMMA FillsFacts ==
  ASSUME NEW b, NEW plan, Planned(b, plan)
  PROVE  /\ \A f \in FillsOf(plan) : \E l \in b.lines :
              f = ResultOf(b)[l].fill /\ f # Absent /\ FillMatches(l, ResultOf(b)[l].order, f)
         /\ \A l \in b.lines : ResultOf(b)[l].fill # Absent => ResultOf(b)[l].fill \in FillsOf(plan)
         /\ FillsOf(plan) \subseteq FillRecord /\ IsFiniteSet(FillsOf(plan))
         /\ OnePerInstrument(FillsOf(plan))
<1> DEFINE F == FillsOf(plan)
           R == ResultOf(b)
<1>1. plan = {R[l] : l \in b.lines}
  BY PlanGuards
<1>2. F = {r.fill : r \in {x \in plan : x.fill # Absent}}
  BY DEF FillsOf
<1>3. \A f \in F : \E l \in b.lines : f = R[l].fill /\ f # Absent
  BY <1>1, <1>2
<1>4. \A l \in b.lines : R[l].fill # Absent => R[l].fill \in F
  BY <1>1, <1>2
<1> HIDE DEF F, R
<1>5. \A l \in b.lines : R[l].fill # Absent => FillMatches(l, R[l].order, R[l].fill)
  BY ResultFacts DEF R
<1>6. \A f \in F : \E l \in b.lines : f = R[l].fill /\ f # Absent /\ FillMatches(l, R[l].order, f)
  BY <1>3, <1>5
<1>7. F \subseteq FillRecord
  BY <1>6 DEF FillMatches
<1>8. OnePerInstrument(F)
  <2> SUFFICES ASSUME NEW f \in F, NEW g \in F, f.instrument = g.instrument PROVE f = g
    BY DEF OnePerInstrument
  <2>1. PICK k \in b.lines : f = R[k].fill /\ FillMatches(k, R[k].order, f)
    BY <1>6
  <2>2. PICK l \in b.lines : g = R[l].fill /\ FillMatches(l, R[l].order, g)
    BY <1>6
  <2>3. k = l
    BY <2>1, <2>2, PlanParts DEF FillMatches
  <2> QED
    BY <2>1, <2>2, <2>3
<1>9. IsFiniteSet(F)
  <2> DEFINE g == [l \in b.lines |-> R[l].fill]
             T == {g[l] : l \in b.lines}
  <2>1. IsFiniteSet(T)
    <3> HIDE DEF g
    <3> QED
      BY PlanParts, ImageFinite
  <2>2. F \subseteq T
    BY <1>3
  <2> HIDE DEF T
  <2> QED
    BY <2>1, <2>2, FS_Subset
<1> QED
  BY <1>4, <1>6, <1>7, <1>8, <1>9 DEF F, R

(* What a sell of the plan and the open sells hold is free.                *)
LEMMA SellsFit ==
  ASSUME NEW b, NEW plan, Planned(b, plan), NEW i \in Instruments
  PROVE  /\ SellHold(account, i) \in Nat /\ FreeUnits(account.lots[i], Day(now)) \in Nat
         /\ SellHold(account, i) <= FreeUnits(account.lots[i], Day(now))
         /\ \A l \in b.lines : l.instrument = i /\ l.side = "SELL" =>
              SellHold(account, i) + l.quantity <= FreeUnits(account.lots[i], Day(now))
<1>1. /\ SoundAccount(account) /\ Day(now) \in Nat /\ Day(account.asOf) <= Day(now)
      /\ b.lines \subseteq LineRecord
  BY PlanParts
<1>2. /\ SoundLots(account.lots[i]) /\ SellHold(account, i) \in Nat
      /\ AvailableUnits(account, i) >= 0
      /\ AvailableUnits(account, i) =
           FreeUnits(account.lots[i], Day(account.asOf)) - SellHold(account, i)
      /\ FreeUnits(account.lots[i], Day(account.asOf)) \in Nat
      /\ FreeUnits(account.lots[i], Day(now)) \in Nat /\ Day(account.asOf) \in Nat
  BY <1>1, AccountParts
<1>3. FreeUnits(account.lots[i], Day(account.asOf)) <= FreeUnits(account.lots[i], Day(now))
  BY <1>1, <1>2, FreeMonotone
<1>4. ASSUME NEW l \in b.lines, l.instrument = i, l.side = "SELL"
      PROVE  SellHold(account, i) + l.quantity <= FreeUnits(account.lots[i], Day(now))
  <2>1. l.quantity <= AvailableUnits(account, i)
    BY <1>4, PlanGuards DEF HoldsAffordable
  <2>2. l.quantity \in Nat
    BY <1>1 DEF LineRecord
  <2> QED
    BY <1>2, <1>3, <2>1, <2>2
<1> QED
  BY <1>2, <1>3, <1>4

(* The lots of an instrument after its fill.                               *)
LotIsGood(l, day) ==
  /\ ValidLot(l) /\ l.acquired <= day
  /\ l.sellable > day => l.frozen = 0

LEMMA LotsAfterFacts ==
  ASSUME NEW b, NEW plan, Planned(b, plan), NEW lotId \in LotIdChoices,
         NEW l \in b.lines, NEW f, f = ResultOf(b)[l].fill, f # Absent,
         NEW i, i = l.instrument, NEW after, after = LotsAfter(account.lots[i], f, lotId[i])
  PROVE  /\ SoundLots(after) /\ Units(after) \in Nat /\ Units(account.lots[i]) \in Nat
         /\ f.quantity \in Nat \ {0} /\ FreeUnits(after, Day(now)) \in Nat
         /\ \A k \in after : LotIsGood(k, Day(now))
         /\ \A k \in after : k.id = lotId[i] \/ \E m \in account.lots[i] : m.id = k.id
         /\ f.side = "BUY" => /\ Units(after) = Units(account.lots[i]) + f.quantity
                              /\ FreeUnits(after, Day(now)) >= FreeUnits(account.lots[i], Day(now))
         /\ f.side = "SELL" => /\ Units(after) = Units(account.lots[i]) - f.quantity
                               /\ f.quantity <= FreeUnits(account.lots[i], Day(now))
                               /\ FreeUnits(after, Day(now)) =
                                    FreeUnits(account.lots[i], Day(now)) - f.quantity
<1> DEFINE L == account.lots[i]
           d == Day(now)
           o == ResultOf(b)[l].order
           lot == LotOf(f, lotId[i])
<1>1. /\ SoundAccount(account) /\ d \in Nat /\ Day(account.asOf) <= d /\ Day(account.asOf) \in Nat
      /\ l \in LineRecord
  BY PlanParts, AccountParts
<1>2. FillMatches(l, o, f) /\ OrderMatches(b, l, o)
  BY ResultFacts
<1>3. i \in Instruments
  BY <1>1 DEF LineRecord
<1>4. SoundLots(L)
  BY <1>1, <1>3 DEF SoundAccount
<1>5. \A k \in L : LotIsGood(k, d)
  <2> TAKE k \in L
  <2>1. /\ ValidLot(k) /\ k.acquired <= Day(account.asOf)
        /\ k.sellable > Day(account.asOf) => k.frozen = 0
    BY <1>1, <1>3 DEF SoundAccount, ValidAccount
  <2>2. k.acquired \in Nat /\ k.sellable \in Nat
    BY <1>4 DEF SoundLots, LotRecord
  <2> HIDE DEF d
  <2> QED
    BY <1>1, <2>1, <2>2 DEF LotIsGood
<1>6. /\ f.quantity \in Nat \ {0} /\ f.day = d /\ f.side \in Sides /\ f.quantity = o.filled
      /\ f.side = l.side /\ o.filled <= o.quantity /\ o.quantity = l.quantity
      /\ f.side = "BUY" => f.sellable \in Nat /\ d <= f.sellable
  BY <1>2, OrderFacts DEF FillMatches, FillRecord, OrderMatches
<1>7. lotId[i] \in Nat /\ \A k \in L : k.id # lotId[i]
  <2>1. lotId[i] \in LotIds \ UsedLotIds
    BY <1>3 DEF LotIdChoices
  <2>2. \A k \in L : k.id \in UsedLotIds
    BY <1>3 DEF UsedLotIds
  <2> QED
    BY <2>1, <2>2, TradingDayAssumption
<1>8. Units(L) \in Nat /\ FreeUnits(L, d) \in Nat
  BY <1>1, <1>4, SoundSums
<1>9. CASE f.side = "BUY"
  <2>1. after = L \cup {lot}
    BY <1>9 DEF LotsAfter
  <2>2. lot.id = lotId[i] /\ lot.frozen = 0 /\ lot.quantity = f.quantity /\ lot.acquired = d
        /\ lot.sellable = f.sellable
    BY <1>6 DEF LotOf
  <2>3. lot \in LotRecord
    BY <1>1, <1>6, <1>7, <1>9 DEF LotOf, LotRecord
  <2>4. LotIsGood(lot, d)
    <3> HIDE DEF lot, d
    <3> QED
      BY <1>1, <1>6, <1>9, <2>2 DEF LotIsGood, ValidLot
  <2> HIDE DEF lot, L, d
  <2>5. /\ SoundLots(L \cup {lot}) /\ Units(L \cup {lot}) = Units(L) + lot.quantity
        /\ FreeUnits(L \cup {lot}, d) >= FreeUnits(L, d)
    BY <1>1, <1>4, <1>7, <2>2, <2>3, BoughtFacts
  <2>6. FreeUnits(after, d) \in Nat /\ Units(after) \in Nat
    BY <1>1, <2>1, <2>5, SoundSums
  <2>7. \A k \in after : k.id = lotId[i] \/ \E m \in L : m.id = k.id
    BY <2>1, <2>2
  <2>8. \A k \in after : LotIsGood(k, d)
    BY <1>5, <2>1, <2>4
  <2> QED
    BY <1>6, <1>8, <1>9, <2>1, <2>2, <2>5, <2>6, <2>7, <2>8 DEF L, d
<1>10. CASE f.side = "SELL"
  <2>1. after = ConsumeSellLots(L, f.quantity, d)
    BY <1>6, <1>10 DEF LotsAfter
  <2>2. f.quantity <= FreeUnits(L, d)
    <3>1. SellHold(account, i) \in Nat /\ SellHold(account, i) + l.quantity <= FreeUnits(L, d)
      BY <1>3, <1>6, <1>10, SellsFit
    <3>2. f.quantity <= l.quantity /\ l.quantity \in Nat
      BY <1>1, <1>6 DEF LineRecord
    <3> HIDE DEF L, d
    <3> QED
      BY <1>6, <1>8, <3>1, <3>2
  <2> HIDE DEF L, d
  <2>3. f.quantity \in Nat
    BY <1>6
  <2>4. /\ SoundLots(after) /\ Units(after) = Units(L) - f.quantity
        /\ FreeUnits(after, d) = FreeUnits(L, d) - f.quantity
        /\ \A k \in after : \E m \in L :
             /\ k.id = m.id /\ k.acquired = m.acquired /\ k.sellable = m.sellable
             /\ k.frozen = m.frozen
    BY <1>1, <1>4, <2>1, <2>2, <2>3, SaleFacts
  <2>5. FreeUnits(after, d) \in Nat /\ Units(after) \in Nat
    BY <1>1, <2>4, SoundSums
  <2>6. \A k \in after : k.id = lotId[i] \/ \E m \in L : m.id = k.id
    BY <2>4
  <2>7. ASSUME NEW k \in after PROVE LotIsGood(k, d)
    <3>1. PICK m \in L : /\ k.id = m.id /\ k.acquired = m.acquired /\ k.sellable = m.sellable
                         /\ k.frozen = m.frozen
      BY <2>4
    <3>2. LotIsGood(m, d)
      BY <1>5
    <3>3. k.quantity \in Nat /\ k.quantity > 0 /\ k.frozen \in Nat /\ k.frozen <= k.quantity
      BY <2>4 DEF SoundLots, LotRecord
    <3> QED
      BY <3>1, <3>2, <3>3 DEF LotIsGood, ValidLot
  <2> QED
    BY <1>6, <1>8, <1>10, <2>2, <2>4, <2>5, <2>6, <2>7 DEF L, d
<1> QED
  BY <1>6, <1>9, <1>10 DEF Sides

(* The change of cash each line of a batch brings.                         *)
ChangesOf(b) ==
  [l \in b.lines |-> IF ResultOf(b)[l].fill = Absent THEN 0 ELSE ResultOf(b)[l].fill.change]
NewOrders(b) == {ResultOf(b)[l].order : l \in b.lines}

LEMMA ChangesFacts ==
  ASSUME NEW b, NEW plan, Planned(b, plan), NEW l \in b.lines
  PROVE  /\ ChangesOf(b)[l] \in Int /\ LineReserve[l] = l.reserved /\ l.reserved \in Nat
         /\ ChangesOf(b)[l] + l.reserved >= 0
         /\ ResultOf(b)[l].fill # Absent => ChangesOf(b)[l] = ResultOf(b)[l].fill.change
         /\ ResultOf(b)[l].fill = Absent => ChangesOf(b)[l] = 0
         /\ ResultOf(b)[l].order.reserved \in Nat
         /\ ResultOf(b)[l].order.reserved <= l.reserved + ChangesOf(b)[l]
<1> DEFINE r == ResultOf(b)[l]
<1>1. l \in LineRecord /\ LineReserve[l] = l.reserved /\ l.reserved \in Nat
  BY PlanParts DEF LineRecord, LineReserve
<1>2. /\ OrderMatches(b, l, r.order)
      /\ r.fill = Absent => NoFillOf(l, r.order)
      /\ r.fill # Absent => FillMatches(l, r.order, r.fill)
  BY ResultFacts
<1>3. r.order.reserved \in Nat
  BY <1>2 DEF OrderMatches, OrderRecord
<1>4. ChangesOf(b)[l] = IF r.fill = Absent THEN 0 ELSE r.fill.change
  BY DEF ChangesOf
<1>5. CASE r.fill = Absent
  BY <1>1, <1>2, <1>3, <1>4, <1>5 DEF NoFillOf
<1>6. CASE r.fill # Absent
  <2>1. r.fill.change \in Int
    BY <1>2, <1>6 DEF FillMatches, FillRecord
  <2>2. r.fill.change >= -l.reserved /\ r.order.reserved <= l.reserved + r.fill.change
    BY <1>2, <1>6 DEF FillMatches
  <2> HIDE DEF r
  <2>3. ChangesOf(b)[l] = r.fill.change
    BY <1>4, <1>6
  <2> QED
    BY <1>1, <1>3, <1>6, <2>1, <2>2, <2>3 DEF r
<1> QED
  BY <1>5, <1>6

(* The sum of some fills' changes is a sum over their lines.               *)
LEMMA FillSums ==
  ASSUME NEW b, NEW plan, Planned(b, plan), NEW D, D \subseteq FillsOf(plan)
  PROVE  SumOver(ChangeOf, D) = SumOver(ChangesOf(b), {l \in b.lines : ResultOf(b)[l].fill \in D})
<1> DEFINE S == {l \in b.lines : ResultOf(b)[l].fill \in D}
           g == [l \in S |-> ResultOf(b)[l].fill]
           w == ChangesOf(b)
<1>1. /\ D \subseteq FillRecord
      /\ \A f \in D : \E l \in b.lines : f = ResultOf(b)[l].fill
      /\ IsFiniteSet(b.lines)
  BY FillsFacts, PlanParts
<1>2. IsFiniteSet(S)
  BY <1>1, FS_Subset
<1>3. {g[x] : x \in S} = D
  BY <1>1
<1>4. \A x \in S : g[x] = ResultOf(b)[x].fill /\ x \in b.lines /\ g[x] \in D
  OBVIOUS
<1> HIDE DEF g, S, w
<1>5. ASSUME NEW x \in S PROVE ChangeOf[g[x]] \in Int /\ w[x] = ChangeOf[g[x]]
  <2>1. g[x] \in FillRecord /\ ResultOf(b)[x].fill # Absent
    BY <1>1, <1>4, PaperLedgerAssumption
  <2>2. ChangeOf[g[x]] = g[x].change /\ g[x].change \in Int
    BY <2>1 DEF ChangeOf, FillRecord
  <2>3. w[x] = ResultOf(b)[x].fill.change
    BY <1>4, <2>1, ChangesFacts DEF w
  <2> QED
    BY <1>4, <2>2, <2>3
<1>6. ASSUME NEW x \in S, NEW y \in S, g[x] = g[y] PROVE x = y
  <2>1. /\ FillMatches(x, ResultOf(b)[x].order, g[x])
        /\ FillMatches(y, ResultOf(b)[y].order, g[y])
    <3>1. \A z \in S : g[z] # Absent
      BY <1>1, <1>4, PaperLedgerAssumption
    <3> QED
      BY <1>4, <3>1, ResultFacts
  <2>2. x.instrument = y.instrument
    BY <1>6, <2>1 DEF FillMatches
  <2> QED
    BY <1>4, <2>2, PlanParts
<1>7. SumOver(ChangeOf, {g[x] : x \in S}) = SumOver(w, S)
  BY <1>2, <1>5, <1>6, SumImage
<1> QED
  BY <1>3, <1>7 DEF S, w

(* What the lines of a batch reserve was free when it was drafted.         *)
LEMMA ReservedFits ==
  ASSUME NEW b, NEW plan, Planned(b, plan)
  PROVE  /\ SumOver(LineReserve, b.lines) \in Nat
         /\ SumOver(LineReserve, b.lines) <= AvailableCash(account)
<1>1. /\ IsFiniteSet(b.lines)
      /\ \A l \in b.lines : LineReserve[l] = l.reserved /\ LineReserve[l] \in Nat
  BY PlanParts, ChangesFacts
<1>2. MapThenSumSet(LAMBDA l : l.reserved, b.lines) = SumOver(LineReserve, b.lines)
  BY <1>1, ReserveIs
<1>3. MapThenSumSet(LAMBDA l : l.reserved, b.lines) <= AvailableCash(account)
  BY PlanGuards DEF HoldsAffordable
<1>4. SumOver(LineReserve, b.lines) \in Nat
  BY <1>1, SumNat
<1> QED
  BY <1>2, <1>3, <1>4

LEMMA NewOrdersFacts ==
  ASSUME NEW b, NEW plan, Planned(b, plan)
  PROVE  /\ NewOrders(b) = {r.order : r \in plan}
         /\ IsFiniteSet(NewOrders(b)) /\ NewOrders(b) \subseteq OrderRecord
         /\ NewOrders(b) \cap account.orders = {}
         /\ \A o \in NewOrders(b) : \E l \in b.lines :
              o = ResultOf(b)[l].order /\ OrderMatches(b, l, o)
         /\ SumOver(OrderReserve, NewOrders(b))
              <= SumOver(LineReserve, b.lines) + SumOver(ChangesOf(b), b.lines)
         /\ SumOver(OrderReserve, NewOrders(b)) \in Nat
         /\ SumOver(ChangesOf(b), b.lines) \in Int
<1> DEFINE L == b.lines
           g == [l \in L |-> ResultOf(b)[l].order]
           N == {g[l] : l \in L}
           v == [l \in L |-> ResultOf(b)[l].order.reserved]
           e == [l \in L |-> l.reserved + ChangesOf(b)[l]]
           c == ChangesOf(b)
<1>1. IsFiniteSet(L) /\ b \notin account.processed /\ SoundAccount(account)
  BY PlanParts
<1>2. NewOrders(b) = N
  BY DEF NewOrders
<1>3. NewOrders(b) = {r.order : r \in plan}
  BY PlanGuards DEF NewOrders
<1>4. \A l \in L : g[l] = ResultOf(b)[l].order /\ OrderMatches(b, l, g[l])
  BY ResultFacts
<1>5. \A l \in L : v[l] = g[l].reserved /\ e[l] = l.reserved + c[l]
  OBVIOUS
<1> HIDE DEF g, v, e, c
<1>6. IsFiniteSet(N)
  BY <1>1, ImageFinite
<1>7. N \subseteq OrderRecord
  BY <1>4 DEF OrderMatches
<1>8. \A o \in N : o.batch = b
  BY <1>4 DEF OrderMatches
<1>9. \A o \in account.orders : o.batch # b
  BY <1>1 DEF SoundAccount, ValidAccount
<1>10. \A x \in L : /\ OrderReserve[g[x]] \in Int /\ v[x] = OrderReserve[g[x]] /\ v[x] \in Nat
  <2> TAKE x \in L
  <2>1. g[x] \in OrderRecord
    BY <1>4 DEF OrderMatches
  <2> QED
    BY <1>5, <2>1 DEF OrderReserve, OrderRecord
<1>11. \A x, y \in L : g[x] = g[y] => x = y
  <2> SUFFICES ASSUME NEW x \in L, NEW y \in L, g[x] = g[y] PROVE x = y
    OBVIOUS
  <2>1. x.instrument = y.instrument
    BY <1>4 DEF OrderMatches
  <2> QED
    BY <2>1, PlanParts
<1>12. SumOver(OrderReserve, N) = SumOver(v, L)
  BY <1>1, <1>10, <1>11, SumImage
<1>13. \A x \in L : /\ c[x] \in Int /\ LineReserve[x] \in Int /\ LineReserve[x] = x.reserved
                    /\ e[x] \in Int /\ c[x] = e[x] - LineReserve[x] /\ v[x] <= e[x]
                    /\ v[x] \in Int
  <2> TAKE x \in L
  <2>1. /\ c[x] \in Int /\ LineReserve[x] = x.reserved /\ x.reserved \in Nat
        /\ g[x].reserved \in Nat /\ g[x].reserved <= x.reserved + c[x]
    BY <1>4, ChangesFacts DEF c
  <2> QED
    BY <1>5, <1>10, <2>1
<1>14. SumOver(v, L) <= SumOver(e, L)
  BY <1>1, <1>13, SumBelow
<1>15. SumOver(c, L) = SumOver(e, L) - SumOver(LineReserve, L)
  BY <1>1, <1>13, SumMinus
<1>16. /\ SumOver(v, L) \in Nat /\ SumOver(e, L) \in Int /\ SumOver(LineReserve, L) \in Int
       /\ SumOver(c, L) \in Int
  BY <1>1, <1>10, <1>13, SumNat, SumType
<1>17. N \cap account.orders = {}
  BY <1>8, <1>9
<1>18. SumOver(OrderReserve, N) <= SumOver(LineReserve, L) + SumOver(c, L)
  BY <1>12, <1>14, <1>15, <1>16
<1>19. SumOver(OrderReserve, N) \in Nat
  BY <1>12, <1>16
<1>20. \A o \in N : \E l \in L : o = ResultOf(b)[l].order /\ OrderMatches(b, l, o)
  BY <1>4
<1> HIDE DEF N
<1> QED
  BY <1>2, <1>3, <1>6, <1>7, <1>16, <1>17, <1>18, <1>19, <1>20 DEF c

(* However the fills of a plan are ordered, the cash never runs out, and   *)
(* what is left covers what the orders hold.                               *)
LEMMA CashFacts ==
  ASSUME NEW b, NEW plan, Planned(b, plan)
  PROVE  /\ \A D \in SUBSET FillsOf(plan) : account.cash + SumOver(ChangeOf, D) >= 0
         /\ SumOver(ChangeOf, FillsOf(plan)) \in Int
         /\ account.cash + SumOver(ChangeOf, FillsOf(plan)) - account.external
              - SumOver(OrderReserve, account.orders \cup NewOrders(b)) >= 0
         /\ SumOver(OrderReserve, account.orders \cup NewOrders(b)) \in Nat
<1> DEFINE L == b.lines
           c == ChangesOf(b)
           F == FillsOf(plan)
           held == SumOver(OrderReserve, account.orders)
           new == SumOver(OrderReserve, NewOrders(b))
           res == SumOver(LineReserve, L)
<1>1. /\ IsFiniteSet(L) /\ account.cash \in Nat /\ account.external \in Nat
      /\ held \in Nat /\ AvailableCash(account) = account.cash - account.external - held
      /\ account.orders \subseteq OrderRecord /\ IsFiniteSet(account.orders)
  BY PlanParts, AccountParts
<1>2. res \in Nat /\ res <= AvailableCash(account)
  BY ReservedFits
<1>3. \A l \in L : c[l] \in Int /\ LineReserve[l] \in Nat /\ c[l] + LineReserve[l] >= 0
  BY ChangesFacts
<1>4. ASSUME NEW D \in SUBSET F
      PROVE  account.cash + SumOver(ChangeOf, D) >= 0 /\ SumOver(ChangeOf, D) \in Int
  <2> DEFINE S == {l \in L : ResultOf(b)[l].fill \in D}
             u == [l \in L |-> c[l] + LineReserve[l]]
  <2>1. SumOver(ChangeOf, D) = SumOver(c, S)
    BY FillSums
  <2>2. IsFiniteSet(S) /\ S \subseteq L
    BY <1>1, FS_Subset
  <2> HIDE DEF S, c, L
  <2>3. \A l \in S : /\ u[l] \in Nat /\ u[l] \in Int /\ LineReserve[l] \in Int /\ c[l] \in Int
                     /\ c[l] = u[l] - LineReserve[l]
    BY <1>3, <2>2
  <2> HIDE DEF u
  <2>4. SumOver(c, S) = SumOver(u, S) - SumOver(LineReserve, S)
    BY <2>2, <2>3, SumMinus
  <2>5. SumOver(u, S) \in Nat
    BY <2>2, <2>3, SumNat
  <2>6. SumOver(LineReserve, S) <= res /\ SumOver(LineReserve, S) \in Nat
    BY <1>1, <1>3, <2>2, SumPart
  <2> HIDE DEF res, held
  <2> QED
    BY <1>1, <1>2, <2>1, <2>4, <2>5, <2>6
<1>5. SumOver(ChangeOf, F) = SumOver(c, L)
  <2> DEFINE S == {l \in L : ResultOf(b)[l].fill \in F}
  <2>1. SumOver(ChangeOf, F) = SumOver(c, S)
    BY FillSums
  <2>2. \A l \in L \ S : c[l] = 0
    BY FillsFacts, ChangesFacts
  <2>3. S \subseteq L
    OBVIOUS
  <2> HIDE DEF S, c, L, F
  <2>4. SumOver(c, L) = SumOver(c, S)
    BY <1>1, <1>3, <2>2, <2>3, SumRestrict
  <2> QED
    BY <2>1, <2>4
<1>6. /\ new <= res + SumOver(c, L) /\ new \in Nat /\ SumOver(c, L) \in Int
      /\ IsFiniteSet(NewOrders(b)) /\ NewOrders(b) \subseteq OrderRecord
      /\ NewOrders(b) \cap account.orders = {}
  BY NewOrdersFacts
<1>7. SumOver(OrderReserve, account.orders \cup NewOrders(b)) = held + new
  <2> DEFINE V == account.orders \cup NewOrders(b)
  <2>1. IsFiniteSet(V)
    BY <1>1, <1>6, FS_Union
  <2>2. \A o \in V : OrderReserve[o] \in Int
    BY <1>1, <1>6 DEF OrderReserve, OrderRecord
  <2> QED
    BY <1>6, <2>1, <2>2, SumUnion
<1>8. \A D \in SUBSET F : account.cash + SumOver(ChangeOf, D) >= 0
  BY <1>4
<1>9. SumOver(ChangeOf, F) \in Int
  BY <1>4
<1> HIDE DEF res, held, new, L, c
<1>10. account.cash + SumOver(ChangeOf, F) - account.external - (held + new) >= 0
  BY <1>1, <1>2, <1>5, <1>6
<1> QED
  BY <1>1, <1>6, <1>7, <1>8, <1>9, <1>10

(* The account a plan leads to.                                            *)
NextAccount(b, plan, lotId) ==
  Advanced(account, b, plan,
           [cash |-> account.cash + SumOver(ChangeOf, FillsOf(plan)),
            lots |-> LotsDone(account.lots, FillsOf(plan), lotId)], now)

LEMMA NextParts ==
  ASSUME NEW b, NEW plan, Planned(b, plan), NEW lotId \in LotIdChoices,
         NEW a, a = NextAccount(b, plan, lotId)
  PROVE  /\ a.asOf = now /\ a.cash = account.cash + SumOver(ChangeOf, FillsOf(plan))
         /\ a.external = account.external
         /\ a.lots = LotsDone(account.lots, FillsOf(plan), lotId)
         /\ a.orders = account.orders \cup NewOrders(b)
         /\ a.processed = account.processed \cup {b}
         /\ a = [asOf |-> a.asOf, cash |-> a.cash, external |-> a.external, lots |-> a.lots,
                 orders |-> a.orders, processed |-> a.processed]
<1> DEFINE cash == account.cash + SumOver(ChangeOf, FillsOf(plan))
           lots == LotsDone(account.lots, FillsOf(plan), lotId)
           orders == {r.order : r \in plan}
<1>1. account \in AccountRecord
  BY PlanParts DEF SoundAccount
<1>2. a = [account EXCEPT !.asOf = now, !.cash = cash, !.lots = lots,
                          !.orders = @ \cup orders, !.processed = @ \cup {b}]
  BY DEF NextAccount, Advanced
<1>3. orders = NewOrders(b)
  BY NewOrdersFacts
<1> HIDE DEF cash, lots, orders
<1>4. account = [asOf |-> account.asOf, cash |-> account.cash, external |-> account.external,
                 lots |-> account.lots, orders |-> account.orders, processed |-> account.processed]
  BY <1>1 DEF AccountRecord
<1>5. a = [asOf |-> now, cash |-> cash, external |-> account.external, lots |-> lots,
           orders |-> account.orders \cup orders, processed |-> account.processed \cup {b}]
  BY <1>2, <1>4
<1> QED
  BY <1>3, <1>5 DEF cash, lots

(* The sells of an instrument after a plan: those before, and that of the  *)
(* plan's line if it stays active.                                         *)
LEMMA SellsAfter ==
  ASSUME NEW b, NEW plan, Planned(b, plan), NEW i \in Instruments
  PROVE  LET before == SumOver(OrderLeft, SellsOf(account.orders, i))
             after  == SumOver(OrderLeft, SellsOf(account.orders \cup NewOrders(b), i))
         IN  /\ (\A l \in b.lines : l.instrument # i) => after = before
             /\ \A l \in b.lines : l.instrument = i =>
                  /\ l.side = "BUY" => after = before
                  /\ l.side = "SELL" => after <= before + (l.quantity - ResultOf(b)[l].order.filled)
             /\ before \in Nat /\ after \in Int
<1> DEFINE N == NewOrders(b)
           old == SellsOf(account.orders, i)
           V == account.orders \cup N
           new == SellsOf(V, i)
           added == {o \in N : IsActive(o) /\ o.side = "SELL" /\ o.instrument = i}
<1>1. /\ IsFiniteSet(N) /\ N \subseteq OrderRecord /\ N \cap account.orders = {}
      /\ \A o \in N : \E l \in b.lines : o = ResultOf(b)[l].order /\ OrderMatches(b, l, o)
  BY NewOrdersFacts
<1>2. SoundOrders(account.orders) /\ IsFiniteSet(account.orders) /\ account.orders \subseteq OrderRecord
  BY PlanParts, AccountParts
<1>3. \A o \in V : o \in OrderRecord /\ ValidOrder(o)
  BY <1>1, <1>2 DEF SoundOrders, OrderMatches
<1>4. IsFiniteSet(V)
  BY <1>1, <1>2, FS_Union
<1>5. \A o \in V : OrderLeft[o] = Remaining(o) /\ OrderLeft[o] \in Nat
  BY <1>3, OrderFacts DEF OrderLeft
<1>6. new = old \cup added /\ old \cap added = {} /\ old \subseteq V /\ added \subseteq V
  BY <1>1 DEF SellsOf
<1> HIDE DEF new, old, V
<1>7. IsFiniteSet(old) /\ IsFiniteSet(added)
  BY <1>4, <1>6, FS_Subset
<1>8. SumOver(OrderLeft, old) \in Nat /\ SumOver(OrderLeft, added) \in Nat
  BY <1>5, <1>6, <1>7, SumNat
<1>9. SumOver(OrderLeft, new) = SumOver(OrderLeft, old) + SumOver(OrderLeft, added)
  <2>1. \A o \in V : OrderLeft[o] \in Int
    BY <1>5
  <2> HIDE DEF added
  <2> QED
    BY <1>4, <1>6, <2>1, SumUnion
<1>10. ASSUME \A l \in b.lines : l.instrument # i PROVE SumOver(OrderLeft, new) = SumOver(OrderLeft, old)
  <2>1. added = {}
    BY <1>1, <1>10 DEF OrderMatches
  <2> QED
    BY <1>8, <1>9, <2>1, SumEmpty
<1>11. ASSUME NEW l \in b.lines, l.instrument = i, l.side = "BUY"
       PROVE  SumOver(OrderLeft, new) = SumOver(OrderLeft, old)
  <2>1. \A o \in N : o.instrument = i => o.side = "BUY"
    BY <1>1, <1>11, PlanParts DEF OrderMatches
  <2>2. added = {}
    BY <2>1
  <2> HIDE DEF added
  <2>3. SumOver(OrderLeft, added) = 0
    BY <2>2, SumEmpty
  <2> QED
    BY <1>8, <1>9, <2>3
<1>12. ASSUME NEW l \in b.lines, l.instrument = i, l.side = "SELL"
       PROVE  SumOver(OrderLeft, new)
                <= SumOver(OrderLeft, old) + (l.quantity - ResultOf(b)[l].order.filled)
  <2> DEFINE o == ResultOf(b)[l].order
  <2>1. OrderMatches(b, l, o)
    BY ResultFacts
  <2>2. \A p \in added : p = o
    BY <1>1, <1>12, PlanParts DEF OrderMatches
  <2>3. o \in V
    BY DEF V, NewOrders
  <2>4. Remaining(o) = l.quantity - o.filled /\ OrderLeft[o] = Remaining(o) /\ OrderLeft[o] \in Nat
    BY <1>5, <2>1, <2>3 DEF OrderMatches, Remaining
  <2> HIDE DEF o, added
  <2>5. CASE added = {}
    <3>1. SumOver(OrderLeft, added) = 0
      BY <2>5, SumEmpty
    <3> QED
      BY <1>8, <1>9, <2>4, <3>1 DEF o
  <2>6. CASE added # {}
    <3>1. added = {o}
      BY <2>2, <2>6
    <3>2. OrderLeft[o] \in Int
      BY <2>4
    <3>3. SumOver(OrderLeft, added) = OrderLeft[o]
      BY <3>1, <3>2, SumOne
    <3> QED
      BY <1>8, <1>9, <2>4, <3>3 DEF o
  <2> QED
    BY <2>5, <2>6
<1>13. SumOver(OrderLeft, new) \in Int
  BY <1>8, <1>9
<1> QED
  BY <1>8, <1>10, <1>11, <1>12, <1>13 DEF new, old, V

(* The lots of an instrument after a plan: sound, and enough of them free  *)
(* for the sells that stay active.                                         *)
LotsFit(b, id, i, lots) ==
  /\ SoundLots(lots) /\ FreeUnits(lots, Day(now)) \in Nat
  /\ \A k \in lots : LotIsGood(k, Day(now))
  /\ \A k \in lots : k.id = id \/ \E m \in account.lots[i] : m.id = k.id
  /\ SumOver(OrderLeft, SellsOf(account.orders \cup NewOrders(b), i)) <= FreeUnits(lots, Day(now))

UnitsFit(b, i, lots) ==
  /\ (\A l \in b.lines : l.instrument # i) => lots = account.lots[i]
  /\ \A l \in b.lines : l.instrument = i =>
       Units(lots) = IF l.side = "BUY"
                     THEN Units(account.lots[i]) + ResultOf(b)[l].order.filled
                     ELSE Units(account.lots[i]) - ResultOf(b)[l].order.filled

LEMMA NextLots ==
  ASSUME NEW b, NEW plan, Planned(b, plan), NEW lotId \in LotIdChoices, NEW i \in Instruments,
         NEW lots, lots = LotsDone(account.lots, FillsOf(plan), lotId)[i]
  PROVE  LotsFit(b, lotId[i], i, lots) /\ UnitsFit(b, i, lots)
<1> DEFINE F == FillsOf(plan)
           before == SumOver(OrderLeft, SellsOf(account.orders, i))
           after == SumOver(OrderLeft, SellsOf(account.orders \cup NewOrders(b), i))
           d == Day(now)
           L == account.lots[i]
<1>1. /\ SoundAccount(account) /\ d \in Nat /\ Day(account.asOf) <= d /\ Day(account.asOf) \in Nat
      /\ SoundLots(L) /\ FreeUnits(L, d) \in Nat /\ Units(L) \in Nat
  BY PlanParts, AccountParts, SoundSums
<1>2. before \in Nat /\ before = SellHold(account, i) /\ before <= FreeUnits(L, d)
  BY <1>1, SellsFit, HoldFacts DEF SoundAccount
<1>3. \A k \in L : LotIsGood(k, d)
  <2> TAKE k \in L
  <2>1. /\ ValidLot(k) /\ k.acquired <= Day(account.asOf)
        /\ k.sellable > Day(account.asOf) => k.frozen = 0
    BY <1>1 DEF SoundAccount, ValidAccount
  <2>2. k.acquired \in Nat /\ k.sellable \in Nat
    BY <1>1 DEF SoundLots, LotRecord
  <2> HIDE DEF d
  <2> QED
    BY <1>1, <2>1, <2>2 DEF LotIsGood
<1>4. /\ \A f \in F : \E l \in b.lines :
           f = ResultOf(b)[l].fill /\ f # Absent /\ FillMatches(l, ResultOf(b)[l].order, f)
      /\ \A l \in b.lines : ResultOf(b)[l].fill # Absent => ResultOf(b)[l].fill \in F
      /\ OnePerInstrument(F)
  BY FillsFacts
<1>5. /\ \A f \in F : f.instrument = i => lots = LotsAfter(L, f, lotId[i])
      /\ (\A f \in F : f.instrument # i) => lots = L
  BY <1>4, LotsDoneFacts
<1>6. CASE \A l \in b.lines : l.instrument # i
  <2>1. \A f \in F : f.instrument # i
    BY <1>4, <1>6 DEF FillMatches
  <2>2. lots = L
    BY <1>5, <2>1
  <2>3. after = before
    BY <1>6, SellsAfter
  <2> HIDE DEF F, after, before, d, L
  <2>4. LotsFit(b, lotId[i], i, lots)
    BY <1>1, <1>2, <1>3, <2>2, <2>3 DEF L, after, d, LotsFit
  <2> QED
    BY <1>6, <2>2, <2>4 DEF L, UnitsFit
<1>7. ASSUME NEW l \in b.lines, l.instrument = i
      PROVE  /\ SoundLots(lots) /\ FreeUnits(lots, d) \in Nat
             /\ \A k \in lots : LotIsGood(k, d)
             /\ \A k \in lots : k.id = lotId[i] \/ \E m \in L : m.id = k.id
             /\ after <= FreeUnits(lots, d)
             /\ Units(lots) = IF l.side = "BUY" THEN Units(L) + ResultOf(b)[l].order.filled
                              ELSE Units(L) - ResultOf(b)[l].order.filled
  <2> DEFINE f == ResultOf(b)[l].fill
             o == ResultOf(b)[l].order
  <2>1. /\ OrderMatches(b, l, o) /\ (f = Absent => NoFillOf(l, o))
        /\ f # Absent => FillMatches(l, o, f)
    BY ResultFacts
  <2>2. /\ l.side \in Sides /\ l.quantity \in Nat /\ o.filled \in Nat
    BY <2>1, PlanParts DEF OrderMatches, OrderRecord, LineRecord
  <2>3. /\ l.side = "BUY" => after = before
        /\ l.side = "SELL" => after <= before + (l.quantity - o.filled)
        /\ after \in Int
    BY <1>7, SellsAfter
  <2>4. l.side = "SELL" => before + l.quantity <= FreeUnits(L, d)
    BY <1>2, <1>7, SellsFit
  <2>5. CASE f = Absent
    <3>1. \A g \in F : g.instrument # i
      <4> SUFFICES ASSUME NEW g \in F, g.instrument = i PROVE FALSE
        OBVIOUS
      <4>1. PICK k \in b.lines : g = ResultOf(b)[k].fill /\ g # Absent /\ g.instrument = k.instrument
        BY <1>4 DEF FillMatches
      <4>2. k = l
        BY <1>7, <4>1, PlanParts
      <4> QED
        BY <2>5, <4>1, <4>2
    <3>2. lots = L /\ o.filled = 0
      BY <1>5, <2>1, <2>5, <3>1 DEF NoFillOf
    <3> HIDE DEF F, after, before, d, L, f, o
    <3>3. after <= FreeUnits(L, d)
      BY <1>1, <1>2, <2>2, <2>3, <2>4, <3>2 DEF Sides
    <3>4. Units(lots) = IF l.side = "BUY" THEN Units(L) + o.filled ELSE Units(L) - o.filled
      BY <1>1, <3>2
    <3> QED
      BY <1>1, <1>3, <3>2, <3>3, <3>4 DEF o
  <2>6. CASE f # Absent
    <3>1. f \in F /\ f.instrument = i /\ f.quantity = o.filled /\ f.side = l.side
      BY <1>4, <1>7, <2>1, <2>6 DEF FillMatches
    <3>2. lots = LotsAfter(L, f, lotId[i])
      BY <1>5, <3>1
    <3> HIDE DEF F, after, before
    <3>3. /\ SoundLots(lots) /\ FreeUnits(lots, d) \in Nat
          /\ \A k \in lots : LotIsGood(k, d)
          /\ \A k \in lots : k.id = lotId[i] \/ \E m \in L : m.id = k.id
          /\ f.side = "BUY" => /\ Units(lots) = Units(L) + f.quantity
                               /\ FreeUnits(lots, d) >= FreeUnits(L, d)
          /\ f.side = "SELL" => /\ Units(lots) = Units(L) - f.quantity
                                /\ FreeUnits(lots, d) = FreeUnits(L, d) - f.quantity
      BY <1>7, <2>6, <3>2, LotsAfterFacts
    <3> HIDE DEF d, L, f, o
    <3>4. after <= FreeUnits(lots, d)
      BY <1>1, <1>2, <2>2, <2>3, <2>4, <3>1, <3>3 DEF Sides
    <3>5. Units(lots) = IF l.side = "BUY" THEN Units(L) + o.filled ELSE Units(L) - o.filled
      BY <2>2, <3>1, <3>3 DEF Sides
    <3> QED
      BY <3>3, <3>4, <3>5 DEF o
  <2> QED
    BY <2>5, <2>6
<1>8. \A k, l \in b.lines : k.instrument = l.instrument => k = l
  BY PlanParts
<1> HIDE DEF F, after, before, d, L
<1>9. CASE \E l \in b.lines : l.instrument = i
  <2>1. PICK l \in b.lines : l.instrument = i
    BY <1>9
  <2>2. LotsFit(b, lotId[i], i, lots)
    BY <1>7, <2>1 DEF after, d, L, LotsFit
  <2>3. UnitsFit(b, i, lots)
    BY <1>7, <1>8, <2>1 DEF L, UnitsFit
  <2> QED
    BY <2>2, <2>3
<1> QED
  BY <1>6, <1>9

(* That account is sound: valid, with lots that share no id.               *)
LEMMA NextDistinct ==
  ASSUME NEW b, NEW plan, Planned(b, plan), NEW lotId \in LotIdChoices,
         NEW after, after = LotsDone(account.lots, FillsOf(plan), lotId)
  PROVE  LotsAreDistinct(after)
<1>0. \A i \in Instruments : LotsFit(b, lotId[i], i, after[i])
  BY NextLots
<1>1. \A i \in Instruments : \A k \in after[i] :
        k.id = lotId[i] \/ \E m \in account.lots[i] : m.id = k.id
  BY <1>0 DEF LotsFit
<1>2. \A i \in Instruments : SoundLots(after[i])
  BY <1>0 DEF LotsFit
<1>3. LotsAreDistinct(account.lots)
  BY PlanParts DEF SoundAccount
<1>4. /\ \A i, j \in Instruments : lotId[i] = lotId[j] => i = j
      /\ \A i, j \in Instruments : \A m \in account.lots[j] : m.id # lotId[i]
  <2>1. lotId \in [Instruments -> LotIds \ UsedLotIds] /\ IsInjective(lotId)
    BY DEF LotIdChoices
  <2>2. \A j \in Instruments : \A m \in account.lots[j] : m.id \in UsedLotIds
    BY DEF UsedLotIds
  <2>3. \A i, j \in Instruments : lotId[i] = lotId[j] => i = j
    BY <2>1 DEF IsInjective
  <2> QED
    BY <2>1, <2>2, <2>3
<1>5. ASSUME NEW i \in Instruments, NEW j \in Instruments, NEW k \in after[i], NEW l \in after[j],
             k.id = l.id
      PROVE  i = j /\ k = l
  <2>1. i = j
    <3>1. CASE k.id = lotId[i] /\ l.id = lotId[j]
      BY <1>4, <1>5, <3>1
    <3>2. CASE k.id = lotId[i] /\ l.id # lotId[j]
      <4>1. PICK n \in account.lots[j] : n.id = l.id
        BY <1>1, <3>2
      <4> QED
        BY <1>4, <1>5, <3>2, <4>1
    <3>3. CASE k.id # lotId[i] /\ l.id = lotId[j]
      <4>1. PICK m \in account.lots[i] : m.id = k.id
        BY <1>1, <3>3
      <4> QED
        BY <1>4, <1>5, <3>3, <4>1
    <3>4. CASE k.id # lotId[i] /\ l.id # lotId[j]
      <4>1. PICK m \in account.lots[i] : m.id = k.id
        BY <1>1, <3>4
      <4>2. PICK n \in account.lots[j] : n.id = l.id
        BY <1>1, <3>4
      <4> QED
        BY <1>3, <1>5, <4>1, <4>2 DEF LotsAreDistinct
    <3> QED
      BY <3>1, <3>2, <3>3, <3>4
  <2> QED
    BY <1>2, <1>5, <2>1 DEF SoundLots
<1> QED
  BY <1>5 DEF LotsAreDistinct

LEMMA NextOrders ==
  ASSUME NEW b, NEW plan, Planned(b, plan)
  PROVE  /\ SoundOrders(account.orders \cup NewOrders(b))
         /\ \A o \in account.orders \cup NewOrders(b) :
              o.batch \in account.processed \cup {b} /\ (IsActive(o) => now < o.expires)
<1>1. /\ IsFiniteSet(NewOrders(b)) /\ NewOrders(b) \subseteq OrderRecord
      /\ \A o \in NewOrders(b) : \E l \in b.lines : OrderMatches(b, l, o)
  BY NewOrdersFacts
<1>2. SoundOrders(account.orders) /\ now < b.expires
  BY PlanParts DEF SoundAccount
<1>3. IsFiniteSet(account.orders \cup NewOrders(b))
  BY <1>1, <1>2, FS_Union DEF SoundOrders
<1>4. \A o \in NewOrders(b) : ValidOrder(o) /\ o.batch = b /\ now < o.expires
  BY <1>1, <1>2 DEF OrderMatches
<1>5. \A o \in account.orders : o.batch \in account.processed /\ (IsActive(o) => now < o.expires)
  <2>1. \A o \in account.orders : o.batch \in account.processed
    BY PlanParts DEF SoundAccount, ValidAccount
  <2>2. \A o \in account.orders : IsActive(o) => now < o.expires
    BY PlanGuards DEF Submittable
  <2> QED
    BY <2>1, <2>2
<1>6. SoundOrders(account.orders \cup NewOrders(b))
  BY <1>1, <1>2, <1>3, <1>4 DEF SoundOrders
<1> QED
  BY <1>4, <1>5, <1>6

LEMMA NextSound ==
  ASSUME NEW b, NEW plan, Planned(b, plan), NEW lotId \in LotIdChoices,
         NEW a, a = NextAccount(b, plan, lotId)
  PROVE  SoundAccount(a) /\ a # Failed
<1> DEFINE F == FillsOf(plan)
           d == Day(now)
<1>1. /\ a.asOf = now /\ a.cash = account.cash + SumOver(ChangeOf, F)
      /\ a.external = account.external /\ a.lots = LotsDone(account.lots, F, lotId)
      /\ a.orders = account.orders \cup NewOrders(b) /\ a.processed = account.processed \cup {b}
      /\ a = [asOf |-> a.asOf, cash |-> a.cash, external |-> a.external, lots |-> a.lots,
              orders |-> a.orders, processed |-> a.processed]
  BY NextParts
<1>2. /\ now \in Nat /\ d \in Nat /\ b \in BatchRecord /\ SoundAccount(account)
  BY PlanParts
<1>3. /\ account.cash \in Nat /\ account.external \in Nat /\ account.processed \subseteq BatchRecord
  BY <1>2, AccountParts
<1>4. /\ account.cash + SumOver(ChangeOf, F) >= 0 /\ SumOver(ChangeOf, F) \in Int
      /\ account.cash + SumOver(ChangeOf, F) - account.external
           - SumOver(OrderReserve, account.orders \cup NewOrders(b)) >= 0
      /\ SumOver(OrderReserve, account.orders \cup NewOrders(b)) \in Nat
  BY CashFacts
<1>5. /\ SoundOrders(a.orders)
      /\ \A o \in a.orders : o.batch \in a.processed /\ (IsActive(o) => a.asOf < o.expires)
  BY <1>1, NextOrders
<1>6. \A i \in Instruments :
        /\ SoundLots(a.lots[i]) /\ FreeUnits(a.lots[i], d) \in Nat
        /\ \A k \in a.lots[i] : LotIsGood(k, d)
        /\ SumOver(OrderLeft, SellsOf(a.orders, i)) <= FreeUnits(a.lots[i], d)
  <2>1. \A i \in Instruments : LotsFit(b, lotId[i], i, a.lots[i])
    BY <1>1, NextLots
  <2> HIDE DEF F
  <2> QED
    BY <1>1, <2>1 DEF LotsFit
<1>7. LotsAreDistinct(a.lots)
  BY <1>1, NextDistinct
<1>8. a.lots \in LotTable
  <2>1. a.lots = [i \in Instruments |-> a.lots[i]]
    BY <1>1 DEF LotsDone
  <2>2. \A i \in Instruments : a.lots[i] \in SUBSET LotRecord
    BY <1>6 DEF SoundLots
  <2> QED
    BY <2>1, <2>2 DEF LotTable
<1> HIDE DEF F, d
<1>9. a.cash \in Nat /\ a.external \in Nat
  BY <1>1, <1>3, <1>4
<1>10. a \in AccountRecord
  <2>1. /\ a.asOf \in Nat /\ a.orders \subseteq OrderRecord /\ a.processed \subseteq BatchRecord
    BY <1>1, <1>2, <1>3, <1>5 DEF SoundOrders
  <2> QED
    BY <1>1, <1>8, <1>9, <2>1 DEF AccountRecord
<1>11. AvailableCash(a) >= 0
  <2>1. MapThenSumSet(LAMBDA o : o.reserved, {o \in a.orders : IsActive(o)})
          = SumOver(OrderReserve, a.orders)
    BY <1>5, HoldFacts
  <2>2. AvailableCash(a) = a.cash - (a.external + SumOver(OrderReserve, a.orders))
    BY <2>1 DEF AvailableCash, FrozenCash
  <2> QED
    BY <1>1, <1>3, <1>4, <2>2
<1>12. ASSUME NEW i \in Instruments PROVE AvailableUnits(a, i) >= 0
  <2>1. SellHold(a, i) = SumOver(OrderLeft, SellsOf(a.orders, i)) /\ SellHold(a, i) \in Nat
    BY <1>5, HoldFacts
  <2>2. AvailableUnits(a, i) = FreeUnits(a.lots[i], d) - SellHold(a, i)
    BY <1>1, <1>2, <1>6, <2>1, AvailableIs DEF d
  <2> QED
    BY <1>6, <2>1, <2>2
<1>13. ValidAccount(a)
  <2>1. a.cash >= 0
    BY <1>9
  <2>2. \A i \in Instruments : \A l \in a.lots[i] :
          /\ ValidLot(l) /\ l.acquired <= Day(a.asOf)
          /\ l.sellable > Day(a.asOf) => l.frozen = 0
    BY <1>1, <1>6 DEF LotIsGood, d
  <2>3. \A o \in a.orders : ValidOrder(o)
    BY <1>5 DEF SoundOrders
  <2> QED
    BY <1>5, <1>11, <1>12, <2>1, <2>2, <2>3 DEF ValidAccount
<1>14. SoundAccount(a)
  BY <1>5, <1>6, <1>7, <1>10, <1>13 DEF SoundAccount
<1>15. a # Failed
  BY <1>10, PaperLedgerAssumption
<1> QED
  BY <1>14, <1>15

(* A plan's receipt is what its orders, attempts and fills say.            *)
LEMMA ReceiptIsHeld ==
  ASSUME NEW b, NEW plan, Planned(b, plan)
  PROVE  ReceiptHolds(b, plan)
<1>1. ASSUME NEW r \in plan
      PROVE  /\ r.order.batch = b /\ ValidOrder(r.order) /\ ValidAttempt(r.attempt)
             /\ r.attempt.status = r.order.status /\ r.attempt.filled = r.order.filled
             /\ IF r.fill = Absent THEN r.order.filled = 0
                ELSE /\ ValidFill(r.fill) /\ r.fill.quantity = r.order.filled
                     /\ r.fill.instrument = r.order.instrument /\ r.fill.side = r.order.side
  <2>1. PICK l \in b.lines : r = ResultOf(b)[l]
    BY PlanGuards
  <2>2. /\ OrderMatches(b, l, r.order) /\ AttemptMatches(r.order, r.attempt)
        /\ r.fill = Absent => NoFillOf(l, r.order)
        /\ r.fill # Absent => FillMatches(l, r.order, r.fill)
    BY <2>1, ResultFacts
  <2> QED
    BY <2>2 DEF OrderMatches, AttemptMatches, NoFillOf, FillMatches
<1> QED
  BY <1>1 DEF ReceiptHolds

(* Whatever the order of the fills, the replay leads to that account.      *)
LEMMA Replayed ==
  ASSUME NEW b, NEW plan, Planned(b, plan), NEW lotId \in LotIdChoices,
         NEW fills \in SetToSeqs(FillsOf(plan))
  PROVE  ReplayExecution(account, b, plan, fills, lotId, now) = NextAccount(b, plan, lotId)
<1> DEFINE F == FillsOf(plan)
           cash == account.cash + SumOver(ChangeOf, F)
           books == [cash |-> cash, lots |-> LotsDone(account.lots, F, lotId)]
           start == [cash |-> account.cash, lots |-> account.lots]
           a == NextAccount(b, plan, lotId)
<1>1. F \subseteq FillRecord /\ IsFiniteSet(F) /\ OnePerInstrument(F)
  BY FillsFacts
<1>2. account.cash \in Int /\ account.lots \in LotTable
  BY PlanParts, AccountParts
<1>3. \A D \in SUBSET F : account.cash + SumOver(ChangeOf, D) >= 0
  BY CashFacts
<1>4. ASSUME NEW f \in F
      PROVE  /\ f.side = "SELL" =>
                  /\ f.quantity <= FreeUnits(account.lots[f.instrument], f.day)
                  /\ FreeUnits(account.lots[f.instrument], f.day) \in Int
             /\ LotsAfter(account.lots[f.instrument], f, lotId[f.instrument]) \subseteq LotRecord
  <2>1. PICK l \in b.lines :
          f = ResultOf(b)[l].fill /\ f # Absent /\ FillMatches(l, ResultOf(b)[l].order, f)
    BY FillsFacts
  <2>2. f.instrument = l.instrument /\ f.day = Day(now) /\ l.instrument \in Instruments
    BY <2>1, PlanParts DEF FillMatches, LineRecord
  <2> DEFINE after == LotsAfter(account.lots[f.instrument], f, lotId[f.instrument])
  <2>3. /\ SoundLots(after)
        /\ f.side = "SELL" => f.quantity <= FreeUnits(account.lots[f.instrument], Day(now))
    BY <2>1, <2>2, LotsAfterFacts
  <2>4. FreeUnits(account.lots[f.instrument], Day(now)) \in Int
    BY <2>2, SellsFit
  <2> HIDE DEF after
  <2>5. after \subseteq LotRecord
    BY <2>3 DEF SoundLots
  <2> QED
    BY <2>2, <2>3, <2>4, <2>5 DEF after
<1>5. BooksAfter(start, fills, lotId) = books
  <2>1. fills \in SetToSeqs(F)
    OBVIOUS
  <2> HIDE DEF F
  <2>2. BooksAfter([cash |-> account.cash, lots |-> account.lots], fills, lotId)
          = [cash |-> account.cash + SumOver(ChangeOf, F), lots |-> LotsDone(account.lots, F, lotId)]
    BY <1>1, <1>2, <1>3, <1>4, <2>1, BooksAre
  <2> QED
    BY <2>2
<1>6. books # Failed
  <2>1. SumOver(ChangeOf, F) \in Int
    BY CashFacts
  <2>2. LotsDone(account.lots, F, lotId) \in LotTable
    <3>1. a.lots = LotsDone(account.lots, F, lotId) /\ SoundAccount(a)
      BY NextParts, NextSound
    <3> QED
      BY <3>1 DEF SoundAccount, AccountRecord
  <2> HIDE DEF F
  <2>3. books \in [cash : Int, lots : LotTable]
    BY <1>2, <2>1, <2>2
  <2> QED
    BY <2>3, PaperLedgerAssumption
<1>7. a = Advanced(account, b, plan, books, now)
  BY DEF NextAccount
<1>8. ValidAccount(a)
  BY NextSound DEF SoundAccount
<1>9. ReceiptHolds(b, plan)
  BY ReceiptIsHeld
<1>10. ReplayExecution(account, b, plan, fills, lotId, now)
         = IfBooked(account, b, plan, BooksAfter(start, fills, lotId), now)
  BY <1>9 DEF ReplayExecution
<1> HIDE DEF a, books, start
<1>11. IfBooked(account, b, plan, books, now) = a
  BY <1>6, <1>7, <1>8 DEF IfBooked, IfValid
<1> QED
  BY <1>5, <1>10, <1>11 DEF a

-----------------------------------------------------------------------------
(* Drafting: the snapshot, the weights and the lines made of them.         *)

SourceRecord ==
  [id : Nat, asOf : Nat, cash : Nat, availableCash : Int, quantity : [Instruments -> Nat],
   available : [Instruments -> Int], value : [Instruments -> Nat]]

LEMMA TotalIs == ASSUME NEW f, NEW S PROVE TotalOver(f, S) = SumOver(f, S)
BY DEF TotalOver, SumOver

LEMMA TotalNat ==
  ASSUME NEW f, NEW S, S \subseteq Instruments, \A i \in S : f[i] \in Nat
  PROVE  TotalOver(f, S) \in Nat
<1>1. IsFiniteSet(S)
  BY OrderDraftsAssumption, FS_Subset
<1> QED
  BY <1>1, SumNat, TotalIs

LEMMA BuilderTypes ==
  /\ Builder.etf \in Nat /\ Builder.stock \in Nat /\ Builder.single \in Nat
  /\ Builder.industry \in Nat /\ Builder.industry > 0
  /\ \A i \in Instruments : BudgetFor(i) \in Nat
<1>1. /\ Builder.etf \in 0..Whole /\ Builder.stock \in 0..Whole /\ Builder.single \in 0..Whole
      /\ Builder.industry \in 0..Whole /\ Builder.industry > 0
  BY OrderDraftsAssumption DEF ValidBuilder
<1>2. Whole \in Nat
  BY DEF Whole
<1> QED
  BY <1>1, <1>2 DEF BudgetFor

LEMMA IndustryCappedType ==
  ASSUME NEW w \in [Instruments -> Nat], NEW i \in Instruments
  PROVE  IndustryCapped(w)[i] \in Int
<1> DEFINE M == Members(w, IndustryOf[i])
           before == TotalOver(w, M)
           share == [m \in M |-> (w[m] * Builder.industry) \div before]
           rest == {m \in M : m < i}
           capped == TypeOf[i] = "STOCK" /\ w[i] > 0 /\ before > Builder.industry
<1>1. M \subseteq Instruments /\ before \in Nat
  <2>1. M \subseteq Instruments
    BY DEF Members, OfType
  <2> HIDE DEF M
  <2>2. \A m \in M : w[m] \in Nat
    BY <2>1
  <2> QED
    BY <2>1, <2>2, TotalNat
<1>2. IndustryCapped(w)[i] = IF capped THEN ReducedMember(w, i) ELSE w[i]
  BY DEF IndustryCapped
<1>3. ReducedMember(w, i) = IF \A m \in M : m <= i THEN Builder.industry - TotalOver(share, rest)
                            ELSE share[i]
  BY DEF ReducedMember
<1>4. ASSUME capped PROVE ReducedMember(w, i) \in Int
  <2>1. before \in Nat \ {0}
    BY <1>1, <1>4, BuilderTypes
  <2>2. \A m \in M : share[m] = (w[m] * Builder.industry) \div before
    OBVIOUS
  <2>3. i \in M
    BY <1>4 DEF Members, OfType
  <2> HIDE DEF share, before, M
  <2>4. \A m \in M : share[m] \in Nat
    <3> TAKE m \in M
    <3>1. w[m] * Builder.industry \in Nat
      BY <1>1, BuilderTypes
    <3> QED
      BY <2>1, <2>2, <3>1, DivNat
  <2>5. rest \subseteq M
    OBVIOUS
  <2> HIDE DEF rest
  <2>6. TotalOver(share, rest) \in Nat
    <3>1. rest \subseteq Instruments /\ \A m \in rest : share[m] \in Nat
      BY <1>1, <2>4, <2>5
    <3> QED
      BY <3>1, TotalNat
  <2> QED
    BY <1>3, <2>3, <2>4, <2>6, BuilderTypes
<1> HIDE DEF capped
<1> QED
  BY <1>2, <1>4

LEMMA TargetsType ==
  ASSUME NEW local \in [Instruments -> Nat]
  PROVE  \A i \in Instruments : Targets(local)[i] \in Int
<1> DEFINE p == Proposed(local)
           w == InstrumentCapped(p)
<1>1. \A i \in Instruments : p[i] \in Nat
  <2> TAKE i \in Instruments
  <2>1. local[i] * BudgetFor(i) \in Nat
    BY BuilderTypes
  <2>2. PerCent \in Nat \ {0}
    BY DEF PerCent
  <2>3. (local[i] * BudgetFor(i)) \div PerCent \in Nat
    BY <2>1, <2>2, DivNat
  <2> QED
    BY <2>3 DEF Proposed
<1>2. w = [i \in Instruments |-> Least(p[i], Builder.single)]
  BY DEF InstrumentCapped
<1> HIDE DEF p, w
<1>3. w \in [Instruments -> Nat]
  BY <1>1, <1>2, BuilderTypes DEF Least
<1> QED
  BY <1>3, IndustryCappedType DEF Targets, p, w

LEMMA EquityFacts ==
  ASSUME NEW a \in SourceRecord
  PROVE  /\ Equity(a) \in Nat
         /\ Equity(a) > 0 => \A i \in Instruments : CurrentWeights(a)[i] \in Int
<1> DEFINE total == TotalOver(a.value, Instruments)
           e == Equity(a)
           share == [i \in Instruments |-> (a.value[i] * Whole) \div e]
           held == HeldIn(a)
<1>1. a.cash \in Nat /\ a.value \in [Instruments -> Nat] /\ Whole \in Nat
  BY DEF SourceRecord, Whole
<1>2. total \in Nat
  BY <1>1, TotalNat
<1>3. e \in Nat
  BY <1>1, <1>2 DEF Equity
<1>4. ASSUME e > 0, NEW i \in Instruments PROVE CurrentWeights(a)[i] \in Int
  <2>1. GrossWeight(a) = (total * Whole) \div e
    BY DEF GrossWeight
  <2>2. CurrentWeights(a)[i] = IF i \notin held THEN 0
                               ELSE IF \A j \in held : j <= i
                                    THEN GrossWeight(a) - TotalOver(share, held \ {i})
                               ELSE share[i]
    BY DEF CurrentWeights
  <2>3. \A j \in Instruments : share[j] = (a.value[j] * Whole) \div e
    OBVIOUS
  <2>4. held \subseteq Instruments
    BY DEF HeldIn
  <2> HIDE DEF share, held, total, e
  <2>5. \A j \in Instruments : share[j] \in Nat
    <3> TAKE j \in Instruments
    <3>1. a.value[j] * Whole \in Nat /\ e \in Nat \ {0}
      BY <1>1, <1>3, <1>4
    <3> QED
      BY <2>3, <3>1, DivNat
  <2>6. TotalOver(share, held \ {i}) \in Nat
    <3>1. held \ {i} \subseteq Instruments /\ \A j \in held \ {i} : share[j] \in Nat
      BY <2>4, <2>5
    <3> QED
      BY <3>1, TotalNat
  <2>7. GrossWeight(a) \in Nat
    <3>1. total * Whole \in Nat /\ e \in Nat \ {0}
      BY <1>1, <1>2, <1>3, <1>4
    <3> QED
      BY <2>1, <3>1, DivNat
  <2> QED
    BY <2>2, <2>5, <2>6, <2>7
<1> QED
  BY <1>3, <1>4

(* What a sized line is: with the units already held it costs, at the      *)
(* session's price, no more than the target is worth.                      *)
LEMMA SizedFacts ==
  ASSUME NEW rule \in MarketRuleRecord, NEW price \in Nat \ {0}, NEW current \in Nat,
         NEW worth \in Int, NEW s, s = Sized(rule, price, current, worth)
  PROVE  /\ s.side \in Sides /\ s.quantity \in Int /\ s.full \in BOOLEAN
         /\ s.side = "BUY" => (current + s.quantity) * price * Whole <= worth
<1> DEFINE unit == price * Whole
           short == worth - current * unit
           buy == FloorTo(short \div unit, rule.buyLot)
           sell == FloorTo((current * unit - worth) \div unit, rule.sellLot)
<1>1. unit \in Nat \ {0}
  BY DEF Whole
<1>2. rule.buyLot \in Nat \ {0} /\ rule.sellLot \in Nat \ {0}
  BY DEF MarketRuleRecord
<1>3. s = IF worth = 0 THEN [side |-> "SELL", quantity |-> current, full |-> TRUE]
          ELSE IF worth > current * unit
               THEN [side |-> "BUY", quantity |-> buy, full |-> FALSE]
               ELSE [side |-> "SELL", quantity |-> sell, full |-> FALSE]
  BY DEF Sized
<1>4. current * unit \in Int /\ short \in Int /\ current * unit - worth \in Int
  BY <1>1
<1>5. buy \in Int /\ buy <= short \div unit
  <2> HIDE DEF short, unit
  <2> QED
    BY <1>1, <1>2, <1>4, DivInt, FloorToBelow
<1>6. sell \in Int
  <2> HIDE DEF short, unit
  <2> QED
    BY <1>1, <1>2, <1>4, DivInt, FloorToBelow
<1>7. (short \div unit) * unit <= short /\ short \div unit \in Int
  <2> HIDE DEF short, unit
  <2> QED
    BY <1>1, <1>4, DivInt, DivBelow
<1>8. buy * unit <= (short \div unit) * unit
  <2> HIDE DEF buy, short, unit
  <2>1. PICK q : q = short \div unit
    OBVIOUS
  <2>2. q \in Int /\ buy <= q /\ buy \in Int
    BY <1>5, <1>7, <2>1
  <2>3. \A x, y \in Int : x <= y => x * unit <= y * unit
    BY <1>1
  <2> QED
    BY <2>1, <2>2, <2>3
<1>9. (current + buy) * price * Whole <= worth
  <2>1. buy * unit \in Int /\ (short \div unit) * unit \in Int
    <3> HIDE DEF buy, short, unit
    <3> QED
      BY <1>1, <1>5, <1>7
  <2>2. current * unit + buy * unit <= worth
    <3>1. short = worth - current * unit
      OBVIOUS
    <3> HIDE DEF buy, short, unit
    <3> QED
      BY <1>4, <1>7, <1>8, <2>1, <3>1
  <2>3. (current + buy) * price * Whole = current * unit + buy * unit
    <3> HIDE DEF buy
    <3> QED
      BY <1>5 DEF Whole
  <2> QED
    BY <2>2, <2>3
<1> HIDE DEF unit, buy, sell, short
<1> QED
  BY <1>3, <1>5, <1>6, <1>9 DEF Sides

(* A BUY drafted under a daily limit reserved what it costs at that limit. *)
Covered(l, day) ==
  l.side = "BUY" /\ l.limited =>
    \E t \in market : /\ t.instrument = l.instrument /\ t.day = day /\ t.upper # Absent
                      /\ l.reserved >= Cost(l, l.quantity, t.upper)

(* The parts a drafted line is made of.                                    *)
DraftedFrom(l, proposal, i, s, z, rule, model, fee, slipped) ==
  /\ rule \in MarketRuleRecord /\ model \in SlippageRecord /\ fee \in FeeRuleRecord
  /\ s \in market /\ s.instrument = i /\ s.day = Day(now)
  /\ z = Sized(rule, s.price, source.quantity[i], proposal.equity * proposal.target[i])
  /\ z.quantity # 0 /\ Draftable(source, i, z, rule, s)
  /\ slipped = SlippedPrice(model, z.side, s.price, z.quantity, s.quantity, rule.tick)
  /\ slipped # Failed
  /\ l = DraftLine(source, i, s, z, InLimits(s, slipped),
                   ReservationPrice(s, z.side, InLimits(s, slipped)), rule, model, fee)

LEMMA DraftedParts ==
  ASSUME MarketIsSound, now \in Nat, source \in SourceRecord, NEW proposal,
         proposal.equity \in Nat, NEW i \in Instruments, proposal.target[i] \in Int,
         NEW l, l = Drafted(source, proposal, i, market, now), l # Failed, l # Absent
  PROVE  \E s, z, rule, model, fee, slipped :
           DraftedFrom(l, proposal, i, s, z, rule, model, fee, slipped)
<1> DEFINE day == Day(now)
           rule == RuleFor(i, day)
           st == IF rule = Failed THEN Failed ELSE StateFor(market, rule, i, day, now)
           model == Latest(Slippage, day)
           z == Sized(rule, st.price, source.quantity[i], proposal.equity * proposal.target[i])
           fee == FeeFor(i, z.side, day)
           slipped == SlippedPrice(model, z.side, st.price, z.quantity, st.quantity, rule.tick)
<1>1. /\ st # Failed /\ model # Failed /\ l = Sizable(source, i, st, z, rule, day)
  BY DEF Drafted
<1>2. rule # Failed /\ st = StateFor(market, rule, i, day, now)
  BY <1>1
<1>3. rule \in MarketRuleRecord /\ model \in SlippageRecord
  <2> HIDE DEF day
  <2>1. "BUY" \in Sides
    BY DEF Sides
  <2> QED
    BY <1>1, <1>2, <2>1, RulesAreRecords
<1>4. st \in market /\ st.instrument = i /\ st.day = day
  <2> HIDE DEF day, rule
  <2> QED
    BY <1>1, <1>2, StateForFacts
<1>5. st \in SessionRecord /\ ValidSession(st)
  BY <1>4 DEF MarketIsSound
<1>6. st.price \in Nat \ {0}
  BY <1>5 DEF SessionRecord, ValidSession
<1>7. z.side \in Sides
  <2>1. source.quantity[i] \in Nat /\ proposal.equity * proposal.target[i] \in Int
    BY DEF SourceRecord
  <2> HIDE DEF rule, st
  <2> QED
    BY <1>3, <1>6, <2>1, SizedFacts
<1> HIDE DEF z, rule, st, model
<1>8. z.quantity # 0 /\ l = Ordered(source, i, st, z, rule, model, fee)
  BY <1>1 DEF Sizable, model
<1>9. /\ fee # Failed /\ Draftable(source, i, z, rule, st)
      /\ l = Priced(source, i, st, z, slipped, rule, model, fee)
  BY <1>8 DEF Ordered
<1>10. fee \in FeeRuleRecord
  <2> HIDE DEF day
  <2> QED
    BY <1>7, <1>9, RulesAreRecords
<1> HIDE DEF fee, slipped
<1>11. /\ slipped # Failed
       /\ l = DraftLine(source, i, st, z, InLimits(st, slipped),
                        ReservationPrice(st, z.side, InLimits(st, slipped)), rule, model, fee)
  BY <1>9 DEF Priced
<1>12. DraftedFrom(l, proposal, i, st, z, rule, model, fee, slipped)
  BY <1>3, <1>4, <1>8, <1>9, <1>10, <1>11 DEF DraftedFrom, z, slipped
<1> QED
  BY <1>12

LEMMA DraftedFacts ==
  ASSUME MarketIsSound, now \in Nat, source \in SourceRecord, NEW proposal,
         proposal.equity \in Nat, NEW i \in Instruments, proposal.target[i] \in Int,
         NEW l, l = Drafted(source, proposal, i, market, now), l # Failed, l # Absent
  PROVE  /\ l \in LineRecord /\ l.instrument = i /\ l.current = source.quantity[i]
         /\ l.side = "BUY" =>
              (l.current + l.quantity) * l.price * Whole <= proposal.equity * proposal.target[i]
         /\ Covered(l, Day(now))
<1>1. PICK s, z, rule, model, fee, slipped :
        DraftedFrom(l, proposal, i, s, z, rule, model, fee, slipped)
  BY DraftedParts
<1> DEFINE estimate == InLimits(s, slipped)
           at == ReservationPrice(s, z.side, estimate)
           reserved == ReservedCash(fee, z.side, z.quantity, estimate, at)
           worth == proposal.equity * proposal.target[i]
<1>2. /\ rule \in MarketRuleRecord /\ model \in SlippageRecord /\ fee \in FeeRuleRecord
      /\ s \in market /\ s.instrument = i /\ s.day = Day(now)
      /\ z = Sized(rule, s.price, source.quantity[i], worth)
      /\ z.quantity # 0 /\ Draftable(source, i, z, rule, s)
      /\ slipped = SlippedPrice(model, z.side, s.price, z.quantity, s.quantity, rule.tick)
      /\ slipped # Failed
      /\ l = DraftLine(source, i, s, z, estimate, at, rule, model, fee)
  BY <1>1 DEF DraftedFrom
<1>3. s \in SessionRecord /\ ValidSession(s)
  BY <1>2 DEF MarketIsSound
<1>4. s.price \in Nat \ {0} /\ s.quantity \in Nat
  BY <1>3 DEF SessionRecord, ValidSession
<1>5. source.quantity[i] \in Nat /\ worth \in Int
  BY DEF SourceRecord
<1> HIDE DEF worth
<1>6. /\ z.side \in Sides /\ z.quantity \in Int /\ z.full \in BOOLEAN
      /\ z.side = "BUY" => (source.quantity[i] + z.quantity) * s.price * Whole <= worth
  BY <1>2, <1>4, <1>5, SizedFacts
<1>7. z.quantity \in Nat \ {0} /\ s.quantity \in Nat \ {0}
  BY <1>2, <1>4, <1>6 DEF Draftable, ValidQuantity
<1>8. slipped \in Nat \ {0}
  <2>1. rule.tick \in Nat \ {0}
    BY <1>2 DEF MarketRuleRecord
  <2> QED
    BY <1>2, <1>4, <1>7, <2>1, SlippedPriceType
<1>9. /\ estimate \in Nat \ {0}
      /\ s.upper # Absent => estimate <= s.upper /\ s.upper \in Nat \ {0}
  BY <1>3, <1>8, InLimitsFacts
<1> HIDE DEF estimate
<1>10. /\ at \in Nat
       /\ z.side = "BUY" /\ s.upper # Absent => s.upper <= at /\ s.upper \in Nat
  BY <1>9 DEF ReservationPrice, Largest
<1> HIDE DEF at
<1>11. z.quantity * at \in Nat /\ z.quantity * estimate \in Nat
  BY <1>7, <1>9, <1>10, MulNat
<1>12. FeeOf(fee, z.quantity * at) \in Nat /\ FeeOf(fee, z.quantity * estimate) \in Nat
  <2>1. \A n \in Nat : FeeOf(fee, n) \in Nat
    BY <1>2, FeeOfFacts
  <2> QED
    BY <1>11, <2>1
<1>13. reserved \in Nat
  <2>1. CASE z.side = "BUY"
    BY <1>11, <1>12, <2>1 DEF ReservedCash
  <2>2. CASE z.side = "SELL"
    <3>1. CashChange("SELL", z.quantity * estimate, FeeOf(fee, z.quantity * estimate)) \in Int
      BY <1>11, <1>12 DEF CashChange
    <3>2. \A x \in Int : Largest(-x, 0) \in Nat
      BY DEF Largest
    <3>3. reserved = Largest(-CashChange("SELL", z.quantity * estimate,
                                         FeeOf(fee, z.quantity * estimate)), 0)
      BY <2>2 DEF ReservedCash
    <3> QED
      BY <3>1, <3>2, <3>3
  <2> QED
    BY <1>6, <2>1, <2>2 DEF Sides
<1>14. l = [instrument |-> i, side |-> z.side, quantity |-> z.quantity,
            current |-> source.quantity[i], full |-> z.full, price |-> s.price,
            estimate |-> estimate, limited |-> s.upper # Absent, rule |-> rule, model |-> model,
            fee |-> fee, reserved |-> reserved]
  BY <1>2 DEF DraftLine
<1>15. ASSUME z.side = "BUY", s.upper # Absent
       PROVE  reserved >= z.quantity * s.upper + FeeOf(fee, z.quantity * s.upper)
  <2>1. s.upper \in Nat /\ s.upper <= at
    BY <1>10, <1>15
  <2>2. z.quantity * s.upper \in Nat /\ z.quantity * s.upper <= z.quantity * at
    BY <1>7, <1>10, <2>1, MulNat, MulMonotone
  <2>3. /\ FeeOf(fee, z.quantity * s.upper) <= FeeOf(fee, z.quantity * at)
        /\ FeeOf(fee, z.quantity * s.upper) \in Nat
    BY <1>2, <1>11, <2>2, FeeOfFacts
  <2>4. reserved = z.quantity * at + FeeOf(fee, z.quantity * at)
    BY <1>15 DEF ReservedCash
  <2> HIDE DEF reserved
  <2> QED
    BY <1>11, <1>12, <2>2, <2>3, <2>4
<1> HIDE DEF reserved
<1>16. l \in LineRecord
  <2> DEFINE limited == s.upper # Absent
  <2>1. limited \in BOOLEAN
    OBVIOUS
  <2>2. l = [instrument |-> i, side |-> z.side, quantity |-> z.quantity,
             current |-> source.quantity[i], full |-> z.full, price |-> s.price,
             estimate |-> estimate, limited |-> limited, rule |-> rule, model |-> model,
             fee |-> fee, reserved |-> reserved]
    BY <1>14
  <2>3. estimate \in Nat
    BY <1>9
  <2> HIDE DEF limited
  <2> QED
    BY <1>2, <1>4, <1>5, <1>6, <1>7, <1>13, <2>1, <2>2, <2>3 DEF LineRecord
<1>17. /\ l.instrument = i /\ l.current = source.quantity[i] /\ l.side = z.side
       /\ l.quantity = z.quantity /\ l.price = s.price /\ l.fee = fee /\ l.reserved = reserved
  BY <1>14
<1>18. l.limited <=> s.upper # Absent
  <2> DEFINE limited == s.upper # Absent
  <2>1. l.limited = limited
    <3> HIDE DEF limited
    <3> QED
      BY <1>14 DEF limited
  <2> QED
    BY <2>1
<1>19. Covered(l, Day(now))
  BY <1>2, <1>15, <1>17, <1>18 DEF Covered, Cost
<1>20. l.side = "BUY" => (l.current + l.quantity) * l.price * Whole <= worth
  BY <1>6, <1>17
<1> QED
  BY <1>16, <1>17, <1>19, <1>20 DEF worth

(* What a draft may ask for: no target above both the limit of its         *)
(* instrument and what is held already.                                    *)
RiskBound(i) == Largest(SingleLimit(i), CurrentWeights(source)[i])

LEMMA SingleLimitType == \A i \in Instruments : SingleLimit(i) \in Nat
<1>1. {Policy.singleEtf, Policy.singleStock} \subseteq 1..Whole
  BY OrderDraftsAssumption DEF ValidPolicy
<1>2. Policy.singleEtf \in 1..Whole /\ Policy.singleStock \in 1..Whole
  BY <1>1
<1>3. Whole \in Nat
  BY DEF Whole
<1>4. Policy.singleEtf \in Nat /\ Policy.singleStock \in Nat
  BY <1>2, <1>3
<1> QED
  BY <1>4 DEF SingleLimit

LEMMA ProposalFacts ==
  ASSUME source \in SourceRecord, NEW local \in Sleeves, NEW p, p = Proposal(local), p # Failed
  PROVE  /\ p.equity = Equity(source) /\ p.equity \in Nat /\ p.equity > 0
         /\ p.lines \subseteq Instruments /\ p.account = source.id
         /\ p.current = CurrentWeights(source)
         /\ \A i \in Instruments : p.target[i] \in Int /\ p.current[i] \in Int
<1> DEFINE proposed == Proposed(local)
           q == Portfolio(source, proposed, Targets(local), LinesOf(source, proposed))
<1>1. p = q /\ ValidPortfolio(p)
  BY DEF Proposal, Build
<1>2. /\ q.equity = Equity(source) /\ q.lines = LinesOf(source, proposed)
      /\ q.account = source.id /\ q.current = CurrentWeights(source) /\ q.target = Targets(local)
  BY DEF Portfolio
<1>3. LinesOf(source, proposed) \subseteq Instruments
  BY DEF LinesOf, HeldIn
<1>4. local \in [Instruments -> Nat]
  BY TradingDayAssumption
<1> HIDE DEF q, proposed
<1>5. p.equity > 0
  BY <1>1 DEF ValidPortfolio
<1>6. /\ Equity(source) \in Nat
      /\ Equity(source) > 0 => \A i \in Instruments : CurrentWeights(source)[i] \in Int
  BY EquityFacts
<1>7. \A i \in Instruments : Targets(local)[i] \in Int
  BY <1>4, TargetsType
<1> QED
  BY <1>1, <1>2, <1>3, <1>5, <1>6, <1>7

LEMMA TargetIsAllowed ==
  ASSUME source \in SourceRecord, NEW local \in Sleeves, NEW p, p = Proposal(local), p # Failed,
         NEW budget, AllowsExecution(RiskStatus(source, p, budget, Watermark)), NEW i \in p.lines
  PROVE  p.target[i] <= RiskBound(i) /\ RiskBound(i) \in Int
<1>1. /\ p.lines \subseteq Instruments /\ p.current = CurrentWeights(source)
      /\ \A j \in Instruments : p.target[j] \in Int /\ p.current[j] \in Int
  BY ProposalFacts
<1>2. RiskStatus(source, p, budget, Watermark) = StatusOf(Findings(p, budget, Watermark))
  BY DEF AllowsExecution, RiskStatus
<1>3. \A f \in Findings(p, budget, Watermark) : f.severity # "HARD_VIOLATION"
  BY <1>2 DEF AllowsExecution, StatusOf
<1>4. \A f \in InstrumentFindings(p) : f.severity # "HARD_VIOLATION"
  BY <1>3 DEF Findings
<1> DEFINE found == LimitFinding("MAX_SINGLE_WEIGHT", i, p.target[i], p.current[i], SingleLimit(i))
<1>5. found \subseteq InstrumentFindings(p)
  BY DEF InstrumentFindings
<1>6. p.target[i] <= SingleLimit(i) \/ p.target[i] < p.current[i]
  <2> SUFFICES ASSUME ~(p.target[i] <= SingleLimit(i)), ~(p.target[i] < p.current[i]) PROVE FALSE
    OBVIOUS
  <2>1. found = {Finding("MAX_SINGLE_WEIGHT", i, "HARD_VIOLATION")}
    BY DEF LimitFinding
  <2>2. Finding("MAX_SINGLE_WEIGHT", i, "HARD_VIOLATION").severity = "HARD_VIOLATION"
    BY DEF Finding
  <2> QED
    BY <1>4, <1>5, <2>1, <2>2
<1>7. SingleLimit(i) \in Nat
  BY <1>1, SingleLimitType
<1> QED
  BY <1>1, <1>6, <1>7 DEF RiskBound, Largest

(* A line of a batch that the snapshot at hand was drafted from.           *)
Drawn(l, b) ==
  /\ l.current = source.quantity[l.instrument]
  /\ l.side = "BUY" =>
       /\ RiskBound(l.instrument) \in Int
       /\ (l.current + l.quantity) * l.price * Whole <= b.equity * RiskBound(l.instrument)

LEMMA BatchFacts ==
  ASSUME MarketIsSound, now \in Nat, source \in SourceRecord, NEW local \in Sleeves, NEW budget,
         NEW b, b = Batch(Proposal(local), budget), b # Failed
  PROVE  /\ SoundBatch(b) /\ b.account = source.id /\ b.madeAt = now /\ b.day = Day(now)
         /\ \A l \in b.lines : Covered(l, b.day) /\ Drawn(l, b)
<1> DEFINE p == Proposal(local)
           status == RiskStatus(source, p, budget, Watermark)
           drafted == [i \in p.lines |-> Drafted(source, p, i, market, now)]
           chosen == {j \in p.lines : drafted[j] # Absent}
           lines == {drafted[i] : i \in chosen}
<1>1. p # Failed /\ b = Generate(source, p, status, market, now)
  BY DEF Batch
<1>2. AllowsExecution(status) /\ b = Batched(source, p, drafted, now)
  BY <1>1 DEF Generate
<1>3. /\ \A i \in p.lines : drafted[i] # Failed
      /\ b = DraftBatch(source, p, lines, now) /\ ValidBatch(b, source.asOf)
  <2> HIDE DEF p, drafted
  <2> QED
    BY <1>2 DEF Batched
<1>4. /\ b = [account |-> source.id, availableCash |-> source.availableCash, madeAt |-> now,
              expires |-> now + Validity, day |-> Day(now), equity |-> p.equity, lines |-> lines]
  BY <1>3 DEF DraftBatch
<1> HIDE DEF p, status
<1>5. /\ p.equity \in Nat /\ p.equity > 0 /\ p.lines \subseteq Instruments
      /\ \A i \in Instruments : p.target[i] \in Int
  BY <1>1, ProposalFacts DEF p
<1>6. \A i \in p.lines : drafted[i] = Drafted(source, p, i, market, now)
  OBVIOUS
<1> HIDE DEF drafted
<1>7. ASSUME NEW i \in chosen
      PROVE  /\ drafted[i] \in LineRecord /\ drafted[i].instrument = i
             /\ Covered(drafted[i], Day(now)) /\ Drawn(drafted[i], b)
  <2> DEFINE l == drafted[i]
  <2>1. i \in Instruments /\ l # Failed /\ l # Absent /\ l = Drafted(source, p, i, market, now)
        /\ p.target[i] \in Int /\ i \in p.lines
    BY <1>3, <1>5, <1>6
  <2> HIDE DEF l
  <2>2. /\ l \in LineRecord /\ l.instrument = i /\ l.current = source.quantity[i]
        /\ l.side = "BUY" => (l.current + l.quantity) * l.price * Whole <= p.equity * p.target[i]
        /\ Covered(l, Day(now))
    BY <1>5, <2>1, DraftedFacts
  <2>3. p.target[i] <= RiskBound(i) /\ RiskBound(i) \in Int
    BY <1>1, <1>2, <2>1, TargetIsAllowed DEF p, status
  <2>4. p.equity * p.target[i] <= p.equity * RiskBound(i)
    <3>1. \A e \in Nat : \A x, y \in Int : x <= y => e * x <= e * y
      OBVIOUS
    <3> QED
      BY <1>5, <2>1, <2>3, <3>1
  <2>5. b.equity = p.equity
    BY <1>4
  <2>6. l.side = "BUY" => (l.current + l.quantity) * l.price * Whole <= b.equity * RiskBound(i)
    <3> SUFFICES ASSUME l.side = "BUY"
                 PROVE  (l.current + l.quantity) * l.price * Whole <= p.equity * RiskBound(i)
      BY <2>5
    <3>1. (l.current + l.quantity) * l.price * Whole \in Int
      BY <2>2 DEF LineRecord, Whole
    <3>2. p.equity * p.target[i] \in Int /\ p.equity * RiskBound(i) \in Int
      BY <1>5, <2>1, <2>3
    <3> QED
      BY <2>2, <2>4, <3>1, <3>2
  <2> QED
    BY <2>2, <2>3, <2>6 DEF Drawn, l
<1>8. IsFiniteSet(chosen)
  <2>1. chosen \subseteq Instruments
    BY <1>5
  <2> HIDE DEF chosen
  <2> QED
    BY <2>1, OrderDraftsAssumption, FS_Subset
<1> HIDE DEF chosen
<1>9. IsFiniteSet(lines) /\ lines \subseteq LineRecord
  BY <1>7, <1>8, ImageFinite
<1>10. \A k, l \in lines : k.instrument = l.instrument => k = l
  BY <1>7
<1>11. \A l \in lines : Covered(l, Day(now)) /\ Drawn(l, b)
  BY <1>7
<1> HIDE DEF lines
<1>12. b \in BatchRecord
  <2>1. Day(now) \in Nat /\ now + Validity \in Nat
    BY DayMonotone, OrderDraftsAssumption
  <2>2. source.id \in Nat /\ source.availableCash \in Int
    BY DEF SourceRecord
  <2> QED
    BY <1>4, <1>5, <1>9, <2>1, <2>2 DEF BatchRecord
<1>13. \A l \in b.lines : ValidLine(l)
  BY <1>3 DEF ValidBatch
<1>14. b.lines = lines /\ b.account = source.id /\ b.madeAt = now /\ b.day = Day(now)
  BY <1>4
<1> QED
  BY <1>9, <1>10, <1>11, <1>12, <1>13, <1>14 DEF SoundBatch

-----------------------------------------------------------------------------
(* Snapshots and refreshes.                                                *)

LEMMA SnapshotFacts ==
  ASSUME NEW a, SoundAccount(a), NEW price, \A i \in Instruments : price[i] \in Nat,
         NEW id \in Nat, NEW s, s = SnapshotOf(a, id, price)
  PROVE  /\ s \in SourceRecord /\ s.id = id /\ s.asOf = a.asOf
         /\ \A i \in Instruments : s.quantity[i] = Units(a.lots[i])
<1> DEFINE of == [i \in Instruments |-> PositionSnapshot(a, i, price[i])]
           r == [id |-> id, asOf |-> a.asOf, cash |-> a.cash,
                 availableCash |-> AvailableCash(a),
                 quantity |-> [i \in Instruments |-> of[i].quantity],
                 available |-> [i \in Instruments |-> of[i].available],
                 value |-> [i \in Instruments |-> of[i].value]]
<1>1. \A i \in Instruments :
        /\ of[i].quantity = Units(a.lots[i]) /\ of[i].available = AvailableUnits(a, i)
        /\ of[i].frozen = Frozen(a, i) /\ of[i].unsettled = Unsettled(a, i)
        /\ of[i].value = Units(a.lots[i]) * price[i]
  BY DEF PositionSnapshot
<1>2. \A i \in Instruments :
        /\ Units(a.lots[i]) \in Nat /\ AvailableUnits(a, i) \in Nat
        /\ Frozen(a, i) \in Nat /\ Unsettled(a, i) \in Nat
  <2> TAKE i \in Instruments
  <2>1. /\ SoundLots(a.lots[i]) /\ a.asOf \in Nat /\ SellHold(a, i) \in Nat
        /\ AvailableUnits(a, i) >= 0
    BY AccountParts
  <2> QED
    BY <2>1, AvailableIs
<1>3. /\ a.asOf \in Nat /\ a.cash \in Nat /\ AvailableCash(a) \in Int
  <2>1. /\ a.asOf \in Nat /\ a.cash \in Nat /\ a.external \in Nat
        /\ AvailableCash(a) = a.cash - a.external - SumOver(OrderReserve, a.orders)
        /\ SumOver(OrderReserve, a.orders) \in Nat
    BY AccountParts
  <2> QED
    BY <2>1
<1>4. s = IF \E i \in Instruments : ~ValidPosition(of[i]) THEN Failed ELSE r
  BY DEF SnapshotOf
<1> HIDE DEF of
<1>5. \A i \in Instruments : ValidPosition(of[i])
  <2> TAKE i \in Instruments
  <2>1. Units(a.lots[i]) = AvailableUnits(a, i) + Frozen(a, i) + Unsettled(a, i)
    <3>1. AvailableUnits(a, i) = Units(a.lots[i]) - Unsettled(a, i) - Frozen(a, i)
      BY DEF AvailableUnits
    <3> QED
      BY <1>2, <3>1
  <2> QED
    BY <1>1, <1>2, <2>1 DEF ValidPosition
<1>6. s = r
  BY <1>4, <1>5
<1>7. \A i \in Instruments : /\ of[i].quantity \in Nat /\ of[i].available \in Int
                             /\ of[i].value \in Nat
  BY <1>1, <1>2, MulNat
<1>8. r \in SourceRecord
  BY <1>3, <1>7 DEF SourceRecord
<1>9. r.id = id /\ r.asOf = a.asOf /\ \A i \in Instruments : r.quantity[i] = Units(a.lots[i])
  BY <1>1
<1> QED
  BY <1>6, <1>8, <1>9

LEMMA OpeningFacts ==
  /\ SoundAccount(Opening) /\ Opening.asOf = 0 /\ Opening.orders = {} /\ Opening.processed = {}
  /\ \A i \in Instruments : OpeningPrice[i] \in Nat
<1>1. /\ Opening.asOf = 0 /\ Opening.orders = {} /\ Opening.processed = {}
      /\ Opening.lots = OpeningLots
  BY DEF Opening
<1>2. /\ Opening \in AccountRecord /\ ValidAccount(Opening) /\ LotsAreDistinct(Opening.lots)
      /\ \A i \in Instruments : IsFiniteSet(Opening.lots[i]) /\ OpeningPrice[i] \in Nat
  BY <1>1, TradingDayAssumption
<1> HIDE DEF Opening
<1>3. SoundOrders(Opening.orders)
  BY <1>1, FS_EmptySet DEF SoundOrders
<1>4. ASSUME NEW i \in Instruments PROVE SoundLots(Opening.lots[i])
  <2>1. Opening.lots[i] \subseteq LotRecord
    BY <1>2 DEF AccountRecord, LotTable
  <2>2. \A l \in Opening.lots[i] : l.frozen <= l.quantity
    <3> TAKE l \in Opening.lots[i]
    <3>1. ValidLot(l) /\ l.quantity \in Nat
      BY <1>2, <2>1 DEF ValidAccount, LotRecord
    <3> QED
      BY <3>1 DEF ValidLot
  <2>3. \A k, l \in Opening.lots[i] : k.id = l.id => k = l
    BY <1>2 DEF LotsAreDistinct
  <2> QED
    BY <1>2, <2>1, <2>2, <2>3 DEF SoundLots
<1> QED
  BY <1>1, <1>2, <1>3, <1>4 DEF SoundAccount

LEMMA MarketFacts ==
  ASSUME market \in Markets
  PROVE  /\ MarketIsSound /\ IsFiniteSet(market)
         /\ \A i \in Instruments : MarkPrice(i) \in Nat
<1>1. IsFiniteSet(market) /\ \A s \in market : s \in SessionRecord /\ ValidSession(s)
  BY TradingDayAssumption
<1>2. ASSUME NEW i \in Instruments PROVE MarkPrice(i) \in Nat
  <2> DEFINE known == {s \in market : s.instrument = i /\ s.available <= now}
             v == [s \in known |-> s.available]
             last == CHOOSE s \in known : \A o \in known : o.available <= s.available
  <2>1. MarkPrice(i) = IF known = {} THEN OpeningPrice[i] ELSE last.price
    BY DEF MarkPrice
  <2>2. known \subseteq market
    OBVIOUS
  <2>3. \A s \in known : v[s] = s.available
    OBVIOUS
  <2> HIDE DEF known, v
  <2>4. IsFiniteSet(known) /\ \A s \in known : v[s] \in Nat /\ s.price \in Nat
    BY <1>1, <2>2, <2>3, FS_Subset DEF SessionRecord
  <2>5. ASSUME known # {} PROVE last \in known
    <3>1. \E s \in known : \A o \in known : v[o] <= v[s]
      BY <2>4, <2>5, GreatestOf
    <3>2. \E s \in known : \A o \in known : o.available <= s.available
      BY <2>3, <3>1
    <3> QED
      BY <3>2
  <2> HIDE DEF last
  <2> QED
    BY <2>1, <2>4, <2>5, OpeningFacts
<1> QED
  BY <1>1, <1>2 DEF MarketIsSound

LEMMA ExpireFacts ==
  ASSUME NEW o \in OrderRecord, NEW at, NEW e, e = ExpireOrder(o, at)
  PROVE  /\ e \in OrderRecord /\ e.batch = o.batch /\ e.instrument = o.instrument
         /\ e.side = o.side /\ e.quantity = o.quantity /\ e.filled = o.filled
         /\ e.limited = o.limited /\ (e.status = "REJECTED" => o.status = "REJECTED")
<1>1. CASE e = o
  BY <1>1
<1>2. CASE e = [o EXCEPT !.status = "EXPIRED", !.reserved = 0]
  <2> DEFINE f == [o EXCEPT !.status = "EXPIRED"]
  <2>1. "EXPIRED" \in OrderStatuses
    BY DEF OrderStatuses
  <2>2. f \in OrderRecord /\ e = [f EXCEPT !.reserved = 0]
    BY <1>2, <2>1 DEF OrderRecord
  <2>3. /\ f.batch = o.batch /\ f.instrument = o.instrument /\ f.side = o.side
        /\ f.quantity = o.quantity /\ f.filled = o.filled /\ f.limited = o.limited
        /\ f.status = "EXPIRED"
    BY DEF OrderRecord
  <2> HIDE DEF f
  <2> QED
    BY <2>2, <2>3 DEF OrderRecord
<1> QED
  BY <1>1, <1>2 DEF ExpireOrder

LEMMA RefreshFacts ==
  ASSUME SoundAccount(account), now \in Nat, NEW a, a = ReplayRefresh(account, now), a # Failed
  PROVE  /\ SoundAccount(a) /\ a.asOf = now /\ account.asOf <= now /\ a.lots = account.lots
         /\ a.processed = account.processed
         /\ \A e \in a.orders : \E o \in account.orders : e = ExpireOrder(o, now)
<1> DEFINE orders == {ExpireOrder(o, now) : o \in account.orders}
           h == [o \in account.orders |-> ExpireOrder(o, now)]
<1>1. ~(now <= account.asOf)
  BY DEF ReplayRefresh
<1>2. a = [account EXCEPT !.asOf = now, !.orders = orders] /\ ValidAccount(a)
  BY DEF ReplayRefresh, IfValid
<1>3. account \in AccountRecord /\ account.asOf \in Nat
  BY DEF SoundAccount, AccountRecord
<1>4. {h[o] : o \in account.orders} = orders
  OBVIOUS
<1>5. \A o \in orders : \E p \in account.orders : o = ExpireOrder(p, now)
  OBVIOUS
<1> HIDE DEF orders, h
<1>6. IsFiniteSet(orders)
  BY <1>4, ImageFinite DEF SoundAccount, SoundOrders
<1>7. orders \subseteq OrderRecord
  BY <1>3, <1>5, ExpireFacts DEF AccountRecord
<1>8. account = [asOf |-> account.asOf, cash |-> account.cash, external |-> account.external,
                 lots |-> account.lots, orders |-> account.orders, processed |-> account.processed]
  BY <1>3 DEF AccountRecord
<1>9. a = [asOf |-> now, cash |-> account.cash, external |-> account.external,
           lots |-> account.lots, orders |-> orders, processed |-> account.processed]
  BY <1>2, <1>8
<1>10. a \in AccountRecord /\ a.orders = orders /\ a.lots = account.lots
       /\ a.asOf = now /\ a.processed = account.processed
  BY <1>3, <1>7, <1>9 DEF AccountRecord
<1>11. SoundOrders(a.orders)
  BY <1>2, <1>6, <1>7, <1>10 DEF SoundOrders, ValidAccount
<1>12. SoundAccount(a)
  BY <1>2, <1>10, <1>11 DEF SoundAccount
<1> QED
  BY <1>1, <1>3, <1>5, <1>10, <1>12

-----------------------------------------------------------------------------
(* The inductive invariant.                                                *)

(* Besides what the properties say, it has to say that the account and the *)
(* drafted batches are sound, that the lines of the batches reserve and    *)
(* ask for what they may, that every order repeats a line of its batch,    *)
(* and how far the units held have moved from the snapshot: not at all     *)
(* before a draft of it was filled, and by that one fill after.            *)
OrderOfLine(o, l) ==
  o.instrument = l.instrument /\ o.side = l.side /\ o.quantity = l.quantity /\ o.limited = l.limited

FilledHere(o, i) == o.batch.account = source.id /\ o.instrument = i /\ o.filled > 0

Moved(o, quantity) == IF o.side = "BUY" THEN quantity + o.filled ELSE quantity - o.filled

UnitsFollow(a, i) ==
  /\ (\A o \in a.orders : ~FilledHere(o, i)) => Units(a.lots[i]) = source.quantity[i]
  /\ \A o \in a.orders : FilledHere(o, i) => Units(a.lots[i]) = Moved(o, source.quantity[i])

ClocksInv ==
  /\ now \in 0..MaxTime /\ market \in Markets
  /\ account.asOf <= now /\ source.asOf <= account.asOf /\ account.processed \subseteq batches

BatchInv(b) ==
  /\ SoundBatch(b) /\ b.account <= source.id
  /\ \A l \in b.lines : Covered(l, b.day) /\ (b.account = source.id => Drawn(l, b))

OrdersInv(a) == \A o \in a.orders : \E l \in o.batch.lines : OrderOfLine(o, l)

FundedInv(a) ==
  LimitsAreDaily => \A o \in a.orders : o.side = "BUY" /\ o.limited => o.status # "REJECTED"

DayInv ==
  /\ ClocksInv /\ SoundAccount(account) /\ source \in SourceRecord
  /\ \A b \in batches : BatchInv(b)
  /\ OrdersInv(account) /\ FundedInv(account)
  /\ \A i \in Instruments : UnitsFollow(account, i)

(* A batch of a state with the invariant, and a plan of it.                *)
LEMMA PlannedHere ==
  ASSUME DayInv, NEW b \in batches, NEW plan \in PlansOf(b)
  PROVE  /\ Planned(b, plan)
         /\ b.account = source.id /\ \A l \in b.lines : Drawn(l, b) /\ Covered(l, Day(now))
<1>1. now \in Nat
  BY TradingDayAssumption DEF DayInv, ClocksInv
<1>2. BatchInv(b) /\ SoundAccount(account) /\ market \in Markets
  BY DEF DayInv, ClocksInv
<1>3. MarketIsSound
  BY <1>2, MarketFacts
<1>4. Planned(b, plan)
  BY <1>1, <1>2, <1>3 DEF Planned, BatchInv
<1>5. b.account = source.id /\ b.day = Day(now)
  BY <1>4, PlanParts
<1> QED
  BY <1>2, <1>4, <1>5 DEF BatchInv

LEMMA NextOrdersInv ==
  ASSUME NEW b, NEW plan, Planned(b, plan), NEW lotId \in LotIdChoices,
         NEW a, a = NextAccount(b, plan, lotId),
         OrdersInv(account), FundedInv(account),
         \A l \in b.lines : Covered(l, Day(now))
  PROVE  OrdersInv(a) /\ FundedInv(a)
<1>1. a.orders = account.orders \cup NewOrders(b)
  BY NextParts
<1>2. \A o \in NewOrders(b) : \E l \in b.lines : o = ResultOf(b)[l].order /\ OrderMatches(b, l, o)
  BY NewOrdersFacts
<1>3. \A o \in NewOrders(b) : o.batch = b /\ \E l \in b.lines : OrderOfLine(o, l)
  BY <1>2 DEF OrderMatches, OrderOfLine
<1>4. ASSUME LimitsAreDaily, NEW o \in NewOrders(b), o.side = "BUY", o.limited
      PROVE  o.status # "REJECTED"
  <2>1. PICK l \in b.lines : o = ResultOf(b)[l].order /\ OrderMatches(b, l, o)
    BY <1>2
  <2>2. l \in LineRecord /\ l.side = "BUY" /\ l.limited
    BY <1>4, <2>1, PlanParts DEF OrderMatches
  <2>3. PICK t \in market : /\ t.instrument = l.instrument /\ t.day = Day(now)
                            /\ t.upper # Absent /\ l.reserved >= Cost(l, l.quantity, t.upper)
    BY <2>2 DEF Covered
  <2>4. ~IsTurnedDown(b, l, ResultOf(b)[l], now)
    BY <1>4, <2>2, <2>3, FundedIsNotTurnedDown
  <2>5. PICK r : r = ResultOf(b)[l]
    OBVIOUS
  <2> QED
    BY <2>1, <2>4, <2>5, ResultFacts
<1> QED
  BY <1>1, <1>3, <1>4 DEF OrdersInv, FundedInv

(* A line is executed only while the units held are those of its snapshot: *)
(* none of its instrument has been filled since.                           *)
LEMMA NextUnits ==
  ASSUME NEW b, NEW plan, Planned(b, plan), NEW lotId \in LotIdChoices,
         NEW a, a = NextAccount(b, plan, lotId), source \in SourceRecord,
         \A l \in b.lines : Drawn(l, b), NEW i \in Instruments, UnitsFollow(account, i)
  PROVE  UnitsFollow(a, i)
<1> DEFINE Q == source.quantity[i]
<1>1. a.orders = account.orders \cup NewOrders(b)
  BY NextParts
<1>2. \A o \in NewOrders(b) : \E l \in b.lines : o = ResultOf(b)[l].order /\ OrderMatches(b, l, o)
  BY NewOrdersFacts
<1>3. UnitsFit(b, i, a.lots[i])
  BY NextParts, NextLots
<1>4. Q \in Nat
  BY DEF SourceRecord
<1>5. /\ \A k, l \in b.lines : k.instrument = l.instrument => k = l
      /\ b.account = source.id /\ SoundAccount(account)
  BY PlanParts
<1>6. CASE \A l \in b.lines : l.instrument # i
  <2>1. \A o \in NewOrders(b) : ~FilledHere(o, i)
    BY <1>2, <1>6 DEF OrderMatches, FilledHere
  <2>2. a.lots[i] = account.lots[i]
    BY <1>3, <1>6 DEF UnitsFit
  <2> QED
    BY <1>1, <2>1, <2>2 DEF UnitsFollow
<1>7. ASSUME NEW l \in b.lines, l.instrument = i PROVE UnitsFollow(a, i)
  <2> DEFINE p == ResultOf(b)[l].order
  <2>1. OrderMatches(b, l, p) /\ p \in NewOrders(b)
    BY ResultFacts DEF NewOrders
  <2>2. Units(account.lots[i]) = Q
    BY <1>7, PlanGuards DEF LineExecutable, Drawn
  <2>3. \A o \in account.orders : ~FilledHere(o, i)
    <3> SUFFICES ASSUME NEW o \in account.orders, FilledHere(o, i) PROVE FALSE
      OBVIOUS
    <3>1. o.filled \in Nat /\ o.filled > 0
      BY <1>5 DEF FilledHere, SoundAccount, SoundOrders, OrderRecord
    <3>2. Q = Moved(o, Q)
      BY <2>2 DEF UnitsFollow
    <3> QED
      BY <1>4, <3>1, <3>2 DEF Moved
  <2>4. \A o \in NewOrders(b) : o.instrument = i => o = p
    BY <1>2, <1>5, <1>7 DEF OrderMatches
  <2>5. Units(a.lots[i]) = Moved(p, Q) /\ p.filled \in Nat
    <3>1. Units(a.lots[i]) = IF l.side = "BUY" THEN Units(account.lots[i]) + p.filled
                             ELSE Units(account.lots[i]) - p.filled
      BY <1>3, <1>7 DEF UnitsFit
    <3>2. p.side = l.side /\ p.filled \in Nat
      BY <2>1 DEF OrderMatches, OrderRecord
    <3> HIDE DEF p, Q
    <3> QED
      BY <2>2, <3>1, <3>2 DEF Moved
  <2>6. p.batch = b /\ p.instrument = i
    BY <1>7, <2>1 DEF OrderMatches
  <2> HIDE DEF p
  <2>7. \A o \in a.orders : FilledHere(o, i) => o = p
    BY <1>1, <2>3, <2>4 DEF FilledHere
  <2>8. ~FilledHere(p, i) => Units(a.lots[i]) = Q
    BY <1>4, <1>5, <2>5, <2>6 DEF FilledHere, Moved
  <2>9. p \in a.orders
    BY <1>1, <2>1 DEF p
  <2> QED
    BY <2>5, <2>7, <2>8, <2>9 DEF UnitsFollow
<1> QED
  BY <1>6, <1>7

(* Units leave only what is settled and not frozen.                        *)
LEMMA OneOfItsId ==
  ASSUME NEW lots, SoundLots(lots), NEW l \in lots
  PROVE  QuantityOf(lots, l.id) = l.quantity
<1>1. PICK T : T = {k \in lots : k.id = l.id}
  OBVIOUS
<1>2. T = {l} /\ l \in LooseLot
  BY <1>1, LotsAreLoose DEF SoundLots
<1>3. \A k \in LooseLot : T = {k} => QuantityOf(lots, l.id) = k.quantity
  BY <1>1, QuantityOfIs
<1> QED
  BY <1>2, <1>3

LEMMA NextLeaves ==
  ASSUME NEW b, NEW plan, Planned(b, plan), NEW lotId \in LotIdChoices,
         NEW a, a = NextAccount(b, plan, lotId), NEW i \in Instruments,
         NEW l \in account.lots[i], QuantityOf(a.lots[i], l.id) < l.quantity
  PROVE  l.sellable <= Day(now) /\ l.frozen <= QuantityOf(a.lots[i], l.id)
<1> DEFINE L == account.lots[i]
           F == FillsOf(plan)
           d == Day(now)
           left == QuantityOf(a.lots[i], l.id)
<1>1. /\ SoundLots(L) /\ d \in Nat /\ FreeUnits(L, d) \in Nat
  BY PlanParts, AccountParts
<1>2. a.lots = LotsDone(account.lots, F, lotId)
  BY NextParts
<1>3. OnePerInstrument(F) /\ F \subseteq FillRecord
  BY FillsFacts
<1>4. QuantityOf(L, l.id) = l.quantity
  BY <1>1, OneOfItsId
<1>5. l \in LotRecord /\ l.quantity \in Nat /\ l.sellable \in Nat /\ l.frozen \in Nat
      /\ l.frozen <= l.quantity
  BY <1>1 DEF SoundLots, LotRecord
<1>6. CASE \A f \in F : f.instrument # i
  <2>1. a.lots[i] = L
    BY <1>2, <1>3, <1>6, LotsDoneFacts
  <2> QED
    BY <1>4, <1>5, <2>1
<1>7. ASSUME NEW f \in F, f.instrument = i PROVE l.sellable <= d /\ l.frozen <= left
  <2>1. a.lots[i] = LotsAfter(L, f, lotId[i])
    BY <1>2, <1>3, <1>7, LotsDoneFacts
  <2>2. PICK m \in b.lines : f = ResultOf(b)[m].fill /\ f # Absent
                             /\ FillMatches(m, ResultOf(b)[m].order, f)
    BY FillsFacts
  <2>3. f.day = d /\ f.quantity \in Nat /\ f.side \in Sides /\ i = m.instrument
    BY <1>3, <1>7, <2>2 DEF FillMatches, FillRecord
  <2>4. CASE f.side = "BUY"
    <3>1. a.lots[i] = L \cup {LotOf(f, lotId[i])}
      BY <2>1, <2>4 DEF LotsAfter
    <3>2. LotOf(f, lotId[i]).id = lotId[i]
      BY DEF LotOf
    <3>3. \A k \in L : k.id # lotId[i]
      <4>1. lotId[i] \in LotIds \ UsedLotIds
        BY DEF LotIdChoices
      <4> QED
        BY <4>1 DEF UsedLotIds
    <3>4. {k \in a.lots[i] : k.id = l.id} = {k \in L : k.id = l.id}
      BY <3>1, <3>2, <3>3
    <3>5. left = QuantityOf(L, l.id)
      BY <3>4 DEF QuantityOf
    <3> QED
      BY <1>4, <1>5, <3>5
  <2>5. CASE f.side = "SELL"
    <3>1. a.lots[i] = ConsumeSellLots(L, f.quantity, d)
      BY <2>1, <2>3, <2>5 DEF LotsAfter
    <3>2. f.quantity <= FreeUnits(L, d)
      <4>1. PICK after : after = LotsAfter(account.lots[i], f, lotId[i])
        OBVIOUS
      <4> QED
        BY <2>2, <2>3, <2>5, <4>1, LotsAfterFacts
    <3> HIDE DEF L, d
    <3>3. PICK c \in Nat :
            /\ c <= Free(l, d)
            /\ {k \in a.lots[i] : k.id = l.id} =
                 IF l.quantity - c > 0 THEN {[l EXCEPT !.quantity = l.quantity - c]} ELSE {}
      <4>1. l \in L
        BY DEF L
      <4>2. f.quantity \in Nat
        BY <2>3
      <4>3. \A k \in L : \E c \in Nat :
              /\ c <= Free(k, d)
              /\ {m2 \in ConsumeSellLots(L, f.quantity, d) : m2.id = k.id} =
                   IF k.quantity - c > 0 THEN {[k EXCEPT !.quantity = k.quantity - c]} ELSE {}
        BY <1>1, <3>2, <4>2, SaleFacts
      <4> QED
        BY <3>1, <4>1, <4>3
    <3> DEFINE rest == [l EXCEPT !.quantity = l.quantity - c]
    <3>8. PICK T : T = {k \in a.lots[i] : k.id = l.id}
      OBVIOUS
    <3>4. left \in Int /\ (left < l.quantity => c > 0) /\ left >= l.quantity - c
      <4>1. CASE l.quantity - c > 0
        <5>1. T = {rest}
          BY <3>3, <3>8, <4>1
        <5>2. rest \in LooseLot /\ rest.quantity = l.quantity - c
          BY <1>5, <3>3, <4>1 DEF LotRecord, LooseLot
        <5> HIDE DEF rest
        <5>3. \A k \in LooseLot : T = {k} => QuantityOf(a.lots[i], l.id) = k.quantity
          <6>1. PICK lots : lots = a.lots[i]
            OBVIOUS
          <6>2. PICK id : id = l.id
            OBVIOUS
          <6>3. T = {k \in lots : k.id = id}
            BY <3>8, <6>1, <6>2
          <6>4. \A k \in LooseLot : T = {k} => QuantityOf(lots, id) = k.quantity
            BY <6>3, QuantityOfIs
          <6> QED
            BY <6>1, <6>2, <6>4
        <5> QED
          BY <1>5, <3>3, <5>1, <5>2, <5>3
      <4>2. CASE ~(l.quantity - c > 0)
        <5>1. T = {}
          BY <3>3, <3>8, <4>2
        <5>2. left = 0
          BY <3>8, <5>1, QuantityOfIs
        <5>3. l.quantity > 0
          BY <1>5 DEF LotRecord
        <5> QED
          BY <1>5, <3>3, <4>2, <5>2, <5>3
      <4> QED
        BY <4>1, <4>2
    <3>5. c > 0
      BY <3>4
    <3>6. Free(l, d) > 0 /\ Free(l, d) \in Int
      BY <1>1, <1>5, <3>3, <3>5 DEF Free
    <3>7. l.sellable <= d /\ Free(l, d) = l.quantity - l.frozen
      BY <3>6 DEF Free
    <3> QED
      BY <1>5, <3>3, <3>4, <3>7 DEF d
  <2> QED
    BY <2>3, <2>4, <2>5 DEF Sides
<1> QED
  BY <1>6, <1>7

-----------------------------------------------------------------------------
(* Every action keeps the invariant.                                       *)

LEMMA InitInv == Init => DayInv
<1> SUFFICES ASSUME Init PROVE DayInv
  OBVIOUS
<1>1. /\ now = 0 /\ market \in Markets /\ account = Opening
      /\ source = SnapshotOf(Opening, 0, OpeningPrice) /\ batches = {}
  BY DEF Init
<1>2. /\ SoundAccount(account) /\ account.asOf = 0 /\ account.orders = {}
      /\ account.processed = {} /\ \A i \in Instruments : OpeningPrice[i] \in Nat
  BY <1>1, OpeningFacts
<1>3. /\ source \in SourceRecord /\ source.asOf = account.asOf
      /\ \A i \in Instruments : source.quantity[i] = Units(account.lots[i])
  <2>1. source = SnapshotOf(account, 0, OpeningPrice) /\ 0 \in Nat
    BY <1>1
  <2> QED
    BY <1>2, <2>1, SnapshotFacts
<1>4. ClocksInv
  BY <1>1, <1>2, <1>3, TradingDayAssumption DEF ClocksInv
<1>5. OrdersInv(account) /\ FundedInv(account)
  BY <1>2 DEF OrdersInv, FundedInv
<1>6. \A i \in Instruments : UnitsFollow(account, i)
  BY <1>2, <1>3 DEF UnitsFollow
<1> QED
  BY <1>1, <1>2, <1>3, <1>4, <1>5, <1>6 DEF DayInv

LEMMA TickInv == DayInv /\ Tick => DayInv'
<1> SUFFICES ASSUME DayInv, Tick PROVE DayInv'
  OBVIOUS
<1>1. /\ now < MaxTime /\ now' = now + 1 /\ market' = market /\ account' = account
      /\ source' = source /\ batches' = batches
  BY DEF Tick
<1>2. ClocksInv'
  <2>1. /\ now \in 0..MaxTime /\ account.asOf \in Nat /\ account.asOf <= now
    BY DEF DayInv, ClocksInv, SoundAccount, AccountRecord
  <2> QED
    BY <1>1, <2>1, TradingDayAssumption DEF DayInv, ClocksInv
<1>3. /\ SoundAccount(account') /\ source' \in SourceRecord
  BY <1>1 DEF DayInv
<1>4. \A b \in batches' : BatchInv(b)'
  BY <1>1 DEF DayInv, BatchInv, Covered, Drawn, RiskBound, Cost
<1>5. OrdersInv(account)' /\ FundedInv(account)'
  BY <1>1 DEF DayInv, OrdersInv, FundedInv, LimitsAreDaily
<1>6. \A i \in Instruments : UnitsFollow(account, i)'
  BY <1>1 DEF DayInv, UnitsFollow, FilledHere
<1> QED
  BY <1>2, <1>3, <1>4, <1>5, <1>6 DEF DayInv

LEMMA DraftInv ==
  ASSUME DayInv, NEW local \in Sleeves, NEW budget, Draft(local, budget)
  PROVE  DayInv'
<1>1. PICK new \in {Batch(Proposal(local), budget)} \ {Failed} : batches' = batches \cup {new}
  BY DEF Draft
<1>2. now' = now /\ market' = market /\ account' = account /\ source' = source
  BY DEF Draft
<1>3. new = Batch(Proposal(local), budget) /\ new # Failed
  BY <1>1
<1>4. /\ now \in Nat /\ source \in SourceRecord /\ MarketIsSound
  BY TradingDayAssumption, MarketFacts DEF DayInv, ClocksInv
<1>5. /\ SoundBatch(new) /\ new.account = source.id
      /\ \A l \in new.lines : Covered(l, new.day) /\ Drawn(l, new)
  BY <1>3, <1>4, BatchFacts
<1>6. BatchInv(new)
  BY <1>4, <1>5 DEF BatchInv, SourceRecord
<1>7. \A b \in batches' : BatchInv(b)
  BY <1>1, <1>6 DEF DayInv
<1>8. \A b \in batches' : BatchInv(b)'
  BY <1>2, <1>7 DEF BatchInv, Covered, Drawn, RiskBound, Cost
<1>9. ClocksInv'
  BY <1>1, <1>2 DEF DayInv, ClocksInv
<1>10. /\ SoundAccount(account') /\ source' \in SourceRecord
  BY <1>2 DEF DayInv
<1>11. OrdersInv(account)' /\ FundedInv(account)'
  BY <1>2 DEF DayInv, OrdersInv, FundedInv, LimitsAreDaily
<1>12. \A i \in Instruments : UnitsFollow(account, i)'
  BY <1>2 DEF DayInv, UnitsFollow, FilledHere
<1> QED
  BY <1>8, <1>9, <1>10, <1>11, <1>12 DEF DayInv

(* What an execution makes of the account.                                 *)
LEMMA ExecuteParts ==
  ASSUME DayInv, NEW b \in batches, Execute(b)
  PROVE  \E plan \in PlansOf(b), lotId \in LotIdChoices : account' = NextAccount(b, plan, lotId)
<1>1. PICK plan \in PlansOf(b) :
        \E fills \in SetToSeqs(FillsOf(plan)), lotId \in LotIdChoices :
          account' = ReplayExecution(account, b, plan, fills, lotId, now)
  BY DEF Execute
<1>2. PICK fills \in SetToSeqs(FillsOf(plan)), lotId \in LotIdChoices :
        account' = ReplayExecution(account, b, plan, fills, lotId, now)
  BY <1>1
<1>3. Planned(b, plan)
  BY PlannedHere
<1>4. account' = NextAccount(b, plan, lotId)
  BY <1>2, <1>3, Replayed
<1> QED
  BY <1>4

LEMMA ExecuteInv ==
  ASSUME DayInv, NEW b \in batches, Execute(b)
  PROVE  DayInv'
<1>1. now' = now /\ market' = market /\ source' = source /\ batches' = batches
  BY DEF Execute
<1>2. PICK plan \in PlansOf(b), lotId \in LotIdChoices : account' = NextAccount(b, plan, lotId)
  BY ExecuteParts
<1>3. /\ Planned(b, plan)
      /\ b.account = source.id /\ \A l \in b.lines : Drawn(l, b) /\ Covered(l, Day(now))
  BY PlannedHere
<1>4. PICK a : a = NextAccount(b, plan, lotId)
  OBVIOUS
<1>5. a = account'
  BY <1>2, <1>4
<1>6. SoundAccount(a)
  BY <1>3, <1>4, NextSound
<1>7. OrdersInv(a) /\ FundedInv(a)
  BY <1>3, <1>4, NextOrdersInv DEF DayInv
<1>8. \A i \in Instruments : UnitsFollow(a, i)
  BY <1>3, <1>4, NextUnits DEF DayInv
<1>9. a.asOf = now /\ a.processed = account.processed \cup {b}
  BY <1>3, <1>4, NextParts
<1>10. ClocksInv'
  <2>1. account.asOf \in Nat /\ source.asOf \in Nat /\ now \in Nat
    BY TradingDayAssumption DEF DayInv, ClocksInv, SoundAccount, AccountRecord, SourceRecord
  <2> QED
    BY <1>1, <1>5, <1>9, <2>1 DEF DayInv, ClocksInv
<1>11. \A c \in batches' : BatchInv(c)'
  BY <1>1 DEF DayInv, BatchInv, Covered, Drawn, RiskBound, Cost
<1>12. OrdersInv(account)' /\ FundedInv(account)'
  BY <1>1, <1>5, <1>7 DEF OrdersInv, FundedInv, LimitsAreDaily
<1>13. \A i \in Instruments : UnitsFollow(account, i)'
  BY <1>1, <1>5, <1>8 DEF UnitsFollow, FilledHere
<1>14. SoundAccount(account') /\ source' \in SourceRecord
  BY <1>1, <1>5, <1>6 DEF DayInv
<1> QED
  BY <1>10, <1>11, <1>12, <1>13, <1>14 DEF DayInv

(* A refresh makes a new snapshot: no draft made so far is of it.          *)
LEMMA RefreshInv == DayInv /\ Refresh => DayInv'
<1> SUFFICES ASSUME DayInv, Refresh PROVE DayInv'
  OBVIOUS
<1>1. /\ account' = ReplayRefresh(account, now) /\ account' # Failed
      /\ source' = SnapshotOf(account', source.id + 1, [i \in Instruments |-> MarkPrice(i)])
      /\ now' = now /\ market' = market /\ batches' = batches
  BY DEF Refresh
<1>2. /\ now \in Nat /\ SoundAccount(account) /\ market \in Markets /\ source \in SourceRecord
      /\ account.processed \subseteq batches
  BY TradingDayAssumption DEF DayInv, ClocksInv
<1>3. PICK a : a = account'
  OBVIOUS
<1>4. /\ SoundAccount(a) /\ a.asOf = now /\ account.asOf <= now /\ a.lots = account.lots
      /\ a.processed = account.processed
      /\ \A e \in a.orders : \E o \in account.orders : e = ExpireOrder(o, now)
  BY <1>1, <1>2, <1>3, RefreshFacts
<1>5. source.id \in Nat
  BY <1>2 DEF SourceRecord
<1>6. PICK s : s = source'
  OBVIOUS
<1>7. /\ s \in SourceRecord /\ s.id = source.id + 1 /\ s.asOf = a.asOf
      /\ \A i \in Instruments : s.quantity[i] = Units(a.lots[i])
  <2>1. PICK price : price = [i \in Instruments |-> MarkPrice(i)]
    OBVIOUS
  <2>2. \A i \in Instruments : price[i] \in Nat
    BY <1>2, <2>1, MarketFacts
  <2>3. s = SnapshotOf(a, source.id + 1, price) /\ source.id + 1 \in Nat
    BY <1>1, <1>3, <1>5, <1>6, <2>1
  <2> QED
    BY <1>4, <2>2, <2>3, SnapshotFacts
<1>8. ASSUME NEW e \in a.orders
      PROVE  \E o \in account.orders :
               /\ e.batch = o.batch /\ e.instrument = o.instrument /\ e.side = o.side
               /\ e.quantity = o.quantity /\ e.filled = o.filled /\ e.limited = o.limited
               /\ (e.status = "REJECTED" => o.status = "REJECTED")
  <2>1. PICK o \in account.orders : e = ExpireOrder(o, now)
    BY <1>4
  <2>2. o \in OrderRecord
    BY <1>2 DEF SoundAccount, SoundOrders
  <2> QED
    BY <2>1, <2>2, ExpireFacts
<1>9. OrdersInv(a)
  <2> SUFFICES ASSUME NEW e \in a.orders PROVE \E l \in e.batch.lines : OrderOfLine(e, l)
    BY DEF OrdersInv
  <2>1. PICK o \in account.orders :
               /\ e.batch = o.batch /\ e.instrument = o.instrument /\ e.side = o.side
               /\ e.quantity = o.quantity /\ e.filled = o.filled /\ e.limited = o.limited
    BY <1>8
  <2>2. PICK l \in o.batch.lines : OrderOfLine(o, l)
    BY DEF DayInv, OrdersInv
  <2> QED
    BY <2>1, <2>2 DEF OrderOfLine
<1>10. FundedInv(a)
  BY <1>8 DEF DayInv, FundedInv
<1>11. ASSUME NEW b \in batches PROVE b.account \in Nat /\ b.account <= source.id
  BY DEF DayInv, BatchInv, SoundBatch, BatchRecord
<1>12. ASSUME NEW b \in batches PROVE BatchInv(b)'
  <2>1. b.account <= s.id /\ b.account # s.id
    BY <1>5, <1>7, <1>11
  <2>2. SoundBatch(b) /\ \A l \in b.lines : Covered(l, b.day)
    BY DEF DayInv, BatchInv
  <2> QED
    BY <1>1, <1>6, <2>1, <2>2 DEF BatchInv, Covered, Cost
<1>13. ASSUME NEW o \in a.orders PROVE o.batch.account # s.id
  <2>1. o.batch \in a.processed
    BY <1>4 DEF SoundAccount, ValidAccount
  <2>2. o.batch \in batches
    BY <1>2, <1>4, <2>1
  <2> QED
    BY <1>5, <1>7, <1>11, <2>2
<1>14. \A i \in Instruments : UnitsFollow(account, i)'
  BY <1>3, <1>6, <1>7, <1>13 DEF UnitsFollow, FilledHere
<1>15. ClocksInv'
  <2>1. now \in 0..MaxTime
    BY DEF DayInv, ClocksInv
  <2> QED
    BY <1>1, <1>2, <1>3, <1>4, <1>6, <1>7, <2>1 DEF ClocksInv
<1>16. OrdersInv(account)' /\ FundedInv(account)'
  BY <1>1, <1>3, <1>9, <1>10 DEF OrdersInv, FundedInv, LimitsAreDaily
<1>17. SoundAccount(account') /\ source' \in SourceRecord
  BY <1>3, <1>4, <1>6, <1>7
<1> QED
  BY <1>1, <1>12, <1>14, <1>15, <1>16, <1>17 DEF DayInv

LEMMA UnchangedInv == DayInv /\ UNCHANGED vars => DayInv'
<1> SUFFICES ASSUME DayInv, UNCHANGED vars PROVE DayInv'
  OBVIOUS
<1>1. /\ now' = now /\ market' = market /\ account' = account
      /\ source' = source /\ batches' = batches
  BY DEF vars
<1>2. ClocksInv' /\ SoundAccount(account') /\ source' \in SourceRecord
  BY <1>1 DEF DayInv, ClocksInv
<1>3. \A b \in batches' : BatchInv(b)'
  BY <1>1 DEF DayInv, BatchInv, Covered, Drawn, RiskBound, Cost
<1>4. OrdersInv(account)' /\ FundedInv(account)'
  BY <1>1 DEF DayInv, OrdersInv, FundedInv, LimitsAreDaily
<1>5. \A i \in Instruments : UnitsFollow(account, i)'
  BY <1>1 DEF DayInv, UnitsFollow, FilledHere
<1> QED
  BY <1>2, <1>3, <1>4, <1>5 DEF DayInv

LEMMA InvKept == DayInv /\ [Next]_vars => DayInv'
<1> SUFFICES ASSUME DayInv, [Next]_vars PROVE DayInv'
  OBVIOUS
<1>1. CASE Tick
  BY <1>1, TickInv
<1>2. CASE Refresh
  BY <1>2, RefreshInv
<1>3. CASE \E local \in Sleeves, budget \in Budgets : Draft(local, budget)
  BY <1>3, DraftInv
<1>4. CASE \E batch \in batches : Execute(batch)
  BY <1>4, ExecuteInv
<1>5. CASE UNCHANGED vars
  BY <1>5, UnchangedInv
<1> QED
  BY <1>1, <1>2, <1>3, <1>4, <1>5 DEF Next

-----------------------------------------------------------------------------
(* Of every state.                                                         *)

LEMMA InvPlansReplay == DayInv => PlansReplay
<1> SUFFICES ASSUME DayInv, NEW b \in batches, NEW plan \in PlansOf(b),
                    NEW fills \in SetToSeqs(FillsOf(plan)), NEW lotId \in LotIdChoices
             PROVE  ReplayExecution(account, b, plan, fills, lotId, now) # Failed
  BY DEF PlansReplay
<1>1. Planned(b, plan)
  BY PlannedHere
<1>2. PICK a : a = NextAccount(b, plan, lotId)
  OBVIOUS
<1>3. a # Failed
  BY <1>1, <1>2, NextSound
<1>4. ReplayExecution(account, b, plan, fills, lotId, now) = a
  BY <1>1, <1>2, Replayed
<1> QED
  BY <1>3, <1>4

LEMMA InvBuysStayWithinRisk == DayInv => BuysStayWithinRisk
<1> SUFFICES ASSUME DayInv, NEW o \in account.orders, o.batch.account = source.id,
                    o.side = "BUY", o.filled > 0, NEW l \in o.batch.lines,
                    l.instrument = o.instrument
             PROVE  (Units(account.lots[o.instrument]) + StillAsked(o)) * l.price * Whole
                      <= o.batch.equity
                           * Largest(SingleLimit(o.instrument), CurrentWeights(source)[o.instrument])
  BY DEF BuysStayWithinRisk
<1> DEFINE i == o.instrument
           units == Units(account.lots[i])
           bound == o.batch.equity * RiskBound(i)
           asked == StillAsked(o)
<1>1. o \in OrderRecord /\ ValidOrder(o) /\ o.batch \in account.processed
  BY DEF DayInv, SoundAccount, SoundOrders, ValidAccount
<1>2. BatchInv(o.batch) /\ i \in Instruments /\ source \in SourceRecord
  BY <1>1 DEF DayInv, ClocksInv, OrderRecord
<1>3. l \in LineRecord /\ Drawn(l, o.batch)
  BY <1>2 DEF BatchInv, SoundBatch, BatchRecord
<1>4. OrderOfLine(o, l)
  <2>1. PICK k \in o.batch.lines : OrderOfLine(o, k)
    BY DEF DayInv, OrdersInv
  <2>2. k = l
    BY <1>2, <2>1 DEF BatchInv, SoundBatch, OrderOfLine
  <2> QED
    BY <2>1, <2>2
<1>5. units = source.quantity[i] + o.filled
  <2>1. FilledHere(o, i)
    BY DEF FilledHere
  <2> QED
    BY <1>2, <2>1 DEF DayInv, UnitsFollow, Moved
<1>6. /\ o.filled \in Nat /\ o.quantity \in Nat /\ source.quantity[i] \in Nat
      /\ l.price \in Nat \ {0} /\ l.quantity \in Nat /\ l.current \in Nat
  BY <1>1, <1>2, <1>3 DEF OrderRecord, SourceRecord, LineRecord
<1>7. /\ l.current = source.quantity[i] /\ o.quantity = l.quantity
      /\ (l.current + l.quantity) * l.price * Whole <= bound
  BY <1>3, <1>4 DEF Drawn, OrderOfLine
<1>8. asked \in Int /\ o.filled + asked <= o.quantity
  BY <1>1, <1>6, OrderFacts DEF StillAsked, Remaining
<1>9. units + asked <= l.current + l.quantity /\ units + asked \in Int
      /\ l.current + l.quantity \in Int
  <2> HIDE DEF units, asked
  <2> QED
    BY <1>5, <1>6, <1>7, <1>8
<1>10. bound \in Int
  <2>1. o.batch.equity \in Nat
    BY <1>2 DEF BatchInv, SoundBatch, BatchRecord
  <2>2. RiskBound(i) \in Int
    BY <1>3, <1>4 DEF Drawn, OrderOfLine
  <2> QED
    BY <2>1, <2>2
<1> HIDE DEF units, asked, bound
<1>11. (units + asked) * l.price * Whole <= (l.current + l.quantity) * l.price * Whole
  <2>1. l.price * Whole \in Nat
    BY <1>6 DEF Whole
  <2>2. \A x, y \in Int : \A p \in Nat : x <= y => x * p <= y * p
    OBVIOUS
  <2>3. \A x \in Int : x * l.price * Whole = x * (l.price * Whole)
    BY <1>6 DEF Whole
  <2> QED
    BY <1>9, <2>1, <2>2, <2>3
<1>12. (units + asked) * l.price * Whole <= bound
  <2>1. /\ (units + asked) * l.price * Whole \in Int
        /\ (l.current + l.quantity) * l.price * Whole \in Int
    BY <1>6, <1>9 DEF Whole
  <2> QED
    BY <1>7, <1>10, <1>11, <2>1
<1> QED
  BY <1>12 DEF units, asked, bound, RiskBound

LEMMA InvTypes == DayInv => TypeOK
<1> SUFFICES ASSUME DayInv PROVE TypeOK
  OBVIOUS
<1>1. /\ now \in 0..MaxTime /\ market \in Markets
      /\ account.processed \subseteq batches
      /\ source.asOf <= account.asOf /\ account.asOf <= now
  BY DEF DayInv, ClocksInv
<1>2. account \in AccountRecord /\ ValidAccount(account)
  BY DEF DayInv, SoundAccount
<1>3. batches \subseteq BatchRecord
  BY DEF DayInv, BatchInv, SoundBatch
<1>4. source.id \in Nat
  BY DEF DayInv, SourceRecord
<1> QED
  BY <1>1, <1>2, <1>3, <1>4 DEF TypeOK

(* What a step may take out of the lots, as an action.                     *)
SettledLeave ==
  \A i \in Instruments : \A l \in account.lots[i] :
    QuantityOf(account'.lots[i], l.id) < l.quantity =>
      l.sellable <= Day(now) /\ l.frozen <= QuantityOf(account'.lots[i], l.id)

(* No units leave in a step that keeps the lots.                           *)
LEMMA KeptLotsLeave == DayInv /\ account'.lots = account.lots => SettledLeave
<1> SUFFICES ASSUME DayInv, account'.lots = account.lots,
                    NEW i \in Instruments, NEW l \in account.lots[i]
             PROVE  ~(QuantityOf(account'.lots[i], l.id) < l.quantity)
  BY DEF SettledLeave
<1>1. SoundLots(account.lots[i])
  BY DEF DayInv, SoundAccount
<1>2. QuantityOf(account.lots[i], l.id) = l.quantity /\ l.quantity \in Nat
  BY <1>1, OneOfItsId DEF SoundLots, LotRecord
<1> QED
  BY <1>2

LEMMA ExecuteLeaves ==
  ASSUME DayInv, NEW b \in batches, Execute(b)
  PROVE  SettledLeave
<1> SUFFICES ASSUME NEW i \in Instruments, NEW l \in account.lots[i],
                    QuantityOf(account'.lots[i], l.id) < l.quantity
             PROVE  l.sellable <= Day(now) /\ l.frozen <= QuantityOf(account'.lots[i], l.id)
  BY DEF SettledLeave
<1>1. PICK plan \in PlansOf(b), lotId \in LotIdChoices : account' = NextAccount(b, plan, lotId)
  BY ExecuteParts
<1>2. Planned(b, plan)
  BY PlannedHere
<1>3. PICK a : a = NextAccount(b, plan, lotId)
  OBVIOUS
<1>4. a = account'
  BY <1>1, <1>3
<1>5. QuantityOf(a.lots[i], l.id) < l.quantity
  BY <1>4
<1>6. l.sellable <= Day(now) /\ l.frozen <= QuantityOf(a.lots[i], l.id)
  BY <1>2, <1>3, <1>5, NextLeaves
<1> QED
  BY <1>4, <1>6

LEMMA RefreshLeaves == DayInv /\ Refresh => SettledLeave
<1> SUFFICES ASSUME DayInv, Refresh PROVE SettledLeave
  OBVIOUS
<1>1. /\ account' = ReplayRefresh(account, now) /\ account' # Failed
      /\ now \in Nat /\ SoundAccount(account)
  BY TradingDayAssumption DEF Refresh, DayInv, ClocksInv
<1>2. PICK a : a = account'
  OBVIOUS
<1>3. a.lots = account.lots
  BY <1>1, <1>2, RefreshFacts
<1> QED
  BY <1>2, <1>3, KeptLotsLeave

LEMMA StepsLeave == DayInv /\ [Next]_vars => [SettledLeave]_vars
<1> SUFFICES ASSUME DayInv, Next PROVE SettledLeave
  OBVIOUS
<1>1. CASE Tick
  BY <1>1, KeptLotsLeave DEF Tick
<1>2. CASE Refresh
  BY <1>2, RefreshLeaves
<1>3. CASE \E local \in Sleeves, budget \in Budgets : Draft(local, budget)
  BY <1>3, KeptLotsLeave DEF Draft
<1>4. CASE \E batch \in batches : Execute(batch)
  BY <1>4, ExecuteLeaves
<1> QED
  BY <1>1, <1>2, <1>3, <1>4 DEF Next

-----------------------------------------------------------------------------
(* What holds of every behaviour.                                          *)

(* The invariant that carries the rest: the account and the drafted        *)
(* batches are sound, every order repeats a line of its batch, and the     *)
(* units held are those of the snapshot until a draft of it is filled      *)
(* (transition.py, engine.py, orders/drafts.py).                           *)
THEOREM DayStaysSound == Spec => []DayInv
<1>1. Init => DayInv
  BY InitInv
<1>2. DayInv /\ [Next]_vars => DayInv'
  BY InvKept
<1> QED
  BY <1>1, <1>2, PTL DEF Spec

(* The clocks never run back past one another, and the account is always   *)
(* one its own validator accepts: cash, lots and orders in their ranges,   *)
(* the batch of every order processed.                                     *)
THEOREM TypesHold == Spec => []TypeOK
<1>1. Spec => []DayInv
  BY DayStaysSound
<1>2. DayInv => TypeOK
  BY InvTypes
<1> QED
  BY <1>1, <1>2, PTL

(* Whatever order the content hashes put the fills of a plan in, the       *)
(* replay of a plan the engine accepts ends in an account: no fill in      *)
(* between takes the cash below zero or sells units that are not there.    *)
THEOREM PlansAlwaysReplay == Spec => []PlansReplay
<1>1. Spec => []DayInv
  BY DayStaysSound
<1>2. DayInv => PlansReplay
  BY InvPlansReplay
<1> QED
  BY <1>1, <1>2, PTL

(* Where instruments trade within a daily limit, what the draft reserved   *)
(* covers a fill at the upper limit with its fees: no limited buy is ever  *)
(* turned down for its cash.                                               *)
THEOREM LimitedBuysGoThrough == Spec => []LimitedBuysAreFunded
<1>1. Spec => []DayInv
  BY DayStaysSound
<1>2. DayInv => LimitedBuysAreFunded
  BY DEF DayInv, FundedInv, LimitedBuysAreFunded
<1> QED
  BY <1>1, <1>2, PTL

(* A buy drafted from the snapshot at hand, filled and with what it still  *)
(* asks for, stays within the single-name limit or the weight already held *)
(* at the price of its draft, however the fills of its plan were ordered.  *)
THEOREM BuysRespectTheLimit == Spec => []BuysStayWithinRisk
<1>1. Spec => []DayInv
  BY DayStaysSound
<1>2. DayInv => BuysStayWithinRisk
  BY InvBuysStayWithinRisk
<1> QED
  BY <1>1, <1>2, PTL

(* No step takes units out of a lot before the day they settle, nor those  *)
(* frozen outside the ledger.                                              *)
THEOREM OnlySettledSold == Spec => OnlySettledUnitsLeave
<1>1. Spec => []DayInv
  BY DayStaysSound
<1>2. DayInv /\ [Next]_vars => [SettledLeave]_vars
  BY StepsLeave
<1>3. [][SettledLeave]_vars => OnlySettledUnitsLeave
  BY PTL DEF SettledLeave, OnlySettledUnitsLeave
<1> QED
  BY <1>1, <1>2, <1>3, PTL DEF Spec
=============================================================================
