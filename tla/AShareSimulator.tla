---------------------------- MODULE AShareSimulator ----------------------------
(***************************************************************************)
(* The research simulator of cash A-shares: backtesting/ashare_simulator,  *)
(* _engine, _rules, _state, _costs and _corporate_actions.  One call of    *)
(* simulate_ashare_orders walks over the trading dates; bars, orders and   *)
(* corporate actions of a date are drawn when it is reached.               *)
(*                                                                         *)
(* Prices are ticks.  Cash is kept in 1/10000 of a tick, so that a fee of  *)
(* a whole number of basis points is a whole number; the code computes     *)
(* with floats.  The impact grows with the participation, linearly here    *)
(* and with its square root in the code.                                   *)
(***************************************************************************)
EXTENDS Integers, SequencesExt

CONSTANTS
    Instrument,
    Star,               \* the instruments of the STAR market
    LastDate,           \* trading dates are 1 .. LastDate
    Bar,                \* market rows
    Multiplier,         \* share multipliers, pairs <<n, m>> for n/m
    Dividend,           \* cash per share, in ticks
    Quantity,           \* quantities of orders
    LimitPrice,         \* limit prices of orders; 0: none
    InitialCash,        \* in ticks
    BuyLot, StarMin, StarIncrement,     \* lot rules
    Participation,      \* pair <<n, m>>: max_participation_rate is n/m
    CommissionBps, MinCommission,       \* of an execution; the minimum in 1/10000 tick
    OtherBps, StampBps, \* transfer, regulatory and handling fees; the tax on sales
    Slippage,           \* half of the spread and the slippage, in ticks
    Impact,             \* impact at full participation, in ticks
    MaxEvents,          \* bound: corporate actions, two at most
    MaxOrders           \* bound: orders of a date

ASSUME SimulatorAssumption ==
    /\ Star \subseteq Instrument /\ LastDate \in Nat
    /\ {BuyLot, StarMin, StarIncrement, Participation[1], Participation[2]} \subseteq Nat \ {0}
    /\ Participation[1] <= Participation[2]
    /\ MaxEvents \in 0 .. 2 /\ MaxOrders \in Nat
    /\ {CommissionBps, MinCommission, OtherBps, StampBps, Slippage, Impact} \subseteq Nat

(* A row of the bars, as normalize_market_data lets it pass.  Nothing ties *)
(* the open price to the limits, which may be inferred from the close of   *)
(* the day before without rounding to a tick.                              *)
ASSUME BarAssumption ==
    \A b \in Bar :
        /\ b.status \in {"tradable", "suspended", "not_listed", "delisted",
                         "limit_up_locked", "limit_down_locked"}
        /\ {b.price, b.close, b.volume, b.up, b.down} \subseteq Nat
        /\ b.close > 0 /\ (b.price > 0 \/ b.status = "suspended")

VARIABLES
    phase,      \* "open": before the date, "trading", "returned" or "raised"
    date,
    row,        \* [Instrument -> the row of the date, or None]
    cash,
    total, available,   \* state.positions
    unlocks,    \* [date -> [Instrument -> shares]]: state.unlocks
    used,       \* [Instrument -> shares]: state.volume_used of the date
    ledger,     \* the rows of state.fills and state.rejections of the date, in order
    events      \* corporate actions so far

positions == <<total, available, unlocks>>
vars == <<phase, date, row, cash, positions, used, ledger, events>>

None == [status |-> "missing_market_data", price |-> 0, close |-> 0, volume |-> 0,
         up |-> 0, down |-> 0]
NoShares == [i \in Instrument |-> 0]

Init ==
    /\ phase = "open" /\ date = 1
    /\ row = [i \in Instrument |-> None]
    /\ cash \in {c * 10000 : c \in InitialCash}
    /\ total = NoShares /\ available = NoShares
    /\ unlocks = [d \in 1 .. LastDate |-> NoShares]
    /\ used = NoShares /\ ledger = <<>> /\ events = 0

--------------------------------------------------------------------------------
(* Rules and costs.                                                        *)

Least(a, b) == IF a < b THEN a ELSE b
Greatest(a, b) == IF a > b THEN a ELSE b

NormalizeBuy(i, q) ==
    IF i \in Star
      THEN IF q < StarMin THEN 0
           ELSE StarMin + ((q - StarMin) \div StarIncrement) * StarIncrement
      ELSE (q \div BuyLot) * BuyLot

NormalizeSell(i, q, settled) ==
    LET raw     == Least(q, settled)
        minimum == IF i \in Star THEN StarMin ELSE BuyLot
    IN  IF settled <= 0 THEN 0
        ELSE IF settled < minimum THEN IF raw >= settled THEN settled ELSE 0
        ELSE IF i \in Star THEN IF raw >= minimum THEN raw ELSE 0
        ELSE (raw \div minimum) * minimum

Fees(side, notional) ==
    Greatest(MinCommission, notional * CommissionBps)
        + notional * (OtherBps + IF side = "SELL" THEN StampBps ELSE 0)

(* Mutant: slippage moves the price of a sale in its favour.               *)
FillPriceUpwards(bar, side, q) ==
    Greatest(Least(bar.price + Slippage + (Impact * q) \div bar.volume, bar.up), bar.down)

FillPrice(bar, side, q) ==
    LET slip == Slippage + (Impact * q) \div bar.volume
        raw  == IF side = "BUY" THEN bar.price + slip ELSE bar.price - slip
    IN  Greatest(Least(raw, bar.up), bar.down)

Marketable(order, price) ==
    \/ order.limit = 0
    \/ order.side = "BUY" /\ price <= order.limit
    \/ order.side = "SELL" /\ price >= order.limit

Cost(q, price) == q * price * 10000 + Fees("BUY", q * price)
Proceeds(q, price) == q * price * 10000 - Fees("SELL", q * price)

(* Mutant: the bisection stops when its bounds meet.                       *)
FitBuyToCashEarly(i, q, price) ==
    LET upper == NormalizeBuy(i, q)
        search[low \in 1 .. upper + 1, high \in 0 .. upper, best \in 0 .. upper] ==
            LET mid       == (low + high) \div 2
                candidate == NormalizeBuy(i, mid)
            IN  IF low >= high THEN best
                ELSE IF candidate <= 0 THEN search[mid + 1, high, best]
                ELSE IF Cost(candidate, price) <= cash
                  THEN search[mid + 1, high, Greatest(best, candidate)]
                ELSE search[low, mid - 1, best]
    IN  IF upper <= 0 THEN 0 ELSE search[1, upper, 0]

(* The largest legal quantity that the cash pays for, by bisection over    *)
(* proposed quantities, each of which is rounded before it is priced.      *)
FitBuyToCash(i, q, price) ==
    LET upper == NormalizeBuy(i, q)
        search[low \in 1 .. upper + 1, high \in 0 .. upper, best \in 0 .. upper] ==
            LET mid       == (low + high) \div 2
                candidate == NormalizeBuy(i, mid)
            IN  IF low > high THEN best
                ELSE IF candidate <= 0 THEN search[mid + 1, high, best]
                ELSE IF Cost(candidate, price) <= cash
                  THEN search[mid + 1, high, Greatest(best, candidate)]
                ELSE search[low, mid - 1, best]
    IN  IF upper <= 0 THEN 0 ELSE search[1, upper, 0]

--------------------------------------------------------------------------------
(* The morning: release_t_plus_one, then apply_corporate_actions.          *)

Event == [instrument : Instrument, type : {"CASH_DIVIDEND"}, amount : Dividend]
         \cup [instrument : Instrument, type : {"SHARE_MULTIPLIER"}, amount : Multiplier]

Released == [available |-> [i \in Instrument |-> available[i] + unlocks[date][i]],
             total |-> total, cash |-> cash, raised |-> FALSE]

Whole(q, ratio) == (q * ratio[1]) % ratio[2] = 0
Scaled(q, ratio) == (q * ratio[1]) \div ratio[2]

(* One corporate action; a fraction of a share ends the simulation.        *)
Apply(books, e) ==
    LET i == e.instrument
    IN  IF books.raised THEN books
        ELSE IF e.type = "CASH_DIVIDEND"
          THEN [books EXCEPT !.cash = @ + books.total[i] * e.amount * 10000]
        ELSE IF Whole(books.total[i], e.amount) /\ Whole(books.available[i], e.amount)
          THEN [books EXCEPT !.total[i] = Scaled(@, e.amount),
                             !.available[i] = Scaled(@, e.amount)]
        ELSE [books EXCEPT !.raised = TRUE]

(* Mutant: the unlocks are released after the corporate actions.           *)
MorningUnlocksLast(actions) ==
    LET books == FoldLeft(Apply, [Released EXCEPT !.available = available], actions)
    IN  [books EXCEPT !.available = [i \in Instrument |-> @[i] + unlocks[date][i]]]

Morning(actions) == FoldLeft(Apply, Released, actions)

BeginDate(actions) ==
    /\ phase = "open" /\ date <= LastDate
    /\ events + Len(actions) <= MaxEvents
    /\ LET books == Morning(actions)
       IN  /\ ~books.raised
           /\ cash' = books.cash
           /\ total' = books.total /\ available' = books.available
    /\ unlocks' = [unlocks EXCEPT ![date] = NoShares]
    /\ row' \in [Instrument -> Bar \cup {None}]
    /\ phase' = "trading"
    /\ events' = events + Len(actions)
    /\ UNCHANGED <<date, used, ledger>>

RaiseOnFraction(actions) ==
    /\ phase = "open" /\ date <= LastDate
    /\ events + Len(actions) <= MaxEvents
    /\ Morning(actions).raised
    /\ phase' = "raised"
    /\ UNCHANGED <<date, row, cash, positions, used, ledger, events>>

--------------------------------------------------------------------------------
(* Orders of the date, in the order of their ids: execute_order.           *)

Order == [instrument : Instrument, side : {"BUY", "SELL"}, quantity : Quantity,
          limit : LimitPrice]

Capacity(bar) == (bar.volume * Participation[1]) \div Participation[2]
Remaining(i) == Greatest(0, Capacity(row[i]) - used[i])

Untradable(order) ==
    LET bar == row[order.instrument]
    IN  \/ bar.status \in {"missing_market_data", "not_listed", "delisted", "suspended"}
        \/ bar.volume = 0
        \/ order.side = "BUY" /\ bar.status = "limit_up_locked"
        \/ order.side = "SELL" /\ bar.status = "limit_down_locked"

Legal(order) ==
    LET i == order.instrument
        q == Least(order.quantity, Remaining(i))
    IN  IF order.side = "BUY" THEN NormalizeBuy(i, q) ELSE NormalizeSell(i, q, available[i])

Price(order) == FillPrice(row[order.instrument], order.side, Legal(order))

Filled(order) ==
    IF order.side = "BUY" THEN FitBuyToCash(order.instrument, Legal(order), Price(order))
    ELSE Legal(order)

(* The reason of a rejection, or "" of a fill.  The reasons that lie in    *)
(* the market row are one here, and so are those that lie in the lots.     *)
Reason(order) ==
    IF Untradable(order) THEN "market"
    ELSE IF Legal(order) <= 0 THEN "quantity"
    ELSE IF ~Marketable(order, Price(order)) THEN "order_limit_not_marketable"
    ELSE IF Filled(order) <= 0 THEN "insufficient_cash"
    ELSE ""

Answer(order, reason, q) ==
    ledger' = Append(ledger, [order |-> order, reason |-> reason, quantity |-> q])

Reject(order) ==
    /\ phase = "trading" /\ Len(ledger) < MaxOrders
    /\ Reason(order) # ""
    /\ Answer(order, Reason(order), 0)
    /\ UNCHANGED <<phase, date, row, cash, positions, used, events>>

Buy(order) ==
    LET i == order.instrument
        q == Filled(order)
    IN  /\ phase = "trading" /\ Len(ledger) < MaxOrders
        /\ order.side = "BUY" /\ Reason(order) = ""
        /\ cash' = cash - Cost(q, Price(order))
        /\ total' = [total EXCEPT ![i] = @ + q]
        /\ unlocks' = IF date = LastDate THEN unlocks
                      ELSE [unlocks EXCEPT ![date + 1][i] = @ + q]
        /\ used' = [used EXCEPT ![i] = @ + q]
        /\ Answer(order, "", q)
        /\ UNCHANGED <<phase, date, row, available, events>>

Sell(order) ==
    LET i == order.instrument
        q == Filled(order)
    IN  /\ phase = "trading" /\ Len(ledger) < MaxOrders
        /\ order.side = "SELL" /\ Reason(order) = ""
        /\ cash' = cash + Proceeds(q, Price(order))
        /\ total' = [total EXCEPT ![i] = @ - q]
        /\ available' = [available EXCEPT ![i] = @ - q]
        /\ used' = [used EXCEPT ![i] = @ + q]
        /\ Answer(order, "", q)
        /\ UNCHANGED <<phase, date, row, unlocks, events>>

--------------------------------------------------------------------------------
(* The evening: _mark_account needs a row of every instrument that is      *)
(* held.  row, used and ledger belong to the date and are dropped with it: *)
(* nothing reads those of an earlier date.                                 *)

Markable == \A i \in Instrument : total[i] > 0 => row[i] # None

MarkAccount ==
    /\ phase = "trading" /\ Markable
    /\ date' = date + 1
    /\ phase' = IF date = LastDate THEN "returned" ELSE "open"
    /\ row' = [i \in Instrument |-> None] /\ used' = NoShares /\ ledger' = <<>>
    /\ UNCHANGED <<cash, positions, events>>

RaiseUnmarked ==
    /\ phase = "trading" /\ ~Markable
    /\ phase' = "raised"
    /\ UNCHANGED <<date, row, cash, positions, used, ledger, events>>

Next ==
    \/ \E actions \in SeqOf(Event, MaxEvents) : BeginDate(actions) \/ RaiseOnFraction(actions)
    \/ \E order \in Order : Reject(order) \/ Buy(order) \/ Sell(order)
    \/ MarkAccount \/ RaiseUnmarked

Spec == Init /\ [][Next]_vars

--------------------------------------------------------------------------------
(* Properties.                                                             *)

(* The simulator settles as a custody account does: nothing bought on a    *)
(* date is sold on it, all of it can be sold from the next date on, and    *)
(* share multipliers apply to total and sellable shares alike, for the     *)
(* unlocks of a date come before its corporate actions.                    *)
Multiples == {<<r[1] * s[1], r[2] * s[2]>> : r, s \in Multiplier \cup {<<1, 1>>}}

Account == INSTANCE Custody WITH
    Ratio   <- Multiples,
    settled <- available,
    bought  <- [i \in Instrument |-> total[i] - available[i]]

ImplementsCustody == Account!Spec

(* What an order should get.  The request, the shares that are settled and *)
(* what the fills of the date leave of the capacity bound it.              *)
FilledToday(i) ==
    FoldLeft(LAMBDA sum, a : sum + (IF a.order.instrument = i THEN a.quantity ELSE 0), 0, ledger)
Left(i) == Capacity(row[i]) - FilledToday(i)
Smallest(i) == IF i \in Star THEN StarMin ELSE BuyLot

(* The largest of the quantities ashare_market_realism.md allows to buy    *)
(* that the cash pays for, at the price of the largest there is without    *)
(* regard to the cash; or none.                                            *)
BestPurchase(order) ==
    LET i     == order.instrument
        lots  == {q \in 1 .. Least(Left(i), order.quantity) :
                     IF i \in Star THEN q >= StarMin /\ (q - StarMin) % StarIncrement = 0
                     ELSE q % BuyLot = 0}
        price == FillPrice(row[i], "BUY", Max(lots))
        paid  == {q \in lots : Cost(q, price) <= cash}
    IN  IF lots = {} \/ ~Marketable(order, price) \/ paid = {} THEN 0 ELSE Max(paid)

(* A sale gets no more than the bounds, and less than the smallest lawful  *)
(* quantity below them; a holding below that quantity is sold in full or   *)
(* not at all, as ashare_market_realism.md says.  How much a sale may be   *)
(* rounded no document says but for that of a whole position, below.       *)
FairSale(order, sold) ==
    LET i    == order.instrument
        most == Least(Least(order.quantity, available[i]), Left(i))
        odd  == available[i] < Smallest(i)
    IN  /\ sold <= most
        /\ odd => sold \in {0, available[i]}
        /\ sold > 0 => Marketable(order, FillPrice(row[i], "SELL", sold))
        /\ Marketable(order, FillPrice(row[i], "SELL", most)) =>
              IF odd THEN most = available[i] => sold = most ELSE most - sold < Smallest(i)

(* Every order of a tradable row gets what it should: execute_order rounds *)
(* to lots, searches by bisection for what the cash pays, and shares the   *)
(* capacity of a date among its orders.                                    *)
AnswersAreBest ==
    [][phase = "trading" /\ Len(ledger') = Len(ledger) + 1 =>
          LET a == Last(ledger')
          IN  \/ a.reason = "market"
              \/ a.order.side = "BUY" /\ a.quantity = BestPurchase(a.order)
              \/ a.order.side = "SELL" /\ FairSale(a.order, a.quantity)]_vars

(* A sale of a whole position is not rounded, as professional_research     *)
(* _p1_p3.md says.  No run checks it: the code rounds it to lots.          *)
FullSalesUnrounded ==
    [][phase = "trading" /\ Len(ledger') = Len(ledger) + 1 =>
          LET a == Last(ledger')
              i == a.order.instrument
          IN  a.order.side = "SELL" /\ a.quantity > 0 /\ available[i] <= Left(i)
                  /\ a.order.quantity >= available[i] => a.quantity = available[i]]_vars

(* Trading costs money: whatever the fees, the slippage and the limits, no *)
(* fill raises what cash and shares are worth at the open prices of the    *)
(* date, each brought within the limits of its row as the fill is; and no  *)
(* purchase is paid with cash that is not there.                           *)
Quoted(bar) == Greatest(Least(bar.price, bar.up), bar.down)
Worth(price(_)) == cash + 10000 * FoldFunction(+, 0, [i \in Instrument |-> total[i] * price(row[i])])

TradingCosts ==
    [][phase = "trading" /\ phase' = "trading" =>
          /\ Worth(Quoted)' <= Worth(Quoted)
          /\ (\E i \in Instrument : total'[i] > total[i]) => cash' >= 0]_vars

(* The same at the open prices themselves.  No run checks it: an open      *)
(* above the upper limit is bought at the limit, below the market.         *)
Market(bar) == bar.price
MarketCosts ==
    [][phase = "trading" /\ phase' = "trading" => Worth(Market)' <= Worth(Market)]_vars
================================================================================
