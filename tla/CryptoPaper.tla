------------------------------ MODULE CryptoPaper ------------------------------
(***************************************************************************)
(* The simulated crypto account (agent/tools/crypto-paper.ts): market      *)
(* orders at the quoted price under an idempotence key, the limits of the  *)
(* Agent's own orders, reset to a new generation.                          *)
(*                                                                         *)
(* Money and quantities are whole numbers; rounding to 12 and 18 digits is *)
(* left out.  Ratios are Num in a hundred.                                 *)
(***************************************************************************)
EXTENDS Integers, Sequences, FiniteSets, FiniteSetsExt

CONSTANTS
    Symbols, SelfSymbols,  \* traded pairs, those the Agent may buy on its own
    OrderIds,              \* clientOrderIds
    Prices,                \* prices a quote may show (bid = ask)
    InitialCash, FeePercent,
    SelfOrderPercent, SelfPositionPercent,
    MaxQuantity,           \* bound: quantity of an order
    MaxResets, MaxCalls    \* bounds

(* config/index.ts: the initial cash is positive, the fee a share of the   *)
(* notional, at most all of it.                                            *)
ASSUME PaperAssumption ==
    /\ SelfSymbols \subseteq Symbols /\ Prices \subseteq Nat \ {0}
    /\ InitialCash \in Nat /\ FeePercent \in 0..100
    /\ {MaxQuantity, MaxResets, MaxCalls} \subseteq Nat

VARIABLES
    cash, position, cost, realized, generation,  \* account and positions
    orders,      \* rows of crypto_paper_orders, in id order
    order,       \* the buy or sell in progress
    tradeCalls

paperVars == <<cash, position, cost, realized, generation, orders, order, tradeCalls>>
account == <<cash, position, cost, realized, generation>>

NoOrder == [stage |-> "none"]
PaperInit ==
    /\ cash = InitialCash /\ generation = 1 /\ realized = 0
    /\ position = [s \in Symbols |-> 0]
    /\ cost = [s \in Symbols |-> 0]      \* quantity times average cost
    /\ orders = <<>> /\ order = NoOrder /\ tradeCalls = 0

Fee(notional) == (notional * FeePercent) \div 100
Known(id) == \E i \in 1..Len(orders) : orders[i].id = id

(* The call looks for its order, and gets a quote for a new one.           *)
BeginOrder(side, source, symbol, quantity, id, price) ==
    /\ order = NoOrder /\ tradeCalls < MaxCalls
    /\ tradeCalls' = tradeCalls + 1
    /\ IF Known(id)
       THEN UNCHANGED order
       ELSE order' = [stage |-> "quoted", side |-> side, source |-> source, symbol |-> symbol,
                      quantity |-> quantity, id |-> id, price |-> price, equity |-> 0]
    /\ UNCHANGED <<account, orders>>

(* pricePaperPortfolio: what selling everything would leave.  Other        *)
(* positions are priced by quotes of their own.                            *)
Equity(prices) ==
    cash + FoldSet(LAMBDA s, sum : sum + position[s] * prices[s] - Fee(position[s] * prices[s]), 0, Symbols)

(* Seeded fault: the fee of the order itself is not counted.               *)
CostWithoutFee(notional) == notional
OrderCost(notional) == notional + Fee(notional)

WithinSelfLimits(prices) ==
    \/ order.source # "self"
    \/ order.symbol \in SelfSymbols /\ order.side = "sell"
    \/ /\ order.symbol \in SelfSymbols
       /\ Equity(prices) > 0
       /\ OrderCost(order.quantity * order.price) * 100 <= Equity(prices) * SelfOrderPercent
       /\ (position[order.symbol] + order.quantity) * order.price * 100
             <= Equity(prices) * SelfPositionPercent

CheckLimits(prices) ==
    /\ order.stage = "quoted"
    /\ prices[order.symbol] = order.price
    /\ WithinSelfLimits(prices)
    /\ order' = [order EXCEPT !.stage = "checked", !.equity = Equity(prices)]
    /\ UNCHANGED <<account, orders, tradeCalls>>

(* No quote, a limit exceeded, too little cash or position, or three       *)
(* conflicting transactions: nothing was changed.                          *)
OrderFails ==
    /\ order # NoOrder
    /\ order' = NoOrder
    /\ UNCHANGED <<account, orders, tradeCalls>>

NewOrder(id) == ~Known(id)

Row(side, s, q, price, profit) ==
    [id |-> order.id, generation |-> generation, side |-> side, symbol |-> s, quantity |-> q,
     notional |-> q * price, fee |-> Fee(q * price), realized |-> profit,
     source |-> order.source, equity |-> order.equity]  \* the last two: history

(* executeMarketOrder: account, position and order row in one serializable *)
(* transaction.  When the answer of the commit is lost, the call fails but *)
(* the order is there, and the same id finds it.                           *)
Execute(answered) ==
    /\ order.stage = "checked" /\ NewOrder(order.id)
    /\ LET s == order.symbol
           q == order.quantity
           notional == q * order.price
           paid == notional + Fee(notional)
           sold == notional - Fee(notional)
           share == IF position[s] = 0 THEN 0 ELSE (cost[s] * q) \div position[s]
       IN  \/ /\ order.side = "buy" /\ cash >= paid
              /\ cash' = cash - paid
              /\ position' = [position EXCEPT ![s] = @ + q]
              /\ cost' = [cost EXCEPT ![s] = @ + paid]
              /\ orders' = Append(orders, Row("buy", s, q, order.price, 0))
              /\ UNCHANGED realized
           \/ /\ order.side = "sell" /\ position[s] >= q
              /\ cash' = cash + sold
              /\ position' = [position EXCEPT ![s] = @ - q]
              /\ cost' = [cost EXCEPT ![s] = @ - share]
              /\ realized' = realized + sold - share
              /\ orders' = Append(orders, Row("sell", s, q, order.price, sold - share))
    /\ order' = IF answered THEN NoOrder ELSE [order EXCEPT !.stage = "checked"]
    /\ UNCHANGED <<generation, tradeCalls>>

(* A duplicate found inside the transaction, or by the unique key.         *)
FindDuplicate ==
    /\ order.stage = "checked" /\ Known(order.id)
    /\ order' = NoOrder
    /\ UNCHANGED <<account, orders, tradeCalls>>

(* reset: initial cash, no positions, a new generation; orders are kept.   *)
ResetPaper ==
    /\ order = NoOrder /\ generation <= MaxResets
    /\ cash' = InitialCash /\ realized' = 0 /\ generation' = generation + 1
    /\ position' = [s \in Symbols |-> 0]
    /\ cost' = [s \in Symbols |-> 0]
    /\ UNCHANGED <<orders, order, tradeCalls>>

PaperNext ==
    \/ \E side \in {"buy", "sell"}, source \in {"owner", "self"}, s \in Symbols,
          q \in 1..MaxQuantity, id \in OrderIds, price \in Prices :
          BeginOrder(side, source, s, q, id, price)
    \/ \E prices \in [Symbols -> Prices] : CheckLimits(prices)
    \/ OrderFails
    \/ \E answered \in BOOLEAN : Execute(answered)
    \/ FindDuplicate
    \/ ResetPaper

PaperSpec == PaperInit /\ [][PaperNext]_paperVars

-----------------------------------------------------------------------------
(* Properties.                                                             *)

Total(amounts) ==
    LET sum[k \in 0..Len(amounts)] == IF k = 0 THEN 0 ELSE sum[k - 1] + amounts[k]
    IN  sum[Len(amounts)]

(* What the rows of this generation, of a symbol, moved.                   *)
Flow(o) == IF o.side = "buy" THEN 0 - (o.notional + o.fee) ELSE o.notional - o.fee
Now(o) == o.generation = generation
NowOf(s, o) == Now(o) /\ o.symbol = s
Flows == [i \in 1..Len(orders) |-> IF Now(orders[i]) THEN Flow(orders[i]) ELSE 0]
Profits == [i \in 1..Len(orders) |-> IF Now(orders[i]) THEN orders[i].realized ELSE 0]
Bought(s) ==
    [i \in 1..Len(orders) |->
        IF ~NowOf(s, orders[i]) THEN 0
        ELSE IF orders[i].side = "buy" THEN orders[i].quantity ELSE 0 - orders[i].quantity]
Spent(s) ==
    [i \in 1..Len(orders) |-> IF NowOf(s, orders[i]) THEN orders[i].realized - Flow(orders[i]) ELSE 0]

(* The account is the sum of its generation's orders, whatever answers     *)
(* were lost and calls repeated: cash, positions, profit and the cost of   *)
(* what is held (what was spent on it and not realized) agree with the     *)
(* rows, no id is filled twice, and nothing is bought that the cash did    *)
(* not cover.                                                              *)
AccountIsItsOrders ==
    /\ cash = InitialCash + Total(Flows) /\ cash >= 0
    /\ realized = Total(Profits)
    /\ \A s \in Symbols :
          /\ position[s] = Total(Bought(s)) /\ position[s] >= 0
          /\ cost[s] = Total(Spent(s))
          /\ position[s] = 0 => cost[s] = 0
    /\ \A i, j \in 1..Len(orders) : orders[i].id = orders[j].id => i = j

(* An order of the Agent's own costs at most its share of the equity it    *)
(* was measured by before the transaction, the fee included.               *)
SelfOrdersAreSmall ==
    \A i \in 1..Len(orders) : orders[i].source = "self" /\ orders[i].side = "buy" =>
        /\ orders[i].symbol \in SelfSymbols
        /\ (orders[i].notional + orders[i].fee) * 100 <= orders[i].equity * SelfOrderPercent

PaperAccounted == AccountIsItsOrders /\ SelfOrdersAreSmall
=============================================================================
