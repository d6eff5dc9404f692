SPECIFICATION Spec
CONSTANTS
    Instrument = {a, s}
    Star = {s}
    LastDate = 3
    Bar <- Bars
    Multiplier <- Halves
    Dividend = {1}
    Quantity = {4}
    LimitPrice = {0, 20}
    InitialCash = {93}
    BuyLot = 2
    StarMin = 3
    StarIncrement = 1
    Participation <- Half
    CommissionBps = 3
    MinCommission = 50000
    OtherBps = 1
    StampBps = 5
    Slippage = 1
    Impact = 4
    MaxEvents = 2
    MaxOrders = 2
PROPERTIES ImplementsCustody AnswersAreBest TradingCosts
CHECK_DEADLOCK FALSE
