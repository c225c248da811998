\* A loan is repaid with profit: does the trade land?
CONSTANTS
    Amounts = {4}
    Yields = {3, 6, 8, 11}
    Premium = 1
    MaxHeld = 12
SPECIFICATION FlashArbSpec
INVARIANT ProfitableArbLands
CHECK_DEADLOCK FALSE
