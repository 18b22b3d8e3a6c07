SPECIFICATION WheelSpec
CONSTANTS
    Bars = 7
    Closes = {1, 2, 4}
    Strikes = {1, 2, 3}
    Premiums = {0, 1, 5}
    Lot = 2
    Fee = 3
    Dte = 2
INVARIANTS ContractsAreCovered CallsAboveCost  OptionsExpire
CHECK_DEADLOCK FALSE
