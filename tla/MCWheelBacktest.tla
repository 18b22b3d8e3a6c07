-------------------------- MODULE MCWheelBacktest --------------------------
EXTENDS WheelBacktest, TLC
=============================================================================
