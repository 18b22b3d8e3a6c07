------------------------------ MODULE MCDayTrade ------------------------------
EXTENDS DayTrade, TLC

MCAsked == {[confirmed |-> FALSE, aligned |-> FALSE, morning |-> FALSE],
            [confirmed |-> TRUE, aligned |-> FALSE, morning |-> TRUE],
            [confirmed |-> FALSE, aligned |-> TRUE, morning |-> FALSE]}
MCTargets == {[s \in Sides |-> 17], [s \in Sides |-> IF s = "long" THEN NoLevel ELSE 17]}
=============================================================================
