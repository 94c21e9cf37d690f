---------------------------- MODULE MC_TwoLevels ----------------------------
EXTENDS MC_Network, TwoLevels

\* Bulb 3 goes anywhere, bulb 4, once it is there, below hub 1; hub 1 and bulb 3
\* are switched meanwhile.
TwoLevelMoves == {Link(3, p) : p \in Controls} \cup {Link(4, 1)}
MovesAndSwitches == TwoLevelMoves \cup Each({"power_on"}, {1, 3}) \cup Adds

\* Everything a user who keeps to two levels may ask for.
ASSUME TwoLevelUser

=============================================================================
