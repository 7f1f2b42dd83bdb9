---------------------------- MODULE MCRiskEngine ----------------------------
(***************************************************************************)
(* A finite instance of RiskEngine: two callers alike, whose orders have a *)
(* limit price, trade one symbol whose size and exposure are limited.      *)
(* The laws of RiskMetrics, PaperLedger, PositionEntity, Values and        *)
(* TradingCommand are assumptions of those modules, which TLC evaluates    *)
(* with it.                                                                *)
(***************************************************************************)
EXTENDS RiskEngine, RiskMetrics, PaperLedger, TradingCommand, TLC

CONSTANTS c1, c2, s1

BothOnS1 == [c \in Checks |-> s1]
OneEach == [c \in Checks |-> 1]
PriceTwo == [s \in Symbols |-> 2]
SizeTwo == s1 :> 2
ExposureSix == s1 :> 6
EightOrTen == {8, 10}
Callers == Permutations(Checks)
UpOrDown == {-1, 0, 1}
=============================================================================
