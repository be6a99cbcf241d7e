------------------------------ MODULE ExpRule ------------------------------
(***************************************************************************)
(* How much EXP a play is worth, and the two spellings of a rank that the  *)
(* rule and the records table need.                                        *)
(***************************************************************************)
EXTENDS Integers

(***************************************************************************)
(* Ranks.  Two maps, written separately in the code, translate the four    *)
(* plus ranks between the spelling of the records enum ("A_P") and that of *)
(* the t_rank key ("A+"); every other string passes unchanged.             *)
(***************************************************************************)
PlusToUnderscore ==
  [r \in {"D+", "C+", "B+", "A+"} |->
     CASE r = "D+" -> "D_P" [] r = "C+" -> "C_P"
       [] r = "B+" -> "B_P" [] r = "A+" -> "A_P"]

\* Mutant: one of the four is forgotten in the second map.
UnderscoreToPlusShort ==
  [r \in {"C_P", "B_P", "A_P"} |->
     CASE r = "C_P" -> "C+" [] r = "B_P" -> "B+" [] r = "A_P" -> "A+"]

UnderscoreToPlus ==
  [r \in {"D_P", "C_P", "B_P", "A_P"} |->
     CASE r = "D_P" -> "D+" [] r = "C_P" -> "C+"
       [] r = "B_P" -> "B+" [] r = "A_P" -> "A+"]

Translated(table, rank) ==
  IF rank \in DOMAIN table THEN table[rank] ELSE rank

NormalizeRankForStorage(rank) == Translated(PlusToUnderscore, rank)
NormalizeRankForCoefficient(rank) == Translated(UnderscoreToPlus, rank)

\* The values of the enum column records.rank.
RecordRanks ==
  {"F", "D", "D_P", "C", "C_P", "B", "B_P", "A", "A_P", "S", "SS", "SSS"}

\* The primary keys of t_rank, a table shared with other services.
TRankKeys ==
  {"F", "D", "D+", "C", "C+", "B", "B+", "A", "A+", "S", "SS", "SSS"}

(***************************************************************************)
(* EXP of one play.  The product of applyExpGain over a common             *)
(* denominator: the judgment multiplier in twentieths (1.1, 1.05, 1), the  *)
(* rank coefficient in tenths, difficulty in hundredths, notes in          *)
(* ten-thousandths, the final factor 100 cancelled.                        *)
(***************************************************************************)
\* Mutant: a miss does not spoil the bonus for perfect judgments.
JudgmentTwentiethsLoose(c) ==
  IF c.good = 0 /\ c.bad = 0 /\ c.perfect > 0 THEN 22
  ELSE IF c.miss = 0 THEN 21 ELSE 20

JudgmentTwentieths(c) ==
  IF c.good = 0 /\ c.bad = 0 /\ c.miss = 0 /\ c.perfect > 0 THEN 22
  ELSE IF c.miss = 0 THEN 21 ELSE 20

Notes(c) == c.perfect + c.good + c.bad + c.miss

ExpNumerator(c, difficulty, coeffTenths) ==
  (10000 + Notes(c)) * (100 + difficulty) * coeffTenths * JudgmentTwentieths(c)

ExpDenominator == 2000000

\* How far the float64 product may be from the exact one, times the common
\* denominator: the coefficient is a float32 widened, at most one part in 2^24
\* off (the constants and the products add a few parts in 2^53), so one part in
\* 2^23, rounded up, is enough.
Inexact(n) == IF n = 0 THEN 0 ELSE (n \div 8388608) + 1

\* The amounts math.Floor may return: the floor of the exact product, or its
\* neighbour when a whole number is within reach of the error.
ExpGainedOutcomes(c, difficulty, coeffTenths) ==
  LET n == ExpNumerator(c, difficulty, coeffTenths)
  IN  ((n - Inexact(n)) \div ExpDenominator)
        .. ((n + Inexact(n)) \div ExpDenominator)
=============================================================================
