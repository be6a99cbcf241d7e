---------------------------- MODULE Progression ----------------------------
(***************************************************************************)
(* The level table and the lookup in it.  Nothing here has state: the      *)
(* handlers of RecordIngest read the table, which nobody writes.           *)
(*                                                                         *)
(* The query takes the rows with require_exp <= exp, highest id first; no  *)
(* row is an error, which the caller treats like a failed query.           *)
(***************************************************************************)
EXTENDS Integers

CONSTANTS
  Levels,       \* the ids of the t_level rows
  RequireExp    \* RequireExp[l]: cumulative EXP the row of level l asks for

ASSUME LevelTableAssumption ==
  /\ Levels \subseteq Nat
  /\ RequireExp \in [Levels -> Nat]

\* Mutant: require_exp < exp.
ReachedBeyond(exp) == {l \in Levels : RequireExp[l] < exp}

Reached(exp) == {l \in Levels : RequireExp[l] <= exp}

IsHighestLevelFor(l, exp) ==
  /\ l \in Reached(exp)
  /\ \A k \in Reached(exp) : k <= l

\* What applyExpGain may write as the new level: the looked up one, never
\* below the level it read; the old one when the lookup fails.
LevelAfter(l, from, exp) ==
  \/ /\ IsHighestLevelFor(l, exp)
     /\ from <= l
  \/ /\ l = from
     /\ \E k \in Levels : IsHighestLevelFor(k, exp) /\ k <= from
  \/ /\ l = from
     /\ Reached(exp) = {}
=============================================================================
