---------------------------- MODULE MCPlayAndBan ----------------------------
(***************************************************************************)
(* The two smallest modules, which share nothing: a behaviour is one of    *)
(* PlayRules or one of BanCheck.                                           *)
(*                                                                         *)
(* Plays have up to seven notes of every mix (quotients by 3, 6 and 7 are  *)
(* rarely whole), with play times at, inside and outside both ends of the  *)
(* window of a music of 100 seconds.  The ban check has two users, two     *)
(* requests, entries that live for two ticks and reads that take up to     *)
(* one: a read may be stored after the entry of a later read.              *)
(***************************************************************************)
EXTENDS PlayRules, BanCheck, TLC

CONSTANTS u1, u2, q1, q2

VARIABLE part  \* the module that this behaviour is of

MCDurations == {0, 100}
MCPlayTimes == {0, 49, 50, 110, 111}

BanSymmetry == Permutations({u1, u2}) \cup Permutations({q1, q2})

MCInit ==
  /\ part \in {"play", "ban"}
  /\ PlayInit
  /\ BanInit
  /\ part = "play" => banned = [u \in Users |-> FALSE]

MCNext ==
  /\ \/ part = "play" /\ PlayNext /\ UNCHANGED banVars
     \/ part = "ban" /\ BanNext /\ UNCHANGED playVars
  /\ UNCHANGED part

MCSpec == MCInit /\ [][MCNext]_<<playVars, banVars, part>>
=============================================================================
