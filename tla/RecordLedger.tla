---------------------------- MODULE RecordLedger ----------------------------
(***************************************************************************)
(* What record ingest promises about one client_record_id, whatever is     *)
(* retried, interleaved, lost or killed: it is stored for one user at most *)
(* once, and from then on its EXP is decided once.  An entry is "absent",  *)
(* then "pending" (stored, EXP undecided), then "credited" or "closed"     *)
(* (no EXP for it, ever).                                                  *)
(***************************************************************************)
CONSTANTS Ids, Users, NoUser

VARIABLES fate, owner

ledgerVars == <<fate, owner>>

Fates == {"absent", "pending", "credited", "closed"}

LedgerInit ==
  /\ fate = [k \in Ids |-> "absent"]
  /\ owner = [k \in Ids |-> NoUser]

\* An id is saved for user u, its EXP still to be decided or not due at all.
Store(k, u, f) ==
  /\ fate[k] = "absent"
  /\ f \in {"pending", "closed"}
  /\ fate' = [fate EXCEPT ![k] = f]
  /\ owner' = [owner EXCEPT ![k] = u]

Credit(k) ==
  /\ fate[k] = "pending"
  /\ fate' = [fate EXCEPT ![k] = "credited"]
  /\ UNCHANGED owner

\* Pending entries lose their EXP: one when its update fails, all that are
\* pending when the process dies.
Close(S) ==
  /\ \A k \in S : fate[k] = "pending"
  /\ fate' = [k \in Ids |-> IF k \in S THEN "closed" ELSE fate[k]]
  /\ UNCHANGED owner

LedgerNext ==
  \/ \E k \in Ids, u \in Users, f \in {"pending", "closed"} : Store(k, u, f)
  \/ \E k \in Ids : Credit(k)
  \/ \E S \in SUBSET Ids : Close(S)

LedgerSpec == LedgerInit /\ [][LedgerNext]_ledgerVars
=============================================================================
