--------------------------- MODULE MCOfflineQueue ---------------------------
(***************************************************************************)
(* Two devices of different users.  One has three plays, more than a batch *)
(* may hold, two of which the server refuses; the other has one play,      *)
(* under an id the first device uses too.                                  *)
(***************************************************************************)
EXTENDS OfflineQueue

CONSTANTS u1, u2, k1, k2, k3, p1, p2, p4

MCLevels == 1..3
MCRequireExp == <<0, 2, 3>>
MCPlays == {p1, p2, p4}
MCGain == [p \in MCPlays |-> IF p = p2 THEN 2 ELSE 1]
MCVerdict == [p \in MCPlays |-> Pass]

MCBacklog ==
  [u \in Users |->
     IF u = u1
     THEN <<[cid |-> k1, play |-> p1], [cid |-> k2, play |-> p4],
            [cid |-> k3, play |-> p4]>>
     ELSE <<[cid |-> k1, play |-> p2]>>]

\* Every batch a device can send.
MCRequests ==
  UNION { UNION { {Batch(u, i, j) : j \in i..Len(MCBacklog[u])} :
                  i \in DOMAIN MCBacklog[u]} : u \in Users }
=============================================================================
