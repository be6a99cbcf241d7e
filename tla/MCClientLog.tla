---------------------------- MODULE MCClientLog ----------------------------
(***************************************************************************)
(* Small instances of ClientLog: batches that overlap in a key, name a key *)
(* twice, or hold an entry that cannot be stored.                          *)
(***************************************************************************)
EXTENDS ClientLog, TLC

CONSTANTS u1, u2, k1, k2, noKey, e1, e2, r1, r2, r3, r4

L(key, entry) == [key |-> key, entry |-> entry]
Req(u, session, items) == [device |-> u, session |-> session, items |-> items]

\* e2 cannot be stored; a batch names a key twice, the second time with an
\* entry that could be stored; two users share a key.
MCRequests ==
  { Req(u1, FALSE, <<L(k1, e1), L(k2, e2)>>),
    Req(u1, TRUE, <<L(k1, e1), L(k1, e1)>>),
    Req(u2, TRUE, <<L(k2, e2), L(k2, e1)>>),
    Req(u2, TRUE, <<L(k1, e1), L(noKey, e1)>>) }

RowSymmetry == Permutations({r1, r2, r3, r4})
=============================================================================
