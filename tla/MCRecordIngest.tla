--------------------------- MODULE MCRecordIngest ---------------------------
(***************************************************************************)
(* Small instances of RecordIngest.  Levels 1..3 need 0, 2 and 3 EXP; a    *)
(* completed play is worth 1 or 2, so orders of updates give different     *)
(* sums and different levels.                                              *)
(***************************************************************************)
EXTENDS RecordHistory, TLC

CONSTANTS u1, u2, k1, k2, none, p1, p2, p3, p4, r1, r2, r3, r4

MCLevels == 1..3
MCRequireExp == <<0, 2, 3>>

\* p1, p2: completed; p3: completed exhibition play; p4: refused by the
\* validators, and by the sanity rules where they are on.
MCPlays == {p1, p2, p3, p4}
MCGain == [p \in MCPlays |-> CASE p = p1 -> 1 [] p = p2 -> 2 [] OTHER -> 1]
MCCompleted == {p1, p2, p3}
MCExhibition == {p3}
MCStorable == {p1, p2, p3}
MCVerdict == [p \in MCPlays |-> IF p = p4 THEN "payload_inconsistent" ELSE Pass]

I(cid, play) == [cid |-> cid, play |-> play]
Batch(user, items) == [user |-> user, kind |-> "batch", items |-> items]
Single(user, play) ==
  [user |-> user, kind |-> "single", items |-> <<I(NoId, play)>>]

\* Two users; the same id in batches of both, a batch with one id twice, a
\* play that cannot be stored, a play that earns nothing.
MixedRequests ==
  { Batch(u1, <<I(k1, p1), I(k2, p2)>>),
    Batch(u1, <<I(k1, p1), I(k1, p1)>>),
    Batch(u2, <<I(k1, p1), I(k2, p4)>>),
    Single(u1, p3) }

\* One user, completed plays, batches that overlap in part and a single play.
OneUserRequests ==
  { Batch(u1, <<I(k1, p1), I(k2, p2)>>),
    Batch(u1, <<I(k2, p2)>>),
    Single(u1, p1) }

ExhibitionRequests ==
  { Single(u1, p3), Batch(u1, <<I(k1, p3)>>), Single(u1, p1) }

\* New uuids are interchangeable, and so are the goroutines that serve requests.
Interchangeable == Permutations({r1, r2, r3, r4}) \cup Permutations(Handlers)
=============================================================================
