---------------------------- MODULE NonceWindow ----------------------------
(***************************************************************************)
(* One signed request against the clock.  verifyRequest accepts a          *)
(* timestamp within a window around the server's time and remembers the    *)
(* nonce for nonceTTL in Redis: once that is over, only the window stands  *)
(* between a late copy of the request and a second verification.  The time *)
(* is read before the call to Redis, of which it is not aware.             *)
(*                                                                         *)
(* Time is counted in ticks, fractions of a second: the timestamps and the *)
(* server's Unix time are whole seconds, the lifetime of a nonce is not    *)
(* rounded.  The clock starts in the second the request first comes in.    *)
(***************************************************************************)
EXTENDS Integers

CONSTANTS
  Copies,    \* the times the request comes in: the first, and the resends
  Second,    \* ticks in a second
  Window,    \* timestampSkewSeconds
  TTL,       \* nonceTTL
  Delay,     \* the longest call to Redis, its retries included
  Ahead,     \* by how much the sender's clock may be ahead of the server's,
  Behind     \* and how old the timestamp may be when the server first sees it

\* What the lifetime of a nonce has to cover.
WindowAssumption ==
  /\ Second \in Nat \ {0}
  /\ Window \in Nat
  /\ TTL \in Nat
  /\ Delay \in Nat
  /\ Ahead \in Nat
  /\ Behind \in Nat
  /\ Ahead + Window + Second + Delay <= TTL

VARIABLES
  now,      \* the server's time
  part,     \* ticks of it since the last full second
  stamp,    \* X-Timestamp
  kept,     \* until when Redis has the nonce
  step,     \* step[c]: how far verification of the copy c is
  age       \* age[c]: ticks since it has read the clock

windowVars == <<now, part, stamp, kept, step, age>>

\* In whole seconds.
Stamps == {s \in -Behind..Ahead : s % Second = 0}

Steps == {"away", "checked", "verified", "refused"}

WindowInit ==
  /\ part \in 0..(Second - 1)
  /\ now = part
  /\ stamp \in Stamps
  /\ kept = 0
  /\ step = [c \in Copies |-> "away"]
  /\ age = [c \in Copies |-> 0]

-----------------------------------------------------------------------------
\* nowFn().Unix()
Unix == now - part

StepsTo(c, s) == step' = [step EXCEPT ![c] = s]

\* A copy comes in and its timestamp is compared with the clock; the window
\* is closed at both ends.
CheckTimestamp(c) ==
  /\ step[c] = "away"
  /\ StepsTo(c, IF Unix - stamp \in -Window..Window THEN "checked" ELSE "refused")
  /\ UNCHANGED <<now, part, stamp, kept, age>>

\* Redis sets the nonce if it does not have it, and verification goes on.  A
\* failed call, with or without effect, ends it, and so does a nonce that is
\* there.
SetNX(c) ==
  /\ step[c] = "checked"
  /\ \/ /\ now >= kept
        /\ kept' = now + TTL
        /\ StepsTo(c, "verified") \/ StepsTo(c, "refused")
     \/ StepsTo(c, "refused") /\ UNCHANGED kept
  /\ UNCHANGED <<now, part, stamp, age>>

\* Time passes; no call to Redis takes longer than Delay.
Tick ==
  /\ \A c \in Copies : step[c] = "checked" => age[c] < Delay
  /\ now' = now + 1
  /\ part' = IF part + 1 = Second THEN 0 ELSE part + 1
  /\ age' = [c \in Copies |-> IF step[c] = "checked" THEN age[c] + 1 ELSE age[c]]
  /\ UNCHANGED <<stamp, kept, step>>

WindowNext ==
  \/ \E c \in Copies : CheckTimestamp(c) \/ SetNX(c)
  \/ Tick

WindowSpec == WindowInit /\ [][WindowNext]_windowVars

-----------------------------------------------------------------------------
\* Every variable has its type, and no call to Redis outlasts its bound.
WindowTypeOK ==
  /\ now \in Nat
  /\ part \in 0..(Second - 1)
  /\ stamp \in Stamps
  /\ kept \in Nat
  /\ step \in [Copies -> Steps]
  /\ age \in [Copies -> 0..Delay]

\* However late the copies of a request come in, and however long each of
\* them waits for Redis, verifyRequest passes one of them at most: Redis
\* forgets a nonce only when no copy can have passed the clock any more.
NonceOutlivesWindow ==
  \A c, d \in Copies : step[c] = "verified" /\ step[d] = "verified" => c = d

\* What verifyRequest passes is not older than the window and the wait for
\* Redis, whose length the clock check did not know.
LateNeverVerified ==
  [][\A c \in Copies :
       step[c] # "verified" /\ step'[c] = "verified"
         => now < stamp + Window + Second + Delay]_windowVars

\* A copy at Redis had a good timestamp when it read the clock.
CheckedInTime ==
  \A c \in Copies : step[c] = "checked" => now - age[c] < stamp + Window + Second

\* The nonce of a verified request is kept for a full lifetime.
KeptOnceVerified == \A c \in Copies : step[c] = "verified" => kept >= TTL

WindowInv ==
  /\ WindowTypeOK
  /\ CheckedInTime
  /\ KeptOnceVerified
  /\ NonceOutlivesWindow
=============================================================================
