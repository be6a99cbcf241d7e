---------------------------- MODULE SignInProofs ----------------------------
(***************************************************************************)
(* SignInInv is inductive.  What it says of a sign-in depends on the users *)
(* table only by the accounts of its player and by whether one of them is  *)
(* banned, so most steps either move one sign-in on or change the table,   *)
(* and keep the invariant for one of two reasons.                          *)
(***************************************************************************)
EXTENDS SignIn, TLAPS

\* In a table, d's player has the account id, or a banned one.
Has(table, d, id) == \E a \in table : a.player = PlayerOf[d] /\ a.id = id
Bans(table, d) == \E a \in table : a.player = PlayerOf[d] /\ a.banned

\* What the invariant says of d's sign-in f.
Fits(table, d, f) ==
  /\ f.stage # "idle" /\ ~Bans(table, d) => f.clean
  /\ f.stage = "issue" /\ ~f.banned => f.clean
  /\ f.answer = "signed_in" => f.clean
  /\ f.stage \in {"update", "issue"} => Has(table, d, f.user)

Typed ==
  /\ accounts \subseteq Accounts
  /\ session \in [Devices -> UserIds \cup {NoUser}]
  /\ flow \in [Devices -> Flows]
  /\ failed \in 0..MaxFaults

AllFit ==
  \A d \in Devices :
    /\ Fits(accounts, d, flow[d])
    /\ session[d] # NoUser => Has(accounts, d, session[d])

\* The invariant, sign-in by sign-in.
LEMMA InvGivesFit == SignInInv => Typed /\ OneAccountPerPlayer /\ AllFit
<1> SUFFICES ASSUME SignInInv PROVE Typed /\ OneAccountPerPlayer /\ AllFit
  OBVIOUS
<1>1. Typed /\ OneAccountPerPlayer
  BY DEF SignInInv, SignInTypeOK, Typed
<1>2. ASSUME NEW d \in Devices
      PROVE  Fits(accounts, d, flow[d])
  BY DEF SignInInv, SignInTypeOK, CleanWhenFree, IssuesClean, NoSessionUnderBan,
         IsBanned, AccountsOf, Fits, Has, Bans
<1>3. ASSUME NEW d \in Devices, session[d] # NoUser
      PROVE  Has(accounts, d, session[d])
  BY <1>3 DEF SignInInv, SignInTypeOK, AccountsOf, Has
<1> QED BY <1>1, <1>2, <1>3 DEF AllFit

LEMMA FitGivesInv == Typed /\ OneAccountPerPlayer /\ AllFit => SignInInv
<1> SUFFICES ASSUME Typed, OneAccountPerPlayer, AllFit PROVE SignInInv
  OBVIOUS
<1>1. SignInTypeOK
  BY DEF SignInTypeOK, Typed, AllFit, Fits, Has, AccountsOf
<1>2. CleanWhenFree
  BY DEF CleanWhenFree, AllFit, Fits, Bans, IsBanned, AccountsOf
<1>3. IssuesClean /\ NoSessionUnderBan
  BY DEF IssuesClean, NoSessionUnderBan, AllFit, Fits
<1> QED BY <1>1, <1>2, <1>3 DEF SignInInv

\* A table in which every player keeps what they had suits a sign-in as well.
LEMMA FitsLarger ==
  ASSUME NEW small, NEW large, NEW d, NEW f,
         \A id : Has(small, d, id) => Has(large, d, id),
         Bans(small, d) => Bans(large, d),
         Fits(small, d, f)
  PROVE  Fits(large, d, f)
BY DEF Fits

LEMMA NoFlowIsFlow ==
  /\ NoFlow \in Flows
  /\ NoFlow.stage = "idle" /\ NoFlow.answer = "none"
BY SignInAssumption DEF NoFlow, Flows, Stages, Names, Outcomes

\* No sign-in starts under a ban unnoticed, and there is no one yet.
LEMMA InitFits == SignInInit => SignInInv
<1> SUFFICES ASSUME SignInInit PROVE SignInInv
  OBVIOUS
<1> USE DEF SignInInit, NoFlow
<1>2. SignInTypeOK
  BY NoFlowIsFlow, SignInAssumption DEF SignInTypeOK
<1>3. OneAccountPerPlayer /\ CleanWhenFree /\ IssuesClean /\ NoSessionUnderBan
  BY DEF OneAccountPerPlayer, CleanWhenFree, IssuesClean, NoSessionUnderBan
<1> QED BY <1>2, <1>3 DEF SignInInv

-----------------------------------------------------------------------------
\* A step keeps the invariant if no player loses an account by it and every
\* sign-in suits the table afterwards.
LEMMA StepKeeps ==
  ASSUME SignInInv, Typed', OneAccountPerPlayer',
         \A e \in Devices : \A id : Has(accounts, e, id) => Has(accounts', e, id),
         \A e \in Devices : Fits(accounts', e, flow'[e]),
         \A e \in Devices : \/ session'[e] \in {session[e], NoUser}
                            \/ Has(accounts', e, session'[e])
  PROVE  SignInInv'
<1>1. AllFit
  BY InvGivesFit
<1>2. AllFit'
  BY <1>1 DEF AllFit
<1>3. (Typed /\ OneAccountPerPlayer /\ AllFit => SignInInv)'
  BY FitGivesInv, PTL
<1> QED BY <1>2, <1>3

\* One sign-in moves on, with or without a change of the table.
LEMMA TableKeeps ==
  ASSUME SignInInv, NEW d \in Devices, NEW f \in Flows, Sets(d, f),
         UNCHANGED session, failed' \in 0..MaxFaults,
         accounts' \subseteq Accounts, OneAccountPerPlayer',
         \A e \in Devices : \A id : Has(accounts, e, id) => Has(accounts', e, id),
         \A e \in Devices : Bans(accounts, e) => Bans(accounts', e),
         Fits(accounts', d, f)
  PROVE  SignInInv'
<1>1. Typed /\ AllFit
  BY InvGivesFit
<1>2. Typed'
  BY <1>1 DEF Typed, Sets
<1>3. ASSUME NEW e \in Devices PROVE Fits(accounts', e, flow'[e])
  <2>1. flow'[e] = IF e = d THEN f ELSE flow[e]
    BY <1>1 DEF Typed, Sets
  <2>2. Fits(accounts', e, flow[e])
    BY <1>1, FitsLarger DEF AllFit
  <2> QED BY <2>1, <2>2
<1> QED BY <1>2, <1>3, StepKeeps

LEMMA FlowKeeps ==
  ASSUME SignInInv, NEW d \in Devices, NEW f \in Flows, Sets(d, f),
         UNCHANGED <<accounts, session>>, failed' \in 0..MaxFaults,
         Fits(accounts, d, f)
  PROVE  SignInInv'
<1>1. accounts \subseteq Accounts /\ OneAccountPerPlayer
  BY InvGivesFit DEF Typed
<1>2. accounts' = accounts /\ OneAccountPerPlayer'
  BY <1>1 DEF OneAccountPerPlayer
<1> QED BY <1>1, <1>2, TableKeeps

\* The budget of faults is one.
LEMMA FailedStays ==
  ASSUME SignInInv, Fault \/ NoFault
  PROVE  failed' \in 0..MaxFaults
BY SignInAssumption DEF SignInInv, SignInTypeOK, Fault, NoFault

\* A sign-in that ends without a session owes nothing.
LEMMA EndsFit ==
  ASSUME NEW outcome \in Outcomes \ {"signed_in"}, NEW table, NEW d
  PROVE  /\ [NoFlow EXCEPT !.answer = outcome] \in Flows
         /\ Fits(table, d, [NoFlow EXCEPT !.answer = outcome])
<1> DEFINE f == [NoFlow EXCEPT !.answer = outcome]
<1>1. f.stage = "idle" /\ f.answer = outcome
  BY DEF NoFlow
<1>2. f \in Flows
  BY NoFlowIsFlow DEF Flows
<1> QED BY <1>1, <1>2 DEF Fits

LEMMA EndsKeeps ==
  ASSUME SignInInv, NEW d \in Devices, NEW outcome \in Outcomes \ {"signed_in"},
         Ends(d, outcome), UNCHANGED <<accounts, session>>,
         failed' \in 0..MaxFaults
  PROVE  SignInInv'
<1> DEFINE f == [NoFlow EXCEPT !.answer = outcome]
<1>1. f \in Flows /\ Fits(accounts, d, f)
  BY EndsFit
<1>2. Sets(d, f)
  BY DEF Ends
<1> HIDE DEF f
<1> QED BY <1>1, <1>2, FlowKeeps

\* From one stage to the next, before the users table.
LEMMA EarlyKeeps ==
  ASSUME SignInInv, NEW d \in Devices, NEW f \in Flows, Sets(d, f),
         flow[d].stage # "idle", f.stage \in {"ticket", "ownership", "profile",
                                              "find", "create"},
         f.clean = flow[d].clean, f.answer = flow[d].answer,
         UNCHANGED <<accounts, session>>, failed' \in 0..MaxFaults
  PROVE  SignInInv'
<1>1. Fits(accounts, d, flow[d])
  BY InvGivesFit DEF AllFit
<1>2. Fits(accounts, d, f)
  BY <1>1 DEF Fits
<1> QED BY <1>2, FlowKeeps

\* The request comes in: clean, unless the player is banned.
LEMMA BeginKeeps ==
  ASSUME SignInInv, NEW d \in Devices, Begin(d)
  PROVE  SignInInv'
<1> DEFINE free == ~IsBanned(PlayerOf[d])
           f == [NoFlow EXCEPT !.stage = "ticket", !.clean = free]
<1>1. f \in Flows /\ f.stage = "ticket" /\ f.answer = "none" /\ f.clean = free
  <2>1. free \in BOOLEAN
    BY DEF IsBanned
  <2> HIDE DEF free
  <2> QED BY <2>1, NoFlowIsFlow DEF Flows, Stages
<1>2. Sets(d, f) /\ UNCHANGED <<accounts, session, failed>>
  BY DEF Begin
<1> HIDE DEF f
<1>3. Fits(accounts, d, f)
  BY <1>1 DEF Fits, Bans, IsBanned, AccountsOf
<1> QED BY <1>1, <1>2, <1>3, FlowKeeps DEF SignInInv, SignInTypeOK

\* The platform's answers change nothing but the name.
LEMMA PlatformKeeps ==
  ASSUME SignInInv, NEW d \in Devices,
         CheckTicket(d) \/ CheckOwnership(d) \/ FetchProfile(d)
  PROVE  SignInInv'
<1>1. flow[d] \in Flows /\ UNCHANGED <<accounts, session>>
  BY DEF CheckTicket, CheckOwnership, FetchProfile, SignInInv, SignInTypeOK
<1>2. flow[d].stage # "idle" /\ failed' \in 0..MaxFaults
  BY FailedStays DEF CheckTicket, CheckOwnership, FetchProfile
<1>3. ASSUME NEW stage \in {"ownership", "profile"}, MoveTo(d, stage)
      PROVE  SignInInv'
  <2> DEFINE f == [flow[d] EXCEPT !.stage = stage]
  <2>1. /\ f \in Flows /\ f.stage = stage
        /\ f.clean = flow[d].clean /\ f.answer = flow[d].answer
    BY <1>1 DEF Flows, Stages
  <2>2. Sets(d, f)
    BY <1>3 DEF MoveTo
  <2> HIDE DEF f
  <2> QED BY <1>1, <1>2, <2>1, <2>2, EarlyKeeps
<1>4. ASSUME flow[d].stage = "ticket", flow[d].app < AppIds,
             Sets(d, [flow[d] EXCEPT !.app = @ + 1])
      PROVE  SignInInv'
  <2> DEFINE f == [flow[d] EXCEPT !.app = @ + 1]
  <2>1. /\ f \in Flows /\ f.stage = "ticket"
        /\ f.clean = flow[d].clean /\ f.answer = flow[d].answer
    BY <1>1, <1>4, SignInAssumption DEF Flows
  <2>2. Sets(d, f)
    BY <1>4
  <2> HIDE DEF f
  <2> QED BY <1>1, <1>2, <2>1, <2>2, EarlyKeeps
<1>5. ASSUME NEW name \in Names,
             Sets(d, [flow[d] EXCEPT !.stage = "find", !.name = name])
      PROVE  SignInInv'
  <2> DEFINE f == [flow[d] EXCEPT !.stage = "find", !.name = name]
  <2>1. /\ f \in Flows /\ f.stage = "find"
        /\ f.clean = flow[d].clean /\ f.answer = flow[d].answer
    BY <1>1 DEF Flows, Stages
  <2>2. Sets(d, f)
    BY <1>5
  <2> HIDE DEF f
  <2> QED BY <1>1, <1>2, <2>1, <2>2, EarlyKeeps
<1>6. ASSUME NEW outcome \in {"unauthorized", "error"}, Ends(d, outcome)
      PROVE  SignInInv'
  BY <1>1, <1>2, <1>6, EndsKeeps DEF Outcomes
<1>7. CASE CheckTicket(d)
  BY <1>3, <1>4, <1>6, <1>7 DEF CheckTicket
<1>8. CASE CheckOwnership(d)
  BY <1>3, <1>6, <1>8 DEF CheckOwnership
<1>9. CASE FetchProfile(d)
  BY <1>5, <1>6, <1>9 DEF FetchProfile, Names
<1> QED BY <1>7, <1>8, <1>9

\* The row found is the player's.
LEMMA FindKeeps ==
  ASSUME SignInInv, NEW d \in Devices, FindUser(d)
  PROVE  SignInInv'
<1>1. /\ flow[d] \in Flows /\ UNCHANGED <<accounts, session>>
      /\ accounts \subseteq Accounts /\ flow[d].stage # "idle"
  BY DEF FindUser, SignInInv, SignInTypeOK
<1>2. failed' \in 0..MaxFaults
  <2>1. Fault \/ NoFault
    BY DEF FindUser
  <2> QED BY <2>1, FailedStays
<1>3. ASSUME NEW a \in AccountsOf(PlayerOf[d]),
             Sets(d, [flow[d] EXCEPT !.stage = "update", !.user = a.id])
      PROVE  SignInInv'
  <2> DEFINE f == [flow[d] EXCEPT !.stage = "update", !.user = a.id]
  <2>1. a \in accounts /\ a.player = PlayerOf[d] /\ a.id \in UserIds
    BY <1>1 DEF AccountsOf, Accounts
  <2>2. /\ f \in Flows /\ f.stage = "update" /\ f.user = a.id
        /\ f.clean = flow[d].clean /\ f.answer = flow[d].answer
    BY <1>1, <2>1 DEF Flows, Stages
  <2>3. Sets(d, f)
    BY <1>3
  <2> HIDE DEF f
  <2>4. Fits(accounts, d, flow[d])
    BY InvGivesFit DEF AllFit
  <2>5. Fits(accounts, d, f)
    BY <1>1, <2>1, <2>2, <2>4 DEF Fits, Has
  <2> QED BY <1>1, <1>2, <2>2, <2>3, <2>5, FlowKeeps
<1>4. ASSUME MoveTo(d, "create") PROVE SignInInv'
  <2> DEFINE f == [flow[d] EXCEPT !.stage = "create"]
  <2>1. /\ f \in Flows /\ f.stage = "create"
        /\ f.clean = flow[d].clean /\ f.answer = flow[d].answer
    BY <1>1 DEF Flows, Stages
  <2>2. Sets(d, f)
    BY <1>4 DEF MoveTo
  <2> HIDE DEF f
  <2> QED BY <1>1, <1>2, <2>1, <2>2, EarlyKeeps
<1>5. ASSUME Ends(d, "error") PROVE SignInInv'
  BY <1>1, <1>2, <1>5, EndsKeeps DEF Outcomes
<1> QED BY <1>3, <1>4, <1>5 DEF FindUser

\* The index lets the row in because the player had none: nobody was banned.
LEMMA CreateKeeps ==
  ASSUME SignInInv, NEW d \in Devices, CreateUser(d)
  PROVE  SignInInv'
<1>1. /\ Typed /\ OneAccountPerPlayer /\ Fits(accounts, d, flow[d])
      /\ flow[d].stage = "create" /\ flow[d] \in Flows
      /\ UNCHANGED session
  BY InvGivesFit DEF CreateUser, AllFit, Typed
<1>2. failed' \in 0..MaxFaults
  <2>1. Fault \/ NoFault
    BY DEF CreateUser
  <2> QED BY <2>1, FailedStays
<1>3. CASE Ends(d, "error") /\ UNCHANGED accounts
  BY <1>1, <1>2, <1>3, EndsKeeps DEF Outcomes
<1>4. ASSUME AccountsOf(PlayerOf[d]) = {}, accounts' \in Added(d),
             Saved(d) \/ Ends(d, "error")
      PROVE  SignInInv'
  <2>1. PICK id \in UserIds :
          accounts' = accounts \cup {[id |-> id, player |-> PlayerOf[d],
                                      name |-> flow[d].name, banned |-> FALSE]}
    BY <1>4 DEF Added
  <2> DEFINE new == [id |-> id, player |-> PlayerOf[d], name |-> flow[d].name,
                     banned |-> FALSE]
  <2>2. new \in Accounts /\ new.player = PlayerOf[d] /\ new.id = id
    BY <1>1, SignInAssumption DEF Flows, Accounts
  <2>3. accounts' = accounts \cup {new}
    BY <2>1
  <2> HIDE DEF new
  <2>4. accounts' \subseteq Accounts
    BY <1>1, <2>2, <2>3 DEF Typed
  <2>5. OneAccountPerPlayer'
    BY <1>1, <1>4, <2>2, <2>3 DEF OneAccountPerPlayer, AccountsOf
  <2>6. /\ \A e \in Devices : \A i : Has(accounts, e, i) => Has(accounts', e, i)
        /\ \A e \in Devices : Bans(accounts, e) => Bans(accounts', e)
        /\ Has(accounts', d, id)
    BY <2>2, <2>3 DEF Has, Bans
  <2>7. CASE Ends(d, "error")
    <3> DEFINE f == [NoFlow EXCEPT !.answer = "error"]
    <3>1. f \in Flows /\ Fits(accounts', d, f)
      BY EndsFit DEF Outcomes
    <3>2. Sets(d, f)
      BY <2>7 DEF Ends
    <3> HIDE DEF f
    <3> QED BY <1>1, <1>2, <2>4, <2>5, <2>6, <3>1, <3>2, TableKeeps
  <2>8. CASE Saved(d)
    <3>1. PICK a \in accounts' \ accounts :
            Sets(d, [flow[d] EXCEPT !.stage = "issue", !.user = a.id, !.banned = FALSE])
      BY <2>8 DEF Saved
    <3>2. a.id = id
      BY <2>2, <2>3, <3>1
    <3> DEFINE f == [flow[d] EXCEPT !.stage = "issue", !.user = a.id, !.banned = FALSE]
    <3>3. /\ f \in Flows /\ f.stage = "issue" /\ f.user = id
          /\ f.clean = flow[d].clean /\ f.answer = flow[d].answer
      BY <1>1, <3>2 DEF Flows, Stages
    <3>4. Sets(d, f)
      BY <3>1
    <3> HIDE DEF f
    <3>5. flow[d].clean
      BY <1>1, <1>4 DEF Fits, Bans, AccountsOf
    <3>6. Fits(accounts', d, f)
      BY <2>6, <3>3, <3>5 DEF Fits
    <3> QED BY <1>1, <1>2, <2>4, <2>5, <2>6, <3>3, <3>4, <3>6, TableKeeps
  <2> QED BY <1>4, <2>7, <2>8
<1> QED BY <1>3, <1>4 DEF CreateUser

\* A row that only changes its name, or its ban, is still the player's one.
LEMMA RenamedSuits ==
  ASSUME SignInInv, NEW d \in Devices, accounts' = Renamed(d)
  PROVE  /\ accounts' \subseteq Accounts
         /\ OneAccountPerPlayer'
         /\ \A e \in Devices : \A id : Has(accounts, e, id) => Has(accounts', e, id)
         /\ \A e \in Devices : Bans(accounts, e) => Bans(accounts', e)
<1> DEFINE r(a) == IF a.id = flow[d].user THEN [a EXCEPT !.name = flow[d].name] ELSE a
<1>1. Typed /\ OneAccountPerPlayer /\ flow[d] \in Flows
  BY InvGivesFit DEF Typed
<1>2. accounts' = {r(a) : a \in accounts}
  BY DEF Renamed
<1>3. ASSUME NEW a \in accounts
      PROVE  /\ r(a) \in Accounts
             /\ r(a).player = a.player /\ r(a).id = a.id /\ r(a).banned = a.banned
  BY <1>1 DEF Typed, Accounts, Flows
<1> HIDE DEF r
<1>4. accounts' \subseteq Accounts
  BY <1>2, <1>3
<1>5. OneAccountPerPlayer'
  BY <1>1, <1>2, <1>3 DEF OneAccountPerPlayer
<1>6. \A e \in Devices : \A id : Has(accounts, e, id) => Has(accounts', e, id)
  BY <1>2, <1>3 DEF Has
<1>7. \A e \in Devices : Bans(accounts, e) => Bans(accounts', e)
  BY <1>2, <1>3 DEF Bans
<1> QED BY <1>4, <1>5, <1>6, <1>7

\* The updated row comes back with the ban flag it has at that moment.
LEMMA UpdateKeeps ==
  ASSUME SignInInv, NEW d \in Devices, UpdateProfile(d)
  PROVE  SignInInv'
<1>1. /\ Typed /\ Fits(accounts, d, flow[d])
      /\ flow[d].stage = "update" /\ flow[d] \in Flows
      /\ UNCHANGED session
  BY InvGivesFit DEF UpdateProfile, AllFit, Typed
<1>2. failed' \in 0..MaxFaults
  <2>1. Fault \/ NoFault
    BY DEF UpdateProfile
  <2> QED BY <2>1, FailedStays
<1>3. CASE Ends(d, "error") /\ UNCHANGED accounts
  BY <1>1, <1>2, <1>3, EndsKeeps DEF Outcomes
<1>4. CASE accounts' = Renamed(d) /\ Ends(d, "error")
  <2> DEFINE f == [NoFlow EXCEPT !.answer = "error"]
  <2>1. f \in Flows /\ Fits(accounts', d, f)
    BY EndsFit DEF Outcomes
  <2>2. Sets(d, f)
    BY <1>4 DEF Ends
  <2> HIDE DEF f
  <2> QED BY <1>1, <1>2, <1>4, <2>1, <2>2, RenamedSuits, TableKeeps
<1>5. ASSUME accounts' = Renamed(d),
             Sets(d, [flow[d] EXCEPT !.stage = "issue",
                                     !.banned = IsBanned(PlayerOf[d])])
      PROVE  SignInInv'
  <2> DEFINE b == IsBanned(PlayerOf[d])
             f == [flow[d] EXCEPT !.stage = "issue", !.banned = b]
  <2>1. b \in BOOLEAN /\ (b <=> Bans(accounts, d))
    BY DEF IsBanned, AccountsOf, Bans
  <2>2. Sets(d, f)
    BY <1>5
  <2> HIDE DEF b
  <2>3. /\ f \in Flows /\ f.stage = "issue" /\ f.user = flow[d].user /\ f.banned = b
        /\ f.clean = flow[d].clean /\ f.answer = flow[d].answer
    BY <1>1, <2>1 DEF Flows, Stages
  <2> HIDE DEF f
  <2>4. /\ \A id : Has(accounts, d, id) => Has(accounts', d, id)
        /\ Bans(accounts, d) => Bans(accounts', d)
    BY <1>5, RenamedSuits
  <2>5. Fits(accounts', d, f)
    BY <1>1, <2>1, <2>3, <2>4 DEF Fits
  <2> QED BY <1>1, <1>2, <1>5, <2>2, <2>3, <2>5, RenamedSuits, TableKeeps
<1> QED BY <1>3, <1>4, <1>5 DEF UpdateProfile

\* Only a sign-in that is clean or found no ban gets this far.
LEMMA IssueKeeps ==
  ASSUME SignInInv, NEW d \in Devices, Issue(d)
  PROVE  SignInInv'
<1>1. /\ Typed /\ AllFit /\ OneAccountPerPlayer /\ Fits(accounts, d, flow[d])
      /\ flow[d].stage = "issue" /\ flow[d] \in Flows
      /\ UNCHANGED accounts
  BY InvGivesFit DEF Issue, AllFit, Typed
<1>2. failed' \in 0..MaxFaults
  <2>1. Fault \/ NoFault
    BY DEF Issue
  <2> QED BY <2>1, FailedStays
<1>3. ASSUME NEW outcome \in {"banned", "error"}, Ends(d, outcome), UNCHANGED session
      PROVE  SignInInv'
  BY <1>1, <1>2, <1>3, EndsKeeps DEF Outcomes
<1>4. ASSUME ~flow[d].banned,
             session' = [session EXCEPT ![d] = flow[d].user],
             Sets(d, [NoFlow EXCEPT !.answer = "signed_in", !.clean = flow[d].clean])
      PROVE  SignInInv'
  <2> DEFINE f == [NoFlow EXCEPT !.answer = "signed_in", !.clean = flow[d].clean]
  <2>1. f \in Flows /\ f.stage = "idle" /\ f.clean = flow[d].clean
    BY <1>1, NoFlowIsFlow DEF Flows, Outcomes
  <2>2. Sets(d, f)
    BY <1>4
  <2> HIDE DEF f
  <2>3. flow[d].clean /\ Has(accounts, d, flow[d].user)
    BY <1>1, <1>4 DEF Fits
  <2>4. Fits(accounts, d, f)
    BY <2>1, <2>3 DEF Fits
  <2>5. flow[d].user \in UserIds \cup {NoUser}
    BY <1>1 DEF Flows
  <2>6. Typed' /\ OneAccountPerPlayer'
    BY <1>1, <1>2, <1>4, <2>1, <2>2, <2>5 DEF Typed, Sets, OneAccountPerPlayer
  <2>7. accounts' = accounts
    BY <1>1
  <2>8. ASSUME NEW e \in Devices
        PROVE  /\ Fits(accounts', e, flow'[e])
               /\ session'[e] = session[e] \/ Has(accounts', e, session'[e])
    <3>1. CASE e = d
      <4>1. flow'[d] = f /\ session'[d] = flow[d].user
        BY <1>1, <1>4, <2>2 DEF Typed, Sets
      <4> QED BY <2>3, <2>4, <2>7, <3>1, <4>1
    <3>2. CASE e # d
      <4>1. flow'[e] = flow[e] /\ session'[e] = session[e]
        BY <1>1, <1>4, <2>2, <3>2 DEF Typed, Sets
      <4> QED BY <1>1, <2>7, <4>1 DEF AllFit
    <3> QED BY <3>1, <3>2
  <2> QED BY <2>6, <2>7, <2>8, StepKeeps
<1> QED BY <1>3, <1>4 DEF Issue

LEMMA ExpireKeeps ==
  ASSUME SignInInv, NEW d \in Devices, Expire(d)
  PROVE  SignInInv'
<1>1. Typed /\ AllFit /\ OneAccountPerPlayer
  BY InvGivesFit
<1>2. /\ session' = [session EXCEPT ![d] = NoUser]
      /\ UNCHANGED <<accounts, flow, failed>>
  BY DEF Expire
<1>3. Typed' /\ OneAccountPerPlayer'
  BY <1>1, <1>2 DEF Typed, OneAccountPerPlayer
<1>4. \A e \in Devices : session'[e] \in {session[e], NoUser}
  BY <1>1, <1>2 DEF Typed
<1>5. \A e \in Devices : Fits(accounts', e, flow'[e])
  BY <1>1, <1>2 DEF AllFit
<1>6. accounts' = accounts
  BY <1>2
<1> QED BY <1>3, <1>4, <1>5, <1>6, StepKeeps

-----------------------------------------------------------------------------
\* The operator's update leaves the row where it is.
LEMMA FlaggedSuits ==
  ASSUME SignInInv, NEW a \in accounts, NEW flag \in BOOLEAN,
         accounts' = (accounts \ {a}) \cup {[a EXCEPT !.banned = flag]}
  PROVE  /\ accounts' \subseteq Accounts
         /\ OneAccountPerPlayer'
         /\ \A e \in Devices : \A id : Has(accounts, e, id) => Has(accounts', e, id)
         /\ \A e \in Devices : Bans(accounts, e) /\ (flag \/ PlayerOf[e] # a.player)
                                 => Bans(accounts', e)
<1> DEFINE new == [a EXCEPT !.banned = flag]
<1>1. accounts \subseteq Accounts /\ OneAccountPerPlayer
  BY InvGivesFit DEF Typed
<1>2. new \in Accounts /\ new.player = a.player /\ new.id = a.id /\ new.banned = flag
  BY <1>1 DEF Accounts
<1>3. accounts' = (accounts \ {a}) \cup {new}
  OBVIOUS
<1> HIDE DEF new
<1>4. accounts' \subseteq Accounts
  BY <1>1, <1>2, <1>3
<1>5. OneAccountPerPlayer'
  BY <1>1, <1>2, <1>3 DEF OneAccountPerPlayer
<1>6. \A e \in Devices : \A id : Has(accounts, e, id) => Has(accounts', e, id)
  BY <1>2, <1>3 DEF Has
<1>7. \A e \in Devices : Bans(accounts, e) /\ (flag \/ PlayerOf[e] # a.player)
                            => Bans(accounts', e)
  BY <1>2, <1>3 DEF Bans
<1> QED BY <1>4, <1>5, <1>6, <1>7

LEMMA BanKeeps ==
  ASSUME SignInInv, NEW a \in accounts, Ban(a)
  PROVE  SignInInv'
<1>1. Typed /\ AllFit
  BY InvGivesFit
<1>2. /\ accounts' = (accounts \ {a}) \cup {[a EXCEPT !.banned = TRUE]}
      /\ UNCHANGED <<session, flow, failed>>
  BY DEF Ban
<1>3. /\ accounts' \subseteq Accounts
      /\ OneAccountPerPlayer'
      /\ \A e \in Devices : \A id : Has(accounts, e, id) => Has(accounts', e, id)
      /\ \A e \in Devices : Bans(accounts, e) => Bans(accounts', e)
  BY <1>2, FlaggedSuits
<1>4. ASSUME NEW e \in Devices PROVE Fits(accounts', e, flow'[e])
  BY <1>1, <1>2, <1>3, FitsLarger DEF AllFit
<1>5. Typed'
  BY <1>1, <1>2, <1>3 DEF Typed
<1> QED BY <1>2, <1>3, <1>4, <1>5, StepKeeps

\* Lifting a ban is a moment without it for everyone it concerns.
LEMMA UnbanKeeps ==
  ASSUME SignInInv, NEW a \in accounts, Unban(a)
  PROVE  SignInInv'
<1>1. Typed /\ AllFit
  BY InvGivesFit
<1>2. /\ accounts' = (accounts \ {a}) \cup {[a EXCEPT !.banned = FALSE]}
      /\ UNCHANGED <<session, failed>>
  BY DEF Unban
<1>3. /\ accounts' \subseteq Accounts
      /\ OneAccountPerPlayer'
      /\ \A e \in Devices : \A id : Has(accounts, e, id) => Has(accounts', e, id)
      /\ \A e \in Devices : Bans(accounts, e) /\ PlayerOf[e] # a.player
                              => Bans(accounts', e)
  BY <1>2, FlaggedSuits
<1>4. ASSUME NEW e \in Devices
      PROVE  flow'[e] \in Flows /\ Fits(accounts', e, flow'[e])
  <2>1. flow[e] \in Flows /\ Fits(accounts, e, flow[e])
    BY <1>1 DEF AllFit, Typed
  <2>2. CASE PlayerOf[e] = a.player /\ flow[e].stage # "idle"
    <3>1. flow'[e] = [flow[e] EXCEPT !.clean = TRUE]
      BY <2>2 DEF Unban
    <3>2. /\ flow'[e] \in Flows /\ flow'[e].clean
          /\ flow'[e].stage = flow[e].stage /\ flow'[e].user = flow[e].user
      BY <2>1, <3>1 DEF Flows
    <3> QED BY <1>3, <2>1, <3>2 DEF Fits
  <2>3. CASE ~(PlayerOf[e] = a.player /\ flow[e].stage # "idle")
    <3>1. flow'[e] = flow[e]
      BY <2>3 DEF Unban
    <3> QED BY <1>3, <2>1, <2>3, <3>1 DEF Fits
  <2> QED BY <2>2, <2>3
<1>5. flow' \in [Devices -> Flows]
  BY <1>4 DEF Unban
<1>6. Typed'
  BY <1>1, <1>2, <1>3, <1>5 DEF Typed
<1> QED BY <1>2, <1>3, <1>4, <1>6, StepKeeps

LEMMA NextKeeps == SignInInv /\ [SignInNext]_signInVars => SignInInv'
<1> SUFFICES ASSUME SignInInv, [SignInNext]_signInVars PROVE SignInInv'
  OBVIOUS
<1>1. CASE UNCHANGED signInVars
  BY <1>1 DEF signInVars, SignInInv, SignInTypeOK, OneAccountPerPlayer,
              CleanWhenFree, IssuesClean, NoSessionUnderBan, IsBanned, AccountsOf
<1>2. ASSUME NEW d \in Devices, Begin(d) \/ Expire(d) PROVE SignInInv'
  BY <1>2, BeginKeeps, ExpireKeeps
<1>3. ASSUME NEW d \in Devices, Proceed(d) PROVE SignInInv'
  BY <1>3, PlatformKeeps, FindKeeps, CreateKeeps, UpdateKeeps, IssueKeeps DEF Proceed
<1>4. ASSUME NEW a \in accounts, Ban(a) \/ Unban(a) PROVE SignInInv'
  BY <1>4, BanKeeps, UnbanKeeps
<1> QED BY <1>1, <1>2, <1>3, <1>4 DEF SignInNext

\* The invariant holds in every reachable state.
THEOREM SignInInvariance == SignInSpec => []SignInInv
<1> QED BY InitFits, NextKeeps, PTL DEF SignInSpec

\* Every variable of the sign-in routes keeps its type, and a session names
\* an account of the player who holds it.
THEOREM SignInTypeCorrect == SignInSpec => []SignInTypeOK
<1>1. SignInInv => SignInTypeOK
  BY DEF SignInInv
<1> QED BY <1>1, SignInInvariance, PTL

\* SignInWithSteam and SignInWithStove give a player one account, however many
\* devices race and whatever calls fail.
THEOREM OneAccountEach == SignInSpec => []OneAccountPerPlayer
<1>1. SignInInv => OneAccountPerPlayer
  BY DEF SignInInv
<1> QED BY <1>1, SignInInvariance, PTL

\* Neither route issues a session to a sign-in that was under a ban from its
\* beginning to its end.
THEOREM BannedGetNoSession == SignInSpec => []NoSessionUnderBan
<1>1. SignInInv => NoSessionUnderBan
  BY DEF SignInInv
<1> QED BY <1>1, SignInInvariance, PTL
=============================================================================
