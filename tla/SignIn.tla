------------------------------- MODULE SignIn -------------------------------
(***************************************************************************)
(* POST /steam/signin and POST /stove/signin: the platform vouches for the *)
(* player, the users row is found or created, a banned account is turned   *)
(* away, and a session is stored in Redis.  The routes differ in what they *)
(* ask of the platform and in what they do when it does not answer.        *)
(*                                                                         *)
(* Every call (to the platform, to Postgres, to Redis) is one action, for  *)
(* devices of one player may sign in at the same time, and the operator    *)
(* sets is_banned in the table at any time.  A call that fails, a platform *)
(* that refuses and a lost answer count against MaxFaults.  A session      *)
(* saved for an answer that is lost is a key in Redis that nobody knows.   *)
(***************************************************************************)
EXTENDS Naturals, FiniteSets

CONSTANTS
  Players,       \* (platform_type, platform_user_id)
  SteamPlayers,  \* those of Steam; the others are Stove's
  Devices,
  PlayerOf,      \* PlayerOf[d]: the player who uses d
  UserIds,       \* ids the users table may give
  NoUser,
  AppIds,        \* number of Steam app ids a ticket is tried with
  MaxFaults      \* bound: failed calls and refusals in a behaviour

ASSUME SignInAssumption ==
  /\ SteamPlayers \subseteq Players
  /\ PlayerOf \in [Devices -> Players]
  /\ NoUser \notin UserIds
  /\ AppIds \in Nat \ {0}
  /\ MaxFaults \in Nat

VARIABLES
  accounts,  \* the users table
  session,   \* session[d]: the user id of the session d holds, or NoUser
  flow,      \* the sign-in each device has under way, with its last answer
  failed     \* faults so far

signInVars == <<accounts, session, flow, failed>>

\* A name is what the platform reports or one made from the platform id.
Names == {"reported", "placeholder"}

Accounts == [id : UserIds, player : Players, name : Names, banned : BOOLEAN]

Outcomes == {"none", "signed_in", "unauthorized", "banned", "error"}
Stages == {"idle", "ticket", "ownership", "profile", "find", "create",
           "update", "issue"}

\* clean is history: was the player free of a ban at some time since the
\* request came in?
NoFlow == [stage |-> "idle", app |-> 1, name |-> "reported", user |-> NoUser,
           banned |-> FALSE, clean |-> FALSE, answer |-> "none"]

Flows == [stage : Stages, app : 1..AppIds, name : Names,
          user : UserIds \cup {NoUser}, banned : BOOLEAN, clean : BOOLEAN,
          answer : Outcomes]

SignInInit ==
  /\ accounts = {}
  /\ session = [d \in Devices |-> NoUser]
  /\ flow = [d \in Devices |-> NoFlow]
  /\ failed = 0

-----------------------------------------------------------------------------
Fault == failed < MaxFaults /\ failed' = failed + 1
NoFault == UNCHANGED failed

OnSteam(d) == PlayerOf[d] \in SteamPlayers
AccountsOf(p) == {a \in accounts : a.player = p}
IsBanned(p) == \E a \in AccountsOf(p) : a.banned

Sets(d, f) == flow' = [flow EXCEPT ![d] = f]
MoveTo(d, stage) == Sets(d, [flow[d] EXCEPT !.stage = stage])
Ends(d, outcome) == Sets(d, [NoFlow EXCEPT !.answer = outcome])

\* A device without a session sends a request.
Begin(d) ==
  /\ flow[d].stage = "idle"
  /\ session[d] = NoUser
  /\ Sets(d, [NoFlow EXCEPT !.stage = "ticket", !.clean = ~IsBanned(PlayerOf[d])])
  /\ UNCHANGED <<accounts, session, failed>>

\* Steam: the ticket is tried with one app id after the other, and the last
\* failure is the answer, a 401 if it is a refusal; a ticket that passes but
\* names another player is refused too.  Stove: one attempt.
CheckTicket(d) ==
  /\ flow[d].stage = "ticket"
  /\ \/ /\ NoFault
        /\ MoveTo(d, IF OnSteam(d) THEN "ownership" ELSE "profile")
     \/ /\ Fault
        /\ OnSteam(d) /\ flow[d].app < AppIds
        /\ Sets(d, [flow[d] EXCEPT !.app = @ + 1])
     \/ /\ Fault
        /\ OnSteam(d) => flow[d].app = AppIds
        /\ \E outcome \in {"unauthorized", "error"} : Ends(d, outcome)
     \/ /\ Fault
        /\ OnSteam(d)
        /\ Ends(d, "unauthorized")
  /\ UNCHANGED <<accounts, session>>

CheckOwnership(d) ==
  /\ flow[d].stage = "ownership"
  /\ \/ NoFault /\ MoveTo(d, "profile")
     \/ Fault /\ \E outcome \in {"unauthorized", "error"} : Ends(d, outcome)
  /\ UNCHANGED <<accounts, session>>

\* When the platform reports no name, one is made from the platform id.  When
\* it does not answer, Steam sign-in ends and Stove sign-in goes on like that.
FetchProfile(d) ==
  /\ flow[d].stage = "profile"
  /\ \/ /\ NoFault
        /\ Sets(d, [flow[d] EXCEPT !.stage = "find", !.name = "reported"])
     \/ /\ Fault
        /\ Sets(d, [flow[d] EXCEPT !.stage = "find", !.name = "placeholder"])
     \/ /\ Fault
        /\ OnSteam(d)
        /\ \E outcome \in {"unauthorized", "error"} : Ends(d, outcome)
  /\ UNCHANGED <<accounts, session>>

\* FindByPlatformUserID asks for the only row: two rows are an error.
FindUser(d) ==
  /\ flow[d].stage = "find"
  /\ \/ /\ Cardinality(AccountsOf(PlayerOf[d])) = 1
        /\ \E a \in AccountsOf(PlayerOf[d]) :
             Sets(d, [flow[d] EXCEPT !.stage = "update", !.user = a.id])
        /\ NoFault
     \/ /\ AccountsOf(PlayerOf[d]) = {}
        /\ MoveTo(d, "create")
        /\ NoFault
     \/ /\ IF Cardinality(AccountsOf(PlayerOf[d])) > 1 THEN NoFault ELSE Fault
        /\ Ends(d, "error")
  /\ UNCHANGED <<accounts, session>>

Added(d) ==
  {accounts \cup {[id |-> id, player |-> PlayerOf[d], name |-> flow[d].name,
                   banned |-> FALSE]} : id \in UserIds \ {a.id : a \in accounts}}

Saved(d) ==
  \E a \in accounts' \ accounts :
    Sets(d, [flow[d] EXCEPT !.stage = "issue", !.user = a.id, !.banned = FALSE])

\* Mutant: no unique index on (platform_type, platform_user_id).
CreateUnindexed(d) ==
  /\ flow[d].stage = "create"
  /\ accounts' \in Added(d)
  /\ Saved(d)
  /\ NoFault
  /\ UNCHANGED session

\* The unique index lets one of two concurrent first sign-ins through; the
\* other gets an error, as it does when the call fails or its answer is lost.
CreateUser(d) ==
  /\ flow[d].stage = "create"
  /\ \/ /\ AccountsOf(PlayerOf[d]) = {}
        /\ accounts' \in Added(d)
        /\ \/ NoFault /\ Saved(d)
           \/ Fault /\ Ends(d, "error")
     \/ /\ IF AccountsOf(PlayerOf[d]) = {} THEN Fault ELSE NoFault
        /\ Ends(d, "error")
        /\ UNCHANGED accounts
  /\ UNCHANGED session

Renamed(d) ==
  {IF a.id = flow[d].user THEN [a EXCEPT !.name = flow[d].name] ELSE a :
     a \in accounts}

\* UpdatePlatformProfile writes the name and returns the row, so the ban
\* check that follows sees is_banned as of this update.
UpdateProfile(d) ==
  /\ flow[d].stage = "update"
  /\ \/ /\ accounts' = Renamed(d)
        /\ \/ /\ NoFault
              /\ Sets(d, [flow[d] EXCEPT !.stage = "issue",
                                         !.banned = IsBanned(PlayerOf[d])])
           \/ Fault /\ Ends(d, "error")
     \/ Fault /\ Ends(d, "error") /\ UNCHANGED accounts
  /\ UNCHANGED session

\* Mutant: the row's ban flag is not looked at.
IssueToAll(d) ==
  /\ flow[d].stage = "issue"
  /\ session' = [session EXCEPT ![d] = flow[d].user]
  /\ Sets(d, [NoFlow EXCEPT !.answer = "signed_in",
                            !.clean = flow[d].clean])
  /\ NoFault
  /\ UNCHANGED accounts

\* A banned account gets a 403; otherwise CreateWithSecret, which may fail.
Issue(d) ==
  /\ flow[d].stage = "issue"
  /\ \/ /\ flow[d].banned
        /\ Ends(d, "banned")
        /\ NoFault
        /\ UNCHANGED session
     \/ /\ ~flow[d].banned
        /\ session' = [session EXCEPT ![d] = flow[d].user]
        /\ Sets(d, [NoFlow EXCEPT !.answer = "signed_in",
                                  !.clean = flow[d].clean])
        /\ NoFault
     \/ /\ ~flow[d].banned
        /\ Fault
        /\ Ends(d, "error")
        /\ UNCHANGED session
  /\ UNCHANGED accounts

\* The key of the session reaches its 24 hours, or the client forgets it.
Expire(d) ==
  /\ session[d] # NoUser
  /\ session' = [session EXCEPT ![d] = NoUser]
  /\ UNCHANGED <<accounts, flow, failed>>

\* The operator updates is_banned in the database.
Ban(a) ==
  /\ ~a.banned
  /\ accounts' = (accounts \ {a}) \cup {[a EXCEPT !.banned = TRUE]}
  /\ UNCHANGED <<session, flow, failed>>

Unban(a) ==
  /\ a.banned
  /\ accounts' = (accounts \ {a}) \cup {[a EXCEPT !.banned = FALSE]}
  /\ flow' = [d \in Devices |->
                IF PlayerOf[d] = a.player /\ flow[d].stage # "idle"
                THEN [flow[d] EXCEPT !.clean = TRUE] ELSE flow[d]]
  /\ UNCHANGED <<session, failed>>

Proceed(d) ==
  \/ CheckTicket(d)
  \/ CheckOwnership(d)
  \/ FetchProfile(d)
  \/ FindUser(d)
  \/ CreateUser(d)
  \/ UpdateProfile(d)
  \/ Issue(d)

SignInNext ==
  \/ \E d \in Devices : Begin(d) \/ Proceed(d) \/ Expire(d)
  \/ \E a \in accounts : Ban(a) \/ Unban(a)

\* A request that is served comes to an end (calls return or time out), and a
\* game without a session asks for one.
SignInSpec ==
  /\ SignInInit
  /\ [][SignInNext]_signInVars
  /\ \A d \in Devices : WF_signInVars(Begin(d)) /\ WF_signInVars(Proceed(d))

-----------------------------------------------------------------------------
\* Every variable has its type; a sign-in past the users table, and a session
\* held, name an account of the player whose device it is.
SignInTypeOK ==
  /\ accounts \subseteq Accounts
  /\ session \in [Devices -> UserIds \cup {NoUser}]
  /\ flow \in [Devices -> Flows]
  /\ failed \in 0..MaxFaults
  /\ \A d \in Devices :
       /\ flow[d].stage \in {"update", "issue"} =>
            \E a \in AccountsOf(PlayerOf[d]) : a.id = flow[d].user
       /\ session[d] # NoUser =>
            \E a \in AccountsOf(PlayerOf[d]) : a.id = session[d]

\* However first sign-ins race or are repeated after a lost answer, a player
\* has one account, so progress is not split over two.
OneAccountPerPlayer ==
  \A a, b \in accounts : a.player = b.player => a = b

\* A sign-in that runs wholly under a ban issues no session, whichever way
\* the row was read; one that saw a moment without the ban may.
NoSessionUnderBan ==
  \A d \in Devices : flow[d].answer = "signed_in" => flow[d].clean

(***************************************************************************)
(* Why a sign-in that finds no ban may issue: the moments at which it can  *)
(* find none are moments without a ban.                                    *)
(***************************************************************************)
\* A sign-in of a player without a ban has seen a moment without one.
CleanWhenFree ==
  \A d \in Devices :
    flow[d].stage # "idle" /\ ~IsBanned(PlayerOf[d]) => flow[d].clean

\* So has one that is about to issue a session.
IssuesClean ==
  \A d \in Devices :
    flow[d].stage = "issue" /\ ~flow[d].banned => flow[d].clean

SignInInv ==
  /\ SignInTypeOK
  /\ OneAccountPerPlayer
  /\ CleanWhenFree
  /\ IssuesClean
  /\ NoSessionUnderBan

\* Races, failed calls and lost answers leave nothing behind that keeps a
\* player out: with retries a player who is not banned signs in again and
\* again.
SignInHeals ==
  \A d \in Devices :
    <>[](~IsBanned(PlayerOf[d])) => []<>(session[d] # NoUser)
=============================================================================
