-------------------------------- MODULE Account --------------------------------
(***************************************************************************)
(* Challenge, with what the codes are for: the registration of a user, the *)
(* sessions of its devices, and the steps of the onboarding it skips.      *)
(*                                                                         *)
(* A session is a refresh token and the tokens that replaced it.  It comes *)
(* from a proof: the registration of a user, or a code of a login.  Tokens *)
(* that expired are those nobody uses any more.  The PIN is not followed.  *)
(***************************************************************************)
EXTENDS Challenge

CONSTANT Steps      \* the onboarding steps that may be skipped

VARIABLES
    users,          \* how many users registered with this phone; they are 1..users
    tokens,         \* the refresh tokens, in the order of their creation
    skippedSteps,   \* the steps skipped in each user's metadata
    swept           \* history: whose sessions, from which proofs, a logout of all ended

accountVars == <<users, tokens, skippedSteps, swept>>
vars == <<challengeVars, accountVars>>

-----------------------------------------------------------------------------

Proof == {"registration", "code"} \X Nat
RefreshToken == [user : Nat, proof : Proof, isRevoked : BOOLEAN]

Registering == [op : {"Register"}, on : {<<"slot">>}, user : {0},
                step : {"insert", "link"}]
          \cup [op : {"Register"}, on : Proof, user : Nat, step : {"session"}]
Completing == [op : {"Complete"}, on : Proof, user : Nat, row : Nat,
               step : {"mark", "session"}]
Refreshing == [op : {"Refresh"}, on : Proof, user : Nat, token : Nat,
               step : {"revoke", "session"}]
LoggingOut == [op : {"Logout"}, on : {<<>>}, token : Nat]
Annotating == [op : {"Skip", "Reset"}, on : {<<>>}, user : Nat,
               seen : SUBSET Steps, adds : SUBSET Steps]

TypeOK ==
    /\ slot \in 0..users
    /\ codes \in [OtpPurpose -> Seq(Code)]
    /\ sent \in [OtpPurpose -> Nat]
    /\ granted \subseteq 0..users
    /\ req \in [Slots -> Sending \cup Entering \cup Registering \cup Completing
                          \cup Refreshing \cup LoggingOut \cup Annotating \cup {Idle}]
    /\ begun \in 0..MaxRequests
    /\ deaths \in 0..MaxDeaths
    /\ users \in Nat
    /\ tokens \in Seq(RefreshToken)
    /\ skippedSteps \in [1..users -> SUBSET Steps]
    /\ swept \subseteq Nat \X Proof

AccountInit ==
    /\ Init
    /\ users = 0
    /\ tokens = <<>>
    /\ skippedSteps = <<>>
    /\ swept = {}

-----------------------------------------------------------------------------
(***************************************************************************)
(* CreatePinHandler.  The transaction reads the phone, inserts the user and*)
(* links the phone to it.  The read takes no lock.  The insertion shares   *)
(* the phone's row (KEY SHARE, for the foreign key) until the end; the link*)
(* changes a unique column, so that it waits until nobody else shares the  *)
(* row.                                                                    *)
(***************************************************************************)

\* Defective variant: the slot is not looked at.
ReadPhoneAnyway(r) ==
    /\ granted # {}
    /\ Start(r, [op |-> "Register", on |-> <<"slot">>, user |-> 0, step |-> "insert"])
    /\ UNCHANGED accountVars

\* Any challenge token of the phone will do.
ReadPhone(r) ==
    /\ granted # {}
    /\ slot = 0
    /\ Start(r, [op |-> "Register", on |-> <<"slot">>, user |-> 0, step |-> "insert"])
    /\ UNCHANGED accountVars

InsertUser(r) ==
    /\ req[r].op = "Register"
    /\ req[r].step = "insert"
    /\ Continue(r, [req[r] EXCEPT !.step = "link"])
    /\ UNCHANGED <<slot, codes, sent, granted, accountVars>>

SharesPhone(r) == req[r].op = "Register" /\ req[r].step = "link"

\* Defective variant: the user is not linked.
LinkNothing(r) ==
    /\ SharesPhone(r)
    /\ \A q \in Slots \ {r} : ~SharesPhone(q)
    /\ users' = users + 1
    /\ skippedSteps' = Append(skippedSteps, {})
    /\ Continue(r, [req[r] EXCEPT !.step = "session", !.user = users + 1,
                                  !.on = <<"registration", users + 1>>])
    /\ UNCHANGED <<slot, codes, sent, granted, tokens, swept>>

\* The link and the commit.
LinkPhone(r) ==
    /\ SharesPhone(r)
    /\ \A q \in Slots \ {r} : ~SharesPhone(q)
    /\ slot' = users + 1
    /\ users' = users + 1
    /\ skippedSteps' = Append(skippedSteps, {})
    /\ Continue(r, [req[r] EXCEPT !.step = "session", !.user = users + 1,
                                  !.on = <<"registration", users + 1>>])
    /\ UNCHANGED <<codes, sent, granted, tokens, swept>>

\* Two that share the row and want it wait for each other: PostgreSQL rolls one back.
AbortDeadlocked(r) ==
    /\ SharesPhone(r)
    /\ \E q \in Slots \ {r} : SharesPhone(q)
    /\ Continue(r, Idle)
    /\ UNCHANGED <<slot, codes, sent, granted, accountVars>>

-----------------------------------------------------------------------------
(***************************************************************************)
(* LoginCompleteHandler and RefreshTokenHandler.                           *)
(***************************************************************************)

ReadToComplete(r, user, i) ==
    /\ user \in granted \ {0}
    /\ IsLatestValid("LOGIN", i)
    /\ Start(r, [op |-> "Complete", on |-> <<"code", codes["LOGIN"][i].nr>>,
                 user |-> user, row |-> i, step |-> "mark"])
    /\ UNCHANGED accountVars

MarkCompleted(r) ==
    /\ req[r].op = "Complete"
    /\ req[r].step = "mark"
    /\ codes' = Used("LOGIN", req[r].row)
    /\ Continue(r, [req[r] EXCEPT !.step = "session"])
    /\ UNCHANGED <<slot, sent, granted, accountVars>>

\* Defective variant: any token of the user will do.
ReadAnyToRefresh(r, t) ==
    /\ Start(r, [op |-> "Refresh", on |-> tokens[t].proof, user |-> tokens[t].user,
                 token |-> t, step |-> "revoke"])
    /\ UNCHANGED accountVars

ReadToRefresh(r, t) ==
    /\ ~tokens[t].isRevoked
    /\ Start(r, [op |-> "Refresh", on |-> tokens[t].proof, user |-> tokens[t].user,
                 token |-> t, step |-> "revoke"])
    /\ UNCHANGED accountVars

\* Defective variant: the token that is replaced stays valid.
KeepReplaced(r) ==
    /\ req[r].op = "Refresh"
    /\ req[r].step = "revoke"
    /\ Continue(r, [req[r] EXCEPT !.step = "session"])
    /\ UNCHANGED <<slot, codes, sent, granted, accountVars>>

RevokeReplaced(r) ==
    /\ req[r].op = "Refresh"
    /\ req[r].step = "revoke"
    /\ tokens' = [tokens EXCEPT ![req[r].token].isRevoked = TRUE]
    /\ Continue(r, [req[r] EXCEPT !.step = "session"])
    /\ UNCHANGED <<slot, codes, sent, granted, users, skippedSteps, swept>>

\* The last statement of a registration, a login and a refresh.
CreateSession(r) ==
    /\ req[r].op \in {"Register", "Complete", "Refresh"}
    /\ req[r].step = "session"
    /\ tokens' = Append(tokens, [user |-> req[r].user, proof |-> req[r].on,
                                 isRevoked |-> FALSE])
    /\ Continue(r, Idle)
    /\ UNCHANGED <<slot, codes, sent, granted, users, skippedSteps, swept>>

-----------------------------------------------------------------------------
(***************************************************************************)
(* LogoutHandler and RevokeSessionHandler.                                 *)
(***************************************************************************)

\* A token that was revoked may be named again.
ReadToLogout(r, t) ==
    /\ Start(r, [op |-> "Logout", on |-> <<>>, token |-> t])
    /\ UNCHANGED accountVars

RevokeToken(r) ==
    /\ req[r].op = "Logout"
    /\ tokens' = [tokens EXCEPT ![req[r].token].isRevoked = TRUE]
    /\ Continue(r, Idle)
    /\ UNCHANGED <<slot, codes, sent, granted, users, skippedSteps, swept>>

\* One statement.  What it sweeps is what no request is working on.
LogoutAllDevices(r, user) ==
    /\ \E t \in DOMAIN tokens : tokens[t].user = user
    /\ Start(r, Idle)
    /\ tokens' = [t \in DOMAIN tokens |->
                    IF tokens[t].user = user THEN [tokens[t] EXCEPT !.isRevoked = TRUE]
                    ELSE tokens[t]]
    /\ swept' = swept \cup
         {<<user, tokens[t].proof>> : t \in {u \in DOMAIN tokens :
            tokens[u].user = user /\ \A q \in Slots : req[q].on # tokens[u].proof}}
    /\ UNCHANGED <<users, skippedSteps>>

-----------------------------------------------------------------------------
(***************************************************************************)
(* SkipOnboardingStepHandler and ResetPinHandler: both read the metadata   *)
(* and write all of it.                                                    *)
(***************************************************************************)

ReadToSkip(r, user, label) ==
    /\ Start(r, [op |-> "Skip", on |-> <<>>, user |-> user,
                 seen |-> skippedSteps[user], adds |-> {label}])
    /\ UNCHANGED accountVars

\* The challenge token names the user.
ReadToReset(r, user) ==
    /\ user \in granted \ {0}
    /\ Start(r, [op |-> "Reset", on |-> <<>>, user |-> user,
                 seen |-> skippedSteps[user], adds |-> {}])
    /\ UNCHANGED accountVars

\* Defective variant: the patch replaces the metadata.
ReplaceMetadata(r) ==
    /\ req[r].op \in {"Skip", "Reset"}
    /\ skippedSteps' = [skippedSteps EXCEPT ![req[r].user] = req[r].adds]
    /\ Continue(r, Idle)
    /\ UNCHANGED <<slot, codes, sent, granted, users, tokens, swept>>

WriteMetadata(r) ==
    /\ req[r].op \in {"Skip", "Reset"}
    /\ skippedSteps' = [skippedSteps EXCEPT ![req[r].user] = req[r].seen \cup req[r].adds]
    /\ Continue(r, Idle)
    /\ UNCHANGED <<slot, codes, sent, granted, users, tokens, swept>>

-----------------------------------------------------------------------------

AccountArrive(r) ==
    \/ Arrive(r) /\ UNCHANGED accountVars
    \/ ReadPhone(r)
    \/ \E user \in 1..users :
        \/ \E i \in DOMAIN codes["LOGIN"] : ReadToComplete(r, user, i)
        \/ LogoutAllDevices(r, user)
        \/ ReadToReset(r, user)
        \/ \E label \in Steps : ReadToSkip(r, user, label)
    \/ \E t \in DOMAIN tokens : ReadToRefresh(r, t) \/ ReadToLogout(r, t)

AccountProceed(r) ==
    \/ Proceed(r) /\ UNCHANGED accountVars
    \/ InsertUser(r) \/ LinkPhone(r)
    \/ MarkCompleted(r) \/ RevokeReplaced(r) \/ CreateSession(r)
    \/ RevokeToken(r) \/ WriteMetadata(r)

\* Nobody asks for anything any more.
Rest ==
    /\ begun = MaxRequests
    /\ \A r \in Slots : req[r] = Idle
    /\ UNCHANGED vars

Next ==
    \/ \E r \in Slots :
        \/ AccountArrive(r) \/ AccountProceed(r) \/ AbortDeadlocked(r)
        \/ Die(r) /\ UNCHANGED accountVars
    \/ Rest

Spec == AccountInit /\ [][Next]_vars

\* Node runs the continuation of every statement; PostgreSQL looks for deadlocks.
Fairness ==
    /\ \A r \in Slots : WF_vars(AccountProceed(r))
    /\ WF_vars(\E r \in Slots : AbortDeadlocked(r))

FairSpec == Spec /\ Fairness

-----------------------------------------------------------------------------

\* The phone names every user who registered with it, that is, the one there is,
\* unless two registrations were at work together: then the first account may be
\* left behind, with a session and no way to log in again.
OneAccountPerPhone ==
    <<"slot">> \notin crossed => users <= 1 /\ slot = users

\* A registration or a code of a login keeps one device logged in: of the tokens that
\* descend from it at most one is valid, however often it is refreshed, unless two
\* requests worked on it together.
OneSessionPerProof ==
    \A t, u \in DOMAIN tokens :
        /\ ~tokens[t].isRevoked /\ ~tokens[u].isRevoked
        /\ tokens[t].proof = tokens[u].proof
        /\ tokens[t].proof \notin crossed
        => t = u

\* A logout of all devices ends the sessions there are for good; only a refresh (or a
\* login) that was in flight at it may bring one back.
LoggedOutIsOut ==
    \A t \in DOMAIN tokens :
        ~tokens[t].isRevoked => <<tokens[t].user, tokens[t].proof>> \notin swept

\* A skipped step stays skipped.  Only a write of metadata that were read before the
\* step was entered takes it back.
SkipsStay ==
    [][\A user \in 1..users : \A label \in skippedSteps[user] \ skippedSteps'[user] :
        \E r \in Slots : /\ req[r].op \in {"Skip", "Reset"} /\ req[r].user = user
                         /\ label \notin req[r].seen
                         /\ req'[r] # req[r]]_vars

\* A registration that found the phone free ends with an account, this one's or
\* another's, unless it dies: of two that wait for each other, one goes on.
PhoneGetsAccount ==
    (\E r \in Slots : req[r].on = <<"slot">>) ~> slot # 0 \/ deaths > 0
=============================================================================
