------------------------------- MODULE Challenge -------------------------------
(***************************************************************************)
(* The one-time codes of one phone number in one app: a code is drawn,     *)
(* sent by message, kept as a challenge, and entered.  It registers a user,*)
(* resets a PIN or completes a login.                                      *)
(*                                                                         *)
(* A handler is a request in flight: between two of its statements any     *)
(* other may run.  That a code has expired (10 minutes) or is blocked (5   *)
(* wrong entries) is left to the environment: a request to enter it may    *)
(* come in time, or not at all.  A request that is refused leaves no       *)
(* trace, apart from the counts of failures, which are not followed.       *)
(***************************************************************************)
EXTENDS Naturals, Sequences, FiniteSets

CONSTANTS
    Slots,          \* requests the API can have in flight together
    MaxRequests,    \* bound on the requests of a behaviour
    MaxDeaths       \* bound on the requests that die half-way

ASSUME ChallengeAssumption == MaxRequests \in Nat /\ MaxDeaths \in Nat

VARIABLES
    slot,           \* the user that the phone's column for the app names, 0 for null
    codes,          \* the challenges of each purpose, in the order of createdAt
    sent,           \* the number of the last code sent, for each purpose
    granted,        \* the users that challenge tokens name, 0 for a token without one
    req,            \* the requests in flight
    crossed,        \* history: the things two requests were at together
    begun,          \* how many requests began so far
    deaths          \* how many requests died so far

challengeVars == <<slot, codes, sent, granted, req, crossed, begun, deaths>>

-----------------------------------------------------------------------------

OtpPurpose == {"REGISTRATION", "PIN_RESET", "LOGIN"}

\* The row of a challenge, as far as it is followed.
Code == [nr : Nat, isUsed : BOOLEAN]

Idle == [op |-> "Idle", on |-> <<>>]

\* What a request is at; its field on says what it must not share with another.
Sending == [op : {"Send"}, on : {<<"send", p>> : p \in OtpPurpose},
            purpose : OtpPurpose, user : Nat, nr : Nat,
            step : {"invalidate", "message", "insert"}]
Entering == [op : {"Verify"}, on : {<<>>},
             purpose : OtpPurpose, row : Nat, step : {"mark", "grant"}]

Init ==
    /\ slot = 0
    /\ codes = [p \in OtpPurpose |-> <<>>]
    /\ sent = [p \in OtpPurpose |-> 0]
    /\ granted = {}
    /\ req = [r \in Slots |-> Idle]
    /\ crossed = {}
    /\ begun = 0
    /\ deaths = 0

-----------------------------------------------------------------------------

Start(r, work) ==
    /\ req[r] = Idle
    /\ begun < MaxRequests
    /\ begun' = begun + 1
    /\ req' = [req EXCEPT ![r] = work]
    /\ crossed' = IF work.on # <<>> /\ \E q \in Slots : req[q].on = work.on
                  THEN crossed \cup {work.on} ELSE crossed
    /\ UNCHANGED <<slot, codes, sent, granted, deaths>>

\* The request goes on: what the step writes is left to its caller.
Continue(r, work) ==
    /\ req' = [req EXCEPT ![r] = work]
    /\ UNCHANGED <<crossed, begun, deaths>>

OpenRows(p) == {i \in DOMAIN codes[p] : ~codes[p][i].isUsed}

\* findLatestValid: the row i is the one it returns.
IsLatestValid(p, i) == i \in OpenRows(p) /\ \A j \in OpenRows(p) : j <= i

-----------------------------------------------------------------------------
(***************************************************************************)
(* SendOtpHandler and StartLoginHandler.                                   *)
(***************************************************************************)

SendWork(p, user) ==
    [op |-> "Send", on |-> <<"send", p>>, purpose |-> p, user |-> user, nr |-> 0,
     step |-> "invalidate"]

\* The cooldown of a minute may have passed, or Redis may be down.
AskForCode(r, p) ==
    /\ \/ p = "REGISTRATION" /\ slot = 0
       \/ p = "PIN_RESET" /\ slot # 0
    /\ Start(r, SendWork(p, 0))

\* The PIN is right and not blocked.
StartLogin(r) ==
    /\ slot # 0
    /\ Start(r, SendWork("LOGIN", slot))

\* Defective variant: what was sent before stays valid.
InvalidateNothing(r) ==
    /\ req[r].op = "Send"
    /\ req[r].step = "invalidate"
    /\ Continue(r, [req[r] EXCEPT !.step = "message"])
    /\ UNCHANGED <<slot, codes, sent, granted>>

InvalidatePrevious(r) ==
    /\ req[r].op = "Send"
    /\ req[r].step = "invalidate"
    /\ LET p == req[r].purpose
       IN  codes' = [codes EXCEPT ![p] =
                        [i \in DOMAIN codes[p] |-> [codes[p][i] EXCEPT !.isUsed = TRUE]]]
    /\ Continue(r, [req[r] EXCEPT !.step = "message"])
    /\ UNCHANGED <<slot, sent, granted>>

\* The code is drawn and leaves before its row is there.
SendMessage(r) ==
    /\ req[r].op = "Send"
    /\ req[r].step = "message"
    /\ LET p == req[r].purpose
       IN  /\ sent' = [sent EXCEPT ![p] = @ + 1]
           /\ Continue(r, [req[r] EXCEPT !.step = "insert", !.nr = sent[p] + 1])
    /\ UNCHANGED <<slot, codes, granted>>

\* Defective variant: the challenge token names the code, not the user.
InsertCodeNamed(r) ==
    /\ req[r].op = "Send"
    /\ req[r].step = "insert"
    /\ LET p == req[r].purpose
       IN  /\ codes' = [codes EXCEPT ![p] =
                            Append(@, [nr |-> req[r].nr, isUsed |-> FALSE])]
           /\ granted' = IF p = "LOGIN" THEN granted \cup {req[r].nr} ELSE granted
    /\ Continue(r, Idle)
    /\ UNCHANGED <<slot, sent>>

\* The answer to a login carries a challenge token.
InsertCode(r) ==
    /\ req[r].op = "Send"
    /\ req[r].step = "insert"
    /\ LET p == req[r].purpose
       IN  /\ codes' = [codes EXCEPT ![p] =
                            Append(@, [nr |-> req[r].nr, isUsed |-> FALSE])]
           /\ granted' = IF p = "LOGIN" THEN granted \cup {req[r].user} ELSE granted
    /\ Continue(r, Idle)
    /\ UNCHANGED <<slot, sent>>

(***************************************************************************)
(* VerifyOtpHandler.  The code entered is the one of the row it finds.     *)
(***************************************************************************)

ReadToVerify(r, p, i) ==
    /\ p # "LOGIN"
    /\ IsLatestValid(p, i)
    /\ Start(r, [op |-> "Verify", on |-> <<>>, purpose |-> p, row |-> i,
                 step |-> "mark"])

\* The update names the row only.
Used(p, i) == [codes EXCEPT ![p][i].isUsed = TRUE]

MarkVerified(r) ==
    /\ req[r].op = "Verify"
    /\ req[r].step = "mark"
    /\ codes' = Used(req[r].purpose, req[r].row)
    /\ Continue(r, [req[r] EXCEPT !.step = "grant"])
    /\ UNCHANGED <<slot, sent, granted>>

\* markPhoneVerified, or the user that the phone names now.
Grant(r) ==
    /\ req[r].op = "Verify"
    /\ req[r].step = "grant"
    /\ granted' = granted \cup {IF req[r].purpose = "REGISTRATION" THEN 0 ELSE slot}
    /\ Continue(r, Idle)
    /\ UNCHANGED <<slot, codes, sent>>

-----------------------------------------------------------------------------

Arrive(r) ==
    \/ \E p \in OtpPurpose : AskForCode(r, p)
    \/ StartLogin(r)
    \/ \E p \in OtpPurpose : \E i \in DOMAIN codes[p] : ReadToVerify(r, p, i)

Proceed(r) ==
    \/ InvalidatePrevious(r) \/ SendMessage(r) \/ InsertCode(r)
    \/ MarkVerified(r) \/ Grant(r)

\* A crash, or a statement that fails: what was to follow never runs.  A code whose
\* sending ended so is crossed, too.
Die(r) ==
    /\ req[r] # Idle
    /\ deaths < MaxDeaths
    /\ deaths' = deaths + 1
    /\ req' = [req EXCEPT ![r] = Idle]
    /\ crossed' = IF req[r].op = "Send" THEN crossed \cup {req[r].on} ELSE crossed
    /\ UNCHANGED <<slot, codes, sent, granted, begun>>

-----------------------------------------------------------------------------

\* The code of the last message is the only one that may be left to enter, once its
\* sending is over, unless two requests sent codes together or one died: then a code
\* that was received may have no row, or not the last one, and two may be open.
NewestCodeWorks ==
    \A p \in OtpPurpose :
        LET on == <<"send", p>>
            last == Len(codes[p])
        IN  on \notin crossed /\ (\A r \in Slots : req[r].on # on) /\ sent[p] > 0 =>
                /\ last > 0 /\ codes[p][last].nr = sent[p]
                /\ OpenRows(p) \subseteq {last}
=============================================================================
