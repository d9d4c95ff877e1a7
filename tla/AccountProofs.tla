----------------------------- MODULE AccountProofs -----------------------------
(***************************************************************************)
(* Proofs about Account: for any number of requests in flight, of requests *)
(* in all and of deaths, over any onboarding steps.                        *)
(***************************************************************************)
EXTENDS Account, TLAPS

Request == Sending \cup Entering \cup Registering \cup Completing \cup Refreshing
             \cup LoggingOut \cup Annotating \cup {Idle}

\* What TypeOK does not say: the user a login is for exists, so that the challenge
\* token its last statement grants names one; who sends a code is at its purpose.
SendsFor(work, last) ==
    work.op = "Send" => work.user \in 0..last /\ work.on = <<"send", work.purpose>>

Typed == TypeOK /\ \A r \in Slots : SendsFor(req[r], users)

-----------------------------------------------------------------------------
(***************************************************************************)
(* The types.                                                              *)
(***************************************************************************)

\* The kinds of request are told apart by their op.
LEMMA Kinds ==
    ASSUME TypeOK, NEW r \in Slots
    PROVE  /\ req[r] \in Request
           /\ req[r].op = "Send" => req[r] \in Sending
           /\ req[r].op = "Verify" => req[r] \in Entering
           /\ req[r].op = "Register" => req[r] \in Registering
           /\ req[r].op = "Complete" => req[r] \in Completing
           /\ req[r].op = "Refresh" => req[r] \in Refreshing
           /\ req[r].op = "Logout" => req[r] \in LoggingOut
           /\ req[r].op \in {"Skip", "Reset"} => req[r] \in Annotating
<1>1. req[r] \in Request
    BY DEF TypeOK, Request
<1> QED BY <1>1 DEF Request, Sending, Entering, Registering, Completing, Refreshing,
               LoggingOut, Annotating, Idle

\* A request that begins is typed when its work is.
LEMMA StartTyped ==
    ASSUME Typed, NEW r \in Slots, NEW work \in Request, Start(r, work),
           SendsFor(work, users),
           users' = users, skippedSteps' = skippedSteps,
           tokens' \in Seq(RefreshToken), swept' \subseteq Nat \X Proof
    PROVE  Typed'
<1>1. req' \in [Slots -> Request]
    BY DEF Start, Typed, TypeOK, Request
<1>2. begun' \in 0..MaxRequests
    BY ChallengeAssumption DEF Start, Typed, TypeOK
<1>3. TypeOK'
    BY <1>1, <1>2 DEF Start, Typed, TypeOK, Request
<1>4. \A q \in Slots : SendsFor(req'[q], users')
    BY DEF Start, Typed, TypeOK
<1> QED BY <1>3, <1>4 DEF Typed

\* So is a request that goes on, when what it writes is.
LEMMA ContinueTyped ==
    ASSUME Typed, NEW r \in Slots, NEW work \in Request, Continue(r, work),
           SendsFor(work, users),
           users' \in Nat, users <= users', slot' \in 0..users',
           codes' \in [OtpPurpose -> Seq(Code)], sent' \in [OtpPurpose -> Nat],
           granted' \subseteq 0..users', tokens' \in Seq(RefreshToken),
           skippedSteps' \in [1..users' -> SUBSET Steps], swept' = swept
    PROVE  Typed'
<1>1. req' \in [Slots -> Request]
    BY DEF Continue, Typed, TypeOK, Request
<1>2. TypeOK'
    BY <1>1 DEF Continue, Typed, TypeOK, Request
<1>3. 0..users \subseteq 0..users'
    BY DEF Typed, TypeOK
<1>4. \A q \in Slots : SendsFor(req'[q], users')
    BY <1>3 DEF Continue, Typed, TypeOK, SendsFor
<1> QED BY <1>2, <1>4 DEF Typed

\* And when it writes codes and challenge tokens only.
LEMMA KeepTyped ==
    ASSUME Typed, NEW r \in Slots, NEW work \in Request, Continue(r, work),
           SendsFor(work, users),
           slot' = slot, UNCHANGED accountVars,
           codes' \in [OtpPurpose -> Seq(Code)], sent' \in [OtpPurpose -> Nat],
           granted' \subseteq 0..users
    PROVE  Typed'
<1>1. /\ users' = users /\ tokens' = tokens
      /\ skippedSteps' = skippedSteps /\ swept' = swept
    BY DEF accountVars
<1>2. /\ users \in Nat /\ slot \in 0..users /\ tokens \in Seq(RefreshToken)
      /\ skippedSteps \in [1..users -> SUBSET Steps]
    BY DEF Typed, TypeOK
<1>3. users <= users
    BY <1>2
<1> QED BY <1>1, <1>2, <1>3, ContinueTyped

\* Codes that are used are codes.
LEMMA CodesTyped ==
    ASSUME NEW table \in [OtpPurpose -> Seq(Code)], NEW p \in OtpPurpose
    PROVE  /\ \A i \in Nat : [table EXCEPT ![p][i].isUsed = TRUE] \in [OtpPurpose -> Seq(Code)]
           /\ [table EXCEPT ![p] = [i \in DOMAIN table[p] |->
                                     [table[p][i] EXCEPT !.isUsed = TRUE]]]
                 \in [OtpPurpose -> Seq(Code)]
           /\ \A n \in Nat : [table EXCEPT ![p] = Append(@, [nr |-> n, isUsed |-> FALSE])]
                               \in [OtpPurpose -> Seq(Code)]
<1>1. PICK n \in Nat : table[p] \in [1..n -> Code]
    OBVIOUS
<1>2. ASSUME NEW i \in Nat
      PROVE [table[p] EXCEPT ![i].isUsed = TRUE] \in [1..n -> Code]
    BY <1>1 DEF Code
<1>3. [i \in DOMAIN table[p] |-> [table[p][i] EXCEPT !.isUsed = TRUE]] \in [1..n -> Code]
    BY <1>1 DEF Code
<1>4. \A f \in [1..n -> Code] : f \in Seq(Code)
    OBVIOUS
<1>5. ASSUME NEW m \in Nat PROVE Append(table[p], [nr |-> m, isUsed |-> FALSE]) \in Seq(Code)
  <2>1. [nr |-> m, isUsed |-> FALSE] \in Code
    BY DEF Code
  <2> QED BY <2>1
<1> QED BY <1>2, <1>3, <1>4, <1>5

\* A token that is revoked, and one that is created, are tokens.
LEMMA TokensTyped ==
    ASSUME NEW table \in Seq(RefreshToken)
    PROVE  /\ \A t \in Nat : [table EXCEPT ![t].isRevoked = TRUE] \in Seq(RefreshToken)
           /\ \A x \in RefreshToken : Append(table, x) \in Seq(RefreshToken)
<1>1. PICK n \in Nat : table \in [1..n -> RefreshToken]
    OBVIOUS
<1>2. ASSUME NEW t \in Nat PROVE [table EXCEPT ![t].isRevoked = TRUE] \in [1..n -> RefreshToken]
    BY <1>1 DEF RefreshToken
<1>3. \A f \in [1..n -> RefreshToken] : f \in Seq(RefreshToken)
    OBVIOUS
<1> QED BY <1>2, <1>3

\* The rows of codes, and of tokens, are numbered.
LEMMA RowNumbers ==
    ASSUME TypeOK
    PROVE  /\ \A p \in OtpPurpose : \A i \in DOMAIN codes[p] :
                i \in Nat /\ codes[p][i] \in Code
           /\ \A t \in DOMAIN tokens : t \in Nat /\ tokens[t] \in RefreshToken
<1>1. ASSUME NEW p \in OtpPurpose
      PROVE  \A i \in DOMAIN codes[p] : i \in Nat /\ codes[p][i] \in Code
  <2>1. codes[p] \in Seq(Code)
    BY DEF TypeOK
  <2> QED BY <2>1
<1>2. \A t \in DOMAIN tokens : t \in Nat /\ tokens[t] \in RefreshToken
    BY DEF TypeOK
<1> QED BY <1>1, <1>2

\* The steps of Challenge keep the types.
LEMMA ChallengeTyped ==
    ASSUME Typed, NEW r \in Slots, Arrive(r) \/ Proceed(r), UNCHANGED accountVars
    PROVE  Typed'
<1>. USE DEF accountVars
<1>0. /\ codes \in [OtpPurpose -> Seq(Code)] /\ sent \in [OtpPurpose -> Nat]
      /\ granted \subseteq 0..users /\ Idle \in Request /\ SendsFor(Idle, users)
    BY DEF Typed, TypeOK, Request, Idle, SendsFor
<1>1. ASSUME NEW p \in OtpPurpose, AskForCode(r, p) PROVE Typed'
  <2>1. SendWork(p, 0) \in Request /\ SendsFor(SendWork(p, 0), users)
    BY DEF SendsFor, SendWork, Request, Sending, Typed, TypeOK
  <2> QED BY <1>1, <2>1, StartTyped DEF AskForCode, Typed, TypeOK
<1>2. CASE StartLogin(r)
  <2>1. SendWork("LOGIN", slot) \in Request /\ SendsFor(SendWork("LOGIN", slot), users)
    BY DEF SendsFor, SendWork, Request, Sending, Typed, TypeOK, OtpPurpose
  <2> QED BY <1>2, <2>1, StartTyped DEF StartLogin, Typed, TypeOK
<1>3. ASSUME NEW p \in OtpPurpose, NEW i \in DOMAIN codes[p], ReadToVerify(r, p, i)
      PROVE Typed'
  <2> DEFINE work == [op |-> "Verify", on |-> <<>>, purpose |-> p, row |-> i,
                      step |-> "mark"]
  <2>1. work \in Request /\ SendsFor(work, users)
    BY RowNumbers DEF Request, Entering, Typed, SendsFor
  <2> QED BY <1>3, <2>1, StartTyped DEF ReadToVerify, Typed, TypeOK
<1>4. CASE InvalidatePrevious(r)
  <2>1. req[r] \in Sending
    BY <1>4, Kinds DEF Typed, InvalidatePrevious
  <2>2. [req[r] EXCEPT !.step = "message"] \in Request
    BY <2>1 DEF Request, Sending
  <2>3. req[r].purpose \in OtpPurpose
    BY <2>1 DEF Sending
  <2>4. codes' \in [OtpPurpose -> Seq(Code)]
    BY <1>4, <2>3, CodesTyped DEF InvalidatePrevious, Typed, TypeOK
  <2>5. SendsFor([req[r] EXCEPT !.step = "message"], users)
    BY <1>4, <2>1 DEF Typed, InvalidatePrevious, Sending, SendsFor
  <2> QED BY <1>0, <1>4, <2>2, <2>4, <2>5, KeepTyped DEF InvalidatePrevious
<1>5. CASE SendMessage(r)
  <2>1. req[r] \in Sending
    BY <1>5, Kinds DEF Typed, SendMessage
  <2>2. req[r].purpose \in OtpPurpose
    BY <2>1 DEF Sending
  <2>3. sent[req[r].purpose] \in Nat
    BY <2>2 DEF Typed, TypeOK
  <2> DEFINE work == [req[r] EXCEPT !.step = "insert", !.nr = sent[req[r].purpose] + 1]
  <2>4. work \in Request /\ SendsFor(work, users)
    <3> DEFINE nr == sent[req[r].purpose] + 1
    <3>1. nr \in Nat
      BY <2>3
    <3> HIDE DEF nr
    <3>2. [req[r] EXCEPT !.step = "insert", !.nr = nr] \in Sending
      BY <2>1, <3>1 DEF Sending
    <3>3. SendsFor([req[r] EXCEPT !.step = "insert", !.nr = nr], users)
      BY <1>5, <2>1 DEF Sending, SendsFor, Typed, SendMessage
    <3> QED BY <3>2, <3>3 DEF Request, nr
  <2>5. sent' \in [OtpPurpose -> Nat]
    BY <1>5, <2>2, <2>3 DEF SendMessage, Typed, TypeOK
  <2>6. Continue(r, work)
    BY <1>5 DEF SendMessage
  <2> QED BY <1>0, <1>5, <2>4, <2>5, <2>6, KeepTyped DEF SendMessage
<1>6. CASE InsertCode(r)
  <2>1. req[r] \in Sending /\ req[r].user \in 0..users
    BY <1>6, Kinds DEF Typed, InsertCode, SendsFor
  <2>2. req[r].purpose \in OtpPurpose /\ req[r].nr \in Nat
    BY <2>1 DEF Sending
  <2>3. codes' \in [OtpPurpose -> Seq(Code)]
    BY <1>6, <2>2, CodesTyped DEF InsertCode, Typed, TypeOK
  <2>4. granted' \subseteq 0..users
    BY <1>6, <2>1 DEF InsertCode, Typed, TypeOK
  <2> QED BY <1>0, <1>6, <2>3, <2>4, KeepTyped DEF InsertCode
<1>7. CASE MarkVerified(r)
  <2>1. req[r] \in Entering
    BY <1>7, Kinds DEF Typed, MarkVerified
  <2>2. [req[r] EXCEPT !.step = "grant"] \in Request
        /\ SendsFor([req[r] EXCEPT !.step = "grant"], users)
    BY <2>1 DEF Request, Entering, SendsFor
  <2>3. req[r].purpose \in OtpPurpose /\ req[r].row \in Nat
    BY <2>1 DEF Entering
  <2>4. codes' \in [OtpPurpose -> Seq(Code)]
    BY <1>7, <2>3, CodesTyped DEF MarkVerified, Used, Typed, TypeOK
  <2> QED BY <1>0, <1>7, <2>2, <2>4, KeepTyped DEF MarkVerified
<1>8. CASE Grant(r)
  <2>1. granted' \subseteq 0..users
    BY <1>8 DEF Grant, Typed, TypeOK
  <2> QED BY <1>0, <1>8, <2>1, KeepTyped DEF Grant
<1> QED BY <1>1, <1>2, <1>3, <1>4, <1>5, <1>6, <1>7, <1>8 DEF Arrive, Proceed

\* So do the arrivals of Account.
LEMMA ArrivalTyped ==
    ASSUME Typed, NEW r \in Slots, AccountArrive(r)
    PROVE  Typed'
<1>. USE DEF accountVars
<1>1. CASE Arrive(r) /\ UNCHANGED accountVars
    BY <1>1, ChallengeTyped
<1>2. CASE ReadPhone(r)
  <2> DEFINE work == [op |-> "Register", on |-> <<"slot">>, user |-> 0, step |-> "insert"]
  <2>1. work \in Request /\ SendsFor(work, users)
    BY DEF Request, Registering, SendsFor
  <2> QED BY <1>2, <2>1, StartTyped DEF ReadPhone, Typed, TypeOK
<1>3. ASSUME NEW user \in 1..users, NEW i \in DOMAIN codes["LOGIN"],
             ReadToComplete(r, user, i)
      PROVE Typed'
  <2>1. i \in Nat /\ codes["LOGIN"][i].nr \in Nat
    BY RowNumbers DEF Typed, OtpPurpose, Code
  <2> DEFINE work == [op |-> "Complete", on |-> <<"code", codes["LOGIN"][i].nr>>,
                      user |-> user, row |-> i, step |-> "mark"]
  <2>2. work \in Request /\ SendsFor(work, users)
    BY <2>1 DEF Request, Completing, Proof, Typed, TypeOK, SendsFor
  <2> QED BY <1>3, <2>2, StartTyped DEF ReadToComplete, Typed, TypeOK
<1>4. ASSUME NEW user \in 1..users, LogoutAllDevices(r, user) PROVE Typed'
  <2>1. Idle \in Request /\ SendsFor(Idle, users)
    BY DEF Request, Idle, SendsFor
  <2>2. tokens' \in Seq(RefreshToken)
    <3>1. PICK n \in Nat : tokens \in [1..n -> RefreshToken]
      BY DEF Typed, TypeOK
    <3>2. \A t \in 1..n : [tokens[t] EXCEPT !.isRevoked = TRUE] \in RefreshToken
      BY <3>1 DEF RefreshToken
    <3>3. tokens' \in [1..n -> RefreshToken]
      BY <1>4, <3>1, <3>2 DEF LogoutAllDevices
    <3> QED BY <3>3
  <2>3. swept' \subseteq Nat \X Proof
    BY <1>4, RowNumbers DEF LogoutAllDevices, Typed, TypeOK, RefreshToken
  <2> QED BY <1>4, <2>1, <2>2, <2>3, StartTyped DEF LogoutAllDevices, Typed, TypeOK
<1>5. ASSUME NEW user \in 1..users, ReadToReset(r, user) PROVE Typed'
  <2> DEFINE work == [op |-> "Reset", on |-> <<>>, user |-> user,
                      seen |-> skippedSteps[user], adds |-> {}]
  <2>1. work \in Request /\ SendsFor(work, users)
    BY DEF Request, Annotating, Typed, TypeOK, SendsFor
  <2> QED BY <1>5, <2>1, StartTyped DEF ReadToReset, Typed, TypeOK
<1>6. ASSUME NEW user \in 1..users, NEW label \in Steps, ReadToSkip(r, user, label)
      PROVE Typed'
  <2> DEFINE work == [op |-> "Skip", on |-> <<>>, user |-> user,
                      seen |-> skippedSteps[user], adds |-> {label}]
  <2>1. work \in Request /\ SendsFor(work, users)
    BY DEF Request, Annotating, Typed, TypeOK, SendsFor
  <2> QED BY <1>6, <2>1, StartTyped DEF ReadToSkip, Typed, TypeOK
<1>7. ASSUME NEW t \in DOMAIN tokens, ReadToRefresh(r, t) \/ ReadToLogout(r, t)
      PROVE Typed'
  <2>1. t \in Nat /\ tokens[t] \in RefreshToken
    BY RowNumbers DEF Typed
  <2> DEFINE refresh == [op |-> "Refresh", on |-> tokens[t].proof, user |-> tokens[t].user,
                         token |-> t, step |-> "revoke"]
             logout == [op |-> "Logout", on |-> <<>>, token |-> t]
  <2>2. refresh \in Request /\ logout \in Request
    BY <2>1 DEF Request, Refreshing, LoggingOut, RefreshToken
  <2>3. SendsFor(refresh, users) /\ SendsFor(logout, users)
    BY DEF SendsFor
  <2> QED BY <1>7, <2>2, <2>3, StartTyped DEF ReadToRefresh, ReadToLogout, Typed, TypeOK
<1> QED BY <1>1, <1>2, <1>3, <1>4, <1>5, <1>6, <1>7 DEF AccountArrive

\* And its other steps.
LEMMA AccountStepTyped ==
    ASSUME Typed, NEW r \in Slots, AccountProceed(r) \/ AbortDeadlocked(r)
    PROVE  Typed'
<1>. USE DEF accountVars
<1>0. /\ users \in Nat /\ slot \in 0..users
      /\ codes \in [OtpPurpose -> Seq(Code)] /\ sent \in [OtpPurpose -> Nat]
      /\ granted \subseteq 0..users /\ tokens \in Seq(RefreshToken)
      /\ skippedSteps \in [1..users -> SUBSET Steps] /\ swept \subseteq Nat \X Proof
      /\ users <= users /\ Idle \in Request /\ SendsFor(Idle, users)
    BY DEF Typed, TypeOK, Request, Idle, SendsFor
<1>1. CASE Proceed(r) /\ UNCHANGED accountVars
    BY <1>1, ChallengeTyped
<1>2. CASE InsertUser(r)
  <2>1. req[r] \in Registering
    BY <1>2, Kinds DEF Typed, InsertUser
  <2>2. [req[r] EXCEPT !.step = "link"] \in Request
        /\ SendsFor([req[r] EXCEPT !.step = "link"], users)
    BY <1>2, <2>1 DEF Request, Registering, InsertUser, SendsFor
  <2> QED BY <1>0, <1>2, <2>2, KeepTyped DEF InsertUser
<1>3. CASE LinkPhone(r)
  <2>1. req[r] \in Registering
    BY <1>3, Kinds DEF Typed, LinkPhone, SharesPhone
  <2> DEFINE work == [req[r] EXCEPT !.step = "session", !.user = users + 1,
                                    !.on = <<"registration", users + 1>>]
  <2>2. users + 1 \in Nat /\ users <= users + 1 /\ users + 1 \in 0..(users + 1)
        /\ 0..users \subseteq 0..(users + 1)
    BY <1>0
  <2>3. <<"registration", users + 1>> \in Proof
    BY <2>2 DEF Proof
  <2>4. work \in Registering
    BY <2>1, <2>2, <2>3 DEF Registering
  <2>5. work \in Request /\ SendsFor(work, users)
    BY <2>4 DEF Request, Registering, SendsFor
  <2>6. skippedSteps' \in [1..users' -> SUBSET Steps]
    <3>1. skippedSteps \in Seq(SUBSET Steps) /\ Len(skippedSteps) = users
      BY <1>0
    <3>2. /\ Append(skippedSteps, {}) \in Seq(SUBSET Steps)
          /\ Len(Append(skippedSteps, {})) = users + 1
      BY <3>1
    <3>3. \A s \in Seq(SUBSET Steps) : s \in [1..Len(s) -> SUBSET Steps]
      OBVIOUS
    <3>4. users' = users + 1 /\ skippedSteps' = Append(skippedSteps, {})
      BY <1>3 DEF LinkPhone
    <3> QED BY <3>2, <3>3, <3>4
  <2>7. /\ Continue(r, work) /\ users' \in Nat /\ users <= users' /\ slot' \in 0..users'
        /\ codes' = codes /\ sent' = sent /\ granted' \subseteq 0..users'
        /\ tokens' = tokens /\ swept' = swept
    BY <1>0, <1>3, <2>2 DEF LinkPhone
  <2> HIDE DEF work
  <2> QED BY <1>0, <2>5, <2>6, <2>7, ContinueTyped
<1>4. CASE MarkCompleted(r)
  <2>1. req[r] \in Completing
    BY <1>4, Kinds DEF Typed, MarkCompleted
  <2>2. [req[r] EXCEPT !.step = "session"] \in Request
        /\ SendsFor([req[r] EXCEPT !.step = "session"], users)
    BY <2>1 DEF Request, Completing, SendsFor
  <2>3. codes' \in [OtpPurpose -> Seq(Code)]
    BY <1>0, <1>4, <2>1, CodesTyped DEF MarkCompleted, Used, OtpPurpose, Completing
  <2> QED BY <1>0, <1>4, <2>2, <2>3, KeepTyped DEF MarkCompleted
<1>5. CASE RevokeReplaced(r)
  <2>1. req[r] \in Refreshing
    BY <1>5, Kinds DEF Typed, RevokeReplaced
  <2>2. [req[r] EXCEPT !.step = "session"] \in Request
        /\ SendsFor([req[r] EXCEPT !.step = "session"], users)
    BY <2>1 DEF Request, Refreshing, SendsFor
  <2>3. tokens' \in Seq(RefreshToken)
    BY <1>0, <1>5, <2>1, TokensTyped DEF RevokeReplaced, Refreshing
  <2> QED BY <1>0, <1>5, <2>2, <2>3, ContinueTyped DEF RevokeReplaced
<1>6. CASE CreateSession(r)
  <2>1. req[r].user \in Nat /\ req[r].on \in Proof
    <3>1. req[r] \in Registering \cup Completing \cup Refreshing
      BY <1>6, Kinds DEF Typed, CreateSession
    <3> QED BY <1>6, <3>1 DEF CreateSession, Registering, Completing, Refreshing
  <2>2. [user |-> req[r].user, proof |-> req[r].on, isRevoked |-> FALSE] \in RefreshToken
    BY <2>1 DEF RefreshToken
  <2>3. tokens' \in Seq(RefreshToken)
    BY <1>0, <1>6, <2>2, TokensTyped DEF CreateSession
  <2> QED BY <1>0, <1>6, <2>3, ContinueTyped DEF CreateSession
<1>7. CASE RevokeToken(r)
  <2>1. req[r].token \in Nat
    BY <1>7, Kinds DEF Typed, RevokeToken, LoggingOut
  <2>2. tokens' \in Seq(RefreshToken)
    BY <1>0, <1>7, <2>1, TokensTyped DEF RevokeToken
  <2> QED BY <1>0, <1>7, <2>2, ContinueTyped DEF RevokeToken
<1>8. CASE WriteMetadata(r)
  <2>1. req[r].seen \cup req[r].adds \in SUBSET Steps
    BY <1>8, Kinds DEF Typed, WriteMetadata, Annotating
  <2>2. skippedSteps' \in [1..users -> SUBSET Steps]
    BY <1>0, <1>8, <2>1 DEF WriteMetadata
  <2> QED BY <1>0, <1>8, <2>2, ContinueTyped DEF WriteMetadata
<1>9. CASE AbortDeadlocked(r)
    BY <1>0, <1>9, KeepTyped DEF AbortDeadlocked
<1> QED BY <1>1, <1>2, <1>3, <1>4, <1>5, <1>6, <1>7, <1>8, <1>9 DEF AccountProceed

\* Nothing is there and nothing in flight.
LEMMA InitTyped == AccountInit => Typed
<1> SUFFICES ASSUME AccountInit PROVE Typed
    OBVIOUS
<1>1. <<>> \in Seq(Code) /\ <<>> \in Seq(RefreshToken) /\ <<>> \in [1..0 -> SUBSET Steps]
    OBVIOUS
<1>2. TypeOK
    BY <1>1, ChallengeAssumption DEF AccountInit, Init, TypeOK
<1> QED BY <1>2 DEF AccountInit, Init, Typed, Idle, SendsFor

LEMMA NextTyped == Typed /\ [Next]_vars => Typed'
<1> SUFFICES ASSUME Typed, [Next]_vars PROVE Typed'
    OBVIOUS
<1>1. ASSUME NEW r \in Slots, Die(r) /\ UNCHANGED accountVars PROVE Typed'
  <2>1. req' \in [Slots -> Request]
    BY <1>1 DEF Die, Typed, TypeOK, Request
  <2>2. deaths' \in 0..MaxDeaths
    BY <1>1, ChallengeAssumption DEF Die, Typed, TypeOK
  <2>3. TypeOK'
    BY <1>1, <2>1, <2>2 DEF Die, Typed, TypeOK, Request, accountVars
  <2> QED BY <1>1, <2>3 DEF Die, Typed, TypeOK, accountVars, Idle, SendsFor
<1>2. CASE UNCHANGED vars
    BY <1>2 DEF vars, challengeVars, accountVars, Typed, TypeOK
<1> QED BY <1>1, <1>2, ArrivalTyped, AccountStepTyped DEF Next, Rest

\* Whatever interleaves and whatever dies: tokens name users that exist, and so do the
\* phone and the challenge tokens.
THEOREM TypeCorrect == Spec => []TypeOK
BY InitTyped, NextTyped, PTL DEF Spec, Typed

-----------------------------------------------------------------------------
(***************************************************************************)
(* What requests are at, and who is at it alone.                           *)
(***************************************************************************)

\* Two requests that are at the same thing have crossed.
Alone ==
    \A q, r \in Slots :
        q # r /\ req[q].on = req[r].on /\ req[r].on # <<>> => req[r].on \in crossed

\* The things a request can be at are told apart.
LEMMA Things ==
    /\ \A n, m \in Nat : /\ <<"code", n>> = <<"code", m>> => n = m
                         /\ <<"registration", n>> = <<"registration", m>> => n = m
                         /\ <<"registration", n>> # <<"code", m>>
    /\ \A n \in Nat : <<"code", n>> \in Proof /\ <<"registration", n>> \in Proof
    /\ \A p \in Proof : p # <<>> /\ p # <<"slot">> /\ \A x \in OtpPurpose : p # <<"send", x>>
    /\ \A x \in OtpPurpose : <<"send", x>> # <<>> /\ <<"send", x>> # <<"slot">>
    /\ \A x, y \in OtpPurpose : <<"send", x>> = <<"send", y>> => x = y
    /\ <<"slot">> # <<>>
<1>1. \A n, m \in Nat : /\ <<"code", n>> = <<"code", m>> => n = m
                        /\ <<"registration", n>> = <<"registration", m>> => n = m
                        /\ <<"registration", n>> # <<"code", m>>
    OBVIOUS
<1>2. \A n \in Nat : <<"code", n>> \in Proof /\ <<"registration", n>> \in Proof
    BY DEF Proof
<1>3. \A p \in Proof : p # <<>> /\ p # <<"slot">> /\ p[1] \in {"registration", "code"}
    BY DEF Proof
<1>4. \A x \in OtpPurpose : <<"send", x>> \notin Proof
    BY DEF Proof
<1>5. \A x \in OtpPurpose : <<"send", x>> # <<>> /\ <<"send", x>> # <<"slot">>
    OBVIOUS
<1>6. \A x, y \in OtpPurpose : <<"send", x>> = <<"send", y>> => x = y
    OBVIOUS
<1>7. <<"slot">> # <<>>
    OBVIOUS
<1> QED BY <1>1, <1>2, <1>3, <1>4, <1>5, <1>6, <1>7

\* What a request is at follows from its op and its step.
LEMMA AtWhat ==
    ASSUME Typed, NEW r \in Slots
    PROVE  /\ req[r].op = "Send" =>
                req[r].purpose \in OtpPurpose /\ req[r].on = <<"send", req[r].purpose>>
           /\ \A p \in OtpPurpose : req[r].on = <<"send", p>> =>
                req[r].op = "Send" /\ req[r].purpose = p
           /\ req[r].on = <<"slot">> <=>
                req[r].op = "Register" /\ req[r].step \in {"insert", "link"}
           /\ req[r].on \in Proof <=>
                \/ req[r].op \in {"Complete", "Refresh"}
                \/ req[r].op = "Register" /\ req[r].step = "session"
           /\ req[r].on \in Proof => req[r].user \in Nat
           /\ req[r].on # <<>> => req[r].op \in {"Send", "Register", "Complete", "Refresh"}
<1>1. req[r].op = "Send" =>
        req[r].purpose \in OtpPurpose /\ req[r].on = <<"send", req[r].purpose>>
    BY Kinds DEF Sending, Typed, SendsFor
<1>2. req[r].op = "Register" =>
        \/ req[r].on = <<"slot">> /\ req[r].step \in {"insert", "link"}
        \/ req[r].on \in Proof /\ req[r].step = "session" /\ req[r].user \in Nat
    BY Kinds DEF Registering, Typed
<1>3. req[r].op \in {"Complete", "Refresh"} => req[r].on \in Proof /\ req[r].user \in Nat
    BY Kinds DEF Completing, Refreshing, Typed
<1>4. req[r].op \notin {"Send", "Register", "Complete", "Refresh"} => req[r].on = <<>>
    BY Kinds DEF Request, Sending, Registering, Completing, Refreshing, Entering,
                 LoggingOut, Annotating, Idle, Typed
<1> QED BY <1>1, <1>2, <1>3, <1>4, Things

\* The same, of who is at the phone or sends a code after a step.
LEMMA AtWhatNext ==
    ASSUME Typed', NEW r \in Slots
    PROVE  /\ req'[r].on = <<"slot">> =>
                req'[r].op = "Register" /\ req'[r].step \in {"insert", "link"}
           /\ \A p \in OtpPurpose : req'[r].on = <<"send", p>> => req'[r].op = "Send"
<1>1. req'[r] \in Request
    BY DEF Typed, TypeOK, Request
<1> DEFINE NotSent == \A p \in OtpPurpose : req'[r].on # <<"send", p>>
<1>2. req'[r] \in Sending => req'[r].on # <<"slot">> /\ req'[r].op = "Send"
    BY Things DEF Sending
<1>3. req'[r] \in Completing \cup Refreshing => req'[r].on # <<"slot">> /\ NotSent
    BY Things DEF Completing, Refreshing
<1>4. req'[r] \in Entering \cup LoggingOut \cup Annotating \cup {Idle} =>
        req'[r].on # <<"slot">> /\ NotSent
  <2>1. req'[r] \in Entering \cup LoggingOut \cup Annotating \cup {Idle} =>
          req'[r].on = <<>>
    BY DEF Entering, LoggingOut, Annotating, Idle
  <2> QED BY <2>1, Things
<1>5. req'[r] \in Registering =>
        /\ NotSent
        /\ req'[r].on = <<"slot">> =>
             req'[r].op = "Register" /\ req'[r].step \in {"insert", "link"}
    BY Things DEF Registering
<1> QED BY <1>1, <1>2, <1>3, <1>4, <1>5 DEF Request

\* A request that goes on, or ends, keeps its op or idles.
LEMMA ProceedShape ==
    ASSUME Typed, NEW r \in Slots,
           AccountProceed(r) \/ AbortDeadlocked(r) \/ (Die(r) /\ UNCHANGED accountVars)
    PROVE  /\ \A q \in Slots : q # r => req'[q] = req[q]
           /\ req'[r] = Idle \/ req'[r].op = req[r].op
<1>0. req \in [Slots -> Request]
    BY DEF Typed, TypeOK, Request
<1>1. \A q \in Slots : q # r => req'[q] = req[q]
    BY <1>0 DEF AccountProceed, Proceed, InvalidatePrevious, SendMessage, InsertCode,
                MarkVerified, Grant, InsertUser, LinkPhone, MarkCompleted, RevokeReplaced,
                CreateSession, RevokeToken, WriteMetadata, AbortDeadlocked, Die, Continue
<1>2. req'[r] = Idle \/ req'[r].op = req[r].op
  <2>1. CASE \/ InsertCode(r) \/ Grant(r) \/ CreateSession(r) \/ RevokeToken(r)
             \/ WriteMetadata(r) \/ AbortDeadlocked(r) \/ Die(r)
    <3>1. req' = [req EXCEPT ![r] = Idle]
      BY <2>1 DEF InsertCode, Grant, CreateSession, RevokeToken, WriteMetadata,
                  AbortDeadlocked, Die, Continue
    <3> QED BY <1>0, <3>1
  <2>2. CASE \/ InvalidatePrevious(r) \/ SendMessage(r) \/ MarkVerified(r)
             \/ InsertUser(r) \/ MarkCompleted(r) \/ RevokeReplaced(r)
    <3>1. req[r] \in Sending \cup Entering \cup Registering \cup Completing \cup Refreshing
      BY <2>2, Kinds DEF Typed, InvalidatePrevious, SendMessage, MarkVerified,
         InsertUser, MarkCompleted, RevokeReplaced
    <3> QED BY <1>0, <2>2, <3>1 DEF Sending, Entering, Registering, Completing, Refreshing,
               InvalidatePrevious, SendMessage, MarkVerified, InsertUser,
               MarkCompleted, RevokeReplaced, Continue
  <2>3. CASE LinkPhone(r)
    <3>1. req[r] \in Registering
      BY <2>3, Kinds DEF Typed, LinkPhone, SharesPhone
    <3> QED BY <1>0, <2>3, <3>1 DEF Registering, LinkPhone, Continue
  <2> QED BY <2>1, <2>2, <2>3 DEF AccountProceed, Proceed
<1> QED BY <1>1, <1>2

\* A request that begins leaves the codes alone, and sends one or does not.
LEMMA ArrivalShape ==
    ASSUME Typed, NEW r \in Slots, AccountArrive(r)
    PROVE  /\ \A q \in Slots : q # r => req'[q] = req[q]
           /\ codes' = codes /\ sent' = sent /\ slot' = slot /\ users' = users
           /\ req[r] = Idle
           /\ req'[r].op = "Send" => req'[r].step = "invalidate"
           /\ req'[r].op = "Register" => ReadPhone(r)
<1>0. req \in [Slots -> Request]
    BY DEF Typed, TypeOK, Request
<1>1. CASE Arrive(r) /\ UNCHANGED accountVars
    BY <1>0, <1>1 DEF Arrive, AskForCode, StartLogin, SendWork, ReadToVerify, Start,
                      accountVars
<1>2. CASE ~(Arrive(r) /\ UNCHANGED accountVars)
    BY <1>0, <1>2 DEF AccountArrive, ReadPhone, ReadToComplete, LogoutAllDevices,
                ReadToReset, ReadToSkip, ReadToRefresh, ReadToLogout, Start, Idle,
                accountVars
<1> QED BY <1>1, <1>2

-----------------------------------------------------------------------------
(***************************************************************************)
(* What never comes back: a user, a crossing, a code that was used.        *)
(***************************************************************************)

RowsKept ==
    \A p \in OtpPurpose : \A i \in DOMAIN codes[p] :
        /\ i \in DOMAIN codes'[p]
        /\ codes'[p][i].nr = codes[p][i].nr
        /\ codes[p][i].isUsed => codes'[p][i].isUsed

Frame == users' \in Nat /\ users <= users' /\ crossed \subseteq crossed' /\ RowsKept

\* The rows whose code a statement uses keep their numbers.
LEMMA UsingKeepsRows ==
    ASSUME Typed, NEW p \in OtpPurpose, NEW i \in Nat, codes' = Used(p, i)
    PROVE  RowsKept /\ \A x \in OtpPurpose : DOMAIN codes'[x] = DOMAIN codes[x]
<1>1. codes \in [OtpPurpose -> Seq(Code)]
    BY DEF Typed, TypeOK
<1>2. ASSUME NEW x \in OtpPurpose
      PROVE  DOMAIN codes'[x] = DOMAIN codes[x]
    BY <1>1, <1>2 DEF Used
<1>3. ASSUME NEW x \in OtpPurpose, NEW j \in DOMAIN codes[x]
      PROVE  /\ codes'[x][j].nr = codes[x][j].nr
             /\ codes[x][j].isUsed => codes'[x][j].isUsed
  <2>1. codes[x][j] \in Code
    BY RowNumbers DEF Typed
  <2>2. codes'[x][j] = codes[x][j] \/ codes'[x][j] = [codes[x][j] EXCEPT !.isUsed = TRUE]
    BY <1>1 DEF Used
  <2> QED BY <2>1, <2>2 DEF Code
<1> QED BY <1>2, <1>3 DEF RowsKept

\* So do those that a new code invalidates.
LEMMA InvalidatingKeepsRows ==
    ASSUME Typed, NEW r \in Slots, InvalidatePrevious(r)
    PROVE  RowsKept /\ \A x \in OtpPurpose : DOMAIN codes'[x] = DOMAIN codes[x]
<1>1. codes \in [OtpPurpose -> Seq(Code)]
    BY DEF Typed, TypeOK
<1>2. req[r].purpose \in OtpPurpose
    BY AtWhat DEF InvalidatePrevious
<1>3. ASSUME NEW x \in OtpPurpose
      PROVE  DOMAIN codes'[x] = DOMAIN codes[x]
    BY <1>1, <1>2 DEF InvalidatePrevious
<1>4. ASSUME NEW x \in OtpPurpose, NEW j \in DOMAIN codes[x]
      PROVE  /\ codes'[x][j].nr = codes[x][j].nr
             /\ codes[x][j].isUsed => codes'[x][j].isUsed
  <2>1. codes[x][j] \in Code
    BY RowNumbers DEF Typed
  <2>2. codes'[x][j] = codes[x][j] \/ codes'[x][j] = [codes[x][j] EXCEPT !.isUsed = TRUE]
    BY <1>1, <1>2 DEF InvalidatePrevious
  <2> QED BY <2>1, <2>2 DEF Code
<1> QED BY <1>3, <1>4 DEF RowsKept

\* A code that is inserted follows those there are.
LEMMA InsertingKeepsRows ==
    ASSUME Typed, NEW r \in Slots, InsertCode(r)
    PROVE  /\ RowsKept
           /\ \A x \in OtpPurpose : x # req[r].purpose => codes'[x] = codes[x]
           /\ LET p == req[r].purpose
                  last == Len(codes[p]) + 1
              IN  /\ p \in OtpPurpose
                  /\ last \in Nat \ {0} /\ Len(codes'[p]) = last
                  /\ DOMAIN codes[p] = 1..(last - 1) /\ DOMAIN codes'[p] = 1..last
                  /\ \A i \in DOMAIN codes[p] : codes'[p][i] = codes[p][i]
                  /\ codes'[p][last] = [nr |-> req[r].nr, isUsed |-> FALSE]
<1> DEFINE p == req[r].purpose
           code == [nr |-> req[r].nr, isUsed |-> FALSE]
           last == Len(codes[p]) + 1
<1>1. p \in OtpPurpose /\ req[r].nr \in Nat
    BY Kinds DEF InsertCode, Sending, Typed
<1>2. codes[p] \in Seq(Code) /\ code \in Code
    BY <1>1 DEF Typed, TypeOK, Code
<1>3. codes' = [codes EXCEPT ![p] = Append(codes[p], code)]
    BY DEF InsertCode
<1>4. /\ codes'[p] = Append(codes[p], code)
      /\ \A x \in OtpPurpose : x # p => codes'[x] = codes[x]
    BY <1>1, <1>3 DEF Typed, TypeOK
<1> HIDE DEF p, code
<1>5. /\ last \in Nat \ {0} /\ Len(Append(codes[p], code)) = last
      /\ DOMAIN codes[p] = 1..(last - 1) /\ DOMAIN Append(codes[p], code) = 1..last
      /\ \A i \in DOMAIN codes[p] : Append(codes[p], code)[i] = codes[p][i]
      /\ Append(codes[p], code)[last] = code
    BY <1>2
<1>6. RowsKept
    BY <1>4, <1>5 DEF RowsKept
<1> QED BY <1>1, <1>4, <1>5, <1>6 DEF p, code

LEMMA NextFrame == Typed /\ [Next]_vars => Frame
<1> SUFFICES ASSUME Typed, [Next]_vars PROVE Frame
    OBVIOUS
<1>0. users \in Nat /\ users + 1 \in Nat /\ users <= users + 1 /\ users <= users
    BY DEF Typed, TypeOK
<1>1. ASSUME codes' = codes PROVE RowsKept
    BY <1>1 DEF RowsKept
<1>2. ASSUME NEW r \in Slots, AccountArrive(r) PROVE Frame
  <2>1. /\ codes' = codes /\ users' = users /\ crossed \subseteq crossed'
    BY <1>2 DEF AccountArrive, Arrive, AskForCode, StartLogin, ReadToVerify, ReadPhone,
                ReadToComplete, LogoutAllDevices, ReadToReset, ReadToSkip, ReadToRefresh,
                ReadToLogout, Start, accountVars
  <2> QED BY <1>0, <1>1, <2>1 DEF Frame
<1>3. ASSUME NEW r \in Slots, AccountProceed(r) PROVE Frame
  <2>1. CASE InvalidatePrevious(r) /\ UNCHANGED accountVars
    BY <1>0, <2>1, InvalidatingKeepsRows DEF Frame, InvalidatePrevious, Continue, accountVars
  <2>2. CASE InsertCode(r) /\ UNCHANGED accountVars
    BY <1>0, <2>2, InsertingKeepsRows DEF Frame, InsertCode, Continue, accountVars
  <2>3. CASE MarkVerified(r) /\ UNCHANGED accountVars
    <3>1. req[r].purpose \in OtpPurpose /\ req[r].row \in Nat
      BY <2>3, Kinds DEF MarkVerified, Entering, Typed
    <3> QED BY <1>0, <2>3, <3>1, UsingKeepsRows
            DEF Frame, MarkVerified, Continue, accountVars
  <2>4. CASE MarkCompleted(r)
    <3>1. req[r].row \in Nat /\ "LOGIN" \in OtpPurpose
      BY <2>4, Kinds DEF MarkCompleted, Completing, Typed, OtpPurpose
    <3> QED BY <1>0, <2>4, <3>1, UsingKeepsRows
            DEF Frame, MarkCompleted, Continue, accountVars
  <2>5. CASE \/ (SendMessage(r) \/ Grant(r)) /\ UNCHANGED accountVars
             \/ InsertUser(r) \/ LinkPhone(r) \/ RevokeReplaced(r) \/ CreateSession(r)
             \/ RevokeToken(r) \/ WriteMetadata(r)
    <3>1. /\ codes' = codes /\ crossed' = crossed
          /\ users' = users \/ users' = users + 1
      BY <2>5 DEF SendMessage, Grant, InsertUser, LinkPhone, RevokeReplaced, CreateSession,
                  RevokeToken, WriteMetadata, Continue, accountVars
    <3> QED BY <1>0, <1>1, <3>1 DEF Frame
  <2> QED BY <1>3, <2>1, <2>2, <2>3, <2>4, <2>5 DEF AccountProceed, Proceed
<1>4. ASSUME NEW r \in Slots, AbortDeadlocked(r) \/ (Die(r) /\ UNCHANGED accountVars)
      PROVE Frame
    BY <1>0, <1>1, <1>4 DEF AbortDeadlocked, Die, Continue, Frame, accountVars
<1>5. CASE UNCHANGED vars
    BY <1>0, <1>1, <1>5 DEF vars, challengeVars, accountVars, Frame
<1> QED BY <1>2, <1>3, <1>4, <1>5 DEF Next, Rest

-----------------------------------------------------------------------------
(***************************************************************************)
(* Every code of a login has a number of its own.                          *)
(***************************************************************************)

Inserting(r) == req[r].op = "Send" /\ req[r].purpose = "LOGIN" /\ req[r].step = "insert"

Numbers ==
    /\ \A i \in DOMAIN codes["LOGIN"] : codes["LOGIN"][i].nr <= sent["LOGIN"]
    /\ \A i, j \in DOMAIN codes["LOGIN"] :
        codes["LOGIN"][i].nr = codes["LOGIN"][j].nr => i = j
    /\ \A r \in Slots : Inserting(r) =>
        /\ req[r].nr <= sent["LOGIN"]
        /\ \A i \in DOMAIN codes["LOGIN"] : codes["LOGIN"][i].nr # req[r].nr
        /\ \A q \in Slots : Inserting(q) /\ req[q].nr = req[r].nr => q = r

\* A step that neither draws nor inserts a code.
LEMMA NumbersStay ==
    ASSUME Typed, Numbers, RowsKept, DOMAIN codes'["LOGIN"] = DOMAIN codes["LOGIN"],
           sent' = sent,
           \A q \in Slots : Inserting(q)' => Inserting(q) /\ req'[q] = req[q]
    PROVE  Numbers'
<1>1. \A i \in DOMAIN codes'["LOGIN"] : codes'["LOGIN"][i].nr = codes["LOGIN"][i].nr
    BY DEF RowsKept, OtpPurpose
<1> QED BY <1>1 DEF Numbers

LEMMA NextNumbers == Typed /\ Numbers /\ [Next]_vars => Numbers'
<1> SUFFICES ASSUME Typed, Numbers, [Next]_vars PROVE Numbers'
    OBVIOUS
<1>0. RowsKept /\ "LOGIN" \in OtpPurpose /\ req \in [Slots -> Request]
    BY NextFrame DEF Frame, OtpPurpose, Typed, TypeOK, Request
<1>1. ASSUME NEW r \in Slots, AccountArrive(r) PROVE Numbers'
  <2>1. codes' = codes /\ sent' = sent
    BY <1>1, ArrivalShape
  <2>2. /\ \A q \in Slots : q # r => req'[q] = req[q]
        /\ req'[r].op # "Send" \/ req'[r].step # "insert"
    BY <1>1, ArrivalShape
  <2>3. \A q \in Slots : Inserting(q)' => Inserting(q) /\ req'[q] = req[q]
    BY <2>2 DEF Inserting
  <2> QED BY <1>0, <2>1, <2>3, NumbersStay
<1>2. ASSUME NEW r \in Slots, SendMessage(r), UNCHANGED accountVars PROVE Numbers'
  <2>1. req[r] \in Sending
    BY <1>2, Kinds DEF Typed, SendMessage
  <2>2. CASE req[r].purpose # "LOGIN"
    <3>1. sent'["LOGIN"] = sent["LOGIN"] /\ codes' = codes
      BY <1>0, <1>2, <2>1, <2>2 DEF SendMessage, Sending, Typed, TypeOK
    <3>2. \A q \in Slots : Inserting(q)' => Inserting(q) /\ req'[q] = req[q]
      BY <1>0, <1>2, <2>1, <2>2 DEF SendMessage, Continue, Inserting, Sending
    <3> QED BY <3>1, <3>2 DEF Numbers
  <2>3. CASE req[r].purpose = "LOGIN"
    <3> DEFINE nr == sent["LOGIN"] + 1
    <3>1. sent'["LOGIN"] = nr /\ codes' = codes
      BY <1>0, <1>2, <2>3 DEF SendMessage, Typed, TypeOK
    <3>2. nr \in Nat /\ sent["LOGIN"] \in Nat
      BY <1>0 DEF Typed, TypeOK
    <3>3. /\ req'[r].nr = nr
          /\ \A q \in Slots : q # r => req'[q] = req[q]
      BY <1>0, <1>2, <2>1, <2>3 DEF SendMessage, Continue, Sending
    <3>4. \A q \in Slots : Inserting(q) => req[q].nr \in Nat
      BY Kinds DEF Inserting, Typed, Sending
    <3>5. \A i \in DOMAIN codes["LOGIN"] : codes["LOGIN"][i].nr \in Nat
      BY <1>0, RowNumbers DEF Typed, Code
    <3> HIDE DEF nr
    <3>6. \A n \in Nat : n <= sent["LOGIN"] => n <= nr /\ n # nr
      BY <3>2 DEF nr
    <3>7. \A q \in Slots : q # r => (Inserting(q)' <=> Inserting(q))
      BY <3>3 DEF Inserting
    <3> QED BY <3>1, <3>2, <3>3, <3>4, <3>5, <3>6, <3>7 DEF Numbers
  <2> QED BY <2>2, <2>3
<1>3. ASSUME NEW r \in Slots, InsertCode(r), UNCHANGED accountVars PROVE Numbers'
  <2>1. /\ sent' = sent /\ req[r].op = "Send" /\ req[r].step = "insert"
        /\ req' = [req EXCEPT ![r] = Idle]
    BY <1>3 DEF InsertCode, Continue
  <2>2. \A q \in Slots : Inserting(q)' => Inserting(q) /\ req'[q] = req[q] /\ q # r
    BY <1>0, <2>1 DEF Inserting, Idle
  <2>3. CASE req[r].purpose # "LOGIN"
    <3>1. codes'["LOGIN"] = codes["LOGIN"]
      BY <1>0, <1>3, <2>3, InsertingKeepsRows
    <3> QED BY <1>0, <2>1, <2>2, <3>1, NumbersStay
  <2>4. CASE req[r].purpose = "LOGIN"
    <3> DEFINE last == Len(codes["LOGIN"]) + 1
    <3>1. /\ last \in Nat \ {0}
          /\ DOMAIN codes["LOGIN"] = 1..(last - 1) /\ DOMAIN codes'["LOGIN"] = 1..last
          /\ \A i \in DOMAIN codes["LOGIN"] : codes'["LOGIN"][i] = codes["LOGIN"][i]
          /\ codes'["LOGIN"][last] = [nr |-> req[r].nr, isUsed |-> FALSE]
      BY <1>3, <2>4, InsertingKeepsRows
    <3> HIDE DEF last
    <3>2. \A i \in DOMAIN codes'["LOGIN"] : i = last \/ i \in DOMAIN codes["LOGIN"]
      BY <3>1
    <3>3. codes'["LOGIN"][last].nr = req[r].nr /\ Inserting(r)
      BY <2>1, <2>4, <3>1 DEF Inserting
    <3> QED BY <2>1, <2>2, <3>1, <3>2, <3>3 DEF Numbers
  <2> QED BY <2>3, <2>4
<1>4. ASSUME NEW r \in Slots,
             \/ (InvalidatePrevious(r) \/ MarkVerified(r)) /\ UNCHANGED accountVars
             \/ MarkCompleted(r)
      PROVE Numbers'
  <2>1. DOMAIN codes'["LOGIN"] = DOMAIN codes["LOGIN"]
    <3>1. CASE InvalidatePrevious(r)
      BY <1>0, <3>1, InvalidatingKeepsRows
    <3>2. CASE MarkVerified(r)
      <4>1. req[r].purpose \in OtpPurpose /\ req[r].row \in Nat
        BY <3>2, Kinds DEF MarkVerified, Entering, Typed
      <4> QED BY <1>0, <3>2, <4>1, UsingKeepsRows DEF MarkVerified
    <3>3. CASE MarkCompleted(r)
      <4>1. req[r].row \in Nat
        BY <3>3, Kinds DEF MarkCompleted, Completing, Typed
      <4> QED BY <1>0, <3>3, <4>1, UsingKeepsRows DEF MarkCompleted
    <3> QED BY <1>4, <3>1, <3>2, <3>3
  <2>2. sent' = sent /\ \A q \in Slots : q # r => req'[q] = req[q]
    BY <1>0, <1>4 DEF InvalidatePrevious, MarkVerified, MarkCompleted, Continue
  <2>3. req'[r].op # "Send" \/ req'[r].step # "insert"
    <3>1. req[r] \in Sending \cup Entering \cup Completing
      BY <1>4, Kinds DEF Typed, InvalidatePrevious, MarkVerified, MarkCompleted
    <3> QED BY <1>0, <1>4, <3>1 DEF Sending, Entering, Completing, InvalidatePrevious,
               MarkVerified, MarkCompleted, Continue
  <2>4. \A q \in Slots : Inserting(q)' => Inserting(q) /\ req'[q] = req[q]
    BY <2>2, <2>3 DEF Inserting
  <2> QED BY <1>0, <2>1, <2>2, <2>4, NumbersStay
<1>5. ASSUME NEW r \in Slots,
             \/ (Grant(r) \/ Die(r)) /\ UNCHANGED accountVars
             \/ InsertUser(r) \/ LinkPhone(r) \/ RevokeReplaced(r) \/ CreateSession(r)
             \/ RevokeToken(r) \/ WriteMetadata(r) \/ AbortDeadlocked(r)
      PROVE Numbers'
  <2>1. codes' = codes /\ sent' = sent /\ \A q \in Slots : q # r => req'[q] = req[q]
    BY <1>0, <1>5 DEF Grant, Die, InsertUser, LinkPhone, RevokeReplaced, CreateSession,
                RevokeToken, WriteMetadata, AbortDeadlocked, Continue
  <2>2. req'[r] = Idle \/ (req'[r].op = req[r].op /\ req[r].op # "Send")
    <3>1. CASE \/ Grant(r) \/ Die(r) \/ CreateSession(r)
               \/ RevokeToken(r) \/ WriteMetadata(r) \/ AbortDeadlocked(r)
      <4>1. req' = [req EXCEPT ![r] = Idle]
        BY <3>1 DEF Grant, Die, CreateSession, RevokeToken, WriteMetadata,
                    AbortDeadlocked, Continue
      <4> QED BY <1>0, <4>1
    <3>2. CASE InsertUser(r) \/ LinkPhone(r) \/ RevokeReplaced(r)
      <4>1. req[r] \in Registering \cup Refreshing
        BY <3>2, Kinds DEF Typed, InsertUser, LinkPhone, SharesPhone, RevokeReplaced
      <4> QED BY <1>0, <3>2, <4>1 DEF InsertUser, LinkPhone, RevokeReplaced, Continue,
                 Registering, Refreshing
    <3> QED BY <1>5, <3>1, <3>2
  <2>3. \A q \in Slots : Inserting(q)' => Inserting(q) /\ req'[q] = req[q]
    BY <2>1, <2>2 DEF Inserting, Idle
  <2> QED BY <1>0, <2>1, <2>3, NumbersStay
<1>6. CASE UNCHANGED vars
    BY <1>6 DEF vars, challengeVars, Numbers, Inserting
<1> QED BY <1>1, <1>2, <1>3, <1>4, <1>5, <1>6
        DEF Next, Rest, AccountProceed, Proceed

-----------------------------------------------------------------------------
(***************************************************************************)
(* The sessions.  A proof is spent when the user it stands for exists, or  *)
(* its code was used: nothing but the requests at work on it, and the      *)
(* refreshes of what they left, make sessions of it.                       *)
(***************************************************************************)

Spent(p) ==
    \/ \E n \in 1..users : p = <<"registration", n>>
    \/ \E i \in DOMAIN codes["LOGIN"] :
        codes["LOGIN"][i].isUsed /\ p = <<"code", codes["LOGIN"][i].nr>>

\* What a request at work on a proof has read of it still is so.
StandsOn(work) ==
    IF work.step = "mark"
    THEN /\ work.row \in DOMAIN codes["LOGIN"]
         /\ work.on = <<"code", codes["LOGIN"][work.row].nr>>
    ELSE Spent(work.on)

\* There is no valid token of the proof but the one the request is about to replace.
NothingElse(work) ==
    \A t \in DOMAIN tokens :
        ~tokens[t].isRevoked /\ tokens[t].proof = work.on =>
            work.step = "revoke" /\ t = work.token

Claim(work) ==
    /\ StandsOn(work)
    /\ work.on \notin crossed => NothingElse(work)
    /\ <<work.user, work.on>> \notin swept

Sessions ==
    /\ Alone
    /\ \A r \in Slots : req[r].on \in Proof => Claim(req[r])
    /\ \A t \in DOMAIN tokens : Spent(tokens[t].proof)
    /\ \A u \in Nat, p \in Proof : <<u, p>> \in swept => Spent(p)
    /\ OneSessionPerProof
    /\ LoggedOutIsOut

IInv == Typed /\ Numbers /\ Sessions

\* Who joins another at work has crossed with it.
Joins(r, work) ==
    \/ work.on = <<>> \/ work.on = req[r].on
    \/ /\ work.on # <<>>
       /\ (\E q \in Slots : q # r /\ req[q].on = work.on) => work.on \in crossed'

\* The tokens there are stay, and revoked ones stay so.
TokensKept ==
    \A t \in DOMAIN tokens :
        /\ t \in DOMAIN tokens'
        /\ tokens'[t].user = tokens[t].user /\ tokens'[t].proof = tokens[t].proof
        /\ tokens[t].isRevoked => tokens'[t].isRevoked

\* What was spent stays spent.
LEMMA SpentStays ==
    ASSUME Typed, Frame, NEW p, Spent(p)
    PROVE  Spent(p)'
<1>1. \A n \in 1..users : n \in 1..users'
    BY DEF Typed, TypeOK, Frame
<1>2. ASSUME NEW i \in DOMAIN codes["LOGIN"], codes["LOGIN"][i].isUsed
      PROVE  /\ i \in DOMAIN codes'["LOGIN"] /\ codes'["LOGIN"][i].isUsed
             /\ codes'["LOGIN"][i].nr = codes["LOGIN"][i].nr
    BY <1>2 DEF Frame, RowsKept, OtpPurpose
<1> QED BY <1>1, <1>2 DEF Spent

\* A token that is revoked stays in its place.
LEMMA RevokingKeepsTokens ==
    ASSUME Typed, NEW t \in Nat, tokens' = [tokens EXCEPT ![t].isRevoked = TRUE]
    PROVE  /\ DOMAIN tokens' = DOMAIN tokens /\ TokensKept
           /\ t \in DOMAIN tokens => tokens'[t].isRevoked
<1>1. \A u \in DOMAIN tokens : tokens[u] \in RefreshToken
    BY RowNumbers DEF Typed
<1>2. DOMAIN tokens' = DOMAIN tokens
    OBVIOUS
<1>3. \A u \in DOMAIN tokens :
        tokens'[u] = IF u = t THEN [tokens[u] EXCEPT !.isRevoked = TRUE] ELSE tokens[u]
    OBVIOUS
<1> QED BY <1>1, <1>2, <1>3 DEF TokensKept, RefreshToken

LEMMA AloneStays ==
    ASSUME Typed, Alone, crossed \subseteq crossed', NEW r \in Slots, NEW work,
           req' = [req EXCEPT ![r] = work], Joins(r, work)
    PROVE  Alone'
<1>1. \A q \in Slots : req'[q] = IF q = r THEN work ELSE req[q]
    BY DEF Typed, TypeOK
<1> QED BY <1>1 DEF Alone, Joins

\* A step that creates no token and sweeps nothing, whose request may claim what it is
\* at, if that is a proof.
LEMMA SessionsStay ==
    ASSUME Typed, Sessions, Frame, NEW r \in Slots, NEW work,
           req' = [req EXCEPT ![r] = work], Joins(r, work),
           work.on \in Proof => Claim(work)',
           DOMAIN tokens' = DOMAIN tokens, TokensKept, swept' = swept
    PROVE  Sessions'
<1>1. \A q \in Slots : req'[q] = IF q = r THEN work ELSE req[q]
    BY DEF Typed, TypeOK
<1>2. Alone'
    BY AloneStays DEF Sessions, Frame
<1>3. ASSUME NEW q \in Slots, req'[q].on \in Proof PROVE Claim(req[q])'
  <2>1. CASE q = r
    BY <1>1, <1>3, <2>1 DEF Claim, StandsOn, NothingElse
  <2>2. CASE q # r
    <3>1. PICK w : w = req[q]
      OBVIOUS
    <3>2. req'[q] = w /\ Claim(w) /\ w.on \in Proof
      BY <1>1, <1>3, <2>2, <3>1 DEF Sessions
    <3>3. StandsOn(w)'
      <4>1. Spent(w.on) => Spent(w.on)'
        BY SpentStays
      <4> QED BY <3>2, <4>1 DEF Claim, StandsOn, Frame, RowsKept, OtpPurpose
    <3>4. w.on \notin crossed' => NothingElse(w)'
      BY <3>2 DEF Claim, NothingElse, Frame, TokensKept
    <3>5. Claim(w)'
      BY <3>2, <3>3, <3>4 DEF Claim
    <3> QED BY <3>2, <3>5 DEF Claim, StandsOn, NothingElse
  <2> QED BY <2>1, <2>2
<1>4. ASSUME NEW t \in DOMAIN tokens' PROVE Spent(tokens[t].proof)'
  <2>1. PICK p : p = tokens[t].proof
    OBVIOUS
  <2>2. Spent(p)' /\ p = tokens'[t].proof
    BY <1>4, <2>1, SpentStays DEF Sessions, TokensKept
  <2> QED BY <2>2
<1>5. ASSUME NEW u \in Nat, NEW p \in Proof, <<u, p>> \in swept' PROVE Spent(p)'
    BY <1>5, SpentStays DEF Sessions
<1>6. OneSessionPerProof'
    BY DEF Sessions, OneSessionPerProof, TokensKept, Frame
<1>7. LoggedOutIsOut'
    BY DEF Sessions, LoggedOutIsOut, TokensKept
<1> QED BY <1>2, <1>3, <1>4, <1>5, <1>6, <1>7 DEF Sessions

\* In particular one that leaves the tokens alone, and is or gets at no proof.
LEMMA SessionsRest ==
    ASSUME Typed, Sessions, Frame, NEW r \in Slots, NEW work,
           req' = [req EXCEPT ![r] = work], Joins(r, work), work.on \notin Proof,
           tokens' = tokens, swept' = swept
    PROVE  Sessions'
<1>1. TokensKept
    BY DEF TokensKept
<1> QED BY <1>1, SessionsStay

LEMMA StartJoins ==
    ASSUME NEW r \in Slots, NEW work, Start(r, work)
    PROVE  req' = [req EXCEPT ![r] = work] /\ Joins(r, work) /\ req[r] = Idle
BY DEF Start, Joins

\* Most of what begins is no session's work.
LEMMA ArrivalSessions ==
    ASSUME Typed, Sessions, Frame, NEW r \in Slots,
           \/ Arrive(r) /\ UNCHANGED accountVars
           \/ ReadPhone(r)
           \/ \E user \in 1..users :
                ReadToReset(r, user) \/ \E label \in Steps : ReadToSkip(r, user, label)
           \/ \E t \in DOMAIN tokens : ReadToLogout(r, t)
    PROVE  Sessions'
<1>1. tokens' = tokens /\ swept' = swept
    BY DEF accountVars, ReadPhone, ReadToReset, ReadToSkip, ReadToLogout
<1>2. \E work : Start(r, work) /\ work.on \notin Proof
  <2>1. CASE Arrive(r)
    <3>1. ASSUME NEW p \in OtpPurpose, AskForCode(r, p)
          PROVE  \E work : Start(r, work) /\ work.on \notin Proof
      BY <3>1, Things DEF AskForCode, SendWork
    <3>2. ASSUME StartLogin(r) PROVE \E work : Start(r, work) /\ work.on \notin Proof
      BY <3>2, Things DEF StartLogin, SendWork, OtpPurpose
    <3>3. ASSUME NEW p \in OtpPurpose, NEW i \in DOMAIN codes[p], ReadToVerify(r, p, i)
          PROVE  \E work : Start(r, work) /\ work.on \notin Proof
      BY <3>3, Things DEF ReadToVerify
    <3> QED BY <2>1, <3>1, <3>2, <3>3 DEF Arrive
  <2>2. CASE ReadPhone(r)
    BY <2>2, Things DEF ReadPhone
  <2>3. ASSUME NEW user \in 1..users, ReadToReset(r, user)
        PROVE  \E work : Start(r, work) /\ work.on \notin Proof
    BY <2>3, Things DEF ReadToReset
  <2>4. ASSUME NEW user \in 1..users, NEW label \in Steps, ReadToSkip(r, user, label)
        PROVE  \E work : Start(r, work) /\ work.on \notin Proof
    BY <2>4, Things DEF ReadToSkip
  <2>5. ASSUME NEW t \in DOMAIN tokens, ReadToLogout(r, t)
        PROVE  \E work : Start(r, work) /\ work.on \notin Proof
    BY <2>5, Things DEF ReadToLogout
  <2> QED BY <2>1, <2>2, <2>3, <2>4, <2>5
<1>3. PICK work : Start(r, work) /\ work.on \notin Proof
    BY <1>2
<1> QED BY <1>1, <1>3, StartJoins, SessionsRest

\* A code that can be entered was not used, so that no session comes from it.
LEMMA CompleteSessions ==
    ASSUME IInv, Frame, NEW r \in Slots, NEW user \in 1..users,
           NEW i \in DOMAIN codes["LOGIN"], ReadToComplete(r, user, i)
    PROVE  Sessions'
<1>1. PICK p : p = <<"code", codes["LOGIN"][i].nr>>
    OBVIOUS
<1>2. PICK work : work = [op |-> "Complete", on |-> p, user |-> user, row |-> i,
                          step |-> "mark"]
    OBVIOUS
<1>3. /\ Start(r, work) /\ tokens' = tokens /\ swept' = swept /\ users' = users
      /\ codes' = codes /\ ~codes["LOGIN"][i].isUsed
    BY <1>1, <1>2 DEF ReadToComplete, IsLatestValid, OpenRows, Start, accountVars
<1>4. \A j \in DOMAIN codes["LOGIN"] : codes["LOGIN"][j].nr \in Nat
    BY RowNumbers DEF IInv, Typed, Code, OtpPurpose
<1>5. p \in Proof
    BY <1>1, <1>4, Things
<1>6. ~Spent(p)
  <2>1. \A n \in 1..users : p # <<"registration", n>>
    BY <1>1, <1>4, Things DEF IInv, Typed, TypeOK
  <2>2. ASSUME NEW j \in DOMAIN codes["LOGIN"], codes["LOGIN"][j].isUsed
        PROVE  p # <<"code", codes["LOGIN"][j].nr>>
    <3>1. codes["LOGIN"][j].nr # codes["LOGIN"][i].nr
      BY <1>3, <2>2 DEF IInv, Numbers
    <3> QED BY <1>1, <1>4, <3>1, Things
  <2> QED BY <2>1, <2>2 DEF Spent
<1>7. Claim(work)'
  <2>1. StandsOn(work)'
    BY <1>1, <1>2, <1>3 DEF StandsOn
  <2>2. NothingElse(work)'
    BY <1>2, <1>3, <1>6 DEF NothingElse, IInv, Sessions
  <2>3. <<work.user, work.on>> \notin swept'
    <3>1. user \in Nat
      BY DEF IInv, Typed, TypeOK
    <3> QED BY <1>2, <1>3, <1>5, <1>6, <3>1 DEF IInv, Sessions
  <2> QED BY <2>1, <2>2, <2>3 DEF Claim
<1>8. TokensKept
    BY <1>3 DEF TokensKept
<1> QED BY <1>3, <1>7, <1>8, StartJoins, SessionsStay DEF IInv

\* A token that can be replaced is the only one of its proof.
LEMMA RefreshSessions ==
    ASSUME IInv, Frame, NEW r \in Slots, NEW t \in DOMAIN tokens, ReadToRefresh(r, t)
    PROVE  Sessions'
<1>1. PICK work : work = [op |-> "Refresh", on |-> tokens[t].proof,
                          user |-> tokens[t].user, token |-> t, step |-> "revoke"]
    OBVIOUS
<1>2. /\ Start(r, work) /\ tokens' = tokens /\ swept' = swept /\ users' = users
      /\ codes' = codes /\ ~tokens[t].isRevoked
    BY <1>1 DEF ReadToRefresh, Start, accountVars
<1>3. Claim(work)'
  <2>1. PICK p : p = tokens[t].proof
    OBVIOUS
  <2>2. Spent(p)'
    BY <2>1, SpentStays DEF IInv, Sessions
  <2>3. StandsOn(work)'
    BY <1>1, <2>1, <2>2 DEF StandsOn
  <2>4. work.on \notin crossed' => NothingElse(work)'
    BY <1>1, <1>2 DEF NothingElse, IInv, Sessions, OneSessionPerProof, Frame
  <2>5. <<work.user, work.on>> \notin swept'
    BY <1>1, <1>2 DEF IInv, Sessions, LoggedOutIsOut
  <2> QED BY <2>3, <2>4, <2>5 DEF Claim
<1>4. TokensKept
    BY <1>2 DEF TokensKept
<1> QED BY <1>2, <1>3, <1>4, StartJoins, SessionsStay DEF IInv

\* A logout of all devices leaves out only what somebody is at work on.
LEMMA LogoutAllSessions ==
    ASSUME IInv, Frame, NEW r \in Slots, NEW user \in 1..users, LogoutAllDevices(r, user)
    PROVE  Sessions'
<1>0. \A t \in DOMAIN tokens : tokens[t] \in RefreshToken
    BY RowNumbers DEF IInv, Typed
<1>1. /\ Start(r, Idle) /\ users' = users /\ codes' = codes
      /\ tokens' = [t \in DOMAIN tokens |->
                     IF tokens[t].user = user THEN [tokens[t] EXCEPT !.isRevoked = TRUE]
                     ELSE tokens[t]]
    BY DEF LogoutAllDevices, Start
<1>2. /\ DOMAIN tokens' = DOMAIN tokens
      /\ \A t \in DOMAIN tokens :
           /\ tokens'[t].user = tokens[t].user /\ tokens'[t].proof = tokens[t].proof
           /\ tokens[t].isRevoked => tokens'[t].isRevoked
           /\ tokens[t].user = user => tokens'[t].isRevoked
    BY <1>0, <1>1 DEF RefreshToken
<1>3. ASSUME NEW u, NEW p, <<u, p>> \in swept', <<u, p>> \notin swept
      PROVE  /\ u = user
             /\ \E t \in DOMAIN tokens : tokens[t].proof = p
             /\ \A q \in Slots : req[q].on # p
    BY <1>3 DEF LogoutAllDevices
<1>4. \A q \in Slots : req'[q] = req[q]
    BY <1>1 DEF Start, IInv, Typed, TypeOK
<1>5. \A p : Spent(p)' <=> Spent(p)
    BY <1>1 DEF Spent
<1>6. Alone'
    BY <1>1, StartJoins, AloneStays DEF IInv, Sessions, Frame, Idle, Joins
<1>7. ASSUME NEW q \in Slots, req'[q].on \in Proof PROVE Claim(req[q])'
  <2>1. PICK w : w = req[q]
    OBVIOUS
  <2>2. Claim(w) /\ req'[q] = w
    BY <1>4, <1>7, <2>1 DEF IInv, Sessions
  <2>3. StandsOn(w)'
    BY <1>1, <1>5, <2>2 DEF Claim, StandsOn
  <2>4. w.on \notin crossed' => NothingElse(w)'
    BY <1>2, <2>2 DEF Claim, NothingElse, Frame
  <2>5. <<w.user, w.on>> \notin swept'
    BY <1>3, <2>1, <2>2 DEF Claim
  <2>6. Claim(w)'
    BY <2>3, <2>4, <2>5 DEF Claim
  <2> QED BY <2>2, <2>6 DEF Claim, StandsOn, NothingElse
<1>8. ASSUME NEW t \in DOMAIN tokens' PROVE Spent(tokens[t].proof)'
  <2>1. PICK p : p = tokens[t].proof
    OBVIOUS
  <2>2. Spent(p)' /\ p = tokens'[t].proof
    BY <1>2, <1>5, <1>8, <2>1 DEF IInv, Sessions
  <2> QED BY <2>2
<1>9. ASSUME NEW u \in Nat, NEW p \in Proof, <<u, p>> \in swept' PROVE Spent(p)'
    BY <1>3, <1>5, <1>9 DEF IInv, Sessions
<1>10. OneSessionPerProof'
    BY <1>2 DEF IInv, Sessions, OneSessionPerProof, Frame
<1>11. LoggedOutIsOut'
    BY <1>2, <1>3 DEF IInv, Sessions, LoggedOutIsOut
<1> QED BY <1>6, <1>7, <1>8, <1>9, <1>10, <1>11 DEF Sessions

\* The statements of the handlers that are no session's work, and what stops one.
LEMMA StatementSessions ==
    ASSUME Typed, Sessions, Frame, NEW r \in Slots,
           \/ (Proceed(r) \/ Die(r)) /\ UNCHANGED accountVars
           \/ InsertUser(r) \/ WriteMetadata(r) \/ AbortDeadlocked(r)
    PROVE  Sessions'
<1>1. tokens' = tokens /\ swept' = swept
    BY DEF accountVars, InsertUser, WriteMetadata, AbortDeadlocked
<1>2. \E work : /\ req' = [req EXCEPT ![r] = work]
                /\ work.on = <<>> \/ work.on = req[r].on
                /\ work.on \notin Proof
  <2>1. CASE InsertCode(r) \/ Grant(r) \/ Die(r) \/ WriteMetadata(r) \/ AbortDeadlocked(r)
    <3>1. req' = [req EXCEPT ![r] = Idle]
      BY <2>1 DEF InsertCode, Grant, Die, WriteMetadata, AbortDeadlocked, Continue
    <3>2. Idle.on = <<>> /\ Idle.on \notin Proof
      BY Things DEF Idle
    <3> QED BY <3>1, <3>2
  <2>2. CASE InvalidatePrevious(r) \/ SendMessage(r)
    <3>1. req[r] \in Sending /\ req[r].on \notin Proof
      BY <2>2, Kinds, AtWhat, Things DEF InvalidatePrevious, SendMessage, Typed
    <3>2. PICK work : /\ work = [req[r] EXCEPT !.step = "message"]
                         \/ work = [req[r] EXCEPT !.step = "insert",
                                                  !.nr = sent[req[r].purpose] + 1]
                      /\ req' = [req EXCEPT ![r] = work]
      BY <2>2 DEF InvalidatePrevious, SendMessage, Continue
    <3>3. work.on = req[r].on
      BY <3>1, <3>2 DEF Sending
    <3> QED BY <3>1, <3>2, <3>3
  <2>3. CASE MarkVerified(r)
    <3>1. req[r] \in Entering
      BY <2>3, Kinds DEF MarkVerified, Typed
    <3>2. PICK work : /\ work = [req[r] EXCEPT !.step = "grant"]
                      /\ req' = [req EXCEPT ![r] = work]
      BY <2>3 DEF MarkVerified, Continue
    <3>3. work.on = <<>>
      BY <3>1, <3>2 DEF Entering
    <3> QED BY <3>2, <3>3, Things
  <2>4. CASE InsertUser(r)
    <3>1. req[r] \in Registering /\ req[r].on = <<"slot">>
      BY <2>4, Kinds, AtWhat DEF InsertUser, Typed
    <3>2. PICK work : /\ work = [req[r] EXCEPT !.step = "link"]
                      /\ req' = [req EXCEPT ![r] = work]
      BY <2>4 DEF InsertUser, Continue
    <3>3. work.on = req[r].on
      BY <3>1, <3>2 DEF Registering
    <3> QED BY <3>1, <3>2, <3>3, Things
  <2> QED BY <2>1, <2>2, <2>3, <2>4 DEF Proceed
<1>3. PICK work : /\ req' = [req EXCEPT ![r] = work]
                  /\ work.on = <<>> \/ work.on = req[r].on
                  /\ work.on \notin Proof
    BY <1>2
<1>4. Joins(r, work)
    BY <1>3 DEF Joins
<1> QED BY <1>1, <1>3, <1>4, SessionsRest

\* The user that is linked is new, and so is the proof.
LEMMA LinkSessions ==
    ASSUME IInv, Frame, NEW r \in Slots, LinkPhone(r)
    PROVE  Sessions'
<1>1. PICK n : n = users + 1
    OBVIOUS
<1>2. n \in Nat /\ n \notin 1..users /\ n \in 1..n
    BY <1>1 DEF IInv, Typed, TypeOK
<1>3. PICK p : p = <<"registration", n>>
    OBVIOUS
<1>4. req[r] \in Registering
    BY Kinds DEF IInv, Typed, LinkPhone, SharesPhone
<1>5. PICK work : work = [req[r] EXCEPT !.step = "session", !.user = n, !.on = p]
    OBVIOUS
<1>6. /\ req' = [req EXCEPT ![r] = work] /\ tokens' = tokens /\ swept' = swept
      /\ users' = n
    BY <1>1, <1>3, <1>5 DEF LinkPhone, Continue
<1>7. work.on = p /\ work.user = n /\ work.step = "session"
    BY <1>4, <1>5 DEF Registering
<1>8. p \in Proof /\ ~Spent(p)
  <2>1. \A j \in DOMAIN codes["LOGIN"] : codes["LOGIN"][j].nr \in Nat
    BY RowNumbers DEF IInv, Typed, Code, OtpPurpose
  <2>2. \A m \in 1..users : m \in Nat /\ m # n
    BY <1>2 DEF IInv, Typed, TypeOK
  <2> QED BY <1>2, <1>3, <2>1, <2>2, Things DEF Spent
<1>9. \A q \in Slots : req[q].on # p
  <2> SUFFICES ASSUME NEW q \in Slots, req[q].on = p PROVE FALSE
    OBVIOUS
  <2>1. StandsOn(req[q])
    BY <1>8 DEF IInv, Sessions, Claim
  <2>2. req[q].step = "mark" /\ req[q].row \in DOMAIN codes["LOGIN"]
        /\ p = <<"code", codes["LOGIN"][req[q].row].nr>>
    BY <1>8, <2>1 DEF StandsOn
  <2>3. codes["LOGIN"][req[q].row].nr \in Nat
    BY <2>2, RowNumbers DEF IInv, Typed, Code, OtpPurpose
  <2> QED BY <1>2, <1>3, <2>2, <2>3, Things
<1>10. Joins(r, work)
    BY <1>7, <1>8, <1>9, Things DEF Joins
<1>11. Claim(work)'
  <2>1. Spent(p)'
    BY <1>2, <1>3, <1>6 DEF Spent
  <2>2. StandsOn(work)'
    BY <1>7, <2>1 DEF StandsOn
  <2>3. NothingElse(work)'
    BY <1>6, <1>7, <1>8 DEF NothingElse, IInv, Sessions
  <2>4. <<work.user, work.on>> \notin swept'
    BY <1>2, <1>6, <1>7, <1>8 DEF IInv, Sessions
  <2> QED BY <2>2, <2>3, <2>4 DEF Claim
<1>12. TokensKept
    BY <1>6 DEF TokensKept
<1> QED BY <1>6, <1>10, <1>11, <1>12, SessionsStay DEF IInv

\* The code of a login that is completed was entered, and is used from now on.
LEMMA MarkSessions ==
    ASSUME IInv, Frame, NEW r \in Slots, MarkCompleted(r)
    PROVE  Sessions'
<1>1. req[r] \in Completing /\ req[r].on \in Proof
    BY Kinds DEF IInv, Typed, MarkCompleted, Completing
<1>2. PICK old : old = req[r]
    OBVIOUS
<1>3. PICK work : work = [old EXCEPT !.step = "session"]
    OBVIOUS
<1>4. /\ work.on = old.on /\ work.user = old.user /\ work.step = "session"
      /\ old.step = "mark" /\ old.row \in Nat
    BY <1>1, <1>2, <1>3 DEF Completing, MarkCompleted
<1>5. /\ req' = [req EXCEPT ![r] = work] /\ tokens' = tokens /\ swept' = swept
      /\ users' = users /\ codes' = Used("LOGIN", old.row)
    BY <1>2, <1>3 DEF MarkCompleted, Continue, accountVars, Used
<1>6. Claim(old)
    BY <1>1, <1>2 DEF IInv, Sessions
<1>7. /\ old.row \in DOMAIN codes'["LOGIN"] /\ codes'["LOGIN"][old.row].isUsed
      /\ old.on = <<"code", codes'["LOGIN"][old.row].nr>>
  <2>1. old.row \in DOMAIN codes["LOGIN"] /\ old.on = <<"code", codes["LOGIN"][old.row].nr>>
    BY <1>4, <1>6 DEF Claim, StandsOn
  <2>2. codes'["LOGIN"][old.row].isUsed
    <3>1. codes \in [OtpPurpose -> Seq(Code)] /\ "LOGIN" \in OtpPurpose
      BY DEF IInv, Typed, TypeOK, OtpPurpose
    <3>2. codes["LOGIN"][old.row] \in Code
      BY <2>1, <3>1, RowNumbers DEF IInv, Typed
    <3>3. codes'["LOGIN"][old.row] = [codes["LOGIN"][old.row] EXCEPT !.isUsed = TRUE]
      BY <1>5, <2>1, <3>1 DEF Used
    <3> QED BY <3>2, <3>3 DEF Code
  <2> QED BY <2>1, <2>2 DEF Frame, RowsKept, OtpPurpose
<1>8. Claim(work)'
  <2>1. StandsOn(work)'
    BY <1>4, <1>7 DEF StandsOn, Spent
  <2>2. work.on \notin crossed' => NothingElse(work)'
    BY <1>4, <1>5, <1>6 DEF Claim, NothingElse, Frame
  <2> QED BY <1>4, <1>5, <1>6, <2>1, <2>2 DEF Claim
<1>9. TokensKept /\ Joins(r, work)
    BY <1>2, <1>4, <1>5 DEF TokensKept, Joins
<1> QED BY <1>5, <1>8, <1>9, SessionsStay DEF IInv

\* The token that is replaced was the last one of its proof.
LEMMA RevokeSessions ==
    ASSUME IInv, Frame, NEW r \in Slots, RevokeReplaced(r)
    PROVE  Sessions'
<1>1. req[r] \in Refreshing /\ req[r].on \in Proof
    BY Kinds DEF IInv, Typed, RevokeReplaced, Refreshing
<1>2. PICK old : old = req[r]
    OBVIOUS
<1>3. PICK work : work = [old EXCEPT !.step = "session"]
    OBVIOUS
<1>4. /\ work.on = old.on /\ work.user = old.user /\ work.step = "session"
      /\ old.step = "revoke" /\ old.token \in Nat
    BY <1>1, <1>2, <1>3 DEF Refreshing, RevokeReplaced
<1>5. /\ req' = [req EXCEPT ![r] = work] /\ swept' = swept
      /\ users' = users /\ codes' = codes
      /\ tokens' = [tokens EXCEPT ![old.token].isRevoked = TRUE]
    BY <1>2, <1>3 DEF RevokeReplaced, Continue
<1>6. Claim(old)
    BY <1>1, <1>2 DEF IInv, Sessions
<1>7. /\ DOMAIN tokens' = DOMAIN tokens /\ TokensKept
      /\ old.token \in DOMAIN tokens => tokens'[old.token].isRevoked
    BY <1>4, <1>5, RevokingKeepsTokens DEF IInv
<1>8. Claim(work)'
  <2>1. StandsOn(work)'
    BY <1>4, <1>5, <1>6 DEF Claim, StandsOn, Spent
  <2>2. work.on \notin crossed' => NothingElse(work)'
    BY <1>4, <1>6, <1>7 DEF Claim, NothingElse, Frame, TokensKept
  <2> QED BY <1>4, <1>5, <1>6, <2>1, <2>2 DEF Claim
<1>9. Joins(r, work)
    BY <1>2, <1>4 DEF Joins
<1> QED BY <1>5, <1>7, <1>8, <1>9, SessionsStay DEF IInv

\* A logout revokes one token, whatever became of it.
LEMMA LogoutSessions ==
    ASSUME IInv, Frame, NEW r \in Slots, RevokeToken(r)
    PROVE  Sessions'
<1>1. req[r].token \in Nat
    BY Kinds DEF IInv, Typed, RevokeToken, LoggingOut
<1>2. /\ req' = [req EXCEPT ![r] = Idle] /\ swept' = swept
      /\ tokens' = [tokens EXCEPT ![req[r].token].isRevoked = TRUE]
    BY DEF RevokeToken, Continue
<1>3. DOMAIN tokens' = DOMAIN tokens /\ TokensKept
    BY <1>1, <1>2, RevokingKeepsTokens DEF IInv
<1>4. Idle.on = <<>> /\ Idle.on \notin Proof /\ Joins(r, Idle)
    BY Things DEF Idle, Joins
<1> QED BY <1>2, <1>3, <1>4, SessionsStay DEF IInv

\* A session is created where there is none, unless two were at work on the proof.
LEMMA CreateSessions ==
    ASSUME IInv, Frame, NEW r \in Slots, CreateSession(r)
    PROVE  Sessions'
<1>1. req[r].on \in Proof
    BY AtWhat DEF IInv, CreateSession
<1>2. PICK old : old = req[r]
    OBVIOUS
<1>3. PICK new : new = [user |-> old.user, proof |-> old.on, isRevoked |-> FALSE]
    OBVIOUS
<1>4. /\ req' = [req EXCEPT ![r] = Idle] /\ swept' = swept /\ users' = users
      /\ codes' = codes /\ tokens' = Append(tokens, new) /\ old.step = "session"
      /\ crossed' = crossed
    BY <1>2, <1>3 DEF CreateSession, Continue
<1>5. Claim(old)
    BY <1>1, <1>2 DEF IInv, Sessions
<1>6. PICK last : last = Len(tokens) + 1
    OBVIOUS
<1>7. /\ \A t \in DOMAIN tokens' : t = last \/ t \in DOMAIN tokens
      /\ \A t \in DOMAIN tokens : t # last /\ tokens'[t] = tokens[t]
      /\ tokens'[last] = new
    BY <1>4, <1>6 DEF IInv, Typed, TypeOK
<1>8. \A p : Spent(p)' <=> Spent(p)
    BY <1>4 DEF Spent
<1>9. \A q \in Slots : req'[q] = IF q = r THEN Idle ELSE req[q]
    BY <1>4 DEF IInv, Typed, TypeOK
<1>10. Alone'
    BY <1>4, AloneStays DEF IInv, Sessions, Joins, Idle
<1>11. ASSUME NEW q \in Slots, req'[q].on \in Proof PROVE Claim(req[q])'
  <2>1. q # r
    BY <1>9, <1>11, Things DEF Idle
  <2>2. PICK w : w = req[q]
    OBVIOUS
  <2>3. Claim(w) /\ req'[q] = w
    BY <1>9, <1>11, <2>1, <2>2 DEF IInv, Sessions
  <2>4. StandsOn(w)'
    BY <1>4, <1>8, <2>3 DEF Claim, StandsOn
  <2>5. w.on \notin crossed => w.on # old.on
    BY <1>1, <1>2, <2>1, <2>2, Things DEF IInv, Sessions, Alone
  <2>6. w.on \notin crossed' => NothingElse(w)'
    BY <1>3, <1>4, <1>7, <2>3, <2>5 DEF Claim, NothingElse
  <2>7. Claim(w)'
    BY <1>4, <2>3, <2>4, <2>6 DEF Claim
  <2> QED BY <2>3, <2>7 DEF Claim, StandsOn, NothingElse
<1>12. ASSUME NEW t \in DOMAIN tokens' PROVE Spent(tokens[t].proof)'
  <2>1. PICK p : p = tokens'[t].proof
    OBVIOUS
  <2>2. Spent(p)
    BY <1>3, <1>4, <1>5, <1>7, <1>12, <2>1 DEF IInv, Sessions, Claim, StandsOn
  <2> QED BY <1>8, <2>1, <2>2
<1>13. ASSUME NEW u \in Nat, NEW p \in Proof, <<u, p>> \in swept' PROVE Spent(p)'
    BY <1>4, <1>8, <1>13 DEF IInv, Sessions
<1>14. OneSessionPerProof'
  <2>1. old.on \notin crossed =>
          \A t \in DOMAIN tokens : tokens[t].isRevoked \/ tokens[t].proof # new.proof
    BY <1>3, <1>4, <1>5 DEF Claim, NothingElse
  <2> QED BY <1>3, <1>4, <1>7, <2>1 DEF IInv, Sessions, OneSessionPerProof
<1>15. LoggedOutIsOut'
    BY <1>3, <1>4, <1>5, <1>7 DEF IInv, Sessions, LoggedOutIsOut, Claim
<1> QED BY <1>10, <1>11, <1>12, <1>13, <1>14, <1>15 DEF Sessions

LEMMA NextSessions == IInv /\ [Next]_vars => Sessions'
<1> SUFFICES ASSUME IInv, [Next]_vars PROVE Sessions'
    OBVIOUS
<1>1. Frame
    BY NextFrame DEF IInv
<1>2. ASSUME NEW r \in Slots, AccountArrive(r) PROVE Sessions'
    BY <1>1, <1>2, ArrivalSessions, CompleteSessions, RefreshSessions, LogoutAllSessions
       DEF AccountArrive, IInv
<1>3. ASSUME NEW r \in Slots,
             AccountProceed(r) \/ AbortDeadlocked(r) \/ (Die(r) /\ UNCHANGED accountVars)
      PROVE  Sessions'
    BY <1>1, <1>3, StatementSessions, LinkSessions, MarkSessions, RevokeSessions,
       LogoutSessions, CreateSessions DEF AccountProceed, IInv
<1>4. CASE UNCHANGED vars
    BY <1>4 DEF vars, challengeVars, accountVars, IInv, Sessions, Alone, Claim, StandsOn,
       NothingElse, Spent, OneSessionPerProof, LoggedOutIsOut
<1> QED BY <1>2, <1>3, <1>4 DEF Next, Rest

-----------------------------------------------------------------------------
(***************************************************************************)
(* The phone.  Until two registrations are at work together, one that is   *)
(* at work found no user, and there is none.                               *)
(***************************************************************************)

SlotFree ==
    <<"slot">> \notin crossed => \A r \in Slots : req[r].on = <<"slot">> => users = 0

LEMMA NextSlot ==
    IInv /\ SlotFree /\ OneAccountPerPhone /\ [Next]_vars => SlotFree' /\ OneAccountPerPhone'
<1> SUFFICES ASSUME IInv, SlotFree, OneAccountPerPhone, [Next]_vars
             PROVE  SlotFree' /\ OneAccountPerPhone'
    OBVIOUS
<1>0. crossed \subseteq crossed' /\ req \in [Slots -> Request] /\ Typed /\ Typed'
    BY NextFrame, NextTyped DEF Frame, IInv, Typed, TypeOK, Request
<1>1. ASSUME NEW r \in Slots, LinkPhone(r) PROVE SlotFree' /\ OneAccountPerPhone'
  <2>1. req[r].on = <<"slot">>
    BY <1>0, <1>1, AtWhat DEF LinkPhone, SharesPhone
  <2>2. <<"slot">> \notin crossed' => users' = 1 /\ slot' = 1
    BY <1>0, <1>1, <2>1 DEF LinkPhone, SlotFree
  <2>3. ASSUME NEW q \in Slots, req'[q].on = <<"slot">> PROVE <<"slot">> \in crossed'
    <3>1. req'[r].op = "Register" /\ req'[r].step = "session"
      <4>1. req[r] \in Registering
        BY <1>0, <1>1, Kinds DEF Typed, LinkPhone, SharesPhone
      <4> QED BY <1>0, <1>1, <4>1 DEF LinkPhone, Continue, Registering
    <3>2. q # r
      BY <1>0, <2>3, <3>1, AtWhatNext
    <3>3. req[q].on = <<"slot">>
      BY <1>0, <1>1, <2>3, <3>2 DEF LinkPhone, Continue
    <3> QED BY <1>0, <2>1, <3>2, <3>3, Things DEF IInv, Sessions, Alone
  <2> QED BY <2>2, <2>3 DEF SlotFree, OneAccountPerPhone
<1>2. ASSUME NEW r \in Slots, ReadPhone(r) PROVE SlotFree' /\ OneAccountPerPhone'
  <2>1. slot = 0 /\ slot' = slot /\ users' = users
    BY <1>2 DEF ReadPhone, Start, accountVars
  <2> QED BY <1>0, <2>1 DEF SlotFree, OneAccountPerPhone
<1>3. ASSUME slot' = slot, users' = users,
             \A q \in Slots : req'[q].on = <<"slot">> => req[q].on = <<"slot">>
      PROVE  SlotFree' /\ OneAccountPerPhone'
    BY <1>0, <1>3 DEF SlotFree, OneAccountPerPhone
<1>4. ASSUME NEW r \in Slots, NEW work, req' = [req EXCEPT ![r] = work],
             work.on = <<"slot">> => req[r].on = <<"slot">>,
             slot' = slot, users' = users
      PROVE  SlotFree' /\ OneAccountPerPhone'
    BY <1>0, <1>3, <1>4
<1>5. ASSUME NEW r \in Slots, AccountArrive(r), ~ReadPhone(r)
      PROVE  SlotFree' /\ OneAccountPerPhone'
  <2>1. /\ slot' = slot /\ users' = users /\ req'[r].op # "Register"
        /\ \A q \in Slots : q # r => req'[q] = req[q]
    BY <1>0, <1>5, ArrivalShape
  <2> QED BY <1>0, <1>3, <2>1, AtWhatNext
<1>6. ASSUME NEW r \in Slots,
             AccountProceed(r) \/ AbortDeadlocked(r) \/ (Die(r) /\ UNCHANGED accountVars),
             ~LinkPhone(r)
      PROVE  SlotFree' /\ OneAccountPerPhone'
  <2>1. slot' = slot /\ users' = users
    BY <1>6 DEF AccountProceed, Proceed, InvalidatePrevious, SendMessage, InsertCode,
                MarkVerified, Grant, InsertUser, MarkCompleted, RevokeReplaced,
                CreateSession, RevokeToken, WriteMetadata, AbortDeadlocked, Die, accountVars
  <2>2. /\ \A q \in Slots : q # r => req'[q] = req[q]
        /\ req'[r] = Idle \/ req'[r].op = req[r].op
    BY <1>0, <1>6, ProceedShape
  <2>4. req'[r].on = <<"slot">> => req[r].on = <<"slot">>
    <3>1. CASE req'[r].op # "Register"
      BY <1>0, <3>1, AtWhatNext
    <3>2. CASE InsertUser(r)
      BY <1>0, <3>2, AtWhat DEF InsertUser
    <3>3. CASE CreateSession(r) \/ AbortDeadlocked(r) \/ (Die(r) /\ UNCHANGED accountVars)
      <4>1. req' = [req EXCEPT ![r] = Idle]
        BY <3>3 DEF CreateSession, AbortDeadlocked, Die, Continue
      <4> QED BY <1>0, <4>1, Things DEF Idle
    <3>4. CASE ~InsertUser(r) /\ ~CreateSession(r) /\ ~AbortDeadlocked(r)
               /\ ~(Die(r) /\ UNCHANGED accountVars)
      <4>1. req[r].op # "Register"
        BY <1>6, <3>4 DEF AccountProceed, Proceed, InvalidatePrevious, SendMessage,
           InsertCode, MarkVerified, Grant, MarkCompleted, RevokeReplaced, RevokeToken,
           WriteMetadata
      <4>2. req'[r].op # "Register"
        BY <2>2, <4>1 DEF Idle
      <4> QED BY <3>1, <4>2
    <3> QED BY <3>2, <3>3, <3>4
  <2> QED BY <1>3, <2>1, <2>2, <2>4
<1>7. CASE UNCHANGED vars
    BY <1>7 DEF vars, challengeVars, accountVars, SlotFree, OneAccountPerPhone
<1> QED BY <1>1, <1>2, <1>5, <1>6, <1>7 DEF Next, Rest

-----------------------------------------------------------------------------
(***************************************************************************)
(* The codes.  From the invalidation on, the one who sends a code leaves   *)
(* none to enter, and knows the number of the last one sent.               *)
(***************************************************************************)

Newest(p) ==
    LET last == Len(codes[p])
    IN  sent[p] > 0 => /\ last > 0 /\ codes[p][last].nr = sent[p]
                       /\ OpenRows(p) \subseteq {last}

SendingOf(p) ==
    <<"send", p>> \notin crossed =>
        /\ (\A r \in Slots : req[r].on # <<"send", p>>) => Newest(p)
        /\ \A r \in Slots : req[r].on = <<"send", p>> =>
            /\ req[r].step \in {"message", "insert"} => OpenRows(p) = {}
            /\ req[r].step = "insert" => req[r].nr = sent[p]

NothingElseSent == \A p \in OtpPurpose : SendingOf(p)

\* Who does not send a code of the purpose leaves its rows where they are.
LEMMA SendingStays ==
    ASSUME Typed, Typed', NEW p \in OtpPurpose, SendingOf(p), RowsKept,
           DOMAIN codes'[p] = DOMAIN codes[p], sent'[p] = sent[p],
           crossed \subseteq crossed',
           \A q \in Slots : req'[q].on = <<"send", p>> =>
                req'[q] = req[q] \/ req'[q].step = "invalidate",
           \A q \in Slots : req[q].on = <<"send", p>> =>
                req'[q].on = <<"send", p>> \/ <<"send", p>> \in crossed'
    PROVE  SendingOf(p)'
<1>1. OpenRows(p)' \subseteq OpenRows(p)
    BY DEF OpenRows, RowsKept
<1>2. codes[p] \in Seq(Code) /\ codes'[p] \in Seq(Code)
    BY DEF Typed, TypeOK
<1>3. Len(codes'[p]) = Len(codes[p]) /\ DOMAIN codes[p] = 1..Len(codes[p])
      /\ Len(codes[p]) \in Nat
    BY <1>2
<1>4. Newest(p) => Newest(p)'
    BY <1>1, <1>3 DEF Newest, RowsKept
<1> QED BY <1>1, <1>4 DEF SendingOf

\* A request that sends no code, before or after the step.
LEMMA OtherStays ==
    ASSUME Typed, Typed', NothingElseSent, Frame, NEW r \in Slots,
           \A q \in Slots : q # r => req'[q] = req[q],
           req[r].op # "Send", req'[r].op # "Send", sent' = sent,
           \A p \in OtpPurpose : DOMAIN codes'[p] = DOMAIN codes[p]
    PROVE  NothingElseSent'
<1> SUFFICES ASSUME NEW p \in OtpPurpose PROVE SendingOf(p)'
    BY DEF NothingElseSent
<1>1. \A q \in Slots : req[q].on = <<"send", p>> \/ req'[q].on = <<"send", p>> => q # r
    BY AtWhat, AtWhatNext
<1> QED BY <1>1, SendingStays DEF NothingElseSent, Frame

\* A sender's own steps do not concern the other purposes.
LEMMA OtherPurposesStay ==
    ASSUME Typed, Typed', NothingElseSent, Frame, NEW r \in Slots, req[r].op = "Send",
           \A q \in Slots : q # r => req'[q] = req[q],
           req'[r] = Idle \/ req'[r].on = req[r].on,
           NEW p \in OtpPurpose, p # req[r].purpose,
           DOMAIN codes'[p] = DOMAIN codes[p], sent'[p] = sent[p]
    PROVE  SendingOf(p)'
<1>1. req[r].on # <<"send", p>>
    BY AtWhat
<1>2. req'[r].on # <<"send", p>>
    BY <1>1, Things DEF Idle
<1>3. \A q \in Slots : req[q].on = <<"send", p>> \/ req'[q].on = <<"send", p>> => q # r
    BY <1>1, <1>2
<1> QED BY <1>3, SendingStays DEF NothingElseSent, Frame

\* What a sender of a purpose does, and nobody beside it unless they crossed.
LEMMA SenderStep ==
    ASSUME IInv, Typed', NothingElseSent, NEW r \in Slots,
           InvalidatePrevious(r) \/ SendMessage(r), UNCHANGED accountVars
    PROVE  NothingElseSent'
<1>1. PICK p \in OtpPurpose : /\ p = req[r].purpose /\ req[r].on = <<"send", p>>
                              /\ req[r].op = "Send" /\ req[r] \in Sending
    BY AtWhat, Kinds DEF InvalidatePrevious, SendMessage, IInv, Typed
<1>2. Frame /\ Typed /\ req \in [Slots -> Request]
  <2>1. Frame
    BY NextFrame DEF IInv, Next, AccountProceed, Proceed
  <2> QED BY <2>1 DEF IInv, Typed, TypeOK, Request
<1>3. /\ \A q \in Slots : q # r => req'[q] = req[q]
      /\ req'[r].on = req[r].on /\ crossed' = crossed
    BY <1>1, <1>2 DEF InvalidatePrevious, SendMessage, Continue, Sending
<1>4. ASSUME NEW x \in OtpPurpose, x # p PROVE SendingOf(x)'
  <2>1. codes'[x] = codes[x] /\ sent'[x] = sent[x]
    BY <1>1, <1>2, <1>4 DEF InvalidatePrevious, SendMessage, Typed, TypeOK
  <2> QED BY <1>1, <1>2, <1>3, <1>4, <2>1, OtherPurposesStay
<1>5. SendingOf(p)'
  <2>1. ASSUME <<"send", p>> \notin crossed
        PROVE  /\ req'[r].step \in {"message", "insert"} => OpenRows(p)' = {}
               /\ req'[r].step = "insert" => req'[r].nr = sent'[p]
    <3>1. CASE InvalidatePrevious(r)
      <4>1. codes'[p] = [i \in DOMAIN codes[p] |-> [codes[p][i] EXCEPT !.isUsed = TRUE]]
        BY <1>1, <1>2, <3>1 DEF InvalidatePrevious, Typed, TypeOK
      <4>2. \A i \in DOMAIN codes[p] : codes[p][i] \in Code
        BY <1>2, RowNumbers DEF Typed
      <4>3. OpenRows(p)' = {}
        BY <4>1, <4>2 DEF OpenRows, Code
      <4>4. req'[r].step = "message"
        BY <1>1, <1>2, <3>1 DEF InvalidatePrevious, Continue, Sending
      <4> QED BY <4>3, <4>4
    <3>2. CASE SendMessage(r)
      <4>1. codes' = codes /\ OpenRows(p) = {}
        BY <1>1, <2>1, <3>2 DEF SendMessage, NothingElseSent, SendingOf
      <4>2. req'[r].nr = sent[p] + 1 /\ sent'[p] = sent[p] + 1
        BY <1>1, <1>2, <3>2 DEF SendMessage, Continue, Sending, Typed, TypeOK
      <4> QED BY <4>1, <4>2 DEF OpenRows
    <3> QED BY <3>1, <3>2
  <2>2. \A q \in Slots : q # r /\ req'[q].on = <<"send", p>> => <<"send", p>> \in crossed
    BY <1>1, <1>3, Things DEF IInv, Sessions, Alone
  <2> QED BY <1>1, <1>3, <2>1, <2>2 DEF SendingOf
<1> QED BY <1>4, <1>5 DEF NothingElseSent

LEMMA InsertStep ==
    ASSUME IInv, Typed', NothingElseSent, NEW r \in Slots, InsertCode(r),
           UNCHANGED accountVars
    PROVE  NothingElseSent'
<1>1. PICK p \in OtpPurpose : /\ p = req[r].purpose /\ req[r].on = <<"send", p>>
                              /\ req[r].op = "Send" /\ req[r].step = "insert"
    BY AtWhat DEF InsertCode, IInv
<1>2. /\ Frame /\ Typed /\ \A q \in Slots : q # r => req'[q] = req[q]
      /\ req'[r] = Idle /\ sent' = sent /\ crossed' = crossed
  <2>1. Frame
    BY NextFrame DEF IInv, Next, AccountProceed, Proceed
  <2>2. req \in [Slots -> Request]
    BY DEF IInv, Typed, TypeOK, Request
  <2> QED BY <2>1, <2>2 DEF InsertCode, Continue, IInv
<1>3. ASSUME NEW x \in OtpPurpose, x # p PROVE SendingOf(x)'
    BY <1>1, <1>2, <1>3, InsertingKeepsRows, OtherPurposesStay
<1>4. SendingOf(p)'
  <2> SUFFICES ASSUME <<"send", p>> \notin crossed, sent[p] > 0 PROVE Newest(p)'
    <3>1. \A q \in Slots : req'[q].on = <<"send", p>> => q # r /\ req[q].on = <<"send", p>>
      <4>1. req'[r].on = <<>> /\ <<"send", p>> # <<>>
        BY <1>2, Things DEF Idle
      <4> QED BY <1>2, <4>1
    <3>2. \A q \in Slots : req'[q].on = <<"send", p>> => <<"send", p>> \in crossed
      BY <1>1, <3>1, Things DEF IInv, Sessions, Alone
    <3> QED BY <1>2, <3>2 DEF SendingOf, Newest
  <2> DEFINE last == Len(codes[p]) + 1
  <2>1. OpenRows(p) = {} /\ req[r].nr = sent[p]
    BY <1>1 DEF NothingElseSent, SendingOf
  <2>2. /\ last \in Nat \ {0} /\ Len(codes'[p]) = last
        /\ DOMAIN codes[p] = 1..(last - 1) /\ DOMAIN codes'[p] = 1..last
        /\ \A i \in DOMAIN codes[p] : codes'[p][i] = codes[p][i]
        /\ codes'[p][last] = [nr |-> req[r].nr, isUsed |-> FALSE]
    BY <1>1, InsertingKeepsRows DEF IInv
  <2> HIDE DEF last
  <2>3. OpenRows(p)' \subseteq {last}
    BY <2>1, <2>2 DEF OpenRows
  <2> QED BY <1>2, <2>1, <2>2, <2>3 DEF Newest
<1> QED BY <1>1, <1>3, <1>4 DEF NothingElseSent

LEMMA NextSending ==
    IInv /\ NothingElseSent /\ [Next]_vars => NothingElseSent'
<1> SUFFICES ASSUME IInv, NothingElseSent, [Next]_vars PROVE NothingElseSent'
    OBVIOUS
<1>0. Frame /\ Typed /\ Typed' /\ req \in [Slots -> Request] /\ "LOGIN" \in OtpPurpose
    BY NextFrame, NextTyped DEF IInv, Typed, TypeOK, Request, OtpPurpose
<1>1. ASSUME NEW r \in Slots, AccountArrive(r) PROVE NothingElseSent'
  <2>1. /\ codes' = codes /\ sent' = sent /\ req[r] = Idle
        /\ req'[r].op = "Send" => req'[r].step = "invalidate"
        /\ \A q \in Slots : q # r => req'[q] = req[q]
    BY <1>0, <1>1, ArrivalShape
  <2> SUFFICES ASSUME NEW p \in OtpPurpose PROVE SendingOf(p)'
    BY DEF NothingElseSent
  <2>2. req[r].on # <<"send", p>>
    BY <2>1, Things DEF Idle
  <2>3. req'[r].on = <<"send", p>> => req'[r].step = "invalidate"
    BY <1>0, <2>1, AtWhatNext
  <2> QED BY <1>0, <2>1, <2>2, <2>3, SendingStays DEF NothingElseSent, Frame
<1>2. ASSUME NEW r \in Slots, MarkVerified(r) \/ MarkCompleted(r)
      PROVE  NothingElseSent'
  <2>1. sent' = sent /\ \A p \in OtpPurpose : DOMAIN codes'[p] = DOMAIN codes[p]
    <3>1. CASE MarkVerified(r)
      <4>1. req[r].purpose \in OtpPurpose /\ req[r].row \in Nat
        BY <1>0, <3>1, Kinds DEF MarkVerified, Entering, Typed
      <4> QED BY <1>0, <3>1, <4>1, UsingKeepsRows DEF MarkVerified
    <3>2. CASE MarkCompleted(r)
      <4>1. req[r].row \in Nat
        BY <1>0, <3>2, Kinds DEF MarkCompleted, Completing, Typed
      <4> QED BY <1>0, <3>2, <4>1, UsingKeepsRows DEF MarkCompleted
    <3> QED BY <1>2, <3>1, <3>2
  <2>2. /\ \A q \in Slots : q # r => req'[q] = req[q]
        /\ req[r].op # "Send" /\ req'[r].op # "Send"
    <3>1. req[r] \in Entering \cup Completing
      BY <1>0, <1>2, Kinds DEF Typed, MarkVerified, MarkCompleted
    <3> QED BY <1>0, <1>2, <3>1 DEF MarkVerified, MarkCompleted, Continue, Entering,
               Completing
  <2> QED BY <1>0, <2>1, <2>2, OtherStays
<1>3. ASSUME NEW r \in Slots,
             \/ Grant(r) /\ UNCHANGED accountVars
             \/ InsertUser(r) \/ LinkPhone(r) \/ RevokeReplaced(r) \/ CreateSession(r)
             \/ RevokeToken(r) \/ WriteMetadata(r) \/ AbortDeadlocked(r)
      PROVE  NothingElseSent'
  <2>1. codes' = codes /\ sent' = sent /\ req[r].op # "Send"
    BY <1>3 DEF Grant, InsertUser, LinkPhone, SharesPhone, RevokeReplaced, CreateSession,
                RevokeToken, WriteMetadata, AbortDeadlocked
  <2>2. /\ \A q \in Slots : q # r => req'[q] = req[q]
        /\ req'[r].op # "Send"
    BY <1>0, <1>3, <2>1, ProceedShape DEF AccountProceed, Proceed, Idle
  <2> QED BY <1>0, <2>1, <2>2, OtherStays
<1>4. ASSUME NEW r \in Slots, Die(r), UNCHANGED accountVars PROVE NothingElseSent'
  <2>1. /\ codes' = codes /\ sent' = sent /\ req' = [req EXCEPT ![r] = Idle]
        /\ req[r].op = "Send" => req[r].on \in crossed'
    BY <1>4 DEF Die
  <2> SUFFICES ASSUME NEW p \in OtpPurpose PROVE SendingOf(p)'
    BY DEF NothingElseSent
  <2>2. req'[r].on # <<"send", p>>
    BY <1>0, <2>1, Things DEF Idle
  <2>3. req[r].on = <<"send", p>> => <<"send", p>> \in crossed'
    BY <1>0, <2>1, AtWhat
  <2> QED BY <1>0, <2>1, <2>2, <2>3, SendingStays DEF NothingElseSent, Frame
<1>5. CASE UNCHANGED vars
    BY <1>5 DEF vars, challengeVars, NothingElseSent, SendingOf, Newest, OpenRows
<1> QED BY <1>1, <1>2, <1>3, <1>4, <1>5, SenderStep, InsertStep, NextTyped
        DEF Next, Rest, AccountProceed, Proceed, IInv

-----------------------------------------------------------------------------
(***************************************************************************)
(* The theorems.                                                           *)
(***************************************************************************)

LEMMA InitIInv == AccountInit => IInv /\ SlotFree /\ OneAccountPerPhone /\ NothingElseSent
<1> SUFFICES ASSUME AccountInit
             PROVE  IInv /\ SlotFree /\ OneAccountPerPhone /\ NothingElseSent
    OBVIOUS
<1>1. /\ \A r \in Slots : req[r] = Idle
      /\ tokens = <<>> /\ swept = {} /\ users = 0 /\ slot = 0
      /\ \A p \in OtpPurpose : codes[p] = <<>> /\ sent[p] = 0
    BY DEF AccountInit, Init
<1>2. DOMAIN tokens = {} /\ \A p \in OtpPurpose : DOMAIN codes[p] = {}
    BY <1>1
<1>3. Numbers
    BY <1>1, <1>2 DEF Numbers, Inserting, Idle, OtpPurpose
<1>4. Sessions
    BY <1>1, <1>2, Things DEF Sessions, Alone, Idle, OneSessionPerProof, LoggedOutIsOut
<1>5. SlotFree /\ OneAccountPerPhone
    BY <1>1 DEF SlotFree, OneAccountPerPhone
<1>6. NothingElseSent
    BY <1>1, <1>2, Things DEF NothingElseSent, SendingOf, Newest, Idle
<1> QED BY <1>3, <1>4, <1>5, <1>6, InitTyped DEF IInv

LEMMA NextIInv == IInv /\ [Next]_vars => IInv'
BY NextTyped, NextNumbers, NextSessions DEF IInv

\* A registration or a code of a login keeps one device logged in, whatever is refreshed,
\* revoked or abandoned, unless two requests worked on it together.
THEOREM AlwaysOneSession == Spec => []OneSessionPerProof
<1>1. IInv => OneSessionPerProof
    BY DEF IInv, Sessions
<1> QED BY <1>1, InitIInv, NextIInv, PTL DEF Spec

\* The sessions that a logout of all devices ended stay ended; those somebody was at work
\* on are left out.
THEOREM AlwaysLoggedOut == Spec => []LoggedOutIsOut
<1>1. IInv => LoggedOutIsOut
    BY DEF IInv, Sessions
<1> QED BY <1>1, InitIInv, NextIInv, PTL DEF Spec

\* One phone, one account, until two registrations are at work together.
THEOREM AlwaysOneAccount == Spec => []OneAccountPerPhone
BY InitIInv, NextIInv, NextSlot, PTL DEF Spec

\* Once it was sent, the last code is the one that can be entered, unless two requests
\* sent codes of the purpose together or one stopped half-way.
THEOREM AlwaysNewest == Spec => []NewestCodeWorks
<1>1. NothingElseSent => NewestCodeWorks
    BY DEF NothingElseSent, SendingOf, Newest, NewestCodeWorks
<1> QED BY <1>1, InitIInv, NextIInv, NextSending, PTL DEF Spec

SkipStep ==
    \A user \in 1..users : \A label \in skippedSteps[user] \ skippedSteps'[user] :
        \E r \in Slots : /\ req[r].op \in {"Skip", "Reset"} /\ req[r].user = user
                         /\ label \notin req[r].seen
                         /\ req'[r] # req[r]

\* A skipped step is taken back by nothing but a write of metadata read before it.
THEOREM StaleWritesUnskip == Spec => SkipsStay
<1>1. Typed /\ [Next]_vars => [SkipStep]_vars
  <2> SUFFICES ASSUME Typed, Next PROVE SkipStep \/ UNCHANGED vars
    OBVIOUS
  <2>1. ASSUME NEW r \in Slots, WriteMetadata(r) PROVE SkipStep
    <3>1. req[r] \in Annotating
      BY <2>1, Kinds DEF Typed, WriteMetadata
    <3>2. /\ skippedSteps' = [skippedSteps EXCEPT ![req[r].user] = req[r].seen \cup req[r].adds]
          /\ req'[r] = Idle /\ req[r] # Idle
      BY <2>1 DEF WriteMetadata, Continue, Typed, TypeOK, Idle
    <3>3. skippedSteps \in [1..users -> SUBSET Steps]
      BY DEF Typed, TypeOK
    <3>4. ASSUME NEW user \in 1..users, NEW label \in skippedSteps[user] \ skippedSteps'[user]
          PROVE  req[r].user = user /\ label \notin req[r].seen
      BY <3>2, <3>3, <3>4
    <3> QED BY <2>1, <3>2, <3>4 DEF SkipStep, WriteMetadata
  <2>2. ASSUME NEW r \in Slots, LinkPhone(r) PROVE SkipStep
    <3>1. skippedSteps \in Seq(SUBSET Steps) /\ Len(skippedSteps) = users
      BY DEF Typed, TypeOK
    <3>2. \A user \in 1..users : Append(skippedSteps, {})[user] = skippedSteps[user]
      BY <3>1
    <3> QED BY <2>2, <3>2 DEF SkipStep, LinkPhone
  <2>3. ASSUME skippedSteps' = skippedSteps PROVE SkipStep
    BY <2>3 DEF SkipStep
  <2>4. ASSUME NEW r \in Slots, AccountArrive(r) PROVE skippedSteps' = skippedSteps
    BY <2>4 DEF AccountArrive, ReadPhone, ReadToComplete, LogoutAllDevices, ReadToReset,
                ReadToSkip, ReadToRefresh, ReadToLogout, accountVars
  <2>5. ASSUME NEW r \in Slots,
               \/ AccountProceed(r) \/ AbortDeadlocked(r) \/ (Die(r) /\ UNCHANGED accountVars),
               ~WriteMetadata(r), ~LinkPhone(r)
        PROVE  skippedSteps' = skippedSteps
    BY <2>5 DEF AccountProceed, InsertUser, MarkCompleted, RevokeReplaced, CreateSession,
                RevokeToken, AbortDeadlocked, accountVars
  <2> QED BY <2>1, <2>2, <2>3, <2>4, <2>5 DEF Next, Rest
<1> QED BY <1>1, InitTyped, NextTyped, PTL DEF Spec, SkipsStay, SkipStep
=============================================================================
