--------------------------- MODULE AccountsProofs ---------------------------
(***************************************************************************)
(* What Accounts guarantees for any rules, threads, authorizations and     *)
(* interleavings: the stored credentials are those of the last             *)
(* authorization and are refreshed by one caller at a time, an             *)
(* authorization is used once, and a disconnected account writes nothing.  *)
(*                                                                         *)
(* The invariant says what each party relies on while it is at work: the   *)
(* caller that refreshes holds the lock, a callback that has not connected *)
(* brings a grant nobody has seen, and a disconnection has already dealt   *)
(* with the rules that are not on its list any more.                       *)
(***************************************************************************)
EXTENDS Accounts, TLAPS

Refreshing == {"refreshing", "keeping"}

\* Only a token that has a successor expires.
TokensLeft == \A c \in expired : c.token < MaxTokens

CallShape ==
  \A t \in Callers :
    /\ call[t].at = "idle" => call[t].rule = None
    /\ call[t].at \in Refreshing => call[t].cred \in expired
    /\ call[t].at = "using" => call[t].cred \in Credentials

OnlyHolder == \A t \in Callers : call[t].at \in Refreshing => refreshing = t

\* Nobody holds a grant before the callback that obtains it has connected.
FreshGrants ==
  \A c \in Callbacks : callback[c].at # "connected" =>
    /\ latest # c
    /\ \A t \in Callers : call[t].at \in Refreshing => call[t].cred.grant # c

Consumed ==
  \A c \in Callbacks : callback[c].at \in {"exchanging", "connected"} =>
    callback[c].via \in States /\ state[callback[c].via] = "consumed"

\* A rule writes now, or would at its next run.
MayWrite(r) == rule[r] = "enabled" \/ Writing(r)

RunsExist == \A r \in Rules : Running(r) => Exists(r)

\* What a disconnection has behind it ...
Degraded ==
  disconnect.at = "degrading" =>
    \A r \in Rules \ disconnect.todo : MayWrite(r) => r \in reenabled

\* ... and what it leaves.
Stopped ==
  (account # None /\ ~account.connected) => \A r \in Rules : MayWrite(r) => r \in reenabled

Inv ==
  /\ TypeOK /\ TokensLeft /\ CallShape /\ OnlyHolder
  /\ StoredIsLatest /\ RefreshedOnce /\ FreshGrants
  /\ Consumed /\ SingleUse
  /\ RunsExist /\ Degraded /\ Stopped

-----------------------------------------------------------------------------
(***************************************************************************)
(* The steps, by whose they are.                                           *)
(***************************************************************************)
Calling(t) ==
  \/ CallSteps(t) \/ AskGoogle(t)
  \/ \E r \in Rules : StartRun(t, r)
  \/ t = Scheduler /\ Report

Authorizing ==
  \/ \E s \in States : StartAuthorization(s)
  \/ \E c \in Callbacks : CallbackSteps(c) \/ \E s \in States, code, late \in BOOLEAN : Callback(c, s, code, late)

GoogleSteps == TokenExpires \/ Revoke

RuleSteps(r) == CreateRule(r) \/ PreviewRule(r) \/ EnableRule(r) \/ PauseRule(r) \/ Degrade(r)

LEMMA Steps ==
  Next => \/ \E t \in Callers : Calling(t)
          \/ Authorizing
          \/ GoogleSteps
          \/ \E r \in Rules : RuleSteps(r)
          \/ Disconnect \/ Discard \/ DeleteAccount \/ Restart
  BY DEF Next, Calling, Authorizing, GoogleSteps, RuleSteps, Callers

LEMMA Budget ==
  ASSUME TypeOK, NEW what \in {"admin", "google"}, Spend(what)
  PROVE  left' \in [admin : 0..MaxAdmin, google : 0..MaxGoogle]
<1>1. left \in [admin : 0..MaxAdmin, google : 0..MaxGoogle] BY DEF TypeOK
<1>2. left' = [left EXCEPT ![what] = left[what] - 1] /\ left[what] > 0 BY DEF Spend
<1>3. CASE what = "admin" BY <1>1, <1>2, <1>3, AccountsAssumption
<1>4. CASE what = "google" BY <1>1, <1>2, <1>4, AccountsAssumption
<1> QED BY <1>3, <1>4

-----------------------------------------------------------------------------
(***************************************************************************)
(* What a caller does to its own call, and to nobody else's.               *)
(***************************************************************************)
Typed(c) ==
  c \in [at : {"idle", "asking", "refreshing", "keeping", "using", "deciding", "failed"},
         for : {None, "request", "read", "write"}, rule : Rules \cup {None},
         id : 0..MaxIds, cred : Credentials \cup {None}]

LEMMA CallsTyped == TypeOK => \A t \in Callers : Typed(call[t])
  BY DEF TypeOK, Typed

LEMMA NoCallTyped == Typed(NoCall)
  BY AccountsAssumption DEF Typed, NoCall

LEMMA NextTyped ==
  ASSUME NEW cred \in Credentials, cred.token < MaxTokens
  PROVE  NextToken(cred) \in Credentials /\ NextToken(cred).grant = cred.grant
  BY AccountsAssumption DEF NextToken, Credentials

\* A connected account holds real credentials: what a disconnected one keeps was never a grant.
LEMMA ConnectedTyped ==
  ASSUME TypeOK, StoredIsLatest, Connected
  PROVE  account.cred \in Credentials /\ account.cred.grant = latest /\ account.id \in 1..MaxIds
<1>1. account.cred \in Credentials \cup {Cleared} /\ account.id \in 1..MaxIds BY DEF TypeOK, Connected
<1>2. account.cred.grant = latest BY DEF StoredIsLatest, Connected
<1>3. latest \in Callbacks \cup {First} BY DEF TypeOK
<1>4. Cleared.grant \notin Callbacks \cup {First}
  BY AccountsAssumption DEF Cleared, First
<1> QED BY <1>1, <1>2, <1>3, <1>4

LEMMA OwnCall ==
  ASSUME TypeOK, NEW t \in Callers, NEW c, call' = [call EXCEPT ![t] = c]
  PROVE  call'[t] = c /\ \A u \in Callers \ {t} : call'[u] = call[u]
  BY DEF TypeOK

\* The shape of the record a step of t leaves behind.
Ended(c) == Typed(c) /\ ((c.at = "idle" /\ c.rule = None) \/ c.at = "failed")

LEMMA FailFacts ==
  ASSUME TypeOK, NEW t \in Callers, call' = Fail(t)
  PROVE  /\ Ended(call'[t]) /\ call'[t].rule \in {None, call[t].rule}
         /\ \A u \in Callers \ {t} : call'[u] = call[u]
<1>1. PICK c : /\ c = IF t = Scheduler THEN [NoCall EXCEPT !.at = "failed", !.rule = call[t].rule]
                      ELSE NoCall
               /\ call' = [call EXCEPT ![t] = c]
  BY DEF Fail
<1>2. call'[t] = c /\ \A u \in Callers \ {t} : call'[u] = call[u] BY <1>1, OwnCall
<1>3. Typed(call[t]) BY CallsTyped
<1>4. CASE t = Scheduler
  <2>1. c = [NoCall EXCEPT !.at = "failed", !.rule = call[t].rule] BY <1>1, <1>4
  <2>2. c = [at |-> "failed", for |-> None, rule |-> call[t].rule, id |-> 0, cred |-> None]
    BY <2>1 DEF NoCall
  <2>3. call[t].rule \in Rules \cup {None} BY <1>3 DEF Typed
  <2> QED BY <1>2, <2>2, <2>3, AccountsAssumption DEF Ended, Typed
<1>5. CASE t # Scheduler
  <2>1. c = NoCall BY <1>1, <1>5
  <2> QED BY <1>2, <2>1, NoCallTyped DEF Ended, NoCall
<1> QED BY <1>4, <1>5

\* What a step of t changes besides the call itself.
LEMMA CallerFrame ==
  ASSUME TypeOK, OnlyHolder, NEW t \in Callers, Calling(t)
  PROVE  /\ UNCHANGED <<ids, latest, google, authorizations, disconnecting>>
         /\ left' \in [admin : 0..MaxAdmin, google : 0..MaxGoogle]
         /\ account' = account \/ Keep(t)
         /\ rule' = rule \/ (t = Scheduler /\ Report)
         /\ \/ refreshing' = refreshing
            \/ refreshing = None /\ refreshing' = t
            \/ refreshing = t /\ refreshing' = None
<1> USE DEF credentials, google, authorizations, disconnecting
<1>0. left \in [admin : 0..MaxAdmin, google : 0..MaxGoogle] BY DEF TypeOK
<1>1. CASE Unavailable(t) \/ StillValid(t) \/ Refreshed(t) \/ Answer(t) \/ Rejected(t) \/ Decide(t)
  BY <1>0, <1>1 DEF Unavailable, StillValid, Refreshed, Answer, Rejected, Decide
<1>2. CASE Refresh(t)
  BY <1>0, <1>2 DEF Refresh
<1>3. CASE RefreshRefused(t)
  <2>1. left' \in [admin : 0..MaxAdmin, google : 0..MaxGoogle]
    BY <1>0, <1>3, Budget DEF RefreshRefused
  <2>2. refreshing = t BY <1>3 DEF RefreshRefused, OnlyHolder, Refreshing
  <2> QED BY <1>3, <2>1, <2>2 DEF RefreshRefused
<1>4. CASE Keep(t)
  <2>1. refreshing = t BY <1>4 DEF Keep, OnlyHolder, Refreshing
  <2> QED BY <1>0, <1>4, <2>1 DEF Keep
<1>5. CASE AskGoogle(t)
  <2>1. left' \in [admin : 0..MaxAdmin, google : 0..MaxGoogle] BY <1>5, Budget DEF AskGoogle
  <2> QED BY <1>5, <2>1 DEF AskGoogle
<1>6. ASSUME NEW r \in Rules, StartRun(t, r)
      PROVE  /\ UNCHANGED <<credentials, google, authorizations, disconnecting, rule, refreshing>>
             /\ left' \in [admin : 0..MaxAdmin, google : 0..MaxGoogle]
  <2>1. left' \in [admin : 0..MaxAdmin, google : 0..MaxGoogle] BY <1>0, <1>6, Budget DEF StartRun
  <2> QED BY <1>6, <2>1 DEF StartRun
<1>7. CASE t = Scheduler /\ Report
  BY <1>0, <1>7 DEF Report
<1> QED BY <1>1, <1>2, <1>3, <1>4, <1>5, <1>6, <1>7 DEF Calling, CallSteps

\* Where a step of t leaves its call.
Left(t) ==
  \/ Ended(call'[t])
  \/ Typed(call'[t]) /\ call'[t].at \in {"asking", "deciding"}
  \/ Typed(call'[t]) /\ call'[t].at = "using" /\ call'[t].cred \in Credentials
  \/ /\ Typed(call'[t]) /\ call'[t].at = "refreshing" /\ refreshing' = t
     /\ Connected /\ account' = account
     /\ call'[t].cred = account.cred /\ account.cred \in expired
  \/ /\ Typed(call'[t]) /\ call'[t].at = "keeping" /\ call[t].at = "refreshing"
     /\ refreshing' = refreshing /\ account' = account
     /\ call'[t].id = call[t].id /\ call'[t].cred = call[t].cred

Writes(c, r) == c.rule = r /\ c.for = "write" /\ c.at # "failed"
Runs(c, r) == c.rule = r /\ c.at \notin {"idle", "failed"}

\* A call goes on with the rule it has, or takes up an enabled one; it begins to write only for
\* an enabled rule.
Continues(t) ==
  \A r \in Rules :
    /\ Writes(call'[t], r) => Writes(call[t], r) \/ rule[r] = "enabled"
    /\ Runs(call'[t], r) => Runs(call[t], r) \/ rule[r] = "enabled"

LEMMA CallerFacts ==
  ASSUME TypeOK, TokensLeft, CallShape, StoredIsLatest, NEW t \in Callers, Calling(t)
  PROVE  Left(t) /\ Continues(t) /\ \A u \in Callers \ {t} : call'[u] = call[u]
<1> USE DEF credentials, google, authorizations, disconnecting
<1>0. Typed(call[t]) BY CallsTyped
<1>1. ASSUME Ended(call'[t])
      PROVE  Left(t) /\ Continues(t)
  BY <1>1, AccountsAssumption DEF Ended, Left, Continues, Runs, Writes
<1>2. CASE Unavailable(t) \/ Rejected(t)
  BY <1>1, <1>2, FailFacts DEF Unavailable, Rejected
<1>3. ASSUME call' = [call EXCEPT ![t] = NoCall]
      PROVE  Left(t) /\ Continues(t) /\ \A u \in Callers \ {t} : call'[u] = call[u]
  <2>1. call'[t] = NoCall /\ \A u \in Callers \ {t} : call'[u] = call[u] BY <1>3, OwnCall
  <2>2. Ended(call'[t]) BY <2>1, NoCallTyped DEF Ended, NoCall
  <2> QED BY <1>1, <2>1, <2>2
<1>4. CASE StillValid(t)
  <2>1. /\ call'[t] = [call[t] EXCEPT !.at = "using", !.cred = account.cred]
        /\ \A u \in Callers \ {t} : call'[u] = call[u]
    BY <1>4 DEF StillValid, TypeOK
  <2>2. account.cred \in Credentials BY <1>4, ConnectedTyped DEF StillValid
  <2>3. Typed(call'[t]) /\ call'[t].at = "using" /\ call'[t].cred \in Credentials
    BY <1>0, <2>1, <2>2 DEF Typed
  <2>4. call[t].at = "asking" BY <1>4 DEF StillValid
  <2>5. call'[t].rule = call[t].rule /\ call'[t].for = call[t].for BY <1>0, <2>1 DEF Typed
  <2> QED BY <2>1, <2>3, <2>4, <2>5 DEF Left, Continues, Runs, Writes
<1>5. CASE Refresh(t)
  <2>1. /\ call'[t] = [call[t] EXCEPT !.at = "refreshing", !.cred = account.cred]
        /\ \A u \in Callers \ {t} : call'[u] = call[u]
    BY <1>5 DEF Refresh, TypeOK
  <2>2. account.cred \in Credentials BY <1>5, ConnectedTyped DEF Refresh
  <2>3. Typed(call'[t]) /\ call'[t].at = "refreshing" /\ call'[t].cred = account.cred
    BY <1>0, <2>1, <2>2 DEF Typed
  <2>4. call[t].at = "asking" BY <1>5 DEF Refresh
  <2>5. call'[t].rule = call[t].rule /\ call'[t].for = call[t].for BY <1>0, <2>1 DEF Typed
  <2>6. Left(t) BY <1>5, <2>3 DEF Left, Refresh
  <2> QED BY <2>1, <2>3, <2>4, <2>5, <2>6 DEF Continues, Runs, Writes
<1>6. CASE Refreshed(t)
  <2>1. /\ call'[t] = [call[t] EXCEPT !.at = "keeping"]
        /\ \A u \in Callers \ {t} : call'[u] = call[u]
    BY <1>6 DEF Refreshed, TypeOK
  <2>2. /\ Typed(call'[t]) /\ call'[t].at = "keeping" /\ call[t].at = "refreshing"
        /\ call'[t].id = call[t].id /\ call'[t].cred = call[t].cred
        /\ call'[t].rule = call[t].rule /\ call'[t].for = call[t].for
    BY <1>0, <1>6, <2>1 DEF Typed, Refreshed
  <2>3. Left(t) BY <1>6, <2>2 DEF Left, Refreshed
  <2> QED BY <2>1, <2>2, <2>3 DEF Continues, Runs, Writes
<1>7. CASE RefreshRefused(t)
  BY <1>1, <1>3, <1>7, FailFacts DEF RefreshRefused
<1>8. CASE Keep(t)
  <2>1. /\ call'[t] = [call[t] EXCEPT !.at = "using", !.cred = NextToken(call[t].cred)]
        /\ \A u \in Callers \ {t} : call'[u] = call[u]
    BY <1>8 DEF Keep, TypeOK
  <2>2. NextToken(call[t].cred) \in Credentials
    BY <1>8, NextTyped DEF Keep, CallShape, Refreshing, TokensLeft, TypeOK
  <2>3. Typed(call'[t]) /\ call'[t].at = "using" /\ call'[t].cred \in Credentials
    BY <1>0, <2>1, <2>2 DEF Typed
  <2>4. call[t].at = "keeping" BY <1>8 DEF Keep
  <2>5. call'[t].rule = call[t].rule /\ call'[t].for = call[t].for BY <1>0, <2>1 DEF Typed
  <2> QED BY <2>1, <2>3, <2>4, <2>5 DEF Left, Continues, Runs, Writes
<1>9. CASE AskGoogle(t)
  <2>1. account.id \in 0..MaxIds BY <1>9, AccountsAssumption DEF AskGoogle, TypeOK
  <2>2. call'[t] = [at |-> "asking", for |-> "request", rule |-> None, id |-> account.id, cred |-> None]
        /\ \A u \in Callers \ {t} : call'[u] = call[u]
    BY <1>9 DEF AskGoogle, NoCall, TypeOK
  <2>3. Typed(call'[t]) /\ call'[t].at = "asking" BY <2>1, <2>2 DEF Typed
  <2> QED BY <2>2, <2>3, AccountsAssumption DEF Left, Continues, Runs, Writes
<1>10. ASSUME NEW r \in Rules, StartRun(t, r)
       PROVE  Left(t) /\ Continues(t) /\ \A u \in Callers \ {t} : call'[u] = call[u]
  <2>1. account.id \in 0..MaxIds BY <1>10, AccountsAssumption DEF StartRun, TypeOK
  <2>2. call'[t] = [at |-> "asking", for |-> "read", rule |-> r, id |-> account.id, cred |-> None]
        /\ \A u \in Callers \ {t} : call'[u] = call[u]
    BY <1>10 DEF StartRun, NoCall, TypeOK
  <2>3. Typed(call'[t]) /\ call'[t].at = "asking" BY <2>1, <2>2 DEF Typed
  <2> QED BY <1>10, <2>2, <2>3 DEF Left, Continues, Runs, Writes, StartRun
<1>11. CASE Answer(t)
  <2>1. CASE call[t].for = "read"
    <3>1. /\ call'[t] = [call[t] EXCEPT !.at = "deciding", !.cred = None]
          /\ \A u \in Callers \ {t} : call'[u] = call[u]
      BY <1>11, <2>1 DEF Answer, TypeOK
    <3>2. Typed(call'[t]) /\ call'[t].at = "deciding" BY <1>0, <3>1 DEF Typed
    <3>3. call'[t].rule = call[t].rule /\ call'[t].for = call[t].for BY <1>0, <3>1 DEF Typed
    <3>4. call[t].at = "using" BY <1>11 DEF Answer
    <3> QED BY <3>1, <3>2, <3>3, <3>4 DEF Left, Continues, Runs, Writes
  <2>2. CASE call[t].for # "read"
    BY <1>3, <1>11, <2>2 DEF Answer
  <2> QED BY <2>1, <2>2
<1>12. CASE Decide(t)
  <2>1. CASE rule[call[t].rule] = "enabled" /\ call' = [call EXCEPT ![t].at = "asking", ![t].for = "write"]
    <3>1. /\ call'[t] = [call[t] EXCEPT !.at = "asking", !.for = "write"]
          /\ \A u \in Callers \ {t} : call'[u] = call[u]
      BY <2>1 DEF TypeOK
    <3>2. /\ Typed(call'[t]) /\ call'[t].at = "asking"
          /\ call'[t].rule = call[t].rule
      BY <1>0, <3>1 DEF Typed
    <3> QED BY <2>1, <3>1, <3>2 DEF Left, Continues, Runs, Writes
  <2> QED BY <1>3, <1>12, <2>1 DEF Decide
<1>13. CASE t = Scheduler /\ Report
  BY <1>3, <1>13 DEF Report
<1> QED
  BY <1>2, <1>3, <1>4, <1>5, <1>6, <1>7, <1>8, <1>9, <1>10, <1>11, <1>12, <1>13
  DEF Calling, CallSteps

LEMMA CallerUpdates ==
  ASSUME TypeOK, NEW t \in Callers, Calling(t)
  PROVE  call' = [call EXCEPT ![t] = call'[t]]
<1>0. call = [u \in Callers |-> call[u]] BY DEF TypeOK
<1>1. CASE CallSteps(t)
  BY <1>0, <1>1 DEF CallSteps, Unavailable, StillValid, Refresh, Refreshed, RefreshRefused, Keep,
    Answer, Rejected, Decide, Fail
<1>2. CASE AskGoogle(t) \/ (t = Scheduler /\ Report)
  BY <1>0, <1>2 DEF AskGoogle, Report
<1>3. ASSUME NEW r \in Rules, StartRun(t, r)
      PROVE  call' = [call EXCEPT ![t] = call'[t]]
  BY <1>0, <1>3 DEF StartRun
<1> QED BY <1>1, <1>2, <1>3 DEF Calling

-----------------------------------------------------------------------------
(***************************************************************************)
(* Types.                                                                  *)
(***************************************************************************)
AccountTyped(a) ==
  a = None \/ a \in [id : 1..MaxIds, connected : BOOLEAN, cred : Credentials \cup {Cleared}]

LEMMA KeepTyped ==
  ASSUME TypeOK, TokensLeft, CallShape, StoredIsLatest, NEW t \in Callers, Keep(t)
  PROVE  AccountTyped(account')
<1>1. CASE Connected /\ account.id = call[t].id /\ account.cred = call[t].cred
  <2>1. account' = [account EXCEPT !.cred = NextToken(account.cred)] BY <1>1 DEF Keep
  <2>2. account.cred \in expired BY <1>1 DEF Keep, CallShape, Refreshing
  <2>3. NextToken(account.cred) \in Credentials
    BY <1>1, <2>2, NextTyped, ConnectedTyped DEF TokensLeft
  <2>4. account \in [id : 1..MaxIds, connected : BOOLEAN, cred : Credentials \cup {Cleared}]
    BY <1>1 DEF TypeOK, Connected
  <2> QED BY <2>1, <2>3, <2>4 DEF AccountTyped
<1>2. CASE ~(Connected /\ account.id = call[t].id /\ account.cred = call[t].cred)
  <2>1. account' = account BY <1>2 DEF Keep
  <2> QED BY <2>1 DEF TypeOK, AccountTyped
<1> QED BY <1>1, <1>2

LEMMA TypeCalling ==
  ASSUME TypeOK, TokensLeft, CallShape, OnlyHolder, StoredIsLatest, NEW t \in Callers, Calling(t)
  PROVE  TypeOK'
<1> USE DEF google, authorizations, disconnecting
<1>1. /\ UNCHANGED <<ids, latest, expired, revoked, state, callback, disconnect, reenabled>>
      /\ left' \in [admin : 0..MaxAdmin, google : 0..MaxGoogle]
      /\ account' = account \/ Keep(t)
      /\ rule' = rule \/ (t = Scheduler /\ Report)
      /\ refreshing' \in {refreshing, t, None}
  BY CallerFrame
<1>2. AccountTyped(account')
  BY <1>1, KeepTyped DEF TypeOK, AccountTyped
<1>3. rule' \in [Rules -> RuleStates]
  BY <1>1 DEF Report, TypeOK, RuleStates
<1>4. call' \in [Callers -> [at : {"idle", "asking", "refreshing", "keeping", "using", "deciding",
                                   "failed"},
                             for : {None, "request", "read", "write"}, rule : Rules \cup {None},
                             id : 0..MaxIds, cred : Credentials \cup {None}]]
  <2>1. Typed(call'[t]) BY CallerFacts DEF Left, Ended
  <2>2. call' = [call EXCEPT ![t] = call'[t]] BY CallerUpdates
  <2> QED BY <2>1, <2>2 DEF TypeOK, Typed
<1>5. refreshing' \in Callers \cup {None} BY <1>1 DEF TypeOK
<1> QED BY <1>1, <1>2, <1>3, <1>4, <1>5 DEF TypeOK, AccountTyped

LEMMA TypeAuthorizing == ASSUME TypeOK, Authorizing PROVE TypeOK'
<1> USE DEF credentials, google, disconnecting
<1>1. ASSUME NEW s \in States, StartAuthorization(s) PROVE TypeOK'
  BY <1>1 DEF TypeOK, StartAuthorization
<1>2. ASSUME NEW c \in Callbacks, Decline(c) PROVE TypeOK'
  <2>1. callback' = [callback EXCEPT ![c] = [callback[c] EXCEPT !.at = "refused"]] BY <1>2 DEF Decline
  <2> QED BY <1>2, <2>1 DEF TypeOK, Decline
<1>3. ASSUME NEW c \in Callbacks, NEW s \in States, NEW code \in BOOLEAN, NEW late \in BOOLEAN,
             Callback(c, s, code, late)
      PROVE  TypeOK'
  <2>1. state' \in [States -> {"none", "stored", "expired", "consumed"}]
    BY <1>3 DEF TypeOK, Callback
  <2>2. PICK at \in {"exchanging", "refused"} :
          callback' = [callback EXCEPT ![c] = [at |-> at, via |-> s]]
    BY <1>3 DEF Callback
  <2> QED BY <1>3, <2>1, <2>2 DEF TypeOK, Callback
<1>4. ASSUME NEW c \in Callbacks, Save(c) PROVE TypeOK'
  <2>1. callback' = [callback EXCEPT ![c] = [callback[c] EXCEPT !.at = "connected"]] BY <1>4 DEF Save
  <2>2. [grant |-> c, token |-> 0] \in Credentials BY AccountsAssumption DEF Credentials
  <2>3. PICK i \in 1..MaxIds :
          account' = [id |-> i, connected |-> TRUE, cred |-> [grant |-> c, token |-> 0]]
    <3>1. CASE account = None
      <4>1. ids + 1 \in 1..MaxIds BY <1>4, <3>1, AccountsAssumption DEF Save, TypeOK
      <4> QED BY <1>4, <3>1, <4>1 DEF Save
    <3>2. CASE account # None
      <4>1. account.id \in 1..MaxIds BY <3>2 DEF TypeOK
      <4> QED BY <1>4, <3>2, <4>1 DEF Save
    <3> QED BY <3>1, <3>2
  <2>4. ids' \in 1..MaxIds BY <1>4, AccountsAssumption DEF Save, TypeOK
  <2>5. AccountTyped(account') BY <2>2, <2>3 DEF AccountTyped
  <2> QED BY <1>4, <2>1, <2>4, <2>5 DEF TypeOK, Save, AccountTyped
<1> QED BY <1>1, <1>2, <1>3, <1>4 DEF Authorizing, CallbackSteps

LEMMA TypeGoogle == ASSUME TypeOK, StoredIsLatest, GoogleSteps PROVE TypeOK'
<1> USE DEF credentials, authorizations, disconnecting
<1>1. CASE TokenExpires
  <2>1. expired' \subseteq Credentials BY <1>1, ConnectedTyped DEF TokenExpires, TypeOK
  <2> QED BY <1>1, <2>1 DEF TypeOK, TokenExpires
<1>2. CASE Revoke
  <2>1. left' \in [admin : 0..MaxAdmin, google : 0..MaxGoogle] BY <1>2, Budget DEF Revoke
  <2> QED BY <1>2, <2>1 DEF TypeOK, Revoke
<1> QED BY <1>1, <1>2 DEF GoogleSteps

LEMMA TypeRule == ASSUME TypeOK, NEW r \in Rules, RuleSteps(r) PROVE TypeOK'
<1> USE DEF credentials, google, authorizations, disconnecting, RuleStates
<1>1. CASE CreateRule(r)
  BY <1>1 DEF TypeOK, CreateRule
<1>2. CASE PreviewRule(r) \/ EnableRule(r) \/ PauseRule(r)
  <2>1. left' \in [admin : 0..MaxAdmin, google : 0..MaxGoogle]
    BY <1>2, Budget DEF PreviewRule, EnableRule, PauseRule
  <2> QED BY <1>2, <2>1 DEF TypeOK, PreviewRule, EnableRule, PauseRule
<1>3. CASE Degrade(r)
  <2>1. rule' \in [Rules -> RuleStates] BY <1>3 DEF TypeOK, Degrade
  <2>2. disconnect' \in [at : {"idle", "degrading"}, todo : SUBSET Rules] BY <1>3 DEF TypeOK, Degrade
  <2> QED BY <1>3, <2>1, <2>2 DEF TypeOK, Degrade
<1> QED BY <1>1, <1>2, <1>3 DEF RuleSteps

LEMMA TypeAccount ==
  ASSUME TypeOK, Disconnect \/ Discard \/ DeleteAccount \/ Restart PROVE TypeOK'
<1> USE DEF credentials, google, authorizations, disconnecting
<1>1. CASE Disconnect
  <2>1. left' \in [admin : 0..MaxAdmin, google : 0..MaxGoogle] BY <1>1, Budget DEF Disconnect
  <2>2. disconnect' \in [at : {"idle", "degrading"}, todo : SUBSET Rules] BY <1>1 DEF Disconnect
  <2> QED BY <1>1, <2>1, <2>2 DEF TypeOK, Disconnect
<1>2. CASE Discard
  <2>1. AccountTyped(account')
    <3>1. CASE account = None BY <1>2, <3>1 DEF Discard, AccountTyped
    <3>2. CASE account # None BY <1>2, <3>2 DEF Discard, AccountTyped, TypeOK
    <3> QED BY <3>1, <3>2
  <2>2. disconnect' \in [at : {"idle", "degrading"}, todo : SUBSET Rules] BY <1>2 DEF Discard, TypeOK
  <2> QED BY <1>2, <2>1, <2>2 DEF TypeOK, Discard, AccountTyped
<1>3. CASE DeleteAccount
  <2>1. left' \in [admin : 0..MaxAdmin, google : 0..MaxGoogle] BY <1>3, Budget DEF DeleteAccount
  <2>2. rule' \in [Rules -> RuleStates] BY <1>3 DEF TypeOK, DeleteAccount, RuleStates
  <2> QED BY <1>3, <2>1, <2>2 DEF TypeOK, DeleteAccount
<1>4. CASE Restart
  <2>1. left' \in [admin : 0..MaxAdmin, google : 0..MaxGoogle] BY <1>4, Budget DEF Restart
  <2>2. callback' \in [Callbacks -> [at : {"idle", "exchanging", "connected", "refused"},
                                     via : States \cup {None}]]
    BY <1>4 DEF TypeOK, Restart
  <2>3. \A t \in Callers : Typed(call'[t]) BY <1>4, NoCallTyped DEF Restart
  <2> QED BY <1>4, <2>1, <2>2, <2>3 DEF TypeOK, Restart, Typed
<1> QED BY <1>1, <1>2, <1>3, <1>4

-----------------------------------------------------------------------------
(***************************************************************************)
(* Credentials.                                                            *)
(***************************************************************************)
\* Who is where in its call does not change in the steps of others.
LEMMA OthersCalls ==
  (Authorizing \/ GoogleSteps \/ (\E r \in Rules : RuleSteps(r)) \/ Disconnect \/ Discard \/ DeleteAccount)
    => UNCHANGED <<call, refreshing>>
  BY DEF Authorizing, CallbackSteps, StartAuthorization, Save, Decline, Callback, GoogleSteps,
    TokenExpires, Revoke, RuleSteps, CreateRule, PreviewRule, EnableRule, PauseRule, Degrade,
    Disconnect, Discard, DeleteAccount

LEMMA ExpiredGrows ==
  ASSUME TypeOK, OnlyHolder, Next
  PROVE  expired \subseteq expired' /\ (TokenExpires \/ expired' = expired)
<1>1. ASSUME NEW t \in Callers, Calling(t) PROVE expired' = expired
  BY <1>1, CallerFrame DEF google
<1>2. CASE Authorizing \/ (\E r \in Rules : RuleSteps(r)) \/ Disconnect \/ Discard \/ DeleteAccount
           \/ Restart
  BY <1>2 DEF google, Authorizing, CallbackSteps, StartAuthorization, Save, Decline, Callback,
    RuleSteps, CreateRule, PreviewRule, EnableRule, PauseRule, Degrade,
    Disconnect, Discard, DeleteAccount, Restart
<1>3. CASE GoogleSteps
  BY <1>3 DEF GoogleSteps, TokenExpires, Revoke
<1> QED BY <1>1, <1>2, <1>3, Steps

LEMMA KeepsTokensLeft == ASSUME TypeOK, OnlyHolder, TokensLeft, Next PROVE TokensLeft'
<1>1. CASE expired' = expired BY <1>1 DEF TokensLeft
<1>2. CASE TokenExpires BY <1>2 DEF TokensLeft, TokenExpires
<1> QED BY <1>1, <1>2, ExpiredGrows

LEMMA RestartedCalls ==
  Restart => refreshing' = None /\ \A t \in Callers : call'[t] = NoCall
  BY DEF Restart

LEMMA KeepsCallShape ==
  ASSUME TypeOK, TokensLeft, CallShape, OnlyHolder, StoredIsLatest, Next PROVE CallShape'
<1>0. expired \subseteq expired' BY ExpiredGrows
<1>1. ASSUME NEW t \in Callers, Calling(t) PROVE CallShape'
  <2>1. Left(t) /\ \A u \in Callers \ {t} : call'[u] = call[u] BY <1>1, CallerFacts
  <2>2. /\ call'[t].at = "idle" => call'[t].rule = None
        /\ call'[t].at \in Refreshing => call'[t].cred \in expired'
        /\ call'[t].at = "using" => call'[t].cred \in Credentials
    BY <1>0, <2>1 DEF Left, Ended, CallShape, Refreshing
  <2> QED BY <1>0, <2>1, <2>2 DEF CallShape
<1>2. CASE UNCHANGED call
  BY <1>0, <1>2 DEF CallShape
<1>3. CASE Restart
  BY <1>3, RestartedCalls DEF CallShape, NoCall, Refreshing
<1> QED BY <1>1, <1>2, <1>3, Steps, OthersCalls

LEMMA KeepsOnlyHolder ==
  ASSUME TypeOK, TokensLeft, CallShape, OnlyHolder, StoredIsLatest, Next PROVE OnlyHolder'
<1>1. ASSUME NEW t \in Callers, Calling(t) PROVE OnlyHolder'
  <2>1. Left(t) /\ \A u \in Callers \ {t} : call'[u] = call[u] BY <1>1, CallerFacts
  <2>2. \/ refreshing' = refreshing
        \/ refreshing = None /\ refreshing' = t
        \/ refreshing = t /\ refreshing' = None
    BY <1>1, CallerFrame
  <2>3. ASSUME NEW u \in Callers \ {t}, call'[u].at \in Refreshing PROVE refreshing' = u
    <3>1. refreshing = u BY <2>1, <2>3 DEF OnlyHolder
    <3> QED BY <2>2, <3>1, AccountsAssumption
  <2>4. ASSUME call'[t].at \in Refreshing PROVE refreshing' = t
    <3>1. call'[t].at = "refreshing" => refreshing' = t BY <2>1 DEF Left, Ended
    <3>2. call'[t].at = "keeping" => call[t].at = "refreshing" /\ refreshing' = refreshing
      BY <2>1 DEF Left, Ended
    <3> QED BY <2>4, <3>1, <3>2 DEF Refreshing, OnlyHolder
  <2> QED BY <2>3, <2>4 DEF OnlyHolder
<1>2. CASE UNCHANGED <<call, refreshing>>
  BY <1>2 DEF OnlyHolder
<1>3. CASE Restart
  BY <1>3, RestartedCalls DEF OnlyHolder, NoCall, Refreshing
<1> QED BY <1>1, <1>2, <1>3, Steps, OthersCalls

LEMMA KeepsStoredIsLatest ==
  ASSUME TypeOK, TokensLeft, CallShape, OnlyHolder, StoredIsLatest, Next PROVE StoredIsLatest'
<1>1. CASE UNCHANGED <<account, latest>>
  BY <1>1 DEF StoredIsLatest
<1>2. ASSUME NEW t \in Callers, Calling(t) PROVE StoredIsLatest'
  <2>1. latest' = latest /\ (account' = account \/ Keep(t)) BY <1>2, CallerFrame
  <2>2. CASE Keep(t) /\ account' # account
    <3>1. Connected /\ account' = [account EXCEPT !.cred = NextToken(account.cred)]
      BY <2>2 DEF Keep
    <3>2. account.cred \in Credentials /\ account.cred.grant = latest /\ account.cred.token < MaxTokens
      BY <2>2, <3>1, ConnectedTyped DEF Keep, CallShape, Refreshing, TokensLeft
    <3>3. NextToken(account.cred).grant = latest BY <3>2, NextTyped
    <3>4. account \in [id : 1..MaxIds, connected : BOOLEAN, cred : Credentials \cup {Cleared}]
      BY <3>1 DEF TypeOK, Connected
    <3>5. account'.connected = account.connected /\ account'.cred.grant = latest
      BY <3>1, <3>3, <3>4
    <3> QED BY <2>1, <3>1, <3>5 DEF StoredIsLatest, Connected
  <2> QED BY <1>1, <2>1, <2>2
<1>3. ASSUME NEW c \in Callbacks, Save(c) PROVE StoredIsLatest'
  BY <1>3 DEF Save, StoredIsLatest
<1>4. CASE Authorizing
  <2>1. CASE \E c \in Callbacks : Save(c) BY <1>3, <2>1
  <2>2. CASE ~ \E c \in Callbacks : Save(c)
    <3>1. UNCHANGED <<account, latest>>
      BY <1>4, <2>2 DEF Authorizing, CallbackSteps, StartAuthorization, Decline, Callback, credentials
    <3> QED BY <1>1, <3>1
  <2> QED BY <2>1, <2>2
<1>5. CASE GoogleSteps \/ (\E r \in Rules : RuleSteps(r)) \/ Disconnect \/ Restart
  <2>1. UNCHANGED <<account, latest>>
    BY <1>5 DEF GoogleSteps, TokenExpires, Revoke, RuleSteps, CreateRule, PreviewRule, EnableRule,
      PauseRule, Degrade, Disconnect, Restart, credentials
  <2> QED BY <1>1, <2>1
<1>6. CASE Discard
  <2>1. CASE account # None
    <3>1. account' = [account EXCEPT !.connected = FALSE, !.cred = Cleared] BY <1>6, <2>1 DEF Discard
    <3>2. account \in [id : 1..MaxIds, connected : BOOLEAN, cred : Credentials \cup {Cleared}]
      BY <2>1 DEF TypeOK
    <3>3. account'.connected = FALSE /\ account'.cred = Cleared BY <3>1, <3>2
    <3> QED BY <3>3 DEF StoredIsLatest
  <2> QED BY <1>6, <2>1 DEF Discard, StoredIsLatest
<1>7. CASE DeleteAccount
  BY <1>7 DEF DeleteAccount, StoredIsLatest
<1> QED BY <1>2, <1>4, <1>5, <1>6, <1>7, Steps

LEMMA KeepsRefreshedOnce ==
  ASSUME TypeOK, TokensLeft, CallShape, OnlyHolder, StoredIsLatest, RefreshedOnce, FreshGrants, Next
  PROVE  RefreshedOnce'
<1>1. ASSUME NEW t \in Callers, Calling(t) PROVE RefreshedOnce'
  <2>1. Left(t) /\ \A u \in Callers \ {t} : call'[u] = call[u] BY <1>1, CallerFacts
  <2>2. account' = account \/ Keep(t) BY <1>1, CallerFrame
  <2>3. ASSUME NEW u \in Callers \ {t}, call'[u].at \in Refreshing PROVE account' = account
    <3>1. refreshing = u BY <2>1, <2>3 DEF OnlyHolder
    <3>2. ~Keep(t) BY <3>1 DEF Keep, OnlyHolder, Refreshing
    <3> QED BY <2>2, <3>2
  <2>4. ASSUME NEW u \in Callers \ {t}, call'[u].at \in Refreshing, Connected',
               account'.id = call'[u].id, account'.cred.grant = call'[u].cred.grant
        PROVE  account'.cred = call'[u].cred
    <3>1. account' = account /\ call'[u] = call[u] BY <2>1, <2>3, <2>4
    <3> QED BY <2>4, <3>1 DEF RefreshedOnce, Connected, Refreshing
  <2>5. ASSUME call'[t].at \in Refreshing, Connected',
               account'.id = call'[t].id, account'.cred.grant = call'[t].cred.grant
        PROVE  account'.cred = call'[t].cred
    <3>1. CASE call'[t].at = "refreshing"
      BY <2>1, <3>1 DEF Left, Ended
    <3>2. CASE call'[t].at = "keeping"
      <4>1. /\ call[t].at = "refreshing" /\ account' = account
            /\ call'[t].id = call[t].id /\ call'[t].cred = call[t].cred
        BY <2>1, <3>2 DEF Left, Ended
      <4> QED BY <2>5, <4>1 DEF RefreshedOnce, Connected
    <3> QED BY <2>5, <3>1, <3>2 DEF Refreshing
  <2> QED BY <2>4, <2>5 DEF RefreshedOnce, Refreshing
<1>2. CASE UNCHANGED <<account, call>>
  BY <1>2 DEF RefreshedOnce, Connected
<1>3. CASE ~Connected'
  BY <1>3 DEF RefreshedOnce
<1>4. ASSUME NEW c \in Callbacks, Save(c) PROVE RefreshedOnce'
  <2>1. callback[c].at # "connected" BY <1>4 DEF Save
  <2>2. account'.cred.grant = c /\ call' = call BY <1>4 DEF Save
  <2> QED BY <2>1, <2>2 DEF RefreshedOnce, FreshGrants, Refreshing
<1>5. CASE Authorizing
  <2>1. CASE \E c \in Callbacks : Save(c) BY <1>4, <2>1
  <2>2. CASE ~ \E c \in Callbacks : Save(c)
    <3>1. UNCHANGED <<account, call>>
      BY <1>5, <2>2 DEF Authorizing, CallbackSteps, StartAuthorization, Decline, Callback, credentials
    <3> QED BY <1>2, <3>1
  <2> QED BY <2>1, <2>2
<1>6. CASE GoogleSteps \/ (\E r \in Rules : RuleSteps(r)) \/ Disconnect
  <2>1. UNCHANGED <<account, call>>
    BY <1>6 DEF GoogleSteps, TokenExpires, Revoke, RuleSteps, CreateRule, PreviewRule, EnableRule,
      PauseRule, Degrade, Disconnect, credentials
  <2> QED BY <1>2, <2>1
<1>7. CASE Discard
  <2>1. CASE account # None
    <3>1. account' = [account EXCEPT !.connected = FALSE, !.cred = Cleared] BY <1>7, <2>1 DEF Discard
    <3>2. account \in [id : 1..MaxIds, connected : BOOLEAN, cred : Credentials \cup {Cleared}]
      BY <2>1 DEF TypeOK
    <3>3. account'.connected = FALSE BY <3>1, <3>2
    <3> QED BY <1>3, <3>3 DEF Connected
  <2>2. CASE account = None BY <1>3, <1>7, <2>2 DEF Discard, Connected
  <2> QED BY <2>1, <2>2
<1>8. CASE DeleteAccount
  BY <1>3, <1>8 DEF DeleteAccount, Connected
<1>9. CASE Restart
  BY <1>9, RestartedCalls DEF RefreshedOnce, NoCall
<1> QED BY <1>1, <1>5, <1>6, <1>7, <1>8, <1>9, Steps

LEMMA KeepsFreshGrants ==
  ASSUME TypeOK, TokensLeft, CallShape, OnlyHolder, StoredIsLatest, FreshGrants, Next
  PROVE  FreshGrants'
<1>1. ASSUME NEW t \in Callers, Calling(t) PROVE FreshGrants'
  <2>1. Left(t) /\ \A u \in Callers \ {t} : call'[u] = call[u] BY <1>1, CallerFacts
  <2>2. callback' = callback /\ latest' = latest BY <1>1, CallerFrame DEF authorizations
  <2>3. ASSUME NEW c \in Callbacks, callback[c].at # "connected", call'[t].at \in Refreshing
        PROVE  call'[t].cred.grant # c
    <3>1. CASE call'[t].at = "refreshing"
      <4>1. Connected /\ call'[t].cred = account.cred BY <2>1, <3>1 DEF Left, Ended
      <4>2. account.cred.grant = latest BY <4>1 DEF StoredIsLatest, Connected
      <4> QED BY <2>3, <4>1, <4>2 DEF FreshGrants
    <3>2. CASE call'[t].at = "keeping"
      <4>1. call[t].at = "refreshing" /\ call'[t].cred = call[t].cred BY <2>1, <3>2 DEF Left, Ended
      <4> QED BY <2>3, <4>1 DEF FreshGrants, Refreshing
    <3> QED BY <2>3, <3>1, <3>2 DEF Refreshing
  <2> QED BY <2>1, <2>2, <2>3 DEF FreshGrants
<1>2. ASSUME UNCHANGED <<latest, call>>,
             \A c \in Callbacks : callback'[c].at # "connected" => callback[c].at # "connected"
      PROVE  FreshGrants'
  BY <1>2 DEF FreshGrants
<1>3. ASSUME NEW c \in Callbacks, Save(c) PROVE FreshGrants'
  <2>1. latest' = c /\ call' = call BY <1>3 DEF Save
  <2>2. callback'[c].at = "connected" /\ \A d \in Callbacks \ {c} : callback'[d] = callback[d]
    BY <1>3 DEF Save, TypeOK
  <2> QED BY <2>1, <2>2 DEF FreshGrants
<1>4. ASSUME NEW c \in Callbacks, Decline(c) PROVE FreshGrants'
  <2>1. \A d \in Callbacks : callback'[d].at # "connected" => callback[d].at # "connected"
    BY <1>4 DEF Decline, TypeOK
  <2> QED BY <1>2, <1>4, <2>1 DEF Decline, credentials
<1>5. ASSUME NEW c \in Callbacks, NEW s \in States, NEW code \in BOOLEAN, NEW late \in BOOLEAN,
             Callback(c, s, code, late)
      PROVE  FreshGrants'
  <2>1. \A d \in Callbacks : callback'[d].at # "connected" => callback[d].at # "connected"
    BY <1>5 DEF Callback, TypeOK
  <2> QED BY <1>2, <1>5, <2>1 DEF Callback, credentials
<1>6. CASE Authorizing
  <2>1. ASSUME NEW s \in States, StartAuthorization(s) PROVE FreshGrants'
    BY <1>2, <2>1 DEF StartAuthorization, credentials
  <2> QED BY <1>3, <1>4, <1>5, <1>6, <2>1 DEF Authorizing, CallbackSteps
<1>7. CASE GoogleSteps \/ (\E r \in Rules : RuleSteps(r)) \/ Disconnect \/ Discard \/ DeleteAccount
  <2>1. UNCHANGED <<latest, call, callback>>
    BY <1>7 DEF GoogleSteps, TokenExpires, Revoke, RuleSteps, CreateRule, PreviewRule, EnableRule,
      PauseRule, Degrade, Disconnect, Discard, DeleteAccount, credentials, authorizations
  <2> QED BY <1>2, <2>1
<1>8. CASE Restart
  <2>1. \A c \in Callbacks : callback'[c].at # "connected" => callback[c].at # "connected"
    BY <1>8 DEF Restart, TypeOK
  <2>2. latest' = latest BY <1>8 DEF Restart, credentials
  <2> QED BY <1>8, <2>1, <2>2, RestartedCalls DEF FreshGrants, NoCall, Refreshing
<1> QED BY <1>1, <1>6, <1>7, <1>8, Steps

-----------------------------------------------------------------------------
(***************************************************************************)
(* Authorizations.                                                         *)
(***************************************************************************)
Past == {"exchanging", "connected"}

\* A callback that goes past a state finds it stored, so no other went past it, and consumes it.
LEMMA KeepsConsumed ==
  ASSUME TypeOK, OnlyHolder, Consumed, SingleUse, Next PROVE Consumed' /\ SingleUse'
<1>1. CASE UNCHANGED <<state, callback>>
  BY <1>1 DEF Consumed, SingleUse
<1>2. ASSUME NEW s \in States, StartAuthorization(s) PROVE Consumed' /\ SingleUse'
  <2>1. callback' = callback /\ \A r \in States : state[r] = "consumed" => state'[r] = "consumed"
    BY <1>2 DEF StartAuthorization, TypeOK
  <2> QED BY <2>1 DEF Consumed, SingleUse
<1>3. ASSUME state' = state,
             \A c \in Callbacks : callback'[c].at \in Past =>
               callback[c].at \in Past /\ callback'[c].via = callback[c].via
      PROVE  Consumed' /\ SingleUse'
  BY <1>3 DEF Consumed, SingleUse, Past
<1>4. ASSUME NEW c \in Callbacks, CallbackSteps(c) PROVE Consumed' /\ SingleUse'
  <2>1. state' = state BY <1>4 DEF CallbackSteps, Save, Decline
  <2>2. PICK at : callback[c].at = "exchanging" /\ callback' = [callback EXCEPT ![c] = [callback[c] EXCEPT !.at = at]]
    BY <1>4 DEF CallbackSteps, Save, Decline
  <2>3. \A d \in Callbacks : callback'[d].at \in Past =>
          callback[d].at \in Past /\ callback'[d].via = callback[d].via
    BY <2>2 DEF TypeOK, Past
  <2> QED BY <1>3, <2>1, <2>3
<1>5. ASSUME NEW c \in Callbacks, NEW s \in States, NEW code \in BOOLEAN, NEW late \in BOOLEAN,
             Callback(c, s, code, late)
      PROVE  Consumed' /\ SingleUse'
  <2>1. \A d \in Callbacks \ {c} : callback'[d] = callback[d] BY <1>5 DEF Callback, TypeOK
  <2>2. \A r \in States : state[r] = "consumed" => state'[r] = "consumed"
    BY <1>5 DEF Callback, Usable, TypeOK
  <2>3. callback'[c].at \in Past =>
          callback'[c].via = s /\ state[s] = "stored" /\ state'[s] = "consumed"
    BY <1>5 DEF Callback, Usable, TypeOK, Past
  <2>4. Consumed' BY <2>1, <2>2, <2>3 DEF Consumed, Past
  <2>5. ASSUME NEW d \in Callbacks \ {c}, callback'[c].at \in Past, callback'[d].at \in Past
        PROVE  callback'[c].via # callback'[d].via
    BY <2>1, <2>3, <2>5 DEF Consumed, Past
  <2> QED BY <2>1, <2>4, <2>5 DEF SingleUse, Past
<1>6. ASSUME NEW t \in Callers, Calling(t) PROVE UNCHANGED <<state, callback>>
  BY <1>6, CallerFrame DEF authorizations
<1>7. CASE GoogleSteps \/ (\E r \in Rules : RuleSteps(r)) \/ Disconnect \/ Discard \/ DeleteAccount
  <2>1. UNCHANGED <<state, callback>>
    BY <1>7 DEF GoogleSteps, TokenExpires, Revoke, RuleSteps, CreateRule, PreviewRule, EnableRule,
      PauseRule, Degrade, Disconnect, Discard, DeleteAccount, authorizations
  <2> QED BY <1>1, <2>1
<1>8. CASE Restart
  <2>1. \A c \in Callbacks : callback'[c].at \in Past =>
          callback[c].at \in Past /\ callback'[c].via = callback[c].via
    BY <1>8 DEF Restart, TypeOK, Past
  <2> QED BY <1>3, <1>8, <2>1 DEF Restart
<1> QED BY <1>1, <1>2, <1>4, <1>5, <1>6, <1>7, <1>8, Steps DEF Authorizing

-----------------------------------------------------------------------------
(***************************************************************************)
(* Rules, and what a disconnection does to them.                           *)
(***************************************************************************)
LEMMA WritingRuns ==
  ASSUME CallShape, NEW r \in Rules, Writing(r) PROVE Running(r)
  BY AccountsAssumption DEF CallShape, Writing, Running

\* No step of a caller gives a rule more to write, brings one into existence or ends one.
LEMMA CallersAddNothing ==
  ASSUME TypeOK, TokensLeft, CallShape, OnlyHolder, StoredIsLatest, NEW t \in Callers, Calling(t),
         NEW r \in Rules
  PROVE  /\ MayWrite(r)' => MayWrite(r)
         /\ Exists(r)' <=> Exists(r)
         /\ Running(r)' => Running(r) \/ rule[r] = "enabled"
<1>1. Continues(t) /\ \A u \in Callers \ {t} : call'[u] = call[u] BY CallerFacts
<1>2. rule' = rule \/ (t = Scheduler /\ Report) BY CallerFrame
<1>3. rule'[r] = rule[r] \/ (rule[r] = "enabled" /\ rule'[r] = "degraded")
  BY <1>2 DEF Report, TypeOK
<1>4. Writing(r)' => Writing(r) \/ rule[r] = "enabled"
  BY <1>1 DEF Continues, Writes, Writing
<1>5. Running(r)' => Running(r) \/ rule[r] = "enabled"
  BY <1>1 DEF Continues, Runs, Running
<1>6. MayWrite(r)' => MayWrite(r) BY <1>3, <1>4 DEF MayWrite
<1>7. Exists(r)' <=> Exists(r) BY <1>3 DEF Exists
<1> QED BY <1>5, <1>6, <1>7

LEMMA SameCalls ==
  ASSUME call' = call, NEW r \in Rules
  PROVE  (Writing(r)' <=> Writing(r)) /\ (Running(r)' <=> Running(r))
  BY DEF Writing, Running

LEMMA NoCallsRun ==
  ASSUME Restart, NEW r \in Rules PROVE ~Writing(r)' /\ ~Running(r)'
  BY RestartedCalls, AccountsAssumption DEF Writing, Running, NoCall

\* What the requests of the administrator do to one rule.
LEMMA RuleFacts ==
  ASSUME TypeOK, NEW r \in Rules, RuleSteps(r)
  PROVE  /\ account' = account /\ call' = call
         /\ \A q \in Rules \ {r} : rule'[q] = rule[q]
         /\ Exists(r) => Exists(r)'
         /\ \/ rule'[r] # "enabled" /\ reenabled' = reenabled /\ disconnect' = disconnect
            \/ rule'[r] = "enabled" /\ reenabled' = reenabled \cup {r} /\ disconnect' = disconnect
            \/ /\ rule'[r] # "enabled" /\ ~Writing(r) /\ reenabled' = reenabled \ {r}
               /\ disconnect' = [disconnect EXCEPT !.todo = disconnect.todo \ {r}]
<1> USE DEF credentials, disconnecting, Exists
<1>1. CASE CreateRule(r) BY <1>1 DEF CreateRule, TypeOK
<1>2. CASE PreviewRule(r) BY <1>2 DEF PreviewRule, TypeOK
<1>3. CASE EnableRule(r) BY <1>3 DEF EnableRule, TypeOK
<1>4. CASE PauseRule(r) BY <1>4 DEF PauseRule, TypeOK
<1>5. CASE Degrade(r) BY <1>5 DEF Degrade, TypeOK
<1> QED BY <1>1, <1>2, <1>3, <1>4, <1>5 DEF RuleSteps

\* The steps that leave the rules and the calls as they are.
LEMMA RulesUntouched ==
  (Authorizing \/ GoogleSteps \/ Disconnect \/ Discard) => UNCHANGED <<rule, call, reenabled>>
  BY DEF Authorizing, CallbackSteps, StartAuthorization, Save, Decline, Callback, GoogleSteps,
    TokenExpires, Revoke, Disconnect, Discard, disconnecting

LEMMA KeepsRunsExist ==
  ASSUME TypeOK, TokensLeft, CallShape, OnlyHolder, StoredIsLatest, RunsExist, Next
  PROVE  RunsExist'
<1>1. ASSUME NEW t \in Callers, Calling(t), NEW r \in Rules, Running(r)' PROVE Exists(r)'
  <2>1. Exists(r)
    <3>1. Running(r) \/ rule[r] = "enabled" BY <1>1, CallersAddNothing
    <3> QED BY <3>1 DEF RunsExist, Exists
  <2> QED BY <1>1, <2>1, CallersAddNothing
<1>2. CASE UNCHANGED <<rule, call>>
  BY <1>2, SameCalls DEF RunsExist, Exists
<1>3. ASSUME NEW q \in Rules, RuleSteps(q), NEW r \in Rules, Running(r)' PROVE Exists(r)'
  <2>1. Running(r) BY <1>3, RuleFacts, SameCalls
  <2>2. Exists(r) BY <2>1 DEF RunsExist
  <2>3. CASE r = q BY <1>3, <2>2, <2>3, RuleFacts
  <2>4. CASE r # q
    <3>1. rule'[r] = rule[r] BY <1>3, <2>4, RuleFacts
    <3> QED BY <2>2, <3>1 DEF Exists
  <2> QED BY <2>3, <2>4
<1>4. ASSUME DeleteAccount, NEW r \in Rules PROVE ~Running(r)'
  BY <1>4, SameCalls DEF DeleteAccount
<1>5. ASSUME Restart, NEW r \in Rules PROVE ~Running(r)'
  BY <1>5, NoCallsRun
<1>6. (\E t \in Callers : Calling(t)) => RunsExist' BY <1>1 DEF RunsExist
<1>7. (\E q \in Rules : RuleSteps(q)) => RunsExist' BY <1>3 DEF RunsExist
<1>8. DeleteAccount \/ Restart => RunsExist' BY <1>4, <1>5 DEF RunsExist
<1> QED BY <1>2, <1>6, <1>7, <1>8, Steps, RulesUntouched

\* A disconnection has dealt with every rule that is not on its list.
LEMMA KeepsDegraded ==
  ASSUME TypeOK, TokensLeft, CallShape, OnlyHolder, StoredIsLatest, RunsExist, Degraded, Next
  PROVE  Degraded'
<1>1. ASSUME NEW t \in Callers, Calling(t) PROVE Degraded'
  <2>1. UNCHANGED <<disconnect, reenabled>> BY <1>1, CallerFrame DEF disconnecting
  <2>2. \A r \in Rules : MayWrite(r)' => MayWrite(r) BY <1>1, CallersAddNothing
  <2> QED BY <2>1, <2>2 DEF Degraded
<1>2. ASSUME UNCHANGED <<rule, call, reenabled, disconnect>> PROVE Degraded'
  <2>1. \A r \in Rules : MayWrite(r)' => MayWrite(r) BY <1>2, SameCalls DEF MayWrite
  <2> QED BY <1>2, <2>1 DEF Degraded
<1>3. CASE Authorizing \/ GoogleSteps
  <2>1. disconnect' = disconnect
    BY <1>3 DEF Authorizing, CallbackSteps, StartAuthorization, Save, Decline, Callback, GoogleSteps,
      TokenExpires, Revoke, disconnecting
  <2> QED BY <1>2, <1>3, <2>1, RulesUntouched
<1>4. ASSUME NEW q \in Rules, RuleSteps(q) PROVE Degraded'
  <2>1. /\ call' = call
        /\ \A r \in Rules \ {q} : rule'[r] = rule[r]
        /\ \/ rule'[q] # "enabled" /\ reenabled' = reenabled /\ disconnect' = disconnect
           \/ rule'[q] = "enabled" /\ reenabled' = reenabled \cup {q} /\ disconnect' = disconnect
           \/ /\ rule'[q] # "enabled" /\ ~Writing(q) /\ reenabled' = reenabled \ {q}
              /\ disconnect' = [disconnect EXCEPT !.todo = disconnect.todo \ {q}]
    BY <1>4, RuleFacts
  <2>2. \A r \in Rules : Writing(r)' <=> Writing(r) BY <2>1, SameCalls
  <2>3. disconnect'.at = disconnect.at /\ disconnect.todo \ {q} \subseteq disconnect'.todo
    BY <2>1 DEF TypeOK
  <2>4. ASSUME disconnect'.at = "degrading", NEW r \in Rules \ disconnect'.todo, MayWrite(r)'
        PROVE  r \in reenabled'
    <3>1. CASE r # q
      <4>1. MayWrite(r) /\ r \notin disconnect.todo BY <2>1, <2>2, <2>3, <2>4, <3>1 DEF MayWrite
      <4> QED BY <2>1, <2>3, <2>4, <3>1, <4>1 DEF Degraded
    <3>2. CASE r = q
      BY <2>1, <2>2, <2>3, <2>4, <3>2 DEF Degraded, MayWrite
    <3> QED BY <3>1, <3>2
  <2> QED BY <2>4 DEF Degraded
<1>5. CASE Disconnect
  <2>1. UNCHANGED <<rule, call, reenabled>> BY <1>5, RulesUntouched
  <2>2. disconnect'.todo = {r \in Rules : Exists(r)} BY <1>5 DEF Disconnect
  <2>3. ASSUME NEW r \in Rules \ disconnect'.todo PROVE ~MayWrite(r)'
    <3>1. ~Exists(r) BY <2>2, <2>3
    <3>2. rule'[r] # "enabled" BY <2>1, <3>1 DEF Exists
    <3>3. ~Writing(r) BY <3>1, WritingRuns DEF RunsExist
    <3> QED BY <2>1, <3>2, <3>3, SameCalls DEF MayWrite
  <2> QED BY <2>3 DEF Degraded
<1>6. CASE Discard \/ Restart
  <2>1. disconnect'.at = "idle" BY <1>6 DEF Discard, Restart, TypeOK
  <2> QED BY <2>1 DEF Degraded
<1>7. CASE DeleteAccount
  <2>1. /\ call' = call /\ UNCHANGED <<disconnect, reenabled>>
        /\ \A r \in Rules : rule'[r] = "enabled" => rule[r] = "enabled"
    BY <1>7 DEF DeleteAccount, disconnecting
  <2>2. \A r \in Rules : MayWrite(r)' => MayWrite(r) BY <2>1, SameCalls DEF MayWrite
  <2> QED BY <2>1, <2>2 DEF Degraded
<1> QED BY <1>1, <1>3, <1>4, <1>5, <1>6, <1>7, Steps

\* A disconnected account is left with the rules that were enabled again.
LEMMA KeepsStopped ==
  ASSUME TypeOK, TokensLeft, CallShape, OnlyHolder, StoredIsLatest, Degraded, Stopped, Next
  PROVE  Stopped'
<1>1. ASSUME account' = account, reenabled' = reenabled,
             \A r \in Rules : MayWrite(r)' => MayWrite(r)
      PROVE  Stopped'
  BY <1>1 DEF Stopped
<1>2. ASSUME NEW t \in Callers, Calling(t) PROVE Stopped'
  <2>1. reenabled' = reenabled /\ (account' = account \/ Keep(t))
    BY <1>2, CallerFrame DEF disconnecting
  <2>2. \A r \in Rules : MayWrite(r)' => MayWrite(r) BY <1>2, CallersAddNothing
  <2>3. CASE Keep(t) /\ account' # account
    <3>1. Connected /\ account' = [account EXCEPT !.cred = NextToken(account.cred)]
      BY <2>3 DEF Keep
    <3>2. account'.connected
      BY <3>1 DEF TypeOK, Connected
    <3> QED BY <3>2 DEF Stopped
  <2> QED BY <1>1, <2>1, <2>2, <2>3
<1>3. CASE Authorizing \/ GoogleSteps \/ Disconnect
  <2>1. \A r \in Rules : MayWrite(r)' => MayWrite(r) BY <1>3, RulesUntouched, SameCalls DEF MayWrite
  <2>2. account' = account \/ account'.connected
    BY <1>3 DEF Authorizing, CallbackSteps, StartAuthorization, Save, Decline, Callback, GoogleSteps,
      TokenExpires, Revoke, Disconnect, credentials
  <2> QED BY <1>1, <1>3, <2>1, <2>2, RulesUntouched DEF Stopped
<1>4. ASSUME NEW q \in Rules, RuleSteps(q) PROVE Stopped'
  <2>1. /\ account' = account /\ call' = call
        /\ \A r \in Rules \ {q} : rule'[r] = rule[r]
        /\ \/ rule'[q] # "enabled" /\ reenabled' = reenabled
           \/ rule'[q] = "enabled" /\ reenabled' = reenabled \cup {q}
           \/ rule'[q] # "enabled" /\ ~Writing(q) /\ reenabled' = reenabled \ {q}
    BY <1>4, RuleFacts
  <2>2. \A r \in Rules : Writing(r)' <=> Writing(r) BY <2>1, SameCalls
  <2>3. ASSUME account' # None, ~account'.connected, NEW r \in Rules, MayWrite(r)'
        PROVE  r \in reenabled'
    <3>1. CASE r # q
      <4>1. MayWrite(r) BY <2>1, <2>2, <2>3, <3>1 DEF MayWrite
      <4> QED BY <2>1, <2>3, <3>1, <4>1 DEF Stopped
    <3>2. CASE r = q
      BY <2>1, <2>2, <2>3, <3>2 DEF Stopped, MayWrite
    <3> QED BY <3>1, <3>2
  <2> QED BY <2>3 DEF Stopped
<1>5. CASE Discard
  <2>1. UNCHANGED <<rule, call, reenabled>> BY <1>5, RulesUntouched
  <2>2. \A r \in Rules : MayWrite(r)' => MayWrite(r) BY <2>1, SameCalls DEF MayWrite
  <2>3. \A r \in Rules : MayWrite(r) => r \in reenabled BY <1>5 DEF Discard, Degraded
  <2> QED BY <2>1, <2>2, <2>3 DEF Stopped
<1>6. CASE DeleteAccount
  BY <1>6 DEF DeleteAccount, Stopped
<1>7. CASE Restart
  <2>1. UNCHANGED <<account, rule, reenabled>> BY <1>7 DEF Restart, credentials
  <2>2. \A r \in Rules : MayWrite(r)' => MayWrite(r) BY <1>7, <2>1, NoCallsRun DEF MayWrite
  <2> QED BY <1>1, <2>1, <2>2
<1> QED BY <1>2, <1>3, <1>4, <1>5, <1>6, <1>7, Steps

-----------------------------------------------------------------------------
(***************************************************************************)
(* The invariant.                                                          *)
(***************************************************************************)
LEMMA KeepsTypeOK ==
  ASSUME TypeOK, TokensLeft, CallShape, OnlyHolder, StoredIsLatest, Next PROVE TypeOK'
  BY Steps, TypeCalling, TypeAuthorizing, TypeGoogle, TypeRule, TypeAccount

LEMMA InitInv == Init => Inv
<1> SUFFICES ASSUME Init PROVE Inv OBVIOUS
<1>1. TypeOK
  <2>1. [grant |-> First, token |-> 0] \in Credentials BY AccountsAssumption DEF Credentials
  <2>2. \A t \in Callers : Typed(call[t]) BY NoCallTyped DEF Init
  <2> QED BY <2>1, <2>2, AccountsAssumption DEF Init, TypeOK, RuleStates, Typed
<1>2. TokensLeft /\ CallShape /\ OnlyHolder /\ StoredIsLatest /\ RefreshedOnce
  BY DEF Init, TokensLeft, CallShape, OnlyHolder, StoredIsLatest, RefreshedOnce, NoCall, Refreshing
<1>3. FreshGrants /\ Consumed /\ SingleUse
  BY AccountsAssumption DEF Init, FreshGrants, Consumed, SingleUse, NoCall, Refreshing
<1>4. RunsExist /\ Degraded /\ Stopped
  BY DEF Init, RunsExist, Degraded, Stopped, Running, NoCall
<1> QED BY <1>1, <1>2, <1>3, <1>4 DEF Inv

LEMMA NextInv == Inv /\ [Next]_vars => Inv'
<1> SUFFICES ASSUME Inv, [Next]_vars PROVE Inv' OBVIOUS
<1> USE DEF Inv
<1>1. CASE Next
  BY <1>1, KeepsTypeOK, KeepsTokensLeft, KeepsCallShape, KeepsOnlyHolder, KeepsStoredIsLatest,
    KeepsRefreshedOnce, KeepsFreshGrants, KeepsConsumed, KeepsRunsExist, KeepsDegraded, KeepsStopped
<1>2. CASE UNCHANGED vars
  <2> USE <1>2 DEF vars, credentials, google, authorizations, disconnecting
  <2>1. TypeOK' BY DEF TypeOK
  <2>2. TokensLeft' /\ CallShape' /\ OnlyHolder' BY DEF TokensLeft, CallShape, OnlyHolder
  <2>3. StoredIsLatest' /\ RefreshedOnce' BY DEF StoredIsLatest, RefreshedOnce, Connected
  <2>4. FreshGrants' /\ Consumed' /\ SingleUse' BY DEF FreshGrants, Consumed, SingleUse
  <2>5. RunsExist' BY SameCalls DEF RunsExist, Exists
  <2>6. \A r \in Rules : MayWrite(r)' => MayWrite(r) BY SameCalls DEF MayWrite
  <2>7. Degraded' /\ Stopped' BY <2>6 DEF Degraded, Stopped
  <2> QED BY <2>1, <2>2, <2>3, <2>4, <2>5, <2>7
<1> QED BY <1>1, <1>2

LEMMA Invariance == Spec => []Inv
  BY InitInv, NextInv, PTL DEF Spec

\* The stored credentials are always those of the authorization made last, or none once the
\* account was disconnected, and no two callers refresh the same grant, whatever refreshes,
\* callbacks, disconnections and restarts overlap (oauth.py, _credentials and
\* replace_credentials).
THEOREM CredentialsAreSound == Spec => []CredentialsInv
<1>1. Inv => CredentialsInv BY DEF Inv, CredentialsInv
<1> QED BY <1>1, Invariance, PTL

\* However often and in whatever order callbacks are delivered, no two of them go past the same
\* authorization (authorization_states.py, consume).
THEOREM AuthorizationsAreUsedOnce == Spec => []SingleUse
<1>1. Inv => SingleUse BY DEF Inv
<1> QED BY <1>1, Invariance, PTL

\* Once a disconnection has discarded the credentials, no write is in flight but of a rule that
\* was enabled after it (accounts.py, DisconnectConnectedAccount).
THEOREM DisconnectionStopsWrites == Spec => []DisconnectedWritesNothing
<1>1. Inv => DisconnectedWritesNothing BY DEF Inv, Stopped, DisconnectedWritesNothing, MayWrite
<1> QED BY <1>1, Invariance, PTL

=============================================================================
