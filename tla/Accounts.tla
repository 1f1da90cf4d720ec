------------------------------ MODULE Accounts ------------------------------
(***************************************************************************)
(* One Connected Account, its authorizations and its credentials.          *)
(*                                                                         *)
(* The administrator authorizes the account with Google through a          *)
(* single-use state, disconnects it and deletes it.  Meanwhile every call  *)
(* to Google (of a Sync Run, or of a request that lists calendars or       *)
(* verifies access) reads the stored credentials, refreshes an access      *)
(* token that expired and keeps the refreshed credentials.  Google may     *)
(* revoke a grant or be out of reach, and the process may restart.         *)
(*                                                                         *)
(* A grant is named by the callback that obtained it, and a credential is  *)
(* a grant with the number of its access token.                            *)
(***************************************************************************)
EXTENDS Naturals, FiniteSets

CONSTANTS
  Rules,       \* Sync Rules that use the account
  Threads,     \* request threads that call Google
  States,      \* OAuth states
  Callbacks,   \* deliveries of the authorization callback
  MaxTokens,   \* bound: access tokens of one grant
  MaxIds,      \* bound: accounts that are created for the same email
  MaxAdmin,    \* bound: requests of the administrator
  MaxGoogle,   \* bound: revocations, outages and restarts
  None

Scheduler == "scheduler"
First == "first"      \* the grant the account starts with
Cleared == [grant |-> "cleared", token |-> 0]  \* what a disconnected account keeps: "{}"

Callers == Threads \cup {Scheduler}
Credentials == [grant : Callbacks \cup {First}, token : 0..MaxTokens]

ASSUME AccountsAssumption ==
  /\ MaxTokens \in Nat /\ MaxIds \in Nat \ {0} /\ MaxAdmin \in Nat /\ MaxGoogle \in Nat
  /\ Scheduler \notin Threads
  /\ First \notin Callbacks /\ Cleared.grant \notin Callbacks
  /\ None \notin Rules \cup Callers \cup States

VARIABLES
  account,     \* the row of connected_accounts, or None
  ids,         \* how many accounts were created
  latest,      \* history: the grant the account was last authorized with
  expired,     \* credentials whose access token has expired
  revoked,     \* grants Google no longer accepts
  state,       \* the rows of oauth_states
  callback,    \* what each callback is doing
  rule,        \* the state of each rule
  call,        \* what each caller is doing
  refreshing,  \* holder of the account's refresh lock
  disconnect,  \* the DisconnectConnectedAccount request in progress
  reenabled,   \* history: rules enabled since a disconnection last degraded them
  left         \* what may still happen

authorizations == <<state, callback>>
credentials == <<account, ids, latest>>
google == <<expired, revoked>>
disconnecting == <<disconnect, reenabled>>
vars == <<credentials, google, authorizations, rule, call, refreshing, disconnecting, left>>

RuleStates == {"none", "draft", "previewed", "enabled", "paused", "degraded", "purged"}
NoCall == [at |-> "idle", for |-> None, rule |-> None, id |-> 0, cred |-> None]

TypeOK ==
  /\ \/ account = None
     \/ account \in [id : 1..MaxIds, connected : BOOLEAN, cred : Credentials \cup {Cleared}]
  /\ ids \in 1..MaxIds
  /\ latest \in Callbacks \cup {First}
  /\ expired \subseteq Credentials /\ revoked \subseteq Callbacks \cup {First}
  /\ state \in [States -> {"none", "stored", "expired", "consumed"}]
  /\ callback \in [Callbacks -> [at : {"idle", "exchanging", "connected", "refused"},
                                 via : States \cup {None}]]
  /\ rule \in [Rules -> RuleStates]
  /\ call \in [Callers -> [at : {"idle", "asking", "refreshing", "keeping", "using", "deciding",
                                 "failed"},
                           for : {None, "request", "read", "write"}, rule : Rules \cup {None},
                           id : 0..MaxIds, cred : Credentials \cup {None}]]
  /\ refreshing \in Callers \cup {None}
  /\ disconnect \in [at : {"idle", "degrading"}, todo : SUBSET Rules]
  /\ reenabled \subseteq Rules
  /\ left \in [admin : 0..MaxAdmin, google : 0..MaxGoogle]

Init ==
  /\ account = [id |-> 1, connected |-> TRUE, cred |-> [grant |-> First, token |-> 0]]
  /\ ids = 1 /\ latest = First
  /\ expired = {} /\ revoked = {}
  /\ state = [s \in States |-> "none"]
  /\ callback = [c \in Callbacks |-> [at |-> "idle", via |-> None]]
  /\ rule \in [Rules -> {"none", "enabled"}]
  /\ call = [t \in Callers |-> NoCall]
  /\ refreshing = None
  /\ disconnect = [at |-> "idle", todo |-> {}]
  /\ reenabled = {}
  /\ left = [admin |-> MaxAdmin, google |-> MaxGoogle]

Spend(what) == left[what] > 0 /\ left' = [left EXCEPT ![what] = @ - 1]
Connected == account # None /\ account.connected
Authorized == Connected /\ latest \notin revoked
Exists(r) == rule[r] \notin {"none", "purged"}

\* A run of the rule holds its for_rule lock, and for_writes from its decision to its write.
Running(r) == \E t \in Callers : call[t].rule = r /\ call[t].at \notin {"idle", "failed"}
Writing(r) == \E t \in Callers : call[t].rule = r /\ call[t].for = "write" /\ call[t].at # "failed"

-----------------------------------------------------------------------------
(***************************************************************************)
(* Authorizing the account: GoogleOAuthService.                            *)
(***************************************************************************)
StartAuthorization(s) ==
  /\ state[s] = "none"
  /\ state' = [state EXCEPT ![s] = "stored"]
  /\ UNCHANGED <<credentials, google, callback, rule, call, refreshing, disconnecting, left>>

\* Mutant: the update does not ask that the state was never used.
UsableTwice(s) == state[s] \in {"stored", "consumed"}

Usable(s) == state[s] = "stored"

\* Google sends the browser back, any number of times, with a code or with an error; after ten
\* minutes the state is of no use.
Callback(c, s, code, late) ==
  /\ callback[c].at = "idle" /\ state[s] # "none"
  /\ state' = IF ~Usable(s) THEN state
              ELSE [state EXCEPT ![s] = IF late THEN "expired" ELSE "consumed"]
  /\ callback' = [callback EXCEPT ![c] =
       [at |-> IF Usable(s) /\ code /\ ~late THEN "exchanging" ELSE "refused", via |-> s]]
  /\ UNCHANGED <<credentials, google, rule, call, refreshing, disconnecting, left>>

\* Google refuses the code, or the administrator did not grant the calendar permissions.
Decline(c) ==
  /\ callback[c].at = "exchanging"
  /\ callback' = [callback EXCEPT ![c].at = "refused"]
  /\ UNCHANGED <<credentials, google, state, rule, call, refreshing, disconnecting, left>>

\* The code was exchanged and the permissions verified: connect the account, or reauthorize the
\* one with this email.
Save(c) ==
  /\ callback[c].at = "exchanging"
  /\ account = None => ids < MaxIds
  /\ ids' = IF account = None THEN ids + 1 ELSE ids
  /\ account' = [id |-> IF account = None THEN ids + 1 ELSE account.id,
                 connected |-> TRUE, cred |-> [grant |-> c, token |-> 0]]
  /\ latest' = c
  /\ callback' = [callback EXCEPT ![c].at = "connected"]
  /\ UNCHANGED <<google, state, rule, call, refreshing, disconnecting, left>>

-----------------------------------------------------------------------------
(***************************************************************************)
(* Credentials for a call: GoogleOAuthService._credentials.                *)
(***************************************************************************)
\* Mutant: a scheduled run reports nothing.
FailQuietly(t) == [call EXCEPT ![t] = NoCall]

\* The call ends without an answer.  A scheduled run that retrying cannot help reports it, with
\* its locks released.
Fail(t) == [call EXCEPT ![t] =
  IF t = Scheduler THEN [NoCall EXCEPT !.at = "failed", !.rule = call[t].rule] ELSE NoCall]

\* Under the refresh lock: an account without credentials has none to give.
Unavailable(t) ==
  /\ call[t].at = "asking" /\ refreshing = None
  /\ ~(Connected /\ account.id = call[t].id)
  /\ call' = Fail(t)
  /\ UNCHANGED <<credentials, google, authorizations, rule, refreshing, disconnecting, left>>

StillValid(t) ==
  /\ call[t].at = "asking" /\ refreshing = None
  /\ Connected /\ account.id = call[t].id /\ account.cred \notin expired
  /\ call' = [call EXCEPT ![t].at = "using", ![t].cred = account.cred]
  /\ UNCHANGED <<credentials, google, authorizations, rule, refreshing, disconnecting, left>>

\* Mutant: every request refreshes on its own.
RefreshUnlocked(t) ==
  /\ call[t].at = "asking"
  /\ Connected /\ account.id = call[t].id /\ account.cred \in expired
  /\ refreshing' = t
  /\ call' = [call EXCEPT ![t].at = "refreshing", ![t].cred = account.cred]
  /\ UNCHANGED <<credentials, google, authorizations, rule, disconnecting, left>>

Refresh(t) ==
  /\ call[t].at = "asking" /\ refreshing = None
  /\ Connected /\ account.id = call[t].id /\ account.cred \in expired
  /\ refreshing' = t
  /\ call' = [call EXCEPT ![t].at = "refreshing", ![t].cred = account.cred]
  /\ UNCHANGED <<credentials, google, authorizations, rule, disconnecting, left>>

\* Google issues the next access token of the grant.
Refreshed(t) ==
  /\ call[t].at = "refreshing" /\ call[t].cred.grant \notin revoked
  /\ call' = [call EXCEPT ![t].at = "keeping"]
  /\ UNCHANGED <<credentials, google, authorizations, rule, refreshing, disconnecting, left>>

\* Mutant: a refusal leaves the lock held.
RefreshRefusedHolding(t) ==
  /\ call[t].at = "refreshing"
  /\ call[t].cred.grant \in revoked /\ UNCHANGED left
  /\ call' = Fail(t)
  /\ UNCHANGED <<credentials, google, authorizations, rule, refreshing, disconnecting>>

\* The grant was revoked, or Google cannot be reached.
RefreshRefused(t) ==
  /\ call[t].at = "refreshing"
  /\ \/ call[t].cred.grant \in revoked /\ call' = Fail(t) /\ UNCHANGED left
     \/ Spend("google") /\ call' = [call EXCEPT ![t] = NoCall]
  /\ refreshing' = None
  /\ UNCHANGED <<credentials, google, authorizations, rule, disconnecting>>

NextToken(cred) == [cred EXCEPT !.token = @ + 1]

\* Mutant: the refreshed credentials are kept whatever is stored by now.
KeepAlways(t) ==
  /\ call[t].at = "keeping"
  /\ account' = IF account # None /\ account.id = call[t].id
                THEN [account EXCEPT !.cred = NextToken(call[t].cred)] ELSE account
  /\ refreshing' = None
  /\ call' = [call EXCEPT ![t].at = "using", ![t].cred = NextToken(@)]
  /\ UNCHANGED <<ids, latest, google, authorizations, rule, disconnecting, left>>

\* Kept only if they replace what was read; the call uses them either way.
Keep(t) ==
  /\ call[t].at = "keeping"
  /\ account' = IF Connected /\ account.id = call[t].id /\ account.cred = call[t].cred
                THEN [account EXCEPT !.cred = NextToken(@)] ELSE account
  /\ refreshing' = None
  /\ call' = [call EXCEPT ![t].at = "using", ![t].cred = NextToken(@)]
  /\ UNCHANGED <<ids, latest, google, authorizations, rule, disconnecting, left>>

\* An access token lasts about an hour.
TokenExpires ==
  /\ Connected /\ account.cred.token < MaxTokens
  /\ expired' = expired \cup {account.cred}
  /\ UNCHANGED <<credentials, revoked, authorizations, rule, call, refreshing, disconnecting, left>>

Revoke ==
  /\ Spend("google")
  /\ revoked' = revoked \cup {latest}
  /\ UNCHANGED <<credentials, expired, authorizations, rule, call, refreshing, disconnecting>>

-----------------------------------------------------------------------------
(***************************************************************************)
(* What the calls are for: Sync Runs, and requests that ask Google.        *)
(***************************************************************************)
\* DiscoverCalendars, or verify_access.
AskGoogle(t) ==
  /\ t # Scheduler /\ call[t].at = "idle" /\ account # None
  /\ Spend("admin")
  /\ call' = [call EXCEPT ![t] = [NoCall EXCEPT !.at = "asking", !.for = "request", !.id = account.id]]
  /\ UNCHANGED <<credentials, google, authorizations, rule, refreshing, disconnecting>>

\* A run begins by reading the calendars; Sync Now does so in a thread of its own.
StartRun(t, r) ==
  /\ call[t].at = "idle" /\ rule[r] = "enabled" /\ ~Running(r) /\ account # None
  /\ IF t = Scheduler THEN UNCHANGED left ELSE Spend("admin")
  /\ call' = [call EXCEPT ![t] =
       [NoCall EXCEPT !.at = "asking", !.for = "read", !.rule = r, !.id = account.id]]
  /\ UNCHANGED <<credentials, google, authorizations, rule, refreshing, disconnecting>>

\* Google answers; a run goes on to decide what to write, everything else is done.
Answer(t) ==
  /\ call[t].at = "using" /\ call[t].cred.grant \notin revoked
  /\ call' = [call EXCEPT ![t] =
       IF call[t].for = "read" THEN [@ EXCEPT !.at = "deciding", !.cred = None] ELSE NoCall]
  /\ UNCHANGED <<credentials, google, authorizations, rule, refreshing, disconnecting, left>>

\* Google answers that it no longer accepts the grant.
Rejected(t) ==
  /\ call[t].at = "using" /\ call[t].cred.grant \in revoked
  /\ call' = Fail(t)
  /\ UNCHANGED <<credentials, google, authorizations, rule, refreshing, disconnecting, left>>

\* Under for_writes the run reads its rule again, and writes only if it may still execute.
Decide(t) ==
  /\ call[t].at = "deciding"
  /\ \/ rule[call[t].rule] = "enabled" /\ call' = [call EXCEPT ![t].at = "asking", ![t].for = "write"]
     \/ call' = [call EXCEPT ![t] = NoCall]
  /\ UNCHANGED <<credentials, google, authorizations, rule, refreshing, disconnecting, left>>

\* RuleHealth._degrade
Report ==
  /\ call[Scheduler].at = "failed" /\ ~Writing(call[Scheduler].rule)
  /\ rule' = IF rule[call[Scheduler].rule] = "enabled"
             THEN [rule EXCEPT ![call[Scheduler].rule] = "degraded"] ELSE rule
  /\ call' = [call EXCEPT ![Scheduler] = NoCall]
  /\ UNCHANGED <<credentials, google, authorizations, refreshing, disconnecting, left>>

-----------------------------------------------------------------------------
(***************************************************************************)
(* The rules and the account, as the administrator changes them.           *)
(***************************************************************************)
CreateRule(r) ==
  /\ rule[r] = "none" /\ account # None
  /\ rule' = [rule EXCEPT ![r] = "draft"]
  /\ UNCHANGED <<credentials, google, authorizations, call, refreshing, disconnecting, left>>

\* A preview reads the source, so it needs an account that answers.
PreviewRule(r) ==
  /\ Spend("admin")
  /\ rule[r] \in {"draft", "paused", "degraded"} /\ ~Writing(r)
  /\ Authorized
  /\ rule' = [rule EXCEPT ![r] = "previewed"]
  /\ UNCHANGED <<credentials, google, authorizations, call, refreshing, disconnecting>>

\* Enabling asks nothing of the account.
EnableRule(r) ==
  /\ Spend("admin")
  /\ rule[r] = "previewed" /\ ~Writing(r)
  /\ rule' = [rule EXCEPT ![r] = "enabled"]
  /\ reenabled' = reenabled \cup {r}
  /\ UNCHANGED <<credentials, google, authorizations, call, refreshing, disconnect>>

PauseRule(r) ==
  /\ Spend("admin")
  /\ rule[r] \in {"enabled", "degraded"} /\ ~Writing(r)
  /\ rule' = [rule EXCEPT ![r] = "paused"]
  /\ UNCHANGED <<credentials, google, authorizations, call, refreshing, disconnecting>>

\* DisconnectConnectedAccount reads the rules it will degrade ...
Disconnect ==
  /\ Spend("admin")
  /\ disconnect.at = "idle" /\ account # None
  /\ disconnect' = [at |-> "degrading", todo |-> {r \in Rules : Exists(r)}]
  /\ UNCHANGED <<credentials, google, authorizations, rule, call, refreshing, reenabled>>

\* Mutant: a write in flight is not waited for.
DegradeUnlocked(r) ==
  /\ r \in disconnect.todo
  /\ rule' = IF rule[r] \in {"previewed", "enabled"} THEN [rule EXCEPT ![r] = "degraded"] ELSE rule
  /\ disconnect' = [disconnect EXCEPT !.todo = @ \ {r}]
  /\ reenabled' = reenabled \ {r}
  /\ UNCHANGED <<credentials, google, authorizations, call, refreshing, left>>

\* ... degrades each under its for_writes ...
Degrade(r) ==
  /\ r \in disconnect.todo /\ ~Writing(r)
  /\ rule' = IF rule[r] \in {"previewed", "enabled"} THEN [rule EXCEPT ![r] = "degraded"] ELSE rule
  /\ disconnect' = [disconnect EXCEPT !.todo = @ \ {r}]
  /\ reenabled' = reenabled \ {r}
  /\ UNCHANGED <<credentials, google, authorizations, call, refreshing, left>>

\* Mutant: the credentials become null.
DiscardToNull ==
  /\ disconnect.at = "degrading" /\ disconnect.todo = {}
  /\ account' = IF account = None THEN None
                ELSE [account EXCEPT !.connected = FALSE, !.cred = None]
  /\ disconnect' = [disconnect EXCEPT !.at = "idle"]
  /\ UNCHANGED <<ids, latest, google, authorizations, rule, call, refreshing, reenabled, left>>

\* ... and discards the credentials.
Discard ==
  /\ disconnect.at = "degrading" /\ disconnect.todo = {}
  /\ account' = IF account = None THEN None
                ELSE [account EXCEPT !.connected = FALSE, !.cred = Cleared]
  /\ disconnect' = [disconnect EXCEPT !.at = "idle"]
  /\ UNCHANGED <<ids, latest, google, authorizations, rule, call, refreshing, reenabled, left>>

\* Every rule of the account is locked against runs and writes.
DeleteAccount ==
  /\ Spend("admin")
  /\ account # None /\ ~account.connected
  /\ \A r \in Rules : ~Running(r)
  /\ account' = None
  /\ rule' = [r \in Rules |-> IF Exists(r) THEN "purged" ELSE rule[r]]
  /\ UNCHANGED <<ids, latest, google, authorizations, call, refreshing, disconnecting>>

\* Requests, runs and locks are lost; what is stored, states included, is not.
Restart ==
  /\ Spend("google")
  /\ call' = [t \in Callers |-> NoCall]
  /\ refreshing' = None
  /\ disconnect' = [at |-> "idle", todo |-> {}]
  /\ callback' = [c \in Callbacks |->
       IF callback[c].at = "exchanging" THEN [callback[c] EXCEPT !.at = "refused"]
       ELSE callback[c]]
  /\ UNCHANGED <<credentials, google, state, rule, reenabled>>

CallSteps(t) ==
  \/ Unavailable(t) \/ StillValid(t) \/ Refresh(t) \/ Refreshed(t) \/ RefreshRefused(t)
  \/ Keep(t) \/ Answer(t) \/ Rejected(t) \/ Decide(t)

CallbackSteps(c) == Save(c) \/ Decline(c)

Next ==
  \/ \E s \in States : StartAuthorization(s)
  \/ \E c \in Callbacks :
       \/ CallbackSteps(c)
       \/ \E s \in States, code, late \in BOOLEAN : Callback(c, s, code, late)
  \/ \E t \in Callers :
       \/ CallSteps(t) \/ AskGoogle(t)
       \/ \E r \in Rules : StartRun(t, r)
  \/ Report \/ TokenExpires \/ Revoke
  \/ \E r \in Rules : CreateRule(r) \/ PreviewRule(r) \/ EnableRule(r) \/ PauseRule(r) \/ Degrade(r)
  \/ Disconnect \/ Discard \/ DeleteAccount \/ Restart

Spec == Init /\ [][Next]_vars

(***************************************************************************)
(* Every thread goes on, Google answers, and the scheduler's passes reach  *)
(* each enabled rule.  A caller that waits for the refresh lock gets it    *)
(* some day, as do the holders of for_writes.  Nothing is asked of people. *)
(***************************************************************************)
Fairness ==
  /\ \A t \in Callers : SF_vars(CallSteps(t))
  /\ \A c \in Callbacks : WF_vars(CallbackSteps(c))
  /\ \A r \in Rules : SF_vars(StartRun(Scheduler, r)) /\ SF_vars(Degrade(r))
  /\ SF_vars(Report) /\ WF_vars(Discard)

FairSpec == Spec /\ Fairness

-----------------------------------------------------------------------------
(***************************************************************************)
(* What must hold.                                                         *)
(***************************************************************************)
\* A connected account holds credentials of the authorization made last and a disconnected one
\* holds none, whatever refreshes and callbacks were in flight meanwhile (replace_credentials,
\* oauth.py:238-242).
StoredIsLatest ==
  account # None =>
    IF account.connected THEN account.cred.grant = latest ELSE account.cred = Cleared

\* While a request refreshes, nobody else refreshes the same grant: what it read is still stored
\* unless the account was reauthorized, disconnected or deleted, so the new token is kept and the
\* requests that waited use it (the refresh lock, oauth.py:250-253).
RefreshedOnce ==
  \A t \in Callers :
    (/\ call[t].at \in {"refreshing", "keeping"}
     /\ Connected /\ account.id = call[t].id /\ account.cred.grant = call[t].cred.grant)
      => account.cred = call[t].cred

\* What is stored is typed, is the administrator's last word, and is refreshed by one caller at a
\* time, for the authorization it was read from.
CredentialsInv == TypeOK /\ StoredIsLatest /\ RefreshedOnce

\* However often its callback is delivered, an authorization the administrator started is used
\* once: no two callbacks go past the same state (authorization_states.py:29-40).
SingleUse ==
  \A c, d \in Callbacks :
    (/\ callback[c].at \in {"exchanging", "connected"}
     /\ callback[d].at \in {"exchanging", "connected"}
     /\ callback[c].via = callback[d].via) => c = d

\* Once credentials were discarded no write is in flight with them, except of a rule that was
\* enabled after a disconnection had degraded it, or that was created after it listed the rules (accounts.py:73-80).
DisconnectedWritesNothing ==
  (account # None /\ ~account.connected) => \A r \in Rules : Writing(r) => r \in reenabled

\* A disconnection completes: it waits for writes, which wait for the refresh lock, which is
\* held while Google is asked; nobody waits for it or for the administrator.
DisconnectionsEnd == disconnect.at # "idle" ~> disconnect.at = "idle"

\* A rule that was enabled around a disconnection or lost its grant does not stay enabled, even
\* though enabling checks nothing: its next scheduled run degrades it (unless the account was
\* authorized again).
StopsUnauthorized ==
  \A r \in Rules :
    (rule[r] = "enabled" /\ ~Authorized) ~> (rule[r] # "enabled" \/ Authorized)
=============================================================================
